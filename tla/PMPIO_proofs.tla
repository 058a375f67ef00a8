---------------------------- MODULE PMPIO_proofs ----------------------------
(***************************************************************************)
(* Theorems about PMPIO for any number of ranks and groups, any set of     *)
(* batons and any program that waits for a baton before it hands it off.   *)
(***************************************************************************)
EXTENDS PMPIO, WellFoundedInduction, TLAPS

-----------------------------------------------------------------------------
(* The arithmetic of PMPIO_Init *)

\* Quotient and remainder of natural numbers, as the provers need them.
LEMMA DivMod ==
    ASSUME NEW x \in Nat, NEW d \in Nat \ {0}
    PROVE  /\ x \div d \in Nat /\ x % d \in 0 .. (d - 1)
           /\ x = d * (x \div d) + (x % d)
  OBVIOUS

LEMMA DivMonotone ==
    ASSUME NEW x \in Nat, NEW y \in Nat, NEW d \in Nat \ {0}, x <= y
    PROVE  x \div d <= y \div d
  OBVIOUS

\* A multiple of d has a larger quotient than every number below it.
LEMMA DivBelowMultiple ==
    ASSUME NEW x \in Nat, NEW y \in Nat, NEW d \in Nat \ {0}, x < y, y % d = 0
    PROVE  x \div d < y \div d
  <1> DEFINE qx == x \div d
             qy == y \div d
  <1>1. qx \in Nat /\ qy \in Nat /\ x = d * qx + (x % d) /\ y = d * qy
    BY DivMod
  <1>2. x % d \in 0 .. (d - 1)
    BY DivMod
  <1>3. SUFFICES ASSUME qx >= qy PROVE FALSE
    BY <1>1
  <1>4. d * qx >= d * qy
    BY <1>1, <1>3
  <1> QED
    BY <1>1, <1>2, <1>4

LEMMA DivBelowProduct ==
    ASSUME NEW x \in Nat, NEW n \in Nat, NEW d \in Nat \ {0}, x < n * d
    PROVE  x \div d < n
  <1> DEFINE qx == x \div d
  <1>1. qx \in Nat /\ x = d * qx + (x % d) /\ x % d \in 0 .. (d - 1)
    BY DivMod
  <1>2. SUFFICES ASSUME qx >= n PROVE FALSE
    BY <1>1
  <1>3. d * qx >= d * n
    BY <1>1, <1>2
  <1> QED
    BY <1>1, <1>3

-----------------------------------------------------------------------------
(* The groups *)

LEMMA SizesType ==
    /\ groupSize \in Nat /\ numGroupsWithExtraProc \in Nat /\ commSplit \in Nat
    /\ commSize = numGroups * groupSize + numGroupsWithExtraProc
    /\ groupSize = 0 => commSplit = commSize
  <1>1. /\ groupSize \in Nat /\ numGroupsWithExtraProc \in Nat
        /\ commSize = numGroups * groupSize + numGroupsWithExtraProc
    BY SizesAssumption, DivMod DEF groupSize, numGroupsWithExtraProc
  <1>2. commSplit \in Nat
    BY <1>1 DEF commSplit
  <1>3. groupSize = 0 => commSplit = commSize
    BY <1>1, SizesAssumption DEF commSplit
  <1> QED
    BY <1>1, <1>2, <1>3

\* Ranks past the split exist only if the short groups are not empty.
LEMMA ShortGroups ==
    ASSUME NEW p \in Rank, ~(p < commSplit)
    PROVE  groupSize \in Nat \ {0} /\ p - commSplit \in Nat
  BY SizesType, SizesAssumption DEF Rank

LEMMA GroupRankType ==
    ASSUME NEW p \in Rank
    PROVE  groupRank(p) \in Nat
  <1> USE SizesType
  <1>1. CASE p < commSplit
    <2>1. p \in Nat /\ groupSize + 1 \in Nat \ {0}
      BY SizesAssumption DEF Rank
    <2> QED
      BY <1>1, <2>1, DivMod DEF groupRank
  <1>2. CASE ~(p < commSplit)
    <2>1. (p - commSplit) \div groupSize \in Nat
      BY <1>2, ShortGroups, DivMod
    <2> QED
      BY <1>2, <2>1 DEF groupRank
  <1> QED
    BY <1>1, <1>2

\* A rank after another is in the same group or a later one.
LEMMA GroupsInOrder ==
    ASSUME NEW p \in Rank, NEW q \in Rank, p < q
    PROVE  groupRank(p) <= groupRank(q)
  <1> USE SizesType
  <1>0. p \in Nat /\ q \in Nat /\ groupSize + 1 \in Nat \ {0}
    BY SizesAssumption DEF Rank
  <1>1. CASE q < commSplit
    <2>1. p < commSplit
      BY <1>0, <1>1
    <2>2. p \div (groupSize + 1) <= q \div (groupSize + 1)
      BY <1>0, DivMonotone
    <2> QED
      BY <1>1, <2>1, <2>2 DEF groupRank
  <1>2. CASE p < commSplit /\ ~(q < commSplit)
    <2>1. p \div (groupSize + 1) < numGroupsWithExtraProc
      BY <1>0, <1>2, DivBelowProduct DEF commSplit
    <2>2. (q - commSplit) \div groupSize \in Nat
      BY <1>2, ShortGroups, DivMod
    <2>3. p \div (groupSize + 1) \in Nat
      BY <1>0, DivMod
    <2> QED
      BY <1>2, <2>1, <2>2, <2>3 DEF groupRank
  <1>3. CASE ~(p < commSplit)
    <2>1. ~(q < commSplit)
      BY <1>0, <1>3
    <2>2. /\ groupSize \in Nat \ {0}
          /\ p - commSplit \in Nat /\ q - commSplit \in Nat
      BY <1>3, <2>1, ShortGroups
    <2>3. (p - commSplit) \div groupSize <= (q - commSplit) \div groupSize
      BY <1>0, <2>2, DivMonotone
    <2>4. /\ (p - commSplit) \div groupSize \in Nat
          /\ (q - commSplit) \div groupSize \in Nat
      BY <2>2, DivMod
    <2> QED
      BY <1>3, <2>1, <2>3, <2>4 DEF groupRank
  <1> QED
    BY <1>1, <1>2, <1>3

\* A rank with no rank before it is the first of its group.
LEMMA FirstOfGroup ==
    ASSUME NEW p \in Rank, NEW q \in Rank, p < q, ~hasBefore(q)
    PROVE  groupRank(p) # groupRank(q)
  <1> USE SizesType
  <1>0. p \in Nat /\ q \in Nat /\ groupSize + 1 \in Nat \ {0}
    BY SizesAssumption DEF Rank
  <1>1. CASE q < commSplit
    <2>1. q % (groupSize + 1) \in Nat
      BY <1>0, DivMod
    <2>2. q % (groupSize + 1) = 0
      BY <1>1, <2>1 DEF hasBefore, rankInGroup
    <2>3. p \div (groupSize + 1) < q \div (groupSize + 1)
      BY <1>0, <2>2, DivBelowMultiple
    <2>4. p \div (groupSize + 1) \in Nat /\ q \div (groupSize + 1) \in Nat
      BY <1>0, DivMod
    <2> QED
      BY <1>0, <1>1, <2>3, <2>4 DEF groupRank
  <1>2. CASE p < commSplit /\ ~(q < commSplit)
    <2>1. p \div (groupSize + 1) < numGroupsWithExtraProc
      BY <1>0, <1>2, DivBelowProduct DEF commSplit
    <2>2. (q - commSplit) \div groupSize \in Nat
      BY <1>2, ShortGroups, DivMod
    <2>3. p \div (groupSize + 1) \in Nat
      BY <1>0, DivMod
    <2> QED
      BY <1>2, <2>1, <2>2, <2>3 DEF groupRank
  <1>3. CASE ~(p < commSplit)
    <2>1. ~(q < commSplit)
      BY <1>0, <1>3
    <2>2. /\ groupSize \in Nat \ {0}
          /\ p - commSplit \in Nat /\ q - commSplit \in Nat
      BY <1>3, <2>1, ShortGroups
    <2>3. (q - commSplit) % groupSize \in Nat
      BY <2>2, DivMod
    <2>4. (q - commSplit) % groupSize = 0
      BY <2>1, <2>3 DEF hasBefore, rankInGroup
    <2>5. (p - commSplit) \div groupSize < (q - commSplit) \div groupSize
      BY <1>0, <2>2, <2>4, DivBelowMultiple
    <2>6. /\ (p - commSplit) \div groupSize \in Nat
          /\ (q - commSplit) \div groupSize \in Nat
      BY <2>2, DivMod
    <2> QED
      BY <1>3, <2>1, <2>5, <2>6 DEF groupRank
  <1> QED
    BY <1>1, <1>2, <1>3

-----------------------------------------------------------------------------
(* Type correctness *)

\* Changing one entry of one row of a table keeps its type, also when the row
\* is not one of the table's.
LEMMA TableType ==
    ASSUME NEW R, NEW C, NEW V, NEW f \in [R -> [C -> V]],
           NEW r, NEW c \in C, NEW v \in V
    PROVE  [f EXCEPT ![r][c] = v] \in [R -> [C -> V]]
  <1>1. CASE r \in R
    BY <1>1
  <1>2. CASE r \notin R
    BY <1>2
  <1> QED
    BY <1>1, <1>2

LEMMA AtProgram ==
    ASSUME TypeOK, NEW p \in Rank, NEW b \in Batons, NEW call, At(p, call, b)
    PROVE  pc[p] \in 1 .. Len(Program) /\ Program[pc[p]] = <<call, b>>
  BY ProgramAssumption DEF At, Done, TypeOK

LEMMA AdvanceType ==
    ASSUME TypeOK, NEW p \in Rank, pc[p] \in 1 .. Len(Program), Advance(p)
    PROVE  pc' \in [Rank -> 1 .. (Len(Program) + 1)]
  <1>1. Len(Program) \in Nat
    BY ProgramAssumption
  <1>2. pc[p] + 1 \in 1 .. (Len(Program) + 1)
    BY <1>1
  <1> QED
    BY <1>2 DEF Advance, TypeOK

LEMMA TypeInit == Init => TypeOK
  BY ProgramAssumption DEF Init, TypeOK

LEMMA TypeStep == TypeOK /\ [Next]_vars => TypeOK'
  <1> SUFFICES ASSUME TypeOK, [Next]_vars PROVE TypeOK'
    OBVIOUS
  <1> USE ProgramAssumption
  <1>1. ASSUME NEW p \in Rank, NEW b \in Batons, Start(p, b) PROVE TypeOK'
    BY <1>1, AtProgram DEF Start, TypeOK, Advance, Callback
  <1>2. ASSUME NEW p \in Rank, NEW b \in Batons, Receive(p, b) PROVE TypeOK'
    BY <1>2, AtProgram DEF Receive, TypeOK, Advance, Callback
  <1>3. ASSUME NEW p \in Rank, NEW b \in Batons, ReceiveError(p, b)
        PROVE  TypeOK'
    BY <1>3, AtProgram DEF ReceiveError, TypeOK, Advance
  <1>4. ASSUME NEW p \in Rank, NEW b \in Batons, HandOff(p, b) PROVE TypeOK'
    <2>1. pc[p] \in 1 .. Len(Program)
      BY <1>4, AtProgram DEF HandOff
    <2>2. pc' \in [Rank -> 1 .. (Len(Program) + 1)]
      <3>1. CASE hasAfter(p)
        BY <1>4, <3>1 DEF HandOff, TypeOK
      <3>2. CASE ~hasAfter(p)
        BY <1>4, <2>1, <3>2, AdvanceType DEF HandOff
      <3> QED
        BY <3>1, <3>2
    <2>3. sending' \in [Rank -> BOOLEAN]
      BY <1>4 DEF HandOff, TypeOK
    <2>4. file' \in [Rank -> [Batons -> {"none", "open", "create"}]]
      BY <1>4 DEF HandOff, TypeOK
    <2>5. chan' \in [Rank -> [Batons -> {"none", "OK", "ERR"}]]
      <3>1. baton(p, b) \in {"none", "OK", "ERR"}
        BY DEF baton, TypeOK
      <3>2. CASE hasAfter(p)
        <4>1. chan \in [Rank -> [Batons -> {"none", "OK", "ERR"}]]
          BY DEF TypeOK
        <4>2. chan' = [chan EXCEPT ![p + 1][b] = baton(p, b)]
          BY <1>4, <3>2 DEF HandOff
        <4> QED
          BY <3>1, <4>1, <4>2, TableType
      <3>3. CASE ~hasAfter(p)
        BY <1>4, <3>3 DEF HandOff, TypeOK
      <3> QED
        BY <3>2, <3>3
    <2>6. mpiVal' \in [Rank -> [Batons -> {"OK", "ERR"}]]
      BY <1>4 DEF HandOff, TypeOK
    <2> QED
      BY <2>2, <2>3, <2>4, <2>5, <2>6 DEF TypeOK
  <1>5. ASSUME NEW p \in Rank, NEW b \in Batons, Sent(p, b) PROVE TypeOK'
    <2>1. pc[p] \in 1 .. Len(Program)
      BY <1>5 DEF Sent, Done, TypeOK
    <2> QED
      BY <1>5, <2>1 DEF Sent, TypeOK, Advance
  <1>6. CASE UNCHANGED vars
    BY <1>6 DEF vars, TypeOK
  <1> QED
    BY <1>1, <1>2, <1>3, <1>4, <1>5, <1>6 DEF Next, Step, Finished

\* Every field and message has its type in every reachable state.
THEOREM TypeCorrect == Spec => []TypeOK
  BY TypeInit, TypeStep, PTL DEF Spec

-----------------------------------------------------------------------------
(* Taking turns *)

\* Rank p has returned from call c.
Past(p, c) == \E i \in 1 .. (pc[p] - 1) : Program[i] = c

Waited(p, b) == Past(p, <<"wait", b>>)

\* Rank p has closed the file of baton b.
Handed(p, b) ==
    \/ Past(p, <<"hand", b>>)
    \/ sending[p] /\ ~Done(p) /\ Program[pc[p]] = <<"hand", b>>

LEMMA AdvancePast ==
    ASSUME TypeOK, NEW p \in Rank, pc[p] \in 1 .. Len(Program), Advance(p),
           NEW r \in Rank, NEW c
    PROVE  Past(r, c)' <=> Past(r, c) \/ (r = p /\ c = Program[pc[p]])
  <1>1. CASE r = p
    <2>1. pc'[p] = pc[p] + 1 /\ pc[p] \in Nat \ {0}
      BY ProgramAssumption DEF Advance, TypeOK
    <2>2. 1 .. (pc'[p] - 1) = (1 .. (pc[p] - 1)) \cup {pc[p]}
      BY <2>1
    <2> QED
      BY <1>1, <2>2 DEF Past
  <1>2. CASE r # p
    <2>1. pc'[r] = pc[r]
      BY <1>2 DEF Advance, TypeOK
    <2> QED
      BY <1>2, <2>1 DEF Past
  <1> QED
    BY <1>1, <1>2

LEMMA AtWait ==
    ASSUME WellUsed, TypeOK, NEW p \in Rank, NEW b \in Batons, At(p, "wait", b)
    PROVE  ~Waited(p, b) /\ ~Handed(p, b)
  <1>1. pc[p] \in 1 .. Len(Program) /\ Program[pc[p]] = <<"wait", b>>
    BY AtProgram
  <1>2. Len(Program) \in Nat /\ ~sending[p]
    BY ProgramAssumption DEF At
  <1>3. ~Waited(p, b)
    BY <1>1, <1>2 DEF Waited, Past, WellUsed
  <1>4. ASSUME Past(p, <<"hand", b>>) PROVE FALSE
    <2>1. PICK i \in 1 .. (pc[p] - 1) : Program[i] = <<"hand", b>>
      BY <1>4 DEF Past
    <2>2. i \in 1 .. Len(Program)
      BY <1>1, <1>2
    <2>3. PICK j \in 1 .. (i - 1) : Program[j] = <<"wait", b>>
      BY <2>1, <2>2 DEF WellUsed
    <2>4. j \in 1 .. (pc[p] - 1)
      BY <1>1, <1>2
    <2> QED
      BY <1>3, <2>3, <2>4 DEF Waited, Past
  <1> QED
    BY <1>2, <1>3, <1>4 DEF Handed

\* What a return from a wait does to the turns.
LEMMA WaitEffect ==
    ASSUME WellUsed, TypeOK, NEW p \in Rank, NEW b \in Batons,
           At(p, "wait", b), Advance(p), sending' = sending,
           NEW r \in Rank, NEW d \in Batons
    PROVE  /\ Waited(r, d)' <=> Waited(r, d) \/ (r = p /\ d = b)
           /\ Handed(r, d)' <=> Handed(r, d)
  <1>1. pc[p] \in 1 .. Len(Program) /\ Program[pc[p]] = <<"wait", b>>
    BY AtProgram
  <1>2. Waited(r, d)' <=> Waited(r, d) \/ (r = p /\ d = b)
    BY <1>1, AdvancePast DEF Waited
  <1>3. Past(r, <<"hand", d>>)' <=> Past(r, <<"hand", d>>)
    BY <1>1, AdvancePast
  <1>4. sending[r] => pc'[r] = pc[r]
    BY DEF At, Advance, TypeOK
  <1> QED
    BY <1>2, <1>3, <1>4 DEF Handed, Done

\* What closing the file and starting to send do to the turns.
LEMMA HandOffEffect ==
    ASSUME TypeOK, NEW p \in Rank, NEW b \in Batons, HandOff(p, b),
           NEW r \in Rank, NEW d \in Batons
    PROVE  /\ Waited(r, d)' <=> Waited(r, d)
           /\ Handed(r, d)' <=> Handed(r, d) \/ (r = p /\ d = b)
  <1>1. /\ pc[p] \in 1 .. Len(Program) /\ Program[pc[p]] = <<"hand", b>>
        /\ ~Done(p) /\ ~sending[p]
    BY AtProgram DEF HandOff, At
  <1>2. CASE hasAfter(p)
    <2>1. pc' = pc /\ sending' = [sending EXCEPT ![p] = TRUE]
      BY <1>2 DEF HandOff
    <2>2. Waited(r, d)' <=> Waited(r, d)
      BY <2>1 DEF Waited, Past
    <2>3. Past(r, <<"hand", d>>)' <=> Past(r, <<"hand", d>>)
      BY <2>1 DEF Past
    <2>4. CASE r = p
      <3>1. sending'[r] /\ (Done(r)' <=> Done(r)) /\ pc'[r] = pc[r]
        BY <2>1, <2>4 DEF TypeOK, Done
      <3> QED
        BY <1>1, <2>2, <2>3, <2>4, <3>1 DEF Handed
    <2>5. CASE r # p
      <3>1. sending'[r] = sending[r] /\ (Done(r)' <=> Done(r)) /\ pc'[r] = pc[r]
        BY <2>1, <2>5 DEF TypeOK, Done
      <3> QED
        BY <2>2, <2>3, <2>5, <3>1 DEF Handed
    <2> QED
      BY <2>4, <2>5
  <1>3. CASE ~hasAfter(p)
    <2>1. Advance(p) /\ sending' = sending
      BY <1>3 DEF HandOff
    <2>2. Waited(r, d)' <=> Waited(r, d)
      BY <1>1, <2>1, AdvancePast DEF Waited
    <2>3. Past(r, <<"hand", d>>)' <=> Past(r, <<"hand", d>>) \/ (r = p /\ d = b)
      BY <1>1, <2>1, AdvancePast
    <2>4. sending[r] => pc'[r] = pc[r]
      BY <1>1, <2>1 DEF Advance, TypeOK
    <2> QED
      BY <2>1, <2>2, <2>3, <2>4 DEF Handed, Done
  <1> QED
    BY <1>2, <1>3

\* The return of a send changes no turn: the file was closed before.
LEMMA SentEffect ==
    ASSUME TypeOK, NEW p \in Rank, NEW b \in Batons, Sent(p, b),
           NEW r \in Rank, NEW d \in Batons
    PROVE  /\ Waited(r, d)' <=> Waited(r, d)
           /\ Handed(r, d)' <=> Handed(r, d)
  <1>1. /\ pc[p] \in 1 .. Len(Program) /\ Program[pc[p]] = <<"hand", b>>
        /\ ~Done(p) /\ sending[p] /\ Advance(p)
        /\ sending' = [sending EXCEPT ![p] = FALSE]
    BY ProgramAssumption DEF Sent, Done, TypeOK
  <1>2. Waited(r, d)' <=> Waited(r, d)
    BY <1>1, AdvancePast DEF Waited
  <1>3. Past(r, <<"hand", d>>)' <=> Past(r, <<"hand", d>>) \/ (r = p /\ d = b)
    BY <1>1, AdvancePast
  <1>4. CASE r = p
    <2>1. ~sending'[r]
      BY <1>1, <1>4 DEF TypeOK
    <2>2. Handed(r, d)' <=> Past(r, <<"hand", d>>)'
      BY <2>1 DEF Handed
    <2>3. Handed(r, d) <=> Past(r, <<"hand", d>>) \/ d = b
      BY <1>1, <1>4 DEF Handed
    <2> QED
      BY <1>2, <1>3, <1>4, <2>2, <2>3
  <1>5. CASE r # p
    <2>1. sending'[r] = sending[r] /\ pc'[r] = pc[r]
      BY <1>1, <1>5 DEF TypeOK, Advance
    <2> QED
      BY <1>2, <1>3, <1>5, <2>1 DEF Handed, Done
  <1> QED
    BY <1>4, <1>5

LEMMA AtHand ==
    ASSUME WellUsed, TypeOK, NEW p \in Rank, NEW b \in Batons, At(p, "hand", b)
    PROVE  Waited(p, b)
  <1>1. pc[p] \in 1 .. Len(Program) /\ Program[pc[p]] = <<"hand", b>>
    BY AtProgram
  <1>2. PICK j \in 1 .. (pc[p] - 1) : Program[j] = <<"wait", b>>
    BY <1>1 DEF WellUsed
  <1> QED
    BY <1>2 DEF Waited, Past

-----------------------------------------------------------------------------
(* The inductive invariant *)

HolderHasTurn == \A p \in Rank : \A b \in Batons :
    Has(p, b) => Waited(p, b) /\ ~Handed(p, b)

MessageFromClosed == \A q \in Rank : \A b \in Batons :
    chan[q][b] # "none" =>
        q - 1 \in Rank /\ Handed(q - 1, b) /\ chan[q][b] = mpiVal[q - 1][b]

TurnsInOrder == \A p, q \in Rank : \A b \in Batons :
    p < q /\ SameGroup(p, q) /\ Waited(q, b) => Handed(p, b)

ErrorPassed == \A p, q \in Rank : \A b \in Batons :
    p < q /\ SameGroup(p, q) /\ Waited(q, b) /\ mpiVal[p][b] = "ERR"
        => mpiVal[q][b] = "ERR"

ErrorHasNoFile == \A p \in Rank : \A b \in Batons :
    mpiVal[p][b] = "ERR" => Waited(p, b) /\ ~Has(p, b)

HandedWaited == \A p \in Rank : \A b \in Batons :
    Handed(p, b) => Waited(p, b)

Inv == /\ TypeOK
       /\ HolderHasTurn
       /\ MessageFromClosed
       /\ TurnsInOrder
       /\ ErrorPassed
       /\ ErrorHasNoFile
       /\ HandedWaited

\* All ranks between two of a group are in the group.
LEMMA BetweenSameGroup ==
    ASSUME NEW p \in Rank, NEW q \in Rank, p < q, SameGroup(p, q), q - 1 \in Rank
    PROVE  p = q - 1 \/ (p < q - 1 /\ SameGroup(p, q - 1))
  <1>1. p \in Nat /\ q \in Nat
    BY SizesAssumption DEF Rank
  <1>2. CASE p = q - 1
    BY <1>2
  <1>3. CASE p < q - 1
    <2>1. groupRank(p) <= groupRank(q - 1) /\ groupRank(q - 1) <= groupRank(q)
      BY <1>1, <1>3, GroupsInOrder
    <2> HIDE DEF groupRank
    <2> QED
      BY <1>3, <2>1, GroupRankType DEF SameGroup
  <1> QED
    BY <1>1, <1>2, <1>3

\* A rank that gets its turn comes after all the others before it.
LEMMA TurnAfterOthers ==
    ASSUME Inv, NEW p \in Rank, NEW q \in Rank, NEW b \in Batons,
           p < q, SameGroup(p, q), ~hasBefore(q) \/ chan[q][b] # "none"
    PROVE  Handed(p, b)
  <1>1. hasBefore(q)
    BY FirstOfGroup DEF SameGroup
  <1>2. chan[q][b] # "none"
    BY <1>1
  <1>3. q - 1 \in Rank /\ Handed(q - 1, b)
    BY <1>2 DEF Inv, MessageFromClosed
  <1>4. p = q - 1 \/ (p < q - 1 /\ SameGroup(p, q - 1))
    BY <1>3, BetweenSameGroup
  <1>5. CASE p = q - 1
    BY <1>3, <1>5
  <1>6. CASE p < q - 1 /\ SameGroup(p, q - 1)
    <2>1. Waited(q - 1, b)
      BY <1>3 DEF Inv, HandedWaited
    <2> QED
      BY <1>3, <1>6, <2>1 DEF Inv, TurnsInOrder
  <1> QED
    BY <1>4, <1>5, <1>6

\* An error of a rank before reaches the rank that gets its turn.
LEMMA ErrorReaches ==
    ASSUME Inv, NEW p \in Rank, NEW q \in Rank, NEW b \in Batons,
           p < q, SameGroup(p, q), ~hasBefore(q) \/ chan[q][b] # "none",
           mpiVal[p][b] = "ERR"
    PROVE  hasBefore(q) /\ chan[q][b] = "ERR"
  <1>1. hasBefore(q)
    BY FirstOfGroup DEF SameGroup
  <1>2. q - 1 \in Rank /\ Handed(q - 1, b) /\ chan[q][b] = mpiVal[q - 1][b]
    BY <1>1 DEF Inv, MessageFromClosed
  <1>3. p = q - 1 \/ (p < q - 1 /\ SameGroup(p, q - 1))
    BY <1>2, BetweenSameGroup
  <1>4. CASE p = q - 1
    BY <1>1, <1>2, <1>4
  <1>5. CASE p < q - 1 /\ SameGroup(p, q - 1)
    <2>1. Waited(q - 1, b)
      BY <1>2 DEF Inv, HandedWaited
    <2>2. mpiVal[q - 1][b] = "ERR"
      BY <1>2, <1>5, <2>1 DEF Inv, ErrorPassed
    <2> QED
      BY <1>1, <1>2, <2>2
  <1> QED
    BY <1>3, <1>4, <1>5

\* The three ways PMPIO_WaitForBaton returns.
LEMMA WaitPreserves ==
    ASSUME WellUsed, Inv, TypeOK', NEW p \in Rank, NEW b \in Batons,
           Start(p, b) \/ Receive(p, b) \/ ReceiveError(p, b)
    PROVE  Inv'
  <1>1. /\ At(p, "wait", b) /\ Advance(p) /\ sending' = sending /\ TypeOK
        /\ ~hasBefore(p) \/ chan[p][b] # "none"
    BY DEF Start, Receive, ReceiveError, Inv
  <1>2. \A r \in Rank : \A d \in Batons :
          /\ Waited(r, d)' <=> Waited(r, d) \/ (r = p /\ d = b)
          /\ Handed(r, d)' <=> Handed(r, d)
    BY <1>1, WaitEffect
  <1>3. ~Waited(p, b) /\ ~Handed(p, b)
    BY <1>1, AtWait
  \* Only p's own entries for b change.
  <1>4. \A r \in Rank : \A d \in Batons : r # p \/ d # b =>
          /\ file'[r][d] = file[r][d]
          /\ mpiVal'[r][d] = mpiVal[r][d]
          /\ chan'[r][d] = chan[r][d]
    BY DEF Start, Receive, ReceiveError, Inv, TypeOK
  \* An error reaches mpiVal together with no file.
  <1>5. /\ mpiVal'[p][b] = "ERR" => ~Has(p, b)'
        /\ chan'[p][b] = "none" \/ chan'[p][b] = chan[p][b]
        /\ hasBefore(p) /\ chan[p][b] = "ERR" => mpiVal'[p][b] = "ERR"
    <2>0. ~Has(p, b) /\ mpiVal[p][b] # "ERR"
      BY <1>3 DEF Inv, HolderHasTurn, ErrorHasNoFile
    <2>1. CASE Start(p, b)
      BY <2>0, <2>1 DEF Start, Inv, TypeOK
    <2>2. CASE Receive(p, b)
      BY <2>0, <2>2 DEF Receive, Inv, TypeOK
    <2>3. CASE ReceiveError(p, b)
      BY <2>0, <2>3 DEF ReceiveError, Inv, TypeOK, Has
    <2> QED
      BY <2>1, <2>2, <2>3
  <1>6. HolderHasTurn'
    BY <1>2, <1>3, <1>4 DEF Inv, HolderHasTurn, Has
  <1>7. MessageFromClosed'
    <2> SUFFICES ASSUME NEW q \in Rank, NEW d \in Batons, chan'[q][d] # "none"
                 PROVE  q - 1 \in Rank /\ Handed(q - 1, d)'
                          /\ chan'[q][d] = mpiVal'[q - 1][d]
      BY DEF MessageFromClosed
    <2>1. chan'[q][d] = chan[q][d]
      BY <1>4, <1>5
    <2>2. q - 1 \in Rank /\ Handed(q - 1, d) /\ chan[q][d] = mpiVal[q - 1][d]
      BY <2>1 DEF Inv, MessageFromClosed
    <2>3. q - 1 # p \/ d # b
      BY <1>3, <2>2
    <2> QED
      BY <1>2, <1>4, <2>1, <2>2, <2>3
  <1>8. TurnsInOrder'
    <2> SUFFICES ASSUME NEW r \in Rank, NEW q \in Rank, NEW d \in Batons,
                        r < q, SameGroup(r, q), Waited(q, d)'
                 PROVE  Handed(r, d)'
      BY DEF TurnsInOrder, SameGroup
    <2>1. CASE Waited(q, d)
      BY <1>2, <2>1 DEF Inv, TurnsInOrder
    <2>2. CASE q = p /\ d = b
      BY <1>1, <1>2, <2>2, TurnAfterOthers
    <2> QED
      BY <1>2, <2>1, <2>2
  <1>9. ErrorPassed'
    <2> SUFFICES ASSUME NEW r \in Rank, NEW q \in Rank, NEW d \in Batons,
                        r < q, SameGroup(r, q), Waited(q, d)', mpiVal'[r][d] = "ERR"
                 PROVE  mpiVal'[q][d] = "ERR"
      BY DEF ErrorPassed, SameGroup
    <2>1. r \in Nat /\ q \in Nat
      BY SizesAssumption DEF Rank
    <2>2. CASE q = p /\ d = b
      <3>1. mpiVal[r][d] = "ERR"
        BY <1>4, <2>1, <2>2
      <3>2. hasBefore(p) /\ chan[p][b] = "ERR"
        BY <1>1, <2>2, <3>1, ErrorReaches
      <3> QED
        BY <1>5, <2>2, <3>2
    <2>3. CASE ~(q = p /\ d = b)
      <3>1. Waited(q, d) /\ mpiVal'[q][d] = mpiVal[q][d]
        BY <1>2, <1>4, <2>3
      <3>2. r # p \/ d # b
        BY <1>3, <3>1 DEF Inv, TurnsInOrder
      <3> QED
        BY <1>4, <3>1, <3>2 DEF Inv, ErrorPassed
    <2> QED
      BY <2>2, <2>3
  <1>10. ErrorHasNoFile'
    BY <1>2, <1>4, <1>5 DEF Inv, ErrorHasNoFile, Has
  <1>11. HandedWaited'
    BY <1>2 DEF Inv, HandedWaited
  <1> QED
    BY <1>6, <1>7, <1>8, <1>9, <1>10, <1>11 DEF Inv

LEMMA HandOffPreserves ==
    ASSUME WellUsed, Inv, TypeOK', NEW p \in Rank, NEW b \in Batons, HandOff(p, b)
    PROVE  Inv'
  <1>1. TypeOK /\ At(p, "hand", b) /\ Waited(p, b) /\ p \in Nat
    BY AtHand, SizesAssumption DEF HandOff, Inv, Rank
  <1>2. \A r \in Rank : \A d \in Batons :
          /\ Waited(r, d)' <=> Waited(r, d)
          /\ Handed(r, d)' <=> Handed(r, d) \/ (r = p /\ d = b)
    BY <1>1, HandOffEffect
  <1>3. /\ mpiVal' = mpiVal
        /\ \A r \in Rank : \A d \in Batons :
             /\ Has(r, d)' => Has(r, d)
             /\ ~(Has(p, b)')
    BY <1>1 DEF HandOff, Has, TypeOK
  <1>4. HolderHasTurn'
    BY <1>2, <1>3 DEF Inv, HolderHasTurn
  <1>5. MessageFromClosed'
    <2> SUFFICES ASSUME NEW q \in Rank, NEW d \in Batons, chan'[q][d] # "none"
                 PROVE  q - 1 \in Rank /\ Handed(q - 1, d)'
                          /\ chan'[q][d] = mpiVal[q - 1][d]
      BY <1>3 DEF MessageFromClosed
    <2>1. q \in Nat
      BY SizesAssumption DEF Rank
    <2>2. CASE chan'[q][d] = chan[q][d]
      BY <1>2, <2>2 DEF Inv, MessageFromClosed
    <2>3. CASE chan'[q][d] # chan[q][d]
      <3>1. q = p + 1 /\ d = b /\ chan'[q][d] = mpiVal[p][b]
        BY <1>1, <2>3 DEF HandOff, TypeOK, baton
      <3>2. q - 1 = p
        BY <1>1, <3>1
      <3> QED
        BY <1>2, <3>1, <3>2
    <2> QED
      BY <2>2, <2>3
  <1>6. TurnsInOrder'
    BY <1>2 DEF Inv, TurnsInOrder, SameGroup
  <1>7. ErrorPassed'
    BY <1>2, <1>3 DEF Inv, ErrorPassed, SameGroup
  <1>8. ErrorHasNoFile'
    BY <1>2, <1>3 DEF Inv, ErrorHasNoFile
  <1>9. HandedWaited'
    BY <1>1, <1>2 DEF Inv, HandedWaited
  <1> QED
    BY <1>4, <1>5, <1>6, <1>7, <1>8, <1>9 DEF Inv

LEMMA SentPreserves ==
    ASSUME WellUsed, Inv, TypeOK', NEW p \in Rank, NEW b \in Batons, Sent(p, b)
    PROVE  Inv'
  <1>1. TypeOK /\ file' = file /\ mpiVal' = mpiVal /\ chan' = chan
    BY DEF Inv, Sent
  <1>2. \A r \in Rank : \A d \in Batons :
          /\ Waited(r, d)' <=> Waited(r, d)
          /\ Handed(r, d)' <=> Handed(r, d)
    BY <1>1, SentEffect
  <1> QED
    BY <1>1, <1>2 DEF Inv, HolderHasTurn, MessageFromClosed, TurnsInOrder,
                      ErrorPassed, ErrorHasNoFile, HandedWaited, Has, SameGroup

LEMMA StutterPreserves ==
    ASSUME Inv, UNCHANGED vars
    PROVE  Inv'
  <1>1. pc' = pc /\ sending' = sending /\ file' = file /\ mpiVal' = mpiVal
        /\ chan' = chan
    BY DEF vars
  <1>2. \A r \in Rank : \A d \in Batons :
          /\ Waited(r, d)' <=> Waited(r, d)
          /\ Handed(r, d)' <=> Handed(r, d)
    BY <1>1 DEF Waited, Handed, Past, Done
  <1>3. TypeOK'
    BY <1>1 DEF Inv, TypeOK
  <1> QED
    BY <1>1, <1>2, <1>3 DEF Inv, HolderHasTurn, MessageFromClosed, TurnsInOrder,
       ErrorPassed, ErrorHasNoFile, HandedWaited, Has, SameGroup

THEOREM InvCorrect == ASSUME WellUsed PROVE Spec => []Inv
  <1>1. Init => Inv
    <2> SUFFICES ASSUME Init PROVE Inv
      OBVIOUS
    <2>1. \A p \in Rank : \A c : ~Past(p, c)
      BY DEF Init, Past
    <2> QED
      BY <2>1, TypeInit DEF Init, Inv, HolderHasTurn, MessageFromClosed,
         TurnsInOrder, ErrorPassed, ErrorHasNoFile, HandedWaited, Has, Waited, Handed
  <1>2. Inv /\ [Next]_vars => Inv'
    <2> SUFFICES ASSUME Inv, [Next]_vars PROVE Inv'
      OBVIOUS
    <2>1. TypeOK'
      BY TypeStep DEF Inv
    <2>2. ASSUME NEW p \in Rank, Step(p) PROVE Inv'
      <3>1. PICK b \in Batons : \/ Start(p, b) \/ Receive(p, b)
                                \/ ReceiveError(p, b) \/ HandOff(p, b) \/ Sent(p, b)
        BY <2>2 DEF Step
      <3> QED
        BY <2>1, <3>1, WaitPreserves, HandOffPreserves, SentPreserves
    <2>3. CASE UNCHANGED vars
      BY <2>3, StutterPreserves
    <2> QED
      BY <2>2, <2>3 DEF Next, Finished
  <1> QED
    BY <1>1, <1>2, PTL DEF Spec

-----------------------------------------------------------------------------
(* The results *)

\* "At any one moment, only one processor from each group has a file open":
\* for every number of ranks and groups and every well-used program.
THEOREM MutualExclusion == ASSUME WellUsed PROVE Spec => []OneHolderPerGroup
  <1>1. Inv => OneHolderPerGroup
    <2> SUFFICES ASSUME Inv, NEW p \in Rank, NEW q \in Rank, NEW b \in Batons,
                        p < q, SameGroup(p, q), Has(p, b), Has(q, b)
                 PROVE  FALSE
      <3>1. \A x, y \in Rank : x # y => x < y \/ y < x
        BY SizesAssumption DEF Rank
      <3> QED
        BY <3>1 DEF OneHolderPerGroup, SameGroup
    <2> QED
      BY DEF Inv, HolderHasTurn, TurnsInOrder
  <1> QED
    BY <1>1, InvCorrect, PTL

\* A rank that met an error keeps every later rank of its group from the file.
THEOREM ErrorStops == ASSUME WellUsed PROVE Spec => []ErrorStopsGroup
  <1>1. Inv => ErrorStopsGroup
    BY DEF Inv, ErrorStopsGroup, HolderHasTurn, ErrorPassed, ErrorHasNoFile
  <1> QED
    BY <1>1, InvCorrect, PTL

\* Only a wait of a rank without predecessor creates the file.
CreatorIsFirst == \A p \in Rank : \A b \in Batons :
    file[p][b] = "create" => ~hasBefore(p)

LEMMA CreatorInductive ==
    TypeOK /\ CreatorIsFirst /\ [Next]_vars => CreatorIsFirst'
  <1> SUFFICES ASSUME TypeOK, CreatorIsFirst, [Next]_vars, NEW r \in Rank, NEW d \in Batons,
                      file'[r][d] = "create", hasBefore(r)
               PROVE  FALSE
    BY DEF CreatorIsFirst, hasBefore
  <1>0. file[r][d] # "create"
    BY DEF CreatorIsFirst
  <1>1. ASSUME NEW p \in Rank, NEW b \in Batons, Start(p, b) PROVE FALSE
    <2>1. ~hasBefore(p) /\ \E f : file' = [file EXCEPT ![p][b] = f]
      BY <1>1 DEF Start
    <2>2. r # p
      BY <2>1
    <2> QED
      BY <1>0, <2>1, <2>2 DEF TypeOK
  <1>2. ASSUME NEW p \in Rank, NEW b \in Batons, Receive(p, b) PROVE FALSE
    BY <1>0, <1>2 DEF Receive, Callback, TypeOK
  <1>3. ASSUME NEW p \in Rank, NEW b \in Batons, ReceiveError(p, b) PROVE FALSE
    BY <1>0, <1>3 DEF ReceiveError
  <1>4. ASSUME NEW p \in Rank, NEW b \in Batons, HandOff(p, b) PROVE FALSE
    BY <1>0, <1>4 DEF HandOff, TypeOK
  <1>5. ASSUME NEW p \in Rank, NEW b \in Batons, Sent(p, b) PROVE FALSE
    BY <1>0, <1>5 DEF Sent
  <1>6. CASE UNCHANGED vars
    BY <1>0, <1>6 DEF vars
  <1> QED
    BY <1>1, <1>2, <1>3, <1>4, <1>5, <1>6 DEF Next, Step, Finished

LEMMA AlwaysCreatorIsFirst == Spec => []CreatorIsFirst
  <1>1. Init => CreatorIsFirst
    BY DEF Init, CreatorIsFirst
  <1> QED
    BY <1>1, CreatorInductive, TypeCorrect, PTL DEF Spec

\* In a group only its first rank ever creates the file, and nobody has it
\* open while a rank before it has not yet come to its wait, and might still
\* create it over what the others wrote.
THEOREM FirstCreates == ASSUME WellUsed PROVE Spec => []CreatedByFirst
  <1>1. Inv /\ CreatorIsFirst => CreatedByFirst
    <2> SUFFICES ASSUME Inv, CreatorIsFirst, NEW p \in Rank, NEW q \in Rank, NEW b \in Batons
                 PROVE  /\ file[p][b] = "create" => ~\E r \in Rank : r < p /\ SameGroup(r, p)
                        /\ SameGroup(p, q) /\ p < q /\ Has(q, b) => Waited(p, b)
      BY DEF CreatedByFirst, Waited, Past
    <2>1. file[p][b] = "create" => ~\E r \in Rank : r < p /\ SameGroup(r, p)
      BY FirstOfGroup DEF CreatorIsFirst, SameGroup
    <2>2. ASSUME SameGroup(p, q), p < q, Has(q, b) PROVE Waited(p, b)
      <3>1. Waited(q, b)
        BY <2>2 DEF Inv, HolderHasTurn
      <3>2. Handed(p, b)
        BY <2>2, <3>1 DEF Inv, TurnsInOrder
      <3> QED
        BY <3>2 DEF Inv, HandedWaited
    <2> QED
      BY <2>1, <2>2
  <1> QED
    BY <1>1, InvCorrect, AlwaysCreatorIsFirst, PTL

-----------------------------------------------------------------------------
(* The neighbours of a rank *)

LEMMA TheRemainder ==
    ASSUME NEW d \in Nat \ {0}, NEW q \in Nat, NEW r \in 0 .. (d - 1)
    PROVE  (d * q + r) % d = r
  <1> DEFINE x == d * q + r
             y == x \div d
  <1>1. x \in Nat /\ d * q \in Nat
    OBVIOUS
  <1>2. y \in Nat /\ x % d \in 0 .. (d - 1) /\ x = d * y + (x % d)
    BY <1>1, DivMod
  <1>3. d * y \in Nat
    BY <1>2
  <1>4. y >= q + 1 => d * y >= d * q + d
    <2> SUFFICES ASSUME y >= q + 1 PROVE d * y >= d * (q + 1)
      OBVIOUS
    <2> QED
      BY <1>2
  <1>5. q >= y + 1 => d * q >= d * y + d
    <2> SUFFICES ASSUME q >= y + 1 PROVE d * q >= d * (y + 1)
      BY <1>2
    <2> QED
      BY <1>2
  <1> HIDE DEF y
  <1>6. x = d * q + r
    OBVIOUS
  <1> HIDE DEF x
  <1>7. y = q
    BY <1>1, <1>2, <1>3, <1>4, <1>5, <1>6
  <1> QED
    BY <1>1, <1>2, <1>6, <1>7

LEMMA MultipleType ==
    ASSUME NEW d \in Nat, NEW q \in Nat
    PROVE  d * q \in Nat
  OBVIOUS

\* A number that is not the last of its multiple has a successor in it.
LEMMA NextRemainder ==
    ASSUME NEW x \in Nat, NEW d \in Nat \ {0}, (x % d) < d - 1
    PROVE  ((x + 1) % d) = (x % d) + 1
  <1>1. x \div d \in Nat /\ x % d \in 0 .. (d - 1) /\ x = d * (x \div d) + (x % d)
    BY DivMod
  <1>2. x + 1 = d * (x \div d) + ((x % d) + 1) /\ (x % d) + 1 \in 0 .. (d - 1)
    BY <1>1
  <1> DEFINE q == x \div d
             r == (x % d) + 1
             y == x + 1
  <1>3. q \in Nat /\ r \in 0 .. (d - 1) /\ y = d * q + r /\ y \in Nat
    BY <1>1, <1>2
  <1> HIDE DEF q, r, y
  <1>4. y % d = r
    BY <1>3, TheRemainder
  <1> QED
    BY <1>4 DEF r, y

LEMMA PreviousRemainder ==
    ASSUME NEW x \in Nat, NEW d \in Nat \ {0}, (x % d) > 0
    PROVE  x - 1 \in Nat /\ ((x - 1) % d) = (x % d) - 1
  <1>1. /\ x \div d \in Nat /\ x % d \in 0 .. (d - 1)
        /\ x = d * (x \div d) + (x % d) /\ d * (x \div d) \in Nat
    BY DivMod, MultipleType
  <1>2. /\ x - 1 = d * (x \div d) + ((x % d) - 1) /\ (x % d) - 1 \in 0 .. (d - 1)
        /\ x - 1 \in Nat
    BY <1>1
  <1> DEFINE q == x \div d
             r == (x % d) - 1
             y == x - 1
  <1>3. q \in Nat /\ r \in 0 .. (d - 1) /\ y = d * q + r
    BY <1>1, <1>2
  <1>4. y \in Nat
    BY <1>2
  <1> HIDE DEF q, r, y
  <1>5. y % d = r
    BY <1>3, <1>4, TheRemainder
  <1> QED
    BY <1>4, <1>5 DEF r, y

\* It also stays below every multiple it was below.
LEMMA NextBelow ==
    ASSUME NEW x \in Nat, NEW d \in Nat \ {0}, NEW n \in Nat, x < n * d,
           (x % d) < d - 1
    PROVE  x + 1 < n * d
  <1>1. /\ x \div d \in Nat /\ x % d \in 0 .. (d - 1) /\ x \div d < n
        /\ x = d * (x \div d) + (x % d) /\ d * (x \div d) \in Nat
    BY DivMod, DivBelowProduct, MultipleType
  <1>2. d * (x \div d) + d <= n * d
    <2>1. x \div d + 1 <= n
      BY <1>1
    <2>2. d * (x \div d + 1) <= d * n
      BY <1>1, <2>1
    <2> QED
      BY <1>1, <2>2
  <1> QED
    BY <1>1, <1>2

\* procAfterMe is a rank, and this rank is its procBeforeMe.
LEMMA AfterMe ==
    ASSUME NEW p \in Rank, hasAfter(p)
    PROVE  p + 1 \in Rank /\ hasBefore(p + 1)
  <1>1. p \in Nat /\ p < commSize /\ commSize \in Nat
    BY SizesAssumption DEF Rank
  <1>2. numGroupsWithExtraProc < numGroups
    BY SizesAssumption, DivMod DEF numGroupsWithExtraProc
  <1>3. groupSize + 1 \in Nat \ {0}
    BY SizesType
  <1>4. commSplit <= commSize
    <2>1. numGroupsWithExtraProc * groupSize <= numGroups * groupSize
      BY <1>2, SizesType, SizesAssumption
    <2>2. commSplit = numGroupsWithExtraProc * groupSize + numGroupsWithExtraProc
      BY SizesType DEF commSplit
    <2>3. numGroupsWithExtraProc * groupSize \in Nat /\ numGroups * groupSize \in Nat
      BY SizesType, SizesAssumption
    <2> QED
      BY <2>1, <2>2, <2>3, SizesType
  <1>5. CASE p < commSplit
    <2>1. p % (groupSize + 1) \in Nat /\ (p % (groupSize + 1)) < groupSize + 1 - 1
      BY <1>1, <1>3, <1>5, DivMod, SizesType DEF hasAfter, rankInGroup
    <2>2. ((p + 1) % (groupSize + 1)) = (p % (groupSize + 1)) + 1
      <3> DEFINE d == groupSize + 1
      <3>1. d \in Nat \ {0} /\ d = groupSize + 1
        BY <1>3
      <3>2. (p % d) < d - 1
        BY <2>1, SizesType
      <3> HIDE DEF d
      <3>3. ((p + 1) % d) = (p % d) + 1
        BY <1>1, <3>1, <3>2, NextRemainder
      <3> QED
        BY <3>3 DEF d
    <2>3. p + 1 < commSplit
      BY SMTT(30), <1>1, <1>3, <1>5, <2>1, NextBelow, SizesType DEF commSplit
    <2>4. hasBefore(p + 1)
      BY <2>1, <2>2, <2>3 DEF hasBefore, rankInGroup
    <2> QED
      BY <1>1, <1>4, <2>3, <2>4, SizesType DEF Rank
  <1>6. CASE ~(p < commSplit)
    <2> DEFINE x == p - commSplit
               n == numGroups - numGroupsWithExtraProc
    <2>1. x \in Nat /\ groupSize \in Nat \ {0} /\ n \in Nat
      BY <1>2, <1>6, ShortGroups, SizesType, SizesAssumption
    <2>2. x % groupSize \in Nat /\ (x % groupSize) < groupSize - 1
      BY <1>6, <2>1, DivMod DEF hasAfter, rankInGroup
    <2>3. ((x + 1) % groupSize) = (x % groupSize) + 1
      BY <2>1, <2>2, NextRemainder
    <2>4. commSize - commSplit = n * groupSize
      BY SizesType, SizesAssumption DEF commSplit
    <2>5. x < n * groupSize
      BY <1>1, <1>6, <2>4, SizesType
    <2>6. x + 1 < n * groupSize
      BY <2>1, <2>2, <2>5, NextBelow
    <2>7. p + 1 < commSize
      BY <1>1, <2>4, <2>6, SizesType
    <2>8. ~(p + 1 < commSplit) /\ (p + 1) - commSplit = x + 1
      BY <1>1, <1>6, SizesType
    <2>9. hasBefore(p + 1)
      BY <2>2, <2>3, <2>8 DEF hasBefore, rankInGroup
    <2> QED
      BY <1>1, <2>7, <2>9 DEF Rank
  <1> QED
    BY <1>5, <1>6

\* procBeforeMe is a rank, and this rank is its procAfterMe.
LEMMA BeforeMe ==
    ASSUME NEW q \in Rank, hasBefore(q)
    PROVE  q - 1 \in Rank /\ hasAfter(q - 1)
  <1>1. q \in Nat /\ q < commSize /\ commSize \in Nat
    BY SizesAssumption DEF Rank
  <1>2. groupSize + 1 \in Nat \ {0}
    BY SizesType
  <1>3. CASE q < commSplit
    <2>1. q % (groupSize + 1) \in 0 .. groupSize /\ (q % (groupSize + 1)) > 0
      BY <1>1, <1>2, <1>3, DivMod, SizesType DEF hasBefore, rankInGroup
    <2>2. q - 1 \in Nat /\ ((q - 1) % (groupSize + 1)) = (q % (groupSize + 1)) - 1
      BY <1>1, <1>2, <2>1, PreviousRemainder
    <2>3. q - 1 < commSplit
      BY <1>1, <1>3, SizesType
    <2>4. hasAfter(q - 1)
      BY <2>1, <2>2, <2>3, SizesType DEF hasAfter, rankInGroup
    <2> QED
      BY <1>1, <2>2, <2>4 DEF Rank
  <1>4. CASE ~(q < commSplit)
    <2> DEFINE x == q - commSplit
    <2>1. x \in Nat /\ groupSize \in Nat \ {0}
      BY <1>4, ShortGroups
    <2>2. x % groupSize \in 0 .. (groupSize - 1) /\ (x % groupSize) > 0
      BY <1>4, <2>1, DivMod DEF hasBefore, rankInGroup
    <2>3. x - 1 \in Nat /\ ((x - 1) % groupSize) = (x % groupSize) - 1
      BY <2>1, <2>2, PreviousRemainder
    <2>4. ~(q - 1 < commSplit) /\ (q - 1) - commSplit = x - 1 /\ q - 1 \in Nat
      BY <1>1, <2>3, SizesType
    <2>5. hasAfter(q - 1)
      BY <2>1, <2>2, <2>3, <2>4 DEF hasAfter, rankInGroup
    <2> QED
      BY <1>1, <2>4, <2>5 DEF Rank
  <1> QED
    BY <1>3, <1>4

-----------------------------------------------------------------------------
(* Nobody waits for ever *)

\* A baton that was handed off and not yet received is on its way.
OnItsWay == \A q \in Rank : \A b \in Batons :
    hasBefore(q) /\ Handed(q - 1, b) /\ ~Waited(q, b) => chan[q][b] # "none"

\* Only a rank that has not had it is sent a baton, and only by the rank
\* before it.
SentOnce == \A q \in Rank : \A b \in Batons :
    chan[q][b] # "none" => hasBefore(q) /\ ~Waited(q, b)

SenderAtHand == \A p \in Rank :
    sending[p] => /\ hasAfter(p) /\ ~Done(p)
                  /\ \E b \in Batons : Program[pc[p]] = <<"hand", b>>

AfterPredecessor == \A q \in Rank : \A b \in Batons :
    hasBefore(q) /\ Waited(q, b) => Handed(q - 1, b)

Flow == OnItsWay /\ SentOnce /\ SenderAtHand /\ AfterPredecessor

LEMMA FlowInit == Init => Flow
  <1> SUFFICES ASSUME Init PROVE Flow
    OBVIOUS
  <1>1. \A p : \A c : pc = [r \in Rank |-> 1] /\ p \in Rank => ~Past(p, c)
    BY DEF Past
  <1>2. \A q \in Rank : hasBefore(q) => q - 1 \in Rank
    BY BeforeMe
  <1>3. \A p \in Rank : \A b \in Batons : ~Waited(p, b) /\ ~Handed(p, b)
    BY <1>1 DEF Init, Waited, Handed
  <1> QED
    BY <1>2, <1>3
    DEF Init, Flow, OnItsWay, SentOnce, SenderAtHand, AfterPredecessor

LEMMA WaitKeepsFlow ==
    ASSUME WellUsed, Inv, Flow, NEW p \in Rank, NEW b \in Batons,
           Start(p, b) \/ Receive(p, b) \/ ReceiveError(p, b)
    PROVE  Flow'
  <1>1. /\ At(p, "wait", b) /\ Advance(p) /\ sending' = sending /\ TypeOK
        /\ hasBefore(p) => chan[p][b] # "none"
    BY DEF Start, Receive, ReceiveError, Inv
  <1>2. \A r \in Rank : \A d \in Batons :
          /\ Waited(r, d)' <=> Waited(r, d) \/ (r = p /\ d = b)
          /\ Handed(r, d)' <=> Handed(r, d)
    BY <1>1, WaitEffect
  <1>3. ~Waited(p, b)
    BY <1>1, AtWait
  <1>4. /\ \A r \in Rank : \A d \in Batons :
             r # p \/ d # b => chan'[r][d] = chan[r][d]
        /\ chan'[p][b] = "none"
    <2>1. ~hasBefore(p) => chan[p][b] = "none"
      BY DEF Flow, SentOnce
    <2> QED
      BY <1>1, <2>1 DEF Start, Receive, ReceiveError, TypeOK
  <1>5. \A q \in Rank : hasBefore(q) => q - 1 \in Rank
    BY BeforeMe
  <1>6. OnItsWay'
    <2> SUFFICES ASSUME NEW q \in Rank, NEW d \in Batons,
                        hasBefore(q), Handed(q - 1, d)', ~Waited(q, d)'
                 PROVE  chan'[q][d] # "none"
      BY DEF OnItsWay, hasBefore, rankInGroup
    <2>1. q - 1 \in Rank
      BY <1>5
    <2>2. Handed(q - 1, d) /\ ~Waited(q, d) /\ (q # p \/ d # b)
      BY <1>2, <2>1
    <2> QED
      BY <1>4, <2>2 DEF Flow, OnItsWay
  <1>7. SentOnce'
    <2> SUFFICES ASSUME NEW q \in Rank, NEW d \in Batons, chan'[q][d] # "none"
                 PROVE  hasBefore(q) /\ ~Waited(q, d)'
      BY DEF SentOnce, hasBefore, rankInGroup
    <2> QED
      BY <1>2, <1>4 DEF Flow, SentOnce
  <1>8. SenderAtHand'
    <2> SUFFICES ASSUME NEW r \in Rank, sending'[r]
                 PROVE  /\ hasAfter(r) /\ ~Done(r)'
                        /\ \E d \in Batons : Program[pc'[r]] = <<"hand", d>>
      BY DEF SenderAtHand, hasAfter, rankInGroup
    <2>1. sending[r] /\ r # p
      BY <1>1 DEF At
    <2>2. pc'[r] = pc[r]
      BY <1>1, <2>1 DEF Advance, TypeOK
    <2> QED
      BY <2>1, <2>2 DEF Flow, SenderAtHand, Done
  <1>9. AfterPredecessor'
    <2> SUFFICES ASSUME NEW q \in Rank, NEW d \in Batons,
                        hasBefore(q), Waited(q, d)'
                 PROVE  Handed(q - 1, d)'
      BY DEF AfterPredecessor, hasBefore, rankInGroup
    <2>1. q - 1 \in Rank
      BY <1>5
    <2>2. CASE Waited(q, d)
      BY <1>2, <2>1, <2>2 DEF Flow, AfterPredecessor
    <2>3. CASE q = p /\ d = b
      BY <1>1, <1>2, <2>1, <2>3 DEF Inv, MessageFromClosed
    <2> QED
      BY <1>2, <2>2, <2>3
  <1> QED
    BY <1>6, <1>7, <1>8, <1>9 DEF Flow

LEMMA HandOffKeepsFlow ==
    ASSUME WellUsed, Inv, Flow, NEW p \in Rank, NEW b \in Batons, HandOff(p, b)
    PROVE  Flow'
  <1>1. /\ TypeOK /\ At(p, "hand", b) /\ p \in Nat
        /\ pc[p] \in 1 .. Len(Program) /\ Program[pc[p]] = <<"hand", b>>
    BY AtProgram, SizesAssumption DEF HandOff, Inv, Rank
  <1>2. \A r \in Rank : \A d \in Batons :
          /\ Waited(r, d)' <=> Waited(r, d)
          /\ Handed(r, d)' <=> Handed(r, d) \/ (r = p /\ d = b)
    BY <1>1, HandOffEffect
  <1>3. ~Handed(p, b)
    <2>1. ~Past(p, <<"hand", b>>)
      <3> SUFFICES ASSUME NEW i \in 1 .. (pc[p] - 1), Program[i] = Program[pc[p]]
                   PROVE  FALSE
        BY <1>1 DEF Past
      <3>1. i \in 1 .. Len(Program) /\ i # pc[p]
        BY <1>1
      <3> QED
        BY <1>1, <3>1 DEF WellUsed
    <2> QED
      BY <1>1, <2>1 DEF Handed, At
  <1>4. \A q \in Rank : hasBefore(q) => q - 1 \in Rank /\ hasAfter(q - 1)
    BY BeforeMe
  \* The message goes to the rank after p, if there is one.
  <1>5. /\ \A r \in Rank : \A d \in Batons :
             ~(hasAfter(p) /\ r = p + 1 /\ d = b) => chan'[r][d] = chan[r][d]
        /\ hasAfter(p) => /\ p + 1 \in Rank /\ hasBefore(p + 1)
                          /\ chan'[p + 1][b] # "none"
    <2>1. hasAfter(p) => p + 1 \in Rank /\ hasBefore(p + 1)
      BY AfterMe
    <2>2. baton(p, b) # "none"
      BY <1>1 DEF baton, TypeOK
    <2>3. CASE hasAfter(p)
      <3>1. chan' = [chan EXCEPT ![p + 1][b] = baton(p, b)]
        BY <2>3 DEF HandOff
      <3> QED
        BY <1>1, <2>1, <2>2, <2>3, <3>1 DEF TypeOK
    <2>4. CASE ~hasAfter(p)
      BY <2>4 DEF HandOff
    <2> QED
      BY <2>3, <2>4
  <1>6. OnItsWay'
    <2> SUFFICES ASSUME NEW q \in Rank, NEW d \in Batons,
                        hasBefore(q), Handed(q - 1, d)', ~Waited(q, d)'
                 PROVE  chan'[q][d] # "none"
      BY DEF OnItsWay, hasBefore, rankInGroup
    <2>1. q - 1 \in Rank /\ hasAfter(q - 1) /\ q \in Nat
      BY <1>4, SizesAssumption DEF Rank
    <2>2. CASE q - 1 = p /\ d = b
      <3>1. q = p + 1
        BY <1>1, <2>1, <2>2
      <3> QED
        BY <1>5, <2>1, <2>2, <3>1
    <2>3. CASE ~(q - 1 = p /\ d = b)
      <3>1. ~(q = p + 1 /\ d = b)
        BY <1>1, <2>3
      <3>2. Handed(q - 1, d) /\ ~Waited(q, d)
        BY <1>2, <2>1, <2>3
      <3> QED
        BY <1>5, <3>1, <3>2 DEF Flow, OnItsWay
    <2> QED
      BY <2>2, <2>3
  <1>7. SentOnce'
    <2> SUFFICES ASSUME NEW q \in Rank, NEW d \in Batons, chan'[q][d] # "none"
                 PROVE  hasBefore(q) /\ ~Waited(q, d)'
      BY DEF SentOnce, hasBefore, rankInGroup
    <2>1. CASE hasAfter(p) /\ q = p + 1 /\ d = b
      <3>1. hasBefore(q) /\ q - 1 = p
        BY <1>1, <1>5, <2>1
      <3>2. ~Waited(q, b)
        BY <1>3, <3>1 DEF Flow, AfterPredecessor
      <3> QED
        BY <1>2, <2>1, <3>1, <3>2
    <2>2. CASE ~(hasAfter(p) /\ q = p + 1 /\ d = b)
      BY <1>2, <1>5, <2>2 DEF Flow, SentOnce
    <2> QED
      BY <2>1, <2>2
  <1>8. SenderAtHand'
    <2> SUFFICES ASSUME NEW r \in Rank, sending'[r]
                 PROVE  /\ hasAfter(r) /\ ~Done(r)'
                        /\ \E d \in Batons : Program[pc'[r]] = <<"hand", d>>
      BY DEF SenderAtHand, hasAfter, rankInGroup
    <2>1. CASE r = p
      <3>1. hasAfter(p) /\ pc' = pc
        BY <1>1, <2>1 DEF HandOff, At
      <3> QED
        BY <1>1, <2>1, <3>1 DEF At, Done
    <2>2. CASE r # p
      <3>1. sending[r] /\ pc'[r] = pc[r]
        BY <1>1, <2>2 DEF HandOff, Advance, TypeOK
      <3> QED
        BY <3>1 DEF Flow, SenderAtHand, Done
    <2> QED
      BY <2>1, <2>2
  <1>9. AfterPredecessor'
    <2> SUFFICES ASSUME NEW q \in Rank, NEW d \in Batons,
                        hasBefore(q), Waited(q, d)'
                 PROVE  Handed(q - 1, d)'
      BY DEF AfterPredecessor, hasBefore, rankInGroup
    <2> QED
      BY <1>2, <1>4 DEF Flow, AfterPredecessor
  <1> QED
    BY <1>6, <1>7, <1>8, <1>9 DEF Flow

LEMMA SentKeepsFlow ==
    ASSUME WellUsed, Inv, Flow, NEW p \in Rank, NEW b \in Batons, Sent(p, b)
    PROVE  Flow'
  <1>1. TypeOK /\ chan' = chan
    BY DEF Inv, Sent
  <1>2. \A r \in Rank : \A d \in Batons :
          /\ Waited(r, d)' <=> Waited(r, d)
          /\ Handed(r, d)' <=> Handed(r, d)
    BY <1>1, SentEffect
  <1>3. \A q \in Rank : hasBefore(q) => q - 1 \in Rank
    BY BeforeMe
  <1>4. SenderAtHand'
    <2> SUFFICES ASSUME NEW r \in Rank, sending'[r]
                 PROVE  /\ hasAfter(r) /\ ~Done(r)'
                        /\ \E d \in Batons : Program[pc'[r]] = <<"hand", d>>
      BY DEF SenderAtHand, hasAfter, rankInGroup
    <2>1. r # p /\ sending[r] /\ pc'[r] = pc[r]
      BY <1>1 DEF Sent, Advance, TypeOK
    <2> QED
      BY <2>1 DEF Flow, SenderAtHand, Done
  <1> QED
    BY <1>1, <1>2, <1>3, <1>4
    DEF Flow, OnItsWay, SentOnce, AfterPredecessor, hasBefore, rankInGroup

LEMMA FlowStep ==
    ASSUME WellUsed
    PROVE  Inv /\ Flow /\ [Next]_vars => Flow'
  <1> SUFFICES ASSUME Inv, Flow, [Next]_vars PROVE Flow'
    OBVIOUS
  <1>1. ASSUME NEW p \in Rank, Step(p) PROVE Flow'
    <2>1. PICK b \in Batons : \/ Start(p, b) \/ Receive(p, b)
                              \/ ReceiveError(p, b) \/ HandOff(p, b) \/ Sent(p, b)
      BY <1>1 DEF Step
    <2> QED
      BY <2>1, WaitKeepsFlow, HandOffKeepsFlow, SentKeepsFlow
  <1>2. CASE UNCHANGED vars
    <2>1. pc' = pc /\ sending' = sending /\ chan' = chan
      BY <1>2 DEF vars
    <2> QED
      BY <2>1
      DEF Flow, OnItsWay, SentOnce, SenderAtHand, AfterPredecessor, Waited,
          Handed, Past, Done, hasBefore, hasAfter, rankInGroup
  <1> QED
    BY <1>1, <1>2 DEF Next, Finished

LEMMA AlwaysFlow == ASSUME WellUsed PROVE Spec => []Flow
  <1>1. Inv /\ Flow /\ [Next]_vars => Flow'
    BY FlowStep
  <1> QED
    BY <1>1, FlowInit, InvCorrect, PTL DEF Spec

\* A step that rank p can take: its call does not have to wait.
CanStep(p) == \E b \in Batons :
    \/ At(p, "wait", b) /\ (hasBefore(p) => chan[p][b] # "none")
    \/ At(p, "hand", b)
    \/ /\ sending[p] /\ ~Done(p) /\ Program[pc[p]] = <<"hand", b>>
       /\ chan[p + 1][b] = "none"

NotStuck == (\A p \in Rank : Done(p)) \/ (\E p \in Rank : CanStep(p))

LEMMA SmallestOf ==
    ASSUME NEW S \in SUBSET Nat, S # {}
    PROVE  \E m \in S : \A j \in S : m <= j
  <1> DEFINE Less == OpToRel(<, Nat)
  <1>1. IsWellFoundedOn(Less, Nat)
    BY NatLessThanWellFounded
  <1>2. \A x, y \in Nat : <<x, y>> \in Less <=> x < y
    BY DEF OpToRel
  <1> HIDE DEF Less
  <1>3. PICK m \in S : \A y \in S : <<y, m>> \notin Less
    BY <1>1, WFMin
  <1>4. ASSUME NEW j \in S PROVE m <= j
    <2>1. j \in Nat /\ m \in Nat /\ ~(j < m)
      BY <1>2, <1>3
    <2> QED
      BY <2>1
  <1> QED
    BY <1>4

LEMMA LastRank ==
    ASSUME NEW S \in SUBSET Rank, S # {}
    PROVE  \E p \in S : \A q \in S : q <= p
  <1> DEFINE T == {commSize - p : p \in S}
  <1>1. T \in SUBSET Nat /\ T # {}
    <2>1. \A p \in S : commSize - p \in Nat
      BY SizesAssumption DEF Rank
    <2> QED
      BY <2>1
  <1>2. PICK t \in T : \A u \in T : t <= u
    BY <1>1, SmallestOf
  <1>3. PICK p \in S : t = commSize - p
    OBVIOUS
  <1>4. ASSUME NEW q \in S PROVE q <= p
    <2>1. t <= commSize - q
      BY <1>2
    <2> QED
      BY <1>3, <2>1, SizesAssumption DEF Rank
  <1> QED
    BY <1>4

\* A rank that is done has had every baton.
LEMMA DoneWaited ==
    ASSUME WellUsed, TypeOK, NEW p \in Rank, Done(p), NEW b \in Batons,
           NEW k \in 1 .. Len(Program), Program[k] = <<"hand", b>>
    PROVE  Waited(p, b)
  <1>1. PICK j \in 1 .. (k - 1) : Program[j] = <<"wait", b>>
    BY DEF WellUsed
  <1>2. j \in 1 .. (pc[p] - 1)
    BY ProgramAssumption DEF Done, TypeOK
  <1> QED
    BY <1>1, <1>2 DEF Waited, Past

\* The last rank that is not done, if it is in a send, has been matched.
LEMMA LastSender ==
    ASSUME WellUsed, Inv, Flow, NEW p \in Rank, sending[p],
           \A q \in Rank : p < q => Done(q)
    PROVE  CanStep(p)
  <1>1. hasAfter(p) /\ ~Done(p) /\ TypeOK
    BY DEF Flow, SenderAtHand, Inv
  <1>2. PICK b \in Batons : Program[pc[p]] = <<"hand", b>>
    BY DEF Flow, SenderAtHand
  <1>3. p + 1 \in Rank /\ p < p + 1
    BY <1>1, AfterMe, SizesAssumption DEF Rank
  <1>4. pc[p] \in 1 .. Len(Program)
    BY <1>1, ProgramAssumption DEF Done, TypeOK
  <1>5. Waited(p + 1, b)
    BY <1>1, <1>2, <1>3, <1>4, DoneWaited
  <1>6. chan[p + 1][b] = "none"
    BY <1>3, <1>5 DEF Flow, SentOnce
  <1> QED
    BY <1>1, <1>2, <1>6 DEF CanStep

LEMMA HandedInOrder ==
    ASSUME InOrder, NEW b \in Batons, NEW d \in Batons,
           NEW i \in 1 .. Len(Program), NEW j \in 1 .. Len(Program),
           NEW k \in 1 .. Len(Program), NEW l \in 1 .. Len(Program),
           Program[i] = <<"wait", b>>, Program[j] = <<"wait", d>>, i < j,
           Program[k] = <<"hand", b>>, Program[l] = <<"hand", d>>
    PROVE  k < l
  BY DEF InOrder

\* Rank r waits for the rank before it, which is done or in a send: then one
\* of the two can go on.
LEMMA WaitingPair ==
    ASSUME WellUsed, InOrder, Inv, Flow, NEW r \in Rank, NEW b \in Batons,
           At(r, "wait", b), hasBefore(r), Done(r - 1) \/ sending[r - 1]
    PROVE  CanStep(r) \/ CanStep(r - 1)
  <1> DEFINE p == r - 1
  <1>1. TypeOK /\ p \in Rank /\ p + 1 = r
    BY BeforeMe, SizesAssumption DEF Inv, Rank
  <1> HIDE DEF p
  <1>2. /\ pc[r] \in 1 .. Len(Program) /\ Program[pc[r]] = <<"wait", b>>
        /\ ~Waited(r, b) /\ Len(Program) \in Nat
    BY <1>1, AtProgram, AtWait, ProgramAssumption
  <1>3. PICK k \in 1 .. Len(Program) : Program[k] = <<"hand", b>>
    BY <1>2 DEF InOrder
  <1>4. ASSUME Handed(p, b) PROVE CanStep(r)
    <2>1. chan[r][b] # "none"
      BY <1>2, <1>4 DEF Flow, OnItsWay, p
    <2> QED
      BY <2>1 DEF CanStep
  <1>5. CASE Done(p)
    <2>1. k \in 1 .. (pc[p] - 1)
      BY <1>1, <1>2, <1>5 DEF Done, TypeOK
    <2>2. Handed(p, b)
      BY <1>3, <2>1 DEF Handed, Past
    <2> QED
      BY <1>4, <2>2
  <1>6. CASE sending[p]
    <2>1. ~Done(p)
      BY <1>1, <1>6 DEF Flow, SenderAtHand
    <2>2. PICK d \in Batons : Program[pc[p]] = <<"hand", d>>
      BY <1>1, <1>6 DEF Flow, SenderAtHand
    <2>3. pc[p] \in 1 .. Len(Program)
      BY <1>1, <1>2, <2>1 DEF Done, TypeOK
    <2>4. CASE chan[r][d] = "none"
      BY <1>1, <1>6, <2>1, <2>2, <2>4 DEF CanStep, p
    <2>5. CASE chan[r][d] # "none"
      <3>1. ~Waited(r, d)
        BY <2>5 DEF Flow, SentOnce
      <3>2. PICK j \in 1 .. (pc[p] - 1) : Program[j] = <<"wait", d>>
        BY <2>2, <2>3 DEF WellUsed
      <3>3. j \in 1 .. Len(Program) /\ ~(j \in 1 .. (pc[r] - 1))
        BY <1>2, <2>3, <3>1, <3>2 DEF Waited, Past
      <3>4. CASE j = pc[r]
        <4>1. b = d
          BY <1>2, <3>2, <3>4
        <4> QED
          BY <2>5, <4>1 DEF CanStep
      <3>5. CASE pc[r] < j
        <4>1. k < pc[p]
          <5>1. /\ pc[r] \in 1 .. Len(Program) /\ j \in 1 .. Len(Program)
                /\ pc[p] \in 1 .. Len(Program)
                /\ Program[pc[r]] = <<"wait", b>> /\ Program[j] = <<"wait", d>>
                /\ Program[k] = <<"hand", b>> /\ Program[pc[p]] = <<"hand", d>>
            BY <1>2, <1>3, <2>2, <2>3, <3>2, <3>3
          <5> QED
            BY <3>5, <5>1, HandedInOrder, Zenon
        <4>2. k \in 1 .. (pc[p] - 1)
          BY <1>2, <2>3, <4>1
        <4>3. Handed(p, b)
          BY <1>3, <4>2 DEF Handed, Past
        <4> QED
          BY <1>4, <4>3
      <3> QED
        BY <1>2, <3>3, <3>4, <3>5
    <2> QED
      BY <2>4, <2>5
  <1> QED
    BY <1>5, <1>6 DEF p

\* A rank that is neither done nor in a send is at a call.
LEMMA AtSomeCall ==
    ASSUME TypeOK, NEW p \in Rank, ~Done(p), ~sending[p]
    PROVE  \E b \in Batons : At(p, "wait", b) \/ At(p, "hand", b)
  <1>1. pc[p] \in 1 .. Len(Program)
    BY ProgramAssumption DEF TypeOK, Done
  <1>2. Program[pc[p]] \in {"wait", "hand"} \X Batons
    BY <1>1, ProgramAssumption
  <1>3. PICK c \in {"wait", "hand"}, b \in Batons : Program[pc[p]] = <<c, b>>
    BY <1>2
  <1> QED
    BY <1>3 DEF At

LEMMA SomebodySteps ==
    ASSUME WellUsed, InOrder, Inv, Flow
    PROVE  NotStuck
  <1> SUFFICES ASSUME ~(\A p \in Rank : Done(p)) PROVE \E p \in Rank : CanStep(p)
    BY DEF NotStuck
  <1>0. TypeOK
    BY DEF Inv
  <1> DEFINE Running == {p \in Rank : ~Done(p)}
             Free == {p \in Running : ~sending[p]}
  <1>1. CASE Free = {}
    <2>1. PICK p \in Running : \A q \in Running : q <= p
      <3>1. Running \in SUBSET Rank /\ Running # {}
        OBVIOUS
      <3> HIDE DEF Running
      <3> QED
        BY <3>1, LastRank
    <2>2. \A q \in Rank : p < q => Done(q)
      BY <2>1, SizesAssumption DEF Rank
    <2>3. sending[p]
      BY <1>1
    <2> QED
      BY <2>2, <2>3, LastSender
  <1>2. CASE Free # {}
    <2>1. PICK r \in Free : \A q \in Free : r <= q
      <3>1. Free \in SUBSET Nat
        BY SizesAssumption DEF Rank
      <3>2. Free # {}
        BY <1>2
      <3> HIDE DEF Free
      <3> QED
        BY <3>1, <3>2, SmallestOf
    <2>2. PICK b \in Batons : At(r, "wait", b) \/ At(r, "hand", b)
      BY <1>0, AtSomeCall
    <2>3. CASE At(r, "hand", b) \/ ~hasBefore(r)
      BY <2>2, <2>3 DEF CanStep
    <2>4. CASE At(r, "wait", b) /\ hasBefore(r)
      <3>1. r - 1 \in Rank /\ r - 1 < r
        BY <2>4, BeforeMe, SizesAssumption DEF Rank
      <3>2. Done(r - 1) \/ sending[r - 1]
        <4>1. r - 1 \notin Free
          BY <2>1, <3>1, SizesAssumption DEF Rank
        <4> QED
          BY <3>1, <4>1
      <3> QED
        BY <2>4, <3>1, <3>2, WaitingPair
    <2> QED
      BY <2>2, <2>3, <2>4
  <1> QED
    BY <1>1, <1>2

\* "Everyone waits on everyone" cannot happen: as long as a rank is not done,
\* one of them is not blocked in MPI_Recv or MPI_Ssend, for every number of
\* ranks and groups, if the batons are handed off in the order of the waits.
\* PMPIO_nested shows that this last condition is needed.
THEOREM NobodyStuck ==
    ASSUME WellUsed, InOrder
    PROVE  Spec => []NotStuck
  <1>1. Inv /\ Flow => NotStuck
    BY SomebodySteps
  <1> QED
    BY <1>1, InvCorrect, AlwaysFlow, PTL

-----------------------------------------------------------------------------
(* No call is made twice *)

\* What rank p has still to do: two steps for a hand-off with a send.
Left(p) == 2 * (Len(Program) + 1 - pc[p]) - (IF sending[p] THEN 1 ELSE 0)

\* A step of a rank is a step towards its end and leaves the others where
\* they are.
Progress == \A p \in Rank :
    Step(p) => Left(p)' < Left(p) /\ \A q \in Rank \ {p} : Left(q)' = Left(q)

LEMMA LeftType ==
    ASSUME TypeOK, Flow, NEW p \in Rank
    PROVE  Left(p) \in Nat /\ (Left(p) = 0 <=> Done(p))
  <1>1. Len(Program) \in Nat /\ pc[p] \in 1 .. (Len(Program) + 1)
    BY ProgramAssumption DEF TypeOK
  <1>2. sending[p] => ~Done(p)
    BY DEF Flow, SenderAtHand
  <1> QED
    BY <1>1, <1>2 DEF Left, Done

LEMMA StepProgress ==
    ASSUME TypeOK, NEW p \in Rank, Step(p)
    PROVE  Left(p)' < Left(p) /\ \A q \in Rank \ {p} : Left(q)' = Left(q)
  <1>1. Len(Program) \in Nat /\ pc[p] \in Nat
    BY ProgramAssumption DEF TypeOK
  <1>2. \A q \in Rank \ {p} : pc'[q] = pc[q] /\ sending'[q] = sending[q]
    BY DEF Step, Start, Receive, ReceiveError, HandOff, Sent, Advance, TypeOK
  <1>3. \/ pc'[p] = pc[p] + 1 /\ (sending'[p] = sending[p] \/ ~sending'[p])
        \/ pc'[p] = pc[p] /\ ~sending[p] /\ sending'[p]
    BY DEF Step, Start, Receive, ReceiveError, HandOff, Sent, Advance, At, TypeOK
  <1>4. \A q \in Rank \ {p} : Left(q)' = Left(q)
    BY <1>2 DEF Left
  <1>5. Left(p)' < Left(p)
    <2> DEFINE s == IF sending[p] THEN 1 ELSE 0
               t == IF sending'[p] THEN 1 ELSE 0
    <2>1. s \in {0, 1} /\ t \in {0, 1}
      OBVIOUS
    <2>2. \/ pc'[p] = pc[p] + 1
          \/ pc'[p] = pc[p] /\ s = 0 /\ t = 1
      BY <1>3
    <2>3. /\ Left(p) = 2 * (Len(Program) + 1 - pc[p]) - s
          /\ Left(p)' = 2 * (Len(Program) + 1 - pc'[p]) - t
      BY DEF Left
    <2> HIDE DEF s, t
    <2>4. Len(Program) \in Nat /\ pc[p] \in Nat /\ s \in Int /\ t \in Int
      BY <1>1, <2>1
    <2>5. CASE pc'[p] = pc[p] + 1
      BY SMTT(30), <2>1, <2>3, <2>4, <2>5
    <2>6. CASE pc'[p] = pc[p] /\ s = 0 /\ t = 1
      BY <2>3, <2>4, <2>6
    <2> QED
      BY <2>2, <2>5, <2>6
  <1> QED
    BY <1>4, <1>5

\* Each rank takes a bounded number of steps, so with NobodyStuck the ranks
\* all finish as long as MPI and the scheduler let those go on that can.
THEOREM CallsRunOut ==
    ASSUME WellUsed
    PROVE  Spec => /\ [](\A p \in Rank : Left(p) \in Nat /\ (Left(p) = 0 <=> Done(p)))
                   /\ [][Progress]_vars
  <1>1. TypeOK /\ Flow => \A p \in Rank : Left(p) \in Nat /\ (Left(p) = 0 <=> Done(p))
    BY LeftType
  <1>2. TypeOK /\ [Next]_vars => [Progress]_vars
    BY StepProgress DEF Progress
  <1> QED
    BY <1>1, <1>2, TypeCorrect, AlwaysFlow, PTL DEF Spec
=============================================================================
