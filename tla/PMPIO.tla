------------------------------- MODULE PMPIO --------------------------------
(***************************************************************************)
(* Poor Man's Parallel I/O (src/silo/pmpio.h): the ranks of an MPI         *)
(* communicator are cut into groups, each group shares a file, and a baton *)
(* passed from rank to rank says whose turn it is to have the file open.   *)
(*                                                                         *)
(* Every rank runs the same Program, a sequence of calls                   *)
(* <<"wait", b>> and <<"hand", b>>, where b is a baton (an mpiTag).        *)
(* MPI is external: a synchronous send waits until the receiver has        *)
(* matched it, and messages of one pair of ranks and one tag keep order.   *)
(***************************************************************************)
EXTENDS Integers, Sequences

CONSTANTS commSize,     \* the size of mpiComm
          numGroups,    \* numFiles of PMPIO_Init
          ioMode,       \* "PMPIO_READ" or "PMPIO_WRITE"
          Batons,       \* the active batons, by their mpiTag
          Program,      \* the calls every rank makes
          MayFail       \* TRUE: MPI_Recv and the callbacks may fail

ASSUME SizesAssumption ==
    commSize \in Nat \ {0} /\ numGroups \in Nat \ {0}
ASSUME ProgramAssumption ==
    Program \in Seq({"wait", "hand"} \X Batons)
ASSUME ModeAssumption ==
    ioMode \in {"PMPIO_READ", "PMPIO_WRITE"} /\ MayFail \in BOOLEAN

Rank == 0 .. (commSize - 1)

-----------------------------------------------------------------------------
(* PMPIO_Init: the groups *)

groupSize == commSize \div numGroups
numGroupsWithExtraProc == commSize % numGroups
commSplit == numGroupsWithExtraProc * (groupSize + 1)

\* PMPIO_GroupRank and PMPIO_RankInGroup compute the same values again.
groupRank(p) ==
    IF p < commSplit
      THEN p \div (groupSize + 1)
      ELSE numGroupsWithExtraProc + (p - commSplit) \div groupSize

rankInGroup(p) ==
    IF p < commSplit THEN p % (groupSize + 1) ELSE (p - commSplit) % groupSize

hasBefore_second(p) == rankInGroup(p) > 1                      \* mutant
hasBefore(p) == rankInGroup(p) > 0                  \* procBeforeMe # -1

hasAfter_short(p) == rankInGroup(p) < groupSize - 1            \* mutant
hasAfter(p) ==                                      \* procAfterMe # -1
    IF p < commSplit THEN rankInGroup(p) < groupSize
                     ELSE rankInGroup(p) < groupSize - 1

-----------------------------------------------------------------------------
VARIABLES pc,           \* pc[p]: the call of Program rank p is at
          sending,      \* sending[p]: p is inside MPI_Ssend
          file,         \* file[p][b]: what p's wait on b gave it
          mpiVal,       \* mpiVal[p][b]: the field of p's baton b
          chan          \* chan[p][b]: the baton sent to p and not received

vars == <<pc, sending, file, mpiVal, chan>>

Init ==
    /\ pc = [p \in Rank |-> 1]
    /\ sending = [p \in Rank |-> FALSE]
    /\ file = [p \in Rank |-> [b \in Batons |-> "none"]]
    /\ mpiVal = [p \in Rank |-> [b \in Batons |-> "OK"]]
    /\ chan = [p \in Rank |-> [b \in Batons |-> "none"]]

Done(p) == pc[p] > Len(Program)

At(p, call, b) ==
    ~Done(p) /\ Program[pc[p]] = <<call, b>> /\ ~sending[p]

Advance(p) == pc' = [pc EXCEPT ![p] = pc[p] + 1]

\* What the callback that creates or opens the file returns.
Callback == IF MayFail THEN {"open", "none"} ELSE {"open"}

\* PMPIO_WaitForBaton on the first rank of a group: no message is awaited.
\* Only when writing does it create the file.
Start(p, b) ==
    /\ At(p, "wait", b)
    /\ ~hasBefore(p)
    /\ \E f \in Callback :
         file' = [file EXCEPT ![p][b] =
            IF f = "open" /\ ioMode = "PMPIO_WRITE" THEN "create" ELSE f]
    /\ Advance(p)
    /\ UNCHANGED <<sending, mpiVal, chan>>

\* PMPIO_WaitForBaton on the others: the baton is received and the file
\* opened, unless the baton says that a rank before this one failed.
Receive(p, b) ==
    /\ At(p, "wait", b)
    /\ hasBefore(p)
    /\ chan[p][b] = "OK"
    /\ chan' = [chan EXCEPT ![p][b] = "none"]
    /\ \E f \in Callback : file' = [file EXCEPT ![p][b] = f]
    /\ Advance(p)
    /\ UNCHANGED <<sending, mpiVal>>

\* The baton carries an error, or MPI_Recv reports one: the rank gets no
\* file and will pass the error on.
ReceiveError(p, b) ==
    /\ At(p, "wait", b)
    /\ hasBefore(p)
    /\ chan[p][b] = "ERR" \/ (MayFail /\ chan[p][b] = "OK")
    /\ chan' = [chan EXCEPT ![p][b] = "none"]
    /\ mpiVal' = [mpiVal EXCEPT ![p][b] = "ERR"]
    /\ Advance(p)
    /\ UNCHANGED <<sending, file>>

\* The value that is passed on.
baton_fresh(p, b) == "OK"                                     \* mutant
baton(p, b) == mpiVal[p][b]

\* PMPIO_HandOffBaton: the file is closed, then the baton is sent.
HandOff_lastCloses(p, b) ==                                   \* mutant
    /\ At(p, "hand", b)
    /\ IF hasAfter(p)
         THEN /\ chan' = [chan EXCEPT ![p + 1][b] = baton(p, b)]
              /\ sending' = [sending EXCEPT ![p] = TRUE]
              /\ UNCHANGED <<pc, file>>
         ELSE /\ Advance(p)
              /\ file' = [file EXCEPT ![p][b] = "none"]
              /\ UNCHANGED <<chan, sending>>
    /\ UNCHANGED mpiVal
HandOff(p, b) ==
    /\ At(p, "hand", b)
    /\ file' = [file EXCEPT ![p][b] = "none"]
    /\ IF hasAfter(p)
         THEN /\ chan' = [chan EXCEPT ![p + 1][b] = baton(p, b)]
              /\ sending' = [sending EXCEPT ![p] = TRUE]
              /\ UNCHANGED pc
         ELSE Advance(p) /\ UNCHANGED <<chan, sending>>
    /\ UNCHANGED mpiVal

\* MPI_Ssend returns once the receiver has matched the message.
Sent(p, b) ==
    /\ sending[p] /\ ~Done(p)
    /\ Program[pc[p]] = <<"hand", b>>
    /\ chan[p + 1][b] = "none"
    /\ sending' = [sending EXCEPT ![p] = FALSE]
    /\ Advance(p)
    /\ UNCHANGED <<file, mpiVal, chan>>

\* All ranks have returned from their last call.
Finished == (\A p \in Rank : Done(p)) /\ UNCHANGED vars

Step(p) == \E b \in Batons :
    Start(p, b) \/ Receive(p, b) \/ ReceiveError(p, b) \/ HandOff(p, b) \/ Sent(p, b)

Next == (\E p \in Rank : Step(p)) \/ Finished

\* Each rank is a process of its own and keeps running; MPI delivers.
Spec == Init /\ [][Next]_vars /\ \A p \in Rank : WF_vars(Step(p))

-----------------------------------------------------------------------------
(* How a program may use its batons *)

\* Every call of the program is made once, and a baton is waited for before it
\* is handed off: the pattern of the header, for any number of batons.
WellUsed ==
    /\ \A i, j \in 1 .. Len(Program) : Program[i] = Program[j] => i = j
    /\ \A i \in 1 .. Len(Program) : \A b \in Batons :
          Program[i] = <<"hand", b>> =>
             \E j \in 1 .. (i - 1) : Program[j] = <<"wait", b>>

\* Every baton that is waited for is handed off, and two batons in the order
\* of their waits.  The header asks for none of this.
InOrder ==
    /\ \A i \in 1 .. Len(Program) : \A b \in Batons :
          Program[i] = <<"wait", b>> =>
             \E k \in 1 .. Len(Program) : Program[k] = <<"hand", b>>
    /\ \A b, d \in Batons : \A i, j, k, l \in 1 .. Len(Program) :
          /\ Program[i] = <<"wait", b>> /\ Program[j] = <<"wait", d>> /\ i < j
          /\ Program[k] = <<"hand", b>> /\ Program[l] = <<"hand", d>>
          => k < l

-----------------------------------------------------------------------------
(* Properties *)

TypeOK ==
    /\ pc \in [Rank -> 1 .. (Len(Program) + 1)]
    /\ sending \in [Rank -> BOOLEAN]
    /\ file \in [Rank -> [Batons -> {"none", "open", "create"}]]
    /\ mpiVal \in [Rank -> [Batons -> {"OK", "ERR"}]]
    /\ chan \in [Rank -> [Batons -> {"none", "OK", "ERR"}]]

SameGroup(p, q) == groupRank(p) = groupRank(q)
Has(p, b) == file[p][b] # "none"

\* "At any one moment, only one processor from each group has a file open":
\* two ranks of a group never have the file of one baton open together.
OneHolderPerGroup ==
    \A p, q \in Rank : \A b \in Batons :
        p # q /\ SameGroup(p, q) => ~(Has(p, b) /\ Has(q, b))

\* In a group only the first rank ever creates the file, and nobody opens it
\* while a rank before it may still create it.
CreatedByFirst ==
    \A p, q \in Rank : \A b \in Batons :
        /\ file[p][b] = "create" => ~\E r \in Rank : r < p /\ SameGroup(r, p)
        /\ SameGroup(p, q) /\ p < q /\ Has(q, b) =>
              \E i \in 1 .. (pc[p] - 1) : Program[i] = <<"wait", b>>

\* A rank that was told of an error, or met one, keeps every later rank of
\* its group from opening the file.
ErrorStopsGroup ==
    \A p, q \in Rank : \A b \in Batons :
        SameGroup(p, q) /\ p < q /\ mpiVal[p][b] = "ERR" => ~Has(q, b)

\* Every rank gets through its calls: no rank waits for a baton that never
\* comes, and no send is left unmatched.
AllFinish == <>(\A p \in Rank : Done(p))
=============================================================================
