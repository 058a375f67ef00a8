-------------------------- MODULE BlockList_proofs --------------------------
(***************************************************************************)
(* For every number of slots and of block ids: the list stays sorted, the  *)
(* searches find what they look for, and the array implements the set.     *)
(***************************************************************************)
EXTENDS BlockList, FiniteSetTheorems, FunctionTheorems, TLAPS

-----------------------------------------------------------------------------
(* The inductive invariant *)

\* What the binary search knows about the slots outside its bounds.
Narrowed ==
    Searching =>
        /\ top < num_blocks /\ bot <= top + 1
        /\ \A i \in Used : i < bot => bl[i] < id
        /\ \A i \in Used : i > top => bl[i] > id

\* The search for a place keeps that place between the bounds, so it returns
\* before they cross, unless the list is empty.
PlaceBetween ==
    pc = "CLOSEST" =>
        /\ bot > 0 => bot \in Used /\ bl[bot] < id
        /\ top < num_blocks - 1 => top \in Used /\ bl[top] > id

Room == pc \in {"CLOSEST", "insert"} => num_blocks < MaxBlocks

InCall == pc # "idle" => id \in 0 .. MaxId /\ id1 \in id .. MaxId

IInv ==
    /\ TypeOK /\ Sorted /\ UsesItsBlock /\ InsertsInPlace
    /\ Narrowed /\ PlaceBetween /\ Room /\ InCall

LEMMA Halved ==
    ASSUME NEW n \in Nat
    PROVE  n \div 2 \in Nat /\ 2 * (n \div 2) <= n /\ n <= 2 * (n \div 2) + 1
  OBVIOUS

\* The slot between the bounds of the search is in use.
LEMMA MidBetween ==
    ASSUME TypeOK, Narrowed, Searching, bot <= top
    PROVE  mid \in Used /\ bot <= mid /\ mid <= top
  <1>1. ASSUME NEW a \in Nat, NEW b \in Int, a <= b
        PROVE  (a + b) \div 2 \in Int /\ a <= (a + b) \div 2 /\ (a + b) \div 2 <= b
    <2>1. a + b \in Nat
      BY <1>1
    <2>2. /\ (a + b) \div 2 \in Nat
          /\ 2 * ((a + b) \div 2) <= a + b /\ a + b <= 2 * ((a + b) \div 2) + 1
      BY <2>1, Halved
    <2> QED
      BY <1>1, <2>2
  <1>2. bot \in Nat /\ top \in Int /\ num_blocks \in Nat /\ top < num_blocks
    BY BlocksAssumption DEF TypeOK, Narrowed
  <1> QED
    BY <1>1, <1>2 DEF mid, Used

LEMMA Initially == Init => IInv
  BY BlocksAssumption, IdAssumption
  DEF Init, IInv, TypeOK, Sorted, UsesItsBlock, InsertsInPlace, Narrowed,
      PlaceBetween, Room, InCall, Searching, Used, Slot

-----------------------------------------------------------------------------
(* The steps of the search *)

LEMMA HitKeeps == ASSUME IInv, Hit PROVE IInv'
  <1>1. mid \in Used /\ bl[mid] = id
    BY MidBetween DEF Hit, IInv
  <1>2. pc = "EXACT"
    BY <1>1 DEF Hit, IInv, Searching, InsertsInPlace
  <1>3. pc' = "use" /\ blidx' = mid
    BY <1>1, <1>2 DEF Hit, Return, Used, IInv, TypeOK
  <1>4. UNCHANGED <<bl, num_blocks, id, id1, bot, top>>
    BY DEF Hit, Return
  <1> QED
    BY <1>1, <1>2, <1>3, <1>4, BlocksAssumption
    DEF IInv, TypeOK, Sorted, UsesItsBlock, InsertsInPlace, Narrowed,
        PlaceBetween, Room, InCall, Searching, Used, Slot

\* Slots at or below one that is below the block sought are below it too.
LEMMA SlotsBelow ==
    ASSUME IInv, NEW m \in Used, bl[m] < id, id \in Int
    PROVE  \A i \in Used : i <= m => bl[i] < id
  BY BlocksAssumption DEF IInv, TypeOK, Sorted, Used, Slot

LEMMA SlotsAbove ==
    ASSUME IInv, NEW m \in Used, bl[m] > id, id \in Int
    PROVE  \A i \in Used : i >= m => bl[i] > id
  BY BlocksAssumption DEF IInv, TypeOK, Sorted, Used, Slot

LEMMA AboveKeeps == ASSUME IInv, Above PROVE IInv'
  <1>1. mid \in Used /\ bot <= mid /\ mid <= top /\ bl[mid] < id /\ id \in Int
    BY MidBetween, BlocksAssumption DEF Above, IInv, TypeOK, Used, Slot
  <1>2. \A i \in Used : i <= mid => bl[i] < id
    BY <1>1, SlotsBelow
  <1> DEFINE m == mid
  <1>3. m \in Used /\ m = mid
    BY <1>1
  <1> HIDE DEF m
  <1>4. CASE pc = "CLOSEST" /\ LastBelow(mid)
    <2>1. \A i \in Used : i <= m <=> bl[i] < id
      <3>1. ASSUME NEW i \in Used, i > m PROVE bl[i] > id
        <4>1. m + 1 \in Used /\ bl[m + 1] > id
          BY <1>3, <1>4, <3>1, BlocksAssumption DEF LastBelow, IInv, TypeOK, Used, Slot
        <4> QED
          BY <4>1, <3>1, <1>3, SlotsAbove, <1>1, BlocksAssumption
          DEF IInv, TypeOK, Used
      <3> QED
        BY <3>1, <1>1, <1>2, <1>3, BlocksAssumption DEF IInv, TypeOK, Used, Slot
    <2>2. pc' = "insert" /\ blidx' = m
          /\ UNCHANGED <<bl, num_blocks, id, id1, bot, top>>
      BY <1>3, <1>4 DEF Above, Return
    <2> QED
      BY <2>1, <2>2, <1>3, <1>4, BlocksAssumption
      DEF IInv, TypeOK, Sorted, UsesItsBlock, InsertsInPlace, Narrowed,
          PlaceBetween, Room, InCall, Searching, Used, Slot
  <1>5. CASE ~(pc = "CLOSEST" /\ LastBelow(mid))
    <2>1. bot' = m + 1 /\ UNCHANGED <<bl, num_blocks, id, id1, blidx, top, pc>>
      BY <1>3, <1>5 DEF Above, Upper
    <2>2. pc = "CLOSEST" => m + 1 \in Used /\ bl[m + 1] < id
      <3>1. SUFFICES ASSUME pc = "CLOSEST" PROVE m + 1 \in Used /\ bl[m + 1] < id
        OBVIOUS
      <3>2. m # num_blocks - 1 /\ ~(id < bl[m + 1])
        BY <3>1, <1>3, <1>5 DEF LastBelow
      <3>3. m + 1 \in Used
        BY <3>2, <1>3, BlocksAssumption DEF IInv, TypeOK, Used
      <3>4. bl[m + 1] # id
        BY <3>1, <3>3 DEF IInv, InsertsInPlace
      <3> QED
        BY <3>2, <3>3, <3>4, <1>1, BlocksAssumption DEF IInv, TypeOK, Used, Slot
    <2>3. \A i \in Used : i < m + 1 => bl[i] < id
      BY <1>2, <1>3, BlocksAssumption DEF IInv, TypeOK, Used
    <2>4. m <= top /\ bot <= m /\ top < num_blocks
      BY <1>1, <1>3 DEF Above, IInv, Narrowed
    <2>5. pc \in {"EXACT", "CLOSEST"}
      BY DEF Above, Searching
    <2>6. Narrowed' /\ PlaceBetween'
      BY <2>1, <2>2, <2>3, <2>4, <2>5, <1>3, BlocksAssumption
      DEF IInv, TypeOK, Narrowed, PlaceBetween, Searching, Used
    <2>7. TypeOK'
      BY <2>1, <2>4, <1>3, BlocksAssumption DEF IInv, TypeOK, Used
    <2> QED
      BY <2>1, <2>5, <2>6, <2>7
      DEF IInv, Sorted, UsesItsBlock, InsertsInPlace, Room, InCall, Used
  <1> QED
    BY <1>4, <1>5

LEMMA BelowKeeps == ASSUME IInv, Below PROVE IInv'
  <1>1. mid \in Used /\ bot <= mid /\ mid <= top /\ bl[mid] > id /\ id \in Int
    BY MidBetween, BlocksAssumption DEF Below, IInv, TypeOK, Used, Slot
  <1>2. \A i \in Used : i >= mid => bl[i] > id
    BY <1>1, SlotsAbove
  <1> DEFINE m == mid
  <1>3. m \in Used /\ m = mid
    BY <1>1
  <1> HIDE DEF m
  <1>4. CASE pc = "CLOSEST" /\ FirstAbove(mid)
    <2>1. \A i \in Used : i <= m - 1 <=> bl[i] < id
      <3>1. ASSUME NEW i \in Used, i < m PROVE bl[i] < id
        <4>1. m - 1 \in Used /\ bl[m - 1] < id
          BY <1>3, <1>4, <3>1, BlocksAssumption DEF FirstAbove, IInv, TypeOK, Used, Slot
        <4> QED
          BY <4>1, <3>1, <1>3, SlotsBelow, <1>1, BlocksAssumption
          DEF IInv, TypeOK, Used
      <3> QED
        BY <3>1, <1>1, <1>2, <1>3, BlocksAssumption DEF IInv, TypeOK, Used, Slot
    <2>2. pc' = "insert" /\ blidx' = m - 1
          /\ UNCHANGED <<bl, num_blocks, id, id1, bot, top>>
      BY <1>3, <1>4 DEF Below, Return
    <2> QED
      BY <2>1, <2>2, <1>3, <1>4, BlocksAssumption
      DEF IInv, TypeOK, Sorted, UsesItsBlock, InsertsInPlace, Narrowed,
          PlaceBetween, Room, InCall, Searching, Used, Slot
  <1>5. CASE ~(pc = "CLOSEST" /\ FirstAbove(mid))
    <2>1. top' = m - 1 /\ UNCHANGED <<bl, num_blocks, id, id1, blidx, bot, pc>>
      BY <1>3, <1>5 DEF Below
    <2>2. pc = "CLOSEST" => m - 1 \in Used /\ bl[m - 1] > id
      <3>1. SUFFICES ASSUME pc = "CLOSEST" PROVE m - 1 \in Used /\ bl[m - 1] > id
        OBVIOUS
      <3>2. m # 0 /\ ~(id > bl[m - 1])
        BY <3>1, <1>3, <1>5 DEF FirstAbove
      <3>3. m - 1 \in Used
        BY <3>2, <1>3, BlocksAssumption DEF IInv, TypeOK, Used
      <3>4. bl[m - 1] # id
        BY <3>1, <3>3 DEF IInv, InsertsInPlace
      <3> QED
        BY <3>2, <3>3, <3>4, <1>1, BlocksAssumption DEF IInv, TypeOK, Used, Slot
    <2>3. \A i \in Used : i > m - 1 => bl[i] > id
      BY <1>2, <1>3, BlocksAssumption DEF IInv, TypeOK, Used
    <2>4. m <= top /\ bot <= m /\ top < num_blocks
      BY <1>1, <1>3 DEF Below, IInv, Narrowed
    <2>5. pc \in {"EXACT", "CLOSEST"}
      BY DEF Below, Searching
    <2>6. Narrowed' /\ PlaceBetween'
      BY <2>1, <2>2, <2>3, <2>4, <2>5, <1>3, BlocksAssumption
      DEF IInv, TypeOK, Narrowed, PlaceBetween, Searching, Used
    <2>7. TypeOK'
      BY <2>1, <2>4, <1>3, BlocksAssumption DEF IInv, TypeOK, Used
    <2> QED
      BY <2>1, <2>5, <2>6, <2>7
      DEF IInv, Sorted, UsesItsBlock, InsertsInPlace, Room, InCall, Used
  <1> QED
    BY <1>4, <1>5

LEMMA MissKeeps == ASSUME IInv, Miss PROVE IInv'
  <1>1. \A i \in Used : bl[i] # id
    <2>1. ASSUME NEW i \in Used PROVE i < bot \/ i > top
      BY BlocksAssumption DEF Miss, IInv, TypeOK, Used
    <2> QED
      BY <2>1, BlocksAssumption DEF Miss, IInv, Narrowed, TypeOK, Used, Slot
  <1>2. pc = "CLOSEST" => num_blocks = 0
    BY BlocksAssumption DEF Miss, IInv, TypeOK, Narrowed, PlaceBetween, Searching, Used, Slot
  <1>3. pc' = (IF pc = "CLOSEST" THEN "insert" ELSE "make") /\ blidx' = -1
        /\ UNCHANGED <<bl, num_blocks, id, id1, bot, top>>
    BY DEF Miss, Return
  <1> QED
    BY <1>1, <1>2, <1>3, BlocksAssumption
    DEF Miss, IInv, TypeOK, Sorted, UsesItsBlock, InsertsInPlace, Narrowed,
        PlaceBetween, Room, InCall, Searching, Used

-----------------------------------------------------------------------------
(* The other steps of a call *)

LEMMA LookKeeps == ASSUME IInv, Look PROVE IInv'
  <1>1. CASE NextSlot
    <2>1. blidx + 1 \in Used /\ bl[blidx + 1] = id
      BY <1>1, BlocksAssumption DEF NextSlot, IInv, TypeOK, Used
    <2>2. blidx' = blidx + 1 /\ pc' = "use"
          /\ UNCHANGED <<bl, num_blocks, id, id1, bot, top>>
      BY <1>1 DEF Look
    <2> QED
      BY <2>1, <2>2, BlocksAssumption
      DEF Look, IInv, TypeOK, Sorted, UsesItsBlock, InsertsInPlace, Narrowed,
          PlaceBetween, Room, InCall, Searching, Used
  <1>2. CASE ~NextSlot
    BY <1>2, BlocksAssumption
    DEF Look, StartSearch, IInv, TypeOK, Sorted, UsesItsBlock, InsertsInPlace,
        Narrowed, PlaceBetween, Room, InCall, Searching, Used
  <1> QED
    BY <1>1, <1>2

\* Closing the gap of slot k keeps the other ids, in order.
LEMMA PreemptKeeps == ASSUME IInv, Preempt PROVE IInv'
  <1>1. PICK k \in 1 .. (num_blocks - 1) : bl' = Closed(k)
    BY DEF Preempt
  <1>2. UNCHANGED <<id, id1, blidx, bot, top, pc>> /\ num_blocks' = num_blocks - 1
        /\ pc = "make"
    BY DEF Preempt
  <1>3. num_blocks \in 0 .. MaxBlocks /\ bl \in [Slot -> 0 .. MaxId] /\ k \in Int
        /\ MaxBlocks \in Nat
    BY BlocksAssumption DEF IInv, TypeOK
  <1>4. bl' \in [Slot -> 0 .. MaxId]
    BY <1>1, <1>3 DEF Closed, Slot
  <1>5. \A i \in Used' : /\ i \in Used /\ i + 1 \in Used
                         /\ bl'[i] = IF k <= i THEN bl[i + 1] ELSE bl[i]
    BY <1>1, <1>2, <1>3 DEF Closed, Used, Slot
  <1>6. Sorted'
    <2>1. SUFFICES ASSUME NEW i \in Used', NEW j \in Used', i < j
                   PROVE  bl'[i] < bl'[j]
      BY DEF Sorted
    <2>2. i \in Int /\ j \in Int /\ i + 1 <= j
      BY <2>1, <1>2, <1>3 DEF Used
    <2>3. bl[i] < bl[j] /\ bl[i] < bl[j + 1] /\ bl[i + 1] < bl[j + 1]
      BY <2>1, <2>2, <1>5 DEF IInv, Sorted
    <2> QED
      BY <2>1, <2>2, <2>3, <1>5, <1>3
  <1>7. \A i \in Used' : bl'[i] # id
    BY <1>2, <1>5 DEF IInv, InsertsInPlace
  <1> QED
    BY <1>2, <1>3, <1>4, <1>6, <1>7
    DEF IInv, TypeOK, UsesItsBlock, InsertsInPlace, Narrowed, PlaceBetween,
        Room, InCall, Searching

LEMMA AllocKeeps == ASSUME IInv, Alloc PROVE IInv'
  BY BlocksAssumption
  DEF Alloc, Full, StartSearch, IInv, TypeOK, Sorted, UsesItsBlock,
      InsertsInPlace, Narrowed, PlaceBetween, Room, InCall, Searching, Used

\* Where the ids are after an insertion.
LEMMA Inserted ==
    ASSUME IInv, Insert
    PROVE  /\ num_blocks' = num_blocks + 1 /\ num_blocks < MaxBlocks
           /\ blidx' = blidx + 1 /\ blidx' \in Used'
           /\ \A i \in Used' :
                /\ i < blidx' => i \in Used /\ bl'[i] = bl[i]
                /\ i = blidx' => bl'[i] = id
                /\ i > blidx' => i - 1 \in Used /\ bl'[i] = bl[i - 1]
  <1>1. num_blocks' = num_blocks + 1 /\ num_blocks < MaxBlocks
        /\ blidx' = blidx + 1 /\ bl' = Opened(blidx + 1, id)
    BY DEF Insert, IInv, InsertsInPlace
  <1>2. blidx < num_blocks /\ blidx \in Int /\ -1 <= blidx /\ num_blocks \in Nat
        /\ MaxBlocks \in Nat
    <2>1. blidx < num_blocks
      BY BlocksAssumption DEF Insert, IInv, InsertsInPlace, TypeOK, Used
    <2> QED
      BY <2>1, BlocksAssumption DEF IInv, TypeOK
  <1> QED
    BY <1>1, <1>2 DEF Opened, Used, Slot

LEMMA InsertKeeps == ASSUME IInv, Insert PROVE IInv'
  <1>1. /\ bl' = Opened(blidx + 1, id) /\ pc' = "use" /\ pc = "insert"
        /\ UNCHANGED <<id, id1, bot, top>>
    BY DEF Insert
  <1>2. id \in 0 .. MaxId /\ bl \in [Slot -> 0 .. MaxId]
    BY <1>1 DEF IInv, InCall, TypeOK
  <1>3. TypeOK'
    <2>1. bl' \in [Slot -> 0 .. MaxId]
      <3>1. ASSUME NEW i \in Slot, blidx + 1 < i, i <= num_blocks
            PROVE  i - 1 \in Slot
        BY <3>1, BlocksAssumption DEF IInv, TypeOK, Slot
      <3> QED
        BY <1>1, <1>2, <3>1 DEF Opened
    <2> QED
      BY <2>1, <1>1, Inserted, BlocksAssumption DEF IInv, TypeOK, Used
  <1>4. Sorted'
    <2>1. SUFFICES ASSUME NEW i \in Used', NEW j \in Used', i < j
                   PROVE  bl'[i] < bl'[j]
      BY DEF Sorted
    <2>2. i \in Int /\ j \in Int /\ blidx \in Int /\ blidx' = blidx + 1
          /\ MaxBlocks \in Nat /\ num_blocks \in Nat
      BY Inserted, BlocksAssumption DEF IInv, TypeOK, Used
    <2>3. \A m \in Used : (m <= blidx <=> bl[m] < id) /\ bl[m] # id
                        /\ bl[m] \in Int
      BY <1>1, <1>2, BlocksAssumption DEF IInv, InsertsInPlace, TypeOK, Used, Slot
    <2>4. CASE j < blidx'
      BY <2>1, <2>2, <2>4, Inserted DEF IInv, Sorted
    <2>5. CASE j = blidx'
      BY <2>1, <2>2, <2>3, <2>5, Inserted
    <2>6. CASE j > blidx' /\ i < blidx'
      BY <2>1, <2>2, <2>3, <2>6, Inserted DEF IInv, Sorted
    <2>7. CASE j > blidx' /\ i = blidx'
      <3>1. j - 1 \in Used /\ bl'[j] = bl[j - 1] /\ ~(j - 1 <= blidx)
        BY <2>1, <2>2, <2>7, Inserted
      <3> QED
        BY <2>1, <2>3, <2>7, <3>1, <1>2, Inserted
    <2>8. CASE j > blidx' /\ i > blidx'
      BY <2>1, <2>2, <2>8, Inserted DEF IInv, Sorted
    <2> QED
      BY <2>2, <2>1, <2>4, <2>5, <2>6, <2>7, <2>8
  <1> QED
    BY <1>1, <1>3, <1>4, Inserted
    DEF IInv, UsesItsBlock, InsertsInPlace, Narrowed, PlaceBetween, Room,
        InCall, Searching

LEMMA UseKeeps == ASSUME IInv, Use PROVE IInv'
  BY BlocksAssumption, IdAssumption
  DEF Use, IInv, TypeOK, Sorted, UsesItsBlock, InsertsInPlace, Narrowed,
      PlaceBetween, Room, InCall, Searching, Used

LEMMA CallKeeps ==
    ASSUME IInv, NEW i0 \in 0 .. MaxId, NEW i1 \in i0 .. MaxId, Call(i0, i1)
    PROVE  IInv'
  BY BlocksAssumption, IdAssumption
  DEF Call, IInv, TypeOK, Sorted, UsesItsBlock, InsertsInPlace, Narrowed,
      PlaceBetween, Room, InCall, Searching, Used

LEMMA Inductive == IInv /\ [Next]_vars => IInv'
  <1> SUFFICES ASSUME IInv, [Next]_vars PROVE IInv'
    OBVIOUS
  <1>1. CASE Hit      BY <1>1, HitKeeps
  <1>2. CASE Above    BY <1>2, AboveKeeps
  <1>3. CASE Below    BY <1>3, BelowKeeps
  <1>4. CASE Miss     BY <1>4, MissKeeps
  <1>5. CASE Look     BY <1>5, LookKeeps
  <1>6. CASE Preempt  BY <1>6, PreemptKeeps
  <1>7. CASE Alloc    BY <1>7, AllocKeeps
  <1>8. CASE Insert   BY <1>8, InsertKeeps
  <1>9. CASE Use      BY <1>9, UseKeeps
  <1>10. CASE \E i0 \in 0 .. MaxId : \E i1 \in i0 .. MaxId : Call(i0, i1)
    BY <1>10, CallKeeps
  <1>11. CASE UNCHANGED vars
    BY <1>11
    DEF vars, IInv, TypeOK, Sorted, UsesItsBlock, InsertsInPlace, Narrowed,
        PlaceBetween, Room, InCall, Searching, Used
  <1> QED
    BY <1>1, <1>2, <1>3, <1>4, <1>5, <1>6, <1>7, <1>8, <1>9, <1>10, <1>11
    DEF Next, Step

LEMMA Invariant == Spec => []IInv
  BY Initially, Inductive, PTL DEF Spec

\* The fields of the list and of the search have their types: no index ever
\* leaves the array.
THEOREM TypeCorrect == Spec => []TypeOK
  <1>1. IInv => TypeOK
    BY DEF IInv
  <1> QED
    BY Invariant, <1>1, PTL

\* However blocks come and go, block_list stays sorted without repetition,
\* which is what find_block_by_id relies on.
THEOREM AlwaysSorted == Spec => []Sorted
  <1>1. IInv => Sorted
    BY DEF IInv
  <1> QED
    BY Invariant, <1>1, PTL

\* A read or write copies to or from the block it asked for: the search, and
\* the shortcut to the block used last, never end at another one.
THEOREM SearchCorrect == Spec => []UsesItsBlock
  <1>1. IInv => UsesItsBlock
    BY DEF IInv
  <1> QED
    BY Invariant, <1>1, PTL

\* A block is inserted only where it belongs and only if it was not there,
\* although a preemption may shift the list between the search and the
\* insertion.
THEOREM InsertionCorrect == Spec => []InsertsInPlace
  <1>1. IInv => InsertsInPlace
    BY DEF IInv
  <1> QED
    BY Invariant, <1>1, PTL

-----------------------------------------------------------------------------
(* The array implements the set *)

Ids == {bl[i] : i \in Used}

\* A sorted list has as many ids as slots in use.
LEMMA SizeOfIds == ASSUME IInv PROVE Cardinality(Ids) = num_blocks
  <1> DEFINE f == [i \in 1 .. num_blocks |-> bl[i - 1]]
  <1>1. num_blocks \in Nat
    BY BlocksAssumption DEF IInv, TypeOK
  <1>2. \A i \in 1 .. num_blocks : i - 1 \in Used
    BY <1>1 DEF Used
  <1>3. f \in [1 .. num_blocks -> Ids]
    BY <1>2 DEF Ids
  <1>4. ASSUME NEW x \in 1 .. num_blocks, NEW y \in 1 .. num_blocks, f[x] = f[y]
        PROVE  x = y
    <2>1. bl[x - 1] = bl[y - 1] /\ x - 1 \in Used /\ y - 1 \in Used
      BY <1>2, <1>4
    <2>2. bl[x - 1] \in Int /\ x \in Int /\ y \in Int
      BY <2>1, <1>1, BlocksAssumption DEF IInv, TypeOK, Used, Slot
    <2> QED
      BY <2>1, <2>2 DEF IInv, Sorted
  <1>5. \A v \in Ids : \E x \in 1 .. num_blocks : f[x] = v
    <2>1. SUFFICES ASSUME NEW i \in Used
                   PROVE  \E x \in 1 .. num_blocks : f[x] = bl[i]
      BY DEF Ids
    <2>2. i + 1 \in 1 .. num_blocks /\ (i + 1) - 1 = i
      BY <1>1 DEF Used
    <2> QED
      BY <2>2
  <1>6. f \in Bijection(1 .. num_blocks, Ids)
    BY <1>3, <1>4, <1>5, Fun_IsBij
  <1>7. ExistsBijection(1 .. num_blocks, Ids)
    BY <1>6 DEF ExistsBijection
  <1> QED
    BY <1>1, <1>7, FS_CountingElements

\* The operator as BlockSet has it.
LEMMA SameCardinality == ASSUME NEW S PROVE Set!Cardinality(S) = Cardinality(S)
  BY Zenon DEF Set!Cardinality, Cardinality

LEMMA InitImplements == Init => Set!Init
  BY DEF Init, Set!Init, Used, Set!Nobody

\* The steps that change nothing the set sees.
LEMMA SearchStutters ==
    ASSUME IInv, Hit \/ Above \/ Below \/ Miss \/ Look \/ Alloc
    PROVE  UNCHANGED Set!vars
  <1>1. UNCHANGED <<bl, num_blocks, id, id1>> /\ pc # "idle" /\ pc' # "idle"
    BY DEF Hit, Above, Below, Miss, Look, Alloc, Return, StartSearch, Searching
  <1> QED
    BY <1>1 DEF Set!vars, Used

LEMMA PreemptImplements == ASSUME IInv, Preempt PROVE Set!Drop
  <1>1. PICK k \in 1 .. (num_blocks - 1) : bl' = Closed(k)
    BY DEF Preempt
  <1>2. /\ num_blocks \in 0 .. MaxBlocks /\ bl \in [Slot -> 0 .. MaxId]
        /\ k \in Int /\ MaxBlocks \in Nat /\ num_blocks' = num_blocks - 1
        /\ id \in 0 .. MaxId
        /\ pc = "make" /\ pc' = "make" /\ UNCHANGED <<id, id1>>
    BY BlocksAssumption DEF Preempt, IInv, TypeOK, InCall
  <1>3. \A i \in Used' : /\ i \in Used /\ i + 1 \in Used
                         /\ bl'[i] = IF k <= i THEN bl[i + 1] ELSE bl[i]
    BY <1>1, <1>2 DEF Closed, Used, Slot
  <1>4. k \in Used /\ 0 \in Used /\ 0 < k /\ bl[0] < bl[k]
    BY <1>2 DEF Used, IInv, Sorted
  <1>5. \A i \in Used : i # k => bl[i] # bl[k]
    BY <1>2, <1>4 DEF Used, IInv, Sorted, Slot
  <1>6. Ids' = Ids \ {bl[k]}
    <2>1. Ids' \subseteq Ids \ {bl[k]}
      BY <1>2, <1>3, <1>5 DEF Ids, Used
    <2>2. ASSUME NEW i \in Used, i # k PROVE bl[i] \in Ids'
      <3>1. CASE i < k
        BY <1>2, <1>3, <2>2, <3>1 DEF Ids, Used
      <3>2. CASE i > k
        <4>1. i - 1 \in Used' /\ bl'[i - 1] = bl[i]
          BY <1>2, <1>3, <2>2, <3>2 DEF Used
        <4> QED
          BY <4>1 DEF Ids
      <3> QED
        BY <1>2, <2>2, <3>1, <3>2 DEF Used
    <2> QED
      BY <2>1, <2>2 DEF Ids
  <1>7. id \notin Ids
    BY <1>2 DEF Ids, IInv, InsertsInPlace
  <1>8. Cardinality(Ids) = MaxBlocks
    BY SizeOfIds DEF Preempt, Full
  <1>9. bl[k] \in Ids /\ bl[0] \in Ids
    BY <1>4 DEF Ids
  <1>10. Set!Cardinality(Ids) = MaxBlocks
    BY <1>8, SameCardinality
  <1>11. id # -1
    BY <1>2
  <1>12. \E v \in Ids : (\E j \in Ids : j < v) /\ Ids' = Ids \ {v}
    BY <1>4, <1>6, <1>9
  <1> QED
    BY <1>2, <1>7, <1>10, <1>11, <1>12, Zenon DEF Set!Drop, Set!Nobody, Ids

LEMMA InsertImplements == ASSUME IInv, Insert PROVE Set!Add
  <1>1. /\ pc = "insert" /\ pc' = "use" /\ UNCHANGED <<id, id1>>
        /\ id \in 0 .. MaxId /\ num_blocks \in Nat /\ blidx \in Int
    BY BlocksAssumption DEF Insert, IInv, InCall, TypeOK
  <1>2. Ids' = Ids \cup {id}
    <2>1. Ids' \subseteq Ids \cup {id}
      BY <1>1, Inserted DEF Ids, Used
    <2>2. id \in Ids'
      BY Inserted DEF Ids
    <2>3. ASSUME NEW i \in Used PROVE bl[i] \in Ids'
      <3>1. CASE i < blidx'
        <4>1. i \in Used'
          BY <1>1, Inserted DEF Used
        <4> QED
          BY <3>1, <4>1, Inserted DEF Ids
      <3>2. CASE i >= blidx'
        <4>1. i + 1 \in Used' /\ i + 1 > blidx' /\ (i + 1) - 1 = i
          BY <1>1, <3>2, Inserted DEF Used
        <4> QED
          BY <4>1, Inserted DEF Ids
      <3> QED
        BY <1>1, <3>1, <3>2, Inserted DEF Used
    <2> QED
      BY <2>1, <2>2, <2>3 DEF Ids
  <1>3. id \notin Ids
    BY <1>1 DEF Ids, IInv, InsertsInPlace
  <1>4. Cardinality(Ids) < MaxBlocks
    BY SizeOfIds, Inserted
  <1>5. Set!Cardinality(Ids) < MaxBlocks
    BY <1>4, SameCardinality
  <1>6. id # -1
    BY <1>1
  <1> QED
    BY <1>1, <1>2, <1>3, <1>5, <1>6, Zenon DEF Set!Add, Set!Nobody, Ids

LEMMA UseImplements == ASSUME IInv, Use PROVE Set!Use
  <1>1. id \in Ids
    BY DEF Use, IInv, UsesItsBlock, Ids
  <1> QED
    BY <1>1 DEF Use, Set!Use, Set!Nobody, Ids, Used

LEMMA CallImplements ==
    ASSUME NEW i0 \in 0 .. MaxId, NEW i1 \in i0 .. MaxId, Call(i0, i1)
    PROVE  Set!Begin
  BY DEF Call, Set!Begin, Set!Nobody, Used

LEMMA StepImplements == IInv /\ [Next]_vars => [Set!Next]_(Set!vars)
  <1> SUFFICES ASSUME IInv, [Next]_vars PROVE [Set!Next]_(Set!vars)
    OBVIOUS
  <1>1. CASE Hit \/ Above \/ Below \/ Miss \/ Look \/ Alloc
    BY <1>1, SearchStutters
  <1>2. CASE Preempt
    BY <1>2, PreemptImplements DEF Set!Next
  <1>3. CASE Insert
    BY <1>3, InsertImplements DEF Set!Next
  <1>4. CASE Use
    BY <1>4, UseImplements DEF Set!Next
  <1>5. CASE \E i0 \in 0 .. MaxId : \E i1 \in i0 .. MaxId : Call(i0, i1)
    BY <1>5, CallImplements DEF Set!Next
  <1>6. CASE UNCHANGED vars
    BY <1>6 DEF vars, Set!vars, Used
  <1> QED
    BY <1>1, <1>2, <1>3, <1>4, <1>5, <1>6 DEF Next, Step

\* block_list, its searches and its shifts implement a set of at most
\* max_blocks ids, so the cache may be modelled as a function from ids.
THEOREM ListImplementsSet == Spec => ImplementsBlockSet
  BY InitImplements, Invariant, StepImplements, PTL
  DEF Spec, ImplementsBlockSet, Set!Spec

-----------------------------------------------------------------------------
(* Every call ends *)

\* At most so many steps are left in this pass of the loop: the span of a
\* search, and before it what may follow it.
InPass ==
    CASE pc = "use"     -> 0
      [] pc = "insert"  -> 1
      [] pc = "CLOSEST" -> 2 + (top - bot + 1)
      [] pc = "make"    -> MaxBlocks + 3 + (IF Full THEN 1 ELSE 0)
      [] pc = "EXACT"   -> MaxBlocks + 5 + (top - bot + 1)
      [] pc = "look"    -> 2 * MaxBlocks + 6

\* The passes that follow this one, each counted at its longest.
LaterPasses == (id1 - id) * (2 * MaxBlocks + 7)

Left == IF pc = "idle" THEN 0 ELSE LaterPasses + InPass + 1

\* A call that is in progress can go on.  With one slot alone it cannot make
\* room, because the first block of the list is never preempted.
CanStep ==
    \/ Searching
    \/ pc \in {"look", "insert", "use"}
    \/ pc = "make" /\ (Full => 1 .. (num_blocks - 1) # {})

LEMMA LaterPassesType ==
    ASSUME IInv, pc # "idle"
    PROVE  LaterPasses \in Nat
  <1>1. id1 - id \in Nat /\ 2 * MaxBlocks + 7 \in Nat
    BY BlocksAssumption, IdAssumption DEF IInv, InCall
  <1>2. \A x, y \in Nat : x * y \in Nat
    OBVIOUS
  <1> QED
    BY <1>1, <1>2 DEF LaterPasses

LEMMA InPassType ==
    ASSUME IInv, pc # "idle"
    PROVE  InPass \in 0 .. (2 * MaxBlocks + 6)
  <1>1. /\ MaxBlocks \in Nat \ {0} /\ top \in Int /\ bot \in Nat
        /\ num_blocks \in 0 .. MaxBlocks
        /\ pc \in {"look", "EXACT", "make", "CLOSEST", "insert", "use"}
    BY BlocksAssumption DEF IInv, TypeOK
  <1>2. Searching => top - bot + 1 \in 0 .. MaxBlocks
    BY <1>1 DEF IInv, Narrowed
  <1>3. CASE pc = "EXACT"
    BY <1>1, <1>2, <1>3 DEF InPass, Searching
  <1>4. CASE pc = "CLOSEST"
    BY <1>1, <1>2, <1>4 DEF InPass, Searching
  <1>5. CASE pc = "make"
    <2>1. InPass = MaxBlocks + 3 + (IF Full THEN 1 ELSE 0)
      BY <1>5 DEF InPass
    <2> QED
      BY <1>1, <2>1
  <1>6. CASE pc \in {"look", "insert", "use"}
    BY <1>1, <1>6 DEF InPass
  <1> QED
    BY <1>1, <1>3, <1>4, <1>5, <1>6

InPassNat == pc # "idle" => InPass \in Nat

LEMMA InPassNext == IInv' => InPassNat'
  <1>1. IInv => InPassNat
    BY InPassType, BlocksAssumption DEF InPassNat
  <1> QED
    BY <1>1, PTL

LEMMA LeftType == ASSUME IInv PROVE Left \in Nat
  <1>1. CASE pc = "idle"
    BY <1>1 DEF Left
  <1>2. CASE pc # "idle"
    <2>1. LaterPasses \in Nat /\ InPass \in Nat
      BY <1>2, LaterPassesType, InPassType, BlocksAssumption
    <2> QED
      BY <1>2, <2>1 DEF Left
  <1> QED
    BY <1>1, <1>2

\* Two facts about numbers that the provers need apart from the primed values
\* they are cited for.
LEMMA SmallerSum ==
    ASSUME NEW a \in Nat, NEW b \in Nat, NEW c \in Nat, c < b
    PROVE  a + c + 1 < a + b + 1
  OBVIOUS

LEMMA SmallerSpan ==
    ASSUME NEW b \in Int, NEW t \in Int, NEW m \in Int, b <= m, m <= t,
           NEW b1, NEW t1, (b1 = m + 1 /\ t1 = t) \/ (b1 = b /\ t1 = m - 1)
    PROVE  t1 - b1 + 1 < t - b + 1
  OBVIOUS

\* The steps inside a pass.
LEMMA PassDecreases ==
    ASSUME IInv, pc # "idle", pc' # "idle", UNCHANGED <<id, id1>>,
           InPass' < InPass, InPass' \in Nat
    PROVE  Left' < Left
  <1>1. LaterPasses' = LaterPasses
    BY DEF LaterPasses
  <1>2. LaterPasses \in Nat /\ InPass \in Nat
    BY LaterPassesType, InPassType, BlocksAssumption
  <1>3. Left = LaterPasses + InPass + 1 /\ Left' = LaterPasses + InPass' + 1
    BY <1>1 DEF Left
  <1>4. LaterPasses + InPass' + 1 < LaterPasses + InPass + 1
    BY <1>2, SmallerSum, Zenon
  <1> QED
    BY <1>3, <1>4, Zenon

LEMMA SearchDecreases ==
    ASSUME IInv, IInv', Hit \/ Above \/ Below \/ Miss
    PROVE  Left' < Left
  <1>1. UNCHANGED <<id, id1>> /\ pc \in {"EXACT", "CLOSEST"} /\ pc' # "idle"
    BY DEF Hit, Above, Below, Miss, Return, Searching
  <1>2. /\ MaxBlocks \in Nat \ {0} /\ top \in Int /\ bot \in Nat
        /\ top' \in Int /\ bot' \in Nat
        /\ top - bot + 1 \in Nat
    BY <1>1, BlocksAssumption DEF IInv, TypeOK, Narrowed, Searching
  <1>3. InPass' \in Nat
    BY <1>1, InPassNext DEF InPassNat
  <1>4. CASE \E r : Return(r)
    <2>1. \/ pc = "CLOSEST" /\ pc' = "insert"
          \/ pc = "EXACT" /\ pc' \in {"make", "use"}
      BY <1>1, <1>4 DEF Return
    <2>2. ASSUME pc = "CLOSEST", pc' = "insert" PROVE InPass' < InPass
      BY <1>2, <2>2 DEF InPass
    <2>3. ASSUME pc = "EXACT", pc' = "use" PROVE InPass' < InPass
      BY <1>2, <2>3 DEF InPass
    <2>4. ASSUME pc = "EXACT", pc' = "make" PROVE InPass' < InPass
      <3>1. /\ InPass = MaxBlocks + 5 + (top - bot + 1)
            /\ InPass' = MaxBlocks + 3 + (IF Full' THEN 1 ELSE 0)
        BY <2>4 DEF InPass
      <3> QED
        BY <1>2, <3>1
    <2>5. InPass' < InPass
      BY <2>1, <2>2, <2>3, <2>4
    <2> QED
      BY <1>1, <1>3, <2>5, PassDecreases
  <1>5. CASE ~\E r : Return(r)
    <2>1. /\ mid \in Int /\ bot <= mid /\ mid <= top
          /\ \/ bot' = mid + 1 /\ top' = top
             \/ bot' = bot /\ top' = mid - 1
          /\ pc' = pc
      <3>1. Above \/ Below
        BY <1>5 DEF Hit, Miss
      <3>2. mid \in Used /\ bot <= mid /\ mid <= top
        BY <3>1, MidBetween DEF Above, Below, IInv
      <3> QED
        BY <1>5, <3>1, <3>2, BlocksAssumption
        DEF Above, Below, Upper, Used, IInv, TypeOK
    <2> HIDE DEF mid
    <2>2. top' - bot' + 1 < top - bot + 1
      <3>1. bot \in Int
        BY <1>2
      <3> QED
        BY <1>2, <2>1, <3>1, SmallerSpan, Zenon
    <2>3. InPass' < InPass
      <3>1. CASE pc = "EXACT"
        BY <1>2, <2>1, <2>2, <3>1 DEF InPass
      <3>2. CASE pc = "CLOSEST"
        BY <1>2, <2>1, <2>2, <3>2 DEF InPass
      <3> QED
        BY <1>1, <3>1, <3>2
    <2> QED
      BY <1>1, <1>3, <2>3, PassDecreases
  <1> QED
    BY <1>4, <1>5

LEMMA PlaceDecreases ==
    ASSUME IInv, IInv', Look \/ Preempt \/ Alloc \/ Insert
    PROVE  Left' < Left
  <1>1. UNCHANGED <<id, id1>> /\ pc # "idle" /\ pc' # "idle"
    BY DEF Look, Preempt, Alloc, Insert, StartSearch
  <1>2. /\ MaxBlocks \in Nat \ {0} /\ num_blocks \in 0 .. MaxBlocks
    BY BlocksAssumption DEF IInv, TypeOK
  <1>3. InPass' \in Nat
    BY <1>1, InPassNext DEF InPassNat
  <1>4. InPass' < InPass
    <2>1. CASE Look
      <3>1. InPass = 2 * MaxBlocks + 6
        BY <2>1 DEF Look, InPass
      <3>2. \/ InPass' = 0
            \/ InPass' = MaxBlocks + 5 + num_blocks
        <4>1. CASE NextSlot
          BY <2>1, <4>1 DEF Look, InPass
        <4>2. CASE ~NextSlot
          <5>1. pc' = "EXACT" /\ top' = num_blocks - 1 /\ bot' = 0
            BY <2>1, <4>2 DEF Look, StartSearch
          <5>2. InPass' = MaxBlocks + 5 + (top' - bot' + 1)
            BY <5>1 DEF InPass
          <5> QED
            BY <1>2, <5>1, <5>2
        <4> QED
          BY <4>1, <4>2
      <3> QED
        BY <1>2, <3>1, <3>2
    <2>2. CASE Preempt
      <3>1. Full /\ num_blocks' = num_blocks - 1 /\ pc = "make" /\ pc' = "make"
        BY <2>2 DEF Preempt
      <3>2. ~Full'
        BY <1>2, <3>1 DEF Full
      <3>3. InPass = MaxBlocks + 4 /\ InPass' = MaxBlocks + 3
        <4>1. /\ InPass = MaxBlocks + 3 + (IF Full THEN 1 ELSE 0)
              /\ InPass' = MaxBlocks + 3 + (IF Full' THEN 1 ELSE 0)
          BY <3>1 DEF InPass
        <4> QED
          BY <1>2, <3>1, <3>2, <4>1
      <3> QED
        BY <1>2, <3>3
    <2>3. CASE Alloc
      <3>1. ~Full /\ pc = "make" /\ pc' = "CLOSEST" /\ top' = num_blocks - 1 /\ bot' = 0
        BY <2>3 DEF Alloc, StartSearch
      <3>2. InPass' = 2 + (top' - bot' + 1) /\ InPass = MaxBlocks + 3 + (IF Full THEN 1 ELSE 0)
        BY <3>1 DEF InPass
      <3> QED
        BY <1>2, <3>1, <3>2 DEF Full
    <2>4. CASE Insert
      BY <2>4 DEF Insert, InPass
    <2> QED
      BY <2>1, <2>2, <2>3, <2>4
  <1> QED
    BY <1>1, <1>3, <1>4, PassDecreases

LEMMA UseDecreases ==
    ASSUME IInv, IInv', Use
    PROVE  Left' < Left
  <1>1. pc = "use" /\ InPass = 0 /\ Left = LaterPasses + 1 /\ LaterPasses \in Nat
    BY LaterPassesType DEF Use, InPass, Left
  <1>2. CASE id < id1
    <2>1. id' = id + 1 /\ id1' = id1 /\ pc' = "look"
      BY <1>2 DEF Use
    <2>2. MaxBlocks \in Nat /\ id \in Int /\ id1 \in Int
      BY BlocksAssumption, IdAssumption DEF IInv, TypeOK
    <2>3. InPass' = 2 * MaxBlocks + 6
      BY <2>1 DEF InPass
    <2>4. LaterPasses' = LaterPasses - (2 * MaxBlocks + 7)
      <3> DEFINE n == 2 * MaxBlocks + 7
      <3>1. n \in Int
        BY <2>2
      <3>2. LaterPasses = (id1 - id) * n /\ LaterPasses' = (id1 - (id + 1)) * n
        BY <2>1 DEF LaterPasses
      <3> HIDE DEF n
      <3>3. (id1 - (id + 1)) * n = (id1 - id) * n - n
        BY <2>2, <3>1
      <3>4. LaterPasses' = LaterPasses - n
        BY <3>2, <3>3
      <3> QED
        BY <3>4 DEF n
    <2>5. Left' = LaterPasses' + InPass' + 1
      BY <2>1 DEF Left
    <2> QED
      BY <1>1, <2>2, <2>3, <2>4, <2>5
  <1>3. CASE ~(id < id1)
    BY <1>1, <1>3 DEF Use, Left
  <1> QED
    BY <1>2, <1>3

LEMMA StepDecreases == ASSUME IInv, IInv', Step PROVE Left' < Left
  BY SearchDecreases, PlaceDecreases, UseDecreases DEF Step

LEMMA NeverStuck ==
    ASSUME IInv, MaxBlocks > 1, pc # "idle"
    PROVE  CanStep
  <1>1. Full => 1 \in 1 .. (num_blocks - 1)
    BY BlocksAssumption DEF Full
  <1> QED
    BY <1>1 DEF CanStep, IInv, TypeOK, Searching

\* A read or write ends: every step takes one from a count that is known when
\* the call begins, although a preemption sends it back to a search, and until
\* the call is back there is a step to take if the list has two slots or more.
THEOREM CallsRunOut ==
    Spec => /\ [](Left \in Nat /\ (MaxBlocks > 1 /\ pc # "idle" => CanStep))
            /\ [][Step => Left' < Left]_vars
  <1>1. IInv => Left \in Nat /\ (MaxBlocks > 1 /\ pc # "idle" => CanStep)
    BY LeftType, NeverStuck
  <1>2. IInv /\ IInv' /\ [Next]_vars => [Step => Left' < Left]_vars
    BY StepDecreases
  <1> QED
    BY <1>1, <1>2, Invariant, PTL DEF Spec
=============================================================================
