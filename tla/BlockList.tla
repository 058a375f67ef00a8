----------------------------- MODULE BlockList ------------------------------
(***************************************************************************)
(* block_list of the Silo file driver (src/hdf5_drv/H5FDsilo.c): an array  *)
(* of max_blocks slots whose first num_blocks hold the cached blocks, by   *)
(* increasing id.  A read or write goes through the ids of its blocks; it  *)
(* finds each by its place after the one before or by a binary search,     *)
(* and makes room for and inserts those that are not there.                *)
(*                                                                         *)
(* Of a block only its id is kept here.  Which block is preempted is the   *)
(* subject of SiloVFD; here it is any but the first.                       *)
(***************************************************************************)
EXTENDS Integers

CONSTANTS MaxBlocks,    \* file->max_blocks
          MaxId         \* bound: the largest block id

ASSUME BlocksAssumption == MaxBlocks \in Nat \ {0}
ASSUME IdAssumption == MaxId \in Nat

Slot == 0 .. (MaxBlocks - 1)

VARIABLES bl,           \* the ids in block_list
          num_blocks,   \* how many slots are in use
          id, id1,      \* the loop of the call: its variable and its end
          blidx,        \* the slot found, or -1
          bot, top,     \* the bounds of the binary search
          pc            \* what the call does next

vars == <<bl, num_blocks, id, id1, blidx, bot, top, pc>>

Used == 0 .. (num_blocks - 1)

Init ==
    /\ bl = [i \in Slot |-> 0]                      \* calloc
    /\ num_blocks = 0
    /\ id = -1 /\ id1 = -1 /\ blidx = -1
    /\ bot = 0 /\ top = -1
    /\ pc = "idle"

-----------------------------------------------------------------------------
(* find_block_by_id *)

StartSearch(leq) ==
    /\ bot' = 0 /\ top' = num_blocks - 1
    /\ pc' = leq
    /\ UNCHANGED <<bl, num_blocks, id, id1, blidx>>

\* EXACT looks for the block, CLOSEST for the last one below it.
Searching == pc \in {"EXACT", "CLOSEST"}

mid == (bot + top) \div 2

\* What the callers do with the slot that is returned.
Return(r) ==
    /\ blidx' = r
    /\ pc' = IF pc = "CLOSEST" THEN "insert" ELSE IF r < 0 THEN "make" ELSE "use"
    /\ UNCHANGED <<bl, num_blocks, id, id1, bot, top>>

Hit ==
    /\ Searching /\ bot <= top
    /\ id = bl[mid]
    /\ Return(mid)

\* The block sought is above slot mid.
LastBelow_anywhere(m) == TRUE                              \* mutant
LastBelow(m) == IF m = num_blocks - 1 THEN TRUE ELSE id < bl[m + 1]

Upper_same(m) == m                                          \* mutant
Upper(m) == m + 1

Above ==
    /\ Searching /\ bot <= top
    /\ id > bl[mid]
    /\ IF pc = "CLOSEST" /\ LastBelow(mid)
         THEN Return(mid)
         ELSE /\ bot' = Upper(mid)
              /\ UNCHANGED <<bl, num_blocks, id, id1, blidx, top, pc>>

\* The block sought is below slot mid.
FirstAbove(m) == IF m = 0 THEN TRUE ELSE id > bl[m - 1]

Below ==
    /\ Searching /\ bot <= top
    /\ id < bl[mid]
    /\ IF pc = "CLOSEST" /\ FirstAbove(mid)
         THEN Return(mid - 1)                       \* -1 if mid = 0
         ELSE /\ top' = mid - 1
              /\ UNCHANGED <<bl, num_blocks, id, id1, blidx, bot, pc>>

Miss ==
    /\ Searching /\ bot > top
    /\ Return(-1)

-----------------------------------------------------------------------------
(* remove_block_by_index and insert_block_by_index *)

Closed_notLast(k) ==                                        \* mutant
    [i \in Slot |-> IF k <= i /\ i < num_blocks - 2 THEN bl[i + 1] ELSE bl[i]]
Closed(k) ==
    [i \in Slot |-> IF k <= i /\ i < num_blocks - 1 THEN bl[i + 1] ELSE bl[i]]

\* The slot that is cleared by insert_block_by_index gets its id at once.
Opened(k, new) ==
    [i \in Slot |-> IF i = k THEN new
                    ELSE IF k < i /\ i <= num_blocks THEN bl[i - 1] ELSE bl[i]]

-----------------------------------------------------------------------------
(* The loop of H5FD_silo_read and H5FD_silo_write *)

Call(i0, i1) ==
    /\ pc = "idle"
    /\ id' = i0 /\ id1' = i1 /\ blidx' = -1
    /\ pc' = "look"
    /\ UNCHANGED <<bl, num_blocks, bot, top>>

\* The block of the pass before is blidx: this one may be in the next slot.
NextSlot_blind == 0 <= blidx /\ blidx < num_blocks - 1      \* mutant
NextSlot ==
    IF 0 <= blidx /\ blidx < num_blocks - 1 THEN bl[blidx + 1] = id ELSE FALSE

Look ==
    /\ pc = "look"
    /\ IF NextSlot
         THEN /\ blidx' = blidx + 1
              /\ pc' = "use"
              /\ UNCHANGED <<bl, num_blocks, id, id1, bot, top>>
         ELSE StartSearch("EXACT")

\* find_block_to_preempt and free_block_by_index.
Full == num_blocks = MaxBlocks

Preempt ==
    /\ pc = "make"
    /\ Full
    /\ \E k \in 1 .. (num_blocks - 1) : bl' = Closed(k)
    /\ num_blocks' = num_blocks - 1
    /\ UNCHANGED <<id, id1, blidx, bot, top, pc>>

\* alloc_block_by_id: the place is searched, then the block inserted.
Alloc ==
    /\ pc = "make"
    /\ ~Full
    /\ StartSearch("CLOSEST")

Insert ==
    /\ pc = "insert"
    /\ bl' = Opened(blidx + 1, id)
    /\ num_blocks' = num_blocks + 1
    /\ blidx' = blidx + 1
    /\ pc' = "use"
    /\ UNCHANGED <<id, id1, bot, top>>

\* put_data_to_block_by_index or get_data_from_block_by_index, and the end
\* of the pass.
Use ==
    /\ pc = "use"
    /\ IF id < id1
         THEN id' = id + 1 /\ pc' = "look" /\ UNCHANGED <<id1, blidx>>
         ELSE id' = -1 /\ id1' = -1 /\ blidx' = -1 /\ pc' = "idle"
    /\ UNCHANGED <<bl, num_blocks, bot, top>>

Step == Hit \/ Above \/ Below \/ Miss \/ Look \/ Preempt \/ Alloc \/ Insert \/ Use

Next == Step \/ \E i0 \in 0 .. MaxId : \E i1 \in i0 .. MaxId : Call(i0, i1)

\* A call runs in its caller's thread until it returns.
Spec == Init /\ [][Next]_vars /\ WF_vars(Step)

-----------------------------------------------------------------------------
(* Properties *)

\* The fields have their types (the proofs build on it).
TypeOK ==
    /\ bl \in [Slot -> 0 .. MaxId] /\ num_blocks \in 0 .. MaxBlocks
    /\ id \in -1 .. MaxId /\ id1 \in -1 .. MaxId /\ blidx \in -1 .. (MaxBlocks - 1)
    /\ bot \in 0 .. MaxBlocks /\ top \in -1 .. (MaxBlocks - 1)
    /\ pc \in {"idle", "look", "EXACT", "make", "CLOSEST", "insert", "use"}

\* The list is sorted by id and holds no block twice, after any sequence of
\* insertions and removals.
Sorted == \A i, j \in Used : i < j => bl[i] < bl[j]

\* The block a call copies to or from is the one it is about: searches,
\* the shortcut to the next slot and the shifts agree on where blocks are.
UsesItsBlock == pc = "use" => blidx \in Used /\ bl[blidx] = id

\* A block is made only if it is not in the list, and its place is found
\* even though the search may stop early on either side of it.
InsertsInPlace ==
    /\ pc \in {"make", "CLOSEST", "insert"} => \A i \in Used : bl[i] # id
    /\ pc = "insert" =>
         /\ blidx < num_blocks /\ num_blocks < MaxBlocks
         /\ \A i \in Used : i <= blidx <=> bl[i] < id

\* Every call ends: the search narrows until it returns.
CallsEnd == pc # "idle" ~> pc = "idle"

\* The array implements the set of ids of the abstract cache.
Set == INSTANCE BlockSet WITH
         ids <- {bl[i] : i \in Used},
         want <- IF pc = "idle" THEN -1 ELSE id,
         last <- IF pc = "idle" THEN -1 ELSE id1
ImplementsBlockSet == Set!Spec
=============================================================================
