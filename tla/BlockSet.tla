------------------------------ MODULE BlockSet ------------------------------
(***************************************************************************)
(* What the calls of the Silo file driver need from its list of cached     *)
(* blocks: it is a set of at most MaxBlocks ids.  A call goes through the  *)
(* ids first .. last; an id that is not in the set is added before it is   *)
(* used, and if the set is full another one, never the least, is dropped   *)
(* first.  These are the steps Evict, Load and Put or Get of SiloVFD.      *)
(***************************************************************************)
EXTENDS Integers, FiniteSets

CONSTANTS MaxBlocks, MaxId

Nobody == -1            \* no id is wanted

VARIABLES ids,          \* the cached blocks
          want,         \* the block the call in progress has come to
          last          \* the last block of the call

vars == <<ids, want, last>>

Init == ids = {} /\ want = Nobody /\ last = Nobody

Begin ==
    /\ want = Nobody
    /\ want' \in 0 .. MaxId
    /\ last' \in want' .. MaxId
    /\ UNCHANGED ids

Drop ==
    /\ want # Nobody /\ want \notin ids
    /\ Cardinality(ids) = MaxBlocks
    /\ \E v \in ids : (\E j \in ids : j < v) /\ ids' = ids \ {v}
    /\ UNCHANGED <<want, last>>

Add ==
    /\ want # Nobody /\ want \notin ids
    /\ Cardinality(ids) < MaxBlocks
    /\ ids' = ids \cup {want}
    /\ UNCHANGED <<want, last>>

Use ==
    /\ want \in ids
    /\ IF want < last THEN want' = want + 1 /\ UNCHANGED last
                      ELSE want' = Nobody /\ last' = Nobody
    /\ UNCHANGED ids

Next == Begin \/ Drop \/ Add \/ Use

Spec == Init /\ [][Next]_vars
=============================================================================
