----------------------------- MODULE FileLocks ------------------------------
(***************************************************************************)
(* The promise of DBOpen and DBCreate about concurrent use: a file is open *)
(* under any number of readers or under one writer, and a handle is given  *)
(* out once until it is given back.                                        *)
(***************************************************************************)
EXTENDS FiniteSets

CONSTANTS Handle,       \* the values a handle can have
          File          \* the identities of files

Hold == [f : Handle, n : File, w : BOOLEAN]

VARIABLES holds         \* the open handles, with their files and modes

\* Two open handles do not clash.
Compatible(x, y) == x.n = y.n => ~x.w /\ ~y.w

Init == holds = {}

Acquire ==
    \E h \in Hold :
        /\ \A x \in holds : x.f # h.f /\ Compatible(x, h)
        /\ holds' = holds \cup {h}

Release == \E h \in holds : holds' = holds \ {h}

Next == Acquire \/ Release

Spec == Init /\ [][Next]_holds
=============================================================================
