---------------------------- MODULE MCSiloFiles -----------------------------
(* Three file ids, two files under two names.                              *)
EXTENDS SiloFiles, TLC

CONSTANTS p1, p2, p3, i1, i2, a, b

MCPtr == {p1, p2, p3}
MCInode == {i1, i2}
MCNames == {a, b}

\* Addresses, files and names are only compared with each other.
Symmetry == Permutations(MCPtr) \cup Permutations(MCInode) \cup Permutations(MCNames)
=============================================================================
