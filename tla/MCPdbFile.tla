----------------------------- MODULE MCPdbFile -----------------------------
(* Instances of PdbFile: two variables of up to two elements.              *)
EXTENDS PdbFile

CONSTANTS a, b, root
TwoNames == {a, b}
=============================================================================
