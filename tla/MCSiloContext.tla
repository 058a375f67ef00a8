--------------------------- MODULE MCSiloContext ---------------------------
(* Instances of SiloContext: two base names and the variable a Put of the  *)
(* first writes, paths of up to two segments, relative and absolute.       *)
EXTENDS SiloContext

MCNames == {"a", "b", "ax"}
MCComp  == [n \in MCNames |-> IF n = "ax" THEN "b" ELSE "ax"]

Rel(s) == [abs |-> FALSE, segs |-> s]
Abs(s) == [abs |-> TRUE, segs |-> s]

MCDirArgs  == {Abs(<<"b">>), Rel(<<"..">>), Rel(<<"b", "a">>), Rel(<<"a">>)}
MCNameArgs == {Rel(<<"a">>), Rel(<<"ax">>), Abs(<<"b", "a">>)}

BothAllows == {[file |-> FALSE, lib |-> FALSE], [file |-> TRUE, lib |-> FALSE]}
=============================================================================
