------------------------------ MODULE MCPMPIO -------------------------------
(* Programs of two batons.                                                 *)
EXTENDS PMPIO

CONSTANTS A, B

TwoBatons   == {A, B}

\* Two files at once, handed off in and against the order of the waits.
Interleaved == <<<<"wait", A>>, <<"wait", B>>, <<"hand", A>>, <<"hand", B>>>>
Nested      == <<<<"wait", A>>, <<"wait", B>>, <<"hand", B>>, <<"hand", A>>>>

\* The hypotheses of the theorems: both programs meet the first, and only the
\* second tells them apart.
ASSUME ProgramsTold == WellUsed /\ (InOrder <=> Program = Interleaved)
=============================================================================
