----------------------------- MODULE MCSiloVFD ------------------------------
(* The driver with blocks of two bytes in a file of three blocks.          *)
EXTENDS SiloVFD

CONSTANTS v1, v2

MCBytes     == {v1, v2}
MCPayloads  == {<<v1>>, <<v2, v2, v2>>}
MCReadSizes == {3}
MCInitSizes == {3}
MCMems      == {"raw"}
MCEoas      == {6}

(* System calls that fail.  The policy of preemption shows only with three *)
(* or more blocks in memory; one value of a byte tells whether the file    *)
(* was touched.                                                            *)
FaBytes     == {v1}
FaPayloads  == {<<v1, v1>>}
FaReadSizes == {2}
FaInitSizes == {2}
FaMems      == {"raw", "meta"}
FaEoas      == {4}
=============================================================================
