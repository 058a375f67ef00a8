------------------------------ MODULE MCCalls ------------------------------
(* Calls for TLC, with the functions of all components; the objects are    *)
(* interchangeable.                                                        *)
EXTENDS Calls, FortranCalls, Hdf5Calls, AllocCalls, SiloCalls, PdbCalls, LiteCalls,
        LiteDataCalls, SchemeCalls, ReaderCalls

AllScripts ==
  Fortran @@ Hdf5Steps @@ Alloc @@ Silo @@ Pdb @@ Lite @@ LiteData @@ Scheme @@ Reader
AllLost ==
  FortranLost @@ Hdf5Lost @@ AllocLost @@ SiloLost @@ PdbLost @@ LiteLost @@ LiteDataLost
    @@ SchemeLost @@ ReaderLost
AllSilent ==
  UNION {FortranSilent, Hdf5Silent, AllocSilent, SiloSilent, PdbSilent, LiteSilent, LiteDataSilent,
         SchemeSilent, ReaderSilent}
Elsewhere == HDF5 \cup System

(* None is excused that hides nothing *)
ASSUME Excused == Silent \subseteq Hiding

Addresses == Permutations(Objects)
=============================================================================
