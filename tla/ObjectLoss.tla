----------------------------- MODULE ObjectLoss -----------------------------
(* What a database returns of what it was given: the promise that the two  *)
(* drivers are held to (PdbObjects, Hdf5Objects), with its exceptions.     *)
EXTENDS Objects

(* S, for the objects of one kind *)
For(kind, one, S) == IF kind = one THEN S ELSE {}

(* The pieces that the PDB driver takes and does not give back *)
PdbLost(kind, in) ==
  For(kind, "csgmesh", {"bndnames", "origin", "alt_nodenum_vars"})
    \cup For(kind, "csgvar", {"conserved", "extensive", "use_specmf"})
    \cup For(kind, "csgzonelist", {"lxforms", "xforms"})
    \cup For(kind, "pointvar", {"ascii_labels"} \cup IF "ndims" \in in THEN {} ELSE {"vals"})
    \cup For(kind, "quadvar", {"extensive"})
    \cup For(kind, "ucdsubmesh", {"mrgtree_name", "phzonelist", "group_no"})
    \cup For(kind, "zonelist", {"lo_offset", "hi_offset"})
    \cup For(kind, "multimesh", {"alt_nodenum_vars", "alt_zonenum_vars"})
    \cup For(kind, "multimat", IF "matnos" \in in THEN {}
                               ELSE {"nmatnos", "material_names", "matcolors"})
    \cup For(kind, "multimatspecies", {"matname"})

(* The pieces that the HDF5 driver takes and does not give back *)
Hdf5Lost(kind) ==
  For(kind, "csgmesh", {"bndnames"})
    \cup For(kind, "csgvar", {"dtime", "use_specmf", "ascii_labels"})
    \cup For(kind, "ucdsubmesh", {"phzonelist", "group_no"})
    \cup For(kind, "phzonelist", {"alt_zonenum_vars"})
    \cup For(kind, "multimatspecies", {"matname"})
    \cup For(kind, "mrgtree", {"src_mesh_type"})

(* What a first call leaves to be read. A quad variable that is conserved  *)
(* is read as extensive from a PDB file, whatever it was.                  *)
PdbReturned(kind, in) ==
  (in \ PdbLost(kind, in)) \cup For(kind, "quadvar", When(in, "conserved", {"extensive"}))
Hdf5Returned(kind, in) == in \ Hdf5Lost(kind)
=============================================================================
