------------------------------ MODULE Objects ------------------------------
(* What a DBPut call describes and a DBGet call returns, for the drivers   *)
(* to agree on (the structures of src/src/silo/silo.h.in).                 *)
(*                                                                         *)
(* A call is the set of the pieces its caller supplied: the arrays and     *)
(* options that are neither NULL nor zero, named after the field of the    *)
(* structure that returns them.  "count" says that the object has          *)
(* elements (npts, nnodes, nels, ndims*dims ...), "mixlen" and "segments"  *)
(* that the second count of its kind is not zero.  Sizes and types that    *)
(* every call has are left out.                                            *)

(* S, if the count or the array named by flag was supplied *)
When(s, flag, S) == IF flag \in s THEN S ELSE {}

Times   == {"time", "dtime"}
Axes    == {"labels", "units"}
Ghosts  == {"ghost_node_labels", "ghost_zone_labels"}
Physics == {"conserved", "extensive", "missing_value", "region_pnames"}
VarInfo == {"meshname", "label", "units", "cycle", "guihide"} \cup Times
MeshInfo == Axes \cup Times \cup {"cycle", "guihide", "group_no", "mrgtree_name"}
SubsetInfo == {"tv_connectivity", "disjoint_mode"}

(* The blocks of a multi-object, by name or by a scheme for the names *)
Blocks == {"file_ns", "block_ns", "empty_list", "repr_block_idx"}

(* The objects, and the fields of the structure of each                    *)
Kinds == {"curve", "csgmesh", "csgvar", "csgzonelist", "defvars", "pointmesh", "pointvar",
          "quadmesh", "quadvar", "ucdmesh", "ucdsubmesh", "ucdvar", "facelist", "zonelist",
          "phzonelist", "material", "matspecies", "array", "multimesh", "multimeshadj",
          "multivar", "multimat", "multimatspecies", "mrgtree", "groupelmap", "mrgvar"}

(* the arrays of an object that has elements, their names and options     *)
Counted ==
  [ curve |-> {"arrays"},
    csgmesh |-> {"typeflags", "bndids", "coeffs", "bndnames", "zonelist"},
    csgvar |-> {"vals"},
    csgzonelist |->
      {"typeflags", "leftids", "rightids", "zonelist", "lxforms", "xforms",
      "regnames", "zonenames"},
    defvars |-> {"types", "names", "defns", "guihides"},
    pointmesh |-> {"coords", "extents", "gnodeno", "ghost_node_labels", "alt_nodenum_vars"},
    pointvar |-> {"vals"},
    quadmesh |-> {"coords", "alt_nodenum_vars", "alt_zonenum_vars"} \cup Ghosts,
    quadvar |-> {"vals", "mixlen", "mixvals"},
    ucdmesh |->
      {"coords", "gnodeno", "ghost_node_labels", "alt_nodenum_vars", "facelist",
      "zonelist", "phzonelist"},
    ucdsubmesh |-> {"facelist", "zonelist", "phzonelist"},
    ucdvar |-> {"vals", "mixlen", "mixvals"},
    facelist |-> {"nodelist", "shapecnt", "shapesize", "typelist", "types", "zoneno"},
    zonelist |->
      {"nodelist", "shapecnt", "shapesize", "shapetype", "gzoneno",
      "ghost_zone_labels", "alt_zonenum_vars"},
    phzonelist |->
      {"nodecnt", "nodelist", "extface", "facecnt", "facelist", "gzoneno",
      "ghost_zone_labels", "alt_zonenum_vars"},
    material |-> {"matlist", "mixlen", "mix_vf", "mix_next", "mix_mat", "mix_zone"},
    matspecies |-> {"speclist", "species_mf", "mixlen", "mix_speclist"},
    array |-> {"elemnames", "elemlengths", "values"},
    multimesh |->
      {"meshtypes", "meshnames", "extents", "zonecounts", "has_external_zones",
      "lgroupings", "groupings", "groupnames"},
    multimeshadj |->
      {"neighbors", "back", "lnodelists", "nodelists", "lzonelists",
      "zonelists"},
    multivar |-> {"vartypes", "varnames", "extents"},
    multimat |-> {"matnames", "mixlens", "matcounts", "matlists"},
    multimatspecies |-> {"specnames"},
    mrgtree |->
      {"name", "names", "maps_name", "children", "nsegs", "seg_ids", "seg_lens",
      "seg_types"},
    groupelmap |->
      {"groupel_types", "segment_lengths", "segment_ids", "segment_data",
      "segment_fracs"},
    mrgvar |-> {"data", "compnames", "reg_pnames"} ]

(* what an object may have with or without elements *)
Described ==
  [ curve |->
      {"label", "varname", "reference", "guihide", "coord_sys", "missing_value"}
      \cup Axes,
    csgmesh |-> {"extents", "origin", "alt_nodenum_vars"} \cup MeshInfo \cup SubsetInfo,
    csgvar |-> {"use_specmf", "ascii_labels"} \cup VarInfo \cup Physics,
    csgzonelist |-> {"alt_zonenum_vars"},
    defvars |-> {},
    pointmesh |-> MeshInfo,
    pointvar |-> {"ndims", "ascii_labels"} \cup VarInfo \cup Physics,
    quadmesh |-> {"extents", "dims", "min_index", "base_index", "nnodes"} \cup MeshInfo,
    quadvar |->
      {"dims", "min_index", "use_specmf", "ascii_labels"} \cup VarInfo \cup
      Physics,
    ucdmesh |-> {"extents", "topo_dim"} \cup MeshInfo \cup SubsetInfo,
    ucdsubmesh |-> {"extents", "coords", "topo_dim"} \cup MeshInfo \cup SubsetInfo,
    ucdvar |-> {"use_specmf", "ascii_labels"} \cup VarInfo \cup Physics,
    facelist |-> {},
    zonelist |-> {"lo_offset", "hi_offset"},
    phzonelist |-> {"lo_offset", "hi_offset"},
    material |->
      {"meshname", "dims", "matnos", "matnames", "matcolors", "allowmat0",
      "guihide"},
    matspecies |-> {"matname", "dims", "nmatspec", "guihide", "specnames", "speccolors"},
    array |-> {},
    multimesh |->
      {"guihide", "mrgtree_name", "topo_dim", "block_type", "alt_nodenum_vars",
      "alt_zonenum_vars"} \cup SubsetInfo \cup Blocks,
    multimeshadj |-> {"nblocks", "meshtypes", "nneighbors"},
    multivar |->
      {"guihide", "tensor_rank", "mmesh_name", "block_type"} \cup Physics \cup
      Blocks,
    multimat |->
      {"guihide", "allowmat0", "mmesh_name", "nmatnos", "matnos",
      "material_names", "matcolors"} \cup Blocks,
    multimatspecies |->
      {"guihide", "matname", "nmatspec", "species_names", "speccolors"} \cup
      Blocks,
    mrgtree |->
      {"mrgvar_onames", "mrgvar_rnames", "src_mesh_type", "src_mesh_name",
      "type_info_bits"},
    groupelmap |-> {},
    mrgvar |-> {"mrgt_name"} ]

(* what is read and written only with the length or the list named first *)
Measured ==
  [ lxforms |-> {"xforms"},
    mixlen |-> {"mixvals", "mix_vf", "mix_next", "mix_mat", "mix_zone", "mix_speclist"},
    lgroupings |-> {"groupings", "groupnames"},
    nneighbors |-> {"neighbors", "back", "lnodelists", "lzonelists"},
    lnodelists |-> {"nodelists"},
    lzonelists |-> {"zonelists"},
    nmatnos |-> {"matnos", "material_names", "matcolors"},
    nmatspec |-> {"species_names", "speccolors"},
    nsegs |-> {"seg_ids", "seg_lens", "seg_types"},
    segment_lengths |-> {"segment_data", "segment_fracs"} ]

(* The calls that silo.c passes on to a driver: no array without its       *)
(* length (which is an argument of every call, if it is not a piece of the *)
(* kind), and a curve has data of its own or refers to another curve.      *)
Pieces(kind) == {"count"} \cup Counted[kind] \cup Described[kind]
Accepts(kind, in) ==
  /\ in \subseteq Pieces(kind)
  /\ "count" \notin in => in \cap Counted[kind] = {}
  /\ \A length \in DOMAIN Measured \cap Pieces(kind) :
       length \notin in => in \cap Measured[length] = {}
  /\ kind = "curve" /\ "reference" \in in => "arrays" \notin in
  /\ kind = "matspecies" /\ "specnames" \in in => "nmatspec" \in in
=============================================================================
