---------------------------- MODULE Hdf5Objects ----------------------------
(* The objects of the HDF5 driver (src/src/hdf5_drv/silo_hdf5.c): the      *)
(* pieces that a db_hdf5_Put call gives a member of the header, of those   *)
(* it is given, and the pieces that a db_hdf5_Get call returns, of those   *)
(* the header it reads has members for.                                    *)
EXTENDS Objects

PutCurve(in) ==
  in \cap ({"count", "label", "varname", "reference", "guihide", "coord_sys", "missing_value"}
           \cup Axes \cup When(in, "count", {"arrays"}))
GetCurve(s) == IF "reference" \in s THEN s \ {"arrays"} ELSE s

PutCsgmesh(in) ==
  in \cap ({"count", "extents", "zonelist", "origin", "alt_nodenum_vars"} \cup MeshInfo
           \cup SubsetInfo \cup When(in, "count", {"typeflags", "bndids", "coeffs"}))
GetCsgmesh(s) ==
  s \cap ({"count", "extents", "origin", "alt_nodenum_vars"} \cup MeshInfo \cup SubsetInfo
          \cup When(s, "count", {"typeflags", "bndids", "bndnames", "coeffs", "zonelist"}))

(* dtime and use_specmf are taken from the options of the last ucd object *)
PutCsgvar(in) ==
  in \cap ({"count"} \cup Physics \cup (VarInfo \ {"dtime"}) \cup When(in, "count", {"vals"}))
GetCsgvar(s) ==
  s \cap ({"count", "vals", "use_specmf", "ascii_labels"} \cup VarInfo \cup Physics)

PutCSGZonelist(in) ==
  in \cap ({"count", "lxforms", "alt_zonenum_vars"}
           \cup When(in, "lxforms", {"xforms"})
           \cup When(in, "count", {"typeflags", "leftids", "rightids", "zonelist",
                                   "regnames", "zonenames"}))
GetCSGZonelist(s) == s

PutDefvars(in) == in \cap {"count", "types", "names", "defns", "guihides"}
GetDefvars(s)  == s

PutPointmesh(in) ==
  in \cap ({"count", "alt_nodenum_vars"} \cup MeshInfo
           \cup When(in, "count", {"coords", "extents", "gnodeno", "ghost_node_labels"}))
GetPointmesh(s) ==
  s \cap ({"count", "coords", "extents", "gnodeno", "ghost_node_labels", "alt_nodenum_vars"}
          \cup MeshInfo)

PutPointvar(in) ==
  in \cap ({"count", "ndims", "ascii_labels"} \cup VarInfo \cup Physics
           \cup When(in, "count", {"vals"}))
GetPointvar(s) ==
  s \cap ({"count", "ndims", "ascii_labels"} \cup VarInfo \cup Physics
          \cup When(s, "count", {"vals"}))

PutQuadmesh(in) ==
  in \cap ({"count", "extents", "dims", "min_index", "base_index", "nnodes",
            "alt_nodenum_vars", "alt_zonenum_vars"} \cup MeshInfo
           \cup When(in, "count", {"coords"} \cup Ghosts))
GetQuadmesh(s) == s

PutQuadvar(in) ==
  in \cap ({"count", "dims", "min_index", "use_specmf", "ascii_labels", "mixlen"} \cup VarInfo
           \cup Physics \cup When(in, "count", {"vals"} \cup When(in, "mixlen", {"mixvals"})))
GetQuadvar(s) == s \ (IF "mixlen" \in s THEN {} ELSE {"mixvals"})

PutUcdmesh(in) ==
  in \cap ({"count", "extents", "facelist", "zonelist", "phzonelist", "topo_dim",
            "alt_nodenum_vars"} \cup MeshInfo \cup SubsetInfo
           \cup When(in, "count", {"coords", "gnodeno", "ghost_node_labels"}))
GetUcdmesh(s) ==
  s \cap ({"count", "extents", "topo_dim", "coords", "gnodeno", "ghost_node_labels",
           "alt_nodenum_vars"} \cup MeshInfo \cup SubsetInfo
          \cup When(s, "count", {"facelist", "zonelist", "phzonelist"}))

(* phzonelist and group_no have no member in the header of a submesh *)
PutUcdsubmesh(in) ==
  in \cap ({"count", "coords", "extents", "facelist", "zonelist", "topo_dim", "cycle", "guihide",
            "mrgtree_name"} \cup Axes \cup Times \cup SubsetInfo)

PutUcdvar(in) ==
  in \cap ({"count", "use_specmf", "ascii_labels", "mixlen"} \cup VarInfo \cup Physics
           \cup When(in, "count", {"vals"} \cup When(in, "mixlen", {"mixvals"})))
GetUcdvar(s) == s \ (IF "mixlen" \in s THEN {} ELSE {"mixvals"})

PutFacelist(in) ==
  in \cap {"count", "nodelist", "shapecnt", "shapesize", "typelist", "types", "zoneno"}
GetFacelist(s) == s

PutZonelist2(in) ==
  in \cap {"count", "nodelist", "shapecnt", "shapesize", "shapetype", "lo_offset", "hi_offset",
           "gzoneno", "ghost_zone_labels", "alt_zonenum_vars"}
GetZonelist(s) == s

(* alt_zonenum_vars is written to the file, but the header has no member *)
PutPHZonelist(in) ==
  in \cap {"count", "nodecnt", "nodelist", "extface", "facecnt", "facelist",
           "lo_offset", "hi_offset", "gzoneno", "ghost_zone_labels"}
GetPHZonelist(s) == s

PutMaterial(in) ==
  in \cap ({"count", "meshname", "dims", "matnos", "matnames", "matcolors", "allowmat0",
            "guihide", "mixlen"}
           \cup When(in, "count", {"matlist"} \cup
                  When(in, "mixlen", {"mix_vf", "mix_next", "mix_mat", "mix_zone"})))
GetMaterial(s) == s

PutMatspecies(in) ==
  in \cap ({"count", "matname", "dims", "nmatspec", "guihide", "specnames", "speccolors", "mixlen"}
           \cup When(in, "count", {"speclist", "species_mf"}
                  \cup When(in, "mixlen", {"mix_speclist"})))
GetMatspecies(s) ==
  s \ (IF "nmatspec" \in s THEN {} ELSE {"specnames", "speccolors"})

PutCompoundarray(in) == in \cap {"count", "elemnames", "elemlengths", "values"}
GetCompoundarray(s)  == s

PutMultimesh(in) ==
  in \cap ({"count", "meshtypes", "meshnames", "extents", "zonecounts", "has_external_zones",
            "lgroupings", "guihide", "mrgtree_name", "topo_dim", "block_type",
            "alt_nodenum_vars", "alt_zonenum_vars"}
           \cup SubsetInfo \cup Blocks \cup When(in, "lgroupings", {"groupings", "groupnames"}))
GetMultimesh(s) ==
  s \ (IF "count" \in s THEN {}
       ELSE {"meshtypes", "meshnames", "extents", "zonecounts", "has_external_zones",
             "groupings", "groupnames"})

PutMultimeshadj(in) ==
  in \cap ({"nblocks", "count", "meshtypes", "nneighbors", "back", "lnodelists", "lzonelists"}
           \cup When(in, "count", {"neighbors"})
           \cup When(in, "lnodelists", {"nodelists"}) \cup When(in, "lzonelists", {"zonelists"}))
GetMultimeshadj(s) ==
  s \cap ({"nblocks", "count", "meshtypes", "nneighbors", "neighbors", "back",
           "lnodelists", "lzonelists"}
          \cup When(s, "nneighbors", When(s, "lnodelists", {"nodelists"})
                                     \cup When(s, "lzonelists", {"zonelists"})))

PutMultivar(in) ==
  in \cap ({"count", "vartypes", "varnames", "extents", "guihide", "tensor_rank", "mmesh_name",
            "block_type"} \cup Physics \cup Blocks)
GetMultivar(s) == s \ (IF "count" \in s THEN {} ELSE {"vartypes", "varnames"})

PutMultimat(in) ==
  in \cap ({"count", "mixlens", "matcounts", "matlists", "guihide", "allowmat0",
            "mmesh_name", "nmatnos"} \cup Blocks
           \cup When(in, "count", {"matnames"})
           \cup When(in, "nmatnos", {"matnos", "material_names", "matcolors"}))
GetMultimat(s) == s \ (IF "nmatnos" \in s THEN {} ELSE {"material_names", "matcolors"})

(* the object names the material (matname), and nothing reads that name *)
PutMultimatspecies(in) ==
  in \cap ({"count", "guihide", "matname"} \cup Blocks \cup When(in, "count", {"specnames"})
           \cup When(in, "nmatspec", {"nmatspec", "species_names", "speccolors"}))
GetMultimatspecies(s) ==
  s \ ({"matname"} \cup IF "nmatspec" \in s THEN {} ELSE {"species_names", "speccolors"})

(* src_mesh_type has its member in the header, and is not read from it *)
PutMrgtree(in) ==
  in \cap ({"count", "name", "names", "maps_name", "children", "mrgvar_onames", "mrgvar_rnames",
            "src_mesh_type", "src_mesh_name", "type_info_bits", "nsegs"}
           \cup When(in, "nsegs", {"seg_ids", "seg_lens", "seg_types"}))
GetMrgtree(s) == s \ {"src_mesh_type"}

PutGroupelmap(in) ==
  in \cap ({"count", "groupel_types", "segment_lengths", "segment_ids"}
           \cup When(in, "segment_lengths", {"segment_data", "segment_fracs"}))
GetGroupelmap(s) == s

PutMrgvar(in) == in \cap {"count", "mrgt_name", "data", "compnames", "reg_pnames"}
GetMrgvar(s)  == s

(* The callbacks of the driver, by the kind of the object *)
PutObject(kind, in) ==
  CASE kind = "curve" -> PutCurve(in)
    [] kind = "csgmesh" -> PutCsgmesh(in)
    [] kind = "csgvar" -> PutCsgvar(in)
    [] kind = "csgzonelist" -> PutCSGZonelist(in)
    [] kind = "defvars" -> PutDefvars(in)
    [] kind = "pointmesh" -> PutPointmesh(in)
    [] kind = "pointvar" -> PutPointvar(in)
    [] kind = "quadmesh" -> PutQuadmesh(in)
    [] kind = "quadvar" -> PutQuadvar(in)
    [] kind = "ucdmesh" -> PutUcdmesh(in)
    [] kind = "ucdsubmesh" -> PutUcdsubmesh(in)
    [] kind = "ucdvar" -> PutUcdvar(in)
    [] kind = "facelist" -> PutFacelist(in)
    [] kind = "zonelist" -> PutZonelist2(in)
    [] kind = "phzonelist" -> PutPHZonelist(in)
    [] kind = "material" -> PutMaterial(in)
    [] kind = "matspecies" -> PutMatspecies(in)
    [] kind = "array" -> PutCompoundarray(in)
    [] kind = "multimesh" -> PutMultimesh(in)
    [] kind = "multimeshadj" -> PutMultimeshadj(in)
    [] kind = "multivar" -> PutMultivar(in)
    [] kind = "multimat" -> PutMultimat(in)
    [] kind = "multimatspecies" -> PutMultimatspecies(in)
    [] kind = "mrgtree" -> PutMrgtree(in)
    [] kind = "groupelmap" -> PutGroupelmap(in)
    [] kind = "mrgvar" -> PutMrgvar(in)

GetObject(kind, s) ==
  CASE kind = "curve" -> GetCurve(s)
    [] kind = "csgmesh" -> GetCsgmesh(s)
    [] kind = "csgvar" -> GetCsgvar(s)
    [] kind = "csgzonelist" -> GetCSGZonelist(s)
    [] kind = "defvars" -> GetDefvars(s)
    [] kind = "pointmesh" -> GetPointmesh(s)
    [] kind = "pointvar" -> GetPointvar(s)
    [] kind = "quadmesh" -> GetQuadmesh(s)
    [] kind = "quadvar" -> GetQuadvar(s)
    [] kind = "ucdmesh" -> GetUcdmesh(s)
    [] kind = "ucdsubmesh" -> GetUcdmesh(s)
    [] kind = "ucdvar" -> GetUcdvar(s)
    [] kind = "facelist" -> GetFacelist(s)
    [] kind = "zonelist" -> GetZonelist(s)
    [] kind = "phzonelist" -> GetPHZonelist(s)
    [] kind = "material" -> GetMaterial(s)
    [] kind = "matspecies" -> GetMatspecies(s)
    [] kind = "array" -> GetCompoundarray(s)
    [] kind = "multimesh" -> GetMultimesh(s)
    [] kind = "multimeshadj" -> GetMultimeshadj(s)
    [] kind = "multivar" -> GetMultivar(s)
    [] kind = "multimat" -> GetMultimat(s)
    [] kind = "multimatspecies" -> GetMultimatspecies(s)
    [] kind = "mrgtree" -> GetMrgtree(s)
    [] kind = "groupelmap" -> GetGroupelmap(s)
    [] kind = "mrgvar" -> GetMrgvar(s)
=============================================================================
