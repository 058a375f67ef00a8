----------------------------- MODULE PdbObjects -----------------------------
(* The objects of the PDB driver (src/src/pdb_drv/silo_pdb.c): the pieces  *)
(* that a db_pdb_Put call leaves in the file, of those it is given, and    *)
(* the pieces that a db_pdb_Get call returns, of those in the file.        *)
EXTENDS Objects

PutCurve(in) ==
  in \cap ({"count", "label", "varname", "reference", "guihide", "coord_sys", "missing_value"}
           \cup Axes
           \cup IF "reference" \in in THEN {} ELSE When(in, "count", {"arrays"}))
GetCurve(s) == IF "reference" \in s THEN s \ {"arrays"} ELSE s

PutCsgmesh(in) ==
  in \cap ({"count", "extents", "zonelist"} \cup MeshInfo \cup SubsetInfo
           \cup When(in, "count", {"typeflags", "bndids", "coeffs"}))
GetCsgmesh(s) ==
  s \cap ({"count", "extents", "typeflags", "bndids", "bndnames"} \cup MeshInfo \cup SubsetInfo
          \cup When(s, "count", {"coeffs", "zonelist"}))

PutCsgvar(in) ==
  in \cap ({"count", "ascii_labels", "use_specmf"} \cup VarInfo \cup Physics
           \cup When(in, "count", {"vals"}))
GetCsgvar(s) ==
  s \cap ({"count", "vals", "ascii_labels", "missing_value", "region_pnames"} \cup VarInfo)

(* the length of xforms is not written, and xforms is read only if it is *)
PutCSGZonelist(in) ==
  in \cap ({"count", "typeflags", "leftids", "rightids", "zonelist", "xforms",
            "regnames", "zonenames", "alt_zonenum_vars"})
GetCSGZonelist(s) ==
  s \cap ({"count", "typeflags", "leftids", "rightids", "zonelist", "alt_zonenum_vars"}
          \cup When(s, "lxforms", {"xforms"})
          \cup When(s, "count", {"regnames", "zonenames"}))

PutDefvars(in) == in \cap {"count", "types", "names", "defns", "guihides"}
GetDefvars(s) ==
  s \cap ({"count", "types", "guihides"} \cup When(s, "count", {"names", "defns"}))

PutPointmesh(in) ==
  in \cap ({"count"} \cup MeshInfo
           \cup When(in, "count", {"coords", "extents", "gnodeno", "ghost_node_labels",
                                   "alt_nodenum_vars"}))
GetPointmesh(s) ==
  s \cap ({"count", "coords", "extents", "gnodeno", "ghost_node_labels", "alt_nodenum_vars"}
          \cup MeshInfo)

(* "ndims" is that of the point mesh put before, whatever its file *)
PutPointvar(in) ==
  in \cap ({"count", "ndims", "ascii_labels"} \cup VarInfo \cup Physics
           \cup When(in, "count", {"vals"}))
GetPointvar(s) ==
  s \cap ({"count", "ndims"} \cup VarInfo \cup Physics
          \cup When(s, "count", When(s, "ndims", {"vals"})))

PutQuadmesh(in) ==
  in \cap ({"count", "extents", "dims", "min_index", "base_index", "nnodes"} \cup MeshInfo
           \cup When(in, "count", {"coords", "alt_nodenum_vars", "alt_zonenum_vars"} \cup Ghosts))
GetQuadmesh(s) == s

(* conserved is read into the field of extensive too, extensive is not *)
PutQuadvar(in) ==
  in \cap ({"count", "dims", "min_index", "use_specmf", "ascii_labels", "mixlen"} \cup VarInfo
           \cup Physics \cup When(in, "count", {"vals"} \cup When(in, "mixlen", {"mixvals"})))
GetQuadvar(s) ==
  (s \ ({"extensive"} \cup IF "mixlen" \in s THEN {} ELSE {"mixvals"}))
    \cup When(s, "conserved", {"extensive"})

PutUcdmesh(in) ==
  in \cap ({"count", "extents", "facelist", "zonelist", "phzonelist", "topo_dim", "gnodeno"}
           \cup MeshInfo \cup SubsetInfo
           \cup When(in, "count", {"coords", "ghost_node_labels", "alt_nodenum_vars"}))
GetUcdmesh(s) ==
  s \cap ({"count", "extents", "topo_dim", "coords", "ghost_node_labels", "alt_nodenum_vars"}
          \cup MeshInfo \cup SubsetInfo
          \cup When(s, "count", {"gnodeno", "facelist", "zonelist", "phzonelist"}))

(* the parts of the parent are linked; db_pdb_GetUcdmesh reads a submesh *)
PutUcdsubmesh(in) ==
  in \cap ({"count", "coords", "extents", "facelist", "zonelist", "topo_dim", "cycle", "guihide"}
           \cup Axes \cup Times \cup SubsetInfo)

PutUcdvar(in) ==
  in \cap ({"count", "use_specmf", "ascii_labels", "mixlen"} \cup VarInfo \cup Physics
           \cup When(in, "count", {"vals"} \cup When(in, "mixlen", {"mixvals"})))
GetUcdvar(s) == s \ (IF "mixlen" \in s THEN {} ELSE {"mixvals"})

PutFacelist(in) ==
  in \cap {"count", "nodelist", "shapecnt", "shapesize", "typelist", "types", "zoneno"}
GetFacelist(s) == s

PutZonelist2(in) ==
  in \cap ({"count", "nodelist", "shapecnt", "shapesize", "shapetype", "lo_offset", "hi_offset"}
           \cup When(in, "count", {"gzoneno", "ghost_zone_labels", "alt_zonenum_vars"}))
(* min_index and max_index are looked for, which nothing writes *)
GetZonelist(s) == s \ {"lo_offset", "hi_offset"}

PutPHZonelist(in) ==
  in \cap ({"count", "nodecnt", "nodelist", "extface", "facecnt", "facelist",
            "lo_offset", "hi_offset"}
           \cup When(in, "count", {"gzoneno", "ghost_zone_labels", "alt_zonenum_vars"}))
GetPHZonelist(s) == s

PutMaterial(in) ==
  in \cap ({"count", "meshname", "dims", "matnos", "matnames", "matcolors", "allowmat0",
            "guihide", "mixlen"}
           \cup When(in, "count", {"matlist"} \cup
                  When(in, "mixlen", {"mix_vf", "mix_next", "mix_mat", "mix_zone"})))
GetMaterial(s) == s

PutMatspecies(in) ==
  in \cap ({"count", "matname", "dims", "nmatspec", "guihide", "specnames", "speccolors", "mixlen"}
           \cup When(in, "count", {"speclist", "species_mf"}
                  \cup When(in, "mixlen", {"mix_speclist"})))
GetMatspecies(s) == s

PutCompoundarray(in) == in \cap {"count", "elemnames", "elemlengths", "values"}
GetCompoundarray(s)  == s

PutMultimesh(in) ==
  in \cap ({"count", "meshtypes", "meshnames", "extents", "zonecounts", "has_external_zones",
            "lgroupings", "guihide", "mrgtree_name", "topo_dim", "block_type"}
           \cup SubsetInfo \cup Blocks \cup When(in, "lgroupings", {"groupings", "groupnames"}))
GetMultimesh(s) ==
  s \ (IF "count" \in s THEN {} ELSE {"meshnames"})

(* One call with every list: the object may also be filled list by list *)
PutMultimeshadj(in) ==
  in \cap ({"nblocks", "count", "meshtypes", "nneighbors"}
           \cup When(in, "count", {"neighbors", "back", "lnodelists", "lzonelists"})
           \cup When(in, "lnodelists", {"nodelists"}) \cup When(in, "lzonelists", {"zonelists"}))
GetMultimeshadj(s) ==
  s \cap ({"nblocks", "count", "meshtypes", "nneighbors", "neighbors", "back",
           "lnodelists", "lzonelists"}
          \cup When(s, "lnodelists", {"nodelists"}) \cup When(s, "lzonelists", {"zonelists"}))

PutMultivar(in) ==
  in \cap ({"count", "vartypes", "varnames", "extents", "guihide", "tensor_rank", "mmesh_name",
            "block_type"} \cup Physics \cup Blocks)
GetMultivar(s) == s \ (IF "count" \in s THEN {} ELSE {"varnames"})

(* the number of the materials is written with their numbers only *)
PutMultimat(in) ==
  in \cap ({"count", "matnames", "mixlens", "matcounts", "matlists", "guihide", "allowmat0",
            "mmesh_name"} \cup Blocks
           \cup When(in, "nmatnos", {"matnos", "material_names", "matcolors"}
                  \cup When(in, "matnos", {"nmatnos"})))
GetMultimat(s) ==
  s \ ((IF "count" \in s THEN {} ELSE {"matnames"})
       \cup IF "nmatnos" \in s THEN {} ELSE {"material_names", "matcolors"})

(* the object names the material (matname), and nothing reads that name *)
PutMultimatspecies(in) ==
  in \cap ({"count", "specnames", "guihide", "matname"} \cup Blocks
           \cup When(in, "nmatspec", {"nmatspec", "species_names", "speccolors"}))
GetMultimatspecies(s) ==
  s \ ({"matname"} \cup IF "count" \in s THEN {} ELSE {"specnames"})

PutMrgtree(in) ==
  in \cap ({"count", "name", "names", "maps_name", "children", "mrgvar_onames", "mrgvar_rnames",
            "src_mesh_type", "src_mesh_name", "type_info_bits", "nsegs"}
           \cup When(in, "nsegs", {"seg_ids", "seg_lens", "seg_types"}))
GetMrgtree(s) == s

PutGroupelmap(in) ==
  in \cap ({"count", "groupel_types", "segment_lengths", "segment_ids"}
           \cup When(in, "segment_lengths", {"segment_data", "segment_fracs"}))
GetGroupelmap(s) == s

PutMrgvar(in) == in \cap {"count", "mrgt_name", "data", "compnames", "reg_pnames"}
GetMrgvar(s)  == s

(* The callbacks of the driver, by the kind of the object *)
PutObject(kind, in) ==
  CASE kind = "curve" -> PutCurve(in)
    [] kind = "csgmesh" -> PutCsgmesh(in)
    [] kind = "csgvar" -> PutCsgvar(in)
    [] kind = "csgzonelist" -> PutCSGZonelist(in)
    [] kind = "defvars" -> PutDefvars(in)
    [] kind = "pointmesh" -> PutPointmesh(in)
    [] kind = "pointvar" -> PutPointvar(in)
    [] kind = "quadmesh" -> PutQuadmesh(in)
    [] kind = "quadvar" -> PutQuadvar(in)
    [] kind = "ucdmesh" -> PutUcdmesh(in)
    [] kind = "ucdsubmesh" -> PutUcdsubmesh(in)
    [] kind = "ucdvar" -> PutUcdvar(in)
    [] kind = "facelist" -> PutFacelist(in)
    [] kind = "zonelist" -> PutZonelist2(in)
    [] kind = "phzonelist" -> PutPHZonelist(in)
    [] kind = "material" -> PutMaterial(in)
    [] kind = "matspecies" -> PutMatspecies(in)
    [] kind = "array" -> PutCompoundarray(in)
    [] kind = "multimesh" -> PutMultimesh(in)
    [] kind = "multimeshadj" -> PutMultimeshadj(in)
    [] kind = "multivar" -> PutMultivar(in)
    [] kind = "multimat" -> PutMultimat(in)
    [] kind = "multimatspecies" -> PutMultimatspecies(in)
    [] kind = "mrgtree" -> PutMrgtree(in)
    [] kind = "groupelmap" -> PutGroupelmap(in)
    [] kind = "mrgvar" -> PutMrgvar(in)

GetObject(kind, s) ==
  CASE kind = "curve" -> GetCurve(s)
    [] kind = "csgmesh" -> GetCsgmesh(s)
    [] kind = "csgvar" -> GetCsgvar(s)
    [] kind = "csgzonelist" -> GetCSGZonelist(s)
    [] kind = "defvars" -> GetDefvars(s)
    [] kind = "pointmesh" -> GetPointmesh(s)
    [] kind = "pointvar" -> GetPointvar(s)
    [] kind = "quadmesh" -> GetQuadmesh(s)
    [] kind = "quadvar" -> GetQuadvar(s)
    [] kind = "ucdmesh" -> GetUcdmesh(s)
    [] kind = "ucdsubmesh" -> GetUcdmesh(s)
    [] kind = "ucdvar" -> GetUcdvar(s)
    [] kind = "facelist" -> GetFacelist(s)
    [] kind = "zonelist" -> GetZonelist(s)
    [] kind = "phzonelist" -> GetPHZonelist(s)
    [] kind = "material" -> GetMaterial(s)
    [] kind = "matspecies" -> GetMatspecies(s)
    [] kind = "array" -> GetCompoundarray(s)
    [] kind = "multimesh" -> GetMultimesh(s)
    [] kind = "multimeshadj" -> GetMultimeshadj(s)
    [] kind = "multivar" -> GetMultivar(s)
    [] kind = "multimat" -> GetMultimat(s)
    [] kind = "multimatspecies" -> GetMultimatspecies(s)
    [] kind = "mrgtree" -> GetMrgtree(s)
    [] kind = "groupelmap" -> GetGroupelmap(s)
    [] kind = "mrgvar" -> GetMrgvar(s)
=============================================================================
