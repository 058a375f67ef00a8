------------------------------ MODULE AllocCalls ------------------------------
(* The functions that make and free what Silo returns to a program         *)
(* (src/src/silo/alloc.c), as their steps.  Whoever frees a structure has  *)
(* the structure and everything that its fields point to, an array with    *)
(* its elements.                                                           *)
EXTENDS CallSteps, TLC

VarFields  == {"name", "units", "label", "vals", "meshname", "region_pnames"}
SideFields == {"shapecnt", "shapesize", "nodelist", "zoneno"}
Schemes    == {"file_ns", "block_ns", "empty_list"}
MeshFields == {"name", "units", "labels", "coords", "mrgtree_name"}

(* The fields of each structure that are pointers *)
Pointers ==
  [DBcurve |-> {"title", "xvarname", "yvarname", "xlabel", "ylabel", "xunits", "yunits", "x", "y",
                "reference"},
   DBdefvars |-> {"names", "types", "defns", "guihides"},
   DBpointmesh |-> {"title", "gnodeno", "ghost_node_labels", "alt_nodenum_vars"} \cup MeshFields,
   DBmultimesh |-> {"meshids", "meshnames", "meshtypes", "dirids", "extents", "zonecounts",
                    "has_external_zones", "groupings", "groupnames", "mrgtree_name",
                    "alt_nodenum_vars", "alt_zonenum_vars", "meshnames_alloc"} \cup Schemes,
   DBmultimeshadj |-> {"meshtypes", "nneighbors", "neighbors", "back", "lnodelists", "nodelists",
                       "lzonelists", "zonelists"},
   DBmultivar |-> {"varnames", "vartypes", "extents", "region_pnames", "mmesh_name",
                   "varnames_alloc"} \cup Schemes,
   DBmultimat |-> {"matnames", "mixlens", "matcounts", "matlists", "matnos", "matcolors",
                   "material_names", "mmesh_name", "matnames_alloc"} \cup Schemes,
   DBmultimatspecies |-> {"specnames", "nmatspec", "species_names", "speccolors",
                          "specnames_alloc"} \cup Schemes,
   DBzonelist |-> {"shapetype", "gzoneno", "ghost_zone_labels", "alt_zonenum_vars"} \cup SideFields,
   DBphzonelist |-> {"nodecnt", "nodelist", "extface", "facecnt", "facelist", "zoneno", "gzoneno",
                     "ghost_zone_labels", "alt_zonenum_vars"},
   DBfacelist |-> {"typelist", "types", "nodeno"} \cup SideFields,
   DBedgelist |-> {"edge_beg", "edge_end"},
   DBquadmesh |-> {"ghost_node_labels", "ghost_zone_labels", "alt_nodenum_vars",
                   "alt_zonenum_vars"} \cup MeshFields,
   DBucdmesh |-> {"faces", "zones", "edges", "gnodeno", "nodeno", "phzones", "ghost_node_labels",
                  "alt_nodenum_vars"} \cup MeshFields,
   DBquadvar |-> {"mixvals"} \cup VarFields,
   DBucdvar |-> {"mixvals"} \cup VarFields,
   DBmeshvar |-> VarFields,
   DBmaterial |-> {"name", "matnos", "matnames", "matlist", "mix_vf", "mix_next", "mix_mat",
                   "mix_zone", "matcolors", "meshname"},
   DBmatspecies |-> {"name", "matname", "nmatspec", "species_mf", "speclist", "mix_speclist",
                     "specnames", "speccolors"},
   DBcsgzonelist |-> {"typeflags", "leftids", "rightids", "xform", "zonelist", "regnames",
                      "zonenames", "alt_zonenum_vars"},
   DBcsgmesh |-> {"name", "units", "labels", "typeflags", "bndids", "coeffs", "coeffidx", "zones",
                  "bndnames", "mrgtree_name", "alt_nodenum_vars"},
   DBcsgvar |-> VarFields,
   DBcompoundarray |-> {"name", "elemnames", "elemlengths", "values"},
   DBgroupelmap |-> {"name", "groupel_types", "segment_lengths", "segment_ids", "segment_data",
                     "segment_fracs"},
   DBmrgvar |-> {"name", "mrgt_name", "compnames", "reg_pnames", "data"},
   DBnamescheme |-> {"fmt", "fmtptrs", "embedns", "arrnames", "arrvals", "arrsizes", "exprstrs"}]

(* A structure, and some of its arrays; without memory for an array it is  *)
(* freed, which reads what a missing array should hold                     *)
Allocs(t)         == Api(Open(t) \o Keep({t}))
AllocsAll(t, rs) ==
  Api(Open(t) \o Copy(rs) \o Maybe(Free({t} \cup rs) \o Refuse) \o Keep({t} \cup rs))
AllocsBlindly(t, rs) ==
  Api(Open(t) \o Copy(rs) \o Maybe(Maybe(Dies) \o Free({t} \cup rs) \o Refuse)
        \o Keep({t} \cup rs))

DBAllocCsgmesh   == Allocs("DBcsgmesh")
DBAllocQuadmesh  == Allocs("DBquadmesh")
DBAllocPointmesh == Allocs("DBpointmesh")
DBAllocMeshvar   == Allocs("DBmeshvar")
DBAllocUcdmesh   == Allocs("DBucdmesh")
DBAllocCsgvar    == Allocs("DBcsgvar")
DBAllocQuadvar   == Allocs("DBquadvar")
DBAllocUcdvar    == Allocs("DBucdvar")
DBAllocZonelist  == Allocs("DBzonelist")
DBAllocPHZonelist  == Allocs("DBphzonelist")
DBAllocCSGZonelist == Allocs("DBcsgzonelist")
DBAllocEdgelist  == Allocs("DBedgelist")
DBAllocFacelist  == Allocs("DBfacelist")
DBAllocMaterial  == Allocs("DBmaterial")
DBAllocMatspecies    == Allocs("DBmatspecies")
DBAllocCompoundarray == Allocs("DBcompoundarray")
DBAllocCurve      == Allocs("DBcurve")
DBAllocNamescheme == Allocs("DBnamescheme")

DBAllocMultimesh ==
  AllocsAll("DBmultimesh", {"meshids", "meshnames", "meshtypes", "dirids"})
DBAllocMultivar ==
  AllocsAll("DBmultivar", {"varnames", "vartypes"})
DBAllocMultimat ==
  AllocsAll("DBmultimat", {"matnames"})
DBAllocMultimatspecies ==
  AllocsAll("DBmultimatspecies", {"specnames"})
DBAllocDefvars ==
  AllocsBlindly("DBdefvars", {"names", "types", "defns"})
DBAllocMultimeshadj ==
  AllocsBlindly("DBmultimeshadj", {"meshtypes", "nneighbors"})
DBAllocGroupelmap ==
  AllocsBlindly("DBgroupelmap", {"groupel_types", "segment_lengths", "segment_ids", "segment_data", "segment_fracs"})

(* NULL is nothing to free *)
Frees(t, rs) == Quiet(Maybe(Done) \o Own({t} \cup Pointers[t]) \o Free({t} \cup rs))
(* what is in one list is counted by another array, or read without a look *)
FreesBlindly(t, rs) == Quiet(Maybe(Done) \o Own({t} \cup Pointers[t]) \o Maybe(Dies) \o Free({t} \cup rs))

DBFreeDefvars == Frees("DBdefvars", {"names", "defns", "types", "guihides"})
DBFreeMultimesh ==
  Frees("DBmultimesh",
        {"meshnames_alloc", "meshnames", "groupnames", "groupings", "extents", "zonecounts",
         "has_external_zones", "meshids", "meshtypes", "dirids", "mrgtree_name"} \cup Schemes)
DBFreeMultimeshadj ==
  FreesBlindly("DBmultimeshadj",
               {"nodelists", "zonelists", "meshtypes", "nneighbors", "neighbors", "back",
                "lnodelists", "lzonelists"})
DBFreeMultivar ==
  Frees("DBmultivar", {"varnames_alloc", "varnames", "region_pnames", "vartypes", "mmesh_name",
                       "extents"} \cup Schemes)
DBFreeMultimat ==
  Frees("DBmultimat", {"matnames_alloc", "matnames", "material_names", "matcolors", "mixlens",
                       "matcounts", "matlists", "matnos", "mmesh_name"} \cup Schemes)
DBFreeMultimatspecies ==
  FreesBlindly("DBmultimatspecies",
               {"species_names", "speccolors", "specnames_alloc", "specnames", "nmatspec"} \cup Schemes)
DBFreeCsgmesh ==
  Frees("DBcsgmesh", {"labels", "units", "bndnames", "typeflags", "bndids", "coeffs", "coeffidx",
                      "name", "mrgtree_name", "zones"})
DBFreeQuadmesh  == Frees("DBquadmesh", MeshFields)
DBFreePointmesh == Frees("DBpointmesh", MeshFields \cup {"gnodeno", "title"})
DBFreeMeshvar   == Frees("DBmeshvar", VarFields)
DBFreeUcdmesh ==
  Frees("DBucdmesh", MeshFields \cup {"faces", "zones", "edges", "phzones", "nodeno", "gnodeno"})
DBFreeCsgvar  == Frees("DBcsgvar", VarFields)
DBFreeQuadvar == Frees("DBquadvar", VarFields \cup {"mixvals"})
DBFreeUcdvar  == Frees("DBucdvar", VarFields \cup {"mixvals"})
DBFreeZonelist == Frees("DBzonelist", SideFields \cup {"shapetype", "gzoneno"})
DBFreePHZonelist ==
  Frees("DBphzonelist", {"nodecnt", "nodelist", "extface", "facecnt", "facelist", "zoneno",
                         "gzoneno"})
DBFreeCSGZonelist ==
  Frees("DBcsgzonelist", {"zonenames", "regnames", "typeflags", "leftids", "rightids", "xform",
                          "zonelist"})
DBFreeEdgelist == Frees("DBedgelist", {"edge_beg", "edge_end"})
DBFreeFacelist == Frees("DBfacelist", SideFields \cup {"types", "typelist", "nodeno"})
DBFreeMaterial ==
  Frees("DBmaterial", {"matnames", "matcolors", "name", "matnos", "matlist", "mix_vf", "mix_next",
                       "mix_zone", "mix_mat", "meshname"})
DBFreeMatspecies ==
  FreesBlindly("DBmatspecies", {"specnames", "speccolors", "name", "matname", "nmatspec",
                                "species_mf", "speclist", "mix_speclist"})
DBFreeCompoundarray ==
  Frees("DBcompoundarray", {"name", "elemnames", "elemlengths", "values"})
DBFreeCurve ==
  Frees("DBcurve", {"title", "xvarname", "yvarname", "xlabel", "ylabel", "xunits", "yunits",
                    "x", "y"})
DBFreeGroupelmap ==
  FreesBlindly("DBgroupelmap", {"name", "groupel_types", "segment_lengths", "segment_ids",
                                "segment_data", "segment_fracs"})
DBFreeMrgvar == FreesBlindly("DBmrgvar", {"compnames", "reg_pnames", "data"})
(* the values of arrays are only freed if Silo has read them *)
DBFreeNamescheme ==
  Quiet(Maybe(Dies) \o Own({"DBnamescheme"} \cup Pointers["DBnamescheme"])
    \o Free({"arrvals", "arrnames", "arrsizes", "fmt", "fmtptrs", "embedns", "exprstrs",
             "DBnamescheme"}))

-----------------------------------------------------------------------------
Alloc ==
  [DBAllocCsgmesh |-> DBAllocCsgmesh, DBAllocQuadmesh |-> DBAllocQuadmesh,
   DBAllocPointmesh |-> DBAllocPointmesh, DBAllocMeshvar |-> DBAllocMeshvar,
   DBAllocUcdmesh |-> DBAllocUcdmesh, DBAllocCsgvar |-> DBAllocCsgvar,
   DBAllocQuadvar |-> DBAllocQuadvar, DBAllocUcdvar |-> DBAllocUcdvar,
   DBAllocZonelist |-> DBAllocZonelist, DBAllocPHZonelist |-> DBAllocPHZonelist,
   DBAllocCSGZonelist |-> DBAllocCSGZonelist, DBAllocEdgelist |-> DBAllocEdgelist,
   DBAllocFacelist |-> DBAllocFacelist, DBAllocMaterial |-> DBAllocMaterial,
   DBAllocMatspecies |-> DBAllocMatspecies,
   DBAllocCompoundarray |-> DBAllocCompoundarray, DBAllocCurve |-> DBAllocCurve,
   DBAllocNamescheme |-> DBAllocNamescheme, DBAllocMultimesh |-> DBAllocMultimesh,
   DBAllocMultivar |-> DBAllocMultivar, DBAllocMultimat |-> DBAllocMultimat,
   DBAllocMultimatspecies |-> DBAllocMultimatspecies, DBAllocDefvars |-> DBAllocDefvars,
   DBAllocMultimeshadj |-> DBAllocMultimeshadj, DBAllocGroupelmap |-> DBAllocGroupelmap,
   DBFreeDefvars |-> DBFreeDefvars, DBFreeMultimesh |-> DBFreeMultimesh,
   DBFreeMultimeshadj |-> DBFreeMultimeshadj, DBFreeMultivar |-> DBFreeMultivar,
   DBFreeMultimat |-> DBFreeMultimat, DBFreeMultimatspecies |-> DBFreeMultimatspecies,
   DBFreeCsgmesh |-> DBFreeCsgmesh, DBFreeQuadmesh |-> DBFreeQuadmesh,
   DBFreePointmesh |-> DBFreePointmesh, DBFreeMeshvar |-> DBFreeMeshvar,
   DBFreeUcdmesh |-> DBFreeUcdmesh, DBFreeCsgvar |-> DBFreeCsgvar,
   DBFreeQuadvar |-> DBFreeQuadvar, DBFreeUcdvar |-> DBFreeUcdvar,
   DBFreeZonelist |-> DBFreeZonelist, DBFreePHZonelist |-> DBFreePHZonelist,
   DBFreeCSGZonelist |-> DBFreeCSGZonelist, DBFreeEdgelist |-> DBFreeEdgelist,
   DBFreeFacelist |-> DBFreeFacelist, DBFreeMaterial |-> DBFreeMaterial,
   DBFreeMatspecies |-> DBFreeMatspecies, DBFreeCompoundarray |-> DBFreeCompoundarray,
   DBFreeCurve |-> DBFreeCurve, DBFreeGroupelmap |-> DBFreeGroupelmap,
   DBFreeMrgvar |-> DBFreeMrgvar, DBFreeNamescheme |-> DBFreeNamescheme]

AllocLost ==
  [DBFreeMultimesh |-> {"alt_nodenum_vars", "alt_zonenum_vars"},
   DBFreeCsgmesh |-> {"alt_nodenum_vars"},
   DBFreePointmesh |-> {"alt_nodenum_vars", "ghost_node_labels"},
   DBFreeUcdmesh |-> {"alt_nodenum_vars", "ghost_node_labels"},
   DBFreeZonelist |-> {"alt_zonenum_vars", "ghost_zone_labels"},
   DBFreePHZonelist |-> {"alt_zonenum_vars", "ghost_zone_labels"},
   DBFreeCSGZonelist |-> {"alt_zonenum_vars"}, DBFreeCurve |-> {"reference"},
   DBFreeMrgvar |-> {"mrgt_name", "name"}, DBFreeQuadmesh |-> {"alt_nodenum_vars",
   "alt_zonenum_vars", "ghost_node_labels", "ghost_zone_labels"}]
AllocSilent ==
  {}
=============================================================================
