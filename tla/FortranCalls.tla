---------------------------- MODULE FortranCalls ----------------------------
(* The functions a Fortran program calls (src/src/silo/silo_f.c): what each *)
(* does, in order, up to its return.                                       *)
(*                                                                         *)
(* A Fortran string is copied into one that C can read, a list of strings  *)
(* element by element; the copies are freed at the end.  A handle is an    *)
(* index into a table of pointers.  Whatever fails on the way leaves the   *)
(* function: API_ERROR returns or jumps, and an error inside the C         *)
(* function jumps to the frame that the Fortran function has pushed.  What *)
(* the program leaves out is not copied; the steps are those of a call     *)
(* that gives everything.                                                  *)
EXTENDS CallSteps, TLC

(* The answer is 0 or -1 as the C function says, or 0 in any case; a       *)
(* function without API_BEGIN has no frame to jump to.                     *)
Told(steps) == Script(steps, "f77")
Zero(steps) == [Told(steps) EXCEPT !.told = FALSE]
Bare(steps) == [Zero(steps) EXCEPT !.error = "bare"]

(* A name with its length, the common way *)
Name(a) == Check({a}) \o Copy({a})
(* A call on a file and nothing else to copy than one name *)
OfFile(a, f)  == Told(Name(a) \o Look({"dbid"}) \o Call(f) \o Free({a}))
(* A multi-block object, whose block names may be left out *)
Blocks(a, array, f) ==
  Told(Look({"optlist_id"}) \o Name("name") \o Look({"dbid"}) \o Check({"count"})
         \o List({a, array}) \o Call(f) \o Free({a, array}) \o Free({"name"}))
(* A variable on a mesh *)
OnMesh(f) ==
  Told(Look({"optlist_id"}) \o Name("name") \o Name("meshname") \o Look({"dbid"})
         \o Call(f) \o Free({"name", "meshname"}))
(* A setting *)
Setting(f) == Told(Call(f))

-----------------------------------------------------------------------------
(* Handles                                                                 *)
(* Pointers of the program itself.  DBRMPTR leaves *pid as it is; that the *)
(* program does not use it again is assumed.                               *)
ProgramPointers ==
  [DBMKPTR |-> Bare(Give("pid")),
   DBRMPTR |-> Bare(Drop("pid"))]
OptlistHandles ==
  [DBMKOPTLIST |-> Told(Check({"maxopts"}) \o Call("DBMakeOptlist") \o Give("optlist_id")),
   DBFREEOPTLIST |-> Told(Look({"optlist_id"}) \o Call("DBFreeOptlist") \o Drop("optlist_id"))]
DBCALCFL      == Told(Call("DBCalcExternalFacelist") \o Give("object_id"))
DBCREATE      == Told(Copy({"pathname", "fileinfo"}) \o Call("DBCreate")
                        \o Free({"pathname", "fileinfo"}) \o Give("dbid"))
DBOPEN        == Told(Name("pathname") \o Call("DBOpen") \o Free({"pathname"}) \o Give("dbid"))
DBCLOSE       == Told(Look({"dbid"}) \o Call("DBClose") \o Drop("dbid"))
DBMKOBJECT    == Told(Check({"maxcomponents"}) \o Refuse)
DBFREEOBJECT  == Told(Look({"obj_id"}) \o Forget("obj_id") \o Call("DBFreeObject"))
TreeHandles ==
  [DBMKMRGTREE |-> Told(Look({"optlist_id"}) \o Call("DBMakeMrgtree") \o Give("tree_id")),
   DBFREEMRGTREE |-> Zero(Look({"tree_id"}) \o Void("DBFreeMrgtree") \o Drop("tree_id"))]

-----------------------------------------------------------------------------
(* Options: the list keeps the pointer it is given.  Only the first four   *)
(* ask whether there is room for one more.                                 *)
Option == Need({"optlist_id"}) \o Check({"numopts"})
ScalarOptions ==
  [DBADDIOPT |-> Zero(Option),
   DBADDROPT |-> Zero(Option),
   DBADDDOPT |-> Zero(Option)]
DBADDCOPT  == Zero(Need({"optlist_id"}) \o Check({"lcvalue", "numopts", "cvalue"})
                     \o Copy({"cval"}) \o Keep({"cval"}))
DBADDCAOPT == Zero(Need({"optlist_id"}) \o Check({"nval"}) \o List({"cval", "cval[i]"})
                     \o Keep({"cval", "cval[i]"}))
(* ival is allocated and then set to the program's array *)
DBADDIAOPT == Zero(Need({"optlist_id"}) \o Check({"nval"}) \o Copy({"ival"}))

-----------------------------------------------------------------------------
(* Objects                                                                 *)
(* the lengths are not looked at *)
Pair(second, f) ==
  Told(Look({"optlist_id"}) \o Look({"dbid"}) \o Copy({"name", second}) \o Call(f)
         \o Free({"name", second}))
DBPUTMAT == Pair("meshname", "DBPutMaterial")
DBPUTMSP == Pair("matname", "DBPutMatspecies")

DBPUTFL == OfFile("name", "DBPutFacelist")
DBWRTFL == Told(Name("name") \o Look({"dbid"}) \o Look({"object_id"}) \o Call("DBPutFacelist")
                  \o Free({"name"}))
(* mutant *)
DBPUTZL_zero == Zero(Name("name") \o Look({"dbid"}) \o Call("DBPutZonelist") \o Free({"name"}))
DBPUTZL  == OfFile("name", "DBPutZonelist")
DBPUTZL2 == Told(Look({"optlist_id"}) \o Name("name") \o Look({"dbid"}) \o Call("DBPutZonelist2")
                   \o Free({"name"}))

DBPUTMMESH      == Blocks("meshnames", "meshnms", "DBPutMultimesh")
DBPUTMVAR       == Blocks("varnames", "varnms", "DBPutMultivar")
DBPUTMMAT       == Blocks("matnames", "matnms", "DBPutMultimat")
DBPUTMMATSPECIES == Blocks("specnames", "specnms", "DBPutMultimatspecies")

DBPUTDEFVARS ==
  Told(Check({"name", "ndefs"}) \o Copy({"name"}) \o Look({"dbid"})
         \o List({"names", "nms"}) \o List({"defns", "defs"})
         \o Copy({"optlists"}) \o Look({"optlist_id"}) \o Call("DBPutDefvars")
         \o Free({"names", "defns"}) \o Free({"nms", "defs", "name", "optlists"}))

DBPUTPM  == Told(Look({"optlist_id"}) \o Name("name") \o Look({"dbid"}) \o Call("DBPutPointmesh")
                   \o Free({"name"}))
DBPUTPV1 == OnMesh("DBPutPointvar1")
DBPUTQV1 == OnMesh("DBPutQuadvar1")
DBPUTUV1 == OnMesh("DBPutUcdvar1")

(* the coordinates from the last to the first, each falling through *)
CoordNames == Name("zname") \o Name("yname") \o Name("xname")
DBPUTQM ==
  Told(Look({"optlist_id"}) \o Check({"ndims"}) \o CoordNames \o Name("name") \o Look({"dbid"})
         \o Call("DBPutQuadmesh") \o Free({"name", "xname", "yname", "zname"}))
DBPUTUM ==
  Told(Look({"optlist_id"}) \o Check({"ndims"}) \o CoordNames \o Name("name")
         \o Copy({"flname", "zlname"}) \o Look({"dbid"}) \o Call("DBPutUcdmesh")
         \o Free({"name", "zlname", "flname", "xname", "yname", "zname"}))
(* mutant: cmixvar is not freed *)
DBPUTQV_early ==
  Told(Look({"optlist_id"}) \o Name("vname") \o Name("mname") \o Check({"nvars"})
         \o List({"varnames", "cvarnames"}) \o Check({"vars"}) \o Copy({"cvars", "cmixvar"})
         \o Look({"dbid"}) \o Call("DBPutQuadvar")
         \o Free({"cvars", "varnames", "cvarnames", "mname", "vname"}))
DBPUTQV ==
  Told(Look({"optlist_id"}) \o Name("vname") \o Name("mname") \o Check({"nvars"})
         \o List({"varnames", "cvarnames"}) \o Check({"vars"}) \o Copy({"cvars", "cmixvar"})
         \o Look({"dbid"}) \o Call("DBPutQuadvar")
         \o Free({"cvars", "cmixvar", "varnames", "cvarnames", "mname", "vname"}))

(* the first character of the name is looked at, not its length *)
DBPUTCSGM ==
  Told(Check({"name", "zlname"}) \o Look({"dbid", "optlist_id"}) \o Copy({"name", "zlname"})
         \o Call("DBPutCsgmesh") \o Free({"name", "zlname"}))
DBPUTCSGV ==
  Told(Check({"name", "meshname"}) \o Look({"dbid", "optlist_id"}) \o Copy({"name", "meshname"})
         \o Copy({"data"}) \o Look({"data_ids"}) \o Call("DBPutCsgvar")
         \o Free({"name", "meshname", "data"}))
DBPUTCSGZL ==
  Told(Check({"name"}) \o Look({"dbid", "optlist_id"}) \o Copy({"name"})
         \o Call("DBPutCSGZonelist") \o Free({"name"}))
DBPUTGRPLMAP ==
  Told(Check({"map_name"}) \o Look({"dbid", "optlist_id"}) \o Copy({"map_name"})
         \o Copy({"segment_data"}) \o Look({"segment_data_ids"})
         \o Copy({"segment_fracs"}) \o Look({"segment_fracs_ids"}) \o Call("DBPutGroupelmap")
         \o Free({"segment_data", "segment_fracs", "map_name"}))

DBADDREGION ==
  Told(Check({"region_name", "maps_name"}) \o Look({"tree_id", "optlist_id"})
         \o Copy({"region_name", "maps_name"}) \o Call("DBAddRegion")
         \o Free({"region_name", "maps_name"}))
(* the array of the names is not freed *)
DBADDREGIONA ==
  Told(Check({"maps_name"}) \o Look({"tree_id", "optlist_id"}) \o Copy({"maps_name"})
         \o Check({"nregn"}) \o List({"regn_names", "regn_nms"}) \o Call("DBAddRegionArray")
         \o Free({"regn_names", "maps_name"}))
DBSETCWR == Told(Check({"path"}) \o Look({"tree_id"}) \o Copy({"path"}) \o Call("DBSetCwr")
                   \o Free({"path"}))
DBPUTMRGTREE ==
  Told(Check({"mrg_tree_name", "mesh_name"}) \o Look({"dbid", "tree_id", "optlist_id"})
         \o Copy({"mrg_tree_name", "mesh_name"}) \o Call("DBPutMrgtree")
         \o Free({"mrg_tree_name", "mesh_name"}))
DBPMRGV ==
  Told(Look({"optlist_id"}) \o Check({"name"}) \o Copy({"name", "tname"}) \o Look({"dbid"})
         \o Check({"ncomps"}) \o List({"compnames", "compnms"})
         \o Check({"nregns"}) \o List({"regnnames", "regnnms"})
         \o Copy({"data"}) \o Look({"data_ids"}) \o Call("DBPutMrgvar")
         \o Free({"compnames", "compnms", "regnnames", "regnnms", "name", "tname", "data"}))

-----------------------------------------------------------------------------
(* Compound arrays and curves                                              *)
DBPUTCA ==
  Told(Look({"optlist_id"}) \o Name("name") \o Check({"nelems"}) \o Copy({"elemnames", "enames"})
         \o Look({"dbid"}) \o Call("DBPutCompoundarray") \o Free({"name", "enames", "elemnames"}))
DBGETCA ==
  Zero(Name("name") \o Look({"dbid"}) \o Must("DBGetCompoundarray") \o Copy({"ca"})
         \o Free({"name", "ca"}))
DBFGETCA == DBGETCA
DBINQCA ==
  Zero(Name("name") \o Look({"dbid"}) \o Must("DBInqCompoundarray") \o Copy({"elemnames", "enames"})
         \o Free({"enames", "elemnames", "name"}))
(* 0 in any case; the program asks *status *)
DBPUTCURVE ==
  Zero(Check({"name"}) \o Look({"optlist_id"}) \o Copy({"name"}) \o Look({"dbid"})
         \o Call("DBPutCurve") \o Free({"name"}))
(* the name is not freed *)
DBGETCURVE ==
  Zero(Check({"name", "maxpts"}) \o Copy({"name"}) \o Look({"dbid"}) \o Must("DBGetCurve")
         \o Copy({"cu"}) \o Free({"cu"}))
(* the mixed values are read by two more calls whose results are dropped *)
DBGETQV1 ==
  Zero(Name("varname") \o Look({"dbid"}) \o Must("DBGetQuadvar") \o Copy({"qv"})
         \o Void("DBGetVarLength") \o Void("DBReadVar") \o Free({"qv", "varname"}))

-----------------------------------------------------------------------------
(* Variables, directories, files                                           *)
DBINQINT(f) == OfFile("varname", f)
VariableInquiries ==
  [DBINQLEN |-> DBINQINT("DBGetVarLength"),
   DBINQBLEN |-> DBINQINT("DBGetVarByteLength"),
   DBINQDTYP |-> DBINQINT("DBGetVarType"),
   DBINQVTYP |-> DBINQINT("DBInqVarType"),
   DBINQMTYP |-> DBINQINT("DBInqMeshtype")]
DBMKDIR      == OfFile("dirname", "DBMkDir")
DBSETDIR     == OfFile("pathname", "DBSetDir")
DBRDVAR      == OfFile("varname", "DBReadVar")
DBRDVARSLICE == OfFile("varname", "DBReadVarSlice")
DBWRITESLICE == OfFile("varname", "DBWriteSlice")
(* what DBWrite says is dropped *)
DBWRITE   == Zero(Name("varname") \o Look({"dbid"}) \o Void("DBWrite") \o Free({"varname"}))
DBINQFILE == Zero(Name("pathname") \o Void("DBInqFile") \o Free({"pathname"}))
ScalarComponents ==
  [DBADDICMP |-> Told(Look({"obj_id"}) \o Call("DBAddIntComponent")),
   DBADDRCMP |-> Told(Look({"obj_id"}) \o Call("DBAddFltComponent")),
   DBADDCCMP |-> Told(Look({"obj_id"}) \o Call("DBAddStrComponent"))]

-----------------------------------------------------------------------------
(* Settings                                                                *)
FileOptionSets ==
  [DBREGFOPTS |-> Told(Look({"optlist_id"}) \o Call("DBRegisterFileOptionsSet")),
   DBUNREGFOPTS |-> Setting("DBUnregisterFileOptionsSet")]
DBUNREGAFOPTS == Zero(Void("DBUnregisterAllFileOptionsSets"))
DBSETCOMPRESS == Zero(Copy({"cvalue"}) \o Void("DBSetCompression") \o Free({"cvalue"}))
(* the copy goes to the parameter and never to the program *)
DBGETCOMPRESS == Zero(Check({"lcvalue"}) \o Void("DBGetCompression") \o Copy({"cvalue"}))
OverwritesAndChecksums ==
  [DBSETOVRWRT |-> Setting("DBSetAllowOverwrites"),
   DBGETOVRWRT |-> Setting("DBGetAllowOverwrites"),
   DBSETCKSUMS |-> Setting("DBSetEnableChecksums"),
   DBGETCKSUMS |-> Setting("DBGetEnableChecksums")]
NamesAndWarnings ==
  [DBSETHDFNMS |-> Setting("DBSetFriendlyHDF5Names"),
   DBGETHDFNMS |-> Setting("DBGetFriendlyHDF5Names"),
   DBSETDEPWARN |-> Setting("DBSetDeprecateWarnings"),
   DBGETDEPWARN |-> Setting("DBGetDeprecateWarnings")]
EmptyObjects ==
  [DBSETEMPTYOK |-> Setting("DBSetAllowEmptyObjects"),
   DBGETEMPTYOK |-> Setting("DBGetAllowEmptyObjects")]

-----------------------------------------------------------------------------
Fortran ==
  [DBCALCFL |-> DBCALCFL, DBCREATE |-> DBCREATE, DBOPEN |-> DBOPEN, DBCLOSE |-> DBCLOSE,
   DBMKOBJECT |-> DBMKOBJECT, DBFREEOBJECT |-> DBFREEOBJECT, DBADDCOPT |-> DBADDCOPT,
   DBADDCAOPT |-> DBADDCAOPT, DBADDIAOPT |-> DBADDIAOPT, DBPUTMAT |-> DBPUTMAT,
   DBPUTMSP |-> DBPUTMSP, DBPUTFL |-> DBPUTFL, DBWRTFL |-> DBWRTFL, DBPUTZL |-> DBPUTZL,
   DBPUTZL2 |-> DBPUTZL2, DBPUTMMESH |-> DBPUTMMESH, DBPUTMVAR |-> DBPUTMVAR,
   DBPUTMMAT |-> DBPUTMMAT, DBPUTMMATSPECIES |-> DBPUTMMATSPECIES,
   DBPUTDEFVARS |-> DBPUTDEFVARS, DBPUTPM |-> DBPUTPM, DBPUTPV1 |-> DBPUTPV1,
   DBPUTQV1 |-> DBPUTQV1, DBPUTUV1 |-> DBPUTUV1, DBPUTQM |-> DBPUTQM,
   DBPUTUM |-> DBPUTUM, DBPUTQV |-> DBPUTQV, DBPUTCSGM |-> DBPUTCSGM,
   DBPUTCSGV |-> DBPUTCSGV, DBPUTCSGZL |-> DBPUTCSGZL, DBPUTGRPLMAP |-> DBPUTGRPLMAP,
   DBADDREGION |-> DBADDREGION, DBADDREGIONA |-> DBADDREGIONA, DBSETCWR |-> DBSETCWR,
   DBPUTMRGTREE |-> DBPUTMRGTREE, DBPMRGV |-> DBPMRGV, DBPUTCA |-> DBPUTCA,
   DBGETCA |-> DBGETCA, DBFGETCA |-> DBFGETCA, DBINQCA |-> DBINQCA,
   DBPUTCURVE |-> DBPUTCURVE, DBGETCURVE |-> DBGETCURVE, DBGETQV1 |-> DBGETQV1,
   DBMKDIR |-> DBMKDIR, DBSETDIR |-> DBSETDIR, DBRDVAR |-> DBRDVAR,
   DBRDVARSLICE |-> DBRDVARSLICE, DBWRITESLICE |-> DBWRITESLICE, DBWRITE |-> DBWRITE,
   DBINQFILE |-> DBINQFILE, DBUNREGAFOPTS |-> DBUNREGAFOPTS,
   DBSETCOMPRESS |-> DBSETCOMPRESS, DBGETCOMPRESS |-> DBGETCOMPRESS]
  @@ ProgramPointers @@ ScalarOptions @@ OptlistHandles @@ VariableInquiries @@
     ScalarComponents @@ OverwritesAndChecksums @@ NamesAndWarnings @@
     FileOptionSets @@ EmptyObjects @@ TreeHandles

(* The name in DBGETCURVE, the names of the regions in DBADDREGIONA, the   *)
(* array that DBADDIAOPT drops, the string that DBGETCOMPRESS was to give. *)
FortranLost ==
  [DBGETCURVE |-> {"name"}, DBADDREGIONA |-> {"regn_nms"}, DBADDIAOPT |-> {"ival"},
   DBGETCOMPRESS |-> {"cvalue"}]
(* DBPUTCURVE tells the program by *status; DBWRITE and the reading of     *)
(* mixed values in DBGETQV1 drop what was said; the others have no result  *)
(* to look at.                                                             *)
FortranSilent ==
  {"DBPUTCURVE", "DBWRITE", "DBGETQV1", "DBINQFILE", "DBUNREGAFOPTS", "DBGETCOMPRESS"}
=============================================================================
