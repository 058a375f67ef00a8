------------------------------ MODULE ApiReads ------------------------------
(* What the public functions of src/src/silo/silo.c that read a file or    *)
(* close it demand before they pass a call on to its driver.               *)
EXTENDS ApiChecks

(* A function that gets one thing by its name; any name will do *)
GetsByName(c) == Opened(c) \o Missing(c, {"name"}) \o NoDriver(c)

DBGetCompoundarray(c) == GetsByName(c)
DBGetCurve(c) == GetsByName(c)
DBGetDefvars(c) == GetsByName(c)
DBGetMaterial(c) == GetsByName(c)
DBGetMatspecies(c) == GetsByName(c)
DBGetMultimesh(c) == GetsByName(c)
DBGetMultimeshadj(c) == GetsByName(c)
DBGetMultivar(c) == GetsByName(c)
DBGetMultimat(c) == GetsByName(c)
DBGetMultimatspecies(c) == GetsByName(c)
DBGetPointmesh(c) == GetsByName(c)
DBGetPointvar(c) == GetsByName(c)
DBGetQuadmesh(c) == GetsByName(c)
DBGetQuadvar(c) == GetsByName(c)
DBGetUcdmesh(c) == GetsByName(c)
DBGetUcdvar(c) == GetsByName(c)
DBGetFacelist(c) == GetsByName(c)
DBGetZonelist(c) == GetsByName(c)
DBGetPHZonelist(c) == GetsByName(c)
DBGetCsgmesh(c) == GetsByName(c)
DBGetCSGZonelist(c) == GetsByName(c)
DBGetCsgvar(c) == GetsByName(c)
DBGetMrgtree(c) == GetsByName(c)
DBGetGroupelmap(c) == GetsByName(c)
DBGetMrgvar(c) == GetsByName(c)
DBGetObject(c) == GetsByName(c)
DBGetVar(c) == GetsByName(c)
DBGetVarByteLength(c) == GetsByName(c)
DBGetVarByteLengthInFile(c) == GetsByName(c)
DBGetVarLength(c) == GetsByName(c)
DBGetVarType(c) == GetsByName(c)
DBInqMeshtype(c) == GetsByName(c)

DBInqMeshname(c) == Opened(c) \o Missing(c, {"name", "mname"}) \o NoDriver(c)
DBReadVar(c)     == Opened(c) \o Missing(c, {"name", "result"}) \o NoDriver(c)
DBReadVarSlice(c) ==
  Opened(c) \o Missing(c, {"name", "offset", "length", "stride"}) \o NotPositive(c, {"ndims"})
    \o Missing(c, {"result"}) \o NoDriver(c)
DBReadVarVals(c) ==
  Opened(c) \o Missing(c, {"name"}) \o NotPositive(c, {"nvals", "ndims"})
    \o Missing(c, {"result"}) \o NoDriver(c)
DBGetVarDims(c) ==
  Opened(c) \o Missing(c, {"name"}) \o NotPositive(c, {"maxdims"}) \o Missing(c, {"dims"})
    \o NoDriver(c)
DBGetComponent(c)     == Opened(c) \o Missing(c, {"name", "compname"}) \o NoDriver(c)
DBGetComponentType(c) == Opened(c) \o Missing(c, {"name", "compname"}) \o NoDriver(c)

(* These look at the flag first; the table of contents that DBGetToc       *)
(* returns is the one it has when DBNewToc, called in between, fails.      *)
DBNewToc(c)     == NoFile(c) \o Grabbed(c) \o NoDriver(c)
DBGetToc(c)     == Unlisted(c) \o Grabbed(c) \o NoFile(c)
DBInqVarType(c) ==
  Unlisted(c) \o Grabbed(c) \o NoFile(c) \o Missing(c, {"name"}) \o NoDriver(c)
DBFilters(c)    == Opened(c) \o NoDriver(c)

(* These do not look at it.                                                *)
Handle(c) == Unlisted(c) \o NoFile(c)
DBInqVarExists(c)      == Handle(c) \o Missing(c, {"name"}) \o NoDriver(c)
DBGetComponentNames(c) == Handle(c) \o NoDriver(c) \o Missing(c, {"name"})
DBSortObjectsByOffset(c) ==
  Handle(c) \o NotPositive(c, {"nobjs"}) \o Missing(c, {"names", "ordering"}) \o NoDriver(c)
DBClose(c) == Handle(c) \o NoDriver(c)
DBFlush(c) == Handle(c) \o NoDriver(c)
DBFreeCompressionResources(c) == Unlisted(c) \o NoDriver(c)
=============================================================================
