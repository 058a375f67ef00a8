------------------------------ MODULE ApiRules ------------------------------
(* Which public functions keep the rules that hold for all of them but the *)
(* few named here.                                                         *)
EXTENDS ApiReads

(* The functions that look at the flag of DBGrabDriver; the others are     *)
(* DBInqVarExists, DBGetComponentNames, DBSortObjectsByOffset, DBClose,    *)
(* DBFlush and DBFreeCompressionResources.                                 *)
AskGrabbed(c) ==
  {DBPutCompoundarray(c), DBPutCurve(c), DBPutDefvars(c), DBPutFacelist(c),
   DBPutMaterial(c), DBPutMatspecies(c), DBPutPointmesh(c), DBPutPointvar(c),
   DBPutQuadmesh(c), DBPutQuadvar(c), DBPutUcdmesh(c), DBPutUcdsubmesh(c), DBPutUcdvar(c),
   DBPutZonelist(c), DBPutZonelist2(c), DBPutPHZonelist(c), DBPutCsgmesh(c),
   DBPutCSGZonelist(c), DBPutCsgvar(c), DBPutMultimesh(c), DBPutMultivar(c),
   DBPutMultimat(c), DBPutMultimatspecies(c), DBPutMultimeshadj(c), DBPutMrgtree(c),
   DBPutGroupelmap(c), DBPutMrgvar(c), DBWrite(c), DBWriteSlice(c), DBWriteComponent(c),
   DBWriteObject(c), DBChangeObject(c), DBMkDir(c), DBMkDirP(c), DBMkSymlink(c),
   DBGetSymlink(c), DBSetDir(c), DBGetDir(c), DBCpDir(c), DBCpListedObjects(c),
   DBGetCompoundarray(c), DBGetCurve(c), DBGetDefvars(c), DBGetMaterial(c),
   DBGetMatspecies(c), DBGetMultimesh(c), DBGetMultimeshadj(c), DBGetMultivar(c),
   DBGetMultimat(c), DBGetMultimatspecies(c), DBGetPointmesh(c), DBGetPointvar(c),
   DBGetQuadmesh(c), DBGetQuadvar(c), DBGetUcdmesh(c), DBGetUcdvar(c), DBGetFacelist(c),
   DBGetZonelist(c), DBGetPHZonelist(c), DBGetCsgmesh(c), DBGetCSGZonelist(c),
   DBGetCsgvar(c), DBGetMrgtree(c), DBGetGroupelmap(c), DBGetMrgvar(c), DBGetObject(c),
   DBGetVar(c), DBGetVarByteLength(c), DBGetVarByteLengthInFile(c), DBGetVarLength(c),
   DBGetVarType(c), DBInqMeshtype(c), DBInqMeshname(c), DBReadVar(c), DBReadVarSlice(c),
   DBReadVarVals(c), DBGetVarDims(c), DBGetComponent(c), DBGetComponentType(c),
   DBNewToc(c), DBGetToc(c), DBInqVarType(c), DBFilters(c)}

(* The functions that make something by a name and ask whether it may be   *)
(* overwritten; DBPutMultimeshadj, DBChangeObject, DBWriteSlice and        *)
(* DBWriteComponent make something too and do not ask.                     *)
AskOverwrite(c) ==
  {DBPutCompoundarray(c), DBPutCurve(c), DBPutDefvars(c), DBPutFacelist(c),
   DBPutMaterial(c), DBPutMatspecies(c), DBPutPointmesh(c), DBPutPointvar(c),
   DBPutQuadmesh(c), DBPutQuadvar(c), DBPutUcdmesh(c), DBPutUcdsubmesh(c), DBPutUcdvar(c),
   DBPutZonelist(c), DBPutZonelist2(c), DBPutPHZonelist(c), DBPutCsgmesh(c),
   DBPutCSGZonelist(c), DBPutCsgvar(c), DBPutMultimesh(c), DBPutMultivar(c),
   DBPutMultimat(c), DBPutMultimatspecies(c), DBPutMrgtree(c), DBPutGroupelmap(c),
   DBPutMrgvar(c), DBWrite(c), DBWriteObject(c)}
=============================================================================
