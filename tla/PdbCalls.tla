------------------------------ MODULE PdbCalls ------------------------------
(* Functions of the PDB driver (src/src/pdb_drv/silo_pdb.c): groups and    *)
(* the group that was read last, variables, the table of contents, what    *)
(* reads an object.  The functions of PDB lite return what went wrong.     *)
EXTENDS CallSteps, TLC

Read    == "lite_PD_read"
ReadAlt == "lite_PD_read_alt"
Inquire == "lite_PD_inquire_entry"
PutLen  == "lite_PD_write_alt"

-----------------------------------------------------------------------------
(* Groups                                                                  *)
GroupParts == {"group", "sc_name", "sc_type", "sc_comp_nms", "sc_int_nms"}
CacheNames == {"cached_obj_name", "cached_file_name"}

(* A name may say which file the object is in; the group stays where it    *)
(* is until another object is asked for.  What the variables of the group  *)
(* are read into is the caller's.                                          *)
PJ_GetObject ==
  Plain(Check({"file_in", "objname_in"}) \o Must("db_pdb_ParseVDBSpec")
    \o Copy({"varname"})
    \o Maybe(Copy({"filename"}) \o MustOr("lite_PD_open", {"varname", "filename"})
               \o Copy({"file"}))
    \o Maybe(Void("PJ_ClearCache") \o MustOr("PJ_get_group", {"varname", "filename"})
               \o CheckOr({"varname", "filename"})
               \o Copy(CacheNames) \o Keep(CacheNames))
    \o CheckOr({"varname", "filename"})
    \o Loop(Void("PJ_ReadVariable"))
    \o Maybe(Void("lite_PD_close")) \o Free({"file", "filename", "varname"}))
PJ_ClearCache ==
  Plain(Maybe(Must("PJ_rel_group")) \o Own(CacheNames) \o Free(CacheNames))
PJ_GetComponent == Plain(Must("PJ_GetObject") \o Copy({"result"}) \o Keep({"result"}))
PJ_GetComponentType ==
  Plain(Maybe(Must("PJ_GetObject") \o Copy({"result"}) \o Free({"result"})))

PJ_get_group == Quiet(Must(Inquire) \o Check({"type"}) \o Call(Read))
PJ_make_group ==
  Quiet(Check({"name", "type", "comp_names"}) \o Copy(GroupParts) \o Keep(GroupParts))
PJ_rel_group == Quiet(Check({"group"}) \o Own(GroupParts) \o Free(GroupParts))
PJ_put_group ==
  Quiet(Check({"file", "group"}) \o Maybe(Void("lite_PD_defstr"))
    \o Maybe(Copy({"varlist"}) \o Check({"overwrite"}) \o Free({"varlist"}))
    \o Call("lite_PD_write"))

-----------------------------------------------------------------------------
(* Variables.  A value that stands in the header itself needs no reading;  *)
(* one that is to be single precision is read into memory of its own.  The *)
(* length of what is reached by a pointer is known when it has been read:  *)
(* there is nothing then that it could be converted into.                  *)
ReadsValue == Maybe(Copy({"var"})) \o Maybe(Copy({"forced"})) \o Call(Read) \o Free({"forced"})
ReadsPointered ==
  Maybe(Copy({"forced"})) \o Call(Read) \o Copy({"var", "local_c"}) \o Free({"var"})
    \o Maybe(Dies) \o Keep({"local_c"})
PJ_ReadVariable ==
  Quiet(Copy({"name"}) \o Void("pj_GetVarDatatypeID")
    \o Either(Maybe(Copy({"var"})),
              Void("db_pdb_getvarinfo") \o Either(ReadsValue, ReadsPointered))
    \o Free({"name"}) \o Keep({"var"}))
pj_GetVarDatatypeID == Quiet(Maybe(Done) \o Must(Inquire))
db_pdb_GetVarDatatype == Quiet(Must(Inquire))
db_pdb_ParseVDBSpec ==
  Quiet(Maybe(Copy({"filename"}) \o CheckOr({"filename"})) \o Copy({"varname"})
    \o Keep({"filename", "varname"}))

(* A pointer to a type that the file does not know has no size *)
PointerSize == Copy({"s"}) \o Maybe(Dies) \o Free({"s"})
db_pdb_getvarinfo == Plain(Must(Inquire) \o Either(PointerSize, Check({"dp"})))
pdb_getvarinfo    == Quiet(Must(Inquire) \o Either(PointerSize, Check({"dp"})))
db_pdb_getobjinfo ==
  Plain(Check({"pdb", "name"}) \o Must(Read) \o Copy({"ctype"}) \o Free({"ctype"}) \o Void(Read))

PJ_get_fullpath == Quiet(Check({"cwd", "path", "name"}) \o Copy({"abspath"}) \o Free({"abspath"}))
PJ_ls ==
  Quiet(Void("lite_PD_ls") \o Copy({"score_out"})
    \o Maybe(Copy({"malloc_out"}) \o Keep({"malloc_out"})) \o Free({"score_out"}))

-----------------------------------------------------------------------------
(* The file                                                                *)
db_pdb_close ==
  Quiet(Maybe(Void("lite_PD_close") \o Void("silo_db_close") \o Void("PJ_ClearCache")))
db_pdb_flush == Quiet(Check({"dbfile"}) \o Must("lite_PD_flush"))

OpenFile == {"dbfile", "pub.name", "pdb"}
(* A file with _whatami was written by something else *)
db_pdb_Open ==
  Plain(Check({"name", "mode"}) \o Must("lite_PD_open") \o Copy({"pdb"})
    \o Maybe(Void("lite_PD_close") \o Free({"pdb"}) \o Refuse)
    \o Copy({"dbfile", "pub.name"}) \o Keep(OpenFile))
(* The standard that is asked for is there for the next file to be created *)
db_pdb_Create ==
  Plain(Check({"enableChecksums", "compressionParams"})
    \o Either(Check({"target"}), Void("lite_PD_target") \o Copy({"REQ_STANDARD"}))
    \o Open("dbfile") \o Copy({"pub.name"})
    \o MustOr("lite_PD_open", {"dbfile", "pub.name"}) \o Copy({"pdb"})
    \o Keep({"REQ_STANDARD"}) \o Void("DBNewToc") \o Maybe(Void(PutLen)) \o Keep(OpenFile))
db_pdb_GetDir == Plain(Check({"result", "p"}))
db_pdb_SetDir == Plain(Must("lite_PD_cd") \o Void("db_FreeToc"))

(* The type of an object is read under its new name or its old one *)
TypeOr(rs) == Void(Read) \o Maybe(MustOr(Read, rs)) \o Copy({"ctype"}) \o Free({"ctype"})
EachEntry == Loop(Void(Inquire) \o Maybe(TypeOr({"list", "types"})))
TocNames  == Copy({"names"}) \o Keep({"names"})
db_pdb_NewToc ==
  Plain(Void("db_FreeToc") \o Copy({"toc"}) \o Keep({"toc"})
    \o Void("PJ_ls") \o Copy({"list", "types"}) \o EachEntry \o TocNames
    \o Free({"list", "types"}))
db_pdb_InqVarType ==
  Quiet(Void(Inquire) \o Maybe(Copy({"newname"}) \o Void(Inquire) \o Free({"newname"})
                                 \o Check({"entry"}))
    \o Maybe(TypeOr({})))
db_pdb_SortObjectsByOffset == Quiet(Copy({"iop"}) \o Loop(Void(Inquire)) \o Free({"iop"}))

-----------------------------------------------------------------------------
(* What the API reads and writes                                           *)
db_pdb_ReadVar      == Plain(Must(Read))
db_pdb_ReadVarSlice == Plain(Must(ReadAlt))
db_pdb_Write        == Plain(Copy({"idata"}) \o Must(PutLen) \o Free({"idata"}))
db_pdb_InqVarExists == Quiet(Must(Inquire))
db_pdb_GetVar ==
  Plain(Must("DBGetVarByteLength") \o Copy({"data"}) \o MustOr("DBReadVar", {"data"})
          \o Keep({"data"}))
db_pdb_GetVarByteLength == Quiet(Void("db_pdb_getvarinfo"))
db_pdb_GetVarType       == Quiet(Void("db_pdb_getvarinfo"))
db_pdb_GetVarDims       == Plain(Must(Inquire))
db_pdb_GetComponent     == Plain(Must("PJ_GetComponent"))
db_pdb_GetComponentType == Quiet(Call("PJ_GetComponentType"))
db_pdb_InqMeshname      == Quiet(Must("PJ_GetComponent") \o Copy({"v"}) \o Free({"v"}))
db_pdb_InqMeshtype      == Plain(Must(Read) \o Copy({"ctype"}) \o Free({"ctype"}))
db_pdb_GetComponentNames ==
  Quiet(Must(Inquire) \o Must("PJ_get_group") \o Copy({"group"}) \o Check({"ncomponents"})
    \o Copy({"comp_names", "file_names"}) \o Keep({"comp_names", "file_names"}))
db_pdb_GetObject ==
  Quiet(Must("PJ_get_group") \o Copy({"group", "obj"}) \o Void("PJ_rel_group") \o Free({"group"})
    \o Keep({"obj"}))
db_pdb_WriteObject ==
  Plain(Check({"obj", "_file"}) \o Void("PJ_make_group") \o Copy({"group"})
    \o MustOr("PJ_put_group", {"group"}) \o Void("PJ_rel_group") \o Free({"group"}))
db_pdb_WriteComponent == Quiet(Void(PutLen) \o Void("DBAddVarComponent"))

(* Single values of an object, by their indices *)
db_pdb_get_obj_dsnames ==
  Quiet(Void("db_pdb_InqVarType")
    \o Maybe(Must("PJ_get_group") \o Copy({"group"})
               \o Maybe(Free({"group"}) \o Done) \o Copy({"dsnames"}) \o Free({"group"}))
    \o Keep({"dsnames"}))
db_pdb_ReadDenseArrayVals ==
  Plain(Must("db_pdb_GetVarType") \o Maybe(Open("result") \o Keep({"result"})) \o Loop(Must(ReadAlt)))
(* Only the header of the material is wanted *)
db_pdb_ReadMatVals ==
  Plain(Copy({"oldmask"}) \o Void("db_pdb_GetMaterial") \o Copy({"origmat"}) \o Free({"oldmask"})
    \o Must("db_pdb_ReadDenseArrayVals") \o Copy({"matlist_result"})
    \o Maybe(Open("result") \o Keep({"result"})) \o Keep({"matlist_result"})
    \o Maybe(Done) \o Loop(Void(ReadAlt)) \o Refuse)
db_pdb_ReadVarVals ==
  Plain(Must("db_pdb_get_obj_dsnames") \o Copy({"dsnames"}) \o Check({"dscount"})
    \o Either(Call("db_pdb_ReadMatVals"), Call("db_pdb_ReadDenseArrayVals")))

-----------------------------------------------------------------------------
(* Objects: the members are read into a structure on the stack, with       *)
(* strings beside it, and go into one that is allocated.  Names are given  *)
(* back when they have been split, some only if their number is not zero.  *)
(* What is then read by a second call may be missing.                      *)
Members(strings) == Must("PJ_GetObject") \o Copy({"tmp"} \cup strings)
More2           == Maybe(Void("PJ_GetObject"))
Gets(alloc, split, counted, more) ==
  Plain(Members(split \cup counted) \o Must(alloc) \o Free(split) \o Maybe(Free(counted)) \o more
    \o Keep({"tmp"}))
(* An object of another type is no error *)
GetsMulti(alloc, split, counted) ==
  Plain(Void("db_pdb_getobjinfo") \o Maybe(Done) \o Members(split \cup counted) \o Must(alloc)
    \o Free(split) \o Maybe(Free(counted)) \o Keep({"tmp"}))

db_pdb_GetMatspecies  == Gets("DBAllocMatspecies", {"tmpnames", "tmpcolors"}, {}, More2)
db_pdb_GetPointmesh   == Gets("DBAllocPointmesh", {"tmpannums"}, {}, More2)
db_pdb_GetPointvar    == Gets("DBAllocMeshvar", {"rpnames"}, {}, More2)
db_pdb_GetQuadmesh    == Gets("DBAllocQuadmesh", {"tmpannum", "tmpaznum"}, {}, <<>>)
db_pdb_GetQuadvar     == Gets("DBAllocQuadvar", {"rpnames"}, {}, More2)
db_pdb_GetUcdvar      == Gets("DBAllocUcdvar", {"rpnames"}, {}, More2)
db_pdb_GetFacelist    == Gets("DBAllocFacelist", {}, {}, <<>>)
db_pdb_GetZonelist    == Gets("DBAllocZonelist", {"tmpaznum"}, {}, More2)
db_pdb_GetPHZonelist  == Gets("DBAllocPHZonelist", {"tmpaznum"}, {}, More2)
db_pdb_GetDefvars     == GetsMulti("DBAllocDefvars", {}, {"tmpnames", "tmpdefns"})
db_pdb_GetMultimesh   == GetsMulti("DBAllocMultimesh", {}, {"tmpnames", "tmpgnames"})
db_pdb_GetMultivar    == GetsMulti("DBAllocMultivar", {"rpnames"}, {"tmpnames"})
db_pdb_GetMultimat ==
  GetsMulti("DBAllocMultimat", {}, {"tmpnames", "tmpmaterial_names", "tmpmatcolors"})
db_pdb_GetMultimatspecies ==
  GetsMulti("DBAllocMultimatspecies", {"tmpspecnames", "tmpcolors"}, {"tmpnames"})

(* Fewer names than materials: the one that is missing is copied *)
db_pdb_GetMaterial ==
  Plain(Members({"tmpnames", "tmpcolors"}) \o Must("DBAllocMaterial")
    \o Maybe(Maybe(Error \o Dies) \o Free({"tmpnames"})) \o Maybe(Free({"tmpcolors"}))
    \o Keep({"tmp"}))
db_pdb_GetCompoundarray ==
  Plain(Members({"name_vector"}) \o Must("DBAllocCompoundarray")
    \o Maybe(Void("DBFreeCompoundarray") \o Free({"tmp"}) \o Refuse)
    \o Free({"name_vector"}) \o Void("PJ_GetObject") \o Keep({"tmp"}))
db_pdb_GetCurve ==
  Plain(Members({}) \o Must("DBAllocCurve") \o Check({"reference"}) \o More2 \o Keep({"tmp"}))
(* These are put together before there is an object to put them in *)
db_pdb_GetCsgvar ==
  Plain(Members({"rpnames"}) \o More2 \o Free({"rpnames"}) \o Must("DBAllocCsgvar") \o Keep({"tmp"}))
db_pdb_GetCsgmesh ==
  Plain(Members({"tmpbndnames", "zlname"}) \o More2 \o Maybe(Free({"tmpbndnames"}))
    \o Maybe(Void("db_pdb_GetCSGZonelist")) \o Must("DBAllocCsgmesh") \o Free({"zlname"})
    \o Keep({"tmp"}))
db_pdb_GetCSGZonelist ==
  Plain(Members({"tmprnames", "tmpznames", "tmpaznums"}) \o More2
    \o Maybe(Free({"tmprnames", "tmpznames"})) \o Free({"tmpaznums"})
    \o Must("DBAllocCSGZonelist") \o Keep({"tmp"}))

(* The lists of a mesh are objects of their own *)
Sublist(r, alloc) ==
  Maybe(MustOr("PJ_GetObject", {"tmp"}) \o Copy({r}) \o MustOr(alloc, {"tmp"}) \o Keep({r}))
MeshNames == {"zlname", "flname", "elname", "phzlname"}
db_pdb_GetUcdmesh ==
  Plain(Members(MeshNames \cup {"tmpannum"}) \o Must("DBAllocUcdmesh") \o Free({"tmpannum"}) \o More2
    \o Sublist("tmpfaces", "DBAllocFacelist") \o Sublist("tmpzones", "DBAllocZonelist") \o More2
    \o Sublist("tmpedges", "DBAllocEdgelist") \o Maybe(Void("db_pdb_GetPHZonelist"))
    \o Free(MeshNames) \o Keep({"tmp"}))

(* A list that cannot be read is an error; if db_perror returns, the       *)
(* offsets that say where the next one lies are gone                       *)
db_pdb_GetMultimeshadj ==
  Plain(Void("db_pdb_getobjinfo") \o Maybe(Done) \o Members({}) \o Must("DBAllocMultimeshadj")
    \o Copy({"offsetmap", "offsetmapn", "offsetmapz"})
    \o Loop(Copy({"list"})
              \o Maybe(Free({"offsetmap", "offsetmapn", "offsetmapz"}) \o Error \o Maybe(Dies))
              \o Keep({"list"}))
    \o Free({"offsetmap", "offsetmapn", "offsetmapz"}) \o Keep({"tmp"}))

(* Region trees: one array for each kind of field, shared out to the nodes.*)
(* The first names of a tree that has none are an uninitialized pointer;   *)
(* an array that could not be read is NULL.                                *)
Field(r) == Void("PJ_GetObject") \o Maybe(Dies) \o Copy({r}) \o Free({r})
db_pdb_GetMrgtree ==
  Plain(Members({"intArray", "mrgv_onames", "mrgv_rnames"}) \o Copy({"tree"})
    \o Maybe(Keep({"tree", "tmp"}) \o Done)
    \o Copy({"ltree"}) \o Free({"intArray"})
    \o Field("s") \o Field("names") \o Field("seg_ids") \o Field("children")
    \o Free({"mrgv_onames", "mrgv_rnames", "ltree"}) \o Keep({"tree", "tmp"}))
db_pdb_PutMrgtree ==
  Plain(Copy({"obj"}) \o Void("db_ProcessOptlist") \o Copy({"ltree"})
    \o Loop(Copy({"strArray"}) \o Maybe(Copy({"s"})) \o Void("DBWriteComponent")
              \o Free({"s", "strArray"}))
    \o Free({"ltree"}) \o Loop(Copy({"s"}) \o Void("DBWriteComponent") \o Free({"s"}))
    \o Loop(Void("DBAddIntComponent")) \o Void("DBWriteObject") \o Void("DBFreeObject")
    \o Free({"obj"}))
(* segment lists *)
db_pdb_GetGroupelmap ==
  Plain(Members({"segData", "fracLengths", "fracsArray"}) \o Copy({"gm"})
    \o Free({"segData", "fracLengths", "fracsArray"}) \o Keep({"gm", "tmp"}))
db_pdb_GetMrgvar ==
  Plain(Members({"cnames", "rpnames"}) \o Copy({"mrgv"}) \o Void("PJ_GetObject")
    \o Free({"cnames", "rpnames"}) \o Keep({"mrgv", "tmp"}))

(* What a put writes before the object itself *)
db_InitCsg ==
  Quiet(Void(Inquire) \o Void("db_ProcessOptlist") \o Maybe(Done) \o Loop(Void(PutLen)))
db_InitPoint == Quiet(Void("db_ProcessOptlist") \o Loop(Void(PutLen)))

-----------------------------------------------------------------------------
Pdb ==
  [PJ_GetObject |-> PJ_GetObject, PJ_ClearCache |-> PJ_ClearCache,
   PJ_GetComponent |-> PJ_GetComponent, PJ_GetComponentType |-> PJ_GetComponentType,
   PJ_get_group |-> PJ_get_group, PJ_make_group |-> PJ_make_group,
   PJ_rel_group |-> PJ_rel_group, PJ_put_group |-> PJ_put_group,
   PJ_ReadVariable |-> PJ_ReadVariable, pj_GetVarDatatypeID |-> pj_GetVarDatatypeID,
   db_pdb_GetVarDatatype |-> db_pdb_GetVarDatatype,
   db_pdb_ParseVDBSpec |-> db_pdb_ParseVDBSpec, db_pdb_getvarinfo |-> db_pdb_getvarinfo,
   pdb_getvarinfo |-> pdb_getvarinfo, db_pdb_getobjinfo |-> db_pdb_getobjinfo,
   PJ_get_fullpath |-> PJ_get_fullpath, PJ_ls |-> PJ_ls, db_pdb_close |-> db_pdb_close,
   db_pdb_flush |-> db_pdb_flush, db_pdb_Open |-> db_pdb_Open,
   db_pdb_Create |-> db_pdb_Create, db_pdb_GetDir |-> db_pdb_GetDir,
   db_pdb_SetDir |-> db_pdb_SetDir, db_pdb_NewToc |-> db_pdb_NewToc,
   db_pdb_InqVarType |-> db_pdb_InqVarType,
   db_pdb_SortObjectsByOffset |-> db_pdb_SortObjectsByOffset,
   db_pdb_ReadVar |-> db_pdb_ReadVar, db_pdb_ReadVarSlice |-> db_pdb_ReadVarSlice,
   db_pdb_Write |-> db_pdb_Write, db_pdb_InqVarExists |-> db_pdb_InqVarExists,
   db_pdb_GetVar |-> db_pdb_GetVar, db_pdb_GetVarByteLength |-> db_pdb_GetVarByteLength,
   db_pdb_GetVarType |-> db_pdb_GetVarType, db_pdb_GetVarDims |-> db_pdb_GetVarDims,
   db_pdb_GetComponent |-> db_pdb_GetComponent,
   db_pdb_GetComponentType |-> db_pdb_GetComponentType,
   db_pdb_InqMeshname |-> db_pdb_InqMeshname, db_pdb_InqMeshtype |-> db_pdb_InqMeshtype,
   db_pdb_GetComponentNames |-> db_pdb_GetComponentNames,
   db_pdb_GetObject |-> db_pdb_GetObject, db_pdb_WriteObject |-> db_pdb_WriteObject,
   db_pdb_WriteComponent |-> db_pdb_WriteComponent,
   db_pdb_get_obj_dsnames |-> db_pdb_get_obj_dsnames,
   db_pdb_ReadDenseArrayVals |-> db_pdb_ReadDenseArrayVals,
   db_pdb_ReadMatVals |-> db_pdb_ReadMatVals, db_pdb_ReadVarVals |-> db_pdb_ReadVarVals,
   db_pdb_GetMatspecies |-> db_pdb_GetMatspecies,
   db_pdb_GetPointmesh |-> db_pdb_GetPointmesh,
   db_pdb_GetPointvar |-> db_pdb_GetPointvar, db_pdb_GetQuadmesh |-> db_pdb_GetQuadmesh,
   db_pdb_GetQuadvar |-> db_pdb_GetQuadvar, db_pdb_GetUcdvar |-> db_pdb_GetUcdvar,
   db_pdb_GetFacelist |-> db_pdb_GetFacelist, db_pdb_GetZonelist |-> db_pdb_GetZonelist,
   db_pdb_GetPHZonelist |-> db_pdb_GetPHZonelist,
   db_pdb_GetDefvars |-> db_pdb_GetDefvars, db_pdb_GetMultimesh |-> db_pdb_GetMultimesh,
   db_pdb_GetMultivar |-> db_pdb_GetMultivar, db_pdb_GetMultimat |-> db_pdb_GetMultimat,
   db_pdb_GetMultimatspecies |-> db_pdb_GetMultimatspecies,
   db_pdb_GetMaterial |-> db_pdb_GetMaterial,
   db_pdb_GetCompoundarray |-> db_pdb_GetCompoundarray,
   db_pdb_GetCurve |-> db_pdb_GetCurve, db_pdb_GetCsgvar |-> db_pdb_GetCsgvar,
   db_pdb_GetCsgmesh |-> db_pdb_GetCsgmesh,
   db_pdb_GetCSGZonelist |-> db_pdb_GetCSGZonelist,
   db_pdb_GetUcdmesh |-> db_pdb_GetUcdmesh,
   db_pdb_GetMultimeshadj |-> db_pdb_GetMultimeshadj,
   db_pdb_GetMrgtree |-> db_pdb_GetMrgtree, db_pdb_PutMrgtree |-> db_pdb_PutMrgtree,
   db_pdb_GetGroupelmap |-> db_pdb_GetGroupelmap, db_pdb_GetMrgvar |-> db_pdb_GetMrgvar,
   db_InitCsg |-> db_InitCsg, db_InitPoint |-> db_InitPoint]

PdbLost ==
  [PJ_GetObject |-> {"file"}, PJ_put_group |-> {"varlist"},
   PJ_ReadVariable |-> {"forced"}, db_pdb_Create |-> {"REQ_STANDARD"},
   db_pdb_GetComponentNames |-> {"group"},
   db_pdb_ReadMatVals |-> {"matlist_result", "origmat"},
   db_pdb_ReadVarVals |-> {"dsnames"},
   db_pdb_GetMultimat |-> {"tmp", "tmpmatcolors", "tmpmaterial_names", "tmpnames"},
   db_pdb_GetMultimatspecies |-> {"tmp", "tmpcolors", "tmpnames", "tmpspecnames"},
   db_pdb_GetMaterial |-> {"tmp", "tmpcolors", "tmpnames"},
   db_pdb_GetCompoundarray |-> {"name_vector", "tmp"}, db_pdb_GetCurve |-> {"tmp"},
   db_pdb_GetCsgvar |-> {"tmp"},
   db_pdb_GetCsgmesh |-> {"tmp", "tmpbndnames", "zlname"},
   db_pdb_GetCSGZonelist |-> {"tmp", "tmprnames", "tmpznames"},
   db_pdb_GetUcdmesh |-> {"elname", "flname", "phzlname", "tmp", "tmpannum",
   "tmpedges", "tmpfaces", "tmpzones", "zlname"},
   db_pdb_GetMultimeshadj |-> {"tmp"},
   db_pdb_GetMrgtree |-> {"intArray", "mrgv_onames", "mrgv_rnames"},
   db_pdb_Write |-> {"idata"}, db_pdb_GetPointmesh |-> {"tmp", "tmpannums"},
   db_pdb_GetPointvar |-> {"rpnames", "tmp"},
   db_pdb_GetMatspecies |-> {"tmp", "tmpcolors", "tmpnames"},
   db_pdb_GetFacelist |-> {"tmp"}, db_pdb_GetPHZonelist |-> {"tmp", "tmpaznum"},
   db_pdb_GetZonelist |-> {"tmp", "tmpaznum"},
   db_pdb_GetQuadvar |-> {"rpnames", "tmp"},
   db_pdb_GetQuadmesh |-> {"tmp", "tmpannum", "tmpaznum"},
   db_pdb_GetUcdvar |-> {"rpnames", "tmp"},
   db_pdb_GetMultimesh |-> {"tmp", "tmpgnames", "tmpnames"},
   db_pdb_GetDefvars |-> {"tmp", "tmpdefns", "tmpnames"},
   db_pdb_GetMultivar |-> {"rpnames", "tmp", "tmpnames"}]
PdbSilent ==
  {"PJ_GetObject", "PJ_ReadVariable", "PJ_ls", "PJ_put_group", "db_InitCsg",
   "db_InitPoint", "db_pdb_Create", "db_pdb_GetCSGZonelist",
   "db_pdb_GetCompoundarray", "db_pdb_GetCsgmesh", "db_pdb_GetCsgvar",
   "db_pdb_GetCurve", "db_pdb_GetDefvars", "db_pdb_GetMatspecies",
   "db_pdb_GetMrgtree", "db_pdb_GetMrgvar", "db_pdb_GetMultimat",
   "db_pdb_GetMultimatspecies", "db_pdb_GetMultimesh", "db_pdb_GetMultimeshadj",
   "db_pdb_GetMultivar", "db_pdb_GetObject", "db_pdb_GetPHZonelist",
   "db_pdb_GetPointmesh", "db_pdb_GetPointvar", "db_pdb_GetQuadvar",
   "db_pdb_GetUcdmesh", "db_pdb_GetUcdvar", "db_pdb_GetVarByteLength",
   "db_pdb_GetVarType", "db_pdb_GetZonelist", "db_pdb_InqVarType", "db_pdb_NewToc", "db_pdb_ReadMatVals",
   "db_pdb_PutMrgtree", "db_pdb_SortObjectsByOffset", "db_pdb_WriteComponent",
   "db_pdb_WriteObject", "db_pdb_close", "db_pdb_get_obj_dsnames",
   "db_pdb_getobjinfo"}
=============================================================================
