----------------------------- MODULE ReaderCalls -----------------------------
(* The read-only drivers: Taurus (src/src/taurus) and NetCDF               *)
(* (src/src/netcdf).                                                       *)
EXTENDS CallSteps, TLC

-----------------------------------------------------------------------------
(* Taurus files (taurus.c): one file after the other, of which one is open *)
(* at a time; the mesh is read when it is first asked for, and what        *)
(* depends on the state when another state is.  What a file does not hold  *)
(* is left as it was: nobody looks at what taurus_read says.               *)
FileData == {"basename", "filename", "filesize", "state_file", "state_loc", "state_time"}
MeshData ==
  {"coords", "hex_nodelist", "hex_matlist", "beam_nodelist", "beam_matlist",
   "shell_nodelist", "shell_matlist"}
StateData == {"hex_activ", "beam_activ", "shell_activ", "hex_facelist", "hex_zoneno"}
Scratch(rs) == Copy(rs) \o Void("taurus_read") \o Free(rs)

taurus_read ==
  Quiet(Loop(Maybe(Own({"fd"}) \o Free({"fd"}) \o Open("fd") \o Keep({"fd"})) \o Check({"read"})))
init_file_info  == Quiet(Copy({"filesize"}) \o Keep({"filesize"}))
init_state_info ==
  Quiet(Copy({"state_file", "state_loc", "state_time"}) \o Keep({"state_file", "state_loc", "state_time"})
    \o Loop(Void("taurus_read")))
init_mat_info   ==
  Quiet(Copy({"buf"}) \o Maybe(Void("taurus_read")) \o Copy({"buf2", "matnos"})
    \o Keep({"matnos"}) \o Free({"buf", "buf2"}))
init_mesh_info  ==
  Quiet(Maybe(Done) \o Copy({"coords"}) \o Keep({"coords"}) \o Scratch({"rbuf"}) \o Copy({"buf"})
    \o Loop(Copy(MeshData) \o Void("taurus_read")
              \o Maybe(Void("db_taur_extface") \o Copy(StateData)) \o Keep(MeshData \cup StateData))
    \o Free({"buf"}))
init_coord_info == Quiet(Maybe(Copy({"coords"}) \o Keep({"coords"})) \o Scratch({"buf"}))
init_zone_info  ==
  Quiet(Void("taurus_read") \o Own({"hex_facelist", "hex_zoneno"}) \o Free({"hex_facelist", "hex_zoneno"})
    \o Copy({"zones", "mats"}) \o Void("db_taur_extface") \o Copy({"hex_facelist", "hex_zoneno"})
    \o Keep({"hex_facelist", "hex_zoneno"}) \o Free({"zones", "mats"}))
db_taur_extface ==
  Quiet(Void("DBCalcExternalFacelist") \o Own({"fl", "nodelist", "zoneno"}) \o Keep({"nodelist", "zoneno"})
    \o Free({"fl"}))

taurus_readvar ==
  Quiet(Check({"idir", "varname", "var_start"}) \o Copy({"var"})
    \o Void("taurus_readblockvar") \o Maybe(Void("taurus_readblockvar")) \o Keep({"var"}))
taurus_readblockvar == Quiet(Copy({"buf"}) \o Loop(Void("taurus_read")) \o Free({"buf"}))

db_taur_open ==
  Quiet(Copy({"taurus"}) \o OpenOr("fd", {"taurus"}) \o Copy({"basename", "filename"})
    \o Loop(CheckOr({"taurus", "fd", "basename", "filename"}))
    \o Void("init_file_info") \o Void("init_state_info") \o Void("init_mat_info")
    \o Keep({"taurus", "fd", "basename", "filename"}))
db_taur_close ==
  Quiet(Own({"taurus", "fd", "matnos"} \cup FileData \cup MeshData \cup StateData)
    \o Free({"taurus", "fd"} \cup FileData \cup MeshData \cup StateData))

(* The driver (silo_taurus.c).  A state is a directory. *)
db_taur_Open ==
  Plain(Check({"name"}) \o Must("db_taur_open") \o Copy({"dbfile"})
    \o Void("DBNewToc") \o Keep({"dbfile"}))
db_taur_Close  == Quiet(Maybe(Void("db_taur_close") \o Void("silo_db_close")))
db_taur_SetDir == Plain(Must("db_taur_cd") \o Void("db_FreeToc") \o Void("DBNewToc"))
db_taur_NewToc ==
  Plain(Void("db_FreeToc") \o Copy({"toc", "ucdmesh_names", "mat_names", "dir_names", "ucdvar_names"})
    \o Keep({"toc", "ucdmesh_names", "mat_names", "dir_names", "ucdvar_names"}))
taur_reduce_path == Quiet(Copy({"npath"}))
db_taur_cd == Quiet(Void("taur_reduce_path") \o Maybe(Done) \o Check({"path", "state", "dir"}))

(* The object is asked for in the directory of a state.  Without states    *)
(* there is nothing that says which elements are active.                   *)
InState == Check({"state", "idir"})
Current ==
  Maybe(Void("init_mesh_info")) \o Maybe(Void("init_coord_info") \o Void("init_zone_info"))
db_taur_GetComponent ==
  Plain(InState \o Either(Copy({"v"}) \o Keep({"v"}), Refuse))
db_taur_GetMaterial ==
  Plain(InState \o Current \o Copy({"mat", "name", "matnos", "matlist"})
    \o Keep({"mat", "name", "matnos", "matlist"}))
db_taur_GetUcdmesh ==
  Plain(InState \o Check({"mesh_name"}) \o Current \o Copy({"mesh", "name", "units", "labels", "coords"})
    \o Maybe(Copy({"zones", "shapecnt", "shapesize"}) \o Maybe(Copy({"nodelist"}) \o Maybe(Dies)))
    \o Maybe(Copy({"faces"}) \o Maybe(Copy({"facelist", "shapes", "zoneno"})))
    \o Keep({"mesh", "name", "units", "labels", "coords", "zones", "shapecnt", "shapesize",
             "nodelist", "faces", "facelist", "shapes", "zoneno"}))
db_taur_GetUcdvar ==
  Plain(InState \o Current \o Copy({"uv", "name"})
    \o Maybe(Copy({"vals"}) \o MustOr("taurus_readvar", {"uv", "name"}))
    \o Keep({"uv", "name", "vals"}))
db_taur_GetVar           == Plain(Copy({"ptr"}) \o MustOr("DBReadVar", {"ptr"}) \o Keep({"ptr"}))
db_taur_GetVarByteLength == Plain(Check({"varname"}))
db_taur_GetVarLength     == Plain(Check({"varname"}))
db_taur_InqMeshname      == Plain(InState \o Check({"var_name"}))
TaurusInquiries ==
  [db_taur_InqMeshtype |-> Plain(InState \o Check({"mesh_name"})),
   db_taur_InqVartype |->
     Plain(Either(Maybe(Copy({"path"}) \o Void("db_taur_cd") \o Free({"path"}) \o Own({"directory"}))
                    \o Call("db_taur_InqMeshtype") \o Maybe(Void("db_taur_cd")) \o Free({"directory"}),
                  Refuse))]
db_taur_ReadVar == Plain(Check({"varname"}))

-----------------------------------------------------------------------------
(* NetCDF files, which lite_PD_open reads: a table of the files that are   *)
(* open, and of what each one holds (netcdf.c, table.c)                    *)
Ents == {"dirents", "diments", "attents", "varents", "objents"}
EntTables == {"dirTable", "dimTable", "attTable", "varTable", "objTable"}
Entries(r) == Void("silo_Read") \o Open(r) \o Keep({r})

NcHandles ==
  [silo_GetIndex |-> Quiet(Check({"dbid"})),
   silo_Attach |-> Quiet(Must("silo_GetIndex")),
   silo_Release |-> Quiet(Void("silo_GetIndex") \o Void("lite_PD_close") \o Void("silo_ClearTables"))]
silo_MakeTables  == Quiet(Maybe(Copy(EntTables)) \o Keep(EntTables))
silo_ClearTables == Quiet(Check({"dbid"}) \o Own(Ents) \o Free(Ents))
silo_Read        == Quiet(Check({"varname", "ptr", "dbid"}) \o Must("lite_PD_read"))
silo_GetTables ==
  Quiet(Must("silo_Read") \o Entries("dirents") \o Entries("diments") \o Entries("attents")
    \o Entries("varents") \o Entries("objents"))
NcSizes ==
  [silo_GetDimSize |-> Quiet(Void("silonetcdf_ncdiminq")),
   silo_GetVarSize |-> Quiet(Check({"ent"})),
   silo_Verify |-> Quiet(Must("lite_PD_read") \o Check({"whatami"}))]

(* What the driver calls (api.c); the current directory of a file is the   *)
(* one that was set last.                                                  *)
NcFiles ==
  [silonetcdf_ncopen |->
     Quiet(Must("lite_PD_open") \o Copy({"pdb_file"}) \o MustOr("silo_Verify", {"pdb_file"})
       \o MustOr("silo_Attach", {"pdb_file"}) \o Keep({"pdb_file"}) \o Copy({"silo"})
       \o Void("silo_MakeTables") \o MustOr("silo_GetTables", {"silo"}) \o Keep({"silo"})),
   silonetcdf_ncclose |-> Quiet(Check({"dbid"}) \o Void("silo_Release"))]
NcDimensions ==
  [silonetcdf_ncdiminq |-> Quiet(Check({"entry"})),
   silonetcdf_ncdirset |-> Quiet(Check({"dbid", "dirid"}))]
NcVariables ==
  [silonetcdf_ncvarid |-> Quiet(Check({"name"})),
   silonetcdf_ncvarinq |-> Quiet(Check({"ent"})),
   silonetcdf_ncvarget1 |->
     Quiet(Check({"dbid", "varid", "ent", "iname"}) \o Call("lite_PD_read_alt"))]
silonetcdf_ncvarget ==
  Quiet(Check({"dbid", "varid", "ent", "iname", "count"})
    \o Loop(Void("silonetcdf_ncdiminq") \o Check({"start"})) \o Loop(Void("silo_GetDimSize"))
    \o Either(Void("silo_Read"), Copy({"tmp"}) \o Void("silo_Read") \o Free({"tmp"})))
NcObjects ==
  [silonetcdf_ncobjid |-> Quiet(Check({"dbid", "name"})),
   silonetcdf_ncobjinq |-> Quiet(Check({"ent"})),
   silonetcdf_ncobjget |-> Quiet(Check({"dbid", "objid", "ent"}))]

(* Objects (obj.c).  A component is read in the directory it is in, which  *)
(* nobody leaves again when that fails.                                    *)
SO_GetObject ==
  Quiet(Void("silonetcdf_ncobjinq") \o Must("silonetcdf_ncobjget")
    \o Loop(Either(Void("SO_ReadComponent"), Void("SO_GetComponent"))))
SO_GetComponent ==
  Quiet(Must("silonetcdf_ncdirset") \o Copy({"directory"})
    \o Either(Copy({"var"}) \o Maybe(MustOr("silonetcdf_ncdiminq", {"var"})),
              Must("silonetcdf_ncvarinq") \o Loop(Void("silo_GetDimSize")) \o Copy({"var"})
                \o Either(MustOr("silonetcdf_ncvarget1", {"var"}),
                          MustOr("silonetcdf_ncvarget", {"var"}))
                \o Maybe(Copy({"local_f"}) \o Free({"var"})))
    \o Void("silonetcdf_ncdirset") \o Free({"directory"}) \o Keep({"var", "local_f"}))
SO_ReadComponent ==
  Quiet(Void("silonetcdf_ncdirset") \o Maybe(Done) \o Copy({"directory"})
    \o Either(Maybe(Must("silonetcdf_ncdiminq")),
              Must("silonetcdf_ncvarinq") \o Loop(Void("silo_GetDimSize"))
                \o Maybe(Copy({"local_var"}))
                \o Either(Must("silonetcdf_ncvarget1"), Must("silonetcdf_ncvarget"))
                \o Free({"local_var"}))
    \o Void("silonetcdf_ncdirset") \o Free({"directory"}))

(* The driver (silo_netcdf.c).  An object is allocated, then looked for,   *)
(* and nobody asks whether its components could be read.                   *)
NcObject(obj, parts) ==
  Plain(Copy({obj}) \o Must("silonetcdf_ncobjid") \o Void("SO_GetObject") \o parts
    \o Copy({"name"}) \o Keep({obj, "name", "vals", "mixvals", "faces", "zones", "edges"}))
NcVar(steps) == Plain(Must("silonetcdf_ncvarid") \o steps)
NcPart(r)    == Maybe(Copy({r}) \o Void("SO_GetObject"))

db_cdf_Open ==
  Plain(Check({"name"}) \o Must("silonetcdf_ncopen") \o Copy({"dbfile"}) \o Void("DBNewToc")
    \o Keep({"dbfile"}))
db_cdf_Close == Quiet(Maybe(Void("silonetcdf_ncclose") \o Void("silo_db_close")))
db_cdf_NewToc ==
  Quiet(Void("db_FreeToc") \o Copy({"toc", "names"}) \o Loop(Void("silonetcdf_ncobjinq"))
    \o Keep({"toc", "names"}))
db_cdf_GetMaterial   == NcObject("ma", <<>>)
db_cdf_GetMatspecies == NcObject("mm", Maybe(Void("DBGetVarType")) \o Void("SO_GetObject"))
db_cdf_GetPointmesh  == NcObject("pm", <<>>)
db_cdf_GetPointvar   == NcObject("mv", NcPart("vals"))
db_cdf_GetQuadmesh   == NcObject("qm", <<>>)
db_cdf_GetQuadvar ==
  NcObject("qv", Maybe(Copy({"vals"}) \o Maybe(Copy({"mixvals"})) \o Maybe(Void("DBGetVarType"))
                         \o Void("SO_GetObject")))
db_cdf_GetUcdmesh == NcObject("um", NcPart("faces") \o NcPart("zones") \o NcPart("edges"))
db_cdf_GetUcdvar ==
  NcObject("uv", Maybe(Copy({"vals"}) \o Maybe(Copy({"mixvals"})) \o Void("SO_GetObject")))
db_cdf_GetComponent ==
  Plain(Must("silonetcdf_ncobjid") \o Copy({"result"}) \o Void("SO_GetObject") \o Keep({"result"}))
db_cdf_GetMultimesh ==
  Plain(Must("silonetcdf_ncobjid") \o Void("silonetcdf_ncobjinq")
    \o Maybe(Copy({"mm"}) \o Void("SO_GetObject")
               \o Maybe(Copy({"tmpnames"}) \o Maybe(Copy({"meshnames"}) \o Free({"tmpnames"}))))
    \o Keep({"mm", "meshnames"}))
db_cdf_GetVar ==
  Plain(Void("DBGetVarByteLength") \o Check({"n"}) \o Copy({"data"})
    \o MustOr("DBReadVar", {"data"}) \o Keep({"data"}))
db_cdf_GetVarByteLength == NcVar(Void("silo_GetVarSize"))
db_cdf_GetVarType       == NcVar(Void("silonetcdf_ncvarinq"))
db_cdf_ReadVar ==
  NcVar(Void("silonetcdf_ncvarinq") \o Loop(Void("silonetcdf_ncdiminq")) \o Must("silonetcdf_ncvarget"))
CdfInquiries ==
  [db_cdf_GetVarLength |-> NcVar(Void("silo_GetVarSize")),
   db_cdf_InqVarType |-> Plain(Must("silonetcdf_ncobjid") \o Void("silonetcdf_ncobjinq")),
   db_cdf_InqMeshname |->
     Plain(Void("DBGetComponent") \o Maybe(Copy({"v"}) \o Free({"v"})))]
db_cdf_InqMeshtype ==
  Plain(Must("silonetcdf_ncobjid") \o Void("silonetcdf_ncobjinq")
    \o Maybe(Call("DBGetComponent") \o Maybe(Copy({"v"}) \o Free({"v"}))))
db_setdir == Quiet(Call("silonetcdf_ncdirset"))
db_cdf_SetDir ==
  Plain(Copy({"pathcp", "directory"}) \o Maybe(Void("db_setdir"))
    \o Loop(MustOr("db_setdir", {"pathcp", "directory"})) \o Free({"pathcp"})
    \o Keep({"directory"}) \o Void("DBNewToc"))

-----------------------------------------------------------------------------
Reader ==
  [taurus_read |-> taurus_read, init_file_info |-> init_file_info,
   init_state_info |-> init_state_info, init_mat_info |-> init_mat_info,
   init_mesh_info |-> init_mesh_info, init_coord_info |-> init_coord_info,
   init_zone_info |-> init_zone_info, db_taur_extface |-> db_taur_extface,
   taurus_readvar |-> taurus_readvar, taurus_readblockvar |-> taurus_readblockvar,
   db_taur_open |-> db_taur_open, db_taur_close |-> db_taur_close,
   db_taur_Open |-> db_taur_Open, db_taur_Close |-> db_taur_Close,
   db_taur_SetDir |-> db_taur_SetDir, db_taur_NewToc |-> db_taur_NewToc,
   taur_reduce_path |-> taur_reduce_path, db_taur_cd |-> db_taur_cd,
   db_taur_GetComponent |-> db_taur_GetComponent,
   db_taur_GetMaterial |-> db_taur_GetMaterial,
   db_taur_GetUcdmesh |-> db_taur_GetUcdmesh, db_taur_GetUcdvar |-> db_taur_GetUcdvar,
   db_taur_GetVar |-> db_taur_GetVar,
   db_taur_GetVarByteLength |-> db_taur_GetVarByteLength,
   db_taur_GetVarLength |-> db_taur_GetVarLength,
   db_taur_InqMeshname |-> db_taur_InqMeshname, db_taur_ReadVar |-> db_taur_ReadVar,
   silo_MakeTables |-> silo_MakeTables, silo_ClearTables |-> silo_ClearTables,
   silo_Read |-> silo_Read, silo_GetTables |-> silo_GetTables,
   silonetcdf_ncvarget |-> silonetcdf_ncvarget, SO_GetObject |-> SO_GetObject,
   SO_GetComponent |-> SO_GetComponent, SO_ReadComponent |-> SO_ReadComponent,
   db_cdf_Open |-> db_cdf_Open, db_cdf_Close |-> db_cdf_Close,
   db_cdf_NewToc |-> db_cdf_NewToc, db_cdf_GetMaterial |-> db_cdf_GetMaterial,
   db_cdf_GetMatspecies |-> db_cdf_GetMatspecies,
   db_cdf_GetPointmesh |-> db_cdf_GetPointmesh,
   db_cdf_GetPointvar |-> db_cdf_GetPointvar, db_cdf_GetQuadmesh |-> db_cdf_GetQuadmesh,
   db_cdf_GetQuadvar |-> db_cdf_GetQuadvar, db_cdf_GetUcdmesh |-> db_cdf_GetUcdmesh,
   db_cdf_GetUcdvar |-> db_cdf_GetUcdvar, db_cdf_GetComponent |-> db_cdf_GetComponent,
   db_cdf_GetMultimesh |-> db_cdf_GetMultimesh, db_cdf_GetVar |-> db_cdf_GetVar,
   db_cdf_GetVarByteLength |-> db_cdf_GetVarByteLength,
   db_cdf_GetVarType |-> db_cdf_GetVarType, db_cdf_ReadVar |-> db_cdf_ReadVar,
   db_cdf_InqMeshtype |-> db_cdf_InqMeshtype, db_setdir |-> db_setdir,
   db_cdf_SetDir |-> db_cdf_SetDir]
  @@ NcFiles @@ NcVariables @@ NcObjects @@ NcDimensions @@ NcHandles @@ NcSizes @@
     CdfInquiries @@ TaurusInquiries

ReaderLost ==
  [db_taur_close |-> {"matnos"}, taur_reduce_path |-> {"npath"},
   db_taur_GetUcdvar |-> {"vals"}, SO_GetComponent |-> {"directory"},
   SO_ReadComponent |-> {"directory", "local_var"},
   db_cdf_GetMatspecies |-> {"mm"}, db_cdf_GetQuadvar |-> {"qv"},
   db_cdf_GetUcdmesh |-> {"um"}, db_cdf_GetUcdvar |-> {"uv"},
   db_cdf_GetMultimesh |-> {"tmpnames"}, db_cdf_GetPointvar |-> {"mv"},
   db_cdf_GetQuadmesh |-> {"qm"}, db_cdf_GetPointmesh |-> {"pm"},
   db_cdf_GetMaterial |-> {"ma"}]
ReaderSilent ==
  {"SO_GetComponent", "SO_GetObject", "SO_ReadComponent", "db_cdf_Close",
   "db_cdf_GetComponent", "db_cdf_GetMaterial", "db_cdf_GetMatspecies",
   "db_cdf_GetMultimesh", "db_cdf_GetPointmesh", "db_cdf_GetPointvar",
   "db_cdf_GetQuadmesh", "db_cdf_GetQuadvar", "db_cdf_GetUcdmesh",
   "db_cdf_GetUcdvar", "db_cdf_GetVar", "db_cdf_GetVarByteLength",
   "db_cdf_GetVarLength", "db_cdf_GetVarType", "db_cdf_InqMeshname",
   "db_cdf_InqMeshtype", "db_cdf_InqVarType", "db_cdf_NewToc", "db_cdf_Open",
   "db_cdf_ReadVar", "db_cdf_SetDir", "db_taur_InqVartype", "db_taur_Open",
   "db_taur_SetDir", "init_coord_info", "init_mat_info", "init_mesh_info",
   "init_state_info", "init_zone_info", "silo_GetDimSize", "silo_GetTables",
   "silo_Release", "silonetcdf_ncvarget", "taurus_readblockvar"}
=============================================================================
