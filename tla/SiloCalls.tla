----------------------------- MODULE SiloCalls -----------------------------
(* Functions of the device-independent layer (src/src/silo/silo.c): files  *)
(* and their tables of contents, settings, objects and option lists, the   *)
(* copying of objects, lists of strings, path names, region trees.         *)
EXTENDS CallSteps, TLC

-----------------------------------------------------------------------------
(* The file                                                                *)
(* The lists of names in a table of contents *)
TocLists ==
  {"curve", "multimesh", "multimeshadj", "multivar", "multimat", "multimatspecies", "csgmesh",
   "csgvar", "defvars", "qmesh", "qvar", "ptmesh", "ptvar", "mat", "matspecies", "ucdmesh", "ucdvar",
   "var", "obj", "dir", "array", "mrgtree", "groupelmap", "mrgvar", "symlink_target"}

db_AllocToc == Plain(Open("toc") \o Keep({"toc"}))
db_FreeToc ==
  Quiet(Maybe(Done) \o Own({"toc"} \cup TocLists) \o Free({"toc"} \cup (TocLists \ {"matspecies"})))
silo_db_close ==
  Quiet(Maybe(Done) \o Own({"toc", "GrabId", "name", "dbfile"}) \o Void("db_FreeToc")
          \o Free({"toc", "GrabId", "name", "dbfile"}))

(* What lies there as a file; the file of a split pair *)
db_silo_stat_one_file == Quiet(Check({"stat"}))
db_silo_stat ==
  Quiet(Maybe(Done)
    \o Loop(Void("db_silo_stat_one_file") \o Maybe(Done))
    \o Call("db_silo_stat_one_file"))

(* What the filters and the drivers hang on the file is theirs *)
OpenedFile == {"dbfile", "file_scope_globals", "file_lib_version"}
DBOpenReal ==
  Api(Check({"name", "type", "mode", "DBOpenCB"}) \o Must("db_silo_stat")
    \o Check({"registered", "st_mode", "fileid"}) \o Copy({"fileid"})
    \o Calling("must", "DBOpenCB", {"fileid"}) \o Copy({"dbfile"})
    \o Void("db_InitFileGlobals") \o Copy({"file_scope_globals"}) \o Keep({"dbfile", "fileid"})
    \o Loop(Void("init")) \o Void("db_filter_install")
    \o Maybe(Void("DBGetVar") \o Copy({"file_lib_version"}))
    \o Keep(OpenedFile))
db_InitFileGlobals == Quiet(Copy({"file_scope_globals"}) \o Keep({"file_scope_globals"}))

(* What fails while the file is opened and looked at ends in the frame *)
DBInqFileReal ==
  Api(Check({"filename"}) \o Copy({"frame"})
    \o Either(Copy({"dbfile"}) \o Free({"frame"}) \o Void("DBClose") \o Free({"dbfile"}),
              Free({"frame"})))

db_filter_install ==
  Plain(Maybe(Done) \o Check({"DB_CHAR"}) \o Maybe(Done) \o Must("DBGetVar")
    \o Copy({"var", "var2"}) \o Loop(Void("open")) \o Free({"var2"}) \o Maybe(Error))
DBFilterRegistration ==
  Api(Either(Own({"filter"}) \o Free({"filter"}),
             Maybe(Check({"j"}) \o Copy({"filter"}) \o Keep({"filter"}))))
DBUninstall == Api(Check({"dbfile"}) \o Maybe(Done) \o Call("uninstall"))
(* the descriptor *)
DBGetDriverTypeFromPath == Quiet(Open("fd") \o CheckOr({"fd"}) \o CheckOr({"fd"}) \o Free({"fd"}))

(* The paths are elements of args *)
DBLs ==
  Direct(Check({"list"}) \o Copy({"args"}) \o Check({"opts"}) \o Void("DBGetDir")
    \o Loop(Void("DBGetDir") \o Maybe(Void("DBSetDir")) \o Must("DBGetToc")
              \o Maybe(Copy({"list"}) \o Keep({"list"})) \o Void("DBSetDir"))
    \o Free({"args"}) \o Check({"nlist"}))

db_guess_has_friendly_HDF5_names_r ==
  Plain(Void("DBGetToc") \o Maybe(Done)
    \o Loop(Void("DBSetDir") \o Void("db_guess_has_friendly_HDF5_names_r") \o Void("DBSetDir")))
DBGuessHasFriendlyHDF5Names ==
  Direct(Maybe(Done) \o Void("DBGetDir") \o Void("db_guess_has_friendly_HDF5_names_r")
           \o Void("DBSetDir"))

db_parse_version_digits_from_string ==
  Quiet(Check({"str"}) \o Copy({"ostr"}) \o CheckOr({"ostr"}) \o CheckOr({"ostr"}) \o Free({"ostr"}))
DBFileVersionGE ==
  Direct(Copy({"version"})
    \o Maybe(MustOr("db_parse_version_digits_from_string", {"version"})) \o Free({"version"}))

-----------------------------------------------------------------------------
(* Settings                                                                *)
_db_set_compression_params ==
  Quiet(Maybe(Own({"dst"}) \o Free({"dst"})) \o Maybe(Copy({"dst"}) \o Keep({"dst"})))
DBSetCompression == Direct(Void("_db_set_compression_params"))
db_SetGetCompressionFile ==
  Api(Check({"f"}) \o Maybe(Void("_db_set_compression_params")))
SetGetFile == Api(Check({"f"}))
DBFreeCompressionResources == Api(Check({"dbfile", "free_z"}) \o Call("free_z"))
DBRegisterFileOptionsSet   == Api(Maybe(Done) \o Refuse)
DBUnregisterFileOptionsSet == Api(Check({"opts_set_id"}))

-----------------------------------------------------------------------------
(* Objects and option lists                                                *)
ObjectParts == {"object", "name", "type", "comp_names", "pdb_names"}
Components  == {"comp_names[i]", "pdb_names[i]"}

DBMakeObject ==
  Api(Check({"name"}) \o Open("object") \o Copy(ObjectParts \ {"object"})
    \o CheckOr(ObjectParts \ {"object"}) \o Keep(ObjectParts))
DBFreeObject ==
  Api(Check({"object"}) \o Own(ObjectParts \cup Components \cup {"h5_names"})
    \o Free(ObjectParts \cup Components \cup {"h5_names"}))
(* the pointers are set to NULL *)
DBClearObject ==
  Api(Check({"object"}) \o Own(Components \cup {"name", "type"}))
db_IncObjectComponentCount ==
  Plain(Maybe(Done) \o Check({"new_comp_names"}) \o Own({"comp_names"})
    \o CheckOr({"comp_names"}) \o Keep({"comp_names"}))

(* A component is a name and a string that holds its value *)
AddsComponent(before, tmp) ==
  Api(Check({"object", "compname"} \cup before) \o Copy(tmp)
    \o Copy(Components) \o Maybe(Free(Components \cup tmp) \o Refuse)
    \o Keep(Components) \o MustOr("db_IncObjectComponentCount", tmp) \o Free(tmp))
DBAddVarComponent  == AddsComponent({"pdbname", "ncomponents"}, {})
DBAddIntNComponent == AddsComponent({"n", "ii", "ncomponents"}, {})
DBAddFltNComponent == AddsComponent({"n", "ff", "ncomponents"}, {})
DBAddDblNComponent == AddsComponent({"n", "dd", "ncomponents"}, {})
DBAddStrComponent  == AddsComponent({"ncomponents", "ss"}, {"tmp"})

db_AdjustSpeciallyHandledStandardObjectComponentValues ==
  Quiet(Maybe(Done)
    \o Loop(Own({"pdb_names[i]"}) \o Free({"pdb_names[i]"}) \o Copy({"pdb_names[i]"})
              \o Keep({"pdb_names[i]"})))

ListParts == {"optlist", "options", "values"}
DBMakeOptlist ==
  Api(Check({"maxopts"}) \o Open("optlist") \o Copy({"options", "values"}) \o CheckOr(ListParts)
    \o Keep(ListParts))
DBFreeOptlist  == Api(Check({"optlist"}) \o Own(ListParts) \o Free(ListParts))
DBClearOptlist == Api(Check({"optlist"}))
DBClearOption  == Api(Check({"optlist"}))
(* the value is in the list before there is room for the next one *)
DBAddOption ==
  Api(Check({"optlist", "numopts"})
    \o Maybe(Own({"options", "values"}) \o CheckOr({"options", "values"}) \o Keep({"options", "values"})))
-----------------------------------------------------------------------------
(* Copying objects between files                                           *)
CheckForComponentSeries ==
  Quiet(Maybe(Done) \o Copy({"sernm", "serd", "sertstr"}) \o Keep({"sernm", "serd", "sertstr"}))
db_validate_copy_step ==
  Direct(Maybe(Done) \o Check({"srcType", "recurse"}) \o Maybe(Done)
           \o Check({"dstType", "allowOverwrites"}))

BothObjects == {"srcObj", "dstObj"}
SubObjects  ==
  {"srcSubObjName", "srcSubObjDirName", "srcSubObjAbsName",
   "dstSubObjName", "dstSubObjDirName", "dstSubObjAbsName"}
db_can_overwrite_dstobj_with_srcobj ==
  Direct(Must("DBGetObject") \o Copy({"srcObj"})
    \o MustOr("DBGetObject", {"srcObj"}) \o Copy({"dstObj"})
    \o Loop(CheckOr(BothObjects)
              \o Maybe(Copy(SubObjects)
                         \o Maybe(MustOr("db_can_overwrite_dstobj_with_srcobj",
                                         BothObjects \cup SubObjects))
                         \o Free(SubObjects) \o CheckOr(BothObjects)))
    \o Free(BothObjects))

(* A component is a series of numbers, one number, a variable, or a part   *)
(* of a mesh, which is copied too.  The name of the new object is not yet  *)
(* known to be one that an object can have.                                *)
CopyComponent ==
  LET series == {"sernm", "sertstr", "serd"}
      source == {"subObjName", "srcObjDirName", "srcSubObjAbsName"}
      target == {"dstObjDirName", "dstSubObjAbsName"}
  IN Either(Copy(series) \o Void("DBWriteComponent") \o Free(series),
     Either(Void("DBAddIntComponent"),
            Copy(source)
              \o Maybe(Either(Copy({"data", "dtype"}) \o Void("DBWriteComponent")
                                \o Free({"data", "dtype"}),
                              Copy(target) \o Void("db_copy_single_object_abspath")
                                \o Void("DBAddStrComponent") \o Free(target)))
              \o Free(source)))
db_copy_single_object_abspath ==
  Direct(Check({"srcType"})
    \o Either(Copy({"bname", "_dstObjAbsName"}) \o Free({"bname"}),
              Maybe(Check({"allowOverwrites"}) \o Must("db_can_overwrite_dstobj_with_srcobj"))
                \o Copy({"_dstObjAbsName"}))
    \o Must("DBGetObject") \o Copy({"srcObj"})
    \o Either(Void("DBMakeObject") \o Dies, Copy({"dstObj"}))
    \o Loop(CopyComponent)
    \o Void("DBWriteObject") \o Free({"srcObj", "dstObj", "_dstObjAbsName"}))

(* One source of DBCp: an object, something that cannot be copied, or a    *)
(* directory with what is in it                                            *)
CopyOne ==
  LET names == {"srcObjAbsName", "dstObjAbsName"}
  IN Copy(names)
       \o Either(Void("db_copy_single_object_abspath") \o Maybe(Free(names)),
                 Either(Error,
                        Void("DBSetDir") \o Void("DBLs") \o Copy({"dirItems"}) \o Void("DBLs")
                          \o Maybe(Void("DBMkDir") \o Void("DBSetDir"))
                          \o Void("DBCp") \o Void("DBSetDir"))
                   \o Free(names))
DBCp ==
  Direct(Check({"opts", "srcFile", "dstFile"})
    \o Maybe(Copy({"srcPathNames"}) \o Maybe(Copy({"dstPathNames"})))
    \o Maybe(Done) \o Check({"N"}) \o Maybe(Copy({"dstPathNames"}))
    \o Void("DBGetDir") \o Loop(CopyOne) \o Void("DBSetDir"))

-----------------------------------------------------------------------------
(* Lists of strings and of shapes                                          *)
DBAnnotateUcdmesh == Quiet(Maybe(Done) \o Open("shapetype") \o Keep({"shapetype"}))
Shapes == {"shapecnt", "shapesize", "shapetype"}
db_SplitShapelist ==
  LET new == {"shapecnt2", "shapesize2", "shapetype2"}
  IN Quiet(Own(Shapes) \o Copy(new) \o Free(Shapes) \o Keep(new))

db_strndup == Plain(Check({"string"}) \o Open("out") \o Keep({"out"}))
DBStringArrayToStringList == Quiet(Copy({"s"}) \o Keep({"s"}))
db_StringListToStringArray ==
  Quiet(Maybe(Done) \o Copy({"retval"}) \o Loop(More({"retval[i]"}))
          \o Keep({"retval", "retval[i]"}))
DBFreeStringArray ==
  Quiet(Own({"strArray", "strArray[i]"}) \o Free({"strArray", "strArray[i]"}))
(* the array points into the list *)
db_StringListToStringArrayMBOpt ==
  Plain(Maybe(Done) \o Own({"strList"}) \o Check({"nblocks"}) \o Copy({"strArray"})
    \o Loop(CheckOr({"strList", "strArray"})) \o CheckOr({"strArray"})
    \o Keep({"strList", "strArray"}))

-----------------------------------------------------------------------------
(* Path names                                                              *)
db_absoluteOf_path ==
  Quiet(Either(Call("db_normalize_path"),
        Either(Call("db_join_path"), Copy({"result"}) \o Keep({"result"}))))
db_basename == Quiet(Maybe(Copy({"result"}) \o Keep({"result"})))
(* an empty path name has no normal form *)
db_dirname ==
  Quiet(Either(Void("db_normalize_path") \o Dies, Copy({"tmp_pathname"}))
    \o Maybe(Copy({"result"})) \o Free({"tmp_pathname"}) \o Keep({"result"}))
db_join_path ==
  Quiet(Maybe(Call("db_normalize_path") \o Done)
    \o Must("db_split_path") \o Copy({"Pa"}) \o MustOr("db_split_path", {"Pa"}) \o Copy({"Pb"})
    \o OpenOr("t", {"Pa", "Pb"}) \o Loop(CheckOr({"Pa", "Pb", "t"}))
    \o Copy({"tmp"}) \o Free({"Pa", "Pb", "t"}) \o Call("db_normalize_path") \o Free({"tmp"}))
db_normalize_path ==
  Quiet(Check({"pathname"}) \o Must("db_split_path") \o Copy({"p"}) \o Copy({"result"})
    \o Void("db_cleanup_path") \o Free({"p"}) \o Keep({"result"}))
db_cleanup_path ==
  Quiet(Maybe(Done) \o Own({"p", "component", "name"}) \o Free({"p", "component", "name"}))
makePathname    == Quiet(Open("p") \o Keep({"p"}))
appendComponent ==
  Quiet(Maybe(Void("makePathname")) \o Maybe(Copy({"component", "name"}) \o Keep({"component", "name"})))
db_split_path ==
  Quiet(Check({"pathname"}) \o Must("makePathname") \o Copy({"result"})
    \o Loop(Void("appendComponent")) \o Keep({"result"}))
db_unsplit_path == Quiet(Check({"p"}) \o Copy({"result"}) \o Keep({"result"}))

-----------------------------------------------------------------------------
(* Region trees                                                            *)
SegParts  == {"seg_ids", "seg_lens", "seg_types"}
NodeParts == {"tnode", "name", "maps_name", "children"} \cup SegParts
NameParts == {"names", "names[i]"}
TreeParts == {"tree", "tree->name", "src_mesh_name", "mrgvar_onames", "mrgvar_rnames"}

DBMakeMrgtree ==
  Api(Check({"source_mesh_type", "type_info_bits", "max_root_descendents"})
    \o Open("tree") \o OpenOr("root", {"tree"}) \o OpenOr("children", {"root", "tree"})
    \o Copy({"name"}) \o Keep({"tree", "root", "children", "name"}))
DBAddRegion ==
  Api(Check({"tree", "region_name", "type_info_bits", "max_descendents"} \cup SegParts)
    \o Open("tnode") \o OpenOr("children", {"tnode"}) \o Copy({"name", "maps_name"})
    \o Maybe(Copy(SegParts) \o CheckOr(NodeParts)) \o Keep(NodeParts))
DBAddRegionArray ==
  Api(Check({"tree", "nregns", "max_children"}) \o Open("tnode") \o Check(SegParts)
    \o OpenOr("names", {"tnode"}) \o Copy({"names[i]", "maps_name"})
    \o Maybe(Copy(SegParts) \o CheckOr({"tnode"} \cup NameParts \cup SegParts))
    \o Keep(NodeParts \cup NameParts))
DBFreeMrgnode == 
  Quiet(Maybe(Done) \o Own(NodeParts) \o Maybe(Own(NameParts)) \o Free(NodeParts \cup NameParts))
DBFreeMrgtree ==
  Quiet(Maybe(Done) \o Own(TreeParts) \o Loop(Void("DBFreeMrgnode")) \o Free(TreeParts))
(* an array of regions has no name to compare with the path *)
DBSetCwr == Api(Check({"tree", "path"}) \o Maybe(Loop(Maybe(Dies))))
DBGetCwr == Api(Check({"tree"}))

-----------------------------------------------------------------------------
Silo ==
  [db_AllocToc |-> db_AllocToc, db_FreeToc |-> db_FreeToc,
   silo_db_close |-> silo_db_close, db_silo_stat_one_file |-> db_silo_stat_one_file,
   db_silo_stat |-> db_silo_stat, DBOpenReal |-> DBOpenReal,
   db_InitFileGlobals |-> db_InitFileGlobals, DBInqFileReal |-> DBInqFileReal,
   db_filter_install |-> db_filter_install,
   DBFilterRegistration |-> DBFilterRegistration, DBUninstall |-> DBUninstall,
   DBGetDriverTypeFromPath |-> DBGetDriverTypeFromPath, DBLs |-> DBLs,
   db_guess_has_friendly_HDF5_names_r |-> db_guess_has_friendly_HDF5_names_r,
   DBGuessHasFriendlyHDF5Names |-> DBGuessHasFriendlyHDF5Names,
   db_parse_version_digits_from_string |-> db_parse_version_digits_from_string,
   DBFileVersionGE |-> DBFileVersionGE,
   _db_set_compression_params |-> _db_set_compression_params,
   DBSetCompression |-> DBSetCompression,
   db_SetGetCompressionFile |-> db_SetGetCompressionFile, SetGetFile |-> SetGetFile,
   DBFreeCompressionResources |-> DBFreeCompressionResources,
   DBRegisterFileOptionsSet |-> DBRegisterFileOptionsSet,
   DBUnregisterFileOptionsSet |-> DBUnregisterFileOptionsSet,
   DBMakeObject |-> DBMakeObject, DBFreeObject |-> DBFreeObject,
   DBClearObject |-> DBClearObject,
   db_IncObjectComponentCount |-> db_IncObjectComponentCount,
   DBAddVarComponent |-> DBAddVarComponent, DBAddIntNComponent |-> DBAddIntNComponent,
   DBAddFltNComponent |-> DBAddFltNComponent, DBAddDblNComponent |-> DBAddDblNComponent,
   DBAddStrComponent |-> DBAddStrComponent,
   db_AdjustSpeciallyHandledStandardObjectComponentValues |-> db_AdjustSpeciallyHandledStandardObjectComponentValues,
   DBMakeOptlist |-> DBMakeOptlist, DBFreeOptlist |-> DBFreeOptlist,
   DBClearOptlist |-> DBClearOptlist, DBClearOption |-> DBClearOption,
   DBAddOption |-> DBAddOption, CheckForComponentSeries |-> CheckForComponentSeries,
   db_validate_copy_step |-> db_validate_copy_step,
   db_can_overwrite_dstobj_with_srcobj |-> db_can_overwrite_dstobj_with_srcobj,
   db_copy_single_object_abspath |-> db_copy_single_object_abspath, DBCp |-> DBCp,
   DBAnnotateUcdmesh |-> DBAnnotateUcdmesh, db_strndup |-> db_strndup,
   DBStringArrayToStringList |-> DBStringArrayToStringList,
   db_StringListToStringArray |-> db_StringListToStringArray,
   DBFreeStringArray |-> DBFreeStringArray,
   db_StringListToStringArrayMBOpt |-> db_StringListToStringArrayMBOpt,
   db_absoluteOf_path |-> db_absoluteOf_path, db_basename |-> db_basename,
   db_dirname |-> db_dirname, db_join_path |-> db_join_path,
   db_normalize_path |-> db_normalize_path, db_cleanup_path |-> db_cleanup_path,
   makePathname |-> makePathname, appendComponent |-> appendComponent,
   db_split_path |-> db_split_path, db_unsplit_path |-> db_unsplit_path,
   DBMakeMrgtree |-> DBMakeMrgtree, DBAddRegion |-> DBAddRegion,
   DBAddRegionArray |-> DBAddRegionArray, DBFreeMrgnode |-> DBFreeMrgnode,
   DBFreeMrgtree |-> DBFreeMrgtree, DBSetCwr |-> DBSetCwr, DBGetCwr |-> DBGetCwr]

SiloLost ==
  [db_FreeToc |-> {"matspecies"}, db_filter_install |-> {"var"}, DBLs |-> {"args"},
   DBMakeObject |-> {"object"},
   DBClearObject |-> {"comp_names[i]", "name", "pdb_names[i]", "type"},
   db_copy_single_object_abspath |-> {"_dstObjAbsName"}, DBCp |-> {"dirItems",
   "dstObjAbsName", "dstPathNames", "srcObjAbsName", "srcPathNames"},
   db_StringListToStringArrayMBOpt |-> {"strList"},
   DBAddRegionArray |-> {"maps_name", "tnode"}]
SiloSilent ==
  {"db_filter_install", "DBCp", "DBGuessHasFriendlyHDF5Names", "DBInqFileReal", "DBLs", "DBOpenReal",
   "appendComponent", "db_copy_single_object_abspath",
   "db_guess_has_friendly_HDF5_names_r", "db_silo_stat"}
=============================================================================
