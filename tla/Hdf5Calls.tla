------------------------------ MODULE Hdf5Calls ------------------------------
(* Functions of the HDF5 driver (src/src/hdf5_drv/silo_hdf5.c) as their    *)
(* steps: the handles of HDF5 and the memory that they take, and what      *)
(* becomes of them on every way out.  The build has no MPI and no direct   *)
(* I/O.  A handle of the data type library (H5T_NATIVE_INT) is nobody's.   *)
EXTENDS CallSteps, TLC

(* functions of HDF5 whose failure nobody looks at *)
HDF5 == {"H5Dcreate", "H5Dwrite"}

-----------------------------------------------------------------------------
(* Compression                                                             *)
(* fpzip: the buffer is replaced by the result *)
Fpzips ==
  [FpzipRead |->
     Quiet(Check({"new_buf_size"}) \o Copy({"uncbuf"}) \o CheckOr({"uncbuf"}) \o Keep({"uncbuf"})),
   FpzipWrite |->
     Quiet(Check({"isfp"}) \o Copy({"cbuf"}) \o CheckOr({"cbuf"}) \o Keep({"cbuf"}))]

(* hzip: a mesh, whose node list is also kept for the variables on it *)
HzipReads ==
  [HzipReadMesh |->
     Quiet(Brief("stream") \o Check({"ndims"}) \o Open("stream") \o CheckOr({"stream"})
             \o OpenOr("nodelist", {"stream"}) \o Free({"stream"}) \o CheckOr({"nodelist"})
             \o Void("RegisterNodelist") \o Keep({"nodelist"})),
   (* a variable, with a node list made for it if the mesh is a quad mesh *)
   HzipReadNodes |->
     Quiet(Brief("stream") \o Check({"ndims"}) \o Either(Open("nodelist"), Check({"zl"}))
             \o Open("stream") \o CheckOr({"stream"}) \o OpenOr("var", {"stream"})
             \o Free({"stream"}) \o CheckOr({"nodelist", "var"}) \o Free({"nodelist"}) \o Keep({"var"}))]
HzipWrites ==
  [HzipWriteMesh |->
     Quiet(Check({"zl"}) \o Open("buffer") \o OpenOr("stream", {"buffer"})
             \o CheckOr({"stream", "buffer"}) \o Free({"stream"}) \o CheckOr({"buffer"})
             \o Keep({"buffer"})),
   HzipWriteNodes |->
     Quiet(Either(Open("nodelist"), Check({"zl"})) \o Open("buffer")
             \o OpenOr("stream", {"nodelist", "buffer"}) \o CheckOr({"stream", "nodelist", "buffer"})
             \o Free({"stream"}) \o CheckOr({"nodelist", "buffer"})
             \o Free({"nodelist"}) \o Keep({"buffer"}))]
RegisterNodelist ==
  Quiet(Maybe(Done) \o Open("zl") \o Maybe(Done) \o Copy({"zlname", "meshname"})
          \o Keep({"zl", "zlname", "meshname"}))

(* the lists of nodes that are kept for compression, by their names *)
KeptName(r) == Maybe(Copy({r}) \o Keep({r}))
LookupNodelist ==
  Quiet(Maybe(Void("db_hdf5_GetDir")) \o Maybe(KeptName("zlname") \o Done)
          \o Maybe(KeptName("meshname") \o Done))
AddMeshnameToNodelist == Quiet(Void("db_hdf5_GetDir") \o KeptName("meshname"))
FreeNodelists ==
  Quiet(Maybe(Void("db_hdf5_GetDir"))
          \o Loop(Own({"meshname", "zlname", "zl"}) \o Free({"meshname", "zlname", "zl"})))
PrepareForZonelistCompression ==
  Quiet(Maybe(Done) \o Void("RegisterNodelist"))
PrepareForUcdmeshCompression ==
  Quiet(Maybe(Done) \o Must("LookupNodelist") \o Void("AddMeshnameToNodelist"))
(* the mesh is read with another read mask, which stays when the mesh has  *)
(* no zones                                                                *)
PrepareForUcdvarDecompression ==
  Quiet(Void("LookupNodelist") \o Loop(Void("db_hdf5_compckz"))
          \o Maybe(Copy({"mask"}) \o Void("db_hdf5_GetUcdmesh")
               \o Maybe(Copy({"um"}) \o Maybe(Void("RegisterNodelist") \o Free({"mask", "um"})))))

(* The compression that a file asks for, as filters of the properties that *)
(* all data sets are created with: none is added twice                     *)
ErrMode == Maybe(Check({"ERRMODE"})) \o Maybe(Check({"MINRATIO"}))
Gzip    == Maybe(Check({"LEVEL", "H5Pset_deflate"}))
Szip    == Maybe(Check({"H5Zget_filter_info"}) \o Maybe(Check({"BLOCK", "H5Pset_szip"})))
Hzip    == Maybe(Check({"CODEC", "BITS"}) \o Check({"H5Pset_filter"}))
Fpzip   == Maybe(Check({"LOSS"}) \o Check({"H5Pset_filter"}))
Zfp     == Maybe(Check({"RATE"}) \o Check({"H5Pset_filter"}))
db_hdf5_set_compression ==
  Plain(Check({"H5Pget_nfilters"}) \o ErrMode
    \o Either(Gzip, Either(Szip, Either(Hzip, Either(Fpzip, Either(Zfp, Refuse))))))

-----------------------------------------------------------------------------
(* Types and spaces of files                                               *)
db_hdf5_get_obj_dsnames ==
  Quiet(Maybe(Brief("o") \o Done)
          \o Maybe(Brief("o") \o Copy({"dsnames"}) \o Keep({"dsnames"}) \o Done)
          \o Open("o") \o OpenOr("attr", {"o"}) \o CheckOr({"o"}) \o Free({"attr"})
          \o Maybe(Maybe(Copy({"attr"}) \o Maybe(Free({"attr"}))) \o Copy({"dsnames"})
                     \o Keep({"dsnames"}))
          \o Free({"o"}))
(* the element type of an array replaces the type itself *)
MemberTypes ==
  [db_hdf5_get_cmemb |->
     Quiet(Open("type") \o Either(Copy({"super"}) \o Keep({"super"}), Keep({"type"}))),
   db_hdf5_put_cmemb |-> Quiet(Maybe(Copy({"type"})) \o Free({"type"}))]
(* one string type at a time, which the next call gives back *)
T_str == Quiet(Check({"s"}) \o Copy({"stype"}) \o Keep({"stype"}))
Spaces ==
  [build_fspace |->
     Quiet(Check({"ndims"}) \o Open("fspace") \o CheckOr({"fspace"}) \o Keep({"fspace"})),
   build_fspace_vals |->
     Quiet(Open("coords") \o Open("fspace") \o CheckOr({"fspace"}) \o Free({"coords"})
             \o Keep({"fspace"}))]
db_hdf5_set_properties ==
  Plain(Maybe(Must("db_hdf5_set_compression")))

hdf5_to_silo_error == Plain(Error)
(* what the driver keeps for the life of the process *)
Library == {"SCALAR", "T_str256", "P_ckcrprops", "P_ckrdprops"}
db_hdf5_init == Quiet(Maybe(Done) \o Copy(Library) \o Keep(Library))
db_hdf5_InitCallbacks == Plain(Void("db_hdf5_init") \o Check({"target"}))
find_objno == Quiet(Check({"H5Gget_objinfo"}) \o Maybe(Copy({"name"}) \o Keep({"name"})))

(* the full name of an object, in a buffer or in one of a ring of copies *)
db_hdf5_fullname == Plain(Maybe(Void("db_hdf5_GetDir")))
Ring == Copy({"cbuf"}) \o Keep({"cbuf"})
db_hdf5_resolvename ==
  Quiet(Maybe(Done) \o Maybe(Ring \o Done) \o Void("db_hdf5_GetDir")
    \o Copy({"parent_objdirname"})
    \o Maybe(Copy({"parent_fullname"}) \o Copy({"child_fullname"}))
    \o Free({"parent_objdirname", "parent_fullname"}) \o Ring \o Free({"child_fullname"}))

(* the header of an object, which is made when it is not there *)
db_hdf5_hdrwr ==
  Protect({"attr", "obj"},
    Copy({"obj"}) \o Check({"H5Tcommit"}) \o Open("attr") \o Check({"H5Awrite"}) \o Free({"attr"})
      \o Open("attr") \o Check({"H5Awrite"}) \o Free({"attr", "obj"}))
(* a member that is a data set; nothing at all is no member *)
db_hdf5_compwrz ==
  Plain(Maybe(Done)
    \o Guard({"dset", "space"},
         Maybe(Must("db_hdf5_compname")) \o Check({"mtype", "ftype"}) \o Open("space")
           \o Must("db_hdf5_set_properties") \o Maybe(Must("db_hdf5_set_compression"))
           \o Open("dset") \o Maybe(Maybe(Void("hdf5_to_silo_error") \o Refuse))
           \o Free({"dset", "space"})))
db_hdf5_compwr == db_hdf5_compwrz

-----------------------------------------------------------------------------
(* Names that stand for a member of an object                              *)
Member == {"type_id", "attr", "stypeid"}
FindMember ==
  Loop(Maybe(Copy({"type_id"}) \o Maybe(Copy({"attr"}) \o Maybe(Copy({"stypeid"})))) \o Free(Member))
(* its value, or that of the data set it names *)
ReadMember ==
  Copy(Member \cup {"mbtype"}) \o Maybe(Copy({"comptype"})) \o Maybe(Copy({"buf"}))
    \o Maybe(Copy({"member_name", "memtype"}) \o Free({"memtype"})
         \o Maybe(Copy({"d", "fspace", "ftype"}) \o Maybe(Error \o Free({"buf"}))
                    \o Free({"d", "fspace", "ftype"})))
    \o Keep({"buf"})
db_hdf5_get_comp_var ==
  Quiet(Copy({"tmpname"}) \o FindMember \o Maybe(ReadMember) \o Free(Member \cup {"tmpname"}))

(* An entry of the table of contents *)
TypeOfEntry ==
  Either(Maybe(Brief("obj")), Maybe(Open("obj") \o Maybe(Copy({"attr"}) \o Maybe(Free({"attr", "obj"})))))
AddEntry == Copy({"name"}) \o Maybe(Copy({"target"})) \o Keep({"name", "target"})
load_toc == Quiet(Check({"sb", "lb"}) \o TypeOfEntry \o Maybe(AddEntry))
db_hdf5_handle_ctdt ==
  Quiet(Loop(Maybe(Copy({"dset"}) \o Free({"dset"})) \o Maybe(Copy({"space"})) \o Void("H5Dcreate")
               \o Copy({"dset"}) \o Void("H5Dwrite") \o Free({"dset"}))
          \o Free({"space"}))
db_hdf5_compname ==
  Protect({"attr"}, Open("attr") \o Check({"nlinks"}) \o Free({"attr"}))
db_hdf5_compckz ==
  Protect({"d", "plist"}, Maybe(Open("d") \o Open("plist") \o Free({"d", "plist"})))
(* a vector of any type, turned into single precision if that is asked for *)
db_hdf5_comprd ==
  Protect({"d", "ftype", "fspace", "buf"},
    Maybe(Open("d") \o Open("fspace") \o Open("ftype") \o Open("buf") \o Check({"H5Dread"})
            \o Free({"d", "ftype", "fspace"})
            \o Maybe(Open("newbuf") \o Free({"buf"})) \o Keep({"buf", "newbuf"})))

-----------------------------------------------------------------------------
(* The access properties of a file, by its set of options                  *)
Props(f) == Call(f) \o Copy({f})
Abort(rs) == Free(rs) \o Refuse

DefaultSet ==
  Either(Props("meta_fapl") \o Props("raw_fapl") \o Free({"meta_fapl", "raw_fapl"}),
  Either(Props("memb_fapl") \o Free({"memb_fapl"}),
         Maybe(Abort({"retval"}))))
(* HDF5 refers to udata from now on, and so does the function's reference  *)
FileImage ==
  CheckOr({"retval"}) \o OpenOr("udata", {"retval"})
SplitDriver ==
  Props("meta_fapl") \o Props("raw_fapl") \o CheckOr({"retval"})
    \o Free({"meta_fapl", "raw_fapl"})
FamilyDriver == Props("memb_fapl") \o Free({"memb_fapl"})
UnbuiltDriver == Abort({"retval"})
(* the list that the application has made is returned, its own is lost *)
UserList == Done
UserSet ==
  CheckOr({"retval"}) \o Maybe(UserList)
    \o Either(FileImage, Either(SplitDriver, Either(FamilyDriver, Maybe(UnbuiltDriver))))
db_hdf5_process_file_options ==
  Plain(Copy({"retval"}) \o Either(DefaultSet, UserSet) \o CheckOr({"retval"})
          \o Keep({"retval"}))

-----------------------------------------------------------------------------
(* Opening and closing                                                     *)
db_hdf5_finish_open ==
  Plain(Own({"fid", "dbfile"}) \o OpenOr("cwg", {"fid", "dbfile"})
          \o OpenOr("link", {"fid", "dbfile"}) \o Maybe(Copy({"attr"}) \o Maybe(Free({"attr"})))
          \o Keep({"fid", "dbfile", "cwg", "link"}))
(* an error gives back the structure and not the file *)
db_hdf5_finish_create ==
  Plain(Own({"fid", "dbfile"}) \o Maybe(Error \o Free({"dbfile"}) \o Refuse) \o Copy({"cwg"})
          \o Maybe(Error \o Free({"dbfile"}) \o Refuse) \o Copy({"link"})
          \o Maybe(Error \o Free({"dbfile"}) \o Refuse) \o Copy({"attr"})
          \o Maybe(Error \o Free({"dbfile"}) \o Refuse) \o Free({"attr"})
          \o Call("db_hdf5_WriteCKZ") \o Maybe(Error \o Free({"dbfile"}) \o Refuse)
          \o Keep({"fid", "dbfile", "cwg", "link"}))
db_hdf5_Open ==
  Plain(Check({"mode"}) \o Must("db_hdf5_process_file_options") \o Copy({"faprops"})
          \o OpenOr("fid", {"faprops"}) \o Free({"faprops"}) \o Open("dbfile")
          \o Copy({"fidp"}) \o Keep({"fid", "dbfile", "fidp"}) \o Call("db_hdf5_finish_open"))
db_hdf5_Create ==
  Plain(Must("db_hdf5_process_file_options") \o Copy({"faprops"})
          \o Maybe(Copy({"fcprops"}) \o Free({"fcprops"})) \o OpenOr("fid", {"faprops"})
          \o Free({"faprops"}) \o Open("dbfile") \o Copy({"fidp"})
          \o Keep({"fid", "dbfile", "fidp"}) \o Call("db_hdf5_finish_create"))
db_hdf5_initiate_close ==
  Plain(Own({"dsettab", "cwg", "link", "cwg_name"}) \o Free({"dsettab"})
          \o Check({"H5Gclose"}) \o Free({"cwg", "link", "cwg_name"})
          \o Maybe(Brief("ooids") \o Refuse))
(* when the file cannot be closed, CLEANUP forgets it *)
db_hdf5_Close ==
  Plain(Own({"fid", "dbfile"})
          \o Guard({"dbfile"}, Must("db_hdf5_initiate_close") \o Check({"H5Fclose"})
                                 \o Free({"fid", "dbfile"})))
(* a failure inside its PROTECT only sets the result *)
db_hdf5_Flush == Quiet(Check({"H5Fflush"}))

-----------------------------------------------------------------------------
(* Directories                                                             *)
db_hdf5_MkDir ==
  Protect({"grp", "dotdot", "parent"},
    Open("grp") \o Copy({"parent", "dotdot"}) \o Check({"H5Glink"})
      \o Free({"grp", "dotdot", "parent"}))
(* the group that was open is given back for the new one *)
db_hdf5_SetDir ==
  Plain(Own({"cwg", "cwg_name"})
    \o Guard({"newdir"}, Open("newdir") \o Check({"newdir"}) \o Free({"cwg"})
               \o Maybe(Copy({"new_cwg_name"}) \o Free({"cwg_name"})))
    \o Keep({"newdir", "new_cwg_name", "cwg", "cwg_name"}))
(* from the group up to the root; only the first name is given back in     *)
(* CLEANUP                                                                 *)
db_hdf5_GetDir ==
  Plain(Maybe(Done)
    \o Guard({"cwg", "parent", "comp[0]"},
         Copy({"cwg"}) \o Check({"cwg"})
           \o Loop(Check({".."}) \o Open("parent") \o Check({"H5Giterate"}) \o Copy({"comp[0]"})
                \o Free({"cwg"}) \o Keep({"parent"}) \o Copy({"cwg"})
                \o Loop(Check({".."}) \o Open("parent") \o Check({"H5Giterate"}) \o More({"comp[i]"})
                          \o Free({"cwg"}) \o Keep({"parent"}) \o Copy({"cwg"})))
           \o Free({"comp[0]", "comp[i]", "cwg"}) \o Copy({"cwg_name"}) \o Keep({"cwg_name"})))

(* The objects of a group are copied one by one by H5Giterate, an object   *)
(* whose members name data sets with the data sets.                        *)
CopyGroup ==
  Maybe(Copy({"obj"}) \o Free({"obj"})
    \o Maybe(Void("db_hdf5_MkDir") \o Void("db_hdf5_SetDir") \o Void("copy_obj")
               \o Void("db_hdf5_SetDir")))
CopyMember ==
  Void("db_hdf5_get_cmemb") \o Copy({"member_type"})
    \o Maybe(Copy({"memname", "mtype"}) \o Void("db_hdf5_put_cmemb")
         \o Either(Void("db_hdf5_compname"),
                   Copy({"srcSubObjName", "dstSubObjName"}) \o Maybe(Void("copy_obj"))
                     \o Free({"srcSubObjName", "dstSubObjName"}))
         \o Free({"memname", "mtype"}))
    \o Free({"member_type"})
copy_obj ==
  Unwind(Maybe(Done) \o
    Either(CopyGroup,
           Open("o") \o Open("attr") \o Check({"silo_type"}) \o Free({"attr"}) \o Open("attr")
             \o Open("atype") \o Open("file_value") \o Open("mem_value") \o Open("bkg")
             \o Check({"H5Aread"}) \o Copy({"s1024"})
             \o Loop(CopyMember) \o Void("db_hdf5_hdrwr")
             \o Free({"atype", "s1024", "attr", "o", "file_value", "mem_value", "bkg"})))
db_hdf5_CpDir ==
  Protect({}, Void("db_hdf5_GetDir") \o Void("db_hdf5_MkDir") \o Void("db_hdf5_SetDir")
                \o Void("copy_obj") \o Void("db_hdf5_SetDir"))
(* dirPresent is given back on an error only *)
db_hdf5_CpListedObjects ==
  Plain(Void("db_hdf5_GetDir")
    \o Guard({"srcAbsName", "dstAbsName", "dirPresent"},
         Copy({"dirPresent"})
           \o Loop(Copy({"srcAbsName", "dstAbsName"})
                \o Maybe(Void("DBInqVarType") \o Copy({"srcBaseName", "dstAbsName2"})
                           \o Free({"dstAbsName", "srcBaseName"}) \o Keep({"dstAbsName2"})
                           \o Copy({"dstAbsName"}))
                \o Void("DBInqVarType")
                \o Either(Void("db_hdf5_CpDir"),
                    Either(Copy({"dname"}) \o Void("DBMkDirP") \o Free({"dname"}),
                           Void("copy_obj")))
                \o Free({"srcAbsName", "dstAbsName"}))))
Symlinks ==
  [db_hdf5_MkSymlink |->
     Protect({"tmp"}, Either(Copy({"tmp"}) \o Check({"H5Lcreate_external"}) \o Free({"tmp"}),
                             Check({"H5Lcreate_soft"}))),
   db_hdf5_getslink |->
     Plain(Maybe(Done) \o Guard({}, Check({"H5Lget_val"}) \o Maybe(Check({"H5Lunpack_elink_val"})))),
   db_hdf5_GetSymlink |-> Plain(Call("db_hdf5_getslink"))]
db_hdf5_NewToc ==
  Quiet(Copy({"toc"}) \o Keep({"toc"}) \o Check({"load_toc"}))

-----------------------------------------------------------------------------
(* Objects and their components                                            *)
db_hdf5_GetComponentType == Plain(Call("db_hdf5_GetComponentStuff"))
db_hdf5_GetComponent     == Plain(Call("db_hdf5_GetComponentStuff"))
(* a component by its name, or an element of one by name and number *)
FindComponent ==
  Loop(Copy({"memb_name"}) \o Maybe(Free({"mnofname"}) \o Copy({"mnofname"})) \o Free({"memb_name"}))
    \o Check({"mno"})
db_hdf5_GetComponentStuff ==
  Protect({"o", "attr", "atype", "ftype", "mtype", "mnofname", "retval"},
    Open("o") \o Open("attr") \o Open("atype") \o FindComponent \o Must("db_hdf5_get_cmemb") \o Copy({"ftype"})
      \o Either(Maybe(Copy({"mtype"}) \o Call("db_hdf5_put_cmemb")
                       \o Maybe(Either(Copy({"dset"}) \o Call("db_hdf5_comprd") \o Copy({"retval"})
                                         \o Free({"dset"}),
                                       Copy({"retval"})))),
                Check({"datatype"})
                  \o Maybe(Open("retval") \o Copy({"mtype"}) \o Void("db_hdf5_put_cmemb")
                       \o Check({"H5Aread"})
                       \o Maybe(Open("newretval") \o Free({"retval"}) \o Keep({"newretval"}))))
      \o Free({"mnofname", "o", "attr", "atype", "ftype", "mtype"}) \o Keep({"retval"}))
(* names that are not asked for: the array is given back and what is in it is not *)
db_hdf5_GetComponentNames ==
  Quiet(Must("db_hdf5_GetObject") \o Copy({"obj", "comp_names", "pdb_names", "names[i]"})
          \o Either(Keep({"comp_names", "names[i]"}), Free({"comp_names"}))
          \o Either(Keep({"pdb_names"}), Free({"pdb_names"})) \o Free({"obj"}))
SizeOfComponent == Either(Check({"pdb_names"}), Copy({"_f_ary"}) \o Free({"_f_ary"}))
InsertComponent ==
  Either(Check({"H5Tinsert"}),
  Either(Check({"len"}) \o Copy({"str_type"}) \o Check({"H5Tinsert"}) \o Free({"str_type"}),
         Copy({"_m_ary", "_f_ary"}) \o Check({"H5Tinsert"}) \o Free({"_m_ary", "_f_ary"})))
db_hdf5_WriteObject ==
  Protect({"mtype", "ftype", "object"},
    Loop(SizeOfComponent) \o Check({"msize"}) \o Open("object") \o Open("mtype") \o Open("ftype")
      \o Loop(InsertComponent) \o Must("db_hdf5_hdrwr") \o Free({"mtype", "ftype", "object"}))
(* a small member goes into the object; whether the array of any other     *)
(* could be written is not looked at                                       *)
db_hdf5_WriteComponent ==
  Plain(Maybe(Check({"i"}) \o Copy({"h5_names[i]"}) \o Keep({"h5_names[i]"}) \o Check({"h5_offs"})
                \o Void("DBAddVarComponent") \o Done)
          \o Void("db_hdf5_compwr") \o Void("DBAddVarComponent"))
(* everything but the members is given back on an error *)
GetMember ==
  Void("db_hdf5_get_cmemb") \o Copy({"member_type", "name", "mtype"})
    \o Maybe(Maybe(Copy({"h5str"})) \o Void("db_hdf5_put_cmemb")
                \o Void("DBAddIntComponent") \o Free({"h5str"}))
    \o Free({"name", "mtype", "member_type"})
db_hdf5_GetObject ==
  Protect({"atype", "h5str", "attr", "o", "file_value", "mem_value", "bkg"},
    Open("o") \o Open("attr") \o Check({"silo_type"}) \o Free({"attr"}) \o Open("attr")
      \o Open("atype") \o Open("file_value") \o Open("mem_value") \o Open("bkg")
      \o Check({"H5Aread"}) \o Must("DBMakeObject") \o Copy({"obj"})
      \o Loop(GetMember) \o Free({"atype", "attr", "o", "file_value", "mem_value", "bkg"}) \o Keep({"obj"}))

-----------------------------------------------------------------------------
(* Objects.  STRUCT ... OUTPUT makes the types of an object's header in    *)
(* memory and in the file, which the jump of db_hdf5_hdrwr passes.         *)
STRUCT_OUTPUT ==
  Copy({"_mt", "_ft"}) \o Maybe(Copy({"_m_ary", "_f_ary"}) \o Free({"_m_ary", "_f_ary"}))
    \o Void("db_hdf5_hdrwr") \o Free({"_mt", "_ft"})
(* the header of an object that is there, of the right type *)
Header ==
  Open("attr") \o Check({"silo_type"}) \o Free({"attr"}) \o Open("attr") \o Check({"H5Aread"})
    \o Free({"attr"})
db_hdf5_PutZonelist == Plain(Void("db_hdf5_PutZonelist2"))

(* An object's members are written one by one, lists of strings as a copy  *)
(* of their own that only some give back in CLEANUP.                       *)
PutArray(rs) == Copy(rs) \o Void("db_hdf5_compwr") \o Free(rs)
Writes(kept, passed) ==
  Protect(kept, Maybe(PutArray(kept)) \o Void("db_hdf5_compwr")
                    \o Maybe(Void("db_hdf5_handle_ctdt")) \o Maybe(PutArray(passed)) \o STRUCT_OUTPUT)
PutPlain  == {"db_hdf5_PutCurve", "db_hdf5_PutUcdsubmesh", "db_hdf5_PutFacelist"}
PutKeeps  == {"db_hdf5_PutMaterial", "db_hdf5_PutMultivar", "db_hdf5_PutCompoundarray"}
PutPasses == {"db_hdf5_PutCsgmesh", "db_hdf5_PutCsgvar", "db_hdf5_PutCSGZonelist",
              "db_hdf5_PutDefvars", "db_hdf5_PutQuadmesh", "db_hdf5_PutQuadvar",
              "db_hdf5_PutUcdmesh", "db_hdf5_PutUcdvar", "db_hdf5_PutZonelist2",
              "db_hdf5_PutPHZonelist", "db_hdf5_PutMatspecies", "db_hdf5_PutMultimesh",
              "db_hdf5_PutMultimat", "db_hdf5_PutMultimatspecies", "db_hdf5_PutPointmesh",
              "db_hdf5_PutPointvar", "db_hdf5_PutGroupelmap", "db_hdf5_PutMrgvar"}
(* An object's members are read one by one into what CLEANUP gives back,   *)
(* but with a return for want of memory no CLEANUP is carried out.         *)
Reads(freed) ==
  Protect({"attr", "o"} \cup freed,
    Open("o") \o Header \o Maybe(Done) \o Copy({"object"}) \o Maybe(Void("db_hdf5_GetVarType"))
      \o Void("db_hdf5_comprd") \o Free({"o"}) \o Keep({"object"}))
GetFrees  == {"db_hdf5_GetCurve", "db_hdf5_GetCsgvar", "db_hdf5_GetCSGZonelist",
              "db_hdf5_GetDefvars", "db_hdf5_GetQuadmesh", "db_hdf5_GetQuadvar",
              "db_hdf5_GetUcdvar", "db_hdf5_GetFacelist", "db_hdf5_GetZonelist",
              "db_hdf5_GetPHZonelist", "db_hdf5_GetMaterial", "db_hdf5_GetMatspecies",
              "db_hdf5_GetMultimesh", "db_hdf5_GetMultivar", "db_hdf5_GetMultimat",
              "db_hdf5_GetMultimatspecies", "db_hdf5_GetPointmesh", "db_hdf5_GetPointvar",
              "db_hdf5_GetCompoundarray"}
GetPasses == {"db_hdf5_GetCsgmesh"}
db_hdf5_GetGroupelmap ==
  Protect({"attr", "o", "intArray", "fracsArray"},
    Open("o") \o Header \o Copy({"gm"}) \o Void("db_hdf5_GetVarType")
      \o Void("db_hdf5_comprd") \o Copy({"intArray"}) \o Free({"intArray"})
      \o Void("db_hdf5_comprd")
      \o Maybe(Copy({"intArray"}) \o Void("db_hdf5_comprd") \o Copy({"fracsArray"}))
      \o Free({"intArray", "fracsArray", "o"}) \o Keep({"gm"}))
db_hdf5_GetMrgvar ==
  Protect({"attr", "o", "mrgv"},
    Open("o") \o Header \o Copy({"mrgv"}) \o Void("db_hdf5_GetVarType") \o Check({"ncomps"})
      \o Void("db_hdf5_comprd") \o Free({"o"}) \o Keep({"mrgv"}))
db_hdf5_FreeCompressionResources == Quiet(Void("FreeNodelists"))

(* the lists of every neighbour, each in its part of one data set *)
PutPart ==
  Must("build_fspace") \o Copy({"fspace"}) \o Open("mspace") \o Check({"H5Dwrite"})
    \o Free({"fspace", "mspace"})
NewAdjacency ==
  Void("db_hdf5_compwr") \o Maybe(Must("db_hdf5_compwr")) \o Void("db_hdf5_handle_ctdt")
    \o STRUCT_OUTPUT
db_hdf5_PutMultimeshadj ==
  Protect({},
    Either(Copy({"o"}) \o Header \o Free({"o"}), NewAdjacency)
      \o Maybe(Open("nldset")) \o Maybe(Open("zldset"))
      \o Loop(Maybe(PutPart)) \o Free({"nldset", "zldset"}))
(* every other error gives back the object and the offsets, and CLEANUP    *)
(* the object once more                                                    *)
Offsets == {"offsetmap", "offsetmapn", "offsetmapz"}
GetPart ==
  Copy({"list"}) \o Maybe(Free(Offsets \cup {"mmadj"}) \o Error \o Refuse)
    \o Copy({"fspace"}) \o Maybe(Free(Offsets \cup {"mmadj"}) \o Error \o Refuse)
    \o Copy({"mspace"}) \o Maybe(Free(Offsets \cup {"mmadj"}) \o Error \o Refuse)
    \o Free({"fspace", "mspace"}) \o Keep({"list"})
db_hdf5_GetMultimeshadj ==
  Protect({"attr", "o", "mmadj"},
    Open("o") \o Header \o Maybe(Done) \o Copy({"mmadj"}) \o Void("db_hdf5_comprd")
      \o Copy(Offsets) \o Maybe(Open("nldset")) \o Maybe(Open("zldset"))
      \o Loop(GetPart) \o Free(Offsets \cup {"nldset", "zldset", "o"}) \o Keep({"mmadj"}))

(* a mesh and the objects that it names; a jump passes what is read so far *)
db_hdf5_GetUcdmesh ==
  Protect({"attr", "o"},
    Open("o") \o Header \o Maybe(Done) \o Copy({"um"}) \o Void("db_hdf5_GetVarType")
      \o Maybe(Copy({"calledFromGetUcdmesh"}) \o Void("db_hdf5_GetZonelist")
                  \o Free({"calledFromGetUcdmesh"}))
      \o Void("db_hdf5_comprd") \o Copy({"tmpannums"}) \o Free({"tmpannums"})
      \o Maybe(Void("db_hdf5_GetFacelist")) \o Maybe(Void("db_hdf5_GetPHZonelist"))
      \o Free({"o"}) \o Keep({"um"}))

(* The nodes of a tree, one array for each of their members *)
PutStrings  == Copy({"strArray", "s"}) \o Void("db_hdf5_compwr") \o Free({"s", "strArray"})
PutNodes ==
  PutArray({"intArray"}) \o PutStrings \o Maybe(PutStrings) \o PutStrings
    \o Maybe(PutArray({"intArray"}) \o PutArray({"intArray"}) \o PutArray({"intArray"}))
    \o Maybe(PutArray({"intArray"}))
db_hdf5_PutMrgtree ==
  Protect({"ltree", "intArray", "strArray", "s"},
    Copy({"ltree"}) \o PutNodes \o Free({"ltree"})
      \o Maybe(PutArray({"s"})) \o Maybe(PutArray({"s"})) \o STRUCT_OUTPUT)
(* what a node or the tree points to is out of reach once the array of     *)
(* nodes and the tree are given back                                       *)
GetArray == Void("db_hdf5_comprd") \o Copy({"intArray"}) \o More({"ltree[i]->ints"}) \o Free({"intArray"})
GetStrings ==
  Void("db_hdf5_comprd") \o Copy({"s", "strArray"}) \o More({"ltree[i]->names"})
    \o Free({"s", "strArray"})
GetNames == Void("db_hdf5_comprd") \o Copy({"s"}) \o More({"tree->names"}) \o Free({"s"})
GetNodes ==
  GetArray \o GetStrings \o GetStrings \o GetStrings \o GetArray \o GetArray \o GetArray \o GetArray
db_hdf5_GetMrgtree ==
  Protect({"attr", "o", "strArray", "intArray", "ltree", "tree", "s"},
    Open("o") \o Header \o Copy({"tree", "tree->names", "ltree", "ltree[i]"})
      \o GetNodes \o GetNames \o GetNames
      \o Free({"o", "ltree"})
      \o Keep({"tree", "tree->names", "ltree[i]", "ltree[i]->ints", "ltree[i]->names"}))

(* an attribute that cannot be read stays open *)
db_hdf5_InqVarType ==
  Protect({"attr", "o"},
    Maybe(Copy({"o"}) \o Maybe(Copy({"attr"}) \o Maybe(Free({"attr"}))) \o Free({"o"})))
(* the name under either of two keys; the header has one of them *)
db_hdf5_InqMeshName ==
  Plain(Loop(Guard({"attr", "type", "str_type", "o"},
    Open("str_type") \o Open("type") \o Must("db_hdf5_put_cmemb") \o Open("o") \o Open("attr")
      \o Check({"H5Aread"}) \o Free({"attr", "type", "str_type", "o"}))))
(* a data set without an address, a chunked one, stays open *)
db_hdf5_SortObjectsByOffset ==
  Quiet(Copy({"iop"}) \o Loop(Maybe(Copy({"dsid"}) \o Maybe(Free({"dsid"})))) \o Free({"iop"}))

-----------------------------------------------------------------------------
(* Variables.  A name that is not a data set may be that of a member.      *)
GetCompVar == Must("db_hdf5_get_comp_var")
db_hdf5_InqVarExists == Quiet(Check({"status"}))
VarLengths ==
  [db_hdf5_GetVarLength |->
     Protect({"dset", "space"},
       Either(Copy({"dset"}) \o Open("space") \o Free({"dset", "space"}), GetCompVar)),
   (* an error ends here, and the answer is -1 *)
   db_hdf5_get_var_byte_length |->
     Protect({"ftype", "space", "dset"},
       Either(Copy({"dset"}) \o Open("ftype") \o Check({"mtype"}) \o Open("space")
                \o Check({"nbytes_small"}) \o Free({"ftype", "space", "dset"}),
              GetCompVar)),
   db_hdf5_GetVarByteLength |-> Plain(Call("db_hdf5_get_var_byte_length")),
   db_hdf5_GetVarByteLengthInFile |-> Plain(Call("db_hdf5_get_var_byte_length"))]
(* the type of a member is not given back *)
VarShapes ==
  [db_hdf5_GetVarType |->
     Plain(Maybe(Done)
       \o Guard({"dset", "ftype"},
            Either(Copy({"dset"}) \o Open("ftype") \o Free({"dset", "ftype"}),
                   GetCompVar \o Copy({"ftype"})))),
   db_hdf5_GetVarDims |->
     Protect({"space", "dset"},
       Open("dset") \o Open("space") \o Check({"ndims"}) \o Free({"space", "dset"}))]
db_hdf5_GetVar ==
  Protect({"dset", "ftype", "space", "result"},
    Either(Copy({"dset"}) \o Open("ftype") \o Open("space") \o Check({"mtype"})
             \o Maybe(Open("result") \o Check({"H5Dread"})) \o Free({"dset", "ftype", "space"}),
           GetCompVar \o Copy({"result"}))
      \o Keep({"result"}))
db_hdf5_ReadVar ==
  Protect({"dset", "ftype"},
    Either(Copy({"dset"}) \o Open("ftype") \o Check({"mtype", "H5Dread"}) \o Free({"dset", "ftype"}),
           GetCompVar))
db_hdf5_ReadVarSlice ==
  Protect({"dset", "ftype", "fspace", "mspace"},
    Open("dset") \o Open("ftype") \o Check({"mtype"}) \o Must("build_fspace") \o Copy({"fspace"})
      \o Open("mspace") \o Check({"H5Dread"}) \o Free({"dset", "ftype", "fspace", "mspace"}))
(* the first data set is opened once more; no data sets is a return that   *)
(* leaves the frame behind                                                 *)
db_hdf5_ReadVarVals ==
  Protect({"dset", "ftype", "fspace", "mspace"},
    Must("db_hdf5_get_obj_dsnames") \o Copy({"dsnames"}) \o Maybe(Done)
      \o Open("dset") \o Open("ftype") \o Check({"mtype"}) \o Must("build_fspace_vals")
      \o Copy({"fspace"}) \o Open("mspace") \o Maybe(Open("result"))
      \o Loop(Open("dset") \o Check({"H5Dread"}) \o Free({"dset"}))
      \o Free({"ftype", "fspace", "mspace"}) \o Keep({"result"}))
db_hdf5_Write == Plain(Call("db_hdf5_WriteCKZ"))
db_hdf5_WriteCKZ ==
  Protect({"dset", "space", "dset_type"},
    Check({"mtype", "ftype"})
      \o Either(Copy({"dset", "space"}) \o Check({"ndims", "dims"}),
                Open("space") \o Maybe(Must("db_hdf5_set_properties")) \o Open("dset"))
      \o Open("dset_type") \o Check({"fclass", "mclass"}) \o Free({"dset_type"})
      \o Check({"mclass", "H5Dwrite"}) \o Free({"dset", "space"}))
db_hdf5_WriteSlice ==
  Protect({"dset", "fspace", "mspace"},
    Check({"mtype", "ftype"})
      \o Either(Copy({"dset", "fspace"}) \o Check({"ndims", "dims"}),
                Open("fspace") \o Must("db_hdf5_set_properties") \o Open("dset"))
      \o Free({"fspace"}) \o Check({"offset", "length"})
      \o Must("build_fspace") \o Copy({"fspace"}) \o Open("mspace") \o Check({"H5Dwrite"})
      \o Free({"dset", "fspace", "mspace"}))

-----------------------------------------------------------------------------
Hdf5 ==
  [RegisterNodelist |-> RegisterNodelist, LookupNodelist |-> LookupNodelist,
   AddMeshnameToNodelist |-> AddMeshnameToNodelist, FreeNodelists |-> FreeNodelists,
   PrepareForZonelistCompression |-> PrepareForZonelistCompression,
   PrepareForUcdmeshCompression |-> PrepareForUcdmeshCompression,
   PrepareForUcdvarDecompression |-> PrepareForUcdvarDecompression,
   db_hdf5_set_compression |-> db_hdf5_set_compression,
   db_hdf5_get_obj_dsnames |-> db_hdf5_get_obj_dsnames, T_str |-> T_str,
   db_hdf5_set_properties |-> db_hdf5_set_properties,
   hdf5_to_silo_error |-> hdf5_to_silo_error, db_hdf5_init |-> db_hdf5_init,
   db_hdf5_InitCallbacks |-> db_hdf5_InitCallbacks, find_objno |-> find_objno,
   db_hdf5_fullname |-> db_hdf5_fullname, db_hdf5_resolvename |-> db_hdf5_resolvename,
   db_hdf5_hdrwr |-> db_hdf5_hdrwr, db_hdf5_compwrz |-> db_hdf5_compwrz,
   db_hdf5_compwr |-> db_hdf5_compwr, db_hdf5_get_comp_var |-> db_hdf5_get_comp_var,
   load_toc |-> load_toc, db_hdf5_handle_ctdt |-> db_hdf5_handle_ctdt,
   db_hdf5_compname |-> db_hdf5_compname, db_hdf5_compckz |-> db_hdf5_compckz,
   db_hdf5_comprd |-> db_hdf5_comprd,
   db_hdf5_process_file_options |-> db_hdf5_process_file_options,
   db_hdf5_finish_open |-> db_hdf5_finish_open,
   db_hdf5_finish_create |-> db_hdf5_finish_create, db_hdf5_Open |-> db_hdf5_Open,
   db_hdf5_Create |-> db_hdf5_Create, db_hdf5_initiate_close |-> db_hdf5_initiate_close,
   db_hdf5_Close |-> db_hdf5_Close, db_hdf5_Flush |-> db_hdf5_Flush,
   db_hdf5_MkDir |-> db_hdf5_MkDir, db_hdf5_SetDir |-> db_hdf5_SetDir,
   db_hdf5_GetDir |-> db_hdf5_GetDir, copy_obj |-> copy_obj,
   db_hdf5_CpDir |-> db_hdf5_CpDir, db_hdf5_CpListedObjects |-> db_hdf5_CpListedObjects,
   db_hdf5_NewToc |-> db_hdf5_NewToc,
   db_hdf5_GetComponentType |-> db_hdf5_GetComponentType,
   db_hdf5_GetComponent |-> db_hdf5_GetComponent,
   db_hdf5_GetComponentStuff |-> db_hdf5_GetComponentStuff,
   db_hdf5_GetComponentNames |-> db_hdf5_GetComponentNames,
   db_hdf5_WriteObject |-> db_hdf5_WriteObject,
   db_hdf5_WriteComponent |-> db_hdf5_WriteComponent,
   db_hdf5_GetObject |-> db_hdf5_GetObject, db_hdf5_PutZonelist |-> db_hdf5_PutZonelist,
   db_hdf5_GetGroupelmap |-> db_hdf5_GetGroupelmap,
   db_hdf5_GetMrgvar |-> db_hdf5_GetMrgvar,
   db_hdf5_FreeCompressionResources |-> db_hdf5_FreeCompressionResources,
   db_hdf5_PutMultimeshadj |-> db_hdf5_PutMultimeshadj,
   db_hdf5_GetMultimeshadj |-> db_hdf5_GetMultimeshadj,
   db_hdf5_GetUcdmesh |-> db_hdf5_GetUcdmesh, db_hdf5_PutMrgtree |-> db_hdf5_PutMrgtree,
   db_hdf5_GetMrgtree |-> db_hdf5_GetMrgtree, db_hdf5_InqVarType |-> db_hdf5_InqVarType,
   db_hdf5_InqMeshName |-> db_hdf5_InqMeshName,
   db_hdf5_SortObjectsByOffset |-> db_hdf5_SortObjectsByOffset,
   db_hdf5_InqVarExists |-> db_hdf5_InqVarExists, db_hdf5_GetVar |-> db_hdf5_GetVar,
   db_hdf5_ReadVar |-> db_hdf5_ReadVar, db_hdf5_ReadVarSlice |-> db_hdf5_ReadVarSlice,
   db_hdf5_ReadVarVals |-> db_hdf5_ReadVarVals, db_hdf5_Write |-> db_hdf5_Write,
   db_hdf5_WriteCKZ |-> db_hdf5_WriteCKZ, db_hdf5_WriteSlice |-> db_hdf5_WriteSlice]
  @@ Fpzips @@ HzipReads @@ HzipWrites @@ MemberTypes @@ Spaces @@ Symlinks @@
     VarLengths @@ VarShapes

Hdf5Steps ==
  Hdf5 @@ [f \in PutPlain |-> Writes({}, {})] @@ [f \in PutKeeps |-> Writes({"s"}, {})]
       @@ [f \in PutPasses |-> Writes({"s"}, {"tmp"})]
       @@ [f \in GetFrees |-> Reads({"object"})] @@ [f \in GetPasses |-> Reads({})]
Hdf5Lost ==
  [HzipReadNodes |-> {"nodelist"}, HzipWriteNodes |-> {"nodelist"},
   RegisterNodelist |-> {"zl"}, PrepareForUcdvarDecompression |-> {"mask", "um"},
   db_hdf5_get_obj_dsnames |-> {"attr"}, db_hdf5_get_cmemb |-> {"type"},
   build_fspace_vals |-> {"coords"},
   db_hdf5_get_comp_var |-> {"comptype", "mbtype", "member_name"},
   load_toc |-> {"attr", "obj"}, db_hdf5_handle_ctdt |-> {"space"},
   db_hdf5_process_file_options |-> {"meta_fapl", "raw_fapl", "retval", "udata"},
   db_hdf5_finish_open |-> {"attr", "cwg"},
   db_hdf5_finish_create |-> {"attr", "cwg", "fid", "link"},
   db_hdf5_Open |-> {"fid"}, db_hdf5_Create |-> {"fid"},
   db_hdf5_initiate_close |-> {"cwg", "cwg_name", "link"},
   db_hdf5_Close |-> {"fid"}, db_hdf5_SetDir |-> {"cwg", "cwg_name"},
   db_hdf5_GetDir |-> {"comp[0]", "comp[i]"},
   db_hdf5_CpListedObjects |-> {"dirPresent", "dname"},
   db_hdf5_GetComponentStuff |-> {"dset"},
   db_hdf5_GetComponentNames |-> {"names[i]"},
   db_hdf5_WriteObject |-> {"_f_ary", "_m_ary", "str_type"},
   db_hdf5_GetObject |-> {"member_type", "mtype", "name", "obj"},
   db_hdf5_GetGroupelmap |-> {"gm"}, db_hdf5_PutMultimeshadj |-> {"_ft", "_mt",
   "attr", "fspace", "mspace", "nldset", "o", "zldset"},
   db_hdf5_GetMultimeshadj |-> {"frame", "fspace", "list", "mspace", "nldset", "o",
   "offsetmap", "offsetmapn", "offsetmapz", "zldset"},
   db_hdf5_GetUcdmesh |-> {"calledFromGetUcdmesh", "frame", "o", "um"},
   db_hdf5_PutMrgtree |-> {"_ft", "_mt"}, db_hdf5_GetMrgtree |-> {"ltree[i]",
   "ltree[i]->ints", "ltree[i]->names", "tree->names"},
   db_hdf5_InqVarType |-> {"attr"}, db_hdf5_SortObjectsByOffset |-> {"dsid"},
   db_hdf5_GetVarType |-> {"ftype"},
   db_hdf5_ReadVarVals |-> {"dset", "dsnames", "frame", "result"}]
  @@ [f \in PutPlain |-> {"_ft", "_mt"}]
  @@ [f \in PutKeeps |-> {"_ft", "_mt"}]
  @@ [f \in PutPasses |-> {"_ft", "_mt", "tmp"}]
  @@ [f \in GetFrees |-> {"frame", "o"}]
  @@ [f \in GetPasses |-> {"frame", "o", "object"}]
Hdf5Silent ==
  {"db_hdf5_CpListedObjects", "HzipReadMesh", "PrepareForUcdvarDecompression",
   "PrepareForZonelistCompression", "copy_obj", "db_hdf5_GetObject",
   "db_hdf5_WriteComponent", "db_hdf5_handle_ctdt"}
=============================================================================
