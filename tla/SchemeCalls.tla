----------------------------- MODULE SchemeCalls -----------------------------
(* Functions around the drivers: name schemes (src/src/silo/silo_ns.c),    *)
(* arrays in JSON objects (silo_json.c), external faces (extface.c) and    *)
(* the memory images that HDF5 opens as files (hdf5_drv/silo_hdf5.c).      *)
EXTENDS CallSteps, TLC

(* The operating system; what it fails to do it says *)
System == {"open", "write"}

-----------------------------------------------------------------------------
(* Expressions.  A node that finds both places of the tree taken goes on   *)
(* top of it; a subexpression that does so is dropped.                     *)
Trees ==
  [FreeTree |-> Quiet(Own({"tree"}) \o Free({"tree"})),
   UpdateTree |-> Quiet(Copy({"newnode"}) \o Maybe(Done) \o Keep({"newnode"}))]
Operand    == Void("UpdateTree")

TreeBuilding ==
  [BuildExprTree |->
     Quiet(Loop(Either(Operand,
                       Either(Void("BuildExprTree") \o Copy({"subtree"}) \o Maybe(Keep({"subtree"})),
                              Operand \o Void("BuildExprTree") \o Void("BuildExprTree") \o Operand)))),
   (* Two rings: of the name schemes inside a name scheme, and of the names   *)
   (* that have been returned                                                 *)
   SaveInternalString |-> Quiet(Maybe(Void("DBFreeNamescheme")) \o Void("DBMakeNamescheme"))]
TreeValues ==
  [EvalExprTree |-> Quiet(Maybe(Void("EvalExprTree") \o Maybe(Void("EvalExprTree"))) \o Maybe(Void("SaveInternalString"))),
   SaveReturnedString |->
     Quiet(Own({"retstrbuf"}) \o Free({"retstrbuf"}) \o Maybe(Done)
       \o Copy({"retstrbuf"}) \o Keep({"retstrbuf"}))]

(* An array that the expressions refer to comes from the caller, or from a *)
(* file; one of strings is one string there.                               *)
NoScheme == Free({"rv"}) \o Refuse
ArrayOfFile ==
  Copy({"arrnm"}) \o Void("DBInqVarExists") \o Maybe(Void("DBGetVar"))
    \o Either(Void("DBGetVarType") \o Maybe(Void("DBStringListToStringArray")), NoScheme)
    \o Free({"arrnm"})
DBMakeNamescheme ==
  Direct(Check({"fmt"}) \o Either(Dies, Copy({"rv"}))
    \o CheckOr({"rv"})
    \o Maybe(Keep({"rv"}) \o Done)
    \o CheckOr({"rv"})
    \o Loop(CheckOr({"rv"}) \o Maybe(ArrayOfFile))
    \o CheckOr({"rv"}) \o CheckOr({"rv"})
    \o Keep({"rv"}))

SchemeUses ==
  [DBGetName |->
     Quiet(Maybe(Void("SaveReturnedString") \o Done) \o Maybe(Done)
       \o Loop(Copy({"tmpExpr"}) \o Void("BuildExprTree") \o Copy({"exprtree"})
                 \o Void("EvalExprTree") \o Void("FreeTree") \o Free({"exprtree"})
                 \o Maybe(Void("DBGetName")) \o Free({"tmpExpr"}))
       \o Void("SaveReturnedString")),
   DBGetIndex |-> Quiet(Void("DBGetName") \o Check({"name_str"})),
   DBSPrintf |-> Quiet(Void("SaveReturnedString"))]

-----------------------------------------------------------------------------
(* Arrays in JSON objects: an extptr is an object that has the address of  *)
(* its array, which the object owns, as a string                           *)
ExtptrMembers == {"ptr", "datatype", "ndims", "dims"}
json_object_extptr_delete ==
  Quiet(Void("json_object_get_extptr_ptr") \o Own({"extptr", "jso"}) \o Free({"extptr", "jso"}))

JsonPointers ==
  [json_object_new_strptr |-> Quiet(Copy({"string"}) \o Keep({"string"})),
   json_object_get_strptr |-> Quiet(Maybe(Dies) \o Check({"strptr"})),
   json_object_new_extptr |->
     Quiet(Copy({"jobj", "jarr"}) \o Loop(Copy({"dim"}) \o Keep({"dim"}))
       \o Void("json_object_new_strptr") \o Keep({"jobj", "jarr"})),
   json_object_is_extptr |-> Quiet(Check(ExtptrMembers)),
   json_object_get_extptr_ndims |-> Quiet(Check(ExtptrMembers)),
   json_object_get_extptr_datatype |-> Quiet(Check(ExtptrMembers)),
   json_object_get_extptr_dims_idx |-> Quiet(Check(ExtptrMembers)),
   json_object_get_extptr_ptr |-> Quiet(Check(ExtptrMembers) \o Call("json_object_get_strptr")),
   (* One buffer: the text of the object, then the arrays it refers to *)
   json_object_to_binary_buf |->
     Quiet(Copy({"pb", "buf"})
       \o Loop(Copy({"extptr_obj"}) \o Void("json_object_get_strptr") \o Free({"extptr_obj"}))
       \o Maybe(Keep({"buf"})) \o Free({"pb"}))]
JsonFiles ==
  [json_object_from_binary_buf_recurse |->
     Quiet(Loop(Either(Copy({"p", "ptr"}) \o Keep({"p", "ptr"}), Void("json_object_from_binary_buf_recurse")))),
   json_object_from_binary_buf |->
     Quiet(Either(Dies, Copy({"retval"})) \o Void("json_object_from_binary_buf_recurse") \o Keep({"retval"})),
   json_object_from_binary_file |->
     Quiet(Check({"filename"}) \o Open("fd") \o Copy({"buf"}) \o CheckOr({"buf"})
       \o Free({"fd"}) \o Void("json_object_from_binary_buf") \o Free({"buf"})),
   json_object_to_binary_file |->
     Quiet(Void("json_object_to_binary_buf") \o Copy({"buf"})
       \o Void("open") \o Copy({"fd"}) \o Void("write") \o Free({"fd", "buf"}))]

(* Objects that came as text get their arrays back, after all members have *)
(* been looked at                                                          *)
json_object_reconstitute_extptrs ==
  Quiet(Loop(Maybe(Void("json_object_reconstitute_extptrs")))
    \o Loop(Copy({"mname"}) \o Copy({"dims"}) \o Copy({"pdata"})
              \o Void("json_object_new_extptr") \o Keep({"pdata"}) \o Free({"mname"})))

-----------------------------------------------------------------------------
(* External faces: a face that two zones share is in the table while one   *)
(* of them has been met                                                    *)
AllocFace  == Quiet(Copy({"face"}) \o Keep({"face"}))
FaceLists ==
  [FreeFace |-> Quiet(Own({"nodes", "face"}) \o Free({"nodes", "face"})),
   InsertFace |->
     Quiet(Either(Void("FreeFace"), Void("AllocFace") \o Copy({"nodes"}) \o Keep({"nodes"})))]
FormFaceList ==
  Quiet(Loop(Maybe(Void("FreeFace"))) \o Own({"table"}) \o Free({"table"})
    \o Maybe(Copy({"shapesize", "shapecnt", "nodelist", "zoneno"}))
    \o Loop(Void("FreeFace"))
    \o Either(Dies, Copy({"fl"}))
    \o Keep({"fl", "shapesize", "shapecnt", "nodelist", "zoneno"}))
CalcExternalFaces ==
  Quiet(Copy({"table"}) \o Loop(Void("InsertFace")) \o Keep({"table"}) \o Void("FormFaceList"))
DBCalcExternalFacelist ==
  Quiet(Copy({"shapeType"}) \o Void("CalcExternalFaces") \o Free({"shapeType"}))
DBCalcExternalFacelist2 == Quiet(Void("CalcExternalFaces"))

-----------------------------------------------------------------------------
(* Images: HDF5 asks for memory, copies and frees, and gets the buffer of  *)
(* the application each time.  The last one that refers to it frees it.    *)
Image == {"udata", "flags", "size", "fapl_image_ptr", "vfd_image_ptr", "ref_count"}
image_malloc == Quiet(Check(Image \cup {"app_image_ptr"}) \o Copy({"reference"}) \o Keep({"reference"}))
ImageCopies ==
  [image_memcpy |-> Quiet(Check(Image \cup {"dest", "src"})),
   image_realloc |->
     Quiet(Check(Image) \o Own({"vfd_image_ptr"}) \o Check({"realloc"}) \o Keep({"vfd_image_ptr"}))]
ImageUses ==
  [image_free |->
     Quiet(Check(Image) \o Own({"reference"}) \o Free({"reference"})
       \o Maybe(Own({"app_image_ptr"}) \o Free({"app_image_ptr"}))),
   udata_copy |-> Quiet(Check({"flags", "ref_count"}) \o Copy({"reference"}) \o Keep({"reference"})),
   udata_free |->
     Quiet(Check({"flags", "ref_count"}) \o Own({"reference"}) \o Free({"reference"})
       \o Maybe(Own({"udata"}) \o Free({"udata"})))]

-----------------------------------------------------------------------------
Scheme ==
  [DBMakeNamescheme |-> DBMakeNamescheme,
   json_object_extptr_delete |-> json_object_extptr_delete,
   json_object_reconstitute_extptrs |-> json_object_reconstitute_extptrs,
   AllocFace |-> AllocFace, FormFaceList |-> FormFaceList,
   CalcExternalFaces |-> CalcExternalFaces,
   DBCalcExternalFacelist |-> DBCalcExternalFacelist,
   DBCalcExternalFacelist2 |-> DBCalcExternalFacelist2, image_malloc |-> image_malloc]
  @@ ImageCopies @@ ImageUses @@ FaceLists @@ JsonPointers @@ JsonFiles @@ Trees @@
     TreeBuilding @@ TreeValues @@ SchemeUses

SchemeLost ==
  [UpdateTree |-> {"newnode"}, BuildExprTree |-> {"subtree"},
   DBMakeNamescheme |-> {"arrnm"}, json_object_to_binary_buf |-> {"buf"},
   json_object_from_binary_file |-> {"fd"},
   json_object_reconstitute_extptrs |-> {"dims"},
   image_realloc |-> {"vfd_image_ptr"}]
SchemeSilent ==
  {"DBMakeNamescheme", "SaveInternalString", "json_object_extptr_delete",
   "json_object_to_binary_buf", "json_object_to_binary_file"}
=============================================================================
