----------------------------- MODULE ApiChecks -----------------------------
(* What a public function of src/src/silo/silo.c demands before it passes  *)
(* a call on to the driver of its file: the checks, in the order it makes  *)
(* them, and the error of the first that fails (API_ERROR).                *)
(*                                                                         *)
(* A call c is described by what the checks look at:                       *)
(*   file      the handle is not NULL                                      *)
(*   listed    it is in the list of open files (db_isregistered_file)      *)
(*   grabbed   some file's driver is grabbed (one flag for all files)      *)
(*   given     its arguments and options that are not NULL, "" or zero     *)
(*   negative  its counts that are below zero                              *)
(*   holes     its lists with a NULL among their elements                  *)
(*   valid     its names that DBVariableNameValid accepts                  *)
(*   odd       its arguments that are none of the values they may have     *)
(*   exists    the directory has something of that name                    *)
(*   overwrite, empty   what the settings of the file allow                *)
(*   driver    the driver of the file has the callback                     *)
(*                                                                         *)
(* Checks that stand together and raise the same error are written as one. *)
EXTENDS Integers, Sequences

Args  == SUBSET STRING
ApiCalls == [file : BOOLEAN, listed : BOOLEAN, grabbed : BOOLEAN, given : Args, negative : Args,
             holes : Args, valid : Args, odd : Args, exists : BOOLEAN, overwrite : BOOLEAN,
             empty : BOOLEAN, driver : BOOLEAN]

Errors == {"OK", "E_NOTREG", "E_NOFILE", "E_GRABBED", "E_BADARGS", "E_INVALIDNAME",
           "E_NOOVERWRITE", "E_EMPTYOBJECT", "E_NOTIMP", "crash"}

(* The error that a check raises, or "OK" *)
Bad(b, e) == IF b THEN e ELSE "OK"

(* API_ERROR leaves at the first check that fails *)
Passes(s)     == \A i \in DOMAIN s : s[i] = "OK"
Failing(s, i) == s[i] # "OK" /\ \A j \in DOMAIN s : j < i => s[j] = "OK"
Verdict(s)    == IF Passes(s) THEN "OK" ELSE s[CHOOSE i \in DOMAIN s : Failing(s, i)]

Missing(c, which)    == <<Bad(~ which \subseteq c.given, "E_BADARGS")>>
Broken(c, lists)     == <<Bad(~ lists \subseteq c.given \ c.holes, "E_BADARGS")>>
Negative(c, counts)  == <<Bad(counts \cap c.negative # {}, "E_BADARGS")>>
NotPositive(c, counts) == <<Bad(~ counts \subseteq c.given \ c.negative, "E_BADARGS")>>
Odd(c, which)        == <<Bad(which \cap c.odd # {}, "E_BADARGS")>>
NeitherOf(c, which)  == <<Bad(which \cap c.given = {}, "E_BADARGS")>>
Invalid(c, name)     == <<Bad(name \notin c.valid, "E_INVALIDNAME")>>
Misnamed(c, name)    == Missing(c, {name}) \o Invalid(c, name)
NoDriver(c)          == <<Bad(~ c.driver, "E_NOTIMP")>>
Taken(c)             == <<Bad(~ c.overwrite /\ c.exists, "E_NOOVERWRITE")>>
NoFile(c)            == <<Bad(~ c.file, "E_NOFILE")>>
Grabbed(c)           == <<Bad(c.grabbed, "E_GRABBED")>>

BadArgs == <<"E_BADARGS">>
If(b, checks) == IF b THEN checks ELSE <<>>

(* API_BEGIN2 refuses a handle that is not listed before the function      *)
(* looks at it.                                                            *)
Unlisted(c) == <<Bad(~ c.listed, "E_NOTREG")>>

(* The entrance of a function that reads, and of one that makes something  *)
Opened(c) == Unlisted(c) \o NoFile(c) \o Grabbed(c)
Named(c)  == Opened(c) \o Misnamed(c, "name")
Fresh(c)  == Named(c) \o Taken(c)

(* An object without elements is an error unless the file allows it *)
NoElements(c) == <<Bad(~ c.empty, "E_EMPTYOBJECT")>>
Elements(c, count, checks) == IF count \in c.given THEN checks ELSE NoElements(c)

(* The scan for empty names, !varnames[i] && !*varnames[i], reads through  *)
(* the NULL it has just found.                                             *)
ScanOf(c, list) == <<Bad(list \in c.given \cap c.holes, "crash")>>

-----------------------------------------------------------------------------
(* Objects with data of their own                                          *)
DBPutCompoundarray(c) ==
  Fresh(c) \o Negative(c, {"nelems"})
    \o Elements(c, "nelems",
         Missing(c, {"elemnames"}) \o NotPositive(c, {"nvalues"}) \o Missing(c, {"values"}))
    \o NoDriver(c)

(* a curve refers to another one, or has its values or the names of arrays *)
DBPutCurve(c) ==
  Fresh(c) \o Negative(c, {"npts"})
    \o (IF "npts" \in c.given
        THEN IF "reference" \in c.given
             THEN If({"xvals", "yvals"} \cap c.given # {}, BadArgs)
             ELSE NeitherOf(c, {"xvals", "xvarname"}) \o NeitherOf(c, {"yvals", "yvarname"})
                    \o If({"xvals", "xvarname"} \subseteq c.given, BadArgs)
                    \o If({"yvals", "yvarname"} \subseteq c.given, BadArgs)
        ELSE If("reference" \notin c.given, NoElements(c)))
    \o NoDriver(c)

DBPutDefvars(c) ==
  Fresh(c) \o Negative(c, {"ndefs"})
    \o Elements(c, "ndefs", Missing(c, {"names", "types", "defns"})) \o NoDriver(c)

DBPutFacelist(c) ==
  Fresh(c) \o Negative(c, {"nfaces"})
    \o Elements(c, "nfaces",
         NotPositive(c, {"ndims", "lnodelist", "nshapes"})
           \o Missing(c, {"nodelist", "shapesize", "shapecnt"})
           \o Negative(c, {"ntypes"}) \o Odd(c, {"origin"}))
    \o NoDriver(c)

(* "extent": one of dims is not zero *)
DBPutMaterial(c) ==
  Fresh(c) \o Negative(c, {"nmat", "ndims"}) \o Missing(c, {"dims"})
    \o Elements(c, "extent",
         Missing(c, {"matnos", "matlist"}) \o Misnamed(c, "meshname")
           \o Negative(c, {"mixlen"})
           \o If("mixlen" \in c.given, Missing(c, {"mix_next", "mix_mat", "mix_vf"})))
    \o NoDriver(c)

Species(c) ==
  Misnamed(c, "matname") \o NotPositive(c, {"last dim"})
    \o Missing(c, {"nmatspec", "speclist", "species_mf"}) \o Negative(c, {"mixlen"})
    \o If("mixlen" \in c.given, Missing(c, {"mix_speclist"}))

DBPutMatspecies(c) ==
  Fresh(c) \o Negative(c, {"nmat", "ndims"}) \o Missing(c, {"dims"})
    \o Negative(c, {"nspecies_mf"})
    \o (IF {"extent", "nspecies_mf"} \subseteq c.given THEN Species(c) ELSE NoElements(c))
    \o NoDriver(c)

DBPutPointmesh(c) ==
  Fresh(c) \o Negative(c, {"nels"})
    \o Elements(c, "nels", Odd(c, {"ndims"}) \o Broken(c, {"coords"})) \o NoDriver(c)

DBPutPointvar(c) ==
  Fresh(c) \o Negative(c, {"nels"})
    \o Elements(c, "nels",
         NotPositive(c, {"nvars"}) \o Broken(c, {"vars"}) \o Misnamed(c, "mname"))
    \o NoDriver(c)

DBPutQuadmesh(c) ==
  Fresh(c) \o Odd(c, {"coordtype"}) \o Negative(c, {"ndims"}) \o Missing(c, {"dims"})
    \o Elements(c, "extent", Broken(c, {"coords"})) \o NoDriver(c)

(* dims must not be zero in any direction; "holes" are such zeros *)
DBPutQuadvar(c) ==
  Fresh(c) \o Misnamed(c, "mname") \o Negative(c, {"ndims"}) \o Missing(c, {"dims"})
    \o Elements(c, "extent",
         Broken(c, {"dims"}) \o NotPositive(c, {"nvars"}) \o ScanOf(c, "varnames")
           \o Broken(c, {"vars", "varnames"}) \o Negative(c, {"mixlen"})
           \o If("mixlen" \in c.given, Broken(c, {"mixvars"})))
    \o Odd(c, {"centering"}) \o NoDriver(c)

(* zones come from a polyhedral zone list, a zone list or a face list; a   *)
(* name of those that is "" is odd                                         *)
ZoneSource(c) ==
  IF "phzonelist" \in c.given \cup c.odd THEN Misnamed(c, "phzonelist")
  ELSE IF "zonel_name" \in c.given \cup c.odd THEN Misnamed(c, "zonel_name")
  ELSE IF "facel_name" \in c.given \cup c.odd THEN Misnamed(c, "facel_name")
  ELSE If("nzones" \in c.given \ c.negative, BadArgs)

DBPutUcdmesh(c) ==
  Fresh(c) \o Negative(c, {"ndims", "nnodes"})
    \o Elements(c, "nnodes",
         If("several nodes" \in c.given, NotPositive(c, {"nzones"}))
           \o Broken(c, {"coords"})
           \o ZoneSource(c))
    \o NoDriver(c)

DBPutUcdsubmesh(c) ==
  Fresh(c) \o Misnamed(c, "parentmesh") \o Negative(c, {"nzones"}) \o NoDriver(c)

DBPutUcdvar(c) ==
  Fresh(c) \o Misnamed(c, "mname") \o Negative(c, {"nels"})
    \o Elements(c, "nels",
         NotPositive(c, {"nvars"}) \o ScanOf(c, "varnames") \o Negative(c, {"mixlen"})
           \o Broken(c, {"vars", "varnames"})
           \o If("mixlen" \in c.given, Broken(c, {"mixvars"})))
    \o Odd(c, {"centering"}) \o NoDriver(c)

ShapeList(c) == NotPositive(c, {"ndims", "lnodelist", "nshapes"})
                  \o Missing(c, {"nodelist", "shapesize", "shapecnt"}) \o Odd(c, {"origin"})

DBPutZonelist(c) ==
  Fresh(c) \o Negative(c, {"nzones"}) \o Elements(c, "nzones", ShapeList(c)) \o NoDriver(c)

DBPutZonelist2(c) ==
  Fresh(c) \o Negative(c, {"nzones"})
    \o Elements(c, "nzones", ShapeList(c) \o Missing(c, {"shapetype"})
                               \o Negative(c, {"lo_offset", "hi_offset"}))
    \o NoDriver(c)

(* the offsets are "odd" when they are not an interval of the zones *)
DBPutPHZonelist(c) ==
  Fresh(c) \o Negative(c, {"nfaces"})
    \o Elements(c, "nfaces",
         Odd(c, {"origin"}) \o Missing(c, {"nodecnt", "lnodelist", "nodelist"})
           \o Negative(c, {"nzones"})
           \o If("nzones" \in c.given,
                 Odd(c, {"offsets"}) \o Missing(c, {"facecnt", "lfacelist", "facelist"})))
    \o NoDriver(c)

DBPutCsgmesh(c) ==
  Fresh(c) \o Negative(c, {"nbounds"})
    \o Elements(c, "nbounds",
         Negative(c, {"ndims", "lcoeffs"}) \o Odd(c, {"ndims"})
           \o Missing(c, {"typeflags", "coeffs", "extents"}) \o Misnamed(c, "zonel_name"))
    \o NoDriver(c)

DBPutCSGZonelist(c) ==
  Fresh(c)
    \o Elements(c, "nzones",
         Negative(c, {"nregs", "nzones"})
           \o Missing(c, {"typeflags", "leftids", "rightids", "zonelist"})
           \o If(("xforms" \in c.given) # ("lxforms" \in c.given \ c.negative), BadArgs))
    \o NoDriver(c)

DBPutCsgvar(c) ==
  Fresh(c) \o Negative(c, {"nvals"})
    \o Elements(c, "nvals",
         Missing(c, {"meshname"}) \o NotPositive(c, {"nvars"}) \o Invalid(c, "meshname")
           \o ScanOf(c, "varnames") \o Broken(c, {"vars", "varnames"}) \o Odd(c, {"centering"}))
    \o NoDriver(c)

(* Objects that name the blocks of others, in a list or by a scheme        *)
BlockNames(c, list) == NeitherOf(c, {list, "file_ns", "block_ns"})

DBPutMultimesh(c) ==
  Fresh(c) \o Negative(c, {"nmesh"})
    \o Elements(c, "nmesh",
         BlockNames(c, "meshnames") \o NeitherOf(c, {"meshtypes", "block_type"}))
    \o NoDriver(c)

DBPutMultivar(c) ==
  Fresh(c) \o Negative(c, {"nvar"})
    \o Elements(c, "nvar",
         BlockNames(c, "varnames") \o NeitherOf(c, {"vartypes", "block_type"}))
    \o NoDriver(c)

DBPutMultimat(c) ==
  Fresh(c) \o Negative(c, {"nmats"}) \o Elements(c, "nmats", BlockNames(c, "matnames"))
    \o NoDriver(c)

DBPutMultimatspecies(c) ==
  Fresh(c) \o Negative(c, {"nspec"}) \o Elements(c, "nspec", BlockNames(c, "specnames"))
    \o NoDriver(c)

(* added to in several calls: no check that would refuse a second one *)
DBPutMultimeshadj(c) ==
  Named(c) \o Negative(c, {"nmesh"})
    \o If("nmesh" \in c.given, Missing(c, {"meshtypes", "nneighbors", "neighbors"}))
    \o If("nodelists" \in c.given, Missing(c, {"lnodelists"}))
    \o If("zonelists" \in c.given, Missing(c, {"lzonelists"})) \o NoDriver(c)

(* Mesh region trees; none of them looks for elements                      *)
DBPutMrgtree(c) == Named(c) \o Misnamed(c, "mesh_name") \o Taken(c) \o NoDriver(c)

DBPutGroupelmap(c) ==
  Fresh(c) \o Negative(c, {"num_segments"})
    \o Missing(c, {"groupel_types", "segment_lengths", "segment_data"}) \o NoDriver(c)

DBPutMrgvar(c) ==
  Named(c) \o Misnamed(c, "mrgt_name") \o Taken(c) \o Negative(c, {"nregns", "ncomps"})
    \o Missing(c, {"reg_pnames", "data"}) \o NoDriver(c)

(* DBPutPointvar1 and the like pass their one array on as a list of one.   *)
Single(c, list) == [c EXCEPT !.given = @ \cup {list, "nvars"},
                             !.holes = IF list \in c.given THEN @ \ {list} ELSE @ \cup {list}]
DBPutPointvar1(c) == DBPutPointvar(Single(c, "vars"))
DBPutQuadvar1(c) ==
  DBPutQuadvar([Single(Single(c, "vars"), "mixvars")
                 EXCEPT !.given = @ \cup {"varnames"}, !.holes = @ \ {"varnames"}])
DBPutUcdvar1(c) ==
  DBPutUcdvar([Single(Single(c, "vars"), "mixvars")
                 EXCEPT !.given = @ \cup {"varnames"}, !.holes = @ \ {"varnames"}])

-----------------------------------------------------------------------------
(* Variables, components and objects as a whole                            *)
(* names that begin with /.silo/# are valid *)
DBWrite(c) ==
  Fresh(c) \o Negative(c, {"ndims"}) \o Elements(c, "ndims", Missing(c, {"dims"}))
    \o Elements(c, "nvals", <<>>) \o NoDriver(c)

DBWriteSlice(c) ==
  Named(c) \o Missing(c, {"values", "offset", "length", "stride", "dims"})
    \o Odd(c, {"ndims"}) \o Missing(c, {"nvals"}) \o NoDriver(c)

(* Nothing is written, and nothing is an error, where the file allows an   *)
(* object without elements and there is no data.                           *)
WritesNothing(c) == c.empty /\ \/ "nd" \notin c.given \ c.negative
                               \/ "count" \notin c.given \/ "var" \notin c.given
                               \/ "nvals" \notin c.given \ c.negative
DBWriteComponent(c) ==
  Opened(c) \o Missing(c, {"obj"})
    \o If(~ WritesNothing(c),
          Misnamed(c, "comp_name") \o Misnamed(c, "prefix") \o Missing(c, {"datatype", "var"})
            \o NotPositive(c, {"nd"}) \o Missing(c, {"count", "nvals"}) \o NoDriver(c))

DBWriteObject(c)  == Opened(c) \o Missing(c, {"obj"}) \o Taken(c) \o NoDriver(c)
DBChangeObject(c) == Opened(c) \o Missing(c, {"obj"}) \o NoDriver(c)

(* Directories and links                                                   *)
DBMkDir(c)  == Named(c) \o NoDriver(c)
DBMkDirP(c) == Named(c)
DBMkSymlink(c) ==
  Opened(c) \o Misnamed(c, "target") \o Misnamed(c, "link") \o NoDriver(c)
DBGetSymlink(c) == Opened(c) \o Missing(c, {"link"}) \o NoDriver(c)
(* "odd" is a path that is not the current directory or "." *)
DBSetDir(c) == Opened(c) \o Missing(c, {"path"}) \o If("path" \in c.odd, NoDriver(c))
DBGetDir(c) == Opened(c) \o Missing(c, {"path"}) \o NoDriver(c)
NoTarget(c) == <<Bad(~ c.file \/ "dstFile" \notin c.given, "E_NOFILE"),
                 Bad("dstFile" \in c.odd, "E_NOTREG")>>
CopyTo(c)   == Unlisted(c) \o NoTarget(c) \o Grabbed(c)
DBCpDir(c)  == CopyTo(c) \o Missing(c, {"srcDir"}) \o Misnamed(c, "dstDir") \o NoDriver(c)
DBCpListedObjects(c) ==
  CopyTo(c) \o If("nobjs" \in c.given \ c.negative, Missing(c, {"srcObjs"}))
    \o If("dstObjs" \in c.given, Invalid(c, "dstObjs")) \o NoDriver(c)
=============================================================================
