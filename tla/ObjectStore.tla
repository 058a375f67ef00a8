---------------------------- MODULE ObjectStore ----------------------------
(* Two objects of one directory, put and put again, for both drivers: a    *)
(* mesh "m" and a variable "v" on it, or two objects of other kinds.       *)
(*                                                                         *)
(* An object of the PDB driver (src/src/pdb_drv/silo_pdb.c) is a header    *)
(* that holds scalars and names variables of the directory: its own        *)
(* arrays, the time that every object of the directory shares, the         *)
(* dimensions that a quad mesh shares with its variables, the values that  *)
(* all variables with a component of one name share.  The header of the    *)
(* HDF5 driver (src/src/hdf5_drv/silo_hdf5.c) is an attribute with a       *)
(* member for each piece of the first call, and names data sets that each  *)
(* call creates anew.                                                      *)
(*                                                                         *)
(* The options of a call pass through structures of the process, one for   *)
(* each kind of object, that are not always reset (left).                  *)
(*                                                                         *)
(* A value is the number of the call that supplied it; Wrong is a value    *)
(* that no call supplied.                                                  *)
EXTENDS Naturals, Sequences, ObjectLoss

P == INSTANCE PdbObjects
H == INSTANCE Hdf5Objects

CONSTANTS
  Scenes,      \* the kinds of "m" and "v": records [m, v]
  Supply(_),   \* the sets of pieces that calls for a kind may supply
  Comps,       \* the names of components that calls for a variable may give
  MaxPuts,     \* bound: calls that reach a driver
  MaxFaults    \* bound: calls in which the storage refuses a write

Names  == {"m", "v"}
NoComp == "none"
Wrong  == 0

(* The arrays of a ucd submesh are its parent's, and several calls fill a  *)
(* multimeshadj.                                                           *)
Placed == Kinds \ {"ucdsubmesh", "multimeshadj"}

(* A quad variable lies on the quad mesh "m", whose variables it shares. A *)
(* call is one that silo.c passes on to a driver, and may have a time that *)
(* its kind has no use for.                                                *)
ASSUME StoreAssumption ==
  /\ Scenes \subseteq [m : Placed \ {"quadvar"}, v : Placed \ {"quadmesh", "ucdmesh"}]
  /\ \A s \in Scenes : s.v = "quadvar" => s.m = "quadmesh"
  /\ Comps \cap (Names \cup {"dir", NoComp}) = {}
  /\ \A kind \in Kinds : \A in \in Supply(kind) :
       in \subseteq Pieces(kind) \cup Times /\ Accepts(kind, in \cap Pieces(kind))
  /\ MaxPuts \in Nat /\ MaxFaults \in Nat

VARIABLES
  driver,    \* "pdb" or "hdf5"
  scene,     \* the kind of each object
  allow,     \* SILO_Globals.allowOverwrites
  left,      \* what earlier calls left in _ma, _ms, _pm and _um
  disk,      \* PDB: the variables of the directory, by place
  heads,     \* the header of each object
  calls,     \* the calls made: the object and component named, the pieces
  faults     \* how many of them met a refused write

vars == <<driver, scene, allow, left, disk, heads, calls, faults>>

(* A header: committed, with its attributes silo and silo_type; the call   *)
(* it is of, the component whose arrays it names, its members, and the     *)
(* pieces it gives.                                                        *)
NoHead == [made |-> FALSE, attr |-> FALSE, typed |-> FALSE,
           no |-> 0, comp |-> NoComp, first |-> {}, names |-> {}]

(* The structures of silo_private.h that hold the options of a call, one   *)
(* for each kind of object, for the process                                *)
Globals == {"_ma", "_ms", "_pm", "_um"}

QuadKinds == {"quadmesh", "quadvar"}
UcdKinds  == {"ucdmesh", "ucdvar"}
Dims      == {"dims", "min_index", "base_index"}

(* The pieces that a PDB header holds, the others being variables          *)
Scalars ==
  {"count", "label", "labels", "units", "varname", "reference", "guihide", "coord_sys",
   "missing_value", "meshname", "cycle", "use_specmf", "ascii_labels", "conserved",
   "extensive", "group_no", "mrgtree_name", "tv_connectivity", "disjoint_mode", "topo_dim",
   "ndims", "nnodes", "mixlen", "lo_offset", "hi_offset", "allowmat0", "matname", "nmatnos",
   "block_type", "repr_block_idx", "tensor_rank", "mmesh_name", "lgroupings",
   "src_mesh_type", "src_mesh_name", "type_info_bits", "mrgt_name"}
Literal(kind, piece) ==
  \/ piece \in Scalars
  \/ kind \in {"ucdmesh", "csgmesh"} /\ piece \in {"facelist", "zonelist", "phzonelist"}

(* The PDB driver names the values of these kinds, and those of their      *)
(* mixed zones, after the components that the caller names; one component  *)
(* stands for them, the arrays of different components being apart.  The   *)
(* HDF5 driver names every array afresh.                                   *)
CompKinds == {"quadvar", "ucdvar", "csgvar"}
Arrays    == {"vals", "mixvals"}
Components(n) == IF driver = "pdb" /\ scene[n] \in CompKinds THEN Comps ELSE {NoComp}

(* mutant: all variables are named after the mesh *)
Owner_mesh(kind, n, c, piece) == IF piece \in Times THEN "dir" ELSE "m"

(* The variable of a piece: the time of the directory, the dimensions of   *)
(* the mesh, an array of the component or of the object (db_mkname,        *)
(* db_build_shared_names)                                                  *)
Owner(kind, n, c, piece) ==
  IF piece \in Times THEN "dir"
  ELSE IF \/ kind = "quadmesh" /\ piece \in Dims
          \/ kind = "quadvar" /\ piece = "min_index" THEN "m"
  ELSE IF kind \in CompKinds /\ piece \in Arrays THEN c
  ELSE n
Place(n, c, piece) == [owner |-> Owner(scene[n], n, c, piece), piece |-> piece]
Places(n, c, S)    == {Place(n, c, piece) : piece \in {p \in S : ~Literal(scene[n], p)}}

(* the variable that the header of n names *)
Held(n, piece) == Place(n, heads[n].comp, piece)

(* The members that the header of a kind has whatever the call supplies    *)
Fixed(kind) ==
  For(kind, "csgmesh", {"count", "extents"}) \cup For(kind, "csgvar", {"cycle"})
    \cup For(kind, "pointmesh", {"extents"})
    \cup For(kind, "quadmesh", {"extents", "nnodes"} \cup Dims)
    \cup For(kind, "quadvar", {"dims", "min_index"}) \cup For(kind, "ucdmesh", {"extents"})
    \cup For(kind, "material", {"dims"}) \cup For(kind, "matspecies", {"dims"})

(* What DBGet returns of n, and the call each piece of it is of            *)
Readable(n) == heads[n].made /\ heads[n].attr /\ heads[n].typed
Got(n) ==
  IF ~Readable(n) THEN {}
  ELSE IF driver = "hdf5" THEN H!GetObject(scene[n], heads[n].names)
  ELSE P!GetObject(scene[n], {piece \in heads[n].names :
                                \/ Literal(scene[n], piece)
                                \/ Held(n, piece) \in DOMAIN disk})
Value(n, piece) ==
  IF driver = "pdb" /\ ~Literal(scene[n], piece) THEN disk[Held(n, piece)] ELSE heads[n].no

Init ==
  /\ driver \in {"pdb", "hdf5"}
  /\ scene \in Scenes
  /\ allow = TRUE
  /\ left = [global \in Globals |-> {}] /\ disk = <<>> /\ calls = <<>> /\ faults = 0
  /\ heads = [n \in Names |-> NoHead]

No == Len(calls) + 1

(* What the call really supplies: the dimensions of a point variable are   *)
(* those of the last point mesh of the process.                            *)
Supplied(n, in) ==
  IF scene[n] = "pointvar" THEN (in \ {"ndims"}) \cup left["_pm"] ELSE in

(* What the driver puts: the options of a material or of a species that    *)
(* earlier calls set are still set                                         *)
Given(n, in) ==
  Supplied(n, in) \cup For(scene[n], "material", left["_ma"])
                  \cup For(scene[n], "matspecies", left["_ms"])

(* the lists of names, which the caller keeps and may free *)
NameLists == {"matnames", "matcolors", "specnames", "speccolors"}

(* mutant: the lists stay set until the next call sets them *)
Leaves_names(n, in, kept) ==
  [left EXCEPT
     !["_ma"] = IF scene[n] # "material" THEN @
                ELSE @ \cup (in \cap {"allowmat0", "guihide", "matnames", "matcolors"})]

(* What db_ProcessOptlist and the driver leave in the structures: _pm and  *)
(* _um are reset first, _ma and _ms never are, and the driver clears the   *)
(* lists of names when it has written them, but for those of kept.         *)
Leaves(n, in, kept) ==
  [left EXCEPT
     !["_ma"] = IF scene[n] # "material" THEN @
                ELSE (@ \cup (in \cap {"allowmat0", "guihide", "matnames", "matcolors"}))
                       \ (NameLists \ kept),
     !["_ms"] = IF scene[n] # "matspecies" THEN @
                ELSE (@ \cup (in \cap {"guihide", "specnames", "speccolors"}))
                       \ (NameLists \ kept),
     !["_pm"] = IF scene[n] = "pointmesh" THEN {"ndims"} ELSE @,
     !["_um"] = IF scene[n] \notin UcdKinds THEN @
                ELSE (in \cap {"dtime", "use_specmf"})
                       \cup IF scene[n] = "ucdmesh" THEN {"ndims"} ELSE @ \cap {"ndims"}]

(* DBSetAllowOverwrites *)
SetAllowOverwrites ==
  /\ allow' = ~allow
  /\ UNCHANGED <<driver, scene, left, disk, heads, calls, faults>>

(* Another process takes over between two calls (DBClose, DBOpen) *)
Restart ==
  /\ \E global \in Globals : left[global] # {}
  /\ left' = [global \in Globals |-> {}]
  /\ UNCHANGED <<driver, scene, allow, disk, heads, calls, faults>>

(* The checks of DBPutXxx: an object is not put again unless that is       *)
(* allowed, of components nobody asks                                      *)
Call(n, in, c) ==
  /\ No <= MaxPuts
  /\ allow \/ ~heads[n].made
  /\ calls' = Append(calls, [name |-> n, in |-> Supplied(n, in), comp |-> c])
  /\ UNCHANGED <<driver, scene, allow>>

(* mutant: nobody asks whether the mesh is there *)
Initialised_never(n) == FALSE

(* db_InitQuad, db_InitUcd, db_InitCsg: is the mesh there already?  A ucd  *)
(* variable of no mesh of this process has no dimensions.                  *)
Initialised(n) ==
  \/ scene[n] \in QuadKinds /\ [owner |-> "m", piece |-> "dims"] \in DOMAIN disk
  \/ scene[n] \in UcdKinds  /\ [owner |-> "m", piece |-> "align"] \in DOMAIN disk
  \/ scene[n] = "ucdvar"    /\ "ndims" \notin left["_um"]
  \/ scene[n] = "csgmesh"   /\ [owner |-> n, piece |-> "typeflags"] \in DOMAIN disk

(* The shared variables that a db_Init function writes *)
Shared(n, in) ==
  {[owner |-> "dir", piece |-> t] : t \in in \cap Times}
    \cup (IF scene[n] \in QuadKinds THEN {[owner |-> "m", piece |-> d] : d \in Dims} ELSE {})
    \cup (IF scene[n] \in UcdKinds THEN {[owner |-> "m", piece |-> "align"]} ELSE {})
(* mutant: a variable relies on its mesh having been put *)
InitWrites_mesh(n, in) == IF n = "v" THEN {} ELSE Shared(n, in)
InitWrites(n, in) == IF Initialised(n) THEN {} ELSE Shared(n, in)

(* db_InitQuad leaves a mesh it knows without nodes and index bounds: the  *)
(* extents are then those of the first node                                *)
KnownQuad(n)  == scene[n] = "quadmesh" /\ Initialised(n)
HeadOf(n, in) == P!PutObject(scene[n], Given(n, in)) \ IF KnownQuad(n) THEN {"nnodes"} ELSE {}
(* mutant: the extents are those of no mesh that is known *)
WrongAt_known(n) == IF Initialised(n) THEN {[owner |-> n, piece |-> "extents"]} ELSE {}
WrongAt(n)    == IF KnownQuad(n) THEN {[owner |-> n, piece |-> "extents"]} ELSE {}

(* mutant: a variable that is there is not written again *)
OwnWrites_new(n, in, c) ==
  {at \in Places(n, c, HeadOf(n, in)) : at.owner \in {n, c}} \ DOMAIN disk

(* the arrays that the call writes, of the object and of the component *)
OwnWrites(n, in, c) ==
  {at \in Places(n, c, HeadOf(n, in)) :
     at.owner \in {n, c} /\ at.piece \notin IF scene[n] = "quadmesh" THEN Dims ELSE {}}

(* db_pdb_PutXxx. Nothing looks at the result of a write: a call of which  *)
(* the storage refuses some writes succeeds and names the variables.       *)
PdbPut(n, in, c) ==
  LET written == InitWrites(n, in) \cup OwnWrites(n, in, c)
  IN  /\ driver = "pdb"
      /\ Call(n, in, c)
      /\ left' = Leaves(n, in, {})
      /\ \E refused \in {{}} \cup IF faults < MaxFaults THEN {{at} : at \in written} ELSE {} :
           /\ disk' = [at \in DOMAIN disk \cup written |->
                         IF at \in refused \cup WrongAt(n) THEN Wrong
                         ELSE IF at \in written THEN No ELSE disk[at]]
           /\ faults' = IF refused = {} THEN faults ELSE faults + 1
      /\ heads' = [heads EXCEPT ![n] = [made |-> TRUE, attr |-> TRUE, typed |-> TRUE, no |-> No,
                                        comp |-> c, first |-> {}, names |-> HeadOf(n, in)]]

(* The dtime and use_specmf of a csg variable are taken from _um; H5Awrite *)
(* converts a new header to the members of the first.                      *)
Header(n, in) ==
  H!PutObject(scene[n], Given(n, in))
    \cup For(scene[n], "csgvar", left["_um"] \cap ({"use_specmf"} \cup (in \cap {"dtime"})))
Members(n, in) == Header(n, in) \cup Fixed(scene[n]) \cup For(scene[n], "csgvar", in \cap {"dtime"})
Silo(n, in) ==
  LET h == heads[n]
      members == IF h.attr THEN h.first ELSE Members(n, in)
  IN  [h EXCEPT !.made = TRUE, !.attr = TRUE, !.no = No, !.first = members,
                !.names = Header(n, in) \cap members]

(* db_hdf5_PutXxx, db_hdf5_hdrwr *)
Hdf5Put(n, in, c) ==
  /\ driver = "hdf5"
  /\ Call(n, in, c)
  /\ left' = Leaves(n, in, {})
  /\ heads' = [heads EXCEPT ![n] = [Silo(n, in) EXCEPT !.typed = TRUE]]
  /\ UNCHANGED <<disk, faults>>

(* A step of it that the storage refuses ends the call with a jump to its  *)
(* API_BEGIN: a data set, which leaves the lists of names not yet written  *)
(* where they were, the named type, the attribute silo before or after its *)
(* creation, silo_type                                                     *)
Hdf5PutFails(n, in, c) ==
  /\ driver = "hdf5"
  /\ faults < MaxFaults
  /\ Call(n, in, c)
  /\ \E head \in {heads[n], [heads[n] EXCEPT !.made = TRUE], Silo(n, in)}
                 \cup IF heads[n].attr THEN {} ELSE {[Silo(n, in) EXCEPT !.no = 0, !.names = {}]},
        kept \in {{}, {"matcolors", "speccolors"}, NameLists} :
       /\ kept # {} => head = heads[n]
       /\ heads' = [heads EXCEPT ![n] = head]
       /\ left' = Leaves(n, in, kept)
  /\ faults' = faults + 1
  /\ UNCHANGED disk

Put(n, in, c) == PdbPut(n, in, c) \/ Hdf5Put(n, in, c) \/ Hdf5PutFails(n, in, c)

Next ==
  \/ SetAllowOverwrites
  \/ Restart
  \/ \E n \in Names : \E in \in Supply(scene[n]), c \in Components(n) : Put(n, in, c)

Spec == Init /\ [][Next]_vars

-----------------------------------------------------------------------------
(* The pieces that a call may take from the options of an earlier one *)
Sticky(kind) ==
  For(kind, "material", {"allowmat0", "guihide", "matnames", "matcolors"})
    \cup For(kind, "matspecies", {"guihide", "specnames", "speccolors"})
    \cup (IF driver = "hdf5" THEN For(kind, "csgvar", {"dtime", "use_specmf"}) ELSE {})

(* An array that is of the component that n names, whoever wrote it last   *)
OfComponent(n, piece) == driver = "pdb" /\ scene[n] \in CompKinds /\ piece \in Arrays

(* A call is for another object, but names the component of n *)
SameComponent(n, call) == call.name # n /\ call.comp = heads[n].comp

(* As long as no write is refused, an object gives back the pieces that    *)
(* its last call supplied, but for what the driver loses, with two         *)
(* exceptions when the object had been put before: the HDF5 driver drops   *)
(* what the first header has no member for, and the PDB driver leaves out  *)
(* the nodes of a quad mesh it knows, and the time of an object whose mesh *)
(* it knows.                                                               *)
Kept(n) ==
  LET own == calls[heads[n].no].in \cap Pieces(scene[n])
  IN  IF driver = "hdf5" THEN Hdf5Returned(scene[n], own) \cap heads[n].first
      ELSE PdbReturned(scene[n], own) \ ({"nnodes"} \cup
             IF scene[n] \in QuadKinds \cup UcdKinds \cup {"csgmesh"} THEN Times ELSE {})
NothingLost ==
  \A n \in Names : faults = 0 /\ heads[n].no > 0 => Kept(n) \subseteq Got(n)

(* Whatever is refused, every value that an object gives back was supplied *)
(* for that piece by some call, the dimensions of a quad mesh apart, which *)
(* may be those of a call for a variable of it; and but for the options    *)
(* that stay set, by a call for that object, or, if it is an array of a    *)
(* component in a PDB file, for one with a component of the same name.     *)
FromACall ==
  \A n \in Names : \A piece \in Got(n) \ Dims :
    Value(n, piece) # Wrong =>
      LET call == calls[Value(n, piece)]
      IN  /\ \/ piece \in call.in
             \/ piece = "extensive" /\ "conserved" \in call.in
             \/ piece \in Sticky(scene[n]) /\ \E i \in 1 .. Value(n, piece) : piece \in calls[i].in
          /\ piece \notin Times => call.name = n \/ (OfComponent(n, piece) /\ SameComponent(n, call))

(* The pieces of an object are all of its last call, never a mixture of    *)
(* that call and an earlier one: only what is shared may be of another,    *)
(* and an array of a component only of a later call, for another object,   *)
(* that named the same component.                                          *)
OfOnePut ==
  \A n \in Names : \A piece \in Got(n) \ (Times \cup Dims) :
    \/ Value(n, piece) \in {heads[n].no, Wrong}
    \/ /\ OfComponent(n, piece) /\ Value(n, piece) > heads[n].no
       /\ SameComponent(n, calls[Value(n, piece)])

(* An object gives back a value that no call supplied only after a refused *)
(* write, or as the extents of a quad mesh of the PDB driver.              *)
NothingWrong ==
  \A n \in Names : \A piece \in Got(n) :
    Value(n, piece) = Wrong =>
      \/ faults > 0
      \/ driver = "pdb" /\ scene[n] = "quadmesh" /\ piece = "extents" /\ heads[n].no > 1

(* What an object gives back, its time apart, changes only by a call of    *)
(* its name, or, an array of a component, of the name of that component: a *)
(* variable leaves its mesh alone, a mesh its variable, and two variables  *)
(* each other unless they name a component alike.                          *)
StaysAsPut ==
  [][\A n \in Names : Readable(n) /\ (calls' = calls \/ calls'[Len(calls')].name # n) =>
       /\ Got(n) \ Times \subseteq Got(n)'
       /\ \A piece \in Got(n) \ Times :
            \/ Value(n, piece)' = Value(n, piece)
            \/ /\ calls' # calls /\ Value(n, piece)' \in {No, Wrong}
               /\ OfComponent(n, piece) /\ SameComponent(n, calls'[No])]_vars

(* As long as no write is refused, a material or a species has names only  *)
(* if its own call supplied them, whatever was put before: its lists are   *)
(* cleared, though its other options stay set ("Zero out the _ma._matnames *)
(* pointer so we can't accidentially use it again", silo.c:8940; the jump  *)
(* out of a call that fails passes that statement over).                   *)
NamesOfThisCall ==
  \A n \in Names : faults = 0 /\ heads[n].no > 0 /\ scene[n] \in {"material", "matspecies"} =>
    Got(n) \cap NameLists \subseteq calls[heads[n].no].in
=============================================================================
