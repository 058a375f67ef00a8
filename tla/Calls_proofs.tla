---------------------------- MODULE Calls_proofs ----------------------------
(* What holds of the calls of a program: the rules by which the functions  *)
(* of the library let a call pass (ApiRules), and the ids that a program   *)
(* in Fortran holds, whatever functions it calls and whatever fails in     *)
(* them (Calls).                                                           *)
EXTENDS ApiRules, Calls, FiniteSetTheorems, TLAPS

-----------------------------------------------------------------------------
(* The rules of ApiRules, for every call                                   *)

Checks == Seq(Errors)

(* A sequence of checks passes when both its parts do. *)
LEMMA Cat ==
  ASSUME NEW s \in Checks, NEW t \in Checks
  PROVE  s \o t \in Checks /\ (Passes(s \o t) <=> Passes(s) /\ Passes(t))
<1>1. s \o t \in Checks BY DEF Checks
<1>2. Passes(s \o t) => Passes(s)
  <2>1. \A i \in DOMAIN s : i \in DOMAIN (s \o t) /\ (s \o t)[i] = s[i] BY DEF Checks
  <2> QED BY <2>1 DEF Passes
<1>3. Passes(s \o t) => Passes(t)
  <2>1. \A i \in DOMAIN t : /\ Len(s) + i \in DOMAIN (s \o t)
                            /\ (s \o t)[Len(s) + i] = t[i] BY DEF Checks
  <2> QED BY <2>1 DEF Passes
<1>4. Passes(s) /\ Passes(t) => Passes(s \o t)
  <2>1. \A i \in DOMAIN (s \o t) : \/ i \in DOMAIN s /\ (s \o t)[i] = s[i]
                                   \/ /\ i - Len(s) \in DOMAIN t
                                      /\ (s \o t)[i] = t[i - Len(s)] BY DEF Checks
  <2> QED BY <2>1 DEF Passes
<1> QED BY <1>1, <1>2, <1>3, <1>4

(* The parts that the functions are made of. *)
LEMMA Pieces ==
  ASSUME NEW c \in ApiCalls
  PROVE  /\ \A a : /\ Missing(c, a) \in Checks /\ Broken(c, a) \in Checks
                   /\ Negative(c, a) \in Checks /\ NotPositive(c, a) \in Checks
                   /\ Odd(c, a) \in Checks /\ NeitherOf(c, a) \in Checks
                   /\ Invalid(c, a) \in Checks /\ ScanOf(c, a) \in Checks
                   /\ Misnamed(c, a) \in Checks
         /\ NoDriver(c) \in Checks /\ Taken(c) \in Checks /\ NoFile(c) \in Checks
         /\ Grabbed(c) \in Checks /\ Unlisted(c) \in Checks /\ <<>> \in Checks
         /\ NoTarget(c) \in Checks
         /\ NoElements(c) \in Checks /\ BadArgs \in Checks
         /\ \A s \in Checks : \A a : Elements(c, a, s) \in Checks
         /\ \A s \in Checks : \A b : If(b, s) \in Checks
<1>1. \A a : Missing(c, a) \in Checks /\ Broken(c, a) \in Checks BY DEF Checks, Errors, Bad, Missing, Broken
<1>2. \A a : Negative(c, a) \in Checks /\ NotPositive(c, a) \in Checks
  BY DEF Checks, Errors, Bad, Negative, NotPositive
<1>3. \A a : Odd(c, a) \in Checks /\ NeitherOf(c, a) \in Checks BY DEF Checks, Errors, Bad, Odd, NeitherOf
<1>4. \A a : Invalid(c, a) \in Checks /\ ScanOf(c, a) \in Checks BY DEF Checks, Errors, Bad, Invalid, ScanOf
<1>5. \A a : Misnamed(c, a) \in Checks BY <1>1, <1>4, Cat DEF Misnamed
<1>6. NoDriver(c) \in Checks /\ Taken(c) \in Checks /\ NoFile(c) \in Checks
  BY DEF Checks, Errors, Bad, NoDriver, Taken, NoFile
<1>7. Grabbed(c) \in Checks /\ Unlisted(c) \in Checks /\ NoTarget(c) \in Checks
  BY DEF Checks, Errors, Bad, Grabbed, Unlisted, NoTarget
<1>8. <<>> \in Checks BY DEF Checks
<1>9. NoElements(c) \in Checks /\ BadArgs \in Checks
  BY DEF Checks, Errors, Bad, NoElements, BadArgs
<1>11. \A s \in Checks : \A a : Elements(c, a, s) \in Checks BY <1>9 DEF Elements
<1>10. \A s \in Checks : \A b : If(b, s) \in Checks BY <1>8 DEF If
<1> QED BY <1>1, <1>2, <1>3, <1>4, <1>5, <1>6, <1>7, <1>8, <1>9, <1>10, <1>11

(* What a function that passes has passed, at its entrance. *)
LEMMA Entrances ==
  ASSUME NEW c \in ApiCalls
  PROVE  /\ Opened(c) \in Checks /\ Named(c) \in Checks /\ Fresh(c) \in Checks
         /\ Passes(Grabbed(c)) => ~ c.grabbed
         /\ Passes(Taken(c)) => c.overwrite \/ ~ c.exists
         /\ Passes(Opened(c)) => Passes(Grabbed(c))
         /\ Passes(Named(c)) => Passes(Grabbed(c))
         /\ Passes(Fresh(c)) => Passes(Grabbed(c)) /\ Passes(Taken(c))
<1>1. Passes(Grabbed(c)) => ~ c.grabbed BY DEF Passes, Grabbed, Bad
<1>2. Passes(Taken(c)) => c.overwrite \/ ~ c.exists BY DEF Passes, Taken, Bad, ApiCalls
<1>4. Opened(c) \in Checks /\ (Passes(Opened(c)) => Passes(Grabbed(c)))
  BY Cat, Pieces DEF Opened
<1>5. Named(c) \in Checks /\ (Passes(Named(c)) => Passes(Opened(c)))
  BY <1>4, Pieces, Cat DEF Named
<1>6. Fresh(c) \in Checks /\ (Passes(Fresh(c)) => Passes(Named(c)) /\ Passes(Taken(c)))
  BY <1>5, Cat, Pieces DEF Fresh
<1> QED BY <1>1, <1>2, <1>4, <1>5, <1>6

(* Each function that asks has passed the question when it passes. *)
LEMMA Askers ==
  ASSUME NEW c \in ApiCalls
  PROVE  \A s \in AskOverwrite(c) : Passes(s) => Passes(Grabbed(c)) /\ Passes(Taken(c))
<1> DEFINE Asks(s) == Passes(s) => Passes(Grabbed(c)) /\ Passes(Taken(c))
<1>1. Asks(DBPutCompoundarray(c)) BY Cat, Pieces, Entrances DEF DBPutCompoundarray
<1>2. Asks(DBPutCurve(c)) BY Cat, Pieces, Entrances DEF DBPutCurve
<1>3. Asks(DBPutDefvars(c)) BY Cat, Pieces, Entrances DEF DBPutDefvars
<1>4. Asks(DBPutFacelist(c)) BY Cat, Pieces, Entrances DEF DBPutFacelist
<1>5. Asks(DBPutMaterial(c)) BY Cat, Pieces, Entrances DEF DBPutMaterial
<1>6. Asks(DBPutMatspecies(c))
  <2>1. Species(c) \in Checks BY Cat, Pieces DEF Species
  <2> QED BY <2>1, Cat, Pieces, Entrances DEF DBPutMatspecies
<1>7. Asks(DBPutPointmesh(c)) BY Cat, Pieces, Entrances DEF DBPutPointmesh
<1>8. Asks(DBPutPointvar(c)) BY Cat, Pieces, Entrances DEF DBPutPointvar
<1>9. Asks(DBPutQuadmesh(c)) BY Cat, Pieces, Entrances DEF DBPutQuadmesh
<1>10. Asks(DBPutQuadvar(c)) BY Cat, Pieces, Entrances DEF DBPutQuadvar
<1>11. Asks(DBPutUcdmesh(c))
  <2>1. ZoneSource(c) \in Checks BY Cat, Pieces DEF ZoneSource
  <2> DEFINE Nodes == If("several nodes" \in c.given, NotPositive(c, {"nzones"}))
                      \o Broken(c, {"coords"}) \o ZoneSource(c)
  <2>2. Nodes \in Checks BY <2>1, Cat, Pieces
  <2> DEFINE All == Elements(c, "nnodes", Nodes)
  <2>3. All \in Checks BY <2>2, Pieces
  <2>4. DBPutUcdmesh(c) = Fresh(c) \o Negative(c, {"ndims", "nnodes"}) \o All \o NoDriver(c)
    BY DEF DBPutUcdmesh
  <2> HIDE DEF All
  <2> QED BY <2>3, <2>4, Cat, Pieces, Entrances
<1>12. Asks(DBPutUcdsubmesh(c)) BY Cat, Pieces, Entrances DEF DBPutUcdsubmesh
<1>13. Asks(DBPutUcdvar(c)) BY Cat, Pieces, Entrances DEF DBPutUcdvar
<1>14. Asks(DBPutZonelist(c)) BY Cat, Pieces, Entrances DEF DBPutZonelist, ShapeList
<1>15. Asks(DBPutZonelist2(c)) BY Cat, Pieces, Entrances DEF DBPutZonelist2, ShapeList
<1>16. Asks(DBPutPHZonelist(c)) BY Cat, Pieces, Entrances DEF DBPutPHZonelist
<1>17. Asks(DBPutCsgmesh(c)) BY Cat, Pieces, Entrances DEF DBPutCsgmesh
<1>18. Asks(DBPutCSGZonelist(c)) BY Cat, Pieces, Entrances DEF DBPutCSGZonelist
<1>19. Asks(DBPutCsgvar(c)) BY Cat, Pieces, Entrances DEF DBPutCsgvar
<1>20. Asks(DBPutMultimesh(c)) BY Cat, Pieces, Entrances DEF DBPutMultimesh, BlockNames
<1>21. Asks(DBPutMultivar(c)) BY Cat, Pieces, Entrances DEF DBPutMultivar, BlockNames
<1>22. Asks(DBPutMultimat(c)) BY Cat, Pieces, Entrances DEF DBPutMultimat, BlockNames
<1>23. Asks(DBPutMultimatspecies(c)) BY Cat, Pieces, Entrances DEF DBPutMultimatspecies, BlockNames
<1>24. Asks(DBPutMrgtree(c)) BY Cat, Pieces, Entrances DEF DBPutMrgtree
<1>25. Asks(DBPutGroupelmap(c)) BY Cat, Pieces, Entrances DEF DBPutGroupelmap
<1>26. Asks(DBPutMrgvar(c)) BY Cat, Pieces, Entrances DEF DBPutMrgvar
<1>27. Asks(DBWrite(c)) BY Cat, Pieces, Entrances DEF DBWrite
<1>28. Asks(DBWriteObject(c)) BY Cat, Pieces, Entrances DEF DBWriteObject
<1> QED BY <1>1, <1>2, <1>3, <1>4, <1>5, <1>6, <1>7, <1>8, <1>9, <1>10, <1>11, <1>12,
       <1>13, <1>14, <1>15, <1>16, <1>17, <1>18, <1>19, <1>20, <1>21, <1>22, <1>23,
       <1>24, <1>25, <1>26, <1>27, <1>28
       DEF AskOverwrite

(* The functions that ask for the driver and not whether they overwrite.    *)
LEMMA Readers ==
  ASSUME NEW c \in ApiCalls
  PROVE  \A s \in AskGrabbed(c) : Passes(s) => Passes(Grabbed(c))
<1> DEFINE Asks(s) == Passes(s) => Passes(Grabbed(c))
<1>1. Asks(DBPutMultimeshadj(c)) BY Cat, Pieces, Entrances DEF DBPutMultimeshadj
<1>2. Asks(DBWriteSlice(c)) BY Cat, Pieces, Entrances DEF DBWriteSlice
<1>3. Asks(DBWriteComponent(c)) BY Cat, Pieces, Entrances DEF DBWriteComponent
<1>4. Asks(DBChangeObject(c)) BY Cat, Pieces, Entrances DEF DBChangeObject
<1>5. Asks(DBMkDir(c)) BY Cat, Pieces, Entrances DEF DBMkDir
<1>6. Asks(DBMkDirP(c)) BY Cat, Pieces, Entrances DEF DBMkDirP
<1>7. Asks(DBMkSymlink(c)) BY Cat, Pieces, Entrances DEF DBMkSymlink
<1>8. Asks(DBGetSymlink(c)) BY Cat, Pieces, Entrances DEF DBGetSymlink
<1>9. Asks(DBSetDir(c)) BY Cat, Pieces, Entrances DEF DBSetDir
<1>10. Asks(DBGetDir(c)) BY Cat, Pieces, Entrances DEF DBGetDir
<1>11. Asks(DBCpDir(c)) BY Cat, Pieces, Entrances DEF DBCpDir, CopyTo
<1>12. Asks(DBCpListedObjects(c)) BY Cat, Pieces, Entrances DEF DBCpListedObjects, CopyTo
<1>13. Asks(DBGetCompoundarray(c)) BY Cat, Pieces, Entrances DEF DBGetCompoundarray, GetsByName
<1>14. Asks(DBGetCurve(c)) BY Cat, Pieces, Entrances DEF DBGetCurve, GetsByName
<1>15. Asks(DBGetDefvars(c)) BY Cat, Pieces, Entrances DEF DBGetDefvars, GetsByName
<1>16. Asks(DBGetMaterial(c)) BY Cat, Pieces, Entrances DEF DBGetMaterial, GetsByName
<1>17. Asks(DBGetMatspecies(c)) BY Cat, Pieces, Entrances DEF DBGetMatspecies, GetsByName
<1>18. Asks(DBGetMultimesh(c)) BY Cat, Pieces, Entrances DEF DBGetMultimesh, GetsByName
<1>19. Asks(DBGetMultimeshadj(c)) BY Cat, Pieces, Entrances DEF DBGetMultimeshadj, GetsByName
<1>20. Asks(DBGetMultivar(c)) BY Cat, Pieces, Entrances DEF DBGetMultivar, GetsByName
<1>21. Asks(DBGetMultimat(c)) BY Cat, Pieces, Entrances DEF DBGetMultimat, GetsByName
<1>22. Asks(DBGetMultimatspecies(c)) BY Cat, Pieces, Entrances DEF DBGetMultimatspecies, GetsByName
<1>23. Asks(DBGetPointmesh(c)) BY Cat, Pieces, Entrances DEF DBGetPointmesh, GetsByName
<1>24. Asks(DBGetPointvar(c)) BY Cat, Pieces, Entrances DEF DBGetPointvar, GetsByName
<1>25. Asks(DBGetQuadmesh(c)) BY Cat, Pieces, Entrances DEF DBGetQuadmesh, GetsByName
<1>26. Asks(DBGetQuadvar(c)) BY Cat, Pieces, Entrances DEF DBGetQuadvar, GetsByName
<1>27. Asks(DBGetUcdmesh(c)) BY Cat, Pieces, Entrances DEF DBGetUcdmesh, GetsByName
<1>28. Asks(DBGetUcdvar(c)) BY Cat, Pieces, Entrances DEF DBGetUcdvar, GetsByName
<1>29. Asks(DBGetFacelist(c)) BY Cat, Pieces, Entrances DEF DBGetFacelist, GetsByName
<1>30. Asks(DBGetZonelist(c)) BY Cat, Pieces, Entrances DEF DBGetZonelist, GetsByName
<1>31. Asks(DBGetPHZonelist(c)) BY Cat, Pieces, Entrances DEF DBGetPHZonelist, GetsByName
<1>32. Asks(DBGetCsgmesh(c)) BY Cat, Pieces, Entrances DEF DBGetCsgmesh, GetsByName
<1>33. Asks(DBGetCSGZonelist(c)) BY Cat, Pieces, Entrances DEF DBGetCSGZonelist, GetsByName
<1>34. Asks(DBGetCsgvar(c)) BY Cat, Pieces, Entrances DEF DBGetCsgvar, GetsByName
<1>35. Asks(DBGetMrgtree(c)) BY Cat, Pieces, Entrances DEF DBGetMrgtree, GetsByName
<1>36. Asks(DBGetGroupelmap(c)) BY Cat, Pieces, Entrances DEF DBGetGroupelmap, GetsByName
<1>37. Asks(DBGetMrgvar(c)) BY Cat, Pieces, Entrances DEF DBGetMrgvar, GetsByName
<1>38. Asks(DBGetObject(c)) BY Cat, Pieces, Entrances DEF DBGetObject, GetsByName
<1>39. Asks(DBGetVar(c)) BY Cat, Pieces, Entrances DEF DBGetVar, GetsByName
<1>40. Asks(DBGetVarByteLength(c)) BY Cat, Pieces, Entrances DEF DBGetVarByteLength, GetsByName
<1>41. Asks(DBGetVarByteLengthInFile(c)) BY Cat, Pieces, Entrances DEF DBGetVarByteLengthInFile, GetsByName
<1>42. Asks(DBGetVarLength(c)) BY Cat, Pieces, Entrances DEF DBGetVarLength, GetsByName
<1>43. Asks(DBGetVarType(c)) BY Cat, Pieces, Entrances DEF DBGetVarType, GetsByName
<1>44. Asks(DBInqMeshtype(c)) BY Cat, Pieces, Entrances DEF DBInqMeshtype, GetsByName
<1>45. Asks(DBInqMeshname(c)) BY Cat, Pieces, Entrances DEF DBInqMeshname
<1>46. Asks(DBReadVar(c)) BY Cat, Pieces, Entrances DEF DBReadVar
<1>47. Asks(DBReadVarSlice(c)) BY Cat, Pieces, Entrances DEF DBReadVarSlice
<1>48. Asks(DBReadVarVals(c)) BY Cat, Pieces, Entrances DEF DBReadVarVals
<1>49. Asks(DBGetVarDims(c)) BY Cat, Pieces, Entrances DEF DBGetVarDims
<1>50. Asks(DBGetComponent(c)) BY Cat, Pieces, Entrances DEF DBGetComponent
<1>51. Asks(DBGetComponentType(c)) BY Cat, Pieces, Entrances DEF DBGetComponentType
<1>52. Asks(DBNewToc(c)) BY Cat, Pieces, Entrances DEF DBNewToc
<1>53. Asks(DBGetToc(c)) BY Cat, Pieces, Entrances DEF DBGetToc
<1>54. Asks(DBInqVarType(c)) BY Cat, Pieces, Entrances DEF DBInqVarType
<1>55. Asks(DBFilters(c)) BY Cat, Pieces, Entrances DEF DBFilters
<1>56. \A s \in AskOverwrite(c) : Asks(s) BY Askers
<1> QED BY <1>1, <1>2, <1>3, <1>4, <1>5, <1>6, <1>7, <1>8, <1>9, <1>10, <1>11, <1>12,
       <1>13, <1>14, <1>15, <1>16, <1>17, <1>18, <1>19, <1>20, <1>21, <1>22, <1>23,
       <1>24, <1>25, <1>26, <1>27, <1>28, <1>29, <1>30, <1>31, <1>32, <1>33, <1>34,
       <1>35, <1>36, <1>37, <1>38, <1>39, <1>40, <1>41, <1>42, <1>43, <1>44, <1>45,
       <1>46, <1>47, <1>48, <1>49, <1>50, <1>51, <1>52, <1>53, <1>54, <1>55, <1>56
       DEF AskGrabbed, AskOverwrite

(* Where overwriting is off (DBSetAllowOverwrites, silo.c:2488), no function *)
(* that asks calls the driver for a name the directory has already.         *)
THEOREM NothingOverwritten ==
  \A c \in ApiCalls : \A s \in AskOverwrite(c) :
    ~ c.overwrite /\ c.exists => ~ Passes(s)
<1> SUFFICES ASSUME NEW c \in ApiCalls, NEW s \in AskOverwrite(c),
                    ~ c.overwrite, c.exists, Passes(s)
             PROVE  FALSE
  OBVIOUS
<1>1. Passes(Taken(c)) BY Askers
<1> QED BY <1>1, Entrances

(* While a program has taken the driver of any file (DBGrabDriver,           *)
(* silo.c:2836), no function that asks calls the driver of any other.        *)
THEOREM GrabbedKeepsOut ==
  \A c \in ApiCalls : \A s \in AskGrabbed(c) : c.grabbed => ~ Passes(s)
<1> SUFFICES ASSUME NEW c \in ApiCalls, NEW s \in AskGrabbed(c), c.grabbed, Passes(s)
             PROVE  FALSE
  OBVIOUS
<1>1. Passes(Grabbed(c)) BY Readers
<1> QED BY <1>1, Entrances

-----------------------------------------------------------------------------
(* The state of Calls: which object each id of the program is for.         *)

Slot       == Objects \cup {NULL}
CallFields == {"w", "script", "pc", "taken", "again", "guard", "missing", "failed", "said",
               "id", "made", "answer", "left"}

TypeInv ==
  /\ pointers \in Seq(Slot) /\ empty \in Int /\ live \subseteq Objects
  /\ \A h \in held : h.id \in Nat \ {0} /\ h.obj \in Objects
  /\ call # NoCall =>
       /\ DOMAIN call = CallFields
       /\ call.script \in Range(Scripts) /\ call.made \in Slot /\ call.id \in Int
       /\ Releases(call.script) \/ call.id = DB_F77NULL

\* The id under way is about to be taken back.
AtEnd == At("drop") \/ At("forget")

\* The object of an id is gone only when its release failed, or the id is
\* just being taken back.
HeldInv ==
  \A h \in held :
    h.obj \in live \/ h.id \in doubtful \/ (AtEnd /\ h.id = call.id /\ h.obj = Access(call.id))

\* What the table has for an id that is held was given for that id.
SlotInv ==
  \A h \in held : Access(h.id) # NULL => \E g \in held : g.id = h.id /\ g.obj = Access(h.id)

\* No two ids are for one object, one whose release failed apart.
OneIdInv ==
  \A g \in held : \A h \in held :
    g.obj = h.obj /\ g.id # h.id => g.id \in doubtful \/ h.id \in doubtful

\* A call that takes an id back frees the object of no other, and none of
\* its own once it has taken it back.
ReleaseInv ==
  Under =>
    /\ \A h \in held : h.obj = Access(call.id) /\ h.id # call.id => h.id \in doubtful
    /\ Releases(call.script) /\ (\E j \in DOMAIN steps : j < call.pc /\ TakesBack(steps[j])) =>
         \A h \in held : h.id # call.id

\* What a call has made is for no id yet.
MadeInv ==
  Under /\ Makes(call.script) /\ call.made # NULL /\ call.pc \in DOMAIN steps =>
    call.made \in live /\ \A h \in held : h.obj = call.made => h.id \in doubtful

CallInv ==
  TypeInv /\ IdsRefer /\ HeldInv /\ SlotInv /\ OneIdInv /\ ReleaseInv /\ MadeInv

LEMMA Accesses ==
  ASSUME TypeInv
  PROVE  /\ \A i : Access(i) \in Slot /\ (Access(i) # NULL => Access(i) \in Objects)
         /\ Access(0) = NULL /\ Access(-1) = NULL
         /\ \A i : i \in DOMAIN pointers => i \in Nat \ {0} /\ Access(i) = pointers[i]
         /\ \A i : i \notin DOMAIN pointers => Access(i) = NULL
BY DEF TypeInv, Access, Slot

LEMMA NoCallFields == DOMAIN NoCall # CallFields
<1>1. "pc" \in CallFields /\ "pc" \notin DOMAIN NoCall
  BY DEF CallFields, NoCall
<1> QED
  BY <1>1

\* The steps of a function, as ScriptsAssumption has them.
LEMMA StepsShape ==
  ASSUME TypeInv, Under
  PROVE  /\ Len(steps) \in Nat /\ DOMAIN steps = 1..Len(steps)
         /\ DOMAIN call = CallFields /\ call.answer = "none" /\ call.id \in Int
         /\ \A i \in DOMAIN steps : steps[i].op = "give" => i = Len(steps)
         /\ Releases(call.script) =>
              /\ ~ Makes(call.script)
              /\ \A i \in DOMAIN steps :
                   /\ steps[i].op \in {"look", "call", "void", "drop", "forget"}
                   /\ steps[i].op \in {"call", "void"} =>
                        \E j \in DOMAIN steps : j <= i + 1 /\ TakesBack(steps[j])
         /\ ~ Releases(call.script) => call.id = 0
<1>1. call.script \in Range(Scripts) /\ DOMAIN call = CallFields /\ call.answer = "none"
      /\ call.id \in Int
  BY DEF TypeInv, Under, Ended
<1>2. LET ss == call.script.steps
      IN  /\ Len(ss) \in Nat /\ DOMAIN ss = 1..Len(ss)
          /\ \A i \in DOMAIN ss : ss[i].op = "give" => i = Len(ss)
          /\ Releases(call.script) => \A i \in DOMAIN ss :
               /\ ss[i].op \in {"look", "call", "void", "drop", "forget"}
               /\ ss[i].op \in {"call", "void"} => \E j \in DOMAIN ss : j <= i + 1 /\ TakesBack(ss[j])
  BY <1>1, ScriptsAssumption
<1>3. ASSUME Releases(call.script), Makes(call.script) PROVE FALSE
  <2>1. PICK s \in Range(call.script.steps) : s.op \in {"give"}
    BY <1>3 DEF Makes, Of
  <2>2. PICK i \in DOMAIN call.script.steps : s = call.script.steps[i]
    BY <2>1 DEF Range
  <2> QED
    BY <1>2, <1>3, <2>1, <2>2
<1> QED
  BY <1>1, <1>2, <1>3 DEF steps, TypeInv, Under, DB_F77NULL

-----------------------------------------------------------------------------
(* The steps that leave the ids and the objects alone.                     *)

\* c is the call under way, as far as the ids go.
Same(c) ==
  DOMAIN c = CallFields /\ c.script = call.script /\ c.id = call.id /\ c.made = call.made

LEMMA Exits ==
  ASSUME NEW c, Same(c)
  PROVE  /\ \A l : Exit(c, l) => /\ DOMAIN call' = CallFields /\ call'.script = call.script
                                 /\ call'.id = call.id /\ call'.made = call.made
                                 /\ call'.answer = "-1" /\ call'.left = l
         /\ \A pc : Goto(pc, c) => /\ DOMAIN call' = CallFields /\ call'.script = call.script
                                   /\ call'.id = call.id /\ call'.made = call.made
                                   /\ call'.answer = c.answer /\ call'.pc = pc
BY DEF Same, Exit, Goto, CallFields

\* The call goes on or ends, without taking anything back.
Moves ==
  /\ DOMAIN call' = CallFields /\ call'.script = call.script
  /\ call'.id = call.id /\ call'.made = call.made
  /\ call'.answer = "none" =>
       /\ call.pc \in DOMAIN steps
       /\ Releases(call.script) => call'.pc = call.pc + 1

LEMMA Leaves1 ==
  ASSUME TypeInv, Under, NEW c, Same(c)
  PROVE  /\ \A l : Exit(c, l) => Moves /\ call'.answer = "-1" /\ call'.left = l
         /\ Leave(c) => Moves /\ call'.answer = "-1"
         /\ Jump(c) => Moves /\ call'.answer = "-1" /\ call'.left
         /\ \A kind : Thrown(c, kind) => Moves /\ call'.answer = "-1" /\ call'.left
<1>1. Same([c EXCEPT !.guard = {}])
  BY DEF Same, CallFields
<1>2. \A d : Same(d) => \A l : Exit(d, l) => Moves /\ call'.answer = "-1" /\ call'.left = l
  BY Exits DEF Moves
<1> QED
  BY <1>1, <1>2 DEF Leave, Jump, Thrown

LEMMA GoesOn ==
  ASSUME TypeInv, Under, call.pc \in DOMAIN steps, NEW c, Same(c), c.answer = "none"
  PROVE  /\ Next1(c) => Moves /\ call'.answer = "none" /\ call'.pc = call.pc + 1
         /\ ~ Releases(call.script) => \A pc : Goto(pc, c) => Moves
BY Exits DEF Moves, Next1

LEMMA MovesOnly ==
  ASSUME CallInv, Under, Moves, ~ AtEnd, UNCHANGED <<pointers, empty, lost, live, held, doubtful>>
  PROVE  CallInv'
<1>0. TypeInv /\ IdsRefer /\ HeldInv /\ SlotInv /\ OneIdInv /\ ReleaseInv /\ MadeInv
  BY DEF CallInv
<1>1. /\ Len(steps) \in Nat /\ DOMAIN steps = 1..Len(steps) /\ call # NoCall
      /\ call.answer = "none"
  BY <1>0, StepsShape DEF Under
<1>2. /\ \A i : Access(i)' = Access(i) 
      /\ Nulls' = Nulls
  BY DEF Access, Nulls
<1>3. TypeInv'
  BY <1>0, <1>1 DEF TypeInv, Moves
<1>4. IdsRefer'
  BY <1>0, <1>2 DEF IdsRefer
<1>5. HeldInv' /\ SlotInv' /\ OneIdInv'
  BY <1>0, <1>2 DEF HeldInv, SlotInv, OneIdInv
<1>6. Under' => call'.answer = "none"
  BY DEF Under, Ended
<1>7. call'.id = call.id /\ call'.script = call.script /\ call'.made = call.made /\ steps' = steps
  BY DEF Moves, steps
<1>8. ASSUME Under' PROVE \A h \in held : h.obj = Access(call.id) /\ h.id # call.id => h.id \in doubtful
  BY <1>0 DEF ReleaseInv
<1>9. ASSUME Under', Releases(call.script), NEW j \in DOMAIN steps, j < call'.pc, TakesBack(steps[j])
      PROVE  \A h \in held : h.id # call.id
  <2>1. call'.pc = call.pc + 1 /\ call.pc \in DOMAIN steps
    BY <1>6, <1>9 DEF Moves
  <2>2. j # call.pc
    BY <1>9, <2>1 DEF AtEnd, At, TakesBack
  <2>3. j < call.pc
    BY <1>1, <1>9, <2>1, <2>2
  <2> QED
    BY <1>0, <1>9, <2>3 DEF ReleaseInv
<1>10. ReleaseInv'
  BY <1>0, <1>2, <1>7, <1>8, <1>9 DEF ReleaseInv
<1>11. MadeInv'
  BY <1>0, <1>6, <1>7 DEF MadeInv, Moves
<1> QED
  BY <1>3, <1>4, <1>5, <1>10, <1>11 DEF CallInv

\* The steps that only move the call.
LEMMA QuietSteps ==
  ASSUME CallInv, Checked \/ Threw \/ Refused \/ Raised \/ Acquired \/ Copied \/ Freed
                    \/ Branched \/ Died \/ Guarded \/ Looked \/ Return
  PROVE  CallInv'
<1>1. /\ TypeInv /\ Under /\ UNCHANGED <<pointers, empty, lost, live, held, doubtful>>
      /\ \/ call.pc \in DOMAIN steps
         \/ Return
  BY DEF CallInv, Checked, Threw, Refused, Raised, Acquired, Copied, Freed, Branched, Died, Guarded,
         Looked, Return, At, handles, table
<1>2. /\ DOMAIN call = CallFields /\ call.answer = "none" /\ DOMAIN steps = 1..Len(steps)
      /\ Len(steps) \in Nat
  BY <1>1, StepsShape
<1>3. /\ Same(call)
      /\ \A rs : Same(Taking(call, rs)) /\ Taking(call, rs).answer = "none"
      /\ \A S : Same([call EXCEPT !.taken = S]) /\ [call EXCEPT !.taken = S].answer = "none"
      /\ \A S, T : /\ Same([call EXCEPT !.guard = T, !.taken = S])
                   /\ [call EXCEPT !.guard = T, !.taken = S].answer = "none"
      /\ \A T, rs : /\ Same([Taking(call, rs) EXCEPT !.guard = T])
                    /\ [Taking(call, rs) EXCEPT !.guard = T].answer = "none"
      /\ \A T : Same([call EXCEPT !.guard = T]) /\ [call EXCEPT !.guard = T].answer = "none"
      /\ \A b : Same([call EXCEPT !.missing = b]) /\ [call EXCEPT !.missing = b].answer = "none"
  BY <1>2 DEF Same, Taking, CallFields
<1>4. ASSUME call.pc \in DOMAIN steps,
             steps[call.pc].op \notin {"look", "call", "void", "drop", "forget"}
      PROVE  ~ Releases(call.script)
  BY <1>1, <1>4, StepsShape
<1>5. Moves /\ ~ AtEnd => CallInv'
  <2> SUFFICES ASSUME Moves, ~ AtEnd PROVE CallInv'
    OBVIOUS
  <2>1. Under /\ UNCHANGED <<pointers, empty, lost, live, held, doubtful>>
    BY <1>1
  <2> QED
    BY <2>1, MovesOnly
<1> SUFFICES Moves /\ ~ AtEnd
  BY <1>5
<1>6. CASE Checked
  <2>1. ~ AtEnd /\ call.pc \in DOMAIN steps /\ (Next1(call) \/ Leave(call))
    BY <1>6 DEF Checked, At, AtEnd
  <2> QED
    BY <1>1, <1>2, <1>3, <2>1, Leaves1, GoesOn
<1>7. CASE Threw
  BY <1>1, <1>3, <1>7, Leaves1 DEF Threw, At, AtEnd
<1>8. CASE Refused \/ Raised
  <2>1. ~ AtEnd /\ call.pc \in DOMAIN steps /\ (Next1(call) \/ Leave(call) \/ Jump(call))
    BY <1>8 DEF Refused, Raised, At, AtEnd
  <2> QED
    BY <1>1, <1>2, <1>3, <2>1, Leaves1, GoesOn
<1>9. CASE Acquired \/ Copied
  BY <1>1, <1>3, <1>9, Leaves1, GoesOn DEF Acquired, Copied, At, AtEnd
<1>10. CASE Freed
  BY <1>1, <1>3, <1>10, GoesOn DEF Freed, At, AtEnd
<1>11. CASE Branched
  <2>1. \E pc : Goto(pc, call)
    BY <1>11 DEF Branched
  <2>2. ~ AtEnd /\ call.pc \in DOMAIN steps /\ ~ Releases(call.script)
    BY <1>4, <1>11 DEF Branched, At, AtEnd
  <2> QED
    BY <1>1, <1>2, <1>3, <2>1, <2>2, GoesOn
<1>12. CASE Died
  <2>1. ~ AtEnd
    BY <1>12 DEF Died, At, AtEnd
  <2> QED
    BY <1>2, <1>12, <2>1 DEF Died, Crash, Moves, CallFields
<1>13. CASE Guarded
  <2>1. ~ AtEnd /\ call.pc \in DOMAIN steps
    BY <1>13 DEF Guarded, At, AtEnd
  <2>2. \E c : Same(c) /\ c.answer = "none" /\ Next1(c)
    BY <1>3, <1>13 DEF Guarded
  <2> QED
    BY <1>1, <2>1, <2>2, GoesOn
<1>14. CASE Looked
  <2>1. ~ AtEnd /\ call.pc \in DOMAIN steps
    BY <1>14 DEF Looked, At, AtEnd
  <2>2. \/ Crash
        \/ Leave(call)
        \/ \E c : Same(c) /\ c.answer = "none" /\ Next1(c)
    BY <1>3, <1>14 DEF Looked
  <2>3. Crash => Moves
    BY <1>2 DEF Crash, Moves, CallFields
  <2> QED
    BY <1>1, <1>3, <2>1, <2>2, <2>3, GoesOn, Leaves1
<1>15. CASE Return
  <2>1. ~ AtEnd
    BY <1>2, <1>15 DEF Return, At, AtEnd
  <2>2. call' = [call EXCEPT !.answer = IF call.script.told /\ call.said THEN "-1" ELSE "0"]
    BY <1>15 DEF Return
  <2> QED
    BY <1>2, <2>1, <2>2 DEF Moves, CallFields
<1> QED
  BY <1>6, <1>7, <1>8, <1>9, <1>10, <1>11, <1>12, <1>13, <1>14, <1>15

-----------------------------------------------------------------------------
(* The calls of a program, and what a C function makes or frees.           *)

LEMMA Begins ==
  ASSUME CallInv, Begin
  PROVE  CallInv'
<1>0. TypeInv /\ IdsRefer /\ HeldInv /\ SlotInv /\ OneIdInv
  BY DEF CallInv
<1>1. PICK w \in DOMAIN Scripts : Enter(w, Scripts[w])
  BY DEF Begin, EnterOneOf
<1> DEFINE script == Scripts[w]
<1>2. PICK id \in IF Releases(script) THEN (UNION {Ids(k) : k \in Of(script, {"drop", "forget"})}) \ doubtful
                                      ELSE {DB_F77NULL},
           p \in IF w = "DBMKPTR" THEN Objects \ live ELSE {NULL} :
             call' = Entered(w, script, id, p) /\ live' = live \cup ({p} \ {NULL})
  BY <1>1 DEF Enter
<1>3. /\ call = NoCall /\ ~ AtEnd
      /\ UNCHANGED <<pointers, max, empty, lost, held, doubtful>>
      /\ script \in Range(Scripts)
  BY DEF Begin, table, AtEnd, At, Under, Range
<1>4. p \in Slot /\ (p # NULL => p \in Objects \ live) /\ live' \subseteq Objects /\ live \subseteq live'
  BY <1>0, <1>2 DEF Slot, TypeInv
<1>5. /\ Releases(script) => id \notin doubtful
                             /\ (id \in {0, -1} \/ \E h \in held : h.id = id)
      /\ Releases(script) \/ id = DB_F77NULL
      /\ id \in Int
  <2>1. CASE Releases(script)
    <3>1. id \in (UNION {Ids(k) : k \in Of(script, {"drop", "forget"})}) \ doubtful
      BY <1>2, <2>1
    <3>2. PICK k \in Of(script, {"drop", "forget"}) : id \in Ids(k)
      BY <3>1
    <3>3. id \in {0, -1} \/ \E h \in held : h.id = id
      BY <3>2 DEF Ids, DB_F77NULL
    <3>4. id \in Int
      BY <1>0, <3>3 DEF TypeInv
    <3>5. id \notin doubtful
      BY <3>1
    <3> HIDE DEF script
    <3> QED
      BY <2>1, <3>3, <3>4, <3>5
  <2>2. CASE ~ Releases(script)
    BY <1>2, <2>2 DEF DB_F77NULL
  <2> QED
    BY <2>1, <2>2
<1>6. /\ DOMAIN call' = CallFields /\ call'.script = script /\ call'.id = id /\ call'.made = p
      /\ call'.pc = 1 /\ call'.answer = "none"
  BY <1>2 DEF Entered, CallFields
<1> HIDE DEF script
<1>7. (\A i : Access(i)' = Access(i)) /\ Nulls' = Nulls
  BY <1>3 DEF Access, Nulls
<1>8. TypeInv'
  BY <1>0, <1>3, <1>4, <1>5, <1>6 DEF TypeInv
<1>9. IdsRefer'
  BY <1>0, <1>3, <1>7 DEF IdsRefer
<1>10. \A h \in held : h.obj \in live \/ h.id \in doubtful
  BY <1>0, <1>3 DEF HeldInv
<1>11. HeldInv' /\ SlotInv' /\ OneIdInv'
  BY <1>0, <1>3, <1>4, <1>7, <1>10 DEF HeldInv, SlotInv, OneIdInv
<1>12. ASSUME NEW h \in held, h.obj = Access(id), h.id # id PROVE h.id \in doubtful
  <2>1. Access(id) # NULL
    BY <1>0, <1>12, NullAssumption DEF TypeInv
  <2>2. id \notin {0, -1}
    BY <1>0, <2>1, Accesses
  <2>3. PICK g \in held : g.id = id /\ g.obj = Access(id)
    BY <1>0, <1>5, <2>1, <2>2 DEF SlotInv, DB_F77NULL
  <2>4. id \notin doubtful
    BY <1>5, <2>2 DEF DB_F77NULL
  <2> QED
    BY <1>0, <1>12, <2>3, <2>4 DEF OneIdInv
<1>13. ReleaseInv'
  <2>1. ASSUME NEW j \in DOMAIN script.steps, j < 1 PROVE FALSE
    <3>1. j \in 1..Len(script.steps) /\ Len(script.steps) \in Nat
      BY <1>3, ScriptsAssumption
    <3> QED
      BY <2>1, <3>1
  <2> QED
    BY <1>3, <1>6, <1>7, <1>12, <2>1 DEF ReleaseInv, steps
<1>14. MadeInv'
  <2>1. p # NULL => p \in live'
    BY <1>2
  <2> QED
    BY <1>3, <1>4, <1>6, <1>10, <2>1 DEF MadeInv
<1> QED
  BY <1>8, <1>9, <1>11, <1>13, <1>14 DEF CallInv

\* The program takes the answer, or says how errors are to be shown.
LEMMA Between ==
  ASSUME CallInv, UNCHANGED <<pointers, empty, lost, live, held, doubtful>>,
         call' = NoCall, ~ AtEnd
  PROVE  CallInv'
<1>0. TypeInv /\ IdsRefer /\ HeldInv /\ SlotInv /\ OneIdInv
  BY DEF CallInv
<1>1. (\A i : Access(i)' = Access(i)) /\ Nulls' = Nulls /\ ~ Under'
  BY DEF Access, Nulls, Under
<1>2. TypeInv' /\ IdsRefer'
  BY <1>0, <1>1 DEF TypeInv, IdsRefer
<1>3. HeldInv' /\ SlotInv' /\ OneIdInv'
  BY <1>0, <1>1 DEF HeldInv, SlotInv, OneIdInv
<1> QED
  BY <1>1, <1>2, <1>3 DEF CallInv, ReleaseInv, MadeInv

\* A step at which an object goes that the call is to free.
LEMMA Frees ==
  ASSUME CallInv, CallsAnother, Releases(call.script), call'.made = call.made \/ call'.made = NULL,
         DOMAIN call' = CallFields, call'.script = call.script, call'.id = call.id,
         UNCHANGED <<pointers, empty, lost, held>>, live' \in {live, live \ {Access(call.id)}},
         doubtful \subseteq doubtful',
         \/ call'.answer = "none" /\ call'.pc = call.pc + 1
         \/ call'.answer # "none" /\ call.id \in doubtful'
  PROVE  CallInv'
<1>0. TypeInv /\ IdsRefer /\ HeldInv /\ SlotInv /\ OneIdInv /\ ReleaseInv /\ Under
      /\ call.pc \in DOMAIN steps
  BY DEF CallInv, CallsAnother, At
<1>1. /\ Len(steps) \in Nat /\ DOMAIN steps = 1..Len(steps) /\ ~ Makes(call.script)
      /\ call.pc \in Nat
      /\ steps[call.pc].op \in {"call", "void"} /\ ~ TakesBack(steps[call.pc]) /\ ~ AtEnd
  <2>1. steps[call.pc].op \in {"call", "must", "void", "demand"}
    BY DEF CallsAnother, At
  <2>2. steps[call.pc].op \in {"look", "call", "void", "drop", "forget"} /\ ~ Makes(call.script)
        /\ Len(steps) \in Nat /\ DOMAIN steps = 1..Len(steps)
    BY <1>0, StepsShape
  <2> QED
    BY <1>0, <2>1, <2>2 DEF TakesBack, AtEnd, At
<1>2. (\A i : Access(i)' = Access(i)) /\ Nulls' = Nulls /\ steps' = steps
  BY DEF Access, Nulls, steps
<1>3. call' # NoCall
  BY NoCallFields
<1>4. TypeInv' /\ IdsRefer' /\ SlotInv' /\ OneIdInv'
  <2>1. call # NoCall
    BY <1>0 DEF Under
  <2>2. call'.made \in Slot
    BY <1>0, <2>1 DEF TypeInv, Slot
  <2>3. TypeInv'
    BY <1>0, <2>1, <2>2 DEF TypeInv
  <2> QED
    BY <1>0, <1>2, <2>3 DEF IdsRefer, SlotInv, OneIdInv
<1>5. ASSUME NEW h \in held
      PROVE  h.obj \in live' \/ h.id \in doubtful'
               \/ (AtEnd' /\ h.id = call.id /\ h.obj = Access(call.id))
  <2>1. h.obj \in live \/ h.id \in doubtful
    BY <1>0, <1>1 DEF HeldInv
  <2>2. CASE h.obj = Access(call.id) /\ h.id = call.id /\ call'.answer = "none"
    <3>1. PICK j \in DOMAIN steps : j <= call.pc + 1 /\ TakesBack(steps[j])
      BY <1>0, <1>1, StepsShape
    <3>2. ~ (j < call.pc)
      BY <1>0, <2>2, <3>1 DEF ReleaseInv
    <3>3. j = call.pc + 1
      <4>1. j # call.pc
        BY <1>1, <3>1
      <4> QED
        BY <1>1, <3>1, <3>2, <4>1
    <3>4. AtEnd'
      BY <1>2, <1>3, <2>2, <3>1, <3>3 DEF AtEnd, At, Under, Ended, TakesBack
    <3> QED
      BY <2>2, <3>4
  <2>3. CASE h.obj = Access(call.id) /\ h.id # call.id
    BY <1>0, <2>3 DEF ReleaseInv
  <2> QED
    BY <2>1, <2>2, <2>3
<1>6. HeldInv'
  BY <1>2, <1>5 DEF HeldInv
<1>7. ReleaseInv'
  <2>1. ASSUME Under', NEW j \in DOMAIN steps, j < call'.pc, TakesBack(steps[j])
        PROVE  \A h \in held : h.id # call.id
    <3>1. call'.pc = call.pc + 1
      BY <2>1 DEF Under, Ended
    <3>2. j # call.pc /\ j \in Nat
      BY <1>1, <2>1
    <3>3. j < call.pc
      BY <1>1, <2>1, <3>1, <3>2
    <3> QED
      BY <1>0, <2>1, <3>3 DEF ReleaseInv
  <2>2. \A h \in held : h.obj = Access(call.id) /\ h.id # call.id => h.id \in doubtful'
    BY <1>0 DEF ReleaseInv
  <2> QED
    BY <1>2, <2>1, <2>2 DEF ReleaseInv
<1>8. MadeInv'
  BY <1>1 DEF MadeInv
<1> QED
  BY <1>4, <1>6, <1>7, <1>8 DEF CallInv

LEMMA SucceedsKeeps ==
  ASSUME CallInv, Succeeds
  PROVE  CallInv'
<1>0. TypeInv /\ IdsRefer /\ HeldInv /\ SlotInv /\ OneIdInv /\ ReleaseInv /\ Under /\ ~ AtEnd
      /\ call.pc \in DOMAIN steps /\ CallsAnother
  BY DEF CallInv, Succeeds, CallsAnother, At, AtEnd
<1>1. PICK p \in IF Makes(call.script) THEN Objects \ live ELSE {NULL} :
        /\ Next1([call EXCEPT !.made = p])
        /\ live' = IF Releases(call.script) THEN live \ {Access(call.id)}
                                            ELSE live \cup ({p} \ {NULL})
  BY DEF Succeeds
<1>2. /\ UNCHANGED <<pointers, empty, lost, held, doubtful>>
      /\ DOMAIN call = CallFields /\ call.answer = "none" /\ call # NoCall
  BY <1>0, StepsShape DEF Succeeds, table, Under
<1>3. /\ DOMAIN call' = CallFields /\ call'.script = call.script /\ call'.id = call.id
      /\ call'.made = p /\ call'.answer = "none" /\ call'.pc = call.pc + 1
  BY <1>1, <1>2 DEF Next1, Goto, CallFields
<1>4. CASE Releases(call.script)
  <2>1. p = NULL
    BY <1>0, <1>1, <1>4, StepsShape
  <2> QED
    BY <1>0, <1>1, <1>2, <1>3, <1>4, <2>1, Frees
<1>5. CASE ~ Releases(call.script)
  <2>1. call.id = 0 /\ Access(call.id) = NULL
    BY <1>0, <1>5, StepsShape, Accesses
  <2>2. p \in Slot /\ (p # NULL => p \in Objects \ live /\ p \in live') /\ live \subseteq live'
        /\ live' \subseteq Objects
    BY <1>0, <1>1, <1>5 DEF Slot, TypeInv
  <2>3. (\A i : Access(i)' = Access(i)) /\ Nulls' = Nulls /\ steps' = steps
    BY <1>2, <1>3 DEF Access, Nulls, steps
  <2>4. \A h \in held : h.obj \in live \/ h.id \in doubtful
    BY <1>0 DEF HeldInv
  <2>5. TypeInv'
    BY <1>0, <1>2, <1>3, <2>2 DEF TypeInv
  <2>6. IdsRefer' /\ SlotInv' /\ OneIdInv'
    BY <1>0, <1>2, <2>3 DEF IdsRefer, SlotInv, OneIdInv
  <2>7. HeldInv'
    BY <1>2, <2>2, <2>4 DEF HeldInv
  <2>8. ReleaseInv'
    BY <1>0, <1>2, <1>3, <1>5, <2>1, <2>3, NullAssumption DEF ReleaseInv, TypeInv
  <2>9. MadeInv'
    BY <1>2, <1>3, <2>2, <2>4 DEF MadeInv
  <2> QED
    BY <2>5, <2>6, <2>7, <2>8, <2>9 DEF CallInv
<1> QED
  BY <1>4, <1>5

LEMMA FailsKeeps ==
  ASSUME CallInv, Fails
  PROVE  CallInv'
<1> DEFINE c == [call EXCEPT !.failed = TRUE, !.said = @ \/ At("call")]
           d == [c EXCEPT !.taken = @ \ args]
<1>0. TypeInv /\ Under /\ ~ AtEnd /\ call.pc \in DOMAIN steps /\ CallsAnother
  BY DEF CallInv, Fails, CallsAnother, At, AtEnd
<1>1. /\ UNCHANGED <<pointers, empty, lost, held>>
      /\ doubtful' = IF Releases(call.script) /\ call'.left THEN doubtful \cup {call.id} ELSE doubtful
      /\ live' \in {live} \cup {live \ {Access(i)} : i \in {call.id} \cap DOMAIN pointers}
      /\ DOMAIN call = CallFields /\ call.answer = "none" /\ call # NoCall
  BY <1>0, StepsShape DEF Fails, table, Under
<1>2. /\ Same(c) /\ c.answer = "none" /\ Same(d)
  BY <1>1 DEF Same, CallFields
<1>3. \/ Jump(c) \/ \E way \in Kinds : Thrown(c, way)
      \/ (At("must") \/ At("demand")) /\ (Leave(d) \/ Thrown(d, steps[call.pc].kind))
      \/ Next1(c)
  BY DEF Fails
<1> HIDE DEF c, d
<1>4. /\ Moves
      /\ \/ call'.answer = "none" /\ call'.pc = call.pc + 1
         \/ call'.answer # "none" /\ call'.left
         \/ At("must") \/ At("demand")
  <2>1. Jump(c) => Moves /\ call'.answer # "none" /\ call'.left
    BY <1>0, <1>2, Leaves1
  <2>2. \A way : Thrown(c, way) => Moves /\ call'.answer # "none" /\ call'.left
    BY <1>0, <1>2, Leaves1
  <2>3. Leave(d) \/ Thrown(d, steps[call.pc].kind) => Moves
    BY <1>0, <1>2, Leaves1
  <2>4. Next1(c) => Moves /\ call'.answer = "none" /\ call'.pc = call.pc + 1
    BY <1>0, <1>2, GoesOn
  <2> QED
    BY <1>3, <2>1, <2>2, <2>3, <2>4
<1>5. CASE Releases(call.script)
  <2>1. ~ At("must") /\ ~ At("demand")
    BY <1>0, <1>5, StepsShape DEF At
  <2>2. /\ live' \in {live, live \ {Access(call.id)}} /\ doubtful \subseteq doubtful'
        /\ call'.left => call.id \in doubtful'
    BY <1>1, <1>5
  <2> QED
    BY <1>0, <1>1, <1>4, <1>5, <2>1, <2>2, Frees DEF Moves
<1>6. CASE ~ Releases(call.script)
  <2>1. call.id \notin DOMAIN pointers
    BY <1>0, <1>6, StepsShape, Accesses
  <2>2. live' = live /\ doubtful' = doubtful
    BY <1>1, <1>6, <2>1
  <2> QED
    BY <1>0, <1>1, <1>4, <2>2, MovesOnly
<1> QED
  BY <1>5, <1>6

-----------------------------------------------------------------------------
(* An id is given, and is taken back.                                      *)

\* A nonempty set of slots has a last one.
LEMMA LastSlot ==
  ASSUME NEW n \in Nat, NEW S, S \subseteq 1..n, S # {}
  PROVE  \E i \in S : \A j \in S : j <= i
<1> DEFINE Up(k) == \E i \in S : n - i = k
           D     == {k \in Nat : Up(k)}
<1>1. PICK s \in S : TRUE
  OBVIOUS
<1>2. n - s \in D
  OBVIOUS
<1>3. PICK k \in D : \A m \in D : ~ (m < k)
  <2>1. IsWellFoundedOn(OpToRel(<, Nat), Nat)
    BY NatLessThanWellFounded
  <2>2. D \subseteq Nat /\ D # {}
    BY <1>2
  <2>3. \E k \in D : \A m \in D : ~ (<<m, k>> \in OpToRel(<, Nat))
    <3> HIDE DEF D
    <3> QED
      BY <2>1, <2>2, WFMin
  <2> QED
    BY <2>3 DEF OpToRel
<1>4. PICK i \in S : n - i = k
  BY <1>3
<1>5. ASSUME NEW j \in S PROVE j <= i
  <2>1. n - j \in D
    BY <1>5
  <2>2. ~ (n - j < k)
    BY <1>3, <2>1
  <2> QED
    BY <1>4, <2>2
<1> QED
  BY <1>4, <1>5

LEMMA Places ==
  ASSUME TypeInv
  PROVE  /\ Place \in Nat \ {0}
         /\ \/ Place \in Nulls
            \/ Place = Len(pointers) + 1 /\ Place \notin DOMAIN pointers
<1>1. Len(pointers) \in Nat /\ DOMAIN pointers = 1..Len(pointers)
  BY DEF TypeInv
<1>2. CASE empty > 0 /\ Nulls # {}
  <2>1. Nulls \subseteq 1..Len(pointers)
    BY <1>1 DEF Nulls
  <2>2. \E i \in Nulls : \A j \in Nulls : j <= i
    BY <1>1, <1>2, <2>1, LastSlot
  <2>3. Place = CHOOSE i \in Nulls : \A j \in Nulls : j <= i
    BY <1>2 DEF Place
  <2>4. Place \in Nulls
    BY <2>2, <2>3
  <2> QED
    BY <1>1, <2>1, <2>4
<1>3. CASE ~ (empty > 0 /\ Nulls # {})
  <2>1. Place = Len(pointers) + 1
    BY <1>3 DEF Place
  <2> QED
    BY <1>1, <2>1
<1> QED
  BY <1>2, <1>3

LEMMA NullsFinite ==
  ASSUME TypeInv
  PROVE  IsFiniteSet(Nulls) /\ Cardinality(Nulls) \in Nat
<1>1. Len(pointers) \in Nat /\ DOMAIN pointers = 1..Len(pointers)
  BY DEF TypeInv
<1>2. IsFiniteSet(1..Len(pointers))
  BY <1>1, FS_Interval
<1>3. Nulls \subseteq 1..Len(pointers)
  BY <1>1 DEF Nulls
<1> QED
  BY <1>2, <1>3, FS_Subset, FS_CardinalityType

\* What DBFortranAllocPointer does to the table, at an id of which it holds
\* nothing.
LEMMA Allocates ==
  ASSUME TypeInv, NEW p \in Objects, NEW q, q = Place, AllocPointer(p, q)
  PROVE  /\ pointers' \in Seq(Slot) /\ empty' \in Int /\ lost' = lost
         /\ Access(q) = NULL /\ Access(q)' = p
         /\ \A i : i # q => Access(i)' = Access(i)
         /\ empty = Cardinality(Nulls) => empty' = Cardinality(Nulls)'
<1>0. /\ q \in Nat \ {0}
      /\ q \in Nulls \/ (q = Len(pointers) + 1 /\ q \notin DOMAIN pointers)
      /\ IsFiniteSet(Nulls) /\ Cardinality(Nulls) \in Nat
      /\ pointers \in Seq(Slot) /\ empty \in Int /\ p \in Slot /\ p # NULL
  BY Places, NullsFinite, NullAssumption DEF TypeInv, Slot
<1>1. /\ pointers' = IF q \in DOMAIN pointers THEN [pointers EXCEPT ![q] = p] ELSE Append(pointers, p)
      /\ empty' = IF q \in DOMAIN pointers THEN empty - 1 ELSE empty
      /\ lost' = lost
  BY DEF AllocPointer
<1>2. CASE q \in Nulls
  <2>1. q \in DOMAIN pointers /\ pointers[q] = NULL
    BY <1>2 DEF Nulls
  <2>2. /\ pointers' = [pointers EXCEPT ![q] = p] /\ empty' = empty - 1
        /\ pointers' \in Seq(Slot) /\ DOMAIN pointers' = DOMAIN pointers
        /\ pointers'[q] = p /\ \A i \in DOMAIN pointers : i # q => pointers'[i] = pointers[i]
    BY <1>0, <1>1, <2>1
  <2>3. /\ Access(q) = NULL /\ Access(q)' = p
        /\ \A i : i # q => Access(i)' = Access(i)
    BY <2>1, <2>2 DEF Access
  <2>4. Nulls' = Nulls \ {q}
    BY <1>0, <2>1, <2>2 DEF Nulls
  <2>5. Cardinality(Nulls \ {q}) = Cardinality(Nulls) - 1
    BY <1>0, <1>2, FS_RemoveElement
  <2> QED
    BY <1>0, <1>1, <2>2, <2>3, <2>4, <2>5 DEF Access
<1>3. CASE q = Len(pointers) + 1 /\ q \notin DOMAIN pointers
  <2>1. /\ pointers' = Append(pointers, p) /\ empty' = empty
        /\ pointers' \in Seq(Slot) /\ DOMAIN pointers' = DOMAIN pointers \cup {q}
        /\ pointers'[q] = p /\ \A i \in DOMAIN pointers : i # q => pointers'[i] = pointers[i]
    BY <1>0, <1>1, <1>3
  <2>2. /\ Access(q) = NULL /\ Access(q)' = p
        /\ \A i : i # q => Access(i)' = Access(i)
    BY <1>3, <2>1 DEF Access
  <2>3. Nulls' = Nulls
    BY <1>0, <1>3, <2>1 DEF Nulls
  <2> QED
    BY <1>0, <1>1, <2>1, <2>2, <2>3 DEF Access
<1> QED
  BY <1>0, <1>2, <1>3

LEMMA AllocatedKeeps ==
  ASSUME CallInv, At("give"), call.made # NULL, NEW kind \in args, NEW q, q = Place,
         AllocPointer(call.made, q), Next1(call), UNCHANGED <<live, doubtful>>,
         held' = held \cup {[id |-> q, kind |-> kind, obj |-> call.made]}
  PROVE  CallInv'
<1> DEFINE new == [id |-> q, kind |-> kind, obj |-> call.made]
<1>0. TypeInv /\ IdsRefer /\ HeldInv /\ SlotInv /\ OneIdInv /\ MadeInv /\ Under /\ ~ AtEnd
      /\ call # NoCall /\ call.pc \in DOMAIN steps /\ steps[call.pc].op = "give"
  BY DEF CallInv, At, AtEnd, Under
<1>1. /\ Len(steps) \in Nat /\ DOMAIN steps = 1..Len(steps) /\ call.pc = Len(steps)
      /\ DOMAIN call = CallFields /\ call.answer = "none"
      /\ Makes(call.script) /\ ~ Releases(call.script) /\ call.id = 0
  <2>1. Makes(call.script)
    <3>1. steps[call.pc] \in {s \in Range(steps) : s.op \in {"give"}}
      BY <1>0 DEF Range
    <3>2. kind \in Of(call.script, {"give"})
      BY <3>1 DEF Of, steps, args
    <3> QED
      BY <3>2 DEF Makes
  <2> QED
    BY <1>0, <2>1, StepsShape
<1>2. call.made \in Objects /\ call.made \in live
      /\ \A h \in held : h.obj = call.made => h.id \in doubtful
  BY <1>0, <1>1 DEF TypeInv, Slot, MadeInv
<1>3. /\ pointers' \in Seq(Slot) /\ empty' \in Int /\ lost' = lost
      /\ Access(q) = NULL /\ Access(q)' = call.made
      /\ \A i : i # q => Access(i)' = Access(i)
      /\ empty = Cardinality(Nulls) => empty' = Cardinality(Nulls)'
      /\ q \in Nat \ {0}
  BY <1>0, <1>2, Allocates, Places
<1>4. /\ DOMAIN call' = CallFields /\ call'.script = call.script /\ call'.id = 0
      /\ call'.made = call.made /\ call'.answer = "none" /\ call'.pc = call.pc + 1
      /\ steps' = steps /\ call' # NoCall
  <2>1. Same(call)
    BY <1>1 DEF Same
  <2>2. /\ DOMAIN call' = CallFields /\ call'.script = call.script /\ call'.id = 0
        /\ call'.made = call.made /\ call'.answer = "none" /\ call'.pc = call.pc + 1
    BY <1>1, <2>1, Exits DEF Next1
  <2> QED
    BY <2>2, NoCallFields DEF steps
<1>5. call'.pc \notin DOMAIN steps
  BY <1>1, <1>4
<1>6. TypeInv'
  BY <1>0, <1>1, <1>2, <1>3, <1>4 DEF TypeInv
<1>7. \A h \in held' : h \in held \/ (h.id = q /\ h.obj = call.made)
  OBVIOUS
<1>8. IdsRefer'
  <2>1. ASSUME ~ lost, NEW h \in held PROVE Access(h.id)' = h.obj
    <3>1. Access(h.id) = h.obj /\ h.obj # NULL
      BY <1>0, <2>1, NullAssumption DEF IdsRefer, TypeInv
    <3> QED
      BY <1>3, <3>1
  <2>2. ASSUME ~ lost, NEW h \in held' PROVE Access(h.id)' = h.obj
    BY <1>3, <1>7, <2>1, <2>2
  <2> QED
    BY <1>0, <1>3, <2>2 DEF IdsRefer
<1>9. HeldInv'
  <2>1. \A h \in held : h.obj \in live \/ h.id \in doubtful
    BY <1>0 DEF HeldInv
  <2> QED
    BY <1>2, <1>7, <2>1 DEF HeldInv
<1>10. SlotInv'
  <2>1. ASSUME NEW h \in held', Access(h.id)' # NULL
        PROVE  \E g \in held' : g.id = h.id /\ g.obj = Access(h.id)'
    <3>1. CASE h.id = q
      <4>1. new \in held' /\ new.id = h.id /\ new.obj = Access(h.id)'
        BY <1>3, <3>1
      <4> QED
        BY <4>1
    <3>2. CASE h.id # q
      <4>1. h \in held /\ Access(h.id) # NULL /\ Access(h.id)' = Access(h.id)
        BY <1>3, <1>7, <2>1, <3>2
      <4>2. PICK g \in held : g.id = h.id /\ g.obj = Access(h.id)
        BY <1>0, <4>1 DEF SlotInv
      <4> QED
        BY <4>1, <4>2
    <3> QED
      BY <3>1, <3>2
  <2> QED
    BY <2>1 DEF SlotInv
<1>11. OneIdInv'
  <2>1. ASSUME NEW g \in held', NEW h \in held', g.obj = h.obj, g.id # h.id
        PROVE  g.id \in doubtful \/ h.id \in doubtful
    <3>1. CASE g \in held /\ h \in held
      BY <1>0, <2>1, <3>1 DEF OneIdInv
    <3>2. CASE g \notin held \/ h \notin held
      BY <1>2, <1>7, <2>1, <3>2
    <3> QED
      BY <3>1, <3>2
  <2> QED
    BY <2>1 DEF OneIdInv
<1>12. ReleaseInv'
  <2>1. Access(0)' = NULL
    BY <1>0, <1>3, Accesses
  <2>2. \A h \in held' : h.obj # NULL
    BY <1>6, NullAssumption DEF TypeInv
  <2>3. Access(call.id)' = Access(0)'
    BY <1>4 DEF Access
  <2> QED
    BY <1>1, <1>4, <2>1, <2>2, <2>3 DEF ReleaseInv
<1>13. MadeInv'
  BY <1>4, <1>5 DEF MadeInv
<1> QED
  BY <1>6, <1>8, <1>9, <1>10, <1>11, <1>12, <1>13 DEF CallInv

LEMMA NotAllocatedKeeps ==
  ASSUME CallInv, At("give"), AllocFails, UNCHANGED <<live, doubtful, held>>,
         Jump(call) \/ Next1(call)
  PROVE  CallInv'
<1>0. TypeInv /\ IdsRefer /\ HeldInv /\ SlotInv /\ OneIdInv /\ ReleaseInv /\ Under /\ ~ AtEnd
      /\ call # NoCall /\ call.pc \in DOMAIN steps /\ steps[call.pc].op = "give"
  BY DEF CallInv, At, AtEnd, Under
<1>1. /\ Len(steps) \in Nat /\ DOMAIN steps = 1..Len(steps) /\ call.pc = Len(steps)
      /\ DOMAIN call = CallFields /\ call.answer = "none"
  BY <1>0, StepsShape
<1>2. pointers' = <<>> /\ lost' = (lost \/ pointers # <<>>) /\ empty' = empty
  BY DEF AllocFails
<1>3. ~ Releases(call.script)
  BY <1>0, StepsShape
<1>4. Moves /\ (call'.answer = "none" => call'.pc = call.pc + 1)
  <2>1. Same(call)
    BY <1>1 DEF Same
  <2> QED
    BY <1>0, <1>1, <2>1, Leaves1, GoesOn
<1>5. /\ DOMAIN call' = CallFields /\ call'.script = call.script /\ call'.id = call.id
      /\ call'.made = call.made /\ steps' = steps
  BY <1>4 DEF Moves, steps
<1>6. \A i : Access(i)' = NULL
  BY <1>2 DEF Access
<1>7. \A h \in held : h.obj # NULL
  BY <1>0, NullAssumption DEF TypeInv
<1>8. TypeInv'
  <2>1. pointers' \in Seq(Slot)
    BY <1>2
  <2> QED
    BY <1>0, <1>2, <1>5, <2>1 DEF TypeInv
<1>9. IdsRefer'
  <2>1. ASSUME ~ lost' PROVE pointers' = pointers /\ ~ lost
    BY <1>2, <2>1
  <2>2. ASSUME ~ lost' PROVE Nulls' = Nulls /\ \A i : Access(i)' = Access(i)
    BY <2>1, <2>2 DEF Nulls, Access
  <2> QED
    BY <1>0, <1>2, <2>1, <2>2 DEF IdsRefer
<1>10. HeldInv' /\ SlotInv' /\ OneIdInv'
  BY <1>0, <1>6 DEF HeldInv, SlotInv, OneIdInv
<1>11. ReleaseInv'
  BY <1>3, <1>5, <1>6, <1>7 DEF ReleaseInv
<1>12. MadeInv'
  <2>1. ASSUME Under' PROVE call'.pc \notin DOMAIN steps
    BY <1>1, <1>4, <2>1 DEF Under, Ended
  <2> QED
    BY <1>5, <2>1 DEF MadeInv
<1> QED
  BY <1>8, <1>9, <1>10, <1>11, <1>12 DEF CallInv

LEMMA RegisteredKeeps ==
  ASSUME CallInv, Registered
  PROVE  CallInv'
<1>0. TypeInv /\ At("give") /\ UNCHANGED <<live, doubtful>> /\ ~ AtEnd /\ Under
      /\ call.pc \in DOMAIN steps
  BY DEF CallInv, Registered, At, AtEnd
<1>1. CASE call.made = NULL
  <2>1. Next1(call) /\ UNCHANGED <<pointers, empty, lost, held>>
    BY <1>1 DEF Registered, table
  <2>2. Same(call) /\ call.answer = "none"
    BY <1>0, StepsShape DEF Same
  <2>3. Moves
    BY <1>0, <2>1, <2>2, GoesOn
  <2> QED
    BY <1>0, <2>1, <2>3, MovesOnly
<1>2. CASE call.made # NULL
  <2>1. \/ /\ AllocPointer(call.made, Place) /\ Next1(call)
           /\ \E kind \in args : held' = held \cup
                {[id |-> Place, kind |-> kind, obj |-> call.made]}
        \/ AllocFails /\ (Jump(call) \/ Next1(call)) /\ UNCHANGED held
    BY <1>2 DEF Registered
  <2>2. PICK q : q = Place
    OBVIOUS
  <2>3. CASE AllocPointer(call.made, q) /\ Next1(call)
             /\ \E kind \in args : held' = held \cup {[id |-> q, kind |-> kind, obj |-> call.made]}
    BY <1>0, <1>2, <2>2, <2>3, AllocatedKeeps
  <2>4. CASE AllocFails /\ (Jump(call) \/ Next1(call)) /\ UNCHANGED held
    BY <1>0, <2>4, NotAllocatedKeeps
  <2> QED
    BY <2>1, <2>2, <2>3, <2>4
<1> QED
  BY <1>1, <1>2

\* The call ends where an id was to be taken back for which the table has
\* nothing.
LEMMA StopsKeeps ==
  ASSUME CallInv, AtEnd, Access(call.id) = NULL, Moves, call'.answer # "none",
         UNCHANGED <<pointers, empty, lost, live, held, doubtful>>
  PROVE  CallInv'
<1>0. TypeInv /\ IdsRefer /\ HeldInv /\ SlotInv /\ OneIdInv /\ call # NoCall
  BY DEF CallInv, AtEnd, At, Under
<1>1. (\A i : Access(i)' = Access(i)) /\ Nulls' = Nulls /\ ~ Under'
  BY DEF Access, Nulls, Under, Ended
<1>2. TypeInv' /\ IdsRefer'
  BY <1>0, <1>1 DEF TypeInv, IdsRefer, Moves
<1>3. \A h \in held : h.obj \in live \/ h.id \in doubtful
  BY <1>0, NullAssumption DEF HeldInv, TypeInv
<1>4. HeldInv' /\ SlotInv' /\ OneIdInv'
  BY <1>0, <1>1, <1>3 DEF HeldInv, SlotInv, OneIdInv
<1> QED
  BY <1>1, <1>2, <1>4 DEF CallInv, ReleaseInv, MadeInv

\* The program's variable no longer holds the id; the table is as it was.
LEMMA UnsetKeeps ==
  ASSUME CallInv, AtEnd, Unset, Next1(call), UNCHANGED <<pointers, empty, lost, live>>
  PROVE  CallInv'
<1>0. TypeInv /\ IdsRefer /\ HeldInv /\ SlotInv /\ OneIdInv /\ ReleaseInv /\ MadeInv
      /\ Under /\ call # NoCall /\ call.pc \in DOMAIN steps
  BY DEF CallInv, AtEnd, At, Under
<1>1. held' = {h \in held : h.id # call.id} /\ doubtful' = doubtful \ {call.id}
  BY DEF Unset
<1>2. (\A i : Access(i)' = Access(i)) /\ Nulls' = Nulls
  BY DEF Access, Nulls
<1>3. /\ DOMAIN call' = CallFields /\ call'.script = call.script /\ call'.id = call.id
      /\ call'.made = call.made /\ steps' = steps /\ call' # NoCall
  <2>1. Same(call)
    BY <1>0, StepsShape DEF Same
  <2>2. /\ DOMAIN call' = CallFields /\ call'.script = call.script /\ call'.id = call.id
        /\ call'.made = call.made
    BY <2>1, Exits DEF Next1
  <2> QED
    BY <2>2, NoCallFields DEF steps
<1>4. TypeInv'
  BY <1>0, <1>1, <1>3 DEF TypeInv
<1>5. IdsRefer'
  BY <1>0, <1>1, <1>2 DEF IdsRefer
<1>6. HeldInv'
  BY <1>0, <1>1 DEF HeldInv
<1>7. SlotInv'
  BY <1>0, <1>1, <1>2 DEF SlotInv
<1>8. OneIdInv'
  BY <1>0, <1>1 DEF OneIdInv
<1>9. ReleaseInv'
  <2>1. \A h \in held' : h.id # call.id
    BY <1>1
  <2>2. \A h \in held' : h.obj = Access(call.id) /\ h.id # call.id => h.id \in doubtful'
    BY <1>0, <1>1 DEF ReleaseInv
  <2> QED
    BY <1>2, <1>3, <2>1, <2>2 DEF ReleaseInv
<1>10. MadeInv'
  BY <1>0, <1>1, <1>3 DEF MadeInv
<1> QED
  BY <1>4, <1>5, <1>6, <1>7, <1>8, <1>9, <1>10 DEF CallInv

\* DBFortranRemovePointer empties the slot.
LEMMA RemovedKeeps ==
  ASSUME CallInv, AtEnd, Access(call.id) # NULL, RemovePointer(call.id), Unset, Next1(call),
         live' \in {live, live \ {Access(call.id)}}
  PROVE  CallInv'
<1>0. TypeInv /\ IdsRefer /\ HeldInv /\ SlotInv /\ OneIdInv /\ ReleaseInv
      /\ Under /\ call # NoCall /\ call.pc \in DOMAIN steps
  BY DEF CallInv, AtEnd, At, Under
<1>1. held' = {h \in held : h.id # call.id} /\ doubtful' = doubtful \ {call.id}
  BY DEF Unset
<1>2. /\ DOMAIN call' = CallFields /\ call'.script = call.script /\ call'.id = call.id
      /\ call'.made = call.made /\ steps' = steps /\ call' # NoCall
  <2>1. Same(call)
    BY <1>0, StepsShape DEF Same
  <2>2. /\ DOMAIN call' = CallFields /\ call'.script = call.script /\ call'.id = call.id
        /\ call'.made = call.made
    BY <2>1, Exits DEF Next1
  <2> QED
    BY <2>2, NoCallFields DEF steps
<1>3. Releases(call.script) /\ ~ Makes(call.script)
  BY <1>0, StepsShape, Accesses
<1>4. call.id \in DOMAIN pointers /\ pointers[call.id] # NULL /\ pointers \in Seq(Slot)
      /\ empty \in Int /\ NULL \in Slot
  BY <1>0 DEF Access, TypeInv, Slot
<1>5. /\ pointers' = [pointers EXCEPT ![call.id] = NULL] /\ empty' = empty + 1 /\ lost' = lost
      /\ pointers' \in Seq(Slot) /\ DOMAIN pointers' = DOMAIN pointers
      /\ pointers'[call.id] = NULL
      /\ \A i \in DOMAIN pointers : i # call.id => pointers'[i] = pointers[i]
  BY <1>4 DEF RemovePointer
<1>6. /\ \A i : i # call.id => Access(i)' = Access(i)
      /\ Access(call.id)' = NULL
  <2>1. \A i : i # call.id => Access(i)' = Access(i)
    BY <1>5 DEF Access
  <2>2. Access(call.id)' = NULL
    BY <1>2, <1>5 DEF Access
  <2> QED
    BY <2>1, <2>2
<1>7. live' \subseteq Objects
  BY <1>0 DEF TypeInv
<1>8. TypeInv'
  BY <1>0, <1>1, <1>2, <1>5, <1>7 DEF TypeInv
<1>9. IdsRefer'
  <2>1. Nulls' = Nulls \cup {call.id} /\ call.id \notin Nulls
    BY <1>4, <1>5 DEF Nulls
  <2>2. IsFiniteSet(Nulls) /\ Cardinality(Nulls) \in Nat
    BY <1>0, NullsFinite
  <2>3. Cardinality(Nulls)' = Cardinality(Nulls) + 1
    BY <2>1, <2>2, FS_AddElement
  <2>4. ASSUME ~ lost PROVE empty' = Cardinality(Nulls)'
    BY <1>0, <1>5, <2>3, <2>4 DEF IdsRefer
  <2>5. ASSUME ~ lost, NEW h \in held' PROVE Access(h.id)' = h.obj
    BY <1>0, <1>1, <1>6, <2>5 DEF IdsRefer
  <2> QED
    BY <1>5, <2>4, <2>5 DEF IdsRefer
<1>10. HeldInv'
  <2>1. ASSUME NEW h \in held' PROVE h.obj \in live' \/ h.id \in doubtful'
    <3>1. h \in held /\ h.id # call.id
      BY <1>1
    <3>2. h.obj \in live \/ h.id \in doubtful
      BY <1>0, <3>1 DEF HeldInv
    <3>3. h.obj = Access(call.id) => h.id \in doubtful
      BY <1>0, <3>1 DEF ReleaseInv
    <3> QED
      BY <1>1, <3>1, <3>2, <3>3
  <2> QED
    BY <2>1 DEF HeldInv
<1>11. SlotInv'
  <2>1. ASSUME NEW h \in held', Access(h.id)' # NULL
        PROVE  \E g \in held' : g.id = h.id /\ g.obj = Access(h.id)'
    <3>1. h \in held /\ h.id # call.id /\ Access(h.id)' = Access(h.id)
      BY <1>1, <1>6
    <3>2. PICK g \in held : g.id = h.id /\ g.obj = Access(h.id)
      BY <1>0, <2>1, <3>1 DEF SlotInv
    <3> QED
      BY <1>1, <3>1, <3>2
  <2> QED
    BY <2>1 DEF SlotInv
<1>12. OneIdInv'
  BY <1>0, <1>1 DEF OneIdInv
<1>13. ReleaseInv'
  <2>1. \A h \in held' : h.id # call.id /\ h.obj # NULL
    BY <1>0, <1>1, NullAssumption DEF TypeInv
  <2> QED
    BY <1>2, <1>6, <2>1 DEF ReleaseInv
<1>14. MadeInv'
  BY <1>2, <1>3 DEF MadeInv
<1> QED
  BY <1>8, <1>9, <1>10, <1>11, <1>12, <1>13, <1>14 DEF CallInv

LEMMA DroppedKeeps ==
  ASSUME CallInv, Dropped
  PROVE  CallInv'
<1>0. TypeInv /\ Under /\ AtEnd /\ call.pc \in DOMAIN steps
  BY DEF CallInv, Dropped, At, AtEnd
<1>1. DOMAIN call = CallFields /\ call.answer = "none" /\ Same(call)
  BY <1>0, StepsShape DEF Same
<1>2. CASE /\ Access(call.id) # NULL
           /\ RemovePointer(call.id)
           /\ Unset
           /\ live' = IF error # "bare" THEN live ELSE live \ {pointers[call.id]}
           /\ Next1(call)
  <2>1. pointers[call.id] = Access(call.id)
    BY <1>2 DEF Access
  <2> QED
    BY <1>0, <1>2, <2>1, RemovedKeeps
<1>3. CASE Gone(call.id) /\ Crash /\ UNCHANGED <<table, live, held, doubtful>>
  <2>1. Access(call.id) = NULL
    BY <1>3 DEF Access, Gone
  <2>2. Moves /\ call'.answer # "none"
    BY <1>1, <1>3 DEF Crash, Moves, CallFields
  <2> QED
    BY <1>0, <1>3, <2>1, <2>2, StopsKeeps DEF table
<1>4. CASE Access(call.id) = NULL /\ Jump(call) /\ UNCHANGED <<table, live, held, doubtful>>
  <2>1. Moves /\ call'.answer # "none"
    BY <1>0, <1>1, <1>4, Leaves1
  <2> QED
    BY <1>0, <1>4, <2>1, StopsKeeps DEF table
<1>5. CASE Next1(call) /\ Unset /\ UNCHANGED <<table, live>>
  BY <1>0, <1>5, UnsetKeeps DEF table
<1> QED
  BY <1>2, <1>3, <1>4, <1>5 DEF Dropped

-----------------------------------------------------------------------------
(* The theorems.                                                           *)

LEMMA CallStarts == Init => CallInv
<1> SUFFICES ASSUME Init PROVE CallInv
  OBVIOUS
<1>1. pointers = <<>> /\ empty = 0 /\ live = {} /\ held = {} /\ call = NoCall
  BY DEF Init
<1>2. Nulls = {}
  BY <1>1 DEF Nulls
<1>3. Cardinality(Nulls) = 0
  BY <1>2, FS_EmptySet
<1>4. TypeInv
  BY <1>1 DEF TypeInv
<1> QED
  BY <1>1, <1>3, <1>4 DEF CallInv, IdsRefer, HeldInv, SlotInv, OneIdInv, ReleaseInv, MadeInv, Under

LEMMA CallKept == CallInv /\ [Next]_vars => CallInv'
<1> SUFFICES ASSUME CallInv, [Next]_vars PROVE CallInv'
  OBVIOUS
<1>1. CASE UNCHANGED vars
  <2>1. UNCHANGED <<pointers, empty, lost, live, held, doubtful, call>>
    BY <1>1 DEF vars
  <2>2. (\A i : Access(i)' = Access(i)) /\ Nulls' = Nulls /\ steps' = steps
    BY <2>1 DEF Access, Nulls, steps
  <2>3. Under' = Under /\ AtEnd' = AtEnd
    BY <2>1 DEF Under, Ended, AtEnd, At, steps
  <2>4. TypeInv' /\ IdsRefer'
    BY <2>1, <2>2 DEF CallInv, TypeInv, IdsRefer
  <2>5. HeldInv' /\ SlotInv' /\ OneIdInv'
    BY <2>1, <2>2, <2>3 DEF CallInv, HeldInv, SlotInv, OneIdInv
  <2>6. ReleaseInv' /\ MadeInv'
    BY <2>1, <2>2, <2>3 DEF CallInv, ReleaseInv, MadeInv
  <2> QED
    BY <2>4, <2>5, <2>6 DEF CallInv
<1>2. CASE DBSHOWERRORS
  <2>1. call' = NoCall /\ ~ AtEnd /\ UNCHANGED <<pointers, empty, lost, live, held, doubtful>>
    BY <1>2 DEF DBSHOWERRORS, table, AtEnd, At, Under
  <2> QED
    BY <2>1, Between
<1>3. CASE Take
  <2>1. call' = NoCall /\ ~ AtEnd /\ UNCHANGED <<pointers, empty, lost, live, held, doubtful>>
    BY <1>3 DEF Take, handles, table, AtEnd, At, Under
  <2> QED
    BY <2>1, Between
<1>4. CASE Forgotten
  BY <1>4, UnsetKeeps DEF Forgotten, AtEnd, table
<1>5. CASE Checked \/ Threw \/ Refused \/ Raised \/ Acquired \/ Copied \/ Freed
             \/ Branched \/ Died \/ Guarded \/ Looked \/ Return
  BY <1>5, QuietSteps
<1> QED
  BY <1>1, <1>2, <1>3, <1>4, <1>5, Begins, SucceedsKeeps, FailsKeeps, RegisteredKeeps, DroppedKeeps
     DEF Next

(* As long as the table of pointers could be grown, every id that a        *)
(* program in Fortran holds is the slot of the object it was given for,    *)
(* and the number of empty slots is right: after any sequence of calls of  *)
(* any functions, however often slots were used again and whatever failed. *)
THEOREM IdsStayRight == Spec => []IdsRefer
<1>1. CallInv => IdsRefer
  BY DEF CallInv
<1> QED
  BY CallStarts, CallKept, <1>1, PTL DEF Spec

(* Between two calls the object of every id that the program holds is      *)
(* allocated, unless the call that was to release it ended in a jump.      *)
THEOREM ObjectsStayLive == Spec => []HeldAreLive
<1>1. CallInv => HeldAreLive
  BY DEF CallInv, HeldInv, HeldAreLive, AtEnd, At, Under
<1> QED
  BY CallStarts, CallKept, <1>1, PTL DEF Spec

-----------------------------------------------------------------------------
(* Failures of the functions that a function calls.                        *)

\* An error follows the step the call is at.
Doomed == call.pc \in Int /\ Refuses(call.script, call.pc)

\* A failure is remembered for the answer, or an error follows, or the
\* function is one of those that hide it.
FailInv ==
  call # NoCall =>
    /\ call.w \in DOMAIN Scripts /\ call.script = Scripts[call.w]
    /\ call.failed /\ call.answer \in {"none", "0"} =>
         \/ call.w \in Hiding
         \/ call.answer = "none" /\ call.script.told /\ call.said
         \/ call.answer = "none" /\ Doomed

\* c is the call under way, as far as its failures go.
Alike(c) ==
  /\ DOMAIN c = CallFields /\ c.w = call.w /\ c.script = call.script
  /\ c.failed = call.failed /\ c.said = call.said /\ c.answer = "none"

\* The call goes on with no other failure, or ends in an error.
OnTrack ==
  /\ call'.w = call.w /\ call'.script = call.script
  /\ \/ call'.answer \in {"-1", "crash"}
     \/ /\ call'.answer = "none" /\ call'.failed = call.failed /\ call'.said = call.said
        /\ call.pc \in DOMAIN steps
        /\ \/ call'.pc = call.pc + 1 /\ steps[call.pc].op \notin Refusals
           \/ steps[call.pc].op \in Branches

LEMMA EndsInError ==
  ASSUME NEW c, DOMAIN c = CallFields, c.w = call.w, c.script = call.script
  PROVE  /\ Leave(c) => OnTrack
         /\ Jump(c) => OnTrack
         /\ \A kind : Thrown(c, kind) => OnTrack
<1>1. \A d, l : DOMAIN d = CallFields /\ d.w = call.w /\ d.script = call.script /\ Exit(d, l) => OnTrack
  BY DEF Exit, OnTrack, CallFields
<1>2. LET d == [c EXCEPT !.guard = {}]
      IN DOMAIN d = CallFields /\ d.w = call.w /\ d.script = call.script
  BY DEF CallFields
<1> QED
  BY <1>1, <1>2 DEF Leave, Jump, Thrown

LEMMA GoesOnTrack ==
  ASSUME NEW c, Alike(c), call.pc \in DOMAIN steps
  PROVE  /\ steps[call.pc].op \notin Refusals /\ Next1(c) => OnTrack
         /\ steps[call.pc].op \in Branches => \A pc : Goto(pc, c) => OnTrack
BY DEF Alike, Goto, Next1, OnTrack, CallFields

LEMMA TrackKept ==
  ASSUME TypeInv, FailInv, Under, OnTrack
  PROVE  FailInv'
<1>1. /\ call # NoCall /\ call.answer = "none" /\ DOMAIN steps = 1..Len(steps)
      /\ Len(steps) \in Nat
  BY StepsShape DEF Under
<1>2. ASSUME call'.failed, call'.answer \in {"none", "0"}
      PROVE  \/ call'.w \in Hiding
             \/ call'.answer = "none" /\ call'.script.told /\ call'.said
             \/ call'.answer = "none" /\ Doomed'
  <2>1. /\ call'.answer = "none" /\ call'.failed = call.failed /\ call'.said = call.said
        /\ call.pc \in DOMAIN steps
        /\ \/ call'.pc = call.pc + 1 /\ steps[call.pc].op \notin Refusals
           \/ steps[call.pc].op \in Branches
    BY <1>2 DEF OnTrack
  <2>2. CASE ~ Doomed
    BY <1>1, <1>2, <2>1, <2>2 DEF FailInv, OnTrack
  <2>3. CASE Doomed
    <3>1. PICK j \in call.pc..Len(steps) :
            /\ steps[j].op \in Refusals
            /\ \A k \in call.pc..(j - 1) : steps[k].op \notin Branches
      BY <2>3 DEF Doomed, Refuses, steps
    <3>2. call.pc \in Int /\ j \in Int /\ j >= call.pc /\ j <= Len(steps)
      BY <1>1, <2>1, <3>1
    <3>3. j # call.pc
      BY <2>1, <3>1, <3>2 DEF Refusals, Branches
    <3>4. steps[call.pc].op \notin Branches
      BY <3>1, <3>2, <3>3
    <3>5. call'.pc = call.pc + 1
      BY <2>1, <3>4
    <3>6. /\ j \in (call.pc + 1)..Len(steps)
          /\ \A k \in (call.pc + 1)..(j - 1) : steps[k].op \notin Branches
      BY <1>1, <3>1, <3>2, <3>3
    <3>7. call.pc + 1 \in Int /\ Refuses(call.script, call.pc + 1)
      BY <3>1, <3>2, <3>6 DEF Refuses, steps
    <3>8. Doomed'
      BY <3>5, <3>7 DEF Doomed, OnTrack
    <3> QED
      BY <2>1, <3>8
  <2> QED
    BY <2>2, <2>3
<1> QED
  BY <1>1, <1>2 DEF FailInv, OnTrack

\* The steps that call no other function, and a call that succeeds.
LEMMA StepsOnTrack ==
  ASSUME TypeInv,
         \/ Checked \/ Threw \/ Refused \/ Raised \/ Acquired \/ Copied \/ Freed
         \/ Branched \/ Died \/ Guarded \/ Looked
         \/ Succeeds \/ Registered \/ Dropped \/ Forgotten
  PROVE  Under /\ OnTrack
<1>1. Under /\ call.pc \in DOMAIN steps
  BY DEF Checked, Threw, Refused, Raised, Acquired, Copied, Freed, Branched, Died, Guarded,
         Looked, Succeeds, CallsAnother, Registered, Dropped, Forgotten, At
<1>2. DOMAIN call = CallFields /\ call.answer = "none"
  BY <1>1, StepsShape
<1>3. /\ Alike(call)
      /\ \A rs : Alike(Taking(call, rs))
      /\ \A S : Alike([call EXCEPT !.taken = S])
      /\ \A S, T : Alike([call EXCEPT !.guard = T, !.taken = S])
      /\ \A T, rs : Alike([Taking(call, rs) EXCEPT !.guard = T])
      /\ \A T : Alike([call EXCEPT !.guard = T])
      /\ \A b : Alike([call EXCEPT !.missing = b])
      /\ \A p : Alike([call EXCEPT !.made = p])
  BY <1>2 DEF Alike, Taking, CallFields
<1>4. ASSUME NEW c, Alike(c) PROVE /\ Leave(c) => OnTrack
                                   /\ Jump(c) => OnTrack
                                   /\ \A kind : Thrown(c, kind) => OnTrack
  BY <1>4, EndsInError DEF Alike
<1>5. Crash => OnTrack
  BY <1>2 DEF Crash, OnTrack, CallFields
<1>6. ASSUME steps[call.pc].op \notin Refusals, NEW c, Alike(c) PROVE Next1(c) => OnTrack
  BY <1>1, <1>6, GoesOnTrack
<1> SUFFICES OnTrack
  BY <1>1
<1>7. CASE Checked
  BY <1>3, <1>4, <1>6, <1>7 DEF Checked, At, Refusals
<1>8. CASE Threw
  BY <1>3, <1>4, <1>8 DEF Threw
<1>9. CASE Refused
  BY <1>3, <1>4, <1>9 DEF Refused
<1>10. CASE Raised
  BY <1>3, <1>4, <1>6, <1>10 DEF Raised, At, Refusals
<1>11. CASE Acquired
  BY <1>3, <1>4, <1>6, <1>11 DEF Acquired, At, Refusals
<1>12. CASE Copied
  BY <1>3, <1>4, <1>6, <1>12 DEF Copied, At, Refusals
<1>13. CASE Freed
  BY <1>3, <1>6, <1>13 DEF Freed, At, Refusals
<1>14. CASE Branched
  <2>1. steps[call.pc].op \in Branches /\ \E pc : Goto(pc, call)
    BY <1>14 DEF Branched, At, Branches
  <2> QED
    BY <1>1, <1>3, <2>1, GoesOnTrack
<1>15. CASE Died
  BY <1>5, <1>15 DEF Died
<1>16. CASE Guarded
  <2>1. steps[call.pc].op \notin Refusals
    BY <1>16 DEF Guarded, At, Refusals
  <2>2. \E c : Alike(c) /\ Next1(c)
    BY <1>3, <1>16 DEF Guarded
  <2> QED
    BY <1>6, <2>1, <2>2
<1>17. CASE Looked
  <2>1. steps[call.pc].op \notin Refusals
    BY <1>17 DEF Looked, At, Refusals
  <2>2. Crash \/ Leave(call) \/ \E c : Alike(c) /\ Next1(c)
    BY <1>3, <1>17 DEF Looked
  <2> QED
    BY <1>3, <1>4, <1>5, <1>6, <2>1, <2>2
<1>18. CASE Succeeds
  <2>1. steps[call.pc].op \notin Refusals
    BY <1>18 DEF Succeeds, CallsAnother, At, Refusals
  <2>2. \E c : Alike(c) /\ Next1(c)
    BY <1>3, <1>18 DEF Succeeds
  <2> QED
    BY <1>6, <2>1, <2>2
<1>19. CASE Registered
  <2>1. steps[call.pc].op \notin Refusals /\ (Jump(call) \/ Next1(call))
    BY <1>19 DEF Registered, At, Refusals
  <2> QED
    BY <1>3, <1>4, <1>6, <2>1
<1>20. CASE Dropped
  <2>1. steps[call.pc].op \notin Refusals /\ (Crash \/ Jump(call) \/ Next1(call))
    BY <1>20 DEF Dropped, At, Refusals
  <2> QED
    BY <1>3, <1>4, <1>5, <1>6, <2>1
<1>21. CASE Forgotten
  BY <1>3, <1>6, <1>21 DEF Forgotten, At, Refusals
<1> QED
  BY <1>7, <1>8, <1>9, <1>10, <1>11, <1>12, <1>13, <1>14, <1>15, <1>16, <1>17, <1>18, <1>19,
     <1>20, <1>21

\* A function that is called fails.
LEMMA FailsSaid ==
  ASSUME TypeInv, FailInv, Fails
  PROVE  FailInv'
<1>1. Under /\ call.pc \in DOMAIN steps /\ call # NoCall
  BY DEF Fails, CallsAnother, At, Under
<1>2. /\ DOMAIN call = CallFields /\ call.answer = "none" /\ DOMAIN steps = 1..Len(steps)
      /\ Len(steps) \in Nat /\ call.w \in DOMAIN Scripts /\ call.script = Scripts[call.w]
  BY <1>1, StepsShape DEF FailInv
<1> DEFINE c == [call EXCEPT !.failed = TRUE, !.said = @ \/ At("call")]
           s == steps[call.pc]
<1>3. PICK way \in Outcomes(s.f) :
        \/ way = "jump" /\ Jumps /\ Jump(c)
        \/ way = "unwind" /\ Framed /\ Jump(c)
        \/ way \in Kinds /\ Thrown(c, way)
        \/ way = "return" /\ CASE At("must")   -> Leave([c EXCEPT !.taken = @ \ args])
                              [] At("demand") -> Thrown([c EXCEPT !.taken = @ \ args],
                                                        steps[call.pc].kind)
                              [] OTHER        -> Next1(c)
  BY DEF Fails
<1>4. /\ DOMAIN c = CallFields /\ c.w = call.w /\ c.script = call.script /\ c.answer = "none"
      /\ At("call") => c.said
  BY <1>2 DEF CallFields
<1>5. LET d == [c EXCEPT !.taken = @ \ args]
      IN  DOMAIN d = CallFields /\ d.w = call.w /\ d.script = call.script
  BY <1>2 DEF CallFields
<1> HIDE DEF c
<1>6. CASE OnTrack
  BY <1>1, <1>6, TrackKept
<1>7. CASE way = "return" /\ ~ At("must") /\ ~ At("demand") /\ Next1(c)
  <2>1. s.op \in {"call", "void"} /\ (s.op = "call" <=> At("call"))
    BY <1>1, <1>7 DEF Fails, CallsAnother, At
  <2>2. /\ call'.w = call.w /\ call'.script = call.script /\ call'.answer = "none"
        /\ call'.pc = call.pc + 1 /\ call'.said = c.said /\ call' # NoCall
    <3>1. DOMAIN call' = CallFields
      BY <1>4, <1>7 DEF Next1, Goto
    <3> QED
      BY <1>4, <1>7, <3>1, NoCallFields DEF Next1, Goto, CallFields
  <2>3. CASE s.op = "call" /\ call.script.told
    BY <1>2, <1>4, <2>1, <2>2, <2>3 DEF FailInv
  <2>4. CASE Hides(call.script, call.pc)
    <3>1. call.w \in Hiding
      BY <1>1, <1>2, <2>4 DEF Hiding, steps
    <3> QED
      BY <1>2, <2>2, <3>1 DEF FailInv
  <2>5. CASE Refuses(call.script, call.pc + 1)
    <3>1. call.pc + 1 \in Int
      BY <1>1, <1>2
    <3>2. Doomed'
      BY <2>2, <2>5, <3>1 DEF Doomed
    <3> QED
      BY <1>2, <2>2, <3>2 DEF FailInv
  <2>6. s.op = "void" \/ (s.op = "call" /\ ~ call.script.told)
          => Hides(call.script, call.pc) \/ Refuses(call.script, call.pc + 1)
    BY <1>3, <1>7 DEF Hides, steps
  <2> QED
    BY <2>1, <2>3, <2>4, <2>5, <2>6
<1> QED
  BY <1>3, <1>4, <1>5, <1>6, <1>7, EndsInError

LEMMA FailKept == TypeInv /\ FailInv /\ [Next]_vars => FailInv'
<1> SUFFICES ASSUME TypeInv, FailInv, [Next]_vars PROVE FailInv'
  OBVIOUS
<1>1. CASE UNCHANGED vars
  BY <1>1 DEF vars, FailInv, Doomed
<1>2. CASE DBSHOWERRORS \/ Take
  BY <1>2 DEF DBSHOWERRORS, Take, FailInv
<1>3. CASE Begin
  <2>1. PICK w \in DOMAIN Scripts : \E id, p : call' = Entered(w, Scripts[w], id, p)
    BY <1>3 DEF Begin, EnterOneOf, Enter
  <2>2. call'.w = w /\ call'.script = Scripts[w] /\ ~ call'.failed
    BY <2>1 DEF Entered
  <2> QED
    BY <2>2 DEF FailInv
<1>4. CASE Return
  <2>1. Under /\ call # NoCall /\ call.pc > Len(steps)
        /\ call' = [call EXCEPT !.answer = IF call.script.told /\ call.said THEN "-1" ELSE "0"]
    BY <1>4 DEF Return, Under
  <2>2. DOMAIN call = CallFields /\ call.answer = "none" /\ Len(steps) \in Nat
    BY <2>1, StepsShape
  <2>3. ~ Doomed
    BY <2>1, <2>2 DEF Doomed, Refuses, steps
  <2>4. /\ call'.w = call.w /\ call'.script = call.script /\ call'.failed = call.failed
        /\ call'.answer = IF call.script.told /\ call.said THEN "-1" ELSE "0"
    BY <2>1, <2>2 DEF CallFields
  <2> QED
    BY <2>1, <2>2, <2>3, <2>4 DEF FailInv
<1>5. CASE Fails
  BY <1>5, FailsSaid
<1>6. CASE \/ Checked \/ Threw \/ Refused \/ Raised \/ Acquired \/ Copied \/ Freed
           \/ Branched \/ Died \/ Guarded \/ Looked
           \/ Succeeds \/ Registered \/ Dropped \/ Forgotten
  BY <1>6, StepsOnTrack, TrackKept
<1> QED
  BY <1>1, <1>2, <1>3, <1>4, <1>5, <1>6 DEF Next

(* What functions may be used is not bound to those of this library: if    *)
(* every function that hides a failure is named in Silent, then any other  *)
(* one inside which a function failed answers -1, or dies, whatever failed *)
(* before, on whichever way through it, and at whichever level of errors.  *)
THEOREM FailuresAreSaid ==
  ASSUME Hiding \subseteq Silent
  PROVE  Spec => []FailureReported
<1>1. Init => FailInv
  BY DEF Init, FailInv
<1>2. CallInv => TypeInv
  BY DEF CallInv
<1>3. FailInv => FailureReported
  <2> SUFFICES ASSUME FailInv, Ended, call.failed, call.answer = "0" PROVE call.w \in Silent
    BY DEF FailureReported
  <2>1. call # NoCall
    BY DEF Ended, NoCall
  <2> QED
    BY <2>1 DEF FailInv
<1> QED
  BY CallStarts, CallKept, FailKept, <1>1, <1>2, <1>3, PTL DEF Spec
=============================================================================
