-------------------------------- MODULE Calls --------------------------------
(* A program that calls Silo, and functions inside the library.  A         *)
(* function is carried out step by step, as the modules of its component   *)
(* describe it.  A program in Fortran calls those of FortranCalls; the     *)
(* table of pointers, DBFortranPointers, turns what the C library returns  *)
(* to it into the integers that the program keeps.  The other functions    *)
(* are called one at a time, by whoever it is.                             *)
EXTENDS CallSteps, FiniteSets, Functions, TLC

CONSTANTS
  Scripts,   \* the functions: what each one does
  Lost,      \* what is lost for good on the way through some of them
  Silent,    \* those that say nothing of what failed
  External,  \* what they call of HDF5 and of the system, which only returns its failures
  Objects,   \* what the C library or the program allocates: an address each
  NULL,
  MaxSlots   \* the table is not grown past this size

ASSUME SlotsAssumption == MaxSlots \in Nat \ {0}
ASSUME NullAssumption == NULL \notin Objects

(* What a function gives an id to, and what it takes the id back of *)
Of(script, ops)  == UNION {s.args : s \in {s \in Range(script.steps) : s.op \in ops}}
Makes(script)    == Of(script, {"give"}) # {}
Releases(script) == Of(script, {"drop", "forget"}) # {}

(* An id is given at the end of a function.  One that takes an id back     *)
(* does nothing besides, and has taken it back, or does so next, when it   *)
(* calls the C function that frees the object.                             *)
TakesBack(s) == s.op \in {"drop", "forget"}
ASSUME ScriptsAssumption ==
  \A script \in Range(Scripts) :
    LET ss == script.steps
    IN  /\ Len(ss) \in Nat /\ DOMAIN ss = 1..Len(ss)
        /\ \A i \in DOMAIN ss : ss[i].op = "give" => i = Len(ss)
        /\ Releases(script) => \A i \in DOMAIN ss :
             /\ ss[i].op \in {"look", "call", "void", "drop", "forget"}
             /\ ss[i].op \in {"call", "void"} => \E j \in DOMAIN ss : j <= i + 1 /\ TakesBack(ss[j])

(* How the failure of a function reaches its caller.  One that looks at    *)
(* nothing that can fail does not.  An error after PROTECT ends in the     *)
(* frame of the caller in any case; one of a function that only returns    *)
(* its errors, and calls no other, never does.                             *)
CanFail == {"check", "refuse", "error", "open", "list", "call", "must", "void"}
Fate(script) ==
  LET ss == script.steps
      ops == {s.op : s \in Range(ss)}
      guarding(i) == \E j \in 1..(i - 1) : ss[j].op = "guard"
  IN IF ops \cap (CanFail \ {"void"}) = {} THEN {}
     ELSE IF \/ script.error = "unwind"
             \/ \A i \in DOMAIN ss : ss[i].op \in CanFail => guarding(i)
     THEN {"unwind"}
     ELSE IF script.error = "return" /\ ops \cap {"call", "must", "void", "error"} = {}
     THEN {"return"}
     ELSE {"jump", "return"}

(* In PDB lite an error goes past every function that has no frame for it. *)
(* What comes out of a script, if what comes out of those it calls is fates *)
CallsOf(script) == {s \in Range(script.steps) : s.op \in {"call", "must", "void", "demand"}}
PassesOn(script, fates) ==
  LET called == {s.f : s \in CallsOf(script)}
      kinds  == Kinds \cap UNION ({Of(script, {"throw"})}
                  \cup {{s.kind} : s \in {s \in CallsOf(script) : s.op = "demand"}}
                  \cup {fates[g] : g \in called \cap DOMAIN fates})
      tells  == {s.op : s \in Range(script.steps)} \cap (CanFail \ {"void"}) # {}
  IN (kinds \ {script.error}) \cup (IF tells \/ script.error \in kinds THEN {"return"} ELSE {})
AllPasses(lite) ==
  LET passes[fates \in [DOMAIN lite -> SUBSET (Kinds \cup {"return"})]] ==
        LET next == [f \in DOMAIN lite |-> PassesOn(lite[f], fates)]
        IN IF next = fates THEN fates ELSE passes[next]
  IN passes[[f \in DOMAIN lite |-> {}]]

(* PDB lite is made of functions with a frame for a kind of errors and of  *)
(* functions without one.                                                  *)
IsLite(script) == script.error \in Kinds \cup {"none"}
FatesOf(scripts) ==
  LET lite == Restrict(scripts, {f \in DOMAIN scripts : IsLite(scripts[f])})
  IN AllPasses(lite)
     @@ [f \in DOMAIN scripts \ DOMAIN lite |-> Fate(scripts[f])]
Fates == FatesOf(Scripts)
OutcomesIn(fates, f) ==
  IF f \in DOMAIN fates THEN fates[f]
  ELSE IF f \in External THEN {"return"} ELSE {"jump", "return"}
Outcomes(f) == OutcomesIn(Fates, f)

DB_F77NULL == 0   \* stands for -99, which is no index either

VARIABLES
  program,   \* "Fortran" or "C"
  pointers,  \* DBFortranPointers; <<>> is NULL
  max,       \* DBMaxFortranPointer
  empty,     \* DBFortranEmptyPointerSpaces
  lost,      \* whether the table could once not be grown
  doubtful,  \* the ids whose release ended in a jump
  live,      \* the objects that are allocated
  held,      \* the ids in the program's variables, and what each was given for
  level,     \* SILO_Globals._db_err_level
  call       \* the call under way, or the last one

vars == <<program, pointers, max, empty, lost, doubtful, live, held, level, call>>
table == <<pointers, max, empty, lost>>
handles == <<program, table, live, held, doubtful, level>>

(* A call: the function and its steps, and the step it is at; what it has taken, and what of that it can   *)
(* no longer reach because it has taken the same again; what the CLEANUP   *)
(* of a PROTECT it is in gives back; whether a handle was NULL, a function *)
(* failed, and the answer is to say so; the id it was given and what it    *)
(* makes; whether it was left before its end.                              *)
Entered(w, script, id, made) ==
  [w |-> w, script |-> script, pc |-> 1, taken |-> {}, again |-> {}, guard |-> {}, missing |-> FALSE,
   failed |-> FALSE, said |-> FALSE, id |-> id, made |-> made, answer |-> "none", left |-> FALSE]
NoCall == [w |-> "none", answer |-> "none"]
Ended == call.answer # "none"
Under == call # NoCall /\ ~Ended
steps == call.script.steps
error == call.script.error

At(op) == Under /\ call.pc \in DOMAIN steps /\ steps[call.pc].op = op
args == steps[call.pc].args
skip == steps[call.pc].n
Goto(pc, c) == call' = [c EXCEPT !.pc = pc]
Next1(c)    == Goto(call.pc + 1, c)

(* An error jumps to the innermost frame, with DB_NONE as with DB_TOP *)
Framed == error \notin {"bare", "direct"}
Jumps  == Framed /\ level # "DB_ALL"
(* The frame is the function's own PROTECT, then its CLEANUP is carried    *)
(* out, or that of the API function around it.                             *)
Exit(c, left) ==
  call' = [c EXCEPT !.answer = "-1", !.left = left, !.taken = @ \ c.guard]
Jump(c)  == Exit(c, TRUE)
(* The function's own error: API_ERROR, UNWIND, db_perror or what it       *)
(* returns, in PDB lite past its frame                                     *)
Leave(c) ==
  IF error \in Kinds THEN Exit([c EXCEPT !.guard = {}], FALSE)
  ELSE Exit(c, \/ error \in {"f77", "unwind"}
               \/ call.guard # {}
               \/ error \in {"api", "perror"} /\ Jumps)
(* lite_PD_error, here or in a function that is called *)
Thrown(c, kind) == Exit(IF kind = error THEN c ELSE [c EXCEPT !.guard = {}], TRUE)
(* an index past a table that is gone *)
Crash == call' = [call EXCEPT !.answer = "crash", !.left = TRUE]

-----------------------------------------------------------------------------
(* DBFortranPointers                                                       *)
Nulls == {i \in DOMAIN pointers : pointers[i] = NULL}
Access(id) == IF id \in DOMAIN pointers THEN pointers[id] ELSE NULL
OutOfRange(id) == id \notin 1..max
Gone(id) == id \in 1..max /\ id \notin DOMAIN pointers

(* Where DBFortranAllocPointer puts a pointer: the last empty slot, or one more *)
Place_used ==                                                \* mutant
  IF empty > 0 /\ pointers # <<>> THEN Len(pointers) ELSE Len(pointers) + 1
Place ==
  IF empty > 0 /\ Nulls # {} THEN CHOOSE i \in Nulls : \A j \in Nulls : j <= i
  ELSE Len(pointers) + 1

AllocPointer(p, id) ==
  /\ id = Place
  /\ pointers' = IF id \in DOMAIN pointers THEN [pointers EXCEPT ![id] = p]
                                            ELSE Append(pointers, p)
  /\ max' = Len(pointers')
  /\ empty' = IF id \in DOMAIN pointers THEN empty - 1 ELSE empty
  /\ UNCHANGED lost

(* realloc fails: the table is forgotten and its size is not *)
AllocFails ==
  /\ Place \notin DOMAIN pointers
  /\ pointers' = <<>>
  /\ lost' = (lost \/ pointers # <<>>)
  /\ UNCHANGED <<max, empty>>

RemovePointer(id) ==
  /\ pointers' = [pointers EXCEPT ![id] = NULL]
  /\ empty' = empty + 1
  /\ UNCHANGED <<max, lost>>

-----------------------------------------------------------------------------
Init ==
  /\ program \in {"Fortran", "C"}
  /\ pointers = <<>> /\ max = 0 /\ empty = 0 /\ lost = FALSE /\ doubtful = {}
  /\ live = {} /\ held = {}
  /\ level = "DB_TOP"
  /\ call = NoCall

DBSHOWERRORS ==
  /\ call = NoCall
  /\ level' \in {"DB_TOP", "DB_ALL"}
  /\ UNCHANGED <<program, table, live, held, doubtful, call>>

(* The ids a program has for a parameter; -1 stands for a variable that    *)
(* holds none, DB_F77NULL for what is left out                             *)
Ids(kind) == {h.id : h \in {h \in held : h.kind = kind}} \cup {DB_F77NULL, -1}

(* The program calls w.  It does not release again what a call has failed  *)
(* to release.  DBMKPTR is given a pointer.                                *)
Enter(w, script) ==
  /\ program = IF script.error \in {"f77", "bare"} THEN "Fortran" ELSE "C"
  /\ Makes(script) => Len(pointers) < MaxSlots \/ Nulls # {}
  /\ \E id \in IF Releases(script) THEN (UNION {Ids(k) : k \in Of(script, {"drop", "forget"})}) \ doubtful
                                ELSE {DB_F77NULL},
        p \in IF w = "DBMKPTR" THEN Objects \ live ELSE {NULL} :
       /\ call' = Entered(w, script, id, p)
       /\ live' = live \cup ({p} \ {NULL})

EnterOneOf(scripts) == \E w \in DOMAIN scripts : Enter(w, scripts[w])

Begin ==
  /\ call = NoCall
  /\ EnterOneOf(Scripts)
  /\ UNCHANGED <<program, table, held, doubtful, level>>

-----------------------------------------------------------------------------
(* The steps of a function                                                 *)
(* Something that will not do *)
Checked ==
  /\ At("check")
  /\ Next1(call) \/ Leave(call)
  /\ UNCHANGED handles

Threw ==
  /\ At("throw")
  /\ \E kind \in args : Thrown(call, kind)
  /\ UNCHANGED handles

Refused ==
  /\ At("refuse")
  /\ Leave(call)
  /\ UNCHANGED handles

Raised ==
  /\ At("error")
  /\ IF Jumps THEN Jump(call) ELSE Next1(call)
  /\ UNCHANGED handles

(* What is taken a second time is out of reach the first time, unless it   *)
(* is an element of an array                                               *)
Taking(c, rs) == [c EXCEPT !.taken = @ \cup rs,
                          !.again = IF At("more") THEN @ ELSE @ \cup (rs \cap call.taken)]

Acquired ==
  /\ At("open")
  /\ Next1(Taking(call, args)) \/ Leave(call)
  /\ UNCHANGED handles

Copied ==
  /\ At("copy") \/ At("more") \/ At("list")
  /\ LET c == Taking(call, args)
     IN Next1(c) \/ (At("list") /\ Leave(c))
  /\ UNCHANGED handles

(* free, or something else that refers to it from now on *)
Freed ==
  /\ At("free") \/ At("keep")
  /\ Next1([call EXCEPT !.taken = @ \ args])
  /\ UNCHANGED handles

(* if, else, and the end of a loop *)
Branched ==
  /\ \/ At("maybe") /\ \E pc \in {call.pc + 1, call.pc + 1 + skip} : Goto(pc, call)
     \/ At("goto")  /\ Goto(call.pc + 1 + skip, call)
     \/ At("again") /\ Goto(call.pc + 1 - skip, call)
     \/ At("done")  /\ Goto(Len(steps) + 1, call)
  /\ UNCHANGED handles

Died ==
  /\ At("dies")
  /\ Crash
  /\ UNCHANGED handles

(* PROTECT pushes a frame, which CLEANUP or END_PROTECT pops *)
Guarded ==
  /\ \/ /\ At("guard")
        /\ Next1([Taking(call, {"frame"}) EXCEPT !.guard = args \cup {"frame"}])
     \/ /\ At("unguard")
        /\ Next1([call EXCEPT !.guard = {}, !.taken = @ \ {"frame"}])
     \/ /\ At("catch")
        /\ Next1([call EXCEPT !.guard = args \cup {"frame"}])
  /\ UNCHANGED handles

Given(a) == IF Releases(call.script) THEN {call.id} ELSE Ids(a)

(* DBFortranAccessPointer: no pointer for DB_F77NULL, an error for an id   *)
(* out of range.  An option list may be left out.                          *)
Looked ==
  /\ At("look") \/ At("need")
  /\ \E id \in {id \in [args -> UNION {Given(a) : a \in args}] : \A a \in args : id[a] \in Given(a)} :
       IF \E a \in args : Gone(id[a]) THEN Crash
       ELSE IF \/ Jumps /\ \E a \in args : id[a] # DB_F77NULL /\ OutOfRange(id[a])
               \/ At("need") /\ \E a \in args : Access(id[a]) = NULL
            THEN Leave(call)
       ELSE Next1([call EXCEPT !.missing = @ \/ \E a \in args \ {"optlist_id"} :
                                                    Access(id[a]) = NULL])
  /\ UNCHANGED handles

CallsAnother == At("call") \/ At("must") \/ At("void") \/ At("demand")

(* The C function succeeds: it makes an object or frees the one it is given *)
Succeeds ==
  /\ CallsAnother
  /\ ~call.missing
  /\ \E p \in IF Makes(call.script) THEN Objects \ live ELSE {NULL} :
       /\ Next1([call EXCEPT !.made = p])
       /\ live' = IF Releases(call.script) THEN live \ {Access(call.id)}
                                      ELSE live \cup ({p} \ {NULL})
  /\ UNCHANGED <<program, table, held, doubtful, level>>

(* The C function fails: by a jump to the frame, or by what it returns.    *)
(* What it was to free may be gone.                                        *)
Fails ==
  /\ CallsAnother
  /\ LET c == [call EXCEPT !.failed = TRUE, !.said = @ \/ At("call")]
     IN \E way \in Outcomes(steps[call.pc].f) :
          \/ way = "jump" /\ Jumps /\ Jump(c)
          \/ way = "unwind" /\ Framed /\ Jump(c)
          \/ way \in Kinds /\ Thrown(c, way)
          \/ way = "return" /\ CASE At("must")   -> Leave([c EXCEPT !.taken = @ \ args])
                                [] At("demand") -> Thrown([c EXCEPT !.taken = @ \ args],
                                                          steps[call.pc].kind)
                                [] OTHER        -> Next1(c)
  /\ live' \in {live} \cup {live \ {Access(i)} : i \in {call.id} \cap DOMAIN pointers}
  /\ doubtful' = IF Releases(call.script) /\ call'.left THEN doubtful \cup {call.id} ELSE doubtful
  /\ UNCHANGED <<program, table, held, level>>

(* The new object gets an id, and NULL gets DB_F77NULL *)
Registered ==
  /\ At("give")
  /\ UNCHANGED <<program, live, doubtful, level>>
  /\ \/ /\ call.made = NULL
        /\ Next1(call)
        /\ UNCHANGED <<table, held>>
     \/ /\ call.made # NULL
        /\ AllocPointer(call.made, Place)
        /\ \E kind \in args : held' = held \cup 
                {[id |-> Place, kind |-> kind, obj |-> call.made]}
        /\ Next1(call)
     \/ /\ call.made # NULL
        /\ AllocFails
        /\ IF Jumps THEN Jump(call) ELSE Next1(call)
        /\ UNCHANGED held

(* The program's variable no longer holds an id *)
Unset_kept == UNCHANGED <<held, doubtful>>                    \* mutant
Unset ==
  /\ held' = {h \in held : h.id # call.id}
  /\ doubtful' = doubtful \ {call.id}

(* DBFortranRemovePointer on what the program named; an id that is not in  *)
(* the table is an error.  DBRMPTR's pointer is the program's to free, and *)
(* its id the program's to forget: of it Unset is what the program does.   *)
Dropped ==
  /\ At("drop")
  /\ UNCHANGED <<program, level>>
  /\ \/ /\ Access(call.id) # NULL
        /\ RemovePointer(call.id)
        /\ Unset
        /\ live' = IF error # "bare" THEN live ELSE live \ {pointers[call.id]}
        /\ Next1(call)
     \/ /\ Gone(call.id)
        /\ Crash
        /\ UNCHANGED <<table, live, held, doubtful>>
     \/ /\ Access(call.id) = NULL /\ ~Gone(call.id)
        /\ \/ Jumps /\ Jump(call) /\ UNCHANGED <<held, doubtful>>
           \/ ~Jumps /\ Next1(call) /\ Unset
        /\ UNCHANGED <<table, live>>

(* *object_id = -1 in DBFREEOBJECT: the slot is not given back *)
Forgotten ==
  /\ At("forget")
  /\ Unset
  /\ Next1(call)
  /\ UNCHANGED <<program, table, live, level>>

Return ==
  /\ Under /\ call.pc > Len(steps)
  /\ call' = [call EXCEPT !.answer = IF call.script.told /\ call.said THEN "-1" ELSE "0"]
  /\ UNCHANGED handles

(* The program takes the answer *)
Take ==
  /\ Ended /\ call.answer # "crash"
  /\ call' = NoCall
  /\ UNCHANGED handles

Next ==
  \/ DBSHOWERRORS
  \/ Begin
  \/ Checked \/ Threw \/ Refused \/ Raised \/ Acquired \/ Copied \/ Freed \/ Branched \/ Died \/ Guarded
  \/ Looked \/ Succeeds \/ Fails \/ Registered \/ Dropped \/ Forgotten \/ Return \/ Take

Spec == Init /\ [][Next]_vars

-----------------------------------------------------------------------------
(* The number of empty slots is right, and every id that the program holds *)
(* is the slot of the object it was given for, however often slots were    *)
(* used again, as long as the table could be grown (silo_f.c:127-231).     *)
IdsRefer ==
  ~lost => /\ empty = Cardinality(Nulls)
           /\ \A h \in held : Access(h.id) = h.obj

(* Between two calls what the program holds an id for is still allocated,  *)
(* unless a call that was to release it failed: a jump out of the C        *)
(* function passes the statement that takes the id back (silo_f.c:944).    *)
(* It holds no id any more that it has handed to DBRMPTR.                  *)
HeldAreLive == call = NoCall => \A h \in held : h.obj \in live \/ h.id \in doubtful

Answered ==
  /\ Ended
  /\ \/ ~call.left \/ call.guard # {}
     \/ error \in Kinds \cup {"none"} /\ call.answer # "crash"

(* A function that returns, or leaves a body that it protects, or is left  *)
(* by an error of PDB lite, has given back what it took, except for what   *)
(* Lost names.                                                             *)
CopiesReturned ==
  Answered => call.taken \cup call.again \subseteq
                (IF call.w \in DOMAIN Lost THEN Lost[call.w] ELSE {})

(* A function hides the failure of one that it calls and that returns it   *)
(* if it does not look, or does not tell, and goes on: unless an error, or *)
(* a NULL pointer that is read, follows in any case.                       *)
Branches == {"maybe", "goto", "again", "done"}
Refusals == {"refuse", "throw", "dies"}
Refuses(script, i) ==
  \E j \in i..Len(script.steps) :
    /\ script.steps[j].op \in Refusals
    /\ \A k \in i..(j - 1) : script.steps[k].op \notin Branches
Hides(script, i) ==
  LET s == script.steps[i]
  IN /\ s.op = "void" \/ (s.op = "call" /\ ~script.told)
     /\ "return" \in Outcomes(s.f)
     /\ ~Refuses(script, i + 1)
Hiding == {w \in DOMAIN Scripts : \E i \in DOMAIN Scripts[w].steps : Hides(Scripts[w], i)}

(* A call inside which another function failed answers -1, by whichever    *)
(* way it ends, except for those that Silent names.                        *)
FailureReported ==
  Ended /\ call.failed /\ call.answer = "0" => call.w \in Silent
=============================================================================
