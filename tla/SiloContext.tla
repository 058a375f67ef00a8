---------------------------- MODULE SiloContext ----------------------------
(* Entry into the library, the directory a call works in and the table of  *)
(* contents, for one PDB file (src/src/silo/silo_private.h API_BEGIN2 ..   *)
(* API_RETURN, src/src/silo/silo.c, src/src/pdb_drv/silo_pdb.c).           *)
(*                                                                         *)
(* A public function pushes a jump frame when the jump stack is empty,     *)
(* moves to the directory its name argument spells out (context_switch),   *)
(* calls the driver, moves back (context_restore) and pops the frame.  An  *)
(* error at level DB_TOP does not return: it jumps to the frame, and what  *)
(* the function would have done next is skipped.  jstat and jold are       *)
(* static variables of each function, reset at its entry: the model keeps  *)
(* those of the one function in progress.  A nested call of another        *)
(* function pushes nothing and switches nothing, so it is part of the step *)
(* of its caller; DBGetVarByteLength calls itself and is a frame of its    *)
(* own in calls.                                                           *)
EXTENDS Integers, Sequences, FiniteSets, SequencesExt

CONSTANTS Names,      \* base names the program gives
          Comp,       \* Comp[n]: the variable a Put of n keeps its array in
          DirArgs,    \* directories it asks for: [abs |-> BOOLEAN, segs |-> sequence]
          NameArgs,   \* variables and objects it asks for, last segment in Names
          Levels,     \* error levels the program may have set
          Allows,     \* overwrite settings: [file |-> BOOLEAN, lib |-> BOOLEAN]
          MaxWrites,  \* bound: symbols written
          MaxFaults,  \* bound: writes the storage refuses
          MaxDepth    \* bound: depth of a directory the program makes

ASSUME NamesAssumption ==
  /\ ".." \notin Names
  /\ Comp \in [Names -> Names]
  /\ \A n \in Names : Comp[n] # n
(* An argument that names something has a name after its last slash; the   *)
(* root has none.                                                          *)
ASSUME ArgsAssumption ==
  /\ DirArgs \cup NameArgs \subseteq [abs : BOOLEAN, segs : Seq(Names \cup {".."})]
  /\ \A arg \in NameArgs : IF arg.segs = <<>> THEN arg.abs ELSE Last(arg.segs) \in Names
ASSUME BoundsAssumption == MaxWrites \in Nat /\ MaxFaults \in Nat /\ MaxDepth \in Nat

VARIABLES
  dirs,    \* the symbols of type Directory, as paths; the root is <<>>
  vars,    \* the other symbols: path -> [kind, ok, gen], gen its times written
  cwd,     \* current_prefix of the PDB file
  toc,     \* pub.toc: {} or {what it lists}
  group,   \* PJ_GetObject's cache: [on, name, gen], name {} or {argument}
  allow,   \* overwriting allowed by the file's setting, by the library's
  level,   \* SILO_Globals._db_err_level
  calls,   \* the calls in progress, outermost first
  jstk,    \* SILO_Globals.Jstk: "empty", "live" or "dead" (its call is over)
  jstat,   \* static jstat of the function in progress, FALSE when there is none
  jold,    \* static jold of the function in progress: {} or {a directory}
  wild,    \* a jump went into a function that has returned: anything may follow
  writes, faults,
  unseen,  \* history: symbols that entered without db_FreeToc since the toc
  measured \* history: DBGetVarByteLength has measured an object

table   == <<dirs, vars, writes, faults>>
statics == <<jstk, jstat, jold>>
ghosts  == <<unseen, measured>>
config  == <<allow, level>>
svars   == <<table, cwd, toc, group, config, calls, statics, wild, ghosts>>

NoToc     == {}
NoDir     == {}

NamedFns == {"DBWrite", "DBReadVar", "DBPutCurve", "DBGetCurve", "DBGetVarByteLength"}
PlainFns == {"DBSetDir", "DBMkDir", "DBMkDirP", "DBGetToc", "DBWriteObject"}
Fns      == NamedFns \cup PlainFns

(* A path argument made absolute, segment by segment: lite_PD_fixname,     *)
(* db_absoluteOf_path.                                                     *)
Walk(p, s) == IF s # ".." THEN Append(p, s) ELSE IF p = <<>> THEN p ELSE Front(p)
Resolve(d, arg) ==
  LET at[i \in 0..Len(arg.segs)] ==
        IF i > 0 THEN Walk(at[i - 1], arg.segs[i]) ELSE IF arg.abs THEN <<>> ELSE d
  IN  at[Len(arg.segs)]

HasSlash(arg) == arg.abs \/ Len(arg.segs) > 1
Base(arg)     == [abs |-> FALSE, segs |-> <<Last(arg.segs)>>]
PathOf(arg)   == [arg EXCEPT !.segs = Front(arg.segs)]

Symbols == DOMAIN vars
Inside(d, p) == p # <<>> /\ Front(p) = d

(* What db_pdb_NewToc lists: the entries of directory d.                   *)
Listing(d) == [dirs |-> {p \in dirs : Inside(d, p)},
               vars |-> {p \in Symbols : Inside(d, p)}]

Store(p, kind, ok) == [q \in Symbols \cup {p} |->
  IF q # p THEN vars[q]
  ELSE [kind |-> kind, ok |-> ok, gen |-> IF p \in Symbols THEN vars[p].gen + 1 ELSE 1]]

(* DBInqVarType answers DB_DIR: a variable hides a directory of its name.  *)
IsDir(p) == p \in dirs /\ p \notin Symbols
IsObj(p) == p \in Symbols /\ vars[p].kind = "obj"
Readable(p) == IsObj(p) /\ vars[p].ok

Init ==
  /\ dirs = {<<>>} /\ vars = [p \in {} |-> [kind |-> "var", ok |-> TRUE, gen |-> 0]]
  /\ cwd = <<>> /\ toc = NoToc
  /\ group = [on |-> TRUE, name |-> {}, gen |-> 0]
  /\ allow \in Allows /\ level \in Levels
  /\ calls = <<>> /\ jstk = "empty" /\ jstat = FALSE /\ jold = NoDir
  /\ wild = FALSE /\ writes = 0 /\ faults = 0 /\ unseen = {} /\ measured = FALSE

-----------------------------------------------------------------------------
(* The current call and what a step makes of it.                           *)
Top       == Last(calls)
In(f, pc) == calls # <<>> /\ Top.fn = f /\ Top.pc = pc
Goto(pc)  == calls' = Append(Front(calls), [Top EXCEPT !.pc = pc])
Yield(r)  == calls' = Append(Front(calls), [Top EXCEPT !.pc = "return", !.res = r])
(* db_perror: a jump at DB_TOP; at DB_ALL it returns and the caller goes on *)
(* to return r.                                                             *)
Perror(r) == IF level = "DB_TOP" THEN Goto("jump") ELSE Yield(r)

(* Mutants of the definitions that follow, here and below.                 *)
ChangeDir_keepsToc(d, same) ==
  IF same THEN UNCHANGED <<cwd, toc, group, unseen>>
  ELSE cwd' = d /\ group' = [group EXCEPT !.on = FALSE] /\ UNCHANGED <<toc, unseen>>
ChangeDir_keepsCache(d, same) ==
  IF same THEN UNCHANGED <<cwd, toc, group, unseen>>
  ELSE cwd' = d /\ toc' = NoToc /\ unseen' = {} /\ UNCHANGED group

(* DBSetDir to d: nothing when the directory is spelled as it is already,  *)
(* else the cd, the toc dropped and the group cache switched off.          *)
ChangeDir(d, same) ==
  IF same THEN UNCHANGED <<cwd, toc, group, unseen>>
  ELSE cwd' = d /\ toc' = NoToc /\ unseen' = {} /\ group' = [group EXCEPT !.on = FALSE]
(* context_restore.                                                        *)
RestoreDir == IF jold = NoDir THEN UNCHANGED <<cwd, toc, group, unseen>>
              ELSE \E d \in jold : ChangeDir(d, d = cwd)
FreeToc == toc' = NoToc /\ unseen' = {}

(* Symbol p enters the file and the table of contents is left as it is.    *)
Unlisted(kind, p) ==
  /\ unseen' = IF toc = NoToc \/ p \in (IF kind = "dir" THEN dirs ELSE Symbols)
               THEN unseen ELSE unseen \cup {<<kind, p>>}
  /\ UNCHANGED toc

(* A write into the symbol table: the entry is installed before the data   *)
(* is written, and stays when the data could not be.                       *)
Written(p, kind, ok) ==
  /\ writes < MaxWrites
  /\ ok \/ faults < MaxFaults
  /\ vars' = Store(p, kind, ok)
  /\ writes' = writes + 1
  /\ faults' = IF ok THEN faults ELSE faults + 1
  /\ UNCHANGED dirs
Made(p, ok) ==
  /\ writes < MaxWrites
  /\ ok \/ faults < MaxFaults
  /\ dirs' = dirs \cup {p}
  /\ writes' = writes + 1
  /\ faults' = IF ok THEN faults ELSE faults + 1
  /\ UNCHANGED vars

-----------------------------------------------------------------------------
(* API_BEGIN, API_BEGIN2.                                                  *)
NewCall(f, arg) == [fn |-> f, arg |-> arg, pc |-> "body", from |-> cwd,
                    at |-> <<>>, res |-> 0]
Push == IF jstk = "empty" THEN jstk' = "live" /\ jstat' = TRUE
        ELSE jstk' = jstk /\ jstat' = FALSE

(* A call that names the root while a frame is left over is not made here: *)
(* no context_switch would refuse it.                                      *)
Begin(f, arg) ==
  /\ calls = <<>> /\ ~ wild
  /\ f \in NamedFns => arg.segs # <<>> /\ ~ (jstk = "empty" /\ HasSlash(arg))
  /\ calls' = <<NewCall(f, arg)>>
  /\ Push
  /\ jold' = NoDir
  /\ UNCHANGED <<table, cwd, toc, group, config, wild, ghosts>>

(* context_switch: the path part becomes the current directory.            *)
BeginElsewhere(f, arg) ==
  /\ calls = <<>> /\ ~ wild
  /\ f \in NamedFns /\ jstk = "empty" /\ HasSlash(arg) /\ arg.segs # <<>>
  /\ LET d == Resolve(cwd, PathOf(arg)) IN
       /\ d \in dirs
       /\ ChangeDir(d, arg.abs /\ d = cwd)
  /\ calls' = <<NewCall(f, Base(arg))>>
  /\ Push
  /\ jold' = {cwd}
  /\ UNCHANGED <<table, config, wild, measured>>

(* context_switch fails: no name after the slash, or no such directory.    *)
BeginFails(f, arg) ==
  /\ calls = <<>> /\ ~ wild
  /\ f \in NamedFns /\ jstk = "empty" /\ HasSlash(arg)
  /\ \/ arg.segs = <<>> /\ UNCHANGED <<toc, unseen>>
     \/ /\ arg.segs # <<>> /\ Resolve(cwd, PathOf(arg)) \notin dirs
        /\ IF level = "DB_TOP" THEN UNCHANGED <<toc, unseen>> ELSE FreeToc
  /\ UNCHANGED <<table, cwd, group, config, calls, statics, wild, measured>>

(* API_RETURN: back to the saved directory, then the frame is popped when  *)
(* the static jstat says this call pushed it.                              *)
Return ==
  /\ calls # <<>> /\ Top.pc = "return"
  /\ RestoreDir
  /\ calls' = Front(calls)
  /\ jstk' = IF jstat THEN "empty" ELSE IF Len(calls) = 1 THEN "dead" ELSE jstk
  /\ jold' = NoDir /\ jstat' = FALSE
  /\ UNCHANGED <<table, config, wild, measured>>

Jump_keepsFrame ==
  /\ calls # <<>> /\ Top.pc = "jump"
  /\ calls' = <<>>
  /\ RestoreDir
  /\ jold' = NoDir /\ jstat' = FALSE /\ jstk' = "dead"
  /\ UNCHANGED <<table, config, wild, measured>>
Jump_stays ==
  /\ calls # <<>> /\ Top.pc = "jump"
  /\ calls' = <<>>
  /\ jold' = NoDir /\ jstat' = FALSE /\ jstk' = "empty"
  /\ UNCHANGED <<table, cwd, toc, group, config, wild, ghosts>>

(* The longjmp: the handler of the call that pushed the frame restores the *)
(* directory, empties the stack and reports; nothing else of the call runs. *)
Jump ==
  /\ calls # <<>> /\ Top.pc = "jump"
  /\ calls' = <<>>
  /\ IF jstk = "live"
     THEN /\ RestoreDir
          /\ jstk' = "empty" /\ UNCHANGED wild
     ELSE UNCHANGED <<cwd, toc, group, unseen, jstk>> /\ wild' = TRUE
  /\ jold' = NoDir /\ jstat' = FALSE
  /\ UNCHANGED <<table, config, measured>>

-----------------------------------------------------------------------------
(* Directories.                                                            *)
SetDir ==
  /\ In("DBSetDir", "body")
  /\ LET d == Resolve(cwd, Top.arg) IN
       \/ /\ d \in dirs
          /\ ChangeDir(d, Top.arg.abs /\ d = cwd)
          /\ Yield(0)
       \/ /\ d \notin dirs
          /\ Perror(-1)
          /\ IF level = "DB_TOP" THEN UNCHANGED <<toc, unseen>> ELSE FreeToc
          /\ UNCHANGED <<cwd, group>>
  /\ UNCHANGED <<table, config, statics, wild, measured>>

CanMake_orphan(p) == p \notin dirs /\ p # <<>>

(* One lite_PD_mkdir of path p: refused when the directory exists or its   *)
(* parent does not, else the symbol is written.                            *)
CanMake(p) == p \notin dirs /\ p # <<>> /\ Front(p) \in dirs

MkDir ==
  /\ In("DBMkDir", "body")
  /\ LET p == Resolve(cwd, Top.arg) IN
       \/ /\ CanMake(p) /\ Len(p) <= MaxDepth
          /\ Made(p, TRUE) /\ FreeToc /\ Yield(0)
       \/ /\ CanMake(p) /\ Len(p) <= MaxDepth
          /\ Made(p, FALSE) /\ Perror(-1)
          /\ IF level = "DB_ALL" THEN FreeToc ELSE Unlisted("dir", p)
       \/ /\ ~ CanMake(p) /\ Perror(-1)
          /\ IF level = "DB_TOP" THEN UNCHANGED <<toc, unseen>> ELSE FreeToc
          /\ UNCHANGED table
  /\ UNCHANGED <<cwd, group, config, statics, wild, measured>>

(* DBMkDirP: up to the nearest existing parent ...                         *)
MkDirPUp ==
  /\ In("DBMkDirP", "body")
  /\ LET p    == Resolve(cwd, Top.arg)
         up   == {k \in 1..Len(p) : IsDir(SubSeq(p, 1, k))}
         near == IF up = {} THEN 0 ELSE CHOOSE k \in up : \A j \in up : j <= k
     IN  calls' = <<[Top EXCEPT !.pc = "down", !.arg = [abs |-> TRUE, segs |-> p],
                                !.at = SubSeq(p, 1, near)]>>
  /\ UNCHANGED <<table, cwd, toc, group, config, statics, wild, ghosts>>

(* ... then down, one DBSetDir and one DBMkDir for each missing directory. *)
MkDirPDown ==
  /\ In("DBMkDirP", "down") /\ Top.at # Top.arg.segs
  /\ LET d == Top.at
         p == SubSeq(Top.arg.segs, 1, Len(d) + 1)
     IN  /\ cwd' = d
         /\ group' = IF d = cwd THEN group ELSE [group EXCEPT !.on = FALSE]
         /\ Len(p) <= MaxDepth
         /\ \/ /\ CanMake(p) /\ Made(p, TRUE) /\ FreeToc
               /\ calls' = <<[Top EXCEPT !.at = p]>>
            \/ /\ \/ CanMake(p) /\ Made(p, FALSE)
                  \/ ~ CanMake(p) /\ UNCHANGED table
               /\ IF level = "DB_TOP"
                  THEN /\ Goto("jump")
                       /\ IF d = cwd THEN Unlisted("dir", p) ELSE FreeToc
                  ELSE /\ calls' = <<[Top EXCEPT !.pc = "back", !.res = -1]>>
                       /\ FreeToc
  /\ UNCHANGED <<config, statics, wild, measured>>

MkDirPBack ==
  /\ \/ In("DBMkDirP", "down") /\ Top.at = Top.arg.segs
     \/ In("DBMkDirP", "back")
  /\ ChangeDir(Top.from, Top.from = cwd)
  /\ Goto("return")
  /\ UNCHANGED <<table, config, statics, wild, measured>>

-----------------------------------------------------------------------------
(* Variables and objects.                                                  *)
Write ==
  /\ In("DBWrite", "body")
  /\ LET p == Resolve(cwd, Top.arg) IN
       \/ /\ allow.file \/ p \notin Symbols
          /\ \/ Written(p, "var", TRUE) /\ Yield(0) /\ FreeToc
             \/ /\ Written(p, "var", FALSE) /\ Perror(-1)
                /\ IF level = "DB_ALL" THEN FreeToc ELSE Unlisted("var", p)
       \/ /\ ~ allow.file /\ p \in Symbols
          /\ Perror(-1) /\ UNCHANGED <<table, toc, unseen>>
  /\ UNCHANGED <<cwd, group, config, statics, wild, measured>>

ReadVar ==
  /\ In("DBReadVar", "body")
  /\ IF Resolve(cwd, Top.arg) \in Symbols THEN Yield(0) ELSE Perror(-1)
  /\ UNCHANGED <<table, cwd, toc, group, config, statics, wild, ghosts>>

(* DBPutCurve, db_pdb_PutCurve: the array through DBWriteComponent, whose  *)
(* driver ignores what PJ_write_len says ...                               *)
PutComponent ==
  /\ In("DBPutCurve", "body")
  /\ LET p == Resolve(cwd, Top.arg)
         c == Append(Front(p), Comp[Last(p)])
     IN  \/ /\ allow.file \/ p \notin Symbols
            /\ \E ok \in BOOLEAN : Written(c, "var", ok)
            /\ FreeToc
            /\ calls' = <<[Top EXCEPT !.pc = "header", !.at = p]>>
         \/ /\ ~ allow.file /\ p \in Symbols
            /\ Perror(-1) /\ UNCHANGED <<table, toc, unseen>>
  /\ UNCHANGED <<cwd, group, config, statics, wild, measured>>

(* ... then the header through DBWriteObject; PJ_put_group asks the        *)
(* library's overwrite setting, not the file's.  The driver returns 0.     *)
PutHeader ==
  /\ In("DBPutCurve", "header")
  /\ LET p == Top.at IN
       \/ /\ allow.lib \/ p \notin Symbols
          /\ \/ Written(p, "obj", TRUE) /\ Yield(0)
             \/ Written(p, "obj", FALSE) /\ Perror(0)
       \/ /\ ~ allow.lib /\ p \in Symbols
          /\ Perror(0) /\ UNCHANGED table
  /\ FreeToc
  /\ UNCHANGED <<cwd, group, config, statics, wild, measured>>

(* DBWriteObject called by the program: the same header, and no db_FreeToc. *)
WriteObject ==
  /\ In("DBWriteObject", "body")
  /\ LET p == Resolve(cwd, Top.arg) IN
       \/ /\ ~ allow.file /\ p \in Symbols
          /\ Perror(-1) /\ UNCHANGED <<table, toc, unseen>>
       \/ /\ allow.file /\ ~ allow.lib /\ p \in Symbols
          /\ Perror(-1) /\ UNCHANGED <<table, toc, unseen>>
       \/ /\ (allow.file /\ allow.lib) \/ p \notin Symbols
          /\ \/ Written(p, "obj", TRUE) /\ Yield(0)
             \/ Written(p, "obj", FALSE) /\ Perror(-1)
          /\ Unlisted("var", p)
  /\ UNCHANGED <<cwd, group, config, statics, wild, measured>>

(* DBGetCurve: PJ_GetObject serves the cached group when its name is the   *)
(* one asked for and the directory has not changed since.                  *)
Cached(arg) == group.on /\ group.name = {arg}
GetCurve ==
  /\ In("DBGetCurve", "body")
  /\ LET p == Resolve(cwd, Top.arg) IN
       \/ Cached(Top.arg) /\ Yield(0) /\ UNCHANGED group
       \/ /\ ~ Cached(Top.arg) /\ Readable(p)
          /\ group' = [on |-> TRUE, name |-> {Top.arg}, gen |-> vars[p].gen]
          /\ Yield(0)
       \/ /\ ~ Cached(Top.arg) /\ ~ Readable(p)
          /\ group' = [group EXCEPT !.name = {}]
          /\ Perror(-1)
  /\ UNCHANGED <<table, cwd, toc, config, statics, wild, ghosts>>

(* DBGetVarByteLength: a variable has a length; an object is the sum of    *)
(* its components', found by calling DBGetVarByteLength again, whose entry *)
(* resets the static jstat and jold of the call it is made from.           *)
VarByteLength ==
  /\ In("DBGetVarByteLength", "body")
  /\ LET p == Resolve(cwd, Top.arg) IN
       \/ /\ Readable(p)
          /\ calls' = Append(Append(Front(calls), [Top EXCEPT !.pc = "return"]),
                             NewCall("DBGetVarByteLength",
                               [abs |-> TRUE, segs |-> Append(Front(p), Comp[Last(p)])]))
          /\ jstat' = FALSE /\ jold' = NoDir
          /\ measured' = TRUE
       \/ /\ p \in Symbols /\ ~ Readable(p)
          /\ Yield(0) /\ UNCHANGED <<jstat, jold, measured>>
       \/ /\ p \notin Symbols
          /\ Perror(0) /\ UNCHANGED <<jstat, jold, measured>>
  /\ UNCHANGED <<table, cwd, toc, group, config, jstk, wild, unseen>>

-----------------------------------------------------------------------------
(* The table of contents.                                                  *)
GetToc ==
  /\ In("DBGetToc", "body")
  /\ toc' = IF toc = NoToc THEN {Listing(cwd)} ELSE toc
  /\ Yield(0)
  /\ UNCHANGED <<table, cwd, group, config, statics, wild, ghosts>>

(* DBInqFileHasObjects: not an API function of its own; a walk over the    *)
(* directories by DBGetToc and DBSetDir that ends where it began.          *)
InqFileHasObjects ==
  /\ calls = <<>> /\ ~ wild
  /\ \E t \in IF toc = NoToc THEN {Listing(cwd)} ELSE toc :
     LET walks == t.dirs # {} /\ ~ \E p \in t.vars : IsObj(p)
     IN  /\ toc' = IF walks THEN NoToc ELSE {t}
         /\ unseen' = IF walks THEN {} ELSE unseen
         /\ group' = IF walks THEN [group EXCEPT !.on = FALSE] ELSE group
  /\ UNCHANGED <<table, cwd, config, calls, statics, wild, measured>>

Enter(f, arg) == Begin(f, arg) \/ BeginElsewhere(f, arg) \/ BeginFails(f, arg)

Next ==
  \/ \E f \in NamedFns : \E arg \in NameArgs : Enter(f, arg)
  \/ \E f \in {"DBSetDir", "DBMkDir", "DBMkDirP"} : \E arg \in DirArgs : Begin(f, arg)
  \/ \E arg \in NameArgs : ~ HasSlash(arg) /\ Begin("DBWriteObject", arg)
  \/ Begin("DBGetToc", [abs |-> TRUE, segs |-> <<>>])
  \/ Return \/ Jump
  \/ SetDir \/ MkDir \/ MkDirPUp \/ MkDirPDown \/ MkDirPBack
  \/ Write \/ ReadVar \/ PutComponent \/ PutHeader \/ WriteObject
  \/ GetCurve \/ VarByteLength \/ GetToc \/ InqFileHasObjects

Spec == Init /\ [][Next]_svars

-----------------------------------------------------------------------------
(* The types of the variables.                                             *)
TypeOK ==
  /\ dirs \subseteq Seq(Names) /\ cwd \in dirs
  /\ \A p \in Symbols : vars[p].kind \in {"var", "obj"} /\ vars[p].ok \in BOOLEAN
                         /\ vars[p].gen \in 1..writes
  /\ group.on \in BOOLEAN
  /\ allow \in Allows /\ level \in Levels
  /\ jstk \in {"empty", "live", "dead"} /\ jstat \in BOOLEAN /\ jold \subseteq dirs
  /\ wild \in BOOLEAN
  /\ writes \in 0..MaxWrites /\ faults \in 0..MaxFaults
  /\ measured \in BOOLEAN

(* "Each time an API function is called and the global jump stack, Jstk,   *)
(* is empty (as it should be at the application level)"                    *)
(* (silo_private.h:193): a call leaves a frame behind it in one case only, *)
(* when DBGetVarByteLength has measured an object.  Any error after that   *)
(* is a jump into a function that has returned.                            *)
FrameLeftOnlyByLength == calls = <<>> /\ jstk # "empty" => measured

(* A call that is over leaves the current directory as it found it,        *)
(* whether it returned or was ended by a jump, DBSetDir aside.  The code   *)
(* breaks this in two ways: a jump out of the DBMkDir that DBMkDirP calls, *)
(* and the static jold that the inner DBGetVarByteLength has reset.        *)
DirectoryKept ==
  [][calls # <<>> /\ calls' = <<>> /\ Top.fn # "DBSetDir" /\ ~ measured
       /\ ~ (Top.fn = "DBMkDirP" /\ Top.pc = "jump")
     => cwd' = Top.from]_svars

(* The table of contents an application holds between calls lists the      *)
(* current directory, but for the symbols that entered the file past       *)
(* db_FreeToc: a DBWriteObject of the program's own, a failed write that   *)
(* jumped.                                                                 *)
TocListsDirectory ==
  \A t \in toc :
    /\ t.dirs = {p \in Listing(cwd).dirs : <<"dir", p>> \notin unseen}
    /\ t.vars = {p \in Listing(cwd).vars : <<"var", p>> \notin unseen}

(* A group that DBGetCurve would take from the cache is the one the file   *)
(* holds, as long as nothing may be overwritten and no Put keeps its array *)
(* under the object's name (which DBWriteComponent does not look at).      *)
CachedGroupIsCurrent ==
  calls = <<>> /\ ~ allow.file /\ group.on =>
    \A arg \in group.name : LET p == Resolve(cwd, arg) IN
      \/ IsObj(p) /\ vars[p].gen = group.gen
      \/ \E n \in Names : Comp[n] = Last(p)

(* Every directory, variable and object lies in a directory of the file.   *)
ParentsExist ==
  /\ <<>> \in dirs
  /\ \A p \in dirs \ {<<>>} : Front(p) \in dirs
  /\ ~ measured => \A p \in Symbols : Front(p) \in dirs
=============================================================================
