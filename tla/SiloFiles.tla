----------------------------- MODULE SiloFiles ------------------------------
(***************************************************************************)
(* Opening and closing files in the device-independent layer of Silo       *)
(* (src/silo/silo.c) and the error reporting these calls depend on.        *)
(*                                                                         *)
(* The layer keeps a table of file ids in use, a list of open files that   *)
(* says which may be opened again, and the level of error reporting.  With *)
(* the levels "NONE" and "TOP" an error in a driver does not come back to  *)
(* its caller: db_perror jumps to the API call that the application made,  *)
(* past whatever the calls in between had left to do.                      *)
(*                                                                         *)
(* The library has one thread.  Drivers and the file system are external;  *)
(* a file is known by its inode, of which several names can exist.         *)
(***************************************************************************)
EXTENDS Integers, FiniteSets

CONSTANTS NFiles,       \* DB_NFILES
          Ptr,          \* the addresses malloc gives out for a DBfile
          Inode,        \* the identities of files (bound: their number)
          Names,        \* the names of files
          Nil,          \* no address, no file
          MaxNested     \* bound: no call starts beyond this nested_suspend

ASSUME FilesAssumption ==
    /\ NFiles \in Nat \ {0}
    /\ Nil \notin Ptr /\ Nil \notin Inode /\ Nil \notin [f : Ptr, n : Inode, w : BOOLEAN]
ASSUME NestedAssumption == MaxNested \in Nat

Slot == 0 .. (NFiles - 1)

VARIABLES fstatus,      \* _db_fstatus: the file ids in use
          vhand,        \* db_get_fileid: where its search starts
          reg,          \* _db_regstatus: by slot, Nil or [f, n, w]
          fileid,       \* the id in the DBfile at each address, or -1
          held,         \* the handles the application has
          inode,        \* the file system: the file of each name, or Nil
          level,        \* _db_err_level
          old, nested,  \* DBShowErrors: old_level and nested_suspend
          inq           \* DBInqFile: its phase, its file, and (ghost) the
                        \* level it was called with

files == <<fstatus, vhand, reg, fileid, held, inode>>
errors == <<level, old, nested>>
vars == <<fstatus, vhand, reg, fileid, held, inode, level, old, nested, inq>>

Idle == [phase |-> "idle", f |-> Nil, level |-> "TOP"]

Init ==
    /\ fstatus = [i \in Slot |-> FALSE] /\ vhand = 0
    /\ reg = [i \in Slot |-> Nil]
    /\ fileid = [p \in Ptr |-> -1]
    /\ held = {}
    /\ inode \in [Names -> Inode \cup {Nil}]
    /\ level = "TOP" /\ old = "NONE" /\ nested = 0
    /\ inq = Idle

-----------------------------------------------------------------------------
(* db_get_fileid *)

Probe(i) == (vhand + i) % NFiles

\* The first of the probed ids that is free.
FirstFree == {i \in Slot : ~fstatus[Probe(i)] /\ \A j \in 0 .. (i - 1) : fstatus[Probe(j)]}

NewIds == {Probe(i) : i \in FirstFree}

\* Where the next search starts.
NextHand(id) == (id + 1) % NFiles

-----------------------------------------------------------------------------
(* db_register_file, db_unregister_file, db_isregistered_file *)

Entries == {reg[i] : i \in Slot} \ {Nil}

Registered(f) == \E e \in Entries : e.f = f

\* The entry is lost if the list is full: nobody looks at the result.
Register(f, n, w) ==
    reg' = [i \in Slot |->
              IF reg[i] = Nil /\ \A j \in 0 .. (i - 1) : reg[j] # Nil
                THEN [f |-> f, n |-> n, w |-> w] ELSE reg[i]]

\* The entries behind the one that is removed move up, as far as they go
\* without a gap.
Follows(k, i) == k <= i /\ \A j \in (k + 1) .. i : reg[j] # Nil

NextUp_short(k, i) == i + 1 < NFiles - 1 /\ reg[i + 1] # Nil  \* mutant
NextUp(k, i) == IF i + 1 < NFiles THEN reg[i + 1] # Nil ELSE FALSE

Unregister(f) ==
    LET first == {k \in Slot : reg[k] # Nil /\ reg[k].f = f
                               /\ \A j \in 0 .. (k - 1) : reg[j] # Nil => reg[j].f # f}
    IN  reg' = [i \in Slot |->
                  IF \E k \in first : Follows(k, i)
                    THEN IF \E k \in first : NextUp(k, i) THEN reg[i + 1] ELSE Nil
                    ELSE reg[i]]

\* The first entry of file n, if it is on the list.
FirstOf(n) == {i \in Slot : /\ reg[i] # Nil /\ reg[i].n = n
                            /\ \A j \in 0 .. (i - 1) : reg[j] # Nil => reg[j].n # n}

\* Somebody has file n open and it cannot be shared with one more opener; w
\* says whether that one will write.
Busy_anyWriter(n, w) == \E i \in FirstOf(n) : reg[i].w        \* mutant
Busy(n, w) == \E i \in FirstOf(n) : reg[i].w \/ w

-----------------------------------------------------------------------------
(* Errors *)

\* db_perror, inside an API call: it jumps instead of returning.
Unwinds == level \in {"NONE", "TOP"}

Suspend ==
    /\ old' = IF nested = 0 THEN level ELSE old
    /\ nested' = nested + 1
    /\ level' = "NONE"

Resume ==
    /\ nested' = nested - 1
    /\ level' = IF nested - 1 = 0 THEN old ELSE level
    /\ UNCHANGED old

\* db_unk_Open suspends errors and, when it has tried the drivers, sets the
\* level it found again.
TryDrivers(type) ==
    IF type = "UNKNOWN"
      THEN /\ old' = IF nested = 0 THEN level ELSE old
           /\ nested' = nested + 1
           /\ UNCHANGED level
      ELSE UNCHANGED errors

\* DBShowErrors with one of the lasting levels.
ShowErrors(l) ==
    /\ inq.phase = "idle"
    /\ level' = l
    /\ UNCHANGED <<files, old, nested, inq>>

-----------------------------------------------------------------------------
(* What DBOpen and DBCreate do once the checks are passed *)

\* DBInqFile goes on with file f.
GoOn(phase, f) == inq' = [phase |-> phase, f |-> f, level |-> inq.level]

\* What the call gives to who made it: the application, or DBInqFile.
Deliver(f) ==
    IF inq.phase = "opening"
      THEN GoOn("opened", f) /\ UNCHANGED held
      ELSE held' = held \cup ({f} \ {Nil}) /\ UNCHANGED inq

Ready == inq.phase \in {"idle", "opening"} /\ nested <= MaxNested

\* An id is taken and the driver opens or creates the file, which is
\* registered.  Then filters run and the library version is read or written
\* in the file; if that fails and db_perror jumps, nobody gets the handle.
Succeed(id, n, w) ==
    \E f \in Ptr :
        /\ fileid[f] = -1
        /\ fstatus' = [fstatus EXCEPT ![id] = TRUE]
        /\ vhand' = NextHand(id)
        /\ fileid' = [fileid EXCEPT ![f] = id]
        /\ Register(f, n, w)
        /\ \/ Deliver(f)
           \/ Unwinds /\ Deliver(Nil)

\* The driver fails.  The id is given back if the driver returns; if it
\* reports an error, as db_unk_Open always does, and db_perror jumps, it is
\* not.
Fail(id, type) ==
    /\ vhand' = NextHand(id)
    /\ \/ (type = "UNKNOWN" => ~Unwinds) /\ UNCHANGED fstatus
       \/ Unwinds /\ fstatus' = [fstatus EXCEPT ![id] = TRUE]
    /\ Deliver(Nil)
    /\ UNCHANGED <<reg, fileid>>

\* DBOpen of an existing file, with a driver or DB_UNKNOWN.
Open(name, type, w) ==
    /\ Ready
    /\ inq.phase = "opening" => type = "UNKNOWN" /\ ~w
    /\ inode[name] # Nil
    /\ ~Busy(inode[name], w)
    /\ \E id \in NewIds : Succeed(id, inode[name], w) \/ Fail(id, type)
    /\ TryDrivers(type)
    /\ UNCHANGED inode

\* DBOpen is refused before any driver is asked: no such file, in use, or
\* too many files.
RefuseOpen(name, w) ==
    /\ Ready
    /\ inq.phase = "opening" => ~w
    /\ \/ inode[name] = Nil
       \/ Busy(inode[name], w)
       \/ NewIds = {}
    /\ Deliver(Nil)
    /\ UNCHANGED <<fstatus, vhand, reg, fileid, inode, errors>>

\* A file that is created gets an identity no name and no open file has.
NewInodes == {n \in Inode : /\ \A m \in Names : inode[m] # n
                            /\ \A e \in Entries : e.n # n}

\* DBCreate of a file that does not exist, or of one that does: with
\* DB_CLOBBER, and only if it is not open at all.
Create(name) ==
    /\ Ready /\ inq.phase = "idle"
    /\ inode[name] # Nil => ~Busy(inode[name], TRUE)
    /\ \E id \in NewIds :
         \/ \E n \in IF inode[name] = Nil THEN NewInodes ELSE {inode[name]} :
              /\ Succeed(id, n, TRUE)
              /\ inode' = [inode EXCEPT ![name] = n]
         \/ /\ Fail(id, "DRIVER")
            /\ \/ UNCHANGED inode
               \/ /\ inode[name] = Nil
                  /\ \E n \in NewInodes : inode' = [inode EXCEPT ![name] = n]
    /\ UNCHANGED errors

\* DBClose: the id and the list first, then the driver, which frees the
\* DBfile whether it succeeds or not.
Release_other(f) == fstatus' = [fstatus EXCEPT ![vhand] = FALSE]  \* mutant
Release(f) == fstatus' = [fstatus EXCEPT ![fileid[f]] = FALSE]

Closing(f) ==
    /\ Registered(f)
    /\ Release(f)
    /\ Unregister(f)
    /\ fileid' = [fileid EXCEPT ![f] = -1]
    /\ UNCHANGED <<vhand, inode, errors>>

Close(f) ==
    /\ inq.phase = "idle"
    /\ f \in held
    /\ Closing(f)
    /\ held' = held \ {f}
    /\ UNCHANGED inq

\* Anybody removes a name; a file that is open lives on.
Unlink(name) ==
    /\ inq.phase = "idle"
    /\ inode[name] # Nil
    /\ inode' = [inode EXCEPT ![name] = Nil]
    /\ UNCHANGED <<fstatus, vhand, reg, fileid, held, errors, inq>>

-----------------------------------------------------------------------------
(* DBInqFile: errors are suspended, the file is opened with DB_UNKNOWN for *)
(* reading, errors are resumed and the file is closed.                     *)

InqFile ==
    /\ inq.phase = "idle" /\ nested < MaxNested
    /\ Suspend
    /\ inq' = [phase |-> "opening", f |-> Nil, level |-> level]
    /\ UNCHANGED files

\* An error while the file is looked at jumps back to DBInqFile, whose
\* local dbfile, set since the setjmp, may then be the null it was before.
InqResume ==
    /\ inq.phase = "opened"
    /\ Resume
    /\ \E f \in {inq.f, Nil} : GoOn(IF f = Nil THEN "idle" ELSE "resumed", f)
    /\ UNCHANGED files

InqClose ==
    /\ inq.phase = "resumed"
    /\ Closing(inq.f)
    /\ GoOn("idle", Nil)
    /\ UNCHANGED held

-----------------------------------------------------------------------------
Next ==
    \/ \E name \in Names :
         \/ \E w \in BOOLEAN : \/ \E type \in {"DRIVER", "UNKNOWN"} : Open(name, type, w)
                               \/ RefuseOpen(name, w)
         \/ Create(name)
         \/ Unlink(name)
    \/ \E f \in Ptr : Close(f)
    \/ \E l \in {"NONE", "TOP", "ALL"} : ShowErrors(l)
    \/ InqFile \/ InqResume \/ InqClose

Spec == Init /\ [][Next]_vars

-----------------------------------------------------------------------------
(* Properties *)

Levels == {"NONE", "TOP", "ALL"}

\* The variables have their types (the proofs build on it).
TypeOK ==
    /\ fstatus \in [Slot -> BOOLEAN] /\ vhand \in Slot
    /\ reg \in [Slot -> [f : Ptr, n : Inode, w : BOOLEAN] \cup {Nil}]
    /\ fileid \in [Ptr -> Slot \cup {-1}]
    /\ held \subseteq Ptr
    /\ inode \in [Names -> Inode \cup {Nil}]
    /\ level \in Levels /\ old \in Levels /\ nested \in Int
    /\ inq \in [phase : {"idle", "opening", "opened", "resumed"},
                f : Ptr \cup {Nil}, level : Levels]

\* A file is open for several readers or for one writer, whatever names it
\* was opened by and whatever failed in between.
ReadersOrWriter ==
    \A i, j \in Slot : i # j /\ reg[i] # Nil /\ reg[j] # Nil /\ reg[i].n = reg[j].n
        => ~reg[i].w /\ ~reg[j].w

\* Every handle that was given out is on the list, so that no call on it is
\* refused; the list has no gap, where its search for a place or a removal
\* would stop short, and no handle twice.
HandlesListed ==
    /\ \A f \in held \cup ({inq.f} \ {Nil}) : Registered(f)
    /\ \A i \in Slot : reg[i] # Nil => \A j \in 0 .. (i - 1) : reg[j] # Nil
    /\ \A i, j \in Slot : i # j /\ reg[i] # Nil /\ reg[j] # Nil => reg[i].f # reg[j].f

\* "The ID is a small integer [0..DB_NFILES-1]", "unique with respect to all
\* other open files": open files have different ids and theirs are not free.
IdsUnique ==
    \A e \in Entries :
        /\ fileid[e.f] \in Slot
        /\ fstatus[fileid[e.f]]
        /\ \A d \in Entries : d.f # e.f => fileid[d.f] # fileid[e.f]

\* The list of open files implements the abstract locks.
Locks == INSTANCE FileLocks WITH
           Handle <- Ptr, File <- Inode, holds <- Entries
ImplementsFileLocks == Locks!Spec

-----------------------------------------------------------------------------
(* Statements of the source that the code does not keep *)

\* "reset _db_fstatus slot to 0 if open fails": an id that is in use belongs
\* to a file that is open.
IdsOfOpenFiles ==
    \A i \in Slot : fstatus[i] => \E f \in Ptr : fileid[f] = i
=============================================================================
