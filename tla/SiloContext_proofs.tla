------------------------- MODULE SiloContext_proofs -------------------------
(***************************************************************************)
(* For every set of names, directories, error levels and settings: a call  *)
(* that is over leaves the directory and the jump stack as it found them,  *)
(* but for the cases the properties name, and the table of contents that   *)
(* is kept lists the current directory.                                    *)
(***************************************************************************)
EXTENDS SiloContext, SequenceTheorems, WellFoundedInduction, TLAPS

-----------------------------------------------------------------------------
(* One call at a time: until DBGetVarByteLength has measured an object,    *)
(* the call in progress is the one that pushed the frame, and the          *)
(* directory it will go back to is in jold, or is the current one.         *)

Fields == {"fn", "arg", "pc", "from", "at", "res"}
Returns(c) ==
  /\ DOMAIN c = Fields
  /\ jold # {} => jold = {c.from}
  /\ c.fn = "DBMkDirP" => jold = {}
  /\ jold = {} => \/ cwd = c.from
                  \/ c.fn = "DBSetDir"
                  \/ c.fn = "DBMkDirP" /\ c.pc \in {"down", "back", "jump"}

Idle == calls = <<>> /\ jstk = "empty"
Busy == \E c : calls = <<c>> /\ jstk = "live" /\ jstat /\ Returns(c)
FrameInv == measured \/ Idle \/ Busy

LEMMA FrameInitially == Init => FrameInv
BY DEF Init, FrameInv, Idle

LEMMA Single ==
  ASSUME NEW c, calls = <<c>>
  PROVE  /\ calls # <<>> /\ Top = c /\ Front(calls) = <<>> /\ Len(calls) = 1
         /\ \A d : Append(Front(calls), d) = <<d>>
<1>1. Front(calls) = <<>>
  BY DEF Front
<1>2. \A d : Append(<<>>, d) = <<d>>
  OBVIOUS
<1>3. Top = c
  BY DEF Top, Last
<1> QED
  BY <1>1, <1>2, <1>3

\* A step of the call in progress that neither enters nor leaves it.
LEMMA Proceeds ==
  ASSUME FrameInv, ~ measured, NEW c, calls = <<c>>, UNCHANGED statics,
         NEW d, calls' = <<d>>, DOMAIN d = Fields, d.fn = c.fn, d.from = c.from,
         \/ cwd' = cwd /\ (d.pc = c.pc \/ c.fn # "DBMkDirP" \/ d.pc \in {"down", "back", "jump"})
         \/ cwd' = c.from
         \/ c.fn = "DBSetDir"
         \/ c.fn = "DBMkDirP" /\ d.pc \in {"down", "back", "jump"}
  PROVE  FrameInv'
<1>1. jstk = "live" /\ jstat /\ Returns(c)
  BY DEF FrameInv, Idle, Busy
<1>2. Returns(d)'
  BY <1>1 DEF Returns, statics
<1> QED
  BY <1>1, <1>2 DEF FrameInv, Busy, statics

LEMMA Steps ==
  ASSUME FrameInv, ~ measured, NEW c, calls = <<c>>
  PROVE  /\ DOMAIN c = Fields
         /\ \A pc : LET d == [c EXCEPT !.pc = pc]
                    IN DOMAIN d = Fields /\ d.fn = c.fn /\ d.from = c.from /\ d.pc = pc
         /\ \A r : LET d == [c EXCEPT !.pc = "return", !.res = r]
                   IN DOMAIN d = Fields /\ d.fn = c.fn /\ d.from = c.from /\ d.pc = "return"
<1>1. DOMAIN c = Fields
  BY DEF FrameInv, Idle, Busy, Returns
<1> QED
  BY <1>1 DEF Fields

LEMMA InCall ==
  ASSUME FrameInv, ~ measured, calls # <<>>
  PROVE  \E c : calls = <<c>> /\ Top = c /\ jstk = "live" /\ jstat /\ Returns(c)
BY Single DEF FrameInv, Idle, Busy

\* What Goto, Yield and Perror make of the call.
LEMMA Outcome ==
  ASSUME FrameInv, ~ measured, NEW c, calls = <<c>>, NEW r, Yield(r) \/ Perror(r)
  PROVE  \E d : /\ calls' = <<d>> /\ DOMAIN d = Fields /\ d.fn = c.fn /\ d.from = c.from
                /\ d.pc \in {"return", "jump"}
<1>1. Top = c /\ \A d : Append(Front(calls), d) = <<d>>
  BY Single
<1>2. CASE Yield(r)
  <2> DEFINE d == [c EXCEPT !.pc = "return", !.res = r]
  <2>1. calls' = <<d>>
    BY <1>1, <1>2 DEF Yield
  <2>2. DOMAIN d = Fields /\ d.fn = c.fn /\ d.from = c.from /\ d.pc = "return"
    BY Steps
  <2> HIDE DEF d
  <2> QED
    BY <2>1, <2>2
<1>3. CASE Goto("jump")
  <2> DEFINE d == [c EXCEPT !.pc = "jump"]
  <2>1. calls' = <<d>>
    BY <1>1, <1>3 DEF Goto
  <2>2. DOMAIN d = Fields /\ d.fn = c.fn /\ d.from = c.from /\ d.pc = "jump"
    BY Steps
  <2> HIDE DEF d
  <2> QED
    BY <2>1, <2>2
<1> QED
  BY <1>2, <1>3 DEF Perror

\* An action that ends in Yield or Perror, in the directory it began in.
LEMMA EndsHere ==
  ASSUME FrameInv, ~ measured, calls # <<>>, Top.fn # "DBMkDirP", NEW r, Yield(r) \/ Perror(r),
         UNCHANGED <<cwd, statics>>
  PROVE  FrameInv'
<1>1. PICK c : calls = <<c>> /\ Top = c
  BY InCall
<1>2. PICK d : calls' = <<d>> /\ DOMAIN d = Fields /\ d.fn = c.fn /\ d.from = c.from
  BY <1>1, Outcome
<1> QED
  BY <1>1, <1>2, Proceeds

\* A call that begins, in its own directory or in the one it switched to.
LEMMA Begins ==
  ASSUME NEW d, calls' = <<d>>, jstk' = "live", jstat', DOMAIN d = Fields,
         \/ jold' = {} /\ cwd' = d.from
         \/ jold' = {d.from} /\ d.fn # "DBMkDirP"
  PROVE  FrameInv'
<1>1. Returns(d)'
  BY DEF Returns
<1> QED
  BY <1>1 DEF FrameInv, Busy

LEMMA BeginFrame ==
  ASSUME FrameInv, ~ measured, NEW f, NEW arg, Enter(f, arg) PROVE FrameInv'
<1>1. CASE Begin(f, arg)
  <2>1. calls' = <<NewCall(f, arg)>> /\ jstk' = "live" /\ jstat' /\ jold' = {} /\ cwd' = cwd
    BY <1>1 DEF Begin, Push, FrameInv, Idle, Busy, NoDir
  <2>2. PICK d : d = NewCall(f, arg)
    OBVIOUS
  <2>3. DOMAIN d = Fields /\ d.from = cwd
    BY <2>2 DEF NewCall, Fields
  <2> QED
    BY <2>1, <2>2, <2>3, Begins
<1>2. CASE BeginElsewhere(f, arg)
  <2>1. calls' = <<NewCall(f, Base(arg))>> /\ jstk' = "live" /\ jstat' /\ jold' = {cwd}
    BY <1>2 DEF BeginElsewhere, Push, FrameInv, Idle, Busy
  <2>2. PICK d : d = NewCall(f, Base(arg))
    OBVIOUS
  <2>3. DOMAIN d = Fields /\ d.from = cwd /\ d.fn = f
    BY <2>2 DEF NewCall, Fields
  <2>4. f # "DBMkDirP"
    BY <1>2 DEF BeginElsewhere, NamedFns
  <2> QED
    BY <2>1, <2>2, <2>3, <2>4, Begins
<1>3. CASE BeginFails(f, arg)
  BY <1>3 DEF BeginFails, FrameInv, Idle, Busy, statics
<1> QED
  BY <1>1, <1>2, <1>3 DEF Enter

\* The actions of a call that end in Yield or Perror and stay where they are.
LEMMA PlainFrame ==
  ASSUME FrameInv, ~ measured,
         MkDir \/ Write \/ ReadVar \/ PutHeader \/ WriteObject \/ GetCurve \/ GetToc
  PROVE  FrameInv'
<1>1. CASE MkDir
  <2>1. calls # <<>> /\ Top.fn = "DBMkDir" /\ UNCHANGED <<cwd, statics>>
    BY <1>1 DEF MkDir, In
  <2>2. Yield(0) \/ Perror(-1)
    BY <1>1 DEF MkDir
  <2> QED
    BY <2>1, <2>2, EndsHere
<1>2. CASE Write
  <2>1. calls # <<>> /\ Top.fn = "DBWrite" /\ UNCHANGED <<cwd, statics>>
    BY <1>2 DEF Write, In
  <2>2. Yield(0) \/ Perror(-1)
    BY <1>2 DEF Write
  <2> QED
    BY <2>1, <2>2, EndsHere
<1>3. CASE ReadVar
  <2>1. calls # <<>> /\ Top.fn = "DBReadVar" /\ UNCHANGED <<cwd, statics>>
    BY <1>3 DEF ReadVar, In
  <2>2. Yield(0) \/ Perror(-1)
    BY <1>3 DEF ReadVar
  <2> QED
    BY <2>1, <2>2, EndsHere
<1>4. CASE PutHeader
  <2>1. calls # <<>> /\ Top.fn = "DBPutCurve" /\ UNCHANGED <<cwd, statics>>
    BY <1>4 DEF PutHeader, In
  <2>2. Yield(0) \/ Perror(0)
    BY <1>4 DEF PutHeader
  <2> QED
    BY <2>1, <2>2, EndsHere
<1>5. CASE WriteObject
  <2>1. calls # <<>> /\ Top.fn = "DBWriteObject" /\ UNCHANGED <<cwd, statics>>
    BY <1>5 DEF WriteObject, In
  <2>2. Yield(0) \/ Perror(-1)
    BY <1>5 DEF WriteObject
  <2> QED
    BY <2>1, <2>2, EndsHere
<1>6. CASE GetCurve
  <2>1. calls # <<>> /\ Top.fn = "DBGetCurve" /\ UNCHANGED <<cwd, statics>>
    BY <1>6 DEF GetCurve, In
  <2>2. Yield(0) \/ Perror(-1)
    BY <1>6 DEF GetCurve
  <2> QED
    BY <2>1, <2>2, EndsHere
<1>7. CASE GetToc
  <2>1. calls # <<>> /\ Top.fn = "DBGetToc" /\ UNCHANGED <<cwd, statics>>
    BY <1>7 DEF GetToc, In
  <2> QED
    BY <1>7, <2>1, EndsHere DEF GetToc
<1> QED
  BY <1>1, <1>2, <1>3, <1>4, <1>5, <1>6, <1>7

LEMMA SetDirFrame == ASSUME FrameInv, ~ measured, SetDir PROVE FrameInv'
<1>1. calls # <<>> /\ Top.fn = "DBSetDir" /\ UNCHANGED statics
  BY DEF SetDir, In
<1>2. PICK c : calls = <<c>> /\ Top = c
  BY <1>1, InCall
<1>3. \E r \in {0, -1} : Yield(r) \/ Perror(r)
  BY DEF SetDir
<1>4. PICK d : calls' = <<d>> /\ DOMAIN d = Fields /\ d.fn = c.fn /\ d.from = c.from
  BY <1>2, <1>3, Outcome
<1> QED
  BY <1>1, <1>2, <1>4, Proceeds

\* A step of DBMkDirP or DBPutCurve that changes the record of the call.
LEMMA MkDirPUpFrame == ASSUME FrameInv, ~ measured, MkDirPUp PROVE FrameInv'
<1>1. calls # <<>> /\ Top.fn = "DBMkDirP" /\ UNCHANGED <<cwd, statics>>
  BY DEF MkDirPUp, In
<1>2. PICK c : calls = <<c>> /\ Top = c /\ Returns(c)
  BY <1>1, InCall
<1>3. PICK a, b : calls' = <<[c EXCEPT !.pc = "down", !.arg = a, !.at = b]>>
  BY <1>2 DEF MkDirPUp
<1> DEFINE d == [c EXCEPT !.pc = "down", !.arg = a, !.at = b]
<1>4. DOMAIN d = Fields /\ d.fn = c.fn /\ d.from = c.from /\ d.pc = "down"
  BY <1>2 DEF Returns, Fields
<1>5. calls' = <<d>>
  BY <1>3
<1> HIDE DEF d
<1> QED
  BY <1>1, <1>2, <1>4, <1>5, Proceeds

LEMMA MkDirPDownFrame == ASSUME FrameInv, ~ measured, MkDirPDown PROVE FrameInv'
<1>1. calls # <<>> /\ Top.fn = "DBMkDirP" /\ Top.pc = "down" /\ UNCHANGED statics
  BY DEF MkDirPDown, In
<1>2. PICK c : calls = <<c>> /\ Top = c /\ Returns(c)
  BY <1>1, InCall
<1>3. \/ \E p : calls' = <<[c EXCEPT !.at = p]>>
      \/ Goto("jump")
      \/ calls' = <<[c EXCEPT !.pc = "back", !.res = -1]>>
  BY <1>2 DEF MkDirPDown
<1>4. CASE \E p : calls' = <<[c EXCEPT !.at = p]>>
  <2>1. PICK p : calls' = <<[c EXCEPT !.at = p]>>
    BY <1>4
  <2> DEFINE d == [c EXCEPT !.at = p]
  <2>2. DOMAIN d = Fields /\ d.fn = c.fn /\ d.from = c.from /\ d.pc = "down"
    BY <1>1, <1>2 DEF Returns, Fields
  <2>3. calls' = <<d>>
    BY <2>1
  <2> HIDE DEF d
  <2> QED
    BY <1>1, <1>2, <2>2, <2>3, Proceeds
<1>5. CASE Goto("jump")
  <2> DEFINE d == [c EXCEPT !.pc = "jump"]
  <2>1. calls' = <<d>>
    BY <1>2, <1>5, Single DEF Goto
  <2>2. DOMAIN d = Fields /\ d.fn = c.fn /\ d.from = c.from /\ d.pc = "jump"
    BY <1>2, Steps
  <2> HIDE DEF d
  <2> QED
    BY <1>1, <1>2, <2>1, <2>2, Proceeds
<1>6. CASE calls' = <<[c EXCEPT !.pc = "back", !.res = -1]>>
  <2> DEFINE d == [c EXCEPT !.pc = "back", !.res = -1]
  <2>1. DOMAIN d = Fields /\ d.fn = c.fn /\ d.from = c.from /\ d.pc = "back"
    BY <1>2 DEF Returns, Fields
  <2>2. calls' = <<d>>
    BY <1>6
  <2> HIDE DEF d
  <2> QED
    BY <1>1, <1>2, <2>1, <2>2, Proceeds
<1> QED
  BY <1>3, <1>4, <1>5, <1>6

LEMMA MkDirPBackFrame == ASSUME FrameInv, ~ measured, MkDirPBack PROVE FrameInv'
<1>1. calls # <<>> /\ Top.fn = "DBMkDirP" /\ UNCHANGED statics /\ cwd' = Top.from
  BY DEF MkDirPBack, In, ChangeDir
<1>2. PICK c : calls = <<c>> /\ Top = c /\ Returns(c)
  BY <1>1, InCall
<1> DEFINE d == [c EXCEPT !.pc = "return"]
<1>3. calls' = <<d>>
  BY <1>2, Single DEF MkDirPBack, Goto
<1>4. DOMAIN d = Fields /\ d.fn = c.fn /\ d.from = c.from /\ d.pc = "return"
  BY <1>2, Steps
<1> HIDE DEF d
<1> QED
  BY <1>1, <1>2, <1>3, <1>4, Proceeds

LEMMA PutComponentFrame == ASSUME FrameInv, ~ measured, PutComponent PROVE FrameInv'
<1>1. calls # <<>> /\ Top.fn = "DBPutCurve" /\ UNCHANGED <<cwd, statics>>
  BY DEF PutComponent, In
<1>2. PICK c : calls = <<c>> /\ Top = c /\ Returns(c)
  BY <1>1, InCall
<1>3. Perror(-1) \/ \E p : calls' = <<[c EXCEPT !.pc = "header", !.at = p]>>
  BY <1>2 DEF PutComponent
<1>4. CASE Perror(-1)
  BY <1>1, <1>4, EndsHere
<1>5. CASE \E p : calls' = <<[c EXCEPT !.pc = "header", !.at = p]>>
  <2>1. PICK p : calls' = <<[c EXCEPT !.pc = "header", !.at = p]>>
    BY <1>5
  <2> DEFINE d == [c EXCEPT !.pc = "header", !.at = p]
  <2>2. DOMAIN d = Fields /\ d.fn = c.fn /\ d.from = c.from
    BY <1>2 DEF Returns, Fields
  <2>3. calls' = <<d>>
    BY <2>1
  <2> HIDE DEF d
  <2> QED
    BY <1>1, <1>2, <2>2, <2>3, Proceeds
<1> QED
  BY <1>3, <1>4, <1>5

LEMMA LengthFrame == ASSUME FrameInv, ~ measured, VarByteLength PROVE FrameInv'
<1>1. CASE measured'
  BY <1>1 DEF FrameInv
<1>2. CASE ~ measured'
  <2>1. calls # <<>> /\ Top.fn = "DBGetVarByteLength"
    BY DEF VarByteLength, In
  <2>2. UNCHANGED <<cwd, statics>> /\ (Yield(0) \/ Perror(0))
    BY <1>2 DEF VarByteLength, statics
  <2> QED
    BY <2>1, <2>2, EndsHere
<1> QED
  BY <1>1, <1>2

\* The two ways out: the frame is popped, the stack is empty again.
LEMMA ExitFrame == ASSUME FrameInv, ~ measured, Return \/ Jump PROVE FrameInv'
<1>1. calls # <<>>
  BY DEF Return, Jump
<1>2. PICK c : calls = <<c>> /\ Front(calls) = <<>> /\ jstk = "live" /\ jstat
  BY <1>1, InCall, Single
<1>3. calls' = <<>> /\ jstk' = "empty"
  BY <1>2 DEF Return, Jump
<1> QED
  BY <1>3 DEF FrameInv, Idle

LEMMA FrameKept == FrameInv /\ [Next]_svars => FrameInv'
<1> SUFFICES ASSUME FrameInv, [Next]_svars PROVE FrameInv'
  OBVIOUS
<1>1. CASE UNCHANGED svars
  BY <1>1 DEF svars, statics, ghosts, FrameInv, Idle, Busy, Returns
<1>2. CASE measured
  <2>1. measured'
    BY <1>2, <1>1 DEF Next, Enter, Begin, BeginElsewhere, BeginFails, Return, Jump, SetDir, MkDir,
       MkDirPUp, MkDirPDown, MkDirPBack, Write, ReadVar, PutComponent, PutHeader, WriteObject,
       GetCurve, VarByteLength, GetToc, InqFileHasObjects, svars, ghosts
  <2> QED
    BY <2>1 DEF FrameInv
<1>3. CASE ~ measured /\ Next
  <2>1. CASE InqFileHasObjects
    BY <1>3, <2>1 DEF InqFileHasObjects, FrameInv, Idle, Busy, statics
  <2> QED
    BY <1>3, <2>1, BeginFrame, PlainFrame, SetDirFrame, MkDirPUpFrame, MkDirPDownFrame,
       MkDirPBackFrame, PutComponentFrame, LengthFrame, ExitFrame DEF Next, Enter
<1> QED
  BY <1>1, <1>2, <1>3

(* A call that is over has popped the frame it pushed, however it ended,   *)
(* unless DBGetVarByteLength has measured an object: FrameLeftOnlyByLength *)
(* for every instance.                                                     *)
THEOREM FramesArePopped == Spec => []FrameLeftOnlyByLength
<1>1. FrameInv => FrameLeftOnlyByLength
  BY DEF FrameInv, Idle, Busy, FrameLeftOnlyByLength
<1> QED
  BY <1>1, FrameInitially, FrameKept, PTL DEF Spec

-----------------------------------------------------------------------------
(* The directory a call ends in.                                           *)

LEMMA EndsInItsDirectory ==
  ASSUME FrameInv, ~ measured, [Next]_svars, calls # <<>>, calls' = <<>>,
         Top.fn # "DBSetDir", ~ (Top.fn = "DBMkDirP" /\ Top.pc = "jump")
  PROVE  cwd' = Top.from
<1>1. PICK c : calls = <<c>> /\ Top = c /\ jstk = "live" /\ jstat /\ Returns(c)
  BY InCall
<1>2. Return \/ Jump
  <2>1. \A d : Append(Front(calls), d) # <<>>
    BY <1>1, Single
  <2>2. ~ UNCHANGED svars
    BY DEF svars
  <2>3. \A r, pc : ~ Yield(r) /\ ~ Perror(r) /\ ~ Goto(pc)
    BY <2>1 DEF Yield, Perror, Goto
  <2>4. ~ (SetDir \/ MkDir \/ Write \/ ReadVar \/ PutHeader \/ WriteObject \/ GetCurve \/ GetToc)
    BY <2>3 DEF SetDir, MkDir, Write, ReadVar, PutHeader, WriteObject, GetCurve, GetToc
  <2>5. ~ (MkDirPUp \/ MkDirPDown \/ MkDirPBack \/ PutComponent)
    BY <2>3 DEF MkDirPUp, MkDirPDown, MkDirPBack, PutComponent
  <2>6. ~ VarByteLength
    <3>1. \A e, d : Append(Append(Front(calls), e), d) # <<>>
      BY <1>1, Single
    <3> QED
      BY <2>3, <3>1 DEF VarByteLength
  <2> QED
    BY <2>2, <2>4, <2>5, <2>6 DEF Next, Enter, Begin, BeginElsewhere, BeginFails, InqFileHasObjects
<1>3. RestoreDir /\ (Top.fn = "DBMkDirP" => Top.pc = "return")
  BY <1>1, <1>2 DEF Return, Jump
<1>4. CASE jold = {}
  <2>1. cwd = c.from
    BY <1>1, <1>3, <1>4 DEF Returns
  <2> QED
    BY <1>1, <1>3, <1>4, <2>1 DEF RestoreDir, NoDir
<1>5. CASE jold = {c.from}
  BY <1>1, <1>3, <1>5 DEF RestoreDir, NoDir, ChangeDir
<1> QED
  BY <1>1, <1>4, <1>5 DEF Returns

(* Whether it returned or was ended by a jump, a call leaves the directory *)
(* as it found it, but for the exceptions DirectoryKept names.             *)
THEOREM DirectoriesAreRestored == Spec => DirectoryKept
<1>1. FrameInv /\ [Next]_svars =>
        [calls # <<>> /\ calls' = <<>> /\ Top.fn # "DBSetDir" /\ ~ measured
           /\ ~ (Top.fn = "DBMkDirP" /\ Top.pc = "jump")
         => cwd' = Top.from]_svars
  BY EndsInItsDirectory
<1> QED
  BY <1>1, FrameInitially, FrameKept, PTL DEF Spec, DirectoryKept

-----------------------------------------------------------------------------
(* The table of contents: with none there is nothing it has not seen.      *)

TocInv == TocListsDirectory /\ (toc = {} => unseen = {})

LEMMA TocInitially == Init => TocInv
BY DEF Init, TocInv, TocListsDirectory, NoToc

LEMMA TocSame ==
  ASSUME TocInv, UNCHANGED <<dirs, vars, cwd, toc, unseen>> PROVE TocInv'
BY DEF TocInv, TocListsDirectory, Listing, Inside, Symbols

LEMMA TocFreed == ASSUME toc' = {}, unseen' = {} PROVE TocInv'
BY DEF TocInv, TocListsDirectory

LEMMA TocMade ==
  ASSUME TocInv, NEW p, dirs' \in {dirs, dirs \cup {p}}, UNCHANGED <<vars, cwd>>, Unlisted("dir", p)
  PROVE  TocInv'
<1>1. toc' = toc
  BY DEF Unlisted
<1>2. CASE toc = {}
  BY <1>1, <1>2 DEF Unlisted, NoToc, TocInv, TocListsDirectory
<1>3. CASE toc # {} /\ p \in dirs
  <2>1. dirs' = dirs /\ unseen' = unseen
    BY <1>3 DEF Unlisted
  <2> QED
    BY <1>1, <2>1, TocSame
<1>4. CASE toc # {} /\ p \notin dirs
  <2>1. unseen' = unseen \cup {<<"dir", p>>}
    BY <1>4 DEF Unlisted, NoToc
  <2>2. ASSUME NEW t \in toc'
        PROVE  /\ t.dirs = {q \in dirs' : Inside(cwd', q) /\ <<"dir", q>> \notin unseen'}
               /\ t.vars = {q \in DOMAIN vars' : Inside(cwd', q) /\ <<"var", q>> \notin unseen'}
    <3>1. /\ t.dirs = {q \in dirs : Inside(cwd, q) /\ <<"dir", q>> \notin unseen}
          /\ t.vars = {q \in DOMAIN vars : Inside(cwd, q) /\ <<"var", q>> \notin unseen}
      BY <1>1 DEF TocInv, TocListsDirectory, Listing, Symbols
    <3>2. \A q : <<"dir", q>> \in unseen' <=> <<"dir", q>> \in unseen \/ q = p
      BY <2>1
    <3>3. \A q : <<"var", q>> \in unseen' <=> <<"var", q>> \in unseen
      BY <2>1
    <3>4. t.dirs = {q \in dirs' : Inside(cwd', q) /\ <<"dir", q>> \notin unseen'}
      BY <1>4, <3>1, <3>2 DEF Inside
    <3>5. t.vars = {q \in DOMAIN vars' : Inside(cwd', q) /\ <<"var", q>> \notin unseen'}
      BY <3>1, <3>3 DEF Inside
    <3> QED
      BY <3>4, <3>5
  <2> QED
    BY <1>1, <1>4, <2>2 DEF TocInv, TocListsDirectory, Listing, Symbols
<1> QED
  BY <1>2, <1>3, <1>4

LEMMA TocWritten ==
  ASSUME TocInv, NEW p, DOMAIN vars' = DOMAIN vars \cup {p}, UNCHANGED <<dirs, cwd>>,
         Unlisted("var", p)
  PROVE  TocInv'
<1>1. toc' = toc
  BY DEF Unlisted
<1>2. CASE toc = {}
  BY <1>1, <1>2 DEF Unlisted, NoToc, TocInv, TocListsDirectory
<1>3. CASE toc # {} /\ p \in Symbols
  <2>1. DOMAIN vars' = DOMAIN vars /\ unseen' = unseen
    BY <1>3 DEF Unlisted, Symbols
  <2> QED
    BY <1>1, <2>1 DEF TocInv, TocListsDirectory, Listing, Inside, Symbols
<1>4. CASE toc # {} /\ p \notin Symbols
  <2>1. unseen' = unseen \cup {<<"var", p>>}
    BY <1>4 DEF Unlisted, NoToc
  <2>2. ASSUME NEW t \in toc'
        PROVE  /\ t.dirs = {q \in dirs' : Inside(cwd', q) /\ <<"dir", q>> \notin unseen'}
               /\ t.vars = {q \in DOMAIN vars' : Inside(cwd', q) /\ <<"var", q>> \notin unseen'}
    <3>1. /\ t.dirs = {q \in dirs : Inside(cwd, q) /\ <<"dir", q>> \notin unseen}
          /\ t.vars = {q \in DOMAIN vars : Inside(cwd, q) /\ <<"var", q>> \notin unseen}
      BY <1>1 DEF TocInv, TocListsDirectory, Listing, Symbols
    <3>2. \A q : <<"var", q>> \in unseen' <=> <<"var", q>> \in unseen \/ q = p
      BY <2>1
    <3>3. \A q : <<"dir", q>> \in unseen' <=> <<"dir", q>> \in unseen
      BY <2>1
    <3>4. t.vars = {q \in DOMAIN vars' : Inside(cwd', q) /\ <<"var", q>> \notin unseen'}
      BY <1>4, <3>1, <3>2 DEF Inside, Symbols
    <3>5. t.dirs = {q \in dirs' : Inside(cwd', q) /\ <<"dir", q>> \notin unseen'}
      BY <3>1, <3>3 DEF Inside
    <3> QED
      BY <3>4, <3>5
  <2> QED
    BY <1>1, <1>4, <2>2 DEF TocInv, TocListsDirectory, Listing, Symbols
<1> QED
  BY <1>2, <1>3, <1>4

LEMMA TocMoved ==
  ASSUME TocInv, NEW d, NEW same, same => d = cwd, ChangeDir(d, same), UNCHANGED <<dirs, vars>>
  PROVE  TocInv'
BY TocSame, TocFreed DEF ChangeDir, NoToc

LEMMA TocRestored ==
  ASSUME TocInv, RestoreDir, UNCHANGED <<dirs, vars>> PROVE TocInv'
BY TocSame, TocMoved DEF RestoreDir

LEMMA SymbolsWritten ==
  ASSUME NEW p, NEW kind, NEW ok, Written(p, kind, ok)
  PROVE  DOMAIN vars' = DOMAIN vars \cup {p} /\ UNCHANGED dirs
BY DEF Written, Store, Symbols

LEMMA TocKept == TocInv /\ [Next]_svars => TocInv'
<1> SUFFICES ASSUME TocInv, [Next]_svars PROVE TocInv'
  OBVIOUS
<1>1. CASE UNCHANGED svars
  BY <1>1, TocSame DEF svars, table, ghosts
<1>2. ASSUME NEW f, NEW arg, Enter(f, arg) PROVE TocInv'
  <2>1. CASE Begin(f, arg)
    BY <2>1, TocSame DEF Begin, table, ghosts
  <2>2. CASE BeginElsewhere(f, arg)
    BY <2>2, TocMoved DEF BeginElsewhere, table
  <2>3. CASE BeginFails(f, arg)
    BY <2>3, TocSame, TocFreed DEF BeginFails, table, FreeToc, NoToc
  <2> QED
    BY <1>2, <2>1, <2>2, <2>3 DEF Enter
<1>3. CASE Return
  BY <1>3, TocRestored DEF Return, table
<1>4. CASE Jump
  BY <1>4, TocRestored, TocSame DEF Jump, table
<1>5. CASE SetDir
  BY <1>5, TocMoved, TocSame, TocFreed DEF SetDir, table, FreeToc, NoToc
<1>6. CASE MkDir
  BY <1>6, TocMade, TocSame, TocFreed DEF MkDir, Made, table, FreeToc, NoToc
<1>7. CASE MkDirPUp
  BY <1>7, TocSame DEF MkDirPUp, table, ghosts
<1>8. CASE MkDirPDown
  <2> DEFINE d == Top.at
             p == SubSeq(Top.arg.segs, 1, Len(d) + 1)
  <2>1. cwd' = d
    BY <1>8 DEF MkDirPDown
  <2>2. dirs' \in {dirs, dirs \cup {p}} /\ UNCHANGED vars
    BY <1>8 DEF MkDirPDown, Made, table
  <2>3. CASE FreeToc
    BY <2>3, TocFreed DEF FreeToc, NoToc
  <2>4. CASE ~ FreeToc
    <3>1. d = cwd /\ Unlisted("dir", p)
      BY <1>8, <2>4 DEF MkDirPDown
    <3>2. UNCHANGED cwd
      BY <2>1, <3>1
    <3> HIDE DEF d, p
    <3> QED
      BY <2>2, <3>1, <3>2, TocMade
  <2> QED
    BY <2>3, <2>4
<1>9. CASE MkDirPBack
  BY <1>9, TocMoved DEF MkDirPBack, table
<1>10. CASE Write
  BY <1>10, SymbolsWritten, TocWritten, TocSame, TocFreed DEF Write, table, FreeToc, NoToc
<1>11. CASE ReadVar \/ GetCurve \/ VarByteLength
  BY <1>11, TocSame DEF ReadVar, GetCurve, VarByteLength, table, ghosts
<1>12. CASE PutComponent
  BY <1>12, TocSame, TocFreed DEF PutComponent, table, FreeToc, NoToc
<1>13. CASE PutHeader
  BY <1>13, TocFreed DEF PutHeader, FreeToc, NoToc
<1>14. CASE WriteObject
  BY <1>14, SymbolsWritten, TocWritten, TocSame DEF WriteObject, table
<1>15. CASE GetToc
  BY <1>15 DEF GetToc, table, ghosts, TocInv, TocListsDirectory, Listing, Inside, Symbols, NoToc
<1>16. CASE InqFileHasObjects
  BY <1>16 DEF InqFileHasObjects, table, TocInv, TocListsDirectory, Listing, Inside, Symbols, NoToc
<1> QED
  BY <1>1, <1>2, <1>3, <1>4, <1>5, <1>6, <1>7, <1>8, <1>9, <1>10, <1>11, <1>12, <1>13, <1>14,
     <1>15, <1>16 DEF Next, Enter

(* The table of contents that is kept between calls lists the current      *)
(* directory, but for the symbols that entered past db_FreeToc, whatever   *)
(* was made, written or left in between: TocListsDirectory for every       *)
(* instance.                                                               *)
THEOREM TocIsCurrent == Spec => []TocListsDirectory
<1>1. TocInv => TocListsDirectory
  BY DEF TocInv
<1> QED
  BY <1>1, TocInitially, TocKept, PTL DEF Spec
-----------------------------------------------------------------------------
(* Sequences, and induction over natural numbers.                          *)

LEMMA NatMin ==
  ASSUME NEW T \in SUBSET Nat, T # {}
  PROVE  \E n \in T : \A m \in T : n <= m
<1> DEFINE R == OpToRel(<, Nat)
<1>1. IsWellFoundedOn(R, Nat)
  BY NatLessThanWellFounded
<1>2. \A x, y \in Nat : <<x, y>> \in R <=> x < y
  BY DEF OpToRel
<1> HIDE DEF R
<1>3. PICK n \in T : \A m \in T : <<m, n>> \notin R
  BY <1>1, WFMin
<1>4. ASSUME NEW m \in T PROVE n <= m
  <2>1. n \in Nat /\ m \in Nat /\ ~ (m < n)
    BY <1>2, <1>3
  <2> QED
    BY <2>1
<1> QED
  BY <1>4

LEMMA NatSteps ==
  ASSUME NEW S, NEW N \in Nat, 0 \in S, \A n \in 0..N : n \in S /\ n < N => n + 1 \in S
  PROVE  \A n \in 0..N : n \in S
<1> DEFINE T == {n \in 0..N : n \notin S}
<1>1. SUFFICES ASSUME T # {} PROVE FALSE
  OBVIOUS
<1>0. T \subseteq Nat
  OBVIOUS
<1> HIDE DEF T
<1>2. PICK n \in T : \A m \in T : n <= m
  BY <1>0, <1>1, NatMin
<1>3. n \in Nat /\ n # 0 /\ n <= N /\ n \notin S
  BY <1>2 DEF T
<1>4. n - 1 \in 0..N /\ n - 1 < N /\ ~ (n <= n - 1)
  BY <1>3
<1>5. n - 1 \in S
  BY <1>2, <1>4 DEF T
<1>6. (n - 1) + 1 = n
  BY <1>3
<1> QED
  BY <1>3, <1>4, <1>5, <1>6

LEMMA Taken ==
  ASSUME NEW S, NEW s \in Seq(S), s # <<>>
  PROVE  /\ Len(s) \in Nat \ {0} /\ Front(s) \in Seq(S) /\ Last(s) \in S
         /\ Len(Front(s)) = Len(s) - 1
         /\ \A i \in 1..(Len(s) - 1) : Front(s)[i] = s[i]
<1>1. Len(s) \in Nat \ {0} /\ s \in [1..Len(s) -> S]
  BY EmptySeq, LenProperties
<1>2. Front(s) = SubSeq(s, 1, Len(s) - 1)
  BY DEF Front
<1>3. 1 \in 1..(Len(s) + 1) /\ Len(s) - 1 \in 0..Len(s)
  BY <1>1
<1> QED
  BY <1>1, <1>2, <1>3, SubSeqProperties DEF Last

LEMMA Longer ==
  ASSUME NEW S, NEW s \in Seq(S), NEW x \in S
  PROVE  /\ Append(s, x) \in Seq(S) /\ Append(s, x) # <<>>
         /\ Len(Append(s, x)) = Len(s) + 1 /\ Last(Append(s, x)) = x
         /\ Front(Append(s, x)) = s
         /\ \A i \in 1..Len(s) : Append(s, x)[i] = s[i]
<1> DEFINE t == Append(s, x)
<1>1. /\ t \in Seq(S) /\ Len(t) = Len(s) + 1 /\ t[Len(s) + 1] = x /\ t # <<>>
      /\ \A i \in 1..Len(s) : t[i] = s[i]
  BY AppendProperties, LenProperties
<1> HIDE DEF t
<1>2. Front(t) \in Seq(S) /\ Len(Front(t)) = Len(s) /\ Last(t) = x
      /\ \A i \in 1..Len(s) : Front(t)[i] = s[i]
  <2>1. Len(t) - 1 = Len(s)
    BY <1>1, LenProperties
  <2> QED
    BY <1>1, <2>1, Taken DEF Last
<1>3. Front(t) = s
  BY <1>1, <1>2, SeqEqual
<1> QED
  BY <1>1, <1>2, <1>3 DEF t

-----------------------------------------------------------------------------
(* What a path argument resolves to.                                       *)

Path == Seq(Names)
Arg  == [abs : BOOLEAN, segs : Seq(Names \cup {".."})]

LEMMA Walked ==
  ASSUME NEW p \in Path, NEW s \in Names \cup {".."}
  PROVE  Walk(p, s) \in Path
<1>1. CASE s \in Names
  BY <1>1, Longer, NamesAssumption DEF Walk, Path
<1>2. CASE s = ".."
  BY <1>2, Taken DEF Walk, Path
<1> QED
  BY <1>1, <1>2

\* The recursion defines a function: one of every length, by induction.
Walks(start, segs) ==
  CHOOSE at : at = [i \in 0..Len(segs) |-> IF i > 0 THEN Walk(at[i - 1], segs[i]) ELSE start]

LEMMA WalkDefined ==
  ASSUME NEW start \in Path, NEW segs \in Seq(Names \cup {".."})
  PROVE  /\ Walks(start, segs)[0] = start
         /\ \A i \in 0..Len(segs) : Walks(start, segs)[i] \in Path
         /\ \A i \in 1..Len(segs) :
              Walks(start, segs)[i] = Walk(Walks(start, segs)[i - 1], segs[i])
<1> DEFINE N == Len(segs)
           at == Walks(start, segs)
           Good(f, n) == /\ f \in [0..N -> Path] /\ f[0] = start
                         /\ \A i \in 1..n : f[i] = Walk(f[i - 1], segs[i])
           S == {n \in 0..N : \E f \in [0..N -> Path] : Good(f, n)}
<1>1. N \in Nat /\ \A i \in 1..N : segs[i] \in Names \cup {".."}
  BY LenProperties, ElementOfSeq
<1> HIDE DEF N
<1>2. 0 \in S
  <2>1. Good([i \in 0..N |-> start], 0) /\ [i \in 0..N |-> start] \in [0..N -> Path]
    BY <1>1
  <2> HIDE DEF Good
  <2> QED
    BY <1>1, <2>1
<1>3. ASSUME NEW n \in 0..N, n \in S, n < N PROVE n + 1 \in S
  <2>1. PICK f \in [0..N -> Path] : Good(f, n)
    BY <1>3
  <2> DEFINE g == [f EXCEPT ![n + 1] = Walk(f[n], segs[n + 1])]
  <2>2. n \in Nat /\ n + 1 \in 1..N /\ n \in 0..N /\ n + 1 \in 0..N
    BY <1>1, <1>3
  <2>3. Walk(f[n], segs[n + 1]) \in Path
    BY <1>1, <2>2, Walked
  <2>4. g \in [0..N -> Path] /\ g[0] = start /\ g[n + 1] = Walk(f[n], segs[n + 1])
        /\ \A i \in 0..n : g[i] = f[i]
    BY <1>1, <2>1, <2>2, <2>3
  <2> HIDE DEF g
  <2>5. ASSUME NEW i \in 1..(n + 1) PROVE g[i] = Walk(g[i - 1], segs[i])
    <3>1. CASE i = n + 1
      <4>1. i - 1 = n /\ n \in 0..n
        BY <2>2, <3>1
      <4> QED
        BY <2>4, <3>1, <4>1
    <3>2. CASE i # n + 1
      <4>1. i \in 1..n /\ i \in 0..n /\ i - 1 \in 0..n
        BY <2>2, <3>2
      <4> QED
        BY <2>1, <2>4, <4>1
    <3> QED
      BY <3>1, <3>2
  <2>6. Good(g, n + 1)
    BY <2>4, <2>5
  <2> HIDE DEF Good
  <2> QED
    BY <2>2, <2>4, <2>6
<1>4. N \in S
  <2> HIDE DEF S
  <2>1. \A n \in 0..N : n \in S
    BY <1>1, <1>2, <1>3, NatSteps
  <2> QED
    BY <1>1, <2>1
<1>5. PICK f \in [0..N -> Path] : Good(f, N)
  BY <1>4
<1>6. f = [i \in 0..N |-> IF i > 0 THEN Walk(f[i - 1], segs[i]) ELSE start]
  <2>1. ASSUME NEW i \in 0..N
        PROVE  f[i] = IF i > 0 THEN Walk(f[i - 1], segs[i]) ELSE start
    <3>1. i > 0 => i \in 1..N
      BY <1>1
    <3>2. i > 0 \/ i = 0
      BY <1>1
    <3> QED
      BY <1>5, <3>1, <3>2
  <2> QED
    BY <2>1
<1>7. at = [i \in 0..N |-> IF i > 0 THEN Walk(at[i - 1], segs[i]) ELSE start]
  BY <1>6 DEF N, Walks
<1> HIDE DEF at
<1>8. at[0] = start /\ \A i \in 1..N : at[i] = Walk(at[i - 1], segs[i])
  BY <1>1, <1>7
<1>9. \A n \in 0..N : n \in {i \in 0..N : at[i] \in Path}
  <2>1. 0 \in {i \in 0..N : at[i] \in Path}
    BY <1>1, <1>8
  <2>2. ASSUME NEW n \in 0..N, n \in {i \in 0..N : at[i] \in Path}, n < N
        PROVE  n + 1 \in {i \in 0..N : at[i] \in Path}
    <3>1. n + 1 \in 1..N /\ n + 1 \in 0..N /\ (n + 1) - 1 = n
      BY <1>1, <2>2
    <3>2. at[n + 1] = Walk(at[n], segs[n + 1]) /\ at[n] \in Path
      BY <1>8, <2>2, <3>1
    <3> QED
      BY <1>1, <3>1, <3>2, Walked
  <2> QED
    BY <1>1, <2>1, <2>2, NatSteps
<1> QED
  BY <1>8, <1>9 DEF N, at

Start(d, arg) == IF arg.abs THEN <<>> ELSE d

\* A path: the last segment is the last of the argument, when that is a name.
LEMMA Resolves ==
  ASSUME NEW d \in Path, NEW arg \in Arg
  PROVE  /\ Resolve(d, arg) \in Path
         /\ arg.segs # <<>> /\ Last(arg.segs) \in Names =>
              Resolve(d, arg) # <<>> /\ Last(Resolve(d, arg)) = Last(arg.segs)
         /\ Len(arg.segs) = 1 /\ Last(arg.segs) \in Names =>
              Resolve(d, arg) = Append(Start(d, arg), Last(arg.segs))
<1> DEFINE start == Start(d, arg)
           at == Walks(start, arg.segs)
<1>1. arg.segs \in Seq(Names \cup {".."}) /\ start \in Path /\ Len(arg.segs) \in Nat
  BY EmptySeq DEF Arg, Start, Path
<1>2. Resolve(d, arg) = at[Len(arg.segs)]
  BY DEF Resolve, Start, Walks
<1> HIDE DEF at, start
<1>3. /\ at[0] = start
      /\ \A i \in 0..Len(arg.segs) : at[i] \in Path
      /\ \A i \in 1..Len(arg.segs) : at[i] = Walk(at[i - 1], arg.segs[i])
  BY <1>1, WalkDefined DEF at
<1>4. ASSUME arg.segs # <<>>, Last(arg.segs) \in Names
      PROVE  /\ at[Len(arg.segs) - 1] \in Path
             /\ Resolve(d, arg) = Append(at[Len(arg.segs) - 1], Last(arg.segs))
  <2>1. Len(arg.segs) \in 1..Len(arg.segs) /\ Len(arg.segs) - 1 \in 0..Len(arg.segs)
    <3>1. Len(arg.segs) # 0
      BY <1>1, <1>4, EmptySeq
    <3> QED
      BY <1>1, <3>1
  <2> QED
    BY <1>2, <1>3, <1>4, <2>1, NamesAssumption DEF Walk, Last
<1>5. Resolve(d, arg) \in Path
  BY <1>1, <1>2, <1>3
<1>6. arg.segs # <<>> /\ Last(arg.segs) \in Names =>
        Resolve(d, arg) # <<>> /\ Last(Resolve(d, arg)) = Last(arg.segs)
  <2>1. SUFFICES ASSUME arg.segs # <<>>, Last(arg.segs) \in Names
                 PROVE  Resolve(d, arg) # <<>> /\ Last(Resolve(d, arg)) = Last(arg.segs)
    OBVIOUS
  <2>2. PICK p \in Path : Resolve(d, arg) = Append(p, Last(arg.segs))
    BY <1>4, <2>1
  <2> QED
    BY <2>1, <2>2, Longer DEF Path
<1>7. ASSUME Len(arg.segs) = 1, Last(arg.segs) \in Names
      PROVE  Resolve(d, arg) = Append(start, Last(arg.segs))
  <2>1. arg.segs # <<>> /\ Len(arg.segs) - 1 = 0
    BY <1>7
  <2> QED
    BY <1>3, <1>4, <1>7, <2>1
<1> QED
  BY <1>5, <1>6, <1>7 DEF start

-----------------------------------------------------------------------------
(* Where directories and symbols are: what a call in progress knows, while *)
(* the file changes under it.                                              *)

Pcs     == {"body", "down", "back", "header", "return", "jump"}
CallRec == [fn : Fns, arg : Arg, pc : Pcs, from : Path, at : Path, res : {0, -1}]

IsName(arg) == arg.segs # <<>> /\ Last(arg.segs) \in Names

\* The call began in a directory that is there.  Until an object has been
\* measured it names things of the current directory only.  DBMkDirP is in a
\* prefix of the path it makes, and DBPutCurve is about to write a header
\* where there was none, unless it may overwrite one.  (Directories, whether
\* an object was measured, overwriting, symbols: D, M, over, S.)
Sound(c, D, M, over, S) ==
  /\ c.from \in D
  /\ c.fn \in NamedFns \cup {"DBWriteObject"} => IsName(c.arg) /\ (M \/ ~ HasSlash(c.arg))
  /\ c.fn = "DBMkDirP" /\ c.pc = "down" =>
       /\ c.at \in D /\ c.arg.segs \in Path
       /\ Len(c.at) <= Len(c.arg.segs) /\ c.at = SubSeq(c.arg.segs, 1, Len(c.at))
  /\ c.pc = "header" => (M \/ Front(c.at) \in D) /\ (over \/ c.at \notin S)

DirsOK  == /\ dirs \subseteq Path /\ <<>> \in dirs
           /\ \A p \in dirs \ {<<>>} : Front(p) \in dirs
           /\ cwd \in dirs /\ jold \subseteq dirs
CallsOK == /\ calls \in Seq(CallRec)
           /\ \A i \in 1..Len(calls) :
                /\ Sound(calls[i], dirs, measured, allow.file, Symbols)
                /\ i < Len(calls) => calls[i].pc = "return"
VarsOK  == measured \/ \A p \in Symbols : Front(p) \in dirs
PathInv == DirsOK /\ CallsOK /\ VarsOK

LEMMA PathInitially == Init => PathInv
<1> SUFFICES ASSUME Init PROVE PathInv
  OBVIOUS
<1>1. <<>> \in Path /\ calls \in Seq(CallRec) /\ Len(calls) = 0
  BY EmptySeq DEF Path, Init
<1> QED
  BY <1>1 DEF Init, PathInv, DirsOK, CallsOK, VarsOK, Symbols, NoDir

\* What a step may do under the calls below the one in progress.
Grows == dirs \subseteq dirs' /\ (measured => measured') /\ UNCHANGED allow

LEMMA TopSound ==
  ASSUME CallsOK, calls # <<>>
  PROVE  /\ Top \in CallRec /\ Sound(Top, dirs, measured, allow.file, Symbols)
         /\ Len(calls) \in 1..Len(calls)
         /\ Front(calls) \in Seq(CallRec) /\ Len(Front(calls)) = Len(calls) - 1
         /\ \A i \in 1..(Len(calls) - 1) : Front(calls)[i] = calls[i]
<1>1. Len(calls) \in Nat \ {0} /\ Last(calls) \in CallRec /\ Front(calls) \in Seq(CallRec)
      /\ Len(Front(calls)) = Len(calls) - 1
      /\ \A i \in 1..(Len(calls) - 1) : Front(calls)[i] = calls[i]
  BY Taken DEF CallsOK
<1>2. Len(calls) \in 1..Len(calls)
  BY <1>1
<1> QED
  BY <1>1, <1>2 DEF CallsOK, Top, Last

LEMMA StaysSound ==
  ASSUME Grows, NEW c, Sound(c, dirs, measured, allow.file, Symbols), c.pc = "return"
  PROVE  Sound(c, dirs', measured', allow'.file, Symbols')
BY DEF Grows, Sound, IsName, HasSlash

\* The step replaces the call in progress by d.
LEMMA Replaced ==
  ASSUME CallsOK, Grows, calls # <<>>, NEW d \in CallRec,
         Sound(d, dirs', measured', allow'.file, Symbols'), calls' = Append(Front(calls), d)
  PROVE  CallsOK'
<1> DEFINE n == Len(calls)
<1>1. /\ n \in Nat /\ n \in 1..n /\ Front(calls) \in Seq(CallRec) /\ Len(Front(calls)) = n - 1
      /\ \A i \in 1..(n - 1) : Front(calls)[i] = calls[i]
  BY TopSound
<1>2. /\ calls' \in Seq(CallRec) /\ Len(calls') = (n - 1) + 1 /\ Last(calls') = d
      /\ \A i \in 1..(n - 1) : calls'[i] = Front(calls)[i]
  BY <1>1, Longer
<1> HIDE DEF n
<1>3. Len(calls') = n /\ calls'[n] = d
  BY <1>1, <1>2 DEF Last
<1>4. ASSUME NEW i \in 1..n
      PROVE  /\ Sound(calls'[i], dirs', measured', allow'.file, Symbols')
             /\ i < n => calls'[i].pc = "return"
  <2>1. CASE i = n
    BY <1>1, <1>3, <2>1
  <2>2. CASE i # n
    <3>1. i \in 1..(n - 1) /\ i < n
      BY <1>1, <2>2
    <3>2. /\ calls'[i] = calls[i] /\ calls[i].pc = "return"
          /\ Sound(calls[i], dirs, measured, allow.file, Symbols)
      BY <1>1, <1>2, <3>1 DEF CallsOK, n
    <3> QED
      BY <3>2, StaysSound
  <2> QED
    BY <2>1, <2>2
<1> QED
  BY <1>2, <1>3, <1>4 DEF CallsOK

LEMMA Finishes ==
  ASSUME CallsOK, Grows, calls # <<>>, NEW r \in {0, -1},
         Yield(r) \/ Perror(r) \/ Goto("return") \/ Goto("jump")
  PROVE  CallsOK'
<1>1. Top \in CallRec /\ Sound(Top, dirs, measured, allow.file, Symbols)
  BY TopSound
<1>2. ASSUME NEW d \in CallRec, d.pc \in {"return", "jump"}, d.fn = Top.fn, d.arg = Top.arg,
             d.from = Top.from
      PROVE  Sound(d, dirs', measured', allow'.file, Symbols')
  BY <1>1, <1>2 DEF Grows, Sound, IsName, HasSlash
<1>3. CASE Yield(r)
  <2>1. [Top EXCEPT !.pc = "return", !.res = r] \in CallRec
    BY <1>1 DEF CallRec, Pcs
  <2> QED
    BY <1>1, <1>2, <1>3, <2>1, Replaced DEF Yield, CallRec
<1>4. ASSUME NEW pc \in {"return", "jump"}, Goto(pc) PROVE CallsOK'
  <2>1. [Top EXCEPT !.pc = pc] \in CallRec
    BY <1>1 DEF CallRec, Pcs
  <2> QED
    BY <1>1, <1>2, <1>4, <2>1, Replaced DEF Goto, CallRec
<1> QED
  BY <1>3, <1>4 DEF Perror

\* The step leaves d as the only call.
LEMMA Alone ==
  ASSUME NEW d \in CallRec, Sound(d, dirs', measured', allow'.file, Symbols'), calls' = <<d>>
  PROVE  CallsOK'
BY DEF CallsOK

LEMMA CallsSame ==
  ASSUME CallsOK, Grows, calls' = calls, \A i \in 1..Len(calls) : calls[i].pc = "header" => UNCHANGED vars
  PROVE  CallsOK'
BY DEF CallsOK, Grows, Sound, IsName, HasSlash, Symbols

LEMMA Restored ==
  ASSUME DirsOK, RestoreDir, dirs' = dirs, jold' = {} PROVE DirsOK'
BY DEF DirsOK, RestoreDir, ChangeDir, NoDir

\* A name of a call that stays in its directory.
LEMMA NamesHere ==
  ASSUME DirsOK, NEW arg \in Arg, IsName(arg)
  PROVE  /\ Resolve(cwd, arg) \in Path /\ Resolve(cwd, arg) # <<>>
         /\ Last(Resolve(cwd, arg)) \in Names
         /\ ~ HasSlash(arg) => Front(Resolve(cwd, arg)) = cwd
<1>1. cwd \in Path
  BY DEF DirsOK
<1>2. /\ Resolve(cwd, arg) \in Path /\ Resolve(cwd, arg) # <<>>
      /\ Last(Resolve(cwd, arg)) = Last(arg.segs) /\ Last(arg.segs) \in Names
  BY <1>1, Resolves DEF IsName
<1>3. ASSUME ~ HasSlash(arg) PROVE Front(Resolve(cwd, arg)) = cwd
  <2>1. arg.segs \in Seq(Names \cup {".."}) /\ arg.segs # <<>> /\ Len(arg.segs) \in Nat
    BY LenProperties DEF Arg, IsName
  <2>2. Len(arg.segs) # 0
    BY <2>1, EmptySeq
  <2>3. ~ (Len(arg.segs) > 1) /\ ~ arg.abs
    BY <1>3 DEF HasSlash
  <2>4. \A n \in Nat : n # 0 /\ ~ (n > 1) => n = 1
    OBVIOUS
  <2>5. Len(arg.segs) = 1
    BY <2>1, <2>2, <2>3, <2>4, Zenon
  <2>6. Resolve(cwd, arg) = Append(cwd, Last(arg.segs))
    BY <1>1, <1>2, <2>3, <2>5, Resolves DEF Start
  <2> QED
    BY <1>1, <1>2, <2>6, Longer DEF Path
<1> QED
  BY <1>2, <1>3

LEMMA BeginPaths ==
  ASSUME PathInv, FrameInv, NEW f \in Fns, NEW arg \in Arg, Enter(f, arg),
         f \in NamedFns /\ arg.segs # <<>> => Last(arg.segs) \in Names,
         f = "DBWriteObject" => IsName(arg) /\ ~ HasSlash(arg)
  PROVE  PathInv'
<1>1. /\ <<>> \in Path /\ 0 \in {0, -1} /\ "body" \in Pcs /\ cwd \in Path /\ cwd \in dirs
      /\ calls = <<>> /\ UNCHANGED <<dirs, vars, measured, allow>>
  BY EmptySeq DEF Path, Pcs, PathInv, DirsOK, Enter, Begin, BeginElsewhere, BeginFails,
     table, ghosts, config
<1>2. VarsOK'
  BY <1>1 DEF PathInv, VarsOK, Symbols
<1>3. ASSUME NEW a \in Arg, calls' = <<NewCall(f, a)>>,
             f \in NamedFns \cup {"DBWriteObject"} => IsName(a) /\ (measured \/ ~ HasSlash(a))
      PROVE  CallsOK'
  <2>1. NewCall(f, a) \in CallRec
    BY <1>1 DEF NewCall, CallRec
  <2>2. Sound(NewCall(f, a), dirs', measured', allow'.file, Symbols')
    BY <1>1, <1>3 DEF NewCall, Sound
  <2> QED
    BY <1>3, <2>1, <2>2, Alone
<1>4. CASE Begin(f, arg)
  <2>1. measured \/ jstk = "empty"
    BY <1>1 DEF FrameInv, Idle, Busy
  <2>2. f \in NamedFns \cup {"DBWriteObject"} => IsName(arg) /\ (measured \/ ~ HasSlash(arg))
    <3>1. ASSUME f \in NamedFns PROVE IsName(arg) /\ (measured \/ ~ HasSlash(arg))
      <4>1. arg.segs # <<>> /\ ~ (jstk = "empty" /\ HasSlash(arg))
        BY <1>4, <3>1 DEF Begin
      <4> QED
        BY <2>1, <3>1, <4>1 DEF IsName
    <3> QED
      BY <3>1
  <2>3. DirsOK'
    BY <1>1, <1>4 DEF Begin, PathInv, DirsOK, NoDir
  <2> QED
    BY <1>2, <1>3, <1>4, <2>2, <2>3 DEF PathInv, Begin
<1>5. CASE BeginElsewhere(f, arg)
  <2>1. Base(arg) \in Arg /\ IsName(Base(arg)) /\ ~ HasSlash(Base(arg))
    <3>1. Last(arg.segs) \in Names
      BY <1>5 DEF BeginElsewhere
    <3>2. <<Last(arg.segs)>> \in Seq(Names \cup {".."}) /\ <<Last(arg.segs)>> # <<>>
          /\ Len(<<Last(arg.segs)>>) = 1 /\ Last(<<Last(arg.segs)>>) = Last(arg.segs)
      BY <3>1 DEF Last
    <3>3. ~ (1 > 1)
      OBVIOUS
    <3> QED
      BY <3>1, <3>2, <3>3 DEF Base, Arg, IsName, HasSlash
  <2>2. CallsOK'
    BY <1>3, <1>5, <2>1 DEF BeginElsewhere
  <2>3. DirsOK'
    BY <1>1, <1>5 DEF BeginElsewhere, ChangeDir, PathInv, DirsOK
  <2> QED
    BY <1>2, <2>2, <2>3 DEF PathInv
<1>6. CASE BeginFails(f, arg)
  BY <1>1, <1>2, <1>6, CallsSame DEF BeginFails, PathInv, DirsOK, statics, Grows
<1> QED
  BY <1>4, <1>5, <1>6 DEF Enter

LEMMA ExitPaths == ASSUME PathInv, Return \/ Jump PROVE PathInv'
<1>1. UNCHANGED <<dirs, vars, measured, allow>> /\ calls # <<>> /\ jold' = {}
  BY DEF Return, Jump, table, config, NoDir
<1>2. VarsOK'
  BY <1>1 DEF PathInv, VarsOK, Symbols
<1>3. DirsOK'
  <2>1. CASE RestoreDir
    BY <1>1, <2>1, Restored DEF PathInv
  <2>2. CASE UNCHANGED cwd
    BY <1>1, <2>2 DEF PathInv, DirsOK
  <2> QED
    BY <2>1, <2>2 DEF Return, Jump
<1>4. CASE calls' = <<>>
  <2>1. calls' \in Seq(CallRec) /\ Len(calls') = 0
    BY <1>4, EmptySeq
  <2> QED
    BY <1>2, <1>3, <2>1 DEF PathInv, CallsOK
<1>5. CASE calls' = Front(calls)
  <2>1. /\ calls' \in Seq(CallRec) /\ Len(calls') = Len(calls) - 1 /\ Len(calls) \in Nat
        /\ \A i \in 1..(Len(calls) - 1) : calls'[i] = calls[i]
    BY <1>1, <1>5, TopSound, LenProperties DEF PathInv, CallsOK
  <2>2. ASSUME NEW i \in 1..Len(calls')
        PROVE  /\ Sound(calls'[i], dirs', measured', allow'.file, Symbols')
               /\ calls'[i].pc = "return"
    <3>1. i \in 1..(Len(calls) - 1) /\ i \in 1..Len(calls) /\ i < Len(calls)
      BY <2>1
    <3>2. /\ calls'[i] = calls[i] /\ calls[i].pc = "return"
          /\ Sound(calls[i], dirs, measured, allow.file, Symbols)
      BY <2>1, <3>1 DEF PathInv, CallsOK
    <3> QED
      BY <1>1, <3>2 DEF Symbols
  <2> QED
    BY <1>2, <1>3, <2>1, <2>2 DEF PathInv, CallsOK
<1> QED
  BY <1>4, <1>5 DEF Return, Jump

\* The actions that end in Yield or Perror and write nothing.
LEMMA ReadingPaths ==
  ASSUME PathInv, SetDir \/ ReadVar \/ GetCurve \/ GetToc PROVE PathInv'
<1>1. UNCHANGED <<dirs, vars, measured, allow, jold>> /\ calls # <<>>
  BY DEF SetDir, ReadVar, GetCurve, GetToc, In, table, statics, config, ghosts
<1>2. \E r \in {0, -1} : Yield(r) \/ Perror(r)
  BY DEF SetDir, ReadVar, GetCurve, GetToc
<1>3. Grows
  BY <1>1 DEF Grows
<1>4. CallsOK'
  BY <1>1, <1>2, <1>3, Finishes DEF PathInv
<1>5. DirsOK'
  BY <1>1 DEF SetDir, ReadVar, GetCurve, GetToc, ChangeDir, PathInv, DirsOK
<1>6. VarsOK'
  BY <1>1 DEF PathInv, VarsOK, Symbols
<1> QED
  BY <1>4, <1>5, <1>6 DEF PathInv

LEMMA MadePaths ==
  ASSUME DirsOK, VarsOK, NEW p \in Path, CanMake(p), dirs' \in {dirs, dirs \cup {p}},
         UNCHANGED <<vars, jold, measured, allow>>, cwd' \in dirs
  PROVE  DirsOK' /\ VarsOK' /\ Grows
BY DEF CanMake, DirsOK, VarsOK, Grows, Symbols

LEMMA MkDirPaths == ASSUME PathInv, MkDir PROVE PathInv'
<1> DEFINE p == Resolve(cwd, Top.arg)
<1>1. calls # <<>> /\ UNCHANGED <<cwd, jold, measured, allow>> /\ (Yield(0) \/ Perror(-1))
  BY DEF MkDir, In, statics, config
<1>2. p \in Path
  BY <1>1, TopSound, Resolves DEF PathInv, DirsOK, CallRec
<1>3. UNCHANGED <<dirs, vars>> \/ (CanMake(p) /\ dirs' = dirs \cup {p} /\ UNCHANGED vars)
  <2>1. CASE UNCHANGED table
    BY <2>1 DEF table
  <2>2. CASE \E ok \in BOOLEAN : CanMake(p) /\ Made(p, ok)
    BY <2>2 DEF Made
  <2> QED
    BY <2>1, <2>2 DEF MkDir
<1> HIDE DEF p
<1>4. DirsOK' /\ VarsOK' /\ Grows
  <2>1. CASE UNCHANGED <<dirs, vars>>
    BY <1>1, <2>1 DEF PathInv, DirsOK, VarsOK, Grows, Symbols
  <2>2. CASE ~ UNCHANGED <<dirs, vars>>
    BY <1>1, <1>2, <1>3, <2>2, MadePaths DEF PathInv, DirsOK
  <2> QED
    BY <2>1, <2>2
<1> QED
  BY <1>1, <1>4, Finishes DEF PathInv

LEMMA MkDirPUpPaths == ASSUME PathInv, MkDirPUp PROVE PathInv'
<1> DEFINE p    == Resolve(cwd, Top.arg)
           up   == {k \in 1..Len(p) : IsDir(SubSeq(p, 1, k))}
           near == IF up = {} THEN 0 ELSE CHOOSE k \in up : \A j \in up : j <= k
<1>1. /\ calls # <<>> /\ Top.fn = "DBMkDirP"
      /\ UNCHANGED <<dirs, vars, cwd, jold, measured, allow>>
      /\ calls' = <<[Top EXCEPT !.pc = "down", !.arg = [abs |-> TRUE, segs |-> p],
                                !.at = SubSeq(p, 1, near)]>>
  BY DEF MkDirPUp, In, table, statics, config, ghosts
<1>2. p \in Path /\ Top \in CallRec /\ Sound(Top, dirs, measured, allow.file, Symbols)
      /\ <<>> \in dirs
  BY <1>1, TopSound, Resolves DEF PathInv, DirsOK, CallRec
<1> HIDE DEF p
<1>3. near \in 0..Len(p) /\ (near = 0 \/ near \in up)
  <2>1. Len(p) \in Nat
    BY <1>2, LenProperties DEF Path
  <2>2. ASSUME up # {} PROVE \E k \in up : \A j \in up : j <= k
    <3> DEFINE T == {Len(p) - k : k \in up}
    <3>1. T \in SUBSET Nat /\ T # {}
      BY <2>1, <2>2
    <3>2. PICK m \in T : \A n \in T : m <= n
      BY <3>1, NatMin
    <3>3. PICK k \in up : m = Len(p) - k
      BY <3>2
    <3>4. ASSUME NEW j \in up PROVE j <= k
      <4>1. Len(p) - k <= Len(p) - j
        BY <3>2, <3>3, <3>4
      <4>2. j \in Nat /\ k \in Nat
        OBVIOUS
      <4> QED
        BY <2>1, <4>1, <4>2
    <3> QED
      BY <3>4
  <2>3. up \subseteq 0..Len(p)
    BY <2>1
  <2> HIDE DEF up
  <2>4. CASE up = {}
    BY <2>1, <2>4
  <2>5. CASE up # {}
    BY <2>2, <2>3, <2>5
  <2> QED
    BY <2>4, <2>5
<1> DEFINE at == SubSeq(p, 1, near)
<1>4. at \in dirs
  <2>1. CASE near = 0
    <3>1. SubSeq(p, 1, 0) = <<>>
      <4>1. 1 \in Int /\ 0 \in Int /\ 0 < 1
        OBVIOUS
      <4> QED
        BY <1>2, <4>1, SubSeqEmpty DEF Path
    <3> HIDE DEF near
    <3> QED
      BY <1>2, <2>1, <3>1
  <2>2. CASE near \in up
    BY <2>2 DEF IsDir
  <2> HIDE DEF at
  <2> QED
    BY <1>3, <2>1, <2>2
<1> HIDE DEF near
<1>5. at \in Path /\ Len(at) = near /\ Len(p) \in Nat /\ near <= Len(p)
  <2>1. Len(p) \in Nat /\ near <= Len(p) /\ near \in Nat
    BY <1>2, <1>3, LenProperties DEF Path
  <2>2. 1 \in 1..(Len(p) + 1) /\ near \in 0..Len(p)
    BY <2>1
  <2>3. SubSeq(p, 1, near) \in Seq(Names) /\ Len(SubSeq(p, 1, near)) = (near - 1) + 1
    BY <1>2, <2>2, SubSeqProperties DEF Path
  <2> QED
    BY <2>1, <2>3 DEF Path
<1>6. /\ [Top EXCEPT !.pc = "down", !.arg = [abs |-> TRUE, segs |-> p], !.at = at] \in CallRec
  <2>1. [abs |-> TRUE, segs |-> p] \in Arg
    <3>1. p \in Seq(Names \cup {".."})
      BY <1>2, SeqMonotonic DEF Path
    <3> QED
      BY <3>1 DEF Arg
  <2> HIDE DEF at
  <2> QED
    BY <1>2, <1>5, <2>1 DEF CallRec, Pcs
<1> DEFINE d == [Top EXCEPT !.pc = "down", !.arg = [abs |-> TRUE, segs |-> p], !.at = at]
<1>7. Sound(d, dirs', measured', allow'.file, Symbols')
  <2>1. /\ d.fn = "DBMkDirP" /\ d.pc = "down" /\ d.arg.segs = p /\ d.at = at
        /\ d.from = Top.from
    BY <1>1, <1>2 DEF CallRec
  <2>2. at = SubSeq(p, 1, Len(at)) /\ Len(at) <= Len(p)
    BY <1>5
  <2> HIDE DEF d, at
  <2> QED
    BY <1>1, <1>2, <1>4, <1>5, <2>1, <2>2 DEF Sound, NamedFns
<1>8. CallsOK'
  BY <1>1, <1>6, <1>7, Alone
<1>9. DirsOK' /\ VarsOK'
  BY <1>1 DEF PathInv, DirsOK, VarsOK, Symbols
<1> QED
  BY <1>8, <1>9 DEF PathInv

LEMMA MkDirPDownPaths == ASSUME PathInv, MkDirPDown PROVE PathInv'
<1> DEFINE at == Top.at
           segs == Top.arg.segs
           p == SubSeq(segs, 1, Len(at) + 1)
<1>1. /\ calls # <<>> /\ Top.fn = "DBMkDirP" /\ Top.pc = "down" /\ at # segs /\ cwd' = at
      /\ UNCHANGED <<vars, jold, measured, allow>>
      /\ UNCHANGED dirs \/ (CanMake(p) /\ dirs' = dirs \cup {p})
      /\ \/ dirs' = dirs \cup {p} /\ calls' = <<[Top EXCEPT !.at = p]>>
         \/ Goto("jump")
         \/ calls' = <<[Top EXCEPT !.pc = "back", !.res = -1]>>
  BY DEF MkDirPDown, In, Made, statics, config, table
<1>2. /\ Top \in CallRec /\ Sound(Top, dirs, measured, allow.file, Symbols)
      /\ at \in dirs /\ at \in Path /\ segs \in Path /\ Len(at) <= Len(segs)
      /\ at = SubSeq(segs, 1, Len(at)) /\ Top.from \in dirs
  BY <1>1, TopSound DEF PathInv, DirsOK, Sound
<1>3. p \in Path /\ Len(p) = Len(at) + 1 /\ Len(p) <= Len(segs)
  <2>1. Len(at) \in Nat /\ Len(segs) \in Nat
    BY <1>2, LenProperties DEF Path
  <2>2. Len(at) # Len(segs)
    BY <1>1, <1>2, SubSeqFull DEF Path
  <2>3. 1 \in 1..(Len(segs) + 1) /\ Len(at) + 1 \in 0..Len(segs)
    BY <1>2, <2>1, <2>2
  <2>4. p \in Seq(Names) /\ Len(p) = (Len(at) + 1 - 1) + 1
    BY <1>2, <2>3, SubSeqProperties DEF Path
  <2> QED
    BY <2>1, <2>3, <2>4 DEF Path
<1> HIDE DEF p, at, segs
<1>4. DirsOK' /\ VarsOK' /\ Grows
  BY <1>1, <1>2, <1>3, MadePaths DEF PathInv, DirsOK, VarsOK, Grows, Symbols, CanMake
<1>5. CASE dirs' = dirs \cup {p} /\ calls' = <<[Top EXCEPT !.at = p]>>
  <2> DEFINE d == [Top EXCEPT !.at = p]
  <2>1. /\ d \in CallRec /\ d.fn = "DBMkDirP" /\ d.pc = "down" /\ d.arg.segs = segs
        /\ d.at = p /\ d.from = Top.from
    BY <1>1, <1>2, <1>3 DEF CallRec, segs
  <2>2. p = SubSeq(segs, 1, Len(p))
    BY <1>3 DEF p
  <2> HIDE DEF d
  <2>3. Sound(d, dirs', measured', allow'.file, Symbols')
    BY <1>2, <1>3, <1>5, <2>1, <2>2 DEF Sound, NamedFns
  <2>4. calls' = <<d>>
    BY <1>5 DEF d
  <2>5. CallsOK'
    BY <2>1, <2>3, <2>4, Alone
  <2> QED
    BY <1>4, <2>5 DEF PathInv
<1>6. CASE Goto("jump")
  <2>1. CallsOK'
    BY <1>1, <1>4, <1>6, Finishes DEF PathInv
  <2> QED
    BY <1>4, <2>1 DEF PathInv
<1>7. CASE calls' = <<[Top EXCEPT !.pc = "back", !.res = -1]>>
  <2> DEFINE d == [Top EXCEPT !.pc = "back", !.res = -1]
  <2>1. /\ d \in CallRec /\ d.fn = "DBMkDirP" /\ d.pc = "back" /\ d.from = Top.from
    BY <1>1, <1>2 DEF CallRec, Pcs
  <2> HIDE DEF d
  <2>2. Sound(d, dirs', measured', allow'.file, Symbols')
    BY <1>2, <1>4, <2>1 DEF Sound, NamedFns, Grows
  <2>3. calls' = <<d>>
    BY <1>7 DEF d
  <2>4. CallsOK'
    BY <2>1, <2>2, <2>3, Alone
  <2> QED
    BY <1>4, <2>4 DEF PathInv
<1> QED
  BY <1>1, <1>5, <1>6, <1>7

LEMMA MkDirPBackPaths == ASSUME PathInv, MkDirPBack PROVE PathInv'
<1>1. /\ calls # <<>> /\ cwd' = Top.from /\ Goto("return")
      /\ UNCHANGED <<dirs, vars, jold, measured, allow>>
  BY DEF MkDirPBack, In, ChangeDir, table, statics, config
<1>2. Top.from \in dirs
  BY <1>1, TopSound DEF PathInv, Sound
<1>3. DirsOK' /\ VarsOK' /\ Grows
  BY <1>1, <1>2 DEF PathInv, DirsOK, VarsOK, Grows, Symbols
<1> QED
  BY <1>1, <1>3, Finishes DEF PathInv

\* A symbol written while the call in progress goes on.
LEMMA WrittenPaths ==
  ASSUME PathInv, NEW p, NEW k, NEW ok, Written(p, k, ok), measured \/ Front(p) \in dirs,
         UNCHANGED <<cwd, jold, allow, measured>>
  PROVE  DirsOK' /\ VarsOK' /\ Grows /\ Symbols' = Symbols \cup {p}
<1>1. UNCHANGED dirs /\ Symbols' = Symbols \cup {p}
  BY DEF Written, Store, Symbols
<1> QED
  BY <1>1 DEF PathInv, DirsOK, VarsOK, Grows

\* What the names of the current call stand for.
LEMMA Here ==
  ASSUME PathInv, calls # <<>>, Top.fn \in NamedFns \cup {"DBWriteObject"}
  PROVE  LET p == Resolve(cwd, Top.arg) IN
         /\ Top.arg \in Arg /\ IsName(Top.arg) /\ p \in Path /\ p # <<>> /\ Last(p) \in Names
         /\ measured \/ Front(p) \in dirs
<1>1. Top \in CallRec /\ Sound(Top, dirs, measured, allow.file, Symbols)
  BY TopSound DEF PathInv
<1>2. Top.arg \in Arg /\ IsName(Top.arg) /\ (measured \/ ~ HasSlash(Top.arg)) /\ cwd \in dirs
  BY <1>1 DEF Sound, CallRec, PathInv, DirsOK
<1> QED
  BY <1>2, NamesHere DEF PathInv

LEMMA WritePaths == ASSUME PathInv, Write \/ WriteObject PROVE PathInv'
<1> DEFINE p == Resolve(cwd, Top.arg)
<1>1. /\ calls # <<>> /\ Top.fn \in NamedFns \cup {"DBWriteObject"}
      /\ UNCHANGED <<cwd, jold, allow, measured>> /\ (\E r \in {0, -1} : Yield(r) \/ Perror(r))
      /\ UNCHANGED <<dirs, vars>> \/ (\E k, ok : Written(p, k, ok))
  BY DEF Write, WriteObject, In, table, statics, config, NamedFns
<1>2. measured \/ Front(p) \in dirs
  BY <1>1, Here
<1> HIDE DEF p
<1>3. DirsOK' /\ VarsOK' /\ Grows
  <2>1. CASE UNCHANGED <<dirs, vars>>
    BY <1>1, <2>1 DEF PathInv, DirsOK, VarsOK, Grows, Symbols
  <2>2. CASE \E k, ok : Written(p, k, ok)
    BY <1>1, <1>2, <2>2, WrittenPaths
  <2> QED
    BY <1>1, <2>1, <2>2
<1> QED
  BY <1>1, <1>3, Finishes DEF PathInv

\* The array of a Put lies beside the object, under another name.
LEMMA Beside ==
  ASSUME NEW p \in Path, p # <<>>, Last(p) \in Names
  PROVE  LET c == Append(Front(p), Comp[Last(p)]) IN
         c \in Path /\ c # p /\ Front(c) = Front(p) /\ Last(c) = Comp[Last(p)] /\ Last(c) \in Names
<1>1. Comp[Last(p)] \in Names /\ Comp[Last(p)] # Last(p)
  BY NamesAssumption
<1>2. Front(p) \in Seq(Names)
  BY Taken DEF Path
<1> DEFINE c == Append(Front(p), Comp[Last(p)])
<1>3. c \in Seq(Names) /\ Front(c) = Front(p) /\ Last(c) = Comp[Last(p)]
  BY <1>1, <1>2, Longer
<1> HIDE DEF c
<1>4. c # p
  BY <1>1, <1>3
<1> QED
  BY <1>1, <1>3, <1>4 DEF Path, c

LEMMA PutComponentPaths == ASSUME PathInv, PutComponent PROVE PathInv'
<1> DEFINE p == Resolve(cwd, Top.arg)
           c == Append(Front(p), Comp[Last(p)])
<1>1. /\ calls # <<>> /\ Top.fn = "DBPutCurve"
      /\ UNCHANGED <<cwd, jold, allow, measured>>
      /\ \/ (UNCHANGED <<dirs, vars>> /\ Perror(-1))
         \/ /\ allow.file \/ p \notin Symbols
            /\ \E ok : Written(c, "var", ok)
            /\ calls' = <<[Top EXCEPT !.pc = "header", !.at = p]>>
  BY DEF PutComponent, In, table, statics, config
<1>2. /\ p \in Path /\ p # <<>> /\ Last(p) \in Names /\ (measured \/ Front(p) \in dirs)
  BY <1>1, Here DEF NamedFns
<1>3. c # p /\ Front(c) = Front(p)
  BY <1>2, Beside
<1>4. Top \in CallRec /\ Sound(Top, dirs, measured, allow.file, Symbols)
  BY <1>1, TopSound DEF PathInv
<1> HIDE DEF p, c
<1>5. CASE UNCHANGED <<dirs, vars>> /\ Perror(-1)
  <2>1. DirsOK' /\ VarsOK' /\ Grows
    BY <1>1, <1>5 DEF PathInv, DirsOK, VarsOK, Grows, Symbols
  <2> QED
    BY <1>1, <1>5, <2>1, Finishes DEF PathInv
<1>6. CASE /\ allow.file \/ p \notin Symbols
           /\ \E ok : Written(c, "var", ok)
           /\ calls' = <<[Top EXCEPT !.pc = "header", !.at = p]>>
  <2>1. DirsOK' /\ VarsOK' /\ Grows /\ Symbols' = Symbols \cup {c}
    BY <1>1, <1>2, <1>3, <1>6, WrittenPaths
  <2> DEFINE d == [Top EXCEPT !.pc = "header", !.at = p]
  <2>2. /\ d \in CallRec /\ d.fn = "DBPutCurve" /\ d.pc = "header" /\ d.arg = Top.arg
        /\ d.at = p /\ d.from = Top.from
    BY <1>1, <1>2, <1>4 DEF CallRec, Pcs
  <2> HIDE DEF d
  <2>3. Sound(d, dirs', measured', allow'.file, Symbols')
    BY <1>1, <1>2, <1>3, <1>4, <1>6, <2>1, <2>2 DEF Sound, NamedFns, Grows
  <2>4. calls' = <<d>>
    BY <1>6 DEF d
  <2>5. CallsOK'
    BY <2>2, <2>3, <2>4, Alone
  <2> QED
    BY <2>1, <2>5 DEF PathInv
<1> QED
  BY <1>1, <1>5, <1>6

LEMMA PutHeaderPaths == ASSUME PathInv, PutHeader PROVE PathInv'
<1>1. /\ calls # <<>> /\ Top.pc = "header" /\ (Yield(0) \/ Perror(0))
      /\ UNCHANGED <<cwd, jold, allow, measured>>
      /\ UNCHANGED <<dirs, vars>> \/ (\E ok : Written(Top.at, "obj", ok))
  BY DEF PutHeader, In, table, statics, config
<1>2. measured \/ Front(Top.at) \in dirs
  BY <1>1, TopSound DEF PathInv, Sound
<1>3. DirsOK' /\ VarsOK' /\ Grows
  <2>1. CASE UNCHANGED <<dirs, vars>>
    BY <1>1, <2>1 DEF PathInv, DirsOK, VarsOK, Grows, Symbols
  <2>2. CASE \E ok : Written(Top.at, "obj", ok)
    BY <1>1, <1>2, <2>2, WrittenPaths
  <2> QED
    BY <1>1, <2>1, <2>2
<1> QED
  BY <1>1, <1>3, Finishes DEF PathInv

LEMMA LengthPaths == ASSUME PathInv, VarByteLength PROVE PathInv'
<1> DEFINE p == Resolve(cwd, Top.arg)
           a == [abs |-> TRUE, segs |-> Append(Front(p), Comp[Last(p)])]
           d == [Top EXCEPT !.pc = "return"]
           e == NewCall("DBGetVarByteLength", a)
<1>1. /\ calls # <<>> /\ Top.fn = "DBGetVarByteLength"
      /\ UNCHANGED <<dirs, vars, cwd, allow>> /\ jold' \in {jold, {}}
      /\ \/ measured' = measured /\ (Yield(0) \/ Perror(0))
         \/ measured' /\ calls' = Append(Append(Front(calls), d), e)
  BY DEF VarByteLength, In, table, config, NoDir
<1>2. /\ p \in Path /\ p # <<>> /\ Last(p) \in Names /\ Top \in CallRec
      /\ Sound(Top, dirs, measured, allow.file, Symbols) /\ cwd \in Path /\ cwd \in dirs
  BY <1>1, Here, TopSound DEF NamedFns, PathInv, DirsOK
<1>3. a \in Arg /\ IsName(a)
  <2>1. Append(Front(p), Comp[Last(p)]) \in Path /\ Last(Append(Front(p), Comp[Last(p)])) \in Names
        /\ Append(Front(p), Comp[Last(p)]) # <<>>
    <3>1. Front(p) \in Seq(Names) /\ Comp[Last(p)] \in Names
      BY <1>2, Taken, NamesAssumption DEF Path
    <3> QED
      BY <3>1, Longer DEF Path
  <2>2. Append(Front(p), Comp[Last(p)]) \in Seq(Names \cup {".."})
    BY <2>1, SeqMonotonic DEF Path
  <2> QED
    BY <2>1, <2>2 DEF Arg, IsName
<1> HIDE DEF p, a
<1>4. DirsOK' /\ (measured' = measured \/ measured')
  BY <1>1 DEF PathInv, DirsOK
<1>5. VarsOK' /\ Grows
  BY <1>1 DEF PathInv, VarsOK, Grows, Symbols
<1>6. CASE Yield(0) \/ Perror(0)
  <2>1. CallsOK'
    BY <1>1, <1>5, <1>6, Finishes DEF PathInv
  <2> QED
    BY <1>4, <1>5, <2>1 DEF PathInv
<1>7. CASE measured' /\ calls' = Append(Append(Front(calls), d), e)
  <2>1. d \in CallRec /\ e \in CallRec
    <3>1. d \in CallRec
      BY <1>2 DEF CallRec, Pcs
    <3>2. <<>> \in Path
      BY EmptySeq DEF Path
    <3>3. e \in CallRec
      BY <1>2, <1>3, <3>2 DEF CallRec, Pcs, NewCall, Fns, NamedFns
    <3> QED
      BY <3>1, <3>3
  <2>2. /\ d.pc = "return" /\ d.fn = Top.fn /\ d.arg = Top.arg /\ d.from = Top.from
        /\ e.fn = "DBGetVarByteLength" /\ e.pc = "body" /\ e.arg = a /\ e.from = cwd
    BY <1>2 DEF NewCall, CallRec
  <2> HIDE DEF d, e
  <2>3. /\ Sound(d, dirs', measured', allow'.file, Symbols')
        /\ Sound(e, dirs', measured', allow'.file, Symbols')
    BY <1>1, <1>2, <1>3, <1>7, <2>2 DEF Sound
  <2> DEFINE n == Len(calls)
             mid == Append(Front(calls), d)
  <2>4. /\ n \in Nat /\ n \in 1..n /\ Front(calls) \in Seq(CallRec) /\ Len(Front(calls)) = n - 1
        /\ \A i \in 1..(n - 1) : Front(calls)[i] = calls[i]
    BY <1>1, TopSound DEF PathInv
  <2>5. /\ mid \in Seq(CallRec) /\ Len(mid) = (n - 1) + 1 /\ Last(mid) = d
        /\ \A i \in 1..(n - 1) : mid[i] = Front(calls)[i]
    BY <2>1, <2>4, Longer
  <2>6. /\ calls' \in Seq(CallRec) /\ Len(calls') = Len(mid) + 1 /\ Last(calls') = e
        /\ \A i \in 1..Len(mid) : calls'[i] = mid[i]
    BY <1>7, <2>1, <2>5, Longer
  <2> HIDE DEF n, mid
  <2>7. /\ Len(calls') = n + 1 /\ calls'[n + 1] = e /\ calls'[n] = d
        /\ \A i \in 1..(n - 1) : calls'[i] = calls[i]
    <3>1. Len(mid) = n
      BY <2>4, <2>5
    <3>2. \A i \in 1..(n - 1) : i \in 1..n
      BY <2>4
    <3>3. mid[n] = d
      BY <2>5, <3>1 DEF Last
    <3>4. calls'[n + 1] = e /\ Len(calls') = n + 1
      BY <2>6, <3>1 DEF Last
    <3> QED
      BY <2>4, <2>5, <2>6, <3>1, <3>2, <3>3, <3>4
  <2>8. ASSUME NEW i \in 1..(n + 1)
        PROVE  /\ Sound(calls'[i], dirs', measured', allow'.file, Symbols')
               /\ i < n + 1 => calls'[i].pc = "return"
    <3>1. CASE i = n + 1
      BY <2>3, <2>4, <2>7, <3>1
    <3>2. CASE i = n
      BY <2>2, <2>3, <2>7, <3>2
    <3>3. CASE i # n + 1 /\ i # n
      <4>1. i \in 1..(n - 1) /\ i < n
        BY <2>4, <3>3
      <4>2. /\ calls'[i] = calls[i] /\ calls[i].pc = "return"
            /\ Sound(calls[i], dirs, measured, allow.file, Symbols)
        BY <2>4, <2>7, <4>1 DEF CallsOK, PathInv, n
      <4> QED
        BY <1>5, <4>2, StaysSound
    <3> QED
      BY <3>1, <3>2, <3>3
  <2>9. CallsOK'
    BY <2>6, <2>7, <2>8 DEF CallsOK
  <2> QED
    BY <1>4, <1>5, <2>9 DEF PathInv
<1> QED
  BY <1>1, <1>6, <1>7

\* What the program passes: ArgsAssumption.
LEMMA Given ==
  /\ \A arg \in NameArgs : arg \in Arg /\ (arg.segs # <<>> => Last(arg.segs) \in Names)
  /\ \A arg \in NameArgs : ~ HasSlash(arg) => arg.segs # <<>>
  /\ DirArgs \subseteq Arg
  /\ [abs |-> TRUE, segs |-> <<>>] \in Arg
BY ArgsAssumption, EmptySeq DEF Arg, HasSlash

LEMMA PathKept == PathInv /\ FrameInv /\ [Next]_svars => PathInv'
<1> SUFFICES ASSUME PathInv, FrameInv, [Next]_svars PROVE PathInv'
  OBVIOUS
<1>1. CASE UNCHANGED svars
  BY <1>1 DEF svars, table, config, statics, ghosts, PathInv, DirsOK, CallsOK, VarsOK, Symbols
<1>2. ASSUME NEW f \in NamedFns, NEW arg \in NameArgs, Enter(f, arg) PROVE PathInv'
  BY <1>2, Given, BeginPaths DEF Fns, NamedFns
<1>3. ASSUME NEW f \in {"DBSetDir", "DBMkDir", "DBMkDirP"}, NEW arg \in DirArgs, Begin(f, arg)
      PROVE  PathInv'
  <2>1. f \in Fns /\ f \notin NamedFns /\ f # "DBWriteObject" /\ arg \in Arg /\ Enter(f, arg)
    BY <1>3, Given DEF Fns, PlainFns, NamedFns, Enter
  <2> QED
    BY <2>1, BeginPaths
<1>4. ASSUME NEW arg \in NameArgs, ~ HasSlash(arg), Begin("DBWriteObject", arg) PROVE PathInv'
  <2>1. /\ "DBWriteObject" \in Fns /\ "DBWriteObject" \notin NamedFns /\ arg \in Arg /\ IsName(arg)
        /\ Enter("DBWriteObject", arg)
    BY <1>4, Given DEF Fns, PlainFns, NamedFns, Enter, IsName
  <2> QED
    BY <1>4, <2>1, BeginPaths
<1>5. CASE Begin("DBGetToc", [abs |-> TRUE, segs |-> <<>>])
  <2> DEFINE arg == [abs |-> TRUE, segs |-> <<>>]
  <2>1. /\ "DBGetToc" \in Fns /\ "DBGetToc" \notin NamedFns /\ arg \in Arg
        /\ Enter("DBGetToc", arg)
    BY <1>5, Given DEF Fns, PlainFns, NamedFns, Enter
  <2> HIDE DEF arg
  <2> QED
    BY <2>1, BeginPaths
<1>6. CASE InqFileHasObjects
  <2>1. calls = <<>> /\ UNCHANGED <<dirs, vars, cwd, jold, allow, measured, calls>>
    BY <1>6 DEF InqFileHasObjects, table, config, statics
  <2>2. Len(calls) = 0
    BY <2>1
  <2> QED
    BY <2>1, <2>2 DEF PathInv, DirsOK, CallsOK, VarsOK, Symbols
<1>7. CASE Return \/ Jump
  BY <1>7, ExitPaths
<1>8. CASE SetDir \/ ReadVar \/ GetCurve \/ GetToc
  BY <1>8, ReadingPaths
<1>9. CASE MkDir \/ MkDirPUp \/ MkDirPDown \/ MkDirPBack
  BY <1>9, MkDirPaths, MkDirPUpPaths, MkDirPDownPaths, MkDirPBackPaths
<1>10. CASE Write \/ WriteObject
  BY <1>10, WritePaths
<1>11. CASE PutComponent \/ PutHeader
  BY <1>11, PutComponentPaths, PutHeaderPaths
<1>12. CASE VarByteLength
  BY <1>12, LengthPaths
<1> QED
  BY <1>1, <1>2, <1>3, <1>4, <1>5, <1>6, <1>7, <1>8, <1>9, <1>10, <1>11, <1>12 DEF Next

LEMMA PathsKept == Spec => [](PathInv /\ FrameInv)
BY PathInitially, PathKept, FrameInitially, FrameKept, PTL DEF Spec

(* Whatever calls are made, nest and are ended by jumps, no directory is   *)
(* made, and until an object has been measured nothing is written, where   *)
(* there is no directory: ParentsExist for every instance.                 *)
THEOREM ParentsAreThere == Spec => []ParentsExist
<1>1. PathInv => ParentsExist
  BY DEF PathInv, DirsOK, VarsOK, ParentsExist
<1> QED
  BY <1>1, PathsKept, PTL

-----------------------------------------------------------------------------
(* The cached group: its argument names, from the current directory, the   *)
(* object as it was read, or something a Put keeps its array under.        *)

InPlace(p) == \/ IsObj(p) /\ vars[p].gen = group.gen
              \/ \E n \in Names : Comp[n] = Last(p)
CacheInv ==
  /\ DOMAIN group = {"on", "name", "gen"}
  /\ ~ allow.file /\ group.on =>
       \A arg \in group.name : arg \in Arg /\ IsName(arg) /\ InPlace(Resolve(cwd, arg))

LEMMA CacheInitially == Init => CacheInv
BY DEF Init, CacheInv

LEMMA CacheSame == ASSUME CacheInv, UNCHANGED <<vars, allow, cwd, group>> PROVE CacheInv'
BY DEF CacheInv, InPlace, IsObj, Symbols

LEMMA CacheOff == ASSUME CacheInv, group' = [group EXCEPT !.on = FALSE] PROVE CacheInv'
BY DEF CacheInv

LEMMA CacheMoved ==
  ASSUME CacheInv, UNCHANGED <<vars, allow>>, NEW d, NEW same, same => d = cwd, ChangeDir(d, same)
  PROVE  CacheInv'
BY CacheSame, CacheOff DEF ChangeDir

LEMMA CacheRestored == ASSUME CacheInv, UNCHANGED <<vars, allow>>, RestoreDir PROVE CacheInv'
BY CacheSame, CacheMoved DEF RestoreDir

\* A symbol written under a name that was free, or a Put's array.
LEMMA CacheWritten ==
  ASSUME CacheInv, NEW p, NEW k, NEW ok, Written(p, k, ok), UNCHANGED <<cwd, group, allow>>,
         allow.file \/ p \notin Symbols \/ \E n \in Names : Comp[n] = Last(p)
  PROVE  CacheInv'
<1>1. \A q : q # p => (q \in Symbols => q \in Symbols' /\ vars'[q] = vars[q])
  BY DEF Written, Store, Symbols
<1>2. ASSUME ~ allow.file, NEW q, InPlace(q) PROVE InPlace(q)'
  BY <1>1, <1>2 DEF InPlace, IsObj
<1> QED
  BY <1>2 DEF CacheInv

LEMMA ReadIntoCache == ASSUME CacheInv, PathInv, GetCurve PROVE CacheInv'
<1> DEFINE p == Resolve(cwd, Top.arg)
<1>1. /\ calls # <<>> /\ Top.fn = "DBGetCurve" /\ UNCHANGED <<cwd, vars, allow>>
      /\ \/ UNCHANGED group
         \/ /\ Readable(p)
            /\ group' = [on |-> TRUE, name |-> {Top.arg}, gen |-> vars[p].gen]
         \/ group' = [group EXCEPT !.name = {}]
  BY DEF GetCurve, In, table, config
<1>2. Top.arg \in Arg /\ IsName(Top.arg)
  BY <1>1, Here DEF NamedFns
<1>3. CASE UNCHANGED group
  BY <1>1, <1>3, CacheSame
<1>4. CASE Readable(p) /\ group' = [on |-> TRUE, name |-> {Top.arg}, gen |-> vars[p].gen]
  <2>1. ASSUME NEW q, q = p PROVE InPlace(q)'
    BY <1>1, <1>4, <2>1 DEF InPlace, Readable, IsObj, Symbols
  <2>2. ASSUME NEW arg, arg \in group'.name
        PROVE  arg \in Arg /\ IsName(arg) /\ InPlace(Resolve(cwd, arg))'
    <3>1. arg = Top.arg
      BY <1>4, <2>2
    <3>2. ASSUME NEW q, q = Resolve(cwd, arg) PROVE InPlace(q)'
      BY <2>1, <3>1, <3>2
    <3>3. PICK q : q = Resolve(cwd, arg) /\ q = Resolve(cwd', arg)
      BY <1>1
    <3> QED
      BY <1>2, <3>1, <3>2, <3>3
  <2> QED
    BY <1>4, <2>2 DEF CacheInv
<1>5. CASE group' = [group EXCEPT !.name = {}]
  BY <1>5 DEF CacheInv
<1> QED
  BY <1>1, <1>3, <1>4, <1>5

LEMMA CacheKept == CacheInv /\ PathInv /\ [Next]_svars => CacheInv'
<1> SUFFICES ASSUME CacheInv, PathInv, [Next]_svars PROVE CacheInv'
  OBVIOUS
<1>1. CASE UNCHANGED svars
  BY <1>1, CacheSame DEF svars, table, config
<1>2. ASSUME NEW f, NEW arg, Enter(f, arg) PROVE CacheInv'
  BY <1>2, CacheSame, CacheMoved DEF Enter, Begin, BeginElsewhere, BeginFails, table, config
<1>3. CASE Return \/ Jump
  BY <1>3, CacheSame, CacheRestored DEF Return, Jump, table, config
<1>4. CASE SetDir
  BY <1>4, CacheSame, CacheMoved DEF SetDir, table, config
<1>5. CASE MkDir \/ MkDirPUp \/ ReadVar \/ VarByteLength \/ GetToc
  BY <1>5, CacheSame DEF MkDir, MkDirPUp, ReadVar, VarByteLength, GetToc, Made, table, config
<1>6. CASE MkDirPDown
  <2>1. /\ UNCHANGED <<vars, allow>> /\ cwd' = Top.at
        /\ group' = IF Top.at = cwd THEN group ELSE [group EXCEPT !.on = FALSE]
    BY <1>6 DEF MkDirPDown, Made, table, config
  <2> QED
    BY <2>1, CacheSame, CacheOff
<1>7. CASE MkDirPBack
  BY <1>7, CacheMoved DEF MkDirPBack, table, config
<1>8. CASE Write \/ WriteObject
  <2> DEFINE p == Resolve(cwd, Top.arg)
  <2>1. /\ UNCHANGED <<cwd, group, allow>>
        /\ UNCHANGED vars \/ (\E k, ok : Written(p, k, ok) /\ (allow.file \/ p \notin Symbols))
    BY <1>8 DEF Write, WriteObject, table, config
  <2> HIDE DEF p
  <2> QED
    BY <2>1, CacheSame, CacheWritten
<1>9. CASE PutComponent
  <2> DEFINE p == Resolve(cwd, Top.arg)
             c == Append(Front(p), Comp[Last(p)])
  <2>1. /\ calls # <<>> /\ Top.fn \in NamedFns /\ UNCHANGED <<cwd, group, allow>>
        /\ UNCHANGED vars \/ (\E ok : Written(c, "var", ok))
    BY <1>9 DEF PutComponent, In, NamedFns, table, config
  <2>2. p \in Path /\ p # <<>> /\ Last(p) \in Names
    BY <2>1, Here
  <2>3. \E n \in Names : Comp[n] = Last(c)
    BY <2>2, Beside
  <2> HIDE DEF c
  <2> QED
    BY <2>1, <2>3, CacheSame, CacheWritten
<1>10. CASE PutHeader
  <2>1. /\ calls # <<>> /\ Top.pc = "header" /\ UNCHANGED <<cwd, group, allow>>
        /\ UNCHANGED vars \/ (\E ok : Written(Top.at, "obj", ok))
    BY <1>10 DEF PutHeader, In, table, config
  <2>2. allow.file \/ Top.at \notin Symbols
    BY <2>1, TopSound DEF PathInv, Sound
  <2> QED
    BY <2>1, <2>2, CacheSame, CacheWritten
<1>11. CASE GetCurve
  BY <1>11, ReadIntoCache
<1>12. CASE InqFileHasObjects
  BY <1>12, CacheSame, CacheOff DEF InqFileHasObjects, table, config
<1> QED
  BY <1>1, <1>2, <1>3, <1>4, <1>5, <1>6, <1>7, <1>8, <1>9, <1>10, <1>11, <1>12 DEF Next, Enter

(* Nothing that is written, made or left between two calls makes the group *)
(* that DBGetCurve has cached another than the one in the file, when       *)
(* nothing may be overwritten: CachedGroupIsCurrent for every instance.    *)
THEOREM CacheIsCurrent == Spec => []CachedGroupIsCurrent
<1>1. CacheInv => CachedGroupIsCurrent
  BY DEF CacheInv, InPlace, CachedGroupIsCurrent
<1>2. CacheInv /\ (PathInv /\ FrameInv) /\ [Next]_svars => CacheInv'
  BY CacheKept
<1> QED
  BY <1>1, <1>2, CacheInitially, PathsKept, PTL DEF Spec
=============================================================================
