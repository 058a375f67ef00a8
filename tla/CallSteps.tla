------------------------------ MODULE CallSteps ------------------------------
(* A function as the sequence of its steps: what it takes and gives back   *)
(* (memory, handles, copies), what can fail and where that leaves it.      *)
(* The data it works on is left out.                                       *)
EXTENDS Integers, Sequences

Step(op, args) == <<[op |-> op, args |-> args, n |-> 0]>>
Skip(op, n)    == <<[op |-> op, args |-> {}, n |-> n]>>

Check(args) == Step("check", args)  \* an error when one of them will not do
Refuse      == Step("refuse", {})   \* an error in any case
Error       == Step("error", {})    \* db_perror, which may jump or return
Open(r)     == Step("open", {r})    \* takes r, or an error
Copy(rs)    == Step("copy", rs)     \* takes rs; a failure is not looked for
More(rs)    == Step("more", rs)     \* takes elements of the array rs, one after the other
Own(rs)     == Copy(rs)             \* the caller hands rs over, or has it where f frees it
List(rs)    == Step("list", rs)     \* an array and its elements, each with its check
Free(rs)    == Step("free", rs)     \* gives back those of rs that are taken
Keep(rs)    == Step("keep", rs)     \* somebody else has rs from now on

(* The call of another function: the answer of this one says what f said;  *)
(* a failure is an error, before which rs are given back; what f says is   *)
(* not looked at.                                                          *)
Calling(op, f, rs) == <<[op |-> op, args |-> rs, n |-> 0, f |-> f]>>
Call(f)       == Calling("call", f, {})
MustOr(f, rs) == Calling("must", f, rs)
Must(f)       == MustOr(f, {})
Void(f)       == Calling("void", f, {})

(* Handles of a Fortran program *)
Look(ids)   == Step("look", ids)    \* DBFortranAccessPointer; NULL goes on
Need(ids)   == Step("need", ids)    \* the same; NULL is an error
Give(id)    == Step("give", {id})   \* DBFortranAllocPointer
Drop(id)    == Step("drop", {id})   \* DBFortranRemovePointer, then the id is -1
Forget(id)  == Step("forget", {id}) \* the id is -1, the table keeps the pointer

(* Steps that are carried out or not, one of two, any number of times *)
Maybe(s)     == Skip("maybe", Len(s)) \o s
Either(s, t) == Skip("maybe", Len(s) + 1) \o s \o Skip("goto", Len(t)) \o t
Loop(s)      == Skip("maybe", Len(s) + 1) \o s \o Skip("again", Len(s) + 2)
Done         == Step("done", {})    \* return
Dies         == Step("dies", {})    \* a NULL pointer is read

(* An error before which rs are given back *)
CheckOr(rs)   == Maybe(Free(rs) \o Refuse)
OpenOr(r, rs) == CheckOr(rs) \o Copy({r})
(* A handle or memory that is held for one step *)
Brief(r)      == Open(r) \o Free({r})

(* PROTECT, s, CLEANUP that gives back rs when the body is left, END_PROTECT *)
Guard(rs, s) == Step("guard", rs) \o s \o Step("unguard", {})

(* Functions in the library.  An error of the first kind is a db_perror,   *)
(* of the second what the function returns; one of the third has           *)
(* API_BEGIN, and API_ERROR in place of a return; "direct" is for one that *)
(* a program calls without that, "f77" and "bare" are for those of the     *)
(* Fortran interface with it and without.  The answer says whether a       *)
(* function that this one calls has failed.                                *)
Script(steps, error) == [steps |-> steps, told |-> TRUE, error |-> error]
Plain(steps) == Script(steps, "perror")
Quiet(steps) == Script(steps, "return")
Api(steps)   == Script(steps, "api")
Direct(steps) == Script(steps, "direct")
Unwind(steps) == Script(steps, "unwind")   \* UNWIND to a frame of the caller
Protect(rs, steps) == Plain(Guard(rs, steps))

(* PDB lite: lite_PD_error jumps to the frame of a kind of errors, which   *)
(* is the one that was set last for it; ABORT there gives back rs.         *)
Kinds == {"PD_OPEN", "PD_CREATE", "PD_CLOSE", "PD_TRACE", "PD_READ", "PD_WRITE", "PD_GENERIC"}
Throw(kind)       == Step("throw", {kind})
RaiseOr(rs, kind) == Maybe(Free(rs) \o Throw(kind))
Raise(kind)       == Maybe(Throw(kind))
Catch(rs)         == Step("catch", rs)
(* A failure that f returns gives back rs and is thrown *)
Demand(f, rs, kind) ==
  <<[op |-> "demand", args |-> rs, n |-> 0, f |-> f, kind |-> kind]>>

(* A function that sets a frame, and one that has none *)
Entry(kind, steps) == Script(steps, kind)
Inner(steps)       == Script(steps, "none")
=============================================================================
