------------------------------ MODULE FlatFile ------------------------------
(***************************************************************************)
(* What the HDF5 library expects of a virtual file driver: a file is an    *)
(* array of bytes.  A read returns, for every byte that was ever defined,  *)
(* the value it was last given, whatever happened in between: other calls, *)
(* other addresses, closing the file and opening it again.  A byte nobody  *)
(* defined reads as anything.                                              *)
(*                                                                         *)
(* A call is a request that transfers its bytes in order, in pieces of any *)
(* size, and then returns.  There is no cache, no block, no kernel file.   *)
(***************************************************************************)
EXTENDS Integers, Sequences

CONSTANTS MaxAddr,      \* the address space is 0 .. MaxAddr-1
          Bytes,        \* the values a byte can be given
          Undef,        \* the content of a byte that was never defined
          Idle          \* the request slot when no call is in progress

VARIABLES content,      \* [Addr -> Bytes \cup {Undef}]
          mode,         \* "closed", "ro" or "rw"
          eoa,          \* the end of the allocated address space
          req           \* the call in progress, or Idle

vars == <<content, mode, eoa, req>>

Addr == 0 .. (MaxAddr - 1)

IsTransfer(r) == r # Idle /\ r.kind \in {"read", "write"}

\* A byte of a finished piece of a read agrees with the file.
Agrees(a, b) == content[a] # Undef => b = content[a]

Init ==
    /\ content \in [Addr -> Bytes \cup {Undef}]
    /\ mode = "closed"
    /\ eoa = 0
    /\ req = Idle

\* Opening changes no byte, unless the file is truncated.
Open ==
    /\ mode = "closed"
    /\ mode' \in {"ro", "rw"}
    /\ eoa' = 0
    /\ content' \in {content, [a \in Addr |-> Undef]}
    /\ UNCHANGED req

SetEoa ==
    /\ mode # "closed"
    /\ req = Idle
    /\ eoa' \in 0 .. MaxAddr
    /\ UNCHANGED <<content, mode, req>>

\* A read or a write is accepted only inside the allocated space.
Begin ==
    /\ mode # "closed"
    /\ req = Idle
    /\ req' # Idle
    /\ IsTransfer(req') =>
         /\ req'.done = 0
         /\ req'.addr + req'.size <= eoa
         /\ req'.kind = "write" => mode = "rw"
    /\ UNCHANGED <<content, mode, eoa>>

\* The next n bytes of a write are stored, in order.
Store ==
    /\ IsTransfer(req) /\ req.kind = "write"
    /\ req.done < req.size
    /\ \E n \in 1 .. (req.size - req.done) :
         /\ req' = [req EXCEPT !.done = req.done + n]
         /\ content' = [a \in Addr |->
               IF req.addr + req.done <= a /\ a < req.addr + req.done + n
                 THEN req.data[a - req.addr + 1]
                 ELSE content[a]]
    /\ UNCHANGED <<mode, eoa>>

\* The next n bytes of a read are returned, in order.
Fetch ==
    /\ IsTransfer(req) /\ req.kind = "read"
    /\ req.done < req.size
    /\ \E n \in 1 .. (req.size - req.done) :
         /\ req'.done = req.done + n
         /\ Len(req'.data) = req'.done
         /\ req' = [req EXCEPT !.done = req'.done, !.data = req'.data]
         /\ \A i \in 1 .. req.done : req'.data[i] = req.data[i]
         /\ \A i \in (req.done + 1) .. (req.done + n) :
               Agrees(req.addr + i - 1, req'.data[i])
    /\ UNCHANGED <<content, mode, eoa>>

\* A call returns when all its bytes were transferred; close, and nothing
\* else, leaves the file closed.
Return ==
    /\ req # Idle
    /\ IsTransfer(req) => req.done = req.size
    /\ mode' = IF req.kind = "close" THEN "closed" ELSE mode
    /\ req' = Idle
    /\ UNCHANGED <<content, eoa>>

Next == Open \/ SetEoa \/ Begin \/ Store \/ Fetch \/ Return

Spec == Init /\ [][Next]_vars
=============================================================================
