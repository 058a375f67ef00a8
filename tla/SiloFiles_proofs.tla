-------------------------- MODULE SiloFiles_proofs --------------------------
(***************************************************************************)
(* For every number of file ids, files, names and addresses: the list of   *)
(* open files implements the abstract locks, every handle is on it, and    *)
(* the ids of open files differ.                                           *)
(***************************************************************************)
EXTENDS SiloFiles, FiniteSetTheorems, WellFoundedInduction, TLAPS

-----------------------------------------------------------------------------
(* The inductive invariant *)

Entry == [f : Ptr, n : Inode, w : BOOLEAN]

\* No entry comes after a free slot.
Packed == \A i \in Slot : reg[i] # Nil => \A j \in 0 .. (i - 1) : reg[j] # Nil

Distinct ==
    \A i, j \in Slot : i # j /\ reg[i] # Nil /\ reg[j] # Nil => reg[i].f # reg[j].f

\* The files on the list are those with an id, which is theirs alone.
ListedHasId == \A i \in Slot : reg[i] # Nil => fileid[reg[i].f] # -1
HasIdListed == \A p \in Ptr : fileid[p] # -1 => \E i \in Slot : reg[i] # Nil /\ reg[i].f = p
OwnIds ==
    \A p \in Ptr : fileid[p] # -1 =>
        /\ fstatus[fileid[p]]
        /\ \A q \in Ptr : q # p => fileid[q] # fileid[p]

\* Handles are held once, and only while their file has an id.
HeldOpen ==
    /\ \A p \in held : fileid[p] # -1
    /\ inq.f # Nil => fileid[inq.f] # -1 /\ inq.f \notin held
    /\ inq.phase \in {"idle", "opening"} => inq.f = Nil

IInv ==
    /\ TypeOK /\ Packed /\ Distinct /\ ReadersOrWriter
    /\ ListedHasId /\ HasIdListed /\ OwnIds /\ HeldOpen

LEMMA Initially == Init => IInv
  BY FilesAssumption
  DEF Init, Idle, IInv, TypeOK, Levels, Packed, Distinct, ReadersOrWriter,
      ListedHasId, HasIdListed, OwnIds, HeldOpen, Slot

-----------------------------------------------------------------------------
(* Searches from the front *)

LEMMA Least ==
    ASSUME NEW S \in SUBSET Nat, S # {}
    PROVE  \E m \in S : \A j \in S : m <= j
  <1> DEFINE Less == {e \in Nat \X Nat : e[1] < e[2]}
  <1>1. IsWellFoundedOn(Less, Nat)
    <2>1. Less = OpToRel(<, Nat)
      BY DEF OpToRel
    <2> QED
      BY <2>1, NatLessThanWellFounded
  <1>2. PICK m \in S : \A y \in S : <<y, m>> \notin Less
    BY <1>1, WFMin
  <1>3. ASSUME NEW j \in S PROVE m <= j
    <2>1. <<j, m>> \notin Less
      BY <1>2
    <2>2. <<j, m>> \in Less <=> j < m
      OBVIOUS
    <2> QED
      BY <2>1, <2>2
  <1> QED
    BY <1>3

\* There is a place for a file that has got an id: the others have other ids.
LEMMA Room ==
    ASSUME IInv, NEW id \in NewIds
    PROVE  \E k \in Slot : reg[k] = Nil /\ \A j \in 0 .. (k - 1) : reg[j] # Nil
  <1>1. id \in Slot /\ ~fstatus[id]
    BY FilesAssumption DEF NewIds, FirstFree, Probe, Slot, IInv, TypeOK
  <1>2. \E i \in Slot : reg[i] = Nil
    <2>1. SUFFICES ASSUME \A i \in Slot : reg[i] # Nil PROVE FALSE
      OBVIOUS
    <2> DEFINE g == [i \in Slot |-> fileid[reg[i].f]]
    <2>2. \A i \in Slot : reg[i] \in Entry /\ reg[i].f \in Ptr /\ fileid[reg[i].f] \in Slot
      BY <2>1 DEF IInv, TypeOK, Entry, ListedHasId
    <2>3. g \in Injection(Slot, Slot)
      BY <2>1, <2>2 DEF Injection, IsInjective, IInv, OwnIds, Distinct, ListedHasId
    <2>4. IsFiniteSet(Slot)
      BY FS_Interval, FilesAssumption DEF Slot
    <2>5. g \in Surjection(Slot, Slot)
      BY <2>3, <2>4, FS_Injection
    <2>6. PICK i \in Slot : g[i] = id
      BY <2>5, <1>1 DEF Surjection
    <2> QED
      BY <2>1, <2>2, <2>6, <1>1 DEF IInv, OwnIds, ListedHasId
  <1> DEFINE Free == {i \in Slot : reg[i] = Nil}
  <1>3. Free \in SUBSET Nat /\ Free # {}
    BY <1>2, FilesAssumption DEF Slot
  <1>4. PICK k \in Free : \A j \in Free : k <= j
    BY <1>3, Least
  <1> QED
    BY <1>4, FilesAssumption DEF Slot

\* A file that is not busy is compatible with all that are open.
LEMMA NotBusy ==
    ASSUME IInv, NEW n, NEW w \in BOOLEAN, ~Busy(n, w),
           NEW i \in Slot, reg[i] # Nil, reg[i].n = n
    PROVE  ~reg[i].w /\ ~w
  <1> DEFINE Same == {k \in Slot : reg[k] # Nil /\ reg[k].n = n}
  <1>1. Same \in SUBSET Nat /\ Same # {}
    BY FilesAssumption DEF Slot
  <1>2. PICK k \in Same : \A j \in Same : k <= j
    BY <1>1, Least
  <1>3. k \in FirstOf(n)
    BY <1>2, FilesAssumption DEF FirstOf, Slot
  <1>4. ~reg[k].w /\ ~w
    BY <1>3 DEF Busy
  <1> QED
    BY <1>2, <1>4 DEF IInv, ReadersOrWriter

-----------------------------------------------------------------------------
(* The list after an entry is added or removed *)

LEMMA Registers ==
    ASSUME IInv, NEW f \in Ptr, NEW n \in Inode, NEW w \in BOOLEAN,
           NEW k \in Slot, reg[k] = Nil, \A j \in 0 .. (k - 1) : reg[j] # Nil,
           Register(f, n, w)
    PROVE  reg' = [reg EXCEPT ![k] = [f |-> f, n |-> n, w |-> w]]
  <1>1. \A i \in Slot : reg[i] = Nil /\ (\A j \in 0 .. (i - 1) : reg[j] # Nil) <=> i = k
    BY FilesAssumption DEF Slot
  <1> QED
    BY <1>1 DEF Register, IInv, TypeOK

Shifted(k) ==
    [i \in Slot |-> IF i < k THEN reg[i] ELSE IF i + 1 < NFiles THEN reg[i + 1] ELSE Nil]

LEMMA Unregisters ==
    ASSUME IInv, NEW k \in Slot, reg[k] # Nil, Unregister(reg[k].f)
    PROVE  reg' = Shifted(k)
  <1> DEFINE first == {m \in Slot : reg[m] # Nil /\ reg[m].f = reg[k].f
                         /\ \A j \in 0 .. (m - 1) : reg[j] # Nil => reg[j].f # reg[k].f}
  <1>1. first = {k}
    BY FilesAssumption DEF IInv, Distinct, Slot
  <1>2. reg' = [i \in Slot |-> IF Follows(k, i)
                                 THEN IF NextUp(k, i) THEN reg[i + 1] ELSE Nil
                                 ELSE reg[i]]
    BY <1>1 DEF Unregister
  <1>3. ASSUME NEW i \in Slot PROVE reg'[i] = Shifted(k)[i]
    <2>1. CASE i < k
      BY <1>2, <2>1, FilesAssumption DEF Follows, Shifted, Slot
    <2>2. CASE i >= k /\ Follows(k, i)
      BY <1>2, <2>2, FilesAssumption DEF NextUp, Shifted, Slot
    <2>3. CASE i >= k /\ ~Follows(k, i)
      <3>1. PICK j \in (k + 1) .. i : reg[j] = Nil
        BY <2>3, FilesAssumption DEF Follows, Slot
      <3>2. reg[i] = Nil
        BY <3>1, FilesAssumption DEF IInv, Packed, Slot
      <3>3. i + 1 < NFiles => reg[i + 1] = Nil
        BY <3>2, FilesAssumption DEF IInv, Packed, Slot
      <3> QED
        BY <1>2, <2>3, <3>2, <3>3, FilesAssumption DEF Shifted, Slot
    <2> QED
      BY <2>1, <2>2, <2>3, FilesAssumption DEF Slot
  <1> QED
    BY <1>2, <1>3 DEF Shifted

-----------------------------------------------------------------------------
(* The steps: each keeps the invariant and is a step of the locks          *)

\* What a step does to the open files, for the abstract locks.
Allowed == Locks!Next \/ UNCHANGED Entries

\* What the calls share about the rest of the state.
RestOK ==
    /\ inode \in [Names -> Inode \cup {Nil}]
    /\ level \in Levels /\ old \in Levels /\ nested \in Int

LEMMA NewIdsFree ==
    ASSUME vhand \in Slot, NEW id \in NewIds PROVE id \in Slot /\ ~fstatus[id]
  <1>1. PICK i \in Slot : id = Probe(i) /\ ~fstatus[Probe(i)]
    BY DEF NewIds, FirstFree
  <1>2. vhand + i \in Nat /\ NFiles \in Nat \ {0}
    BY FilesAssumption DEF Slot
  <1>3. (vhand + i) % NFiles \in 0 .. (NFiles - 1)
    BY <1>2
  <1> QED
    BY <1>1, <1>3 DEF Probe, Slot

LEMMA HandType == ASSUME NEW id \in Slot PROVE NextHand(id) \in Slot
  <1>1. id + 1 \in Nat /\ NFiles \in Nat \ {0}
    BY FilesAssumption DEF Slot
  <1>2. (id + 1) % NFiles \in 0 .. (NFiles - 1)
    BY <1>1
  <1> QED
    BY <1>2 DEF NextHand, Slot

LEMMA SucceedKeeps ==
    ASSUME IInv, inq.phase \in {"idle", "opening"}, RestOK',
           NEW id \in NewIds, NEW n \in Inode, NEW w \in BOOLEAN,
           \A i \in Slot : reg[i] # Nil /\ reg[i].n = n => ~reg[i].w /\ ~w,
           Succeed(id, n, w)
    PROVE  IInv' /\ Allowed
  <1> USE FilesAssumption
  <1>1. PICK f \in Ptr :
          /\ fileid[f] = -1
          /\ fstatus' = [fstatus EXCEPT ![id] = TRUE]
          /\ vhand' = NextHand(id)
          /\ fileid' = [fileid EXCEPT ![f] = id]
          /\ Register(f, n, w)
          /\ Deliver(f) \/ Deliver(Nil)
    BY DEF Succeed
  <1>2. PICK k \in Slot : reg[k] = Nil /\ \A j \in 0 .. (k - 1) : reg[j] # Nil
    BY Room
  <1> DEFINE new == [f |-> f, n |-> n, w |-> w]
  <1>3. reg' = [reg EXCEPT ![k] = new]
    BY <1>1, <1>2, Registers
  <1>4. new \in Entry /\ new # Nil /\ new.f = f /\ new.n = n /\ new.w = w
    BY DEF Entry
  <1>5. id \in Slot /\ ~fstatus[id]
    <2>1. vhand \in Slot
      BY DEF IInv, TypeOK
    <2> QED
      BY <2>1, NewIdsFree
  <1>6. inq.f = Nil
    BY DEF IInv, HeldOpen
  <1> HIDE DEF new
  <1>7. \A i \in Slot : reg[i] # Nil => reg[i] \in Entry /\ reg[i].f \in Ptr /\ reg[i].f # f
    BY <1>1 DEF IInv, TypeOK, ListedHasId, Entry
  <1>8. \A i \in Slot : reg'[i] = IF i = k THEN new ELSE reg[i]
    BY <1>3 DEF IInv, TypeOK
  <1>9. TypeOK'
    <2>1. reg' \in [Slot -> Entry \cup {Nil}]
      BY <1>3, <1>4 DEF IInv, TypeOK, Entry
    <2>2. vhand' \in Slot
      BY <1>1, <1>5, HandType
    <2>3. fstatus' \in [Slot -> BOOLEAN] /\ fileid' \in [Ptr -> Slot \cup {-1}]
      BY <1>1, <1>5 DEF IInv, TypeOK
    <2>4. held' \subseteq Ptr /\ inq' \in [phase : {"idle", "opening", "opened", "resumed"},
                                        f : Ptr \cup {Nil}, level : Levels]
      BY <1>1 DEF Deliver, GoOn, IInv, TypeOK
    <2> QED
      BY <2>1, <2>2, <2>3, <2>4 DEF TypeOK, RestOK, Entry
  <1>10. Packed'
    BY <1>2, <1>4, <1>8 DEF IInv, Packed, Slot
  <1>11. Distinct'
    BY <1>4, <1>7, <1>8 DEF IInv, Distinct
  <1>12. ReadersOrWriter'
    BY <1>4, <1>8 DEF IInv, ReadersOrWriter
  <1>13. ListedHasId'
    <2>1. ASSUME NEW i \in Slot, reg'[i] # Nil PROVE fileid'[reg'[i].f] # -1
      <3>1. fileid \in [Ptr -> Slot \cup {-1}]
        BY DEF IInv, TypeOK
      <3>2. CASE i = k
        <4>1. reg'[i].f = f /\ id # -1
          BY <1>4, <1>5, <1>8, <3>2 DEF Slot
        <4> QED
          BY <1>1, <3>1, <4>1
      <3>3. CASE i # k
        <4>1. reg'[i] = reg[i] /\ reg[i].f \in Ptr /\ reg[i].f # f /\ fileid[reg[i].f] # -1
          BY <1>7, <1>8, <2>1, <3>3 DEF IInv, ListedHasId
        <4> QED
          BY <1>1, <3>1, <4>1
      <3> QED
        BY <3>2, <3>3
    <2> QED
      BY <2>1 DEF ListedHasId
  <1>14. HasIdListed'
    <2>1. SUFFICES ASSUME NEW p \in Ptr, fileid'[p] # -1
                   PROVE  \E i \in Slot : reg'[i] # Nil /\ reg'[i].f = p
      BY DEF HasIdListed
    <2>2. CASE p = f
      BY <2>2, <1>4, <1>8
    <2>3. CASE p # f
      <3>1. PICK i \in Slot : reg[i] # Nil /\ reg[i].f = p
        BY <1>1, <2>1, <2>3 DEF IInv, TypeOK, HasIdListed
      <3> QED
        BY <3>1, <1>2, <1>8
    <2> QED
      BY <2>2, <2>3
  <1>15. OwnIds'
    BY <1>1, <1>5 DEF IInv, TypeOK, OwnIds, Slot
  <1>16. HeldOpen'
    <2>1. f \notin held
      BY <1>1 DEF IInv, HeldOpen
    <2>2. \A p \in held \cup {f} : fileid'[p] # -1
      BY <1>1, <1>5 DEF IInv, TypeOK, HeldOpen, Slot
    <2> QED
      BY <1>1, <1>6, <2>1, <2>2 DEF Deliver, GoOn, IInv, TypeOK, HeldOpen
  <1>17. Allowed
    <2>1. Entries' = Entries \cup {new}
      BY <1>2, <1>4, <1>8 DEF Entries
    <2>2. \A x \in Entries : x.f # new.f /\ (x.n = new.n => ~x.w /\ ~new.w)
      BY <1>4, <1>7 DEF Entries
    <2>3. Locks!Acquire
      BY <1>4, <2>1, <2>2 DEF Locks!Acquire, Locks!Compatible, Locks!Hold, Entry
    <2> QED
      BY <2>3 DEF Allowed, Locks!Next
  <1> QED
    BY <1>9, <1>10, <1>11, <1>12, <1>13, <1>14, <1>15, <1>16, <1>17 DEF IInv

\* A step that leaves the open files and their ids alone, and gives the
\* handle of none of them to anybody.
LEMMA ListKeeps ==
    ASSUME IInv, RestOK', UNCHANGED <<reg, fileid, held>>,
           fstatus' = fstatus \/ \E id \in Slot : fstatus' = [fstatus EXCEPT ![id] = TRUE],
           vhand' \in Slot,
           inq' \in [phase : {"idle", "opening", "opened", "resumed"},
                     f : Ptr \cup {Nil}, level : Levels],
           inq'.f \in {inq.f, Nil},
           inq'.phase \in {"idle", "opening"} => inq'.f = Nil
    PROVE  IInv' /\ Allowed
  <1>1. fstatus' \in [Slot -> BOOLEAN] /\ \A i \in Slot : fstatus[i] => fstatus'[i]
    BY DEF IInv, TypeOK
  <1>2. TypeOK'
    BY <1>1 DEF IInv, TypeOK, RestOK
  <1>3. Packed' /\ Distinct' /\ ReadersOrWriter' /\ ListedHasId' /\ HasIdListed'
    BY DEF IInv, Packed, Distinct, ReadersOrWriter, ListedHasId, HasIdListed
  <1>4. OwnIds'
    BY <1>1 DEF IInv, OwnIds, TypeOK
  <1>5. HeldOpen'
    BY DEF IInv, HeldOpen
  <1>6. Allowed
    BY DEF Allowed, Entries
  <1> QED
    BY <1>2, <1>3, <1>4, <1>5, <1>6 DEF IInv

LEMMA FailKeeps ==
    ASSUME IInv, inq.phase \in {"idle", "opening"}, RestOK',
           NEW id \in NewIds, NEW type, Fail(id, type)
    PROVE  IInv' /\ Allowed
  <1> USE FilesAssumption
  <1>1. id \in Slot
    <2>1. vhand \in Slot
      BY DEF IInv, TypeOK
    <2> QED
      BY <2>1, NewIdsFree
  <1>2. vhand' \in Slot
    BY <1>1, HandType DEF Fail
  <1>3. /\ UNCHANGED <<reg, fileid, held>>
        /\ inq' \in [phase : {"idle", "opening", "opened", "resumed"},
                     f : Ptr \cup {Nil}, level : Levels]
        /\ inq'.f = Nil
        /\ inq'.phase \in {"idle", "opened"}
    <2>1. UNCHANGED <<reg, fileid>> /\ Deliver(Nil)
      BY DEF Fail
    <2>2. /\ inq \in [phase : {"idle", "opening", "opened", "resumed"},
                     f : Ptr \cup {Nil}, level : Levels]
          /\ inq.f = Nil
      BY DEF IInv, TypeOK, HeldOpen
    <2>3. CASE inq.phase = "opening"
      BY <2>1, <2>2, <2>3 DEF Deliver, GoOn
    <2>4. CASE inq.phase = "idle"
      <3>1. UNCHANGED <<held, inq>>
        BY <2>1, <2>4 DEF Deliver
      <3> QED
        BY <2>1, <2>2, <2>4, <3>1
    <2> QED
      BY <2>3, <2>4
  <1>4. fstatus' = fstatus \/ \E i \in Slot : fstatus' = [fstatus EXCEPT ![i] = TRUE]
    BY <1>1 DEF Fail
  <1> QED
    BY <1>2, <1>3, <1>4, ListKeeps

LEMMA ClosingKeeps ==
    ASSUME IInv, NEW f \in Ptr, fileid[f] # -1, Closing(f),
           \/ f \in held /\ held' = held \ {f} /\ UNCHANGED inq
           \/ inq.f = f /\ GoOn("idle", Nil) /\ UNCHANGED held
    PROVE  IInv' /\ Allowed
  <1> USE FilesAssumption
  <1>1. PICK k \in Slot : reg[k] # Nil /\ reg[k].f = f
    BY DEF IInv, HasIdListed
  <1>2. reg' = Shifted(k)
    BY <1>1, Unregisters DEF Closing
  <1>3. \A i \in Slot :
          reg'[i] = IF i < k THEN reg[i] ELSE IF i + 1 < NFiles THEN reg[i + 1] ELSE Nil
    BY <1>2 DEF Shifted
  <1> DEFINE from(i) == IF i < k THEN i ELSE i + 1
  <1>4. ASSUME NEW i \in Slot, reg'[i] # Nil
        PROVE  from(i) \in Slot /\ from(i) # k /\ reg'[i] = reg[from(i)]
    BY <1>3, <1>4 DEF Slot
  <1>5. /\ fileid' = [fileid EXCEPT ![f] = -1]
        /\ fstatus' = [fstatus EXCEPT ![fileid[f]] = FALSE]
        /\ fileid[f] \in Slot
        /\ UNCHANGED <<vhand, inode, errors>>
    BY DEF Closing, Release, IInv, TypeOK
  <1>6. TypeOK'
    <2>1. reg' \in [Slot -> Entry \cup {Nil}]
      <3>1. \A i \in Slot : reg'[i] \in Entry \cup {Nil}
        BY <1>3 DEF IInv, TypeOK, Entry, Slot
      <3> QED
        BY <3>1, <1>2 DEF Shifted
    <2>2. held' \subseteq Ptr /\ inq' \in [phase : {"idle", "opening", "opened", "resumed"},
                                        f : Ptr \cup {Nil}, level : Levels]
      BY DEF GoOn, IInv, TypeOK
    <2> QED
      BY <1>5, <2>1, <2>2 DEF IInv, TypeOK, errors, Entry
  <1>7. Packed'
    BY <1>3 DEF IInv, Packed, Slot
  <1>8. Distinct' /\ ReadersOrWriter'
    <2>1. SUFFICES ASSUME NEW i \in Slot, NEW j \in Slot,
                          i # j, reg'[i] # Nil, reg'[j] # Nil
                   PROVE  /\ reg'[i].f # reg'[j].f
                          /\ reg'[i].n = reg'[j].n => ~reg'[i].w /\ ~reg'[j].w
      BY DEF Distinct, ReadersOrWriter
    <2>2. from(i) # from(j)
      BY <2>1 DEF Slot
    <2> QED
      BY <2>1, <2>2, <1>4 DEF IInv, Distinct, ReadersOrWriter
  <1>9. ASSUME NEW i \in Slot, reg'[i] # Nil PROVE reg'[i].f \in Ptr /\ reg'[i].f # f
    BY <1>1, <1>4, <1>9 DEF IInv, TypeOK, Distinct
  <1>10. ListedHasId'
    BY <1>4, <1>5, <1>9 DEF IInv, TypeOK, ListedHasId
  <1>11. ASSUME NEW i \in Slot, i # k, reg[i] # Nil
         PROVE  \E j \in Slot : reg'[j] = reg[i]
    <2>1. CASE i < k
      BY <2>1, <1>3
    <2>2. CASE i > k
      <3>1. i - 1 \in Slot /\ reg'[i - 1] = reg[i]
        BY <2>2, <1>3 DEF Slot
      <3> QED
        BY <3>1
    <2> QED
      BY <1>11, <2>1, <2>2 DEF Slot
  <1>12. HasIdListed'
    <2>1. SUFFICES ASSUME NEW p \in Ptr, fileid'[p] # -1
                   PROVE  \E i \in Slot : reg'[i] # Nil /\ reg'[i].f = p
      BY DEF HasIdListed
    <2>2. p # f /\ fileid[p] # -1
      BY <2>1, <1>5 DEF IInv, TypeOK
    <2>3. PICK i \in Slot : reg[i] # Nil /\ reg[i].f = p
      BY <2>2 DEF IInv, HasIdListed
    <2> QED
      BY <2>2, <2>3, <1>1, <1>11
  <1>13. OwnIds'
    BY <1>5 DEF IInv, TypeOK, OwnIds, Slot
  <1>14. HeldOpen'
    BY <1>5 DEF GoOn, IInv, TypeOK, HeldOpen
  <1>15. Allowed
    <2>1. reg[k] \in Entries
      BY <1>1 DEF Entries
    <2>2. ASSUME NEW x PROVE x \in Entries' <=> x \in Entries \ {reg[k]}
      <3>1. x \in Entries' => x \in Entries \ {reg[k]}
        BY <1>1, <1>4, <1>9 DEF Entries
      <3>2. x \in Entries \ {reg[k]} => x \in Entries'
        BY <1>1, <1>11 DEF Entries
      <3> QED
        BY <3>1, <3>2
    <2>3. Entries' = Entries \ {reg[k]}
      BY <2>2
    <2> QED
      BY <2>1, <2>3 DEF Allowed, Locks!Next, Locks!Release
  <1> QED
    BY <1>6, <1>7, <1>8, <1>10, <1>12, <1>13, <1>14, <1>15 DEF IInv

LEMMA OpenKeeps ==
    ASSUME IInv, NEW name \in Names, NEW type, NEW w \in BOOLEAN, Open(name, type, w)
    PROVE  IInv' /\ Allowed
  <1>1. inq.phase \in {"idle", "opening"} /\ RestOK'
    BY DEF Open, Ready, TryDrivers, errors, RestOK, IInv, TypeOK
  <1>2. PICK id \in NewIds : Succeed(id, inode[name], w) \/ Fail(id, type)
    BY DEF Open
  <1>3. CASE Succeed(id, inode[name], w)
    <2>1. inode[name] \in Inode
      BY DEF Open, IInv, TypeOK
    <2>2. \A i \in Slot : reg[i] # Nil /\ reg[i].n = inode[name] => ~reg[i].w /\ ~w
      BY NotBusy DEF Open
    <2> QED
      BY <1>1, <1>3, <2>1, <2>2, SucceedKeeps
  <1>4. CASE Fail(id, type)
    BY <1>1, <1>4, FailKeeps
  <1> QED
    BY <1>2, <1>3, <1>4

LEMMA RefuseKeeps ==
    ASSUME IInv, NEW name, NEW w, RefuseOpen(name, w)
    PROVE  IInv' /\ Allowed
  <1>1. RestOK' /\ vhand' \in Slot /\ fstatus' = fstatus /\ UNCHANGED <<reg, fileid>>
    BY DEF RefuseOpen, errors, RestOK, IInv, TypeOK
  <1>2. /\ UNCHANGED held /\ inq'.f = Nil /\ inq'.phase \in {"idle", "opened"}
        /\ inq' \in [phase : {"idle", "opening", "opened", "resumed"},
                     f : Ptr \cup {Nil}, level : Levels]
    <2>1. CASE inq.phase = "opening"
      BY <2>1 DEF RefuseOpen, Deliver, GoOn, IInv, TypeOK
    <2>2. CASE inq.phase = "idle"
      <3>1. UNCHANGED <<held, inq>>
        BY <2>2 DEF RefuseOpen, Deliver
      <3> QED
        BY <2>2, <3>1 DEF IInv, TypeOK, HeldOpen
    <2> QED
      BY <2>1, <2>2 DEF RefuseOpen, Ready
  <1> QED
    BY <1>1, <1>2, ListKeeps

LEMMA CreateKeeps ==
    ASSUME IInv, NEW name \in Names, Create(name)
    PROVE  IInv' /\ Allowed
  <1>1. inq.phase \in {"idle", "opening"}
    BY DEF Create
  <1>2. RestOK'
    <2>1. UNCHANGED errors
      BY DEF Create
    <2>2. inode' = inode \/ \E n \in Inode : inode' = [inode EXCEPT ![name] = n]
      <3>1. inode \in [Names -> Inode \cup {Nil}]
        BY DEF IInv, TypeOK
      <3>2. \A n \in IF inode[name] = Nil THEN NewInodes ELSE {inode[name]} : n \in Inode
        BY <3>1 DEF NewInodes
      <3>3. NewInodes \subseteq Inode
        BY DEF NewInodes
      <3> QED
        BY <3>2, <3>3 DEF Create
    <2> QED
      BY <2>1, <2>2 DEF errors, RestOK, IInv, TypeOK
  <1>3. PICK id \in NewIds :
          \/ \E n \in IF inode[name] = Nil THEN NewInodes ELSE {inode[name]} :
               Succeed(id, n, TRUE)
          \/ Fail(id, "DRIVER")
    BY DEF Create
  <1>4. ASSUME NEW n \in IF inode[name] = Nil THEN NewInodes ELSE {inode[name]},
               Succeed(id, n, TRUE)
        PROVE  IInv' /\ Allowed
    <2>1. n \in Inode
      BY DEF NewInodes, IInv, TypeOK
    <2>2. ASSUME NEW i \in Slot, reg[i] # Nil, reg[i].n = n PROVE FALSE
      <3>1. CASE inode[name] = Nil
        BY <2>2, <3>1 DEF NewInodes, Entries
      <3>2. CASE inode[name] # Nil
        BY <2>2, <3>2, NotBusy DEF Create
      <3> QED
        BY <3>1, <3>2
    <2> QED
      BY <1>1, <1>2, <1>4, <2>1, <2>2, SucceedKeeps
  <1>5. CASE Fail(id, "DRIVER")
    BY <1>1, <1>2, <1>5, FailKeeps
  <1> QED
    BY <1>3, <1>4, <1>5

LEMMA StepKeeps == ASSUME IInv, [Next]_vars PROVE IInv' /\ Allowed
  <1>1. ASSUME NEW f \in Ptr, Close(f) PROVE IInv' /\ Allowed
    BY <1>1, ClosingKeeps DEF Close, IInv, HeldOpen
  <1>2. ASSUME NEW name \in Names, Unlink(name) PROVE IInv' /\ Allowed
    <2>1. RestOK' /\ vhand' \in Slot /\ UNCHANGED <<reg, fileid, held, fstatus, inq>>
      BY <1>2 DEF Unlink, errors, RestOK, IInv, TypeOK
    <2> QED
      BY <2>1, ListKeeps DEF IInv, TypeOK, HeldOpen
  <1>3. ASSUME NEW l \in {"NONE", "TOP", "ALL"}, ShowErrors(l) PROVE IInv' /\ Allowed
    <2>1. RestOK' /\ vhand' \in Slot /\ UNCHANGED <<reg, fileid, held, fstatus, inq>>
      BY <1>3 DEF ShowErrors, files, Levels, RestOK, IInv, TypeOK
    <2> QED
      BY <2>1, ListKeeps DEF IInv, TypeOK, HeldOpen
  <1>4. CASE InqFile
    <2>1. RestOK' /\ vhand' \in Slot /\ UNCHANGED <<reg, fileid, held, fstatus>>
      BY <1>4 DEF InqFile, Suspend, files, Levels, RestOK, IInv, TypeOK
    <2>2. inq'.f = Nil /\ inq' \in [phase : {"idle", "opening", "opened", "resumed"},
                                   f : Ptr \cup {Nil}, level : Levels]
      BY <1>4 DEF InqFile, IInv, TypeOK
    <2> QED
      BY <2>1, <2>2, ListKeeps
  <1>5. CASE InqResume
    <2>1. RestOK' /\ vhand' \in Slot /\ UNCHANGED <<reg, fileid, held, fstatus>>
      BY <1>5 DEF InqResume, Resume, files, Levels, RestOK, IInv, TypeOK
    <2>2. PICK f \in {inq.f, Nil} : GoOn(IF f = Nil THEN "idle" ELSE "resumed", f)
      BY <1>5 DEF InqResume
    <2>3. /\ inq'.f \in {inq.f, Nil} /\ (inq'.phase \in {"idle", "opening"} => inq'.f = Nil)
          /\ inq' \in [phase : {"idle", "opening", "opened", "resumed"},
                       f : Ptr \cup {Nil}, level : Levels]
      BY <2>2 DEF GoOn, IInv, TypeOK
    <2> QED
      BY <2>1, <2>3, ListKeeps
  <1>6. CASE InqClose
    <2>1. inq.f \in Ptr
      BY <1>6, FilesAssumption
      DEF InqClose, Closing, Registered, Entries, IInv, TypeOK, Entry
    <2>2. fileid[inq.f] # -1
      BY <2>1, FilesAssumption DEF IInv, HeldOpen
    <2> QED
      BY <1>6, <2>1, <2>2, ClosingKeeps DEF InqClose
  <1>7. CASE UNCHANGED vars
    <2>1. RestOK' /\ vhand' \in Slot /\ UNCHANGED <<reg, fileid, held, fstatus, inq>>
      BY <1>7 DEF vars, RestOK, IInv, TypeOK
    <2> QED
      BY <2>1, ListKeeps DEF IInv, TypeOK, HeldOpen
  <1> QED
    BY <1>1, <1>2, <1>3, <1>4, <1>5, <1>6, <1>7, OpenKeeps, RefuseKeeps, CreateKeeps DEF Next

-----------------------------------------------------------------------------
(* The theorems *)

LEMMA Inductive == Spec => []IInv
  <1>1. IInv /\ [Next]_vars => IInv'
    BY StepKeeps
  <1> QED
    BY Initially, <1>1, PTL DEF Spec

\* DBOpen, DBCreate and DBClose keep every variable within its type.
THEOREM TypeCorrect == Spec => []TypeOK
  BY Inductive, PTL DEF IInv

\* Whatever names, failures, removals and inquiries there are, db_register_file
\* never records a writer beside another opener of the same file.
THEOREM OneWriter == Spec => []ReadersOrWriter
  BY Inductive, PTL DEF IInv

\* db_isregistered_file finds every handle the application has, so no call on
\* an open file is refused: an id that is free means the list has a place.
THEOREM HandlesAreListed == Spec => []HandlesListed
  <1>1. IInv => HandlesListed
    <2>1. SUFFICES ASSUME IInv PROVE HandlesListed
      OBVIOUS
    <2>2. ASSUME NEW f \in held \cup ({inq.f} \ {Nil}) PROVE Registered(f)
      <3>1. f \in Ptr /\ fileid[f] # -1
        BY <2>1 DEF IInv, TypeOK, HeldOpen
      <3>2. PICK i \in Slot : reg[i] # Nil /\ reg[i].f = f
        BY <2>1, <3>1 DEF IInv, HasIdListed
      <3> QED
        BY <3>2 DEF Registered, Entries
    <2> QED
      BY <2>1, <2>2 DEF HandlesListed, IInv, Packed, Distinct
  <1> QED
    BY Inductive, <1>1, PTL

\* db_get_fileid never gives an open file the id of another.
THEOREM IdsAreUnique == Spec => []IdsUnique
  <1>1. IInv => IdsUnique
    <2>1. SUFFICES ASSUME IInv, NEW e \in Entries
                   PROVE  /\ fileid[e.f] \in Slot
                          /\ fstatus[fileid[e.f]]
                          /\ \A d \in Entries : d.f # e.f => fileid[d.f] # fileid[e.f]
      BY DEF IdsUnique
    <2>2. ASSUME NEW d \in Entries PROVE d.f \in Ptr /\ fileid[d.f] \in Slot
      BY <2>1 DEF Entries, IInv, TypeOK, ListedHasId
    <2> QED
      BY <2>1, <2>2, FilesAssumption DEF IInv, OwnIds, Slot
  <1> QED
    BY Inductive, <1>1, PTL

\* The list of open files of silo.c implements the abstract locks.
THEOREM FilesImplementLocks == Spec => ImplementsFileLocks
  <1>1. Init => Locks!Init
    BY DEF Init, Locks!Init, Entries
  <1>2. IInv /\ [Next]_vars => [Locks!Next]_Entries
    BY StepKeeps DEF Allowed
  <1> QED
    BY Inductive, <1>1, <1>2, PTL DEF Spec, ImplementsFileLocks, Locks!Spec

=============================================================================
