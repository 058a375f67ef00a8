--------------------------- MODULE PdbFile_proofs ---------------------------
(***************************************************************************)
(* For every set of names and sizes and every length of the file: entries  *)
(* of the symbol table never share storage, and a file believed flushed    *)
(* has the symbol table on the disk, whatever writes are refused and       *)
(* wherever the process dies.                                              *)
(***************************************************************************)
EXTENDS PdbFile, TLAPS

-----------------------------------------------------------------------------
(* The inductive invariant *)

TableSet == UNION {[D -> [addr : Nat, num : Nat]] : D \in SUBSET Entries}
CellSet == [kind : {"blank", "torn", "chart", "symt", "data"}, of : Entries,
            gen : Nat, tab : TableSet]
Writes  == [at : Int, cell : CellSet]

\* The entries of table t, those in but apart, are disjoint, and end at top.
Apart(t, but) ==
  \A m, n \in DOMAIN t \ but : m # n => Extent(t[m]) \cap Extent(t[n]) = {}
Below(t, top, but) == \A m \in DOMAIN t \ but : t[m].addr + t[m].num <= top
Good(t, top, but) == t \in TableSet /\ Apart(t, but) /\ Below(t, top, but)

\* The entry that has just been installed, at the end of the data.
Making  == op.fn \in {"write", "define"}
Growing == IF Making THEN {op.name} ELSE {}

MemoryOK ==
  /\ symtab \in TableSet /\ chrtaddr \in Nat /\ chrtaddr + 1 <= MaxAddr
  /\ Apart(symtab, failed) /\ Below(symtab, chrtaddr, failed \cup Growing)

Fields == {"fn", "name", "first", "num", "close", "todo"}
CallOK == DOMAIN op = Fields /\ op.name \in Entries /\ op.num \in Nat /\ op.first \in Nat
OpOK ==
  /\ CallOK
  /\ op.fn \in {"none", "write", "again", "define", "flush"}
  /\ Making => /\ op.name \in Known /\ symtab[op.name].addr = chrtaddr
               /\ chrtaddr + symtab[op.name].num + 1 <= MaxAddr
               /\ op.fn = "write" => op.num = symtab[op.name].num

\* A symbol table, on the disk or on its way to it, is as good as the one
\* in memory: its chart is where its data end.
GoodCell(c, a) == c.kind = "symt" => Good(c.tab, a - 1, failed)
DiskOK == disk \in [Addrs -> CellSet] /\ \A a \in Addrs : GoodCell(disk[a], a)
TodoOK ==
  /\ op.todo \in Seq(Writes)
  /\ \A i \in DOMAIN op.todo : GoodCell(op.todo[i].cell, op.todo[i].at)
HeadOK == head = {} \/ \E c \in Nat : c + 1 <= MaxAddr /\ head = {[chrt |-> c, symt |-> c + 1]}

IInv == MemoryOK /\ OpOK /\ DiskOK /\ TodoOK /\ HeadOK /\ writes \in Nat /\ failed \subseteq Entries

LEMMA IdleCall ==
  /\ DOMAIN Idle = Fields /\ Idle.fn = "none" /\ Idle.todo = <<>>
  /\ Idle.name \in Entries /\ Idle.num = 0 /\ Idle.first = 0
BY DEF Idle, Fields, Entries

LEMMA IdleOK ==
  /\ op = Idle => CallOK /\ ~ Making
  /\ op' = Idle => CallOK' /\ ~ Making' /\ op'.fn = "none" /\ op'.todo = <<>>
BY IdleCall DEF CallOK, Making

LEMMA Cells ==
  /\ NoTable \in TableSet
  /\ Blank \in CellSet /\ Torn \in CellSet /\ Chart \in CellSet
  /\ Blank.kind # "symt" /\ Torn.kind # "symt" /\ Chart.kind # "symt"
  /\ \A n \in Entries, g \in Nat : Datum(n, g) \in CellSet /\ Datum(n, g).kind # "symt"
  /\ \A t \in TableSet : /\ Symt(t) \in CellSet
                        /\ Symt(t).kind = "symt" /\ Symt(t).tab = t
<1>1. NoTable \in TableSet
  <2>1. NoTable \in [{} -> [addr : Nat, num : Nat]]
    BY DEF NoTable
  <2>2. {} \in SUBSET Entries
    OBVIOUS
  <2> QED
    BY <2>1, <2>2 DEF TableSet
<1>2. Root \in Entries
  BY DEF Entries
<1> QED
  BY <1>1, <1>2 DEF Blank, Torn, Chart, Datum, Symt, Cell, CellSet

\* An entry whose write was refused is no longer spoken for.
LEMMA Weaker ==
  ASSUME NEW t, NEW top, NEW f, NEW g, f \subseteq g, Good(t, top, f)
  PROVE  Good(t, top, g)
BY DEF Good, Apart, Below

\* A table with an entry for n at the end of the data.
LEMMA Installed ==
  ASSUME IInv, NEW n \in Entries, NEW k \in Nat, n \notin Known, ~ Making, Install(n, k)
  PROVE  /\ symtab' \in TableSet /\ Apart(symtab', failed)
         /\ Below(symtab', chrtaddr, failed \cup {n})
         /\ n \in DOMAIN symtab' /\ symtab'[n].addr = chrtaddr /\ symtab'[n].num = k
<1>1. PICK D \in SUBSET Entries : symtab \in [D -> [addr : Nat, num : Nat]]
  BY DEF IInv, MemoryOK, TableSet
<1>2. symtab' \in [D \cup {n} -> [addr : Nat, num : Nat]]
  BY <1>1 DEF Install, Known, IInv, MemoryOK
<1>3. symtab' \in TableSet
  BY <1>2 DEF TableSet
<1>4. /\ \A m \in D : symtab'[m] = symtab[m]
      /\ symtab'[n] = [addr |-> chrtaddr, num |-> k]
  BY <1>1 DEF Install, Known
<1>5. \A m \in D \ failed : symtab[m].addr + symtab[m].num <= chrtaddr
  BY <1>1 DEF IInv, MemoryOK, Below, Growing
<1>6. \A m \in D \ failed : Extent(symtab[m]) \cap Extent(symtab'[n]) = {}
  BY <1>1, <1>4, <1>5 DEF Extent, IInv, MemoryOK
<1>7. Apart(symtab', failed)
  <2>1. \A m, q \in D \ failed : m # q => Extent(symtab'[m]) \cap Extent(symtab'[q]) = {}
    BY <1>1, <1>4 DEF IInv, MemoryOK, Apart
  <2> QED
    BY <1>2, <1>4, <1>6, <2>1 DEF Apart
<1>8. Below(symtab', chrtaddr, failed \cup {n})
  BY <1>2, <1>4, <1>5 DEF Below
<1> QED
  BY <1>2, <1>3, <1>4, <1>7, <1>8

LEMMA ElementsOK ==
  ASSUME NEW n \in Entries, NEW a \in Nat, NEW first \in Nat, NEW k \in Nat, NEW g \in Nat
  PROVE  /\ Elements(n, a, first, k, g) \in Seq(Writes)
         /\ \A i \in DOMAIN Elements(n, a, first, k, g) :
              Elements(n, a, first, k, g)[i].cell.kind # "symt"
BY Cells DEF Elements, Writes

LEMMA Initially == Init => IInv
<1> SUFFICES ASSUME Init PROVE IInv
  OBVIOUS
<1>1. NoTable \in TableSet /\ DOMAIN NoTable = {} /\ Blank \in CellSet /\ Blank.kind # "symt"
  BY Cells DEF NoTable
<1>2. CallOK /\ op.fn = "none" /\ op.todo = <<>>
  BY IdleCall DEF Init, CallOK
<1>3. MemoryOK
  BY <1>1, SizesAssumption DEF Init, MemoryOK, Apart, Below
<1>4. DiskOK
  BY <1>1 DEF Init, DiskOK, GoodCell
<1> QED
  BY <1>2, <1>3, <1>4 DEF Init, IInv, OpOK, Making, TodoOK, HeadOK

-----------------------------------------------------------------------------
(* What a step leaves alone *)

LEMMA DiskKept ==
  ASSUME IInv, failed \subseteq failed', disk' = disk
  PROVE  DiskOK'
BY Weaker DEF IInv, DiskOK, GoodCell

LEMMA HeadKept == IInv /\ UNCHANGED head => HeadOK'
BY DEF IInv, HeadOK

\* The file is closed.
LEMMA LetsGo ==
  ASSUME LetGo, ~ Making', failed' \subseteq Entries
  PROVE  MemoryOK'
BY Cells, SizesAssumption DEF LetGo, MemoryOK, Apart, Below, NoTable

\* The tables are to be written.
LEMMA FlushOK ==
  ASSUME IInv, op = Idle, op'.todo = Tables, failed' = failed
  PROVE  TodoOK'
<1>1. Good(symtab, chrtaddr, failed)
  BY DEF IInv, MemoryOK, Good, Below, Growing, Making, Idle
<1>2. Symt(symtab) \in CellSet /\ Symt(symtab).tab = symtab /\ Chart \in CellSet /\ Chart.kind # "symt"
  BY <1>1, Cells DEF Good
<1>3. chrtaddr \in Nat
  BY DEF IInv, MemoryOK
<1>4. Tables \in Seq(Writes)
  BY <1>2, <1>3 DEF Tables, Writes
<1>5. /\ DOMAIN Tables = {1, 2} /\ Tables[1].cell = Chart
      /\ Tables[2].cell = Symt(symtab) /\ Tables[2].at = chrtaddr + 1
  BY DEF Tables
<1>6. Good(symtab, Tables[2].at - 1, failed')
  BY <1>1, <1>3, <1>5
<1> QED
  BY <1>2, <1>4, <1>5, <1>6 DEF TodoOK, GoodCell

\* A list of elements is to be written, and no table.
LEMMA DataOK ==
  ASSUME NEW n \in Entries, NEW a \in Nat, NEW first \in Nat, NEW k \in Nat, NEW g \in Nat,
         op'.todo = Elements(n, a, first, k, g)
  PROVE  TodoOK'
BY ZenonT(40), ElementsOK DEF TodoOK, GoodCell

LEMMA NothingToWrite == op'.todo = <<>> => TodoOK'
BY DEF TodoOK

-----------------------------------------------------------------------------
(* The steps *)

LEMMA CreateStep == IInv /\ Create => IInv'
<1> SUFFICES ASSUME IInv, Create PROVE IInv'
  OBVIOUS
<1>1. writes' \in Nat /\ Root \in Entries
  BY DEF Create, IInv, Entries
<1>2. /\ op'.fn = "write" /\ op'.name = Root /\ op'.num = 1
      /\ op'.todo = Elements(Root, 0, 0, 1, writes') /\ CallOK'
  BY DEF Create, Idle, Fields, CallOK, Entries
<1>3. symtab' = [n \in {Root} |-> [addr |-> 0, num |-> 1]] /\ chrtaddr' = 0 /\ failed' = {}
  BY DEF Create
<1>4. symtab' \in TableSet
  <2>1. symtab' \in [{Root} -> [addr : Nat, num : Nat]]
    BY <1>3
  <2> QED
    BY <2>1, <1>1 DEF TableSet
<1>5. MemoryOK'
  BY <1>2, <1>3, <1>4, SizesAssumption DEF MemoryOK, Apart, Below, Growing, Making
<1>6. OpOK'
  BY <1>1, <1>2, <1>3, SizesAssumption DEF OpOK, Making, Known
<1>7. DiskOK'
  BY Cells DEF Create, DiskOK, GoodCell
<1>8. TodoOK'
  BY <1>1, <1>2, DataOK
<1> QED
  BY <1>1, <1>3, <1>5, <1>6, <1>7, <1>8 DEF IInv, Create, HeadOK

LEMMA OpenStep == ASSUME NEW m PROVE IInv /\ Open(m) => IInv'
<1> SUFFICES ASSUME IInv, Open(m) PROVE IInv'
  OBVIOUS
<1>1. PICK c \in Nat : c + 1 <= MaxAddr /\ head = {[chrt |-> c, symt |-> c + 1]}
  BY DEF Open, Readable, IInv, HeadOK
<1>2. OnDisk = disk[c + 1].tab /\ disk[c + 1].kind = "symt" /\ chrtaddr' = c
  BY <1>1 DEF Open, Readable, OnDisk
<1>3. c + 1 \in Addrs
  BY <1>1, SizesAssumption DEF Addrs
<1>4. Good(OnDisk, c, failed)
  BY <1>2, <1>3 DEF IInv, DiskOK, GoodCell
<1>5. op = Idle /\ op' = op /\ failed' = failed /\ symtab' = OnDisk
  BY DEF Open, Quiet
<1>6. op'.fn = "none" /\ op'.todo = <<>>
  BY <1>5, IdleOK
<1>7. MemoryOK'
  BY <1>1, <1>2, <1>4, <1>5, <1>6 DEF MemoryOK, Good, Below, Growing, Making
<1>8. OpOK'
  BY <1>5, <1>6, IdleOK DEF OpOK
<1> QED
  BY <1>5, <1>6, <1>7, <1>8, DiskKept, HeadKept, NothingToWrite DEF IInv, Open, bounds

\* The file and the memory are as they were and no entry is in the making.
LEMMA Still ==
  ASSUME IInv, UNCHANGED <<symtab, chrtaddr>>, failed \subseteq failed', failed' \subseteq Entries,
         op'.fn \in {"none", "again", "flush"}, ~ Making \/ op.name \in failed',
         CallOK'
  PROVE  MemoryOK' /\ OpOK'
<1>1. ~ Making'
  BY DEF Making
<1>2. Below(symtab, chrtaddr, failed')
  BY DEF IInv, MemoryOK, Below, Growing
<1>3. Apart(symtab, failed')
  BY DEF IInv, MemoryOK, Apart
<1> QED
  BY <1>1, <1>2, <1>3 DEF IInv, MemoryOK, OpOK, Below, Growing, Apart

LEMMA FlushStep ==
  ASSUME IInv, Quiet, NEW close, BeginFlush(close),
         UNCHANGED <<disk, head, memory, failed, writes>>
  PROVE  IInv'
<1>1. op'.fn = "flush" /\ op'.todo = Tables /\ op = Idle /\ CallOK'
  BY DEF BeginFlush, Quiet, Idle, Fields, CallOK, Entries
<1>2. ~ Making
  BY <1>1, IdleOK
<1> QED
  BY <1>1, <1>2, FlushOK, Still, DiskKept, HeadKept DEF IInv, memory

LEMMA CloseStep == IInv /\ (Close \/ Flush) => IInv'
<1> SUFFICES ASSUME IInv, Close \/ Flush PROVE IInv'
  OBVIOUS
<1>1. CASE Close /\ ~ MustFlush /\ LetGo /\ UNCHANGED op
  <2>1. op' = Idle /\ op'.fn = "none" /\ op'.todo = <<>>
    BY <1>1, IdleOK DEF Close, Quiet
  <2>2. MemoryOK' /\ OpOK'
    BY <1>1, <2>1, IdleOK, LetsGo DEF Making, OpOK, IInv, Close
  <2> QED
    BY <1>1, <2>1, <2>2, DiskKept, HeadKept, NothingToWrite DEF IInv, Close, bounds
<1>2. CASE Close /\ MustFlush /\ BeginFlush(TRUE) /\ UNCHANGED memory
  BY <1>2, FlushStep DEF Close, bounds
<1>3. CASE Flush
  BY <1>3, FlushStep DEF Flush, bounds
<1> QED
  BY <1>1, <1>2, <1>3 DEF Close

LEMMA FlushFailsStep == IInv /\ FlushFails => IInv'
<1> SUFFICES ASSUME IInv, FlushFails PROVE IInv'
  OBVIOUS
<1>1. /\ op'.fn = "none" /\ op'.todo = <<>> /\ ~ Making /\ ~ Making'
      /\ CallOK'
  BY IdleOK DEF FlushFails, Making
<1>2. MemoryOK' /\ OpOK'
  <2>1. CASE LetGo
    BY <1>1, <2>1, LetsGo DEF OpOK, IInv, FlushFails
  <2>2. CASE UNCHANGED memory
    BY <1>1, <2>2, Still DEF memory, IInv, FlushFails
  <2> QED
    BY <2>1, <2>2 DEF FlushFails
<1> QED
  BY <1>1, <1>2, DiskKept, HeadKept, NothingToWrite DEF IInv, FlushFails

LEMMA WriteHeaderStep == IInv /\ WriteHeader => IInv'
<1> SUFFICES ASSUME IInv, WriteHeader PROVE IInv'
  OBVIOUS
<1>1. /\ op'.fn = "none" /\ op'.todo = <<>> /\ ~ Making /\ ~ Making' /\ failed' = failed
      /\ CallOK'
  BY IdleOK DEF WriteHeader, Making, ghosts
<1>2. MemoryOK' /\ OpOK'
  <2>1. CASE LetGo
    BY <1>1, <2>1, LetsGo DEF OpOK, IInv
  <2>2. CASE UNCHANGED <<symtab, chrtaddr>>
    BY <1>1, <2>2, Still DEF IInv
  <2> QED
    BY <2>1, <2>2 DEF WriteHeader
<1>3. HeadOK'
  BY DEF IInv, MemoryOK, WriteHeader, HeadOK
<1> QED
  BY <1>1, <1>2, <1>3, DiskKept, NothingToWrite DEF IInv, WriteHeader, bounds

LEMMA IdleStep == IInv /\ (OpenDamaged \/ Read) => IInv'
<1> SUFFICES ASSUME IInv, OpenDamaged \/ Read PROVE IInv'
  OBVIOUS
<1>1. op = Idle /\ op' = op /\ UNCHANGED <<symtab, chrtaddr, failed, writes, disk, head>>
  BY DEF OpenDamaged, Read, Quiet, memory, ghosts, bounds
<1>2. /\ op'.fn = "none" /\ op'.todo = <<>> /\ ~ Making
      /\ CallOK'
  BY <1>1, IdleOK DEF Making
<1> QED
  BY <1>1, <1>2, Still, DiskKept, HeadKept, NothingToWrite DEF IInv

LEMMA WriteNewStep ==
  ASSUME NEW n \in Names, NEW k \in Sizes PROVE IInv /\ WriteNew(n, k) => IInv'
<1> SUFFICES ASSUME IInv, WriteNew(n, k) PROVE IInv'
  OBVIOUS
<1>1. n \in Entries /\ k \in Nat /\ writes' \in Nat /\ ~ Making /\ chrtaddr \in Nat
  BY SizesAssumption, IdleOK DEF Entries, WriteNew, Quiet, Making, IInv, MemoryOK
<1>2. /\ symtab' \in TableSet /\ Apart(symtab', failed)
      /\ Below(symtab', chrtaddr, failed \cup {n})
      /\ n \in DOMAIN symtab' /\ symtab'[n].addr = chrtaddr /\ symtab'[n].num = k
  BY <1>1, Installed DEF WriteNew
<1>3. chrtaddr' = chrtaddr /\ chrtaddr + 1 <= MaxAddr /\ chrtaddr + k + 1 <= MaxAddr
  BY DEF WriteNew, IInv, MemoryOK
<1>4. CASE /\ op' = [Idle EXCEPT !.fn = "write", !.name = n, !.num = k,
                              !.todo = Elements(n, chrtaddr, 0, k, writes')]
           /\ UNCHANGED <<failed, faults>>
  <2>1. /\ op'.fn = "write" /\ op'.name = n /\ op'.num = k /\ CallOK'
        /\ op'.todo = Elements(n, chrtaddr, 0, k, writes')
    BY <1>1, <1>4 DEF Idle, Fields, CallOK
  <2>2. MemoryOK' /\ OpOK'
    BY <1>1, <1>2, <1>3, <1>4, <2>1 DEF MemoryOK, OpOK, Making, Growing, Known
  <2>3. TodoOK'
    BY <1>1, <2>1, DataOK
  <2> QED
    BY <1>1, <1>4, <2>2, <2>3, DiskKept, HeadKept DEF IInv, WriteNew
<1>5. CASE failed' = failed \cup {n} /\ UNCHANGED op
  <2>1. op' = Idle /\ op'.fn = "none" /\ op'.todo = <<>>
    BY <1>5, IdleOK DEF WriteNew, Quiet
  <2>2. MemoryOK' /\ OpOK'
    BY <1>1, IdleOK, <1>2, <1>3, <1>5, <2>1 DEF MemoryOK, OpOK, Making, Growing, Apart, Below
  <2>3. TodoOK' /\ failed \subseteq failed' /\ failed' \subseteq Entries
    BY <2>1, <1>1, <1>5, NothingToWrite DEF IInv
  <2> QED
    BY <1>1, <2>2, <2>3, DiskKept, HeadKept DEF IInv, WriteNew
<1> QED
  BY <1>4, <1>5 DEF WriteNew

LEMMA AgainStep ==
  ASSUME IInv, Quiet, NEW n \in Entries, NEW first \in Nat, NEW num \in Nat,
         n \in Known, writes' \in Nat,
         UNCHANGED <<disk, head, symtab, chrtaddr, failed>>,
         op' = [Idle EXCEPT !.fn = "again", !.name = n, !.first = first, !.num = num,
                            !.todo = Elements(n, symtab[n].addr, first, num, writes')]
  PROVE  IInv'
<1>1. /\ op'.fn = "again" /\ CallOK'
      /\ op'.todo = Elements(n, symtab[n].addr, first, num, writes')
  BY DEF Idle, Fields, CallOK
<1>2. ~ Making
  BY IdleOK DEF Quiet
<1>3. symtab[n].addr \in Nat
  BY DEF IInv, MemoryOK, TableSet, Known
<1>4. TodoOK'
  BY <1>1, <1>3, DataOK
<1> QED
  BY <1>1, <1>2, <1>4, Still, DiskKept, HeadKept DEF IInv

LEMMA WriteAgainStep ==
  ASSUME NEW n \in Names, NEW k \in Sizes PROVE IInv /\ WriteAgain(n, k) => IInv'
<1> SUFFICES ASSUME IInv, WriteAgain(n, k) PROVE IInv'
  OBVIOUS
<1>1. n \in Entries /\ k \in Nat /\ writes' \in Nat /\ n \in Known /\ Quiet
  BY SizesAssumption DEF Entries, WriteAgain, IInv
<1>2. UNCHANGED <<disk, head, symtab, chrtaddr, failed>>
  BY DEF WriteAgain, ghosts
<1>3. CASE Fits(n, k)
  <2>1. op' = [Idle EXCEPT !.fn = "again", !.name = n, !.first = 0, !.num = k,
                           !.todo = Elements(n, symtab[n].addr, 0, k, writes')]
    BY ZenonT(40), <1>3 DEF WriteAgain, Idle
  <2> QED
    BY <1>1, <1>2, <2>1, AgainStep
<1>4. CASE ~ Fits(n, k)
  <2>1. op' = Idle /\ op = Idle
    BY <1>4 DEF WriteAgain, Quiet
  <2> QED
    BY <1>1, <1>2, <2>1, IdleOK, Still, DiskKept, HeadKept, NothingToWrite DEF IInv, Making
<1> QED
  BY <1>3, <1>4

LEMMA SliceAgainStep ==
  ASSUME NEW n \in Names, NEW k \in Sizes, NEW first \in Nat, NEW num \in Sizes
  PROVE  IInv /\ SliceAgain(n, k, first, num) => IInv'
<1> SUFFICES ASSUME IInv, SliceAgain(n, k, first, num) PROVE IInv'
  OBVIOUS
<1>1. n \in Entries /\ num \in Nat /\ writes' \in Nat /\ n \in Known /\ Quiet
  BY SizesAssumption DEF Entries, SliceAgain, IInv
<1> QED
  BY <1>1, AgainStep DEF SliceAgain, ghosts

LEMMA SliceNewStep ==
  ASSUME NEW n \in Names, NEW k \in Sizes, NEW first \in Nat, NEW num \in Sizes
  PROVE  IInv /\ SliceNew(n, k, first, num) => IInv'
<1> SUFFICES ASSUME IInv, SliceNew(n, k, first, num) PROVE IInv'
  OBVIOUS
<1>1. /\ n \in Entries /\ k \in Nat /\ num \in Nat /\ writes' \in Nat /\ ~ Making
      /\ chrtaddr \in Nat
  BY SizesAssumption, IdleOK DEF Entries, SliceNew, Quiet, Making, IInv, MemoryOK
<1>2. /\ symtab' \in TableSet /\ Apart(symtab', failed)
      /\ Below(symtab', chrtaddr, failed \cup {n})
      /\ n \in DOMAIN symtab' /\ symtab'[n].addr = chrtaddr /\ symtab'[n].num = k
  BY <1>1, Installed DEF SliceNew
<1>3. /\ op'.fn = "define" /\ op'.name = n /\ CallOK'
      /\ op'.todo = << [at |-> chrtaddr + k, cell |-> Torn] >>
  BY <1>1 DEF SliceNew, Idle, Fields, CallOK
<1>4. /\ chrtaddr' = chrtaddr /\ failed' = failed
      /\ chrtaddr + 1 <= MaxAddr /\ chrtaddr + k + 1 <= MaxAddr
  BY DEF SliceNew, ghosts, IInv, MemoryOK
<1>5. MemoryOK' /\ OpOK'
  BY <1>1, <1>2, <1>3, <1>4 DEF MemoryOK, OpOK, Making, Growing, Known
<1>6. TodoOK'
  BY <1>1, <1>3, Cells DEF TodoOK, GoodCell, Writes
<1> QED
  BY <1>1, <1>4, <1>5, <1>6, DiskKept, HeadKept DEF IInv, SliceNew

LEMMA SliceDefinedStep == IInv /\ SliceDefined => IInv'
<1> SUFFICES ASSUME IInv, SliceDefined PROVE IInv'
  OBVIOUS
<1>1. Making /\ op.name \in Known /\ symtab[op.name].num \in Nat /\ op.name \in Entries
  BY DEF SliceDefined, Making, IInv, OpOK, CallOK, MemoryOK, TableSet, Known
<1>2. /\ UNCHANGED <<disk, head, symtab, failed, writes>>
      /\ chrtaddr' = chrtaddr + symtab[op.name].num
  BY DEF SliceDefined, bounds
<1>3. CallOK' /\ op'.fn \in {"none", "again"} /\ TodoOK'
  <2>1. CASE op' = Idle
    BY <2>1, IdleOK, NothingToWrite
  <2>2. CASE BeginSlice(op.name, op.first, op.num)
    <3>1. op' = [Idle EXCEPT !.fn = "again", !.name = op.name, !.first = op.first,
                             !.num = op.num,
                             !.todo = Elements(op.name, symtab[op.name].addr, op.first, op.num, writes)]
      BY <2>2 DEF BeginSlice
    <3>2. /\ CallOK' /\ op'.fn = "again"
          /\ op'.todo = Elements(op.name, symtab[op.name].addr, op.first, op.num, writes)
      BY <3>1 DEF Idle, Fields, CallOK, IInv, OpOK
    <3>3. symtab[op.name].addr \in Nat /\ op.first \in Nat
      BY <1>1 DEF IInv, OpOK, CallOK, MemoryOK, TableSet, Known
    <3> QED
      BY <1>1, <3>2, <3>3, DataOK DEF IInv, OpOK, CallOK
  <2> QED
    BY <2>1, <2>2 DEF SliceDefined
<1>4. MemoryOK'
  <2>1. Below(symtab, chrtaddr', failed)
    BY <1>1, <1>2 DEF IInv, MemoryOK, OpOK, Below, Growing, Making, TableSet
  <2> QED
    BY <1>1, <1>2, <1>3, <2>1 DEF IInv, MemoryOK, OpOK, Apart, Below, Growing, Making
<1>5. OpOK'
  BY <1>3 DEF OpOK, Making
<1> QED
  BY <1>2, <1>3, <1>4, <1>5, DiskKept, HeadKept DEF IInv

LEMMA FinishStep == IInv /\ Finish => IInv'
<1> SUFFICES ASSUME IInv, Finish PROVE IInv'
  OBVIOUS
<1>1. UNCHANGED <<disk, head, symtab, failed, writes>> /\ op' = Idle
  BY DEF Finish, bounds
<1>2. CallOK' /\ op'.fn = "none" /\ ~ Making' /\ TodoOK'
  BY <1>1, IdleOK, NothingToWrite
<1>3. MemoryOK'
  <2>1. CASE op.fn = "write"
    <3>1. chrtaddr' = chrtaddr + symtab[op.name].num /\ symtab[op.name].num \in Nat
      BY <2>1 DEF Finish, EndOfData, IInv, OpOK, Making, MemoryOK, TableSet, Known
    <3>2. Below(symtab, chrtaddr', failed)
      BY <2>1, <3>1 DEF IInv, MemoryOK, OpOK, Below, Growing, Making, TableSet, Known
    <3> QED
      BY <1>1, <1>2, <2>1, <3>1, <3>2 DEF IInv, MemoryOK, OpOK, Apart, Below, Growing, Making
  <2>2. CASE op.fn = "again"
    <3>1. chrtaddr' = chrtaddr /\ ~ Making
      BY <2>2 DEF Finish, EndOfData, Making
    <3> QED
      BY <1>1, <1>2, <3>1, Still DEF IInv
  <2> QED
    BY <2>1, <2>2 DEF Finish
<1>4. OpOK'
  BY <1>2 DEF OpOK
<1> QED
  BY <1>1, <1>2, <1>3, <1>4, DiskKept, HeadKept DEF IInv

\* A cell of the list reaches the disk, or something that is no table.
LEMMA CellWritten ==
  ASSUME IInv, op.todo # <<>>, failed \subseteq failed',
         \/ disk' = disk
         \/ disk' = [disk EXCEPT ![Head(op.todo).at] = Head(op.todo).cell]
         \/ disk' = [disk EXCEPT ![Head(op.todo).at] = Torn]
  PROVE  DiskOK'
<1>1. Head(op.todo) \in Writes /\ GoodCell(Head(op.todo).cell, Head(op.todo).at)
  BY DEF IInv, TodoOK
<1>2. Torn \in CellSet /\ Torn.kind # "symt"
  BY Cells
<1>3. ASSUME NEW c \in CellSet, NEW at, GoodCell(c, at), disk' = [disk EXCEPT ![at] = c]
      PROVE  DiskOK'
  BY <1>3, Weaker DEF IInv, DiskOK, GoodCell
<1>4. GoodCell(Torn, Head(op.todo).at)
  BY <1>2 DEF GoodCell
<1> QED
  BY <1>1, <1>2, <1>3, <1>4, DiskKept DEF Writes

\* The rest of the list.
LEMMA RestOfList ==
  ASSUME IInv, op.todo # <<>>, op' = [op EXCEPT !.todo = Tail(@)], failed' = failed
  PROVE  /\ TodoOK' /\ CallOK' /\ op'.fn = op.fn /\ op'.name = op.name /\ op'.num = op.num
         /\ Making' = Making /\ Growing' = Growing
<1>1. /\ CallOK' /\ op'.todo = Tail(op.todo) /\ op'.fn = op.fn /\ op'.name = op.name
      /\ op'.num = op.num
  BY DEF IInv, OpOK, CallOK, Fields
<1>2. TodoOK'
  <2>1. op'.todo \in Seq(Writes)
    BY <1>1 DEF IInv, TodoOK
  <2>2. \A i \in DOMAIN op'.todo : i + 1 \in DOMAIN op.todo /\ op'.todo[i] = op.todo[i + 1]
    BY <1>1 DEF IInv, TodoOK
  <2>3. \A i \in DOMAIN op'.todo : GoodCell(op'.todo[i].cell, op'.todo[i].at)
    BY <2>2 DEF IInv, TodoOK
  <2> QED
    BY <2>1, <2>3 DEF TodoOK, GoodCell
<1> QED
  BY <1>1, <1>2 DEF Making, Growing

LEMMA ListGoesOn ==
  ASSUME IInv, op.todo # <<>>, op' = [op EXCEPT !.todo = Tail(@)],
         UNCHANGED <<head, symtab, chrtaddr, failed, writes>>,
         \/ disk' = disk
         \/ disk' = [disk EXCEPT ![Head(op.todo).at] = Head(op.todo).cell]
         \/ disk' = [disk EXCEPT ![Head(op.todo).at] = Torn]
  PROVE  IInv'
<1>1. /\ TodoOK' /\ CallOK' /\ op'.fn = op.fn /\ op'.name = op.name /\ op'.num = op.num
      /\ Making' = Making /\ Growing' = Growing
  BY RestOfList
<1>2. MemoryOK' /\ OpOK'
  BY <1>1 DEF IInv, MemoryOK, OpOK, Apart, Below, Known
<1> QED
  BY <1>1, <1>2, CellWritten, HeadKept DEF IInv

LEMMA IoStep == IInv /\ Io => IInv'
BY ListGoesOn DEF Io, memory, ghosts, bounds

LEMMA IoFailsStep == IInv /\ IoFails => IInv'
<1> SUFFICES ASSUME IInv, IoFails PROVE IInv'
  OBVIOUS
<1>1. UNCHANGED <<head, symtab, chrtaddr, writes>> /\ op.todo # <<>>
  BY DEF IoFails, memory
<1>2. CASE op.fn = "flush"
  BY <1>1, <1>2, ListGoesOn DEF IoFails, Refused
<1>3. CASE op' = Idle /\ failed' = failed \cup {op.name}
  <2>1. failed \subseteq failed' /\ failed' \subseteq Entries /\ op.name \in failed'
    BY <1>3 DEF IInv, OpOK, CallOK
  <2>2. MemoryOK' /\ OpOK'
    BY <1>1, <1>3, <2>1, IdleOK, Still
  <2> QED
    BY <1>1, <1>3, <2>1, <2>2, IdleOK, CellWritten, HeadKept, NothingToWrite
    DEF IInv, IoFails, Refused
<1> QED
  BY <1>2, <1>3 DEF IoFails

LEMMA CrashStep == IInv /\ Crash => IInv'
<1> SUFFICES ASSUME IInv, Crash PROVE IInv'
  OBVIOUS
<1>1. UNCHANGED <<head, failed, writes>> /\ op' = Idle
  BY DEF Crash, bounds
<1>2. MemoryOK' /\ OpOK'
  BY <1>1, IdleOK, LetsGo DEF Crash, OpOK, IInv
<1>3. DiskOK'
  BY <1>1, DiskKept, CellWritten DEF Crash, Refused
<1> QED
  BY <1>1, <1>2, <1>3, IdleOK, HeadKept, NothingToWrite DEF IInv

LEMMA Inductive == IInv /\ [Next]_pvars => IInv'
<1> SUFFICES ASSUME IInv, [Next]_pvars PROVE IInv'
  OBVIOUS
<1>1. CASE UNCHANGED pvars
  <2>1. UNCHANGED <<disk, head, symtab, chrtaddr, op, failed, writes>>
    BY <1>1 DEF pvars, memory, ghosts, bounds
  <2> QED
    BY ZenonT(40), <2>1 DEF IInv, MemoryOK, OpOK, CallOK, DiskOK, TodoOK, HeadOK, GoodCell, Apart, Below, Good,
                Making, Growing, Known
<1>2. CASE Create \/ Finish \/ SliceDefined \/ Io \/ IoFails \/ Crash \/ WriteHeader \/ FlushFails
  BY <1>2, CreateStep, FinishStep, SliceDefinedStep, IoStep, IoFailsStep, CrashStep,
     WriteHeaderStep, FlushFailsStep
<1>3. CASE OpenDamaged \/ Read \/ Close \/ Flush
  BY <1>3, IdleStep, CloseStep
<1>4. ASSUME NEW m, Open(m) PROVE IInv'
  BY <1>4, OpenStep
<1>5. ASSUME NEW n \in Names, NEW k \in Sizes, WriteNew(n, k) \/ WriteAgain(n, k) PROVE IInv'
  BY <1>5, WriteNewStep, WriteAgainStep
<1>6. ASSUME NEW n \in Names, NEW k \in Sizes, NEW first \in 0..(k - 1), NEW num \in Sizes,
             SliceNew(n, k, first, num) \/ SliceAgain(n, k, first, num)
      PROVE  IInv'
  <2>1. first \in Nat
    BY SizesAssumption
  <2> QED
    BY <1>6, <2>1, SliceNewStep, SliceAgainStep
<1> QED
  BY <1>1, <1>2, <1>3, <1>4, <1>5, <1>6 DEF Next

LEMMA Disjoint == IInv => StorageDisjoint
<1> SUFFICES ASSUME IInv PROVE StorageDisjoint
  OBVIOUS
<1>1. Apart(symtab, failed)
  BY DEF IInv, MemoryOK
<1>2. \A m \in Known \ failed : symtab[m].addr + symtab[m].num <= chrtaddr
                                 \/ (Making /\ m = op.name)
  BY DEF IInv, MemoryOK, Below, Growing, Known
<1> QED
  BY <1>1, <1>2 DEF StorageDisjoint, Apart, Making, Known

(* Two entries of the symbol table never share storage, unless the data of *)
(* one of them could not be written, and all but the one being written end *)
(* below chrtaddr, where _PD_write and lite_PD_flush put what comes next.  *)
THEOREM StorageIsDisjoint == Spec => []StorageDisjoint
<1>1. Spec => []IInv
  BY Initially, Inductive, PTL DEF Spec
<1> QED
  BY <1>1, Disjoint, PTL

-----------------------------------------------------------------------------
(* The flushed flag *)

\* Nothing sets the flag but the end of a flush, and every write clears it.
FlagOK == /\ op.fn = "none" => op = Idle
          /\ flushed => op.fn \in {"none", "define"}

\* How far a flush has come.
Charted == chrtaddr \in Addrs /\ chrtaddr + 1 \in Addrs /\ disk[chrtaddr] = Chart
FlushOnItsWay ==
  op.fn = "flush" /\ ~ torn =>
    \/ op.todo = Tables
    \/ op.todo = Tail(Tables) /\ Charted
    \/ op.todo = <<>> /\ Charted /\ disk[chrtaddr + 1] = Symt(symtab)

FInv == IInv /\ FlagOK /\ FlushOnItsWay /\ FlushedIsOnDisk

LEMMA FlushedInitially == Init => FInv
BY Initially, IdleCall DEF Init, FInv, FlagOK, FlushOnItsWay, FlushedIsOnDisk, Opened

LEMMA Pair ==
  ASSUME NEW x, NEW y
  PROVE  /\ <<x, y>> # <<>> /\ Head(<<x, y>>) = x /\ Tail(<<x, y>>) = <<y>>
         /\ <<y>> # <<>> /\ Head(<<y>>) = y /\ Tail(<<y>>) = <<>>
OBVIOUS

LEMMA TableList ==
  /\ Tables # <<>> /\ Head(Tables).at = chrtaddr /\ Head(Tables).cell = Chart
  /\ Tail(Tables) # <<>> /\ Head(Tail(Tables)).at = chrtaddr + 1
  /\ Head(Tail(Tables)).cell = Symt(symtab) /\ Tail(Tail(Tables)) = <<>>
BY Pair DEF Tables

\* A step that lets go of the file, or after which an entry is in doubt.
LEMMA InDoubt ==
  ASSUME IInv', ~ flushed', op'.fn # "flush" \/ torn', op'.fn = "none" => op' = Idle
  PROVE  FInv'
BY DEF FInv, FlagOK, FlushOnItsWay, FlushedIsOnDisk

LEMMA BeginsFlush ==
  ASSUME FInv, IInv', NEW close, BeginFlush(close), ~ flushed, UNCHANGED memory
  PROVE  FInv'
<1>1. op'.fn = "flush" /\ op'.todo = Tables /\ op' # Idle /\ ~ flushed'
  <2>1. op'.fn = "flush" /\ op'.todo = Tables
    BY DEF BeginFlush, Idle
  <2> QED
    BY <2>1, IdleCall DEF memory
<1>2. Tables' = Tables
  BY DEF Tables, memory
<1> QED
  BY <1>1, <1>2 DEF FInv, FlagOK, FlushOnItsWay, FlushedIsOnDisk

LEMMA FlushIo ==
  ASSUME FInv, Io, IInv'
  PROVE  FInv'
<1>1. op'.todo = Tail(op.todo) /\ op'.fn = op.fn
  BY RestOfList DEF Io, FInv, ghosts
<1>2. UNCHANGED <<symtab, chrtaddr, torn, flushed>> /\ Tables' = Tables
  BY DEF Io, memory, ghosts, Tables
<1>3. op.fn # "none" /\ op' # Idle
  BY <1>1, IdleCall DEF Io, FInv, FlagOK
<1>4. FlagOK' /\ FlushedIsOnDisk'
  BY <1>1, <1>2, <1>3 DEF FInv, FlagOK, FlushedIsOnDisk
<1>5. DOMAIN disk = Addrs /\ chrtaddr \in Addrs /\ chrtaddr + 1 \in Addrs
  BY SizesAssumption DEF FInv, IInv, DiskOK, MemoryOK, Addrs
<1>6. ASSUME op.fn = "flush", ~ torn PROVE FlushOnItsWay'
  <2>1. CASE op.todo = Tables
    <3>1. disk' = [disk EXCEPT ![chrtaddr] = Chart] /\ op'.todo = Tail(Tables)
      BY <1>1, <2>1, TableList DEF Io
    <3> QED
      BY <3>1, <1>2, <1>5 DEF FlushOnItsWay, Charted
  <2>2. CASE op.todo = Tail(Tables) /\ Charted
    <3>1. /\ Head(op.todo).at = chrtaddr + 1 /\ Head(op.todo).cell = Symt(symtab)
          /\ op'.todo = <<>>
      BY <1>1, <2>2, TableList
    <3>2. disk' = [disk EXCEPT ![chrtaddr + 1] = Symt(symtab)]
      BY <3>1 DEF Io
    <3>3. chrtaddr # chrtaddr + 1
      BY <1>5 DEF Addrs
    <3>4. disk'[chrtaddr] = Chart /\ disk'[chrtaddr + 1] = Symt(symtab)
      BY <2>2, <3>2, <3>3, <1>5 DEF Charted
    <3>5. Symt(symtab)' = Symt(symtab)
      BY <1>2 DEF Symt, Cell
    <3> QED
      BY <3>1, <3>4, <3>5, <1>2, <1>5 DEF FlushOnItsWay, Charted
  <2> QED
    BY <1>6, <2>1, <2>2 DEF Io, FInv, FlushOnItsWay
<1> QED
  BY <1>1, <1>2, <1>4, <1>6 DEF FInv, FlushOnItsWay

LEMMA FlushedNow ==
  ASSUME FInv, WriteHeader, ~ torn
  PROVE  Readable' /\ OnDisk' = symtab
<1>1. op.fn = "flush" /\ op.todo = <<>> /\ head' = {[chrt |-> chrtaddr, symt |-> chrtaddr + 1]}
  BY DEF WriteHeader
<1>2. \/ op.todo = Tables
      \/ op.todo = Tail(Tables) /\ Charted
      \/ op.todo = <<>> /\ Charted /\ disk[chrtaddr + 1] = Symt(symtab)
  BY <1>1 DEF FInv, FlushOnItsWay
<1>3. disk[chrtaddr] = Chart /\ disk[chrtaddr + 1] = Symt(symtab) /\ disk' = disk
  BY <1>1, <1>2, TableList DEF Charted, WriteHeader
<1>4. /\ disk'[chrtaddr].kind = "chart" /\ disk'[chrtaddr + 1].kind = "symt"
      /\ disk'[chrtaddr + 1].tab = symtab
  BY <1>3 DEF Chart, Symt, Cell
<1>5. (CHOOSE x \in head' : TRUE) = [chrt |-> chrtaddr, symt |-> chrtaddr + 1]
  BY <1>1
<1> QED
  BY <1>1, <1>4, <1>5 DEF Readable, OnDisk

LEMMA FlushEnds ==
  ASSUME FInv, WriteHeader, IInv'
  PROVE  FInv'
<1>1. op' = Idle /\ op'.fn = "none" /\ UNCHANGED <<disk, torn, unsaid, failed>>
  BY IdleCall DEF WriteHeader, ghosts
<1>2. CASE LetGo
  BY <1>1, <1>2, InDoubt DEF LetGo
<1>3. CASE ~ torn /\ UNCHANGED <<mode, symtab, chrtaddr>>
  BY <1>1, <1>3, FlushedNow DEF FInv, FlagOK, FlushOnItsWay, FlushedIsOnDisk
<1>4. CASE torn
  BY <1>1, <1>4 DEF FInv, FlagOK, FlushOnItsWay, FlushedIsOnDisk
<1> QED
  BY <1>2, <1>3, <1>4 DEF WriteHeader

LEMMA FlagInductive == FInv /\ [Next]_pvars => FInv'
<1> SUFFICES ASSUME FInv, [Next]_pvars PROVE FInv'
  OBVIOUS
<1>i. IInv /\ IInv'
  BY Inductive DEF FInv
<1>1. CASE UNCHANGED pvars
  <2>1. /\ UNCHANGED <<disk, head, mode, symtab, chrtaddr, flushed, op, failed, unsaid, torn>>
        /\ Tables' = Tables /\ Symt(symtab)' = Symt(symtab)
    BY <1>1 DEF pvars, memory, ghosts, Tables, Symt, Cell
  <2> QED
    BY <1>i, <2>1 DEF FInv, FlagOK, FlushOnItsWay, Charted, FlushedIsOnDisk, Readable, OnDisk, Opened
<1>2. CASE Create
  <2>1. ~ flushed' /\ op'.fn = "write"
    BY <1>2 DEF Create, Idle
  <2> QED
    BY <1>i, <2>1, InDoubt
<1>3. ASSUME NEW m, Open(m) PROVE FInv'
  BY <1>i, <1>3, IdleCall, InDoubt DEF Open, Quiet
<1>4. CASE OpenDamaged
  BY <1>i, <1>4, IdleCall, InDoubt
  DEF OpenDamaged, Quiet, memory, FInv, FlagOK, FlushOnItsWay, FlushedIsOnDisk, Opened, ghosts
<1>5. CASE Close
  <2>1. CASE LetGo /\ UNCHANGED op
    BY <1>i, <1>5, <2>1, IdleCall, InDoubt DEF Close, Quiet, LetGo
  <2>2. CASE MustFlush /\ BeginFlush(TRUE) /\ UNCHANGED memory
    BY <1>i, <2>2, BeginsFlush DEF MustFlush
  <2> QED
    BY <1>5, <2>1, <2>2 DEF Close
<1>6. CASE Flush
  BY <1>i, <1>6, BeginsFlush DEF Flush
<1>7. CASE FlushFails
  <2>1. ~ flushed' /\ op' = Idle
    BY <1>7 DEF FlushFails, LetGo, memory, FInv, FlagOK
  <2> QED
    BY <1>i, <2>1, IdleCall, InDoubt
<1>8. CASE WriteHeader
  BY <1>i, <1>8, FlushEnds
<1>9. CASE Read
  BY <1>i, <1>9, IdleCall, InDoubt DEF Read, Quiet
<1>10. ASSUME NEW n \in Names, NEW k \in Sizes, WriteNew(n, k) PROVE FInv'
  <2>1. CASE /\ OutOfDate
             /\ op' = [Idle EXCEPT !.fn = "write", !.name = n, !.num = k,
                                   !.todo = Elements(n, chrtaddr, 0, k, writes')]
    <3>1. op'.fn = "write"
      BY <2>1 DEF Idle
    <3> QED
      BY <1>i, <2>1, <3>1, InDoubt DEF OutOfDate
  <2>2. CASE failed' # {} /\ UNCHANGED <<flushed, op>>
    BY <1>i, <1>10, <2>2, IdleCall DEF WriteNew, Quiet, FInv, FlagOK, FlushOnItsWay, FlushedIsOnDisk
  <2> QED
    BY <1>10, <2>1, <2>2 DEF WriteNew
<1>11. ASSUME NEW n \in Names, NEW k \in Sizes, WriteAgain(n, k) PROVE FInv'
  <2>1. CASE Fits(n, k)
    <3>1. op'.fn = "again" /\ ~ flushed'
      BY <1>11, <2>1 DEF WriteAgain, OutOfDate, Idle
    <3> QED
      BY <1>i, <3>1, InDoubt
  <2>2. CASE ~ Fits(n, k)
    <3>1. /\ op' = Idle /\ op = Idle
          /\ UNCHANGED <<disk, head, mode, symtab, flushed, failed, unsaid, torn>>
      BY <1>11, <2>2 DEF WriteAgain, Quiet, ghosts
    <3> QED
      BY <1>i, <3>1, IdleCall DEF FInv, FlagOK, FlushOnItsWay, FlushedIsOnDisk, Readable, OnDisk, Opened
  <2> QED
    BY <2>1, <2>2
<1>12. ASSUME NEW n \in Names, NEW k \in Sizes, NEW first \in 0..(k - 1), NEW num \in Sizes,
              SliceNew(n, k, first, num)
       PROVE  FInv'
  <2>1. op'.fn = "define" /\ op' # Idle
    <3>1. op'.fn = "define"
      BY <1>12 DEF SliceNew, Idle
    <3> QED
      BY <3>1, IdleCall
  <2> QED
    BY <1>i, <2>1 DEF FInv, FlagOK, FlushOnItsWay, FlushedIsOnDisk
<1>13. ASSUME NEW n \in Names, NEW k \in Sizes, NEW first \in 0..(k - 1), NEW num \in Sizes,
              SliceAgain(n, k, first, num)
       PROVE  FInv'
  <2>1. op'.fn = "again" /\ ~ flushed'
    BY <1>13 DEF SliceAgain, OutOfDate, Idle
  <2> QED
    BY <1>i, <2>1, InDoubt
<1>14. CASE SliceDefined
  <2>1. CASE OutOfDate /\ BeginSlice(op.name, op.first, op.num)
    <3>1. op'.fn = "again" /\ ~ flushed'
      BY <2>1 DEF BeginSlice, OutOfDate, Idle
    <3> QED
      BY <1>i, <3>1, InDoubt
  <2>2. CASE op' = Idle /\ unsaid' = TRUE
    BY <1>i, <2>2, IdleCall DEF FInv, FlagOK, FlushOnItsWay, FlushedIsOnDisk
  <2> QED
    BY <1>14, <2>1, <2>2 DEF SliceDefined
<1>15. CASE Finish
  <2>1. ~ flushed' /\ op' = Idle
    BY <1>15 DEF Finish, FInv, FlagOK
  <2> QED
    BY <1>i, <2>1, IdleCall, InDoubt
<1>16. CASE Io
  BY <1>i, <1>16, FlushIo
<1>17. CASE IoFails
  <2>1. CASE op.fn = "flush"
    <3>1. op'.fn = "flush" /\ torn' /\ UNCHANGED flushed
      BY <1>i, <1>17, <2>1, RestOfList DEF IoFails, memory
    <3>2. ~ flushed'
      BY <2>1, <3>1 DEF FInv, FlagOK
    <3> QED
      BY <1>i, <3>1, <3>2, InDoubt
  <2>2. CASE op' = Idle /\ failed' # {}
    BY <1>i, <2>2, IdleCall DEF FInv, FlagOK, FlushOnItsWay, FlushedIsOnDisk
  <2> QED
    BY <1>17, <2>1, <2>2 DEF IoFails
<1>18. CASE Crash
  BY <1>i, <1>18, IdleCall, InDoubt DEF Crash, LetGo
<1> QED
  BY <1>1, <1>2, <1>3, <1>4, <1>5, <1>6, <1>7, <1>8, <1>9, <1>10, <1>11, <1>12, <1>13, <1>14,
     <1>15, <1>16, <1>17, <1>18 DEF Next

(* While the library believes the file flushed, a reader finds in it the   *)
(* symbol table that is in memory.                                         *)
THEOREM FlushedMeansOnDisk == Spec => []FlushedIsOnDisk
<1>1. Spec => []FInv
  BY FlushedInitially, FlagInductive, PTL DEF Spec
<1> QED
  BY <1>1, PTL DEF FInv

-----------------------------------------------------------------------------
(* The data *)

\* No entry is in doubt.
Sound == failed = {} /\ ~ wild

Handling == op.fn \in {"write", "again"}
Range == op.first .. (op.first + op.num - 1)
InHand(n, i) == Handling /\ n = op.name /\ i \in Range

\* What the history says was written is of entries of table t, and there.
Within(t) ==
  \A n \in DOMAIN wrote :
    n \in DOMAIN t /\ \A i \in DOMAIN wrote[n] : i \in 0 .. (t[n].num - 1) /\ wrote[n][i] \in Nat
Holds(t, n, i) == wrote[n][i] > 0 => disk[t[n].addr + i] = Datum(n, wrote[n][i])
Intact(t) == \A n \in DOMAIN wrote : \A i \in DOMAIN wrote[n] : Holds(t, n, i)
IntactBut(t) ==
  \A n \in DOMAIN wrote : \A i \in DOMAIN wrote[n] : InHand(n, i) \/ Holds(t, n, i)

OpenOK == Opened => Within(symtab) /\ IntactBut(symtab)
ClosedOK ==
  ~ Opened => /\ op = Idle /\ Known = {}
              /\ ~ crashed /\ writes > 0 /\ ~ torn /\ ~ unsaid =>
                   Readable /\ Within(OnDisk) /\ Intact(OnDisk)
ReadingOK ==
  mode = "PD_OPEN" =>
    /\ op.fn \in {"none", "flush"}
    /\ op = Idle /\ ~ torn /\ ~ unsaid => Readable /\ OnDisk = symtab
Started == /\ mode \in {"closed", "PD_CREATE", "PD_APPEND", "PD_OPEN"}
           /\ Opened \/ head # {} => writes > 0

\* The elements in hand are on the disk or in the list, and in their place.
Place == symtab[op.name].addr
DataOnTheirWay ==
  Handling =>
    /\ op.name \in Known /\ op.first + op.num <= symtab[op.name].num
    /\ op.fn = "write" => op.first = 0 /\ op.name \notin DOMAIN wrote
    /\ \A j \in Range : \/ disk[Place + j] = Datum(op.name, writes)
                         \/ \E i \in DOMAIN op.todo : op.todo[i].at = Place + j
    /\ \A i \in DOMAIN op.todo : /\ op.todo[i].at - Place \in Range
                                 /\ op.todo[i].cell = Datum(op.name, writes)

\* What else is in the list goes past the data.
RestPastData ==
  /\ op.fn \in {"define", "flush"} => \A i \in DOMAIN op.todo : op.todo[i].at >= chrtaddr
  /\ op.fn = "define" => op.name \notin DOMAIN wrote
  /\ op.fn = "none" => op = Idle

Data == OpenOK /\ ClosedOK /\ ReadingOK /\ Started /\ DataOnTheirWay /\ RestPastData
SInv == FInv /\ (Sound => Data)

LEMMA NothingKnown == (symtab = NoTable => Known = {}) /\ (symtab' = NoTable => Known' = {})
BY DEF Known, NoTable

LEMMA SoundInitially == Init => SInv
BY FlushedInitially, IdleCall, NothingKnown
DEF Init, SInv, Data, OpenOK, ClosedOK, ReadingOK, Started, DataOnTheirWay, RestPastData, Opened, Handling

\* Where the entries are.
LEMMA Places ==
  ASSUME IInv, failed = {}
  PROVE  /\ chrtaddr \in Nat /\ symtab \in TableSet
         /\ \A n \in Known : symtab[n].addr \in Nat /\ symtab[n].num \in Nat
         /\ \A n \in Known \ Growing : symtab[n].addr + symtab[n].num <= chrtaddr
         /\ \A m, n \in Known : m # n => Extent(symtab[m]) \cap Extent(symtab[n]) = {}
BY DEF IInv, MemoryOK, TableSet, Below, Apart, Known

LEMMA ListOf ==
  ASSUME NEW n, NEW a \in Nat, NEW first \in Nat, NEW k \in Nat, NEW g
  PROVE  /\ DOMAIN Elements(n, a, first, k, g) = 1..k
         /\ \A i \in 1..k : /\ Elements(n, a, first, k, g)[i].at = a + first + i - 1
                            /\ Elements(n, a, first, k, g)[i].cell = Datum(n, g)
BY DEF Elements

LEMMA Offsets ==
  ASSUME NEW x \in Int, NEW p \in Nat, NEW f \in Nat, NEW k \in Nat, NEW N \in Nat,
         x - p \in f .. (f + k - 1), f + k <= N
  PROVE  /\ x \in p .. (p + N - 1)
         /\ \A i \in Nat : i \notin f .. (f + k - 1) => p + i # x
OBVIOUS

\* One cell of the list reaches the disk, or what a refused write leaves.
LEMMA DataKept ==
  ASSUME IInv, failed = {}, Within(symtab), IntactBut(symtab), DataOnTheirWay, RestPastData,
         op.todo # <<>>, NEW c,
         disk' = disk \/ disk' = [disk EXCEPT ![Head(op.todo).at] = c]
  PROVE  \A n \in DOMAIN wrote : \A i \in DOMAIN wrote[n] :
           \/ InHand(n, i)
           \/ wrote[n][i] > 0 => disk'[symtab[n].addr + i] = Datum(n, wrote[n][i])
<1> DEFINE at == Head(op.todo).at
<1>1. 1 \in DOMAIN op.todo /\ op.todo[1].at = at /\ at \in Int
  <2>1. op.todo \in Seq(Writes)
    BY DEF IInv, TodoOK
  <2>2. 1 \in DOMAIN op.todo /\ Head(op.todo) = op.todo[1] /\ op.todo[1] \in Writes
    BY <2>1
  <2> QED
    BY <2>2 DEF Writes
<1> HIDE DEF at
<1>2. SUFFICES ASSUME NEW n \in DOMAIN wrote, NEW i \in DOMAIN wrote[n], ~ InHand(n, i)
               PROVE  symtab[n].addr + i \in Addrs /\ symtab[n].addr + i # at
  BY DEF IntactBut, Holds, IInv, DiskOK, at
<1>3. n \in Known /\ i \in 0 .. (symtab[n].num - 1) /\ symtab[n].addr \in Nat /\ symtab[n].num \in Nat
  BY Places DEF Within, Known
<1>4. symtab[n].addr + i \in Extent(symtab[n])
  BY <1>3 DEF Extent
<1>5. symtab[n].addr + symtab[n].num <= chrtaddr /\ chrtaddr \in Nat
  <2>1. n \notin Growing
    BY DEF Growing, Making, Handling, RestPastData, DataOnTheirWay
  <2> QED
    BY <1>3, <2>1, Places
<1>6. symtab[n].addr + i \in Addrs
  BY <1>3, <1>5, SizesAssumption DEF Addrs, IInv, MemoryOK
<1>7. CASE Handling
  <2>1. /\ op.name \in Known /\ op.first + op.num <= symtab[op.name].num
        /\ at - Place \in Range /\ Place \in Nat /\ symtab[op.name].num \in Nat
        /\ op.first \in Nat /\ op.num \in Nat
    BY <1>1, <1>7, Places DEF DataOnTheirWay, Place, IInv, OpOK, CallOK
  <2>2. at \in Place .. (Place + symtab[op.name].num - 1)
    BY <1>1, <2>1, Offsets DEF Range
  <2>3. at \in Extent(symtab[op.name])
    BY <2>2 DEF Extent, Place
  <2>4. CASE n = op.name
    <3>1. i \notin Range
      BY <1>2, <1>7, <2>4 DEF InHand
    <3>2. i \in Nat
      BY <1>3
    <3>3. Place + i # at
      BY <1>1, <2>1, <3>1, <3>2, Offsets DEF Range
    <3> QED
      BY <2>4, <3>3, <1>6 DEF Place
  <2>5. CASE n # op.name
    <3>1. Extent(symtab[n]) \cap Extent(symtab[op.name]) = {}
      BY <1>3, <2>1, <2>5, Places
    <3> QED
      BY <1>4, <1>6, <2>3, <3>1
  <2> QED
    BY <1>6, <2>4, <2>5
<1>8. CASE ~ Handling
  <2>1. op.fn \in {"define", "flush"}
    BY <1>1, <1>8, IdleCall DEF IInv, OpOK, Handling, RestPastData
  <2>2. at >= chrtaddr
    BY <1>1, <2>1 DEF RestPastData
  <2> QED
    BY <1>1, <1>3, <1>5, <1>6, <2>2
<1> QED
  BY <1>7, <1>8

\* A list of elements has been made.
LEMMA HandsOver ==
  ASSUME NEW n, NEW a \in Nat, NEW first \in Nat, NEW num \in Nat, n \in Known',
         op'.fn \in {"write", "again"}, op'.name = n, op'.first = first, op'.num = num,
         op'.todo = Elements(n, a, first, num, writes'),
         symtab'[n].addr = a, first + num <= symtab'[n].num,
         op'.fn = "write" => first = 0 /\ n \notin DOMAIN wrote'
  PROVE  DataOnTheirWay' /\ RestPastData'
<1>1. Place' = a /\ Range' = first .. (first + num - 1)
  BY DEF Place, Range
<1>2. /\ DOMAIN op'.todo = 1..num
      /\ \A i \in 1..num : op'.todo[i].at = a + first + i - 1 /\ op'.todo[i].cell = Datum(n, writes')
  BY ListOf
<1>3. \A j \in Range' : j - first + 1 \in 1..num /\ a + first + (j - first + 1) - 1 = a + j
  BY <1>1
<1>4. ASSUME NEW j \in Range' PROVE \E i \in DOMAIN op'.todo : op'.todo[i].at = a + j
  <2>1. op'.todo[j - first + 1].at = a + j
    BY <1>2, <1>3
  <2> QED
    BY <1>2, <1>3, <2>1
<1>5. \A i \in DOMAIN op'.todo : op'.todo[i].at - a \in Range' /\ op'.todo[i].cell = Datum(n, writes')
  BY <1>1, <1>2
<1> QED
  BY <1>1, <1>4, <1>5 DEF DataOnTheirWay, RestPastData, Handling

\* Elements that are not in hand are where they were.
LEMMA StillThere ==
  ASSUME FInv, Sound, Data, Opened, op = Idle, UNCHANGED <<disk, wrote>>,
         \A n \in Known : n \in Known' /\ symtab'[n] = symtab[n]
  PROVE  OpenOK' /\ Within(symtab)
<1>1. ~ Handling
  BY IdleCall DEF Handling
<1>2. Within(symtab) /\ Intact(symtab)
  BY <1>1 DEF Data, OpenOK, IntactBut, Intact, InHand
<1> QED
  BY <1>2 DEF OpenOK, Within, Intact, IntactBut, Holds, Known

LEMMA CreateData == ASSUME FInv, FInv', Create PROVE Data'
<1>1. /\ op'.fn = "write" /\ op'.name = Root /\ op'.first = 0 /\ op'.num = 1
      /\ op'.todo = Elements(Root, 0, 0, 1, writes')
  BY DEF Create, Idle
<1>2. /\ mode' = "PD_CREATE" /\ writes' > 0 /\ DOMAIN wrote' = {}
      /\ Root \in Known' /\ symtab'[Root].addr = 0 /\ symtab'[Root].num = 1
  BY DEF Create, FInv, IInv, Known
<1>3. DataOnTheirWay' /\ RestPastData'
  BY <1>1, <1>2, HandsOver
<1> QED
  BY <1>1, <1>2, <1>3
  DEF Data, OpenOK, ClosedOK, ReadingOK, Started, Opened, Within, IntactBut

LEMMA OpenData ==
  ASSUME FInv, Sound, Data, NEW m \in {"PD_APPEND", "PD_OPEN"}, Open(m)
  PROVE  Data'
<1>1. PICK c \in Nat : c + 1 <= MaxAddr /\ head = {[chrt |-> c, symt |-> c + 1]}
  BY DEF Open, Readable, FInv, IInv, HeadOK
<1>2. OnDisk = disk[c + 1].tab /\ disk[c + 1].kind = "symt"
  BY <1>1 DEF Open, Readable, OnDisk
<1>3. c + 1 \in Addrs
  BY <1>1, SizesAssumption DEF Addrs
<1>4. Good(OnDisk, c, {})
  BY <1>2, <1>3 DEF FInv, IInv, DiskOK, GoodCell, Sound
<1>5. \A n \in DOMAIN OnDisk : /\ OnDisk[n].addr \in Nat /\ OnDisk[n].num \in Nat
                              /\ OnDisk[n].addr + OnDisk[n].num <= c
  BY <1>4 DEF Good, TableSet, Below
<1>6. /\ op' = Idle /\ op = Idle /\ symtab' = OnDisk /\ UNCHANGED <<disk, head, writes>>
      /\ mode' = m
  BY DEF Open, Quiet, bounds
<1>7. ~ Handling' /\ ~ Handling
  BY <1>6, IdleCall DEF Handling
<1>8. writes > 0
  BY <1>1 DEF Data, Started
<1>9. Within(OnDisk)' /\ Intact(OnDisk)'
  <2>1. CASE wrote' = wrote /\ ~ (crashed \/ torn \/ unsaid)
    <3>1. Within(OnDisk) /\ Intact(OnDisk)
      BY <1>8, <2>1 DEF Open, Data, ClosedOK
    <3>2. OnDisk' = OnDisk
      BY <1>6 DEF OnDisk
    <3> QED
      BY <1>6, <2>1, <3>1, <3>2 DEF Within, Intact, Holds
  <2>2. CASE wrote' = [n \in DOMAIN OnDisk |-> Found(n)]
    <3>1. OnDisk' = OnDisk
      BY <1>6 DEF OnDisk
    <3>2. ASSUME NEW n \in DOMAIN OnDisk
          PROVE  /\ DOMAIN wrote'[n] = 0 .. (OnDisk[n].num - 1)
                 /\ \A i \in DOMAIN wrote'[n] :
                      /\ wrote'[n][i] \in Nat
                      /\ wrote'[n][i] > 0 => disk[OnDisk[n].addr + i] = Datum(n, wrote'[n][i])
      <4>1. wrote'[n] = Found(n)
        BY <2>2
      <4>2. ASSUME NEW i \in 0 .. (OnDisk[n].num - 1)
            PROVE  disk[OnDisk[n].addr + i].gen \in Nat
        <5>1. OnDisk[n].addr + i \in Addrs
          BY <1>1, <1>5, SizesAssumption DEF Addrs
        <5> QED
          BY <5>1 DEF FInv, IInv, DiskOK, CellSet
      <4> QED
        BY <4>1, <4>2 DEF Found
    <3>3. DOMAIN wrote' = DOMAIN OnDisk /\ disk' = disk
      BY <1>6, <2>2
    <3>4. Within(OnDisk)'
      BY <3>1, <3>2, <3>3 DEF Within
    <3>5. Intact(OnDisk)'
      BY <3>1, <3>2, <3>3 DEF Intact, Holds
    <3> QED
      BY <3>4, <3>5
  <2> QED
    BY <2>1, <2>2 DEF Open, Sound
<1>10. OpenOK'
  BY <1>6, <1>9 DEF OpenOK, Intact, IntactBut, Within, Holds, OnDisk
<1>11. Readable' /\ OnDisk' = symtab'
  BY <1>6 DEF Open, Readable, OnDisk
<1> QED
  BY <1>6, <1>7, <1>8, <1>10, <1>11, IdleCall
  DEF Data, ClosedOK, ReadingOK, Started, DataOnTheirWay, RestPastData, Opened

\* The file is let go of with its tables on the disk.
LEMMA LeavesComplete ==
  ASSUME Data, Opened, ~ Handling, LetGo, op' = Idle, UNCHANGED <<disk, head, wrote, writes>>,
         ~ torn' /\ ~ unsaid' /\ ~ crashed' => Readable' /\ OnDisk' = symtab
  PROVE  Data'
<1>1. Within(symtab) /\ Intact(symtab)
  BY DEF Data, OpenOK, IntactBut, Intact, InHand
<1>2. ASSUME ~ torn', ~ unsaid', ~ crashed' PROVE Readable' /\ Within(OnDisk)' /\ Intact(OnDisk)'
  BY <1>1, <1>2 DEF Within, Intact, Holds
<1>3. mode' = "closed" /\ ~ Handling' /\ op'.fn = "none" /\ Known' = {}
  BY IdleCall, NothingKnown DEF LetGo, Handling
<1>4. Started'
  BY <1>3 DEF Data, Started, Opened
<1> QED
  BY <1>2, <1>3, <1>4
  DEF Data, OpenOK, ClosedOK, ReadingOK, DataOnTheirWay, RestPastData, Opened

LEMMA FlushBegins ==
  ASSUME FInv, Sound, Data, Opened, op = Idle, op'.fn = "flush", op'.todo = Tables,
         UNCHANGED <<disk, head, memory, wrote, writes>>
  PROVE  Data'
<1>1. OpenOK'
  BY StillThere DEF memory, Known
<1>2. op' # Idle /\ ~ Handling'
  BY IdleCall DEF Handling
<1>3. RestPastData'
  <2>1. \A i \in DOMAIN Tables : Tables[i].at >= chrtaddr
    <3>1. chrtaddr \in Nat /\ DOMAIN Tables = {1, 2}
      BY DEF Tables, FInv, IInv, MemoryOK
    <3>2. Tables[1].at = chrtaddr /\ Tables[2].at = chrtaddr + 1
      BY DEF Tables
    <3> QED
      BY <3>1, <3>2
  <2> QED
    BY <2>1 DEF RestPastData, memory
<1> QED
  BY <1>1, <1>2, <1>3
  DEF Data, ClosedOK, ReadingOK, Started, DataOnTheirWay, Opened, memory

LEMMA CloseData ==
  ASSUME FInv, Sound, Data, Close \/ Flush
  PROVE  Data'
<1>1. Opened /\ op = Idle /\ UNCHANGED <<disk, head, wrote, writes, failed>> /\ ~ Handling
  BY IdleCall DEF Close, Flush, Quiet, bounds, Handling
<1>2. CASE LetGo /\ ~ MustFlush /\ UNCHANGED <<op, torn, unsaid>>
  <2>1. ASSUME ~ torn', ~ unsaid' PROVE Readable /\ OnDisk = symtab
    <3>1. CASE flushed
      BY <1>1, <1>2, <2>1, <3>1 DEF FInv, FlushedIsOnDisk, Sound
    <3>2. CASE mode = "PD_OPEN"
      BY <1>1, <1>2, <2>1, <3>2 DEF Data, ReadingOK
    <3> QED
      BY <1>1, <1>2, <3>1, <3>2 DEF MustFlush, Data, Started, Opened
  <2>2. Readable' = Readable /\ OnDisk' = OnDisk
    BY <1>1 DEF Readable, OnDisk
  <2> QED
    BY <1>1, <1>2, <2>1, <2>2, LeavesComplete
<1>3. ASSUME NEW close, BeginFlush(close), UNCHANGED memory PROVE Data'
  <2>1. op'.fn = "flush" /\ op'.todo = Tables
    BY <1>3 DEF BeginFlush, Idle
  <2> QED
    BY <1>1, <1>3, <2>1, FlushBegins
<1> QED
  BY <1>1, <1>2, <1>3 DEF Close, Flush

\* The file stays open and nothing is in hand any more.
LEMMA ComesToRest ==
  ASSUME Data, Opened, ~ Handling, op' = Idle, UNCHANGED <<disk, mode, symtab, wrote, writes>>,
         mode = "PD_OPEN" /\ ~ torn' /\ ~ unsaid' => Readable' /\ OnDisk' = symtab
  PROVE  Data'
<1>1. OpenOK'
  BY DEF Data, OpenOK, Within, IntactBut, InHand, Holds
<1>2. ~ Handling' /\ op'.fn = "none" /\ Opened'
  BY IdleCall DEF Handling, Opened
<1> QED
  BY <1>1, <1>2 DEF Data, ClosedOK, ReadingOK, Started, DataOnTheirWay, RestPastData, Opened

LEMMA FlushFailsData == ASSUME FInv, Sound, Data, FlushFails PROVE Data'
<1>1. /\ Opened /\ ~ Handling /\ op' = Idle /\ torn'
      /\ UNCHANGED <<disk, head, wrote, writes>>
  BY IdleCall DEF FlushFails, Data, ClosedOK, Handling
<1>2. CASE LetGo
  BY <1>1, <1>2, LeavesComplete
<1>3. CASE UNCHANGED memory
  BY <1>1, <1>3, ComesToRest DEF memory
<1> QED
  BY <1>2, <1>3 DEF FlushFails

LEMMA WriteHeaderData == ASSUME FInv, Sound, Data, WriteHeader PROVE Data'
<1>1. /\ Opened /\ ~ Handling /\ op' = Idle
      /\ UNCHANGED <<disk, wrote, writes, torn, unsaid>>
  BY IdleCall DEF WriteHeader, Data, ClosedOK, Handling, ghosts, bounds
<1>2. ~ torn' => Readable' /\ OnDisk' = symtab
  BY <1>1, FlushedNow
<1>3. CASE UNCHANGED <<mode, symtab, chrtaddr>>
  BY <1>1, <1>2, <1>3, ComesToRest
<1>4. CASE LetGo
  <2>1. Within(symtab) /\ Intact(symtab)
    BY <1>1 DEF Data, OpenOK, IntactBut, Intact, InHand
  <2>2. ~ torn' => Within(OnDisk)' /\ Intact(OnDisk)'
    BY <1>1, <1>2, <2>1 DEF Within, Intact, Holds
  <2>3. mode' = "closed" /\ ~ Handling' /\ op'.fn = "none" /\ writes' > 0 /\ Known' = {}
    BY <1>1, <1>4, IdleCall, NothingKnown DEF LetGo, Handling, Data, Started
  <2> QED
    BY <1>1, <1>2, <2>2, <2>3
    DEF Data, OpenOK, ClosedOK, ReadingOK, Started, DataOnTheirWay, RestPastData, Opened
<1> QED
  BY <1>3, <1>4 DEF WriteHeader

LEMMA CrashData == ASSUME FInv, Sound, Data, Crash PROVE Data'
<1>1. UNCHANGED <<head, wrote, writes, torn, unsaid, failed>> /\ Opened /\ op' = Idle /\ mode' = "closed"
  BY DEF Crash, bounds, LetGo
<1>2. ~ Handling' /\ op'.fn = "none" /\ Known' = {}
  BY <1>1, IdleCall, NothingKnown DEF Handling, Crash, LetGo
<1>3. ASSUME ~ crashed', ~ torn', ~ unsaid' PROVE Readable' /\ Within(OnDisk)' /\ Intact(OnDisk)'
  <2>1. op = Idle /\ flushed /\ disk' = disk
    BY <1>3, IdleCall DEF Crash
  <2>2. Readable /\ OnDisk = symtab
    BY <1>1, <1>3, <2>1 DEF FInv, FlushedIsOnDisk, Sound
  <2>3. Readable' /\ OnDisk' = OnDisk
    BY <1>1, <2>1, <2>2 DEF Readable, OnDisk
  <2>4. Within(symtab) /\ Intact(symtab)
    BY <1>1, <2>1, IdleCall DEF Data, OpenOK, IntactBut, Intact, InHand, Handling
  <2> QED
    BY <1>1, <2>1, <2>2, <2>3, <2>4 DEF Within, Intact, Holds
<1> QED
  BY <1>1, <1>2, <1>3
  DEF Data, OpenOK, ClosedOK, ReadingOK, Started, DataOnTheirWay, RestPastData, Opened

\* A call that writes starts in a file that is open for writing.
LEMMA Writing ==
  ASSUME Data, Opened, mode # "PD_OPEN", UNCHANGED <<mode, head>>, writes \in Nat,
         writes' = writes + 1 \/ writes' = writes
  PROVE  ClosedOK' /\ ReadingOK' /\ Started'
BY DEF Data, ClosedOK, ReadingOK, Started, Opened

LEMMA WriteNewData ==
  ASSUME FInv, Sound, Sound', Data, NEW n \in Names, NEW k \in Sizes, WriteNew(n, k)
  PROVE  Data'
<1>1. /\ Opened /\ op = Idle /\ mode # "PD_OPEN" /\ writes \in Nat /\ writes' = writes + 1
      /\ k \in Nat /\ chrtaddr \in Nat /\ UNCHANGED <<disk, head, mode, wrote>>
  BY SizesAssumption DEF WriteNew, Quiet, Writable, Opened, FInv, IInv, MemoryOK
<1>2. op' = [Idle EXCEPT !.fn = "write", !.name = n, !.num = k,
                         !.todo = Elements(n, chrtaddr, 0, k, writes')]
  BY DEF WriteNew, Sound
<1>3. /\ op'.fn = "write" /\ op'.name = n /\ op'.first = 0 /\ op'.num = k
      /\ op'.todo = Elements(n, chrtaddr, 0, k, writes')
  BY <1>2 DEF Idle
<1>4. /\ n \in Known' /\ symtab'[n].addr = chrtaddr /\ symtab'[n].num = k
      /\ \A m \in Known : m \in Known' /\ symtab'[m] = symtab[m]
  BY DEF WriteNew, Install, Known
<1>5. OpenOK' /\ n \notin DOMAIN wrote
  BY <1>1, <1>4, StillThere DEF Within, WriteNew, Known
<1>6. DataOnTheirWay' /\ RestPastData'
  BY <1>1, <1>3, <1>4, <1>5, HandsOver
<1> QED
  BY <1>1, <1>5, <1>6, Writing DEF Data

LEMMA AgainData ==
  ASSUME FInv, Sound, Data, Opened, op = Idle, mode # "PD_OPEN", NEW n \in Known,
         NEW first \in Nat, NEW num \in Nat, first + num <= symtab[n].num,
         writes' = writes + 1, UNCHANGED <<disk, head, mode, symtab, wrote>>,
         op' = [Idle EXCEPT !.fn = "again", !.name = n, !.first = first, !.num = num,
                            !.todo = Elements(n, symtab[n].addr, first, num, writes')]
  PROVE  Data'
<1>1. /\ op'.fn = "again" /\ op'.name = n /\ op'.first = first /\ op'.num = num
      /\ op'.todo = Elements(n, symtab[n].addr, first, num, writes')
  BY DEF Idle
<1>2. symtab[n].addr \in Nat /\ writes \in Nat
  BY Places DEF FInv, Sound, IInv
<1>3. OpenOK'
  BY StillThere DEF Known
<1>4. n \in Known' /\ symtab'[n] = symtab[n]
  BY DEF Known
<1>5. DataOnTheirWay' /\ RestPastData'
  BY <1>1, <1>2, <1>4, HandsOver
<1> QED
  BY <1>2, <1>3, <1>5, Writing DEF Data

LEMMA WriteAgainData ==
  ASSUME FInv, Sound, Sound', Data, NEW n \in Names, NEW k \in Sizes, WriteAgain(n, k)
  PROVE  Data'
<1>1. Fits(n, k) /\ k \in Nat
  BY SizesAssumption DEF WriteAgain, Sound
<1>2. op' = [Idle EXCEPT !.fn = "again", !.name = n, !.first = 0, !.num = k,
                         !.todo = Elements(n, symtab[n].addr, 0, k, writes')]
  BY ZenonT(40), <1>1 DEF WriteAgain, Idle
<1>3. 0 + k <= symtab[n].num
  BY <1>1 DEF Fits
<1> QED
  BY <1>1, <1>2, <1>3, AgainData DEF WriteAgain, Quiet, Writable, Opened, ghosts

LEMMA SliceAgainData ==
  ASSUME FInv, Sound, Data, NEW n \in Names, NEW k \in Sizes, NEW first \in Nat, NEW num \in Sizes,
         SliceAgain(n, k, first, num)
  PROVE  Data'
<1>1. num \in Nat
  BY SizesAssumption
<1> QED
  BY <1>1, AgainData DEF SliceAgain, Quiet, Writable, Opened, ghosts

LEMMA SliceNewData ==
  ASSUME FInv, Sound, Data, NEW n \in Names, NEW k \in Sizes, NEW first \in Nat, NEW num \in Sizes,
         SliceNew(n, k, first, num)
  PROVE  Data'
<1>1. /\ Opened /\ op = Idle /\ mode # "PD_OPEN" /\ writes \in Nat /\ writes' = writes + 1
      /\ k \in Nat /\ chrtaddr \in Nat /\ UNCHANGED <<disk, head, mode, wrote, chrtaddr>>
  BY SizesAssumption DEF SliceNew, Quiet, Writable, Opened, FInv, IInv, MemoryOK, ghosts
<1>2. /\ op'.fn = "define" /\ op'.name = n
      /\ op'.todo = << [at |-> chrtaddr + k, cell |-> Torn] >>
  BY DEF SliceNew, Idle
<1>3. \A m \in Known : m \in Known' /\ symtab'[m] = symtab[m]
  BY DEF SliceNew, Install, Known
<1>4. OpenOK' /\ n \notin DOMAIN wrote
  BY <1>1, <1>3, StillThere DEF Within, SliceNew, Known
<1>5. \A i \in DOMAIN op'.todo : op'.todo[i].at >= chrtaddr
  BY <1>1, <1>2
<1>6. DataOnTheirWay' /\ RestPastData'
  BY <1>1, <1>2, <1>4, <1>5 DEF DataOnTheirWay, RestPastData, Handling
<1> QED
  BY <1>1, <1>4, <1>6, Writing DEF Data

LEMMA SliceDefinedData == ASSUME FInv, Sound, Data, SliceDefined PROVE Data'
<1> DEFINE n == op.name
<1>1. /\ op.fn = "define" /\ Opened /\ ~ Handling /\ n \in Known /\ n \notin DOMAIN wrote
      /\ mode # "PD_OPEN" /\ UNCHANGED <<disk, head, mode, symtab, writes>>
      /\ op.first \in Nat /\ op.num \in Nat /\ writes \in Nat
      /\ symtab[n].addr \in Nat /\ symtab[n].num \in Nat
  BY IdleCall, Places
  DEF SliceDefined, Data, ClosedOK, ReadingOK, RestPastData, Handling, bounds, FInv, IInv, OpOK, CallOK,
      Making, Sound
<1>2. CASE op' = Idle /\ UNCHANGED wrote
  BY <1>1, <1>2, ComesToRest
<1>3. CASE /\ op.first + op.num <= symtab[op.name].num /\ BeginSlice(op.name, op.first, op.num)
           /\ wrote' = [m \in DOMAIN wrote \cup {op.name} |->
                IF m = op.name THEN [i \in 0..(symtab[m].num - 1) |-> 0] ELSE wrote[m]]
  <2>1. /\ op'.fn = "again" /\ op'.name = n /\ op'.first = op.first /\ op'.num = op.num
        /\ op'.todo = Elements(n, symtab[n].addr, op.first, op.num, writes')
    BY <1>1, <1>3 DEF BeginSlice, Idle
  <2>2. n \in Known' /\ symtab'[n] = symtab[n]
    BY <1>1 DEF Known
  <2>3. DataOnTheirWay' /\ RestPastData'
    BY <1>1, <1>3, <2>1, <2>2, HandsOver
  <2>4. /\ DOMAIN wrote' = DOMAIN wrote \cup {n}
        /\ wrote'[n] = [i \in 0..(symtab[n].num - 1) |-> 0]
        /\ \A m \in DOMAIN wrote : wrote'[m] = wrote[m]
    BY <1>1, <1>3
  <2>5. Within(symtab) /\ Intact(symtab)
    BY <1>1 DEF Data, OpenOK, IntactBut, Intact, InHand
  <2>6. Within(symtab)' /\ Intact(symtab)'
    <3>1. ASSUME NEW m \in DOMAIN wrote', NEW i \in DOMAIN wrote'[m]
          PROVE  /\ i \in 0 .. (symtab[m].num - 1) /\ wrote'[m][i] \in Nat
                 /\ wrote'[m][i] > 0 => disk[symtab[m].addr + i] = Datum(m, wrote'[m][i])
      <4>1. CASE m = n
        <5>1. i \in 0 .. (symtab[n].num - 1) /\ wrote'[n][i] = 0
          BY <2>4, <4>1
        <5> HIDE DEF n
        <5> QED
          BY <4>1, <5>1
      <4>2. CASE m \in DOMAIN wrote
        BY <2>4, <2>5, <4>2 DEF Within, Intact, Holds
      <4> QED
        BY <2>4, <4>1, <4>2
    <3>2. \A m \in DOMAIN wrote' : m \in DOMAIN symtab
      BY <1>1, <2>4, <2>5 DEF Within, Known
    <3> QED
      BY <1>1, <3>1, <3>2 DEF Within, Intact, Holds
  <2>7. OpenOK'
    BY <2>6 DEF OpenOK, Intact, IntactBut
  <2> QED
    BY <1>1, <2>3, <2>7, Writing DEF Data
<1> QED
  BY <1>2, <1>3 DEF SliceDefined

LEMMA FinishData == ASSUME FInv, Sound, Data, Finish PROVE Data'
<1> DEFINE n == op.name
<1>1. /\ Handling /\ Opened /\ n \in Known /\ mode # "PD_OPEN" /\ op' = Idle /\ op.todo = <<>>
      /\ UNCHANGED <<disk, head, mode, symtab, writes>>
      /\ op.first \in Nat /\ op.num \in Nat /\ writes \in Nat
      /\ symtab[n].addr \in Nat /\ symtab[n].num \in Nat /\ op.first + op.num <= symtab[n].num
  BY IdleCall, Places
  DEF Finish, Data, ClosedOK, ReadingOK, DataOnTheirWay, Handling, bounds, FInv, IInv, OpOK, CallOK,
      Sound
<1>2. \A j \in Range : disk[symtab[n].addr + j] = Datum(n, writes)
  BY <1>1 DEF Data, DataOnTheirWay, Place
<1> DEFINE old == IF n \in DOMAIN wrote THEN wrote[n] ELSE [i \in 0..(op.num - 1) |-> 0]
<1>3. /\ DOMAIN wrote' = DOMAIN wrote \cup {n}
      /\ \A m \in DOMAIN wrote : m # n => wrote'[m] = wrote[m]
      /\ wrote'[n] = [i \in DOMAIN old |-> IF i \in Range THEN writes ELSE old[i]]
  BY DEF Finish, Wrote, Range
<1>4. Within(symtab) /\ IntactBut(symtab)
  BY <1>1 DEF Data, OpenOK
<1>5. ASSUME NEW i \in DOMAIN old
      PROVE  /\ i \in 0 .. (symtab[n].num - 1) /\ old[i] \in Nat
             /\ i \notin Range /\ old[i] > 0 => disk[symtab[n].addr + i] = Datum(n, old[i])
  <2>1. CASE n \in DOMAIN wrote
    <3>1. old = wrote[n]
      BY <2>1
    <3> QED
      BY <1>4, <1>5, <2>1, <3>1 DEF Within, IntactBut, InHand, Holds
  <2>2. CASE n \notin DOMAIN wrote
    <3>1. i \in 0 .. (op.num - 1) /\ old[i] = 0
      BY <1>5, <2>2
    <3>2. i \in 0 .. (symtab[n].num - 1)
      BY <1>1, <3>1
    <3> HIDE DEF old
    <3> QED
      BY <3>1, <3>2
  <2> QED
    BY <2>1, <2>2
<1> HIDE DEF old, n
<1>6. ASSUME NEW i \in DOMAIN wrote'[n]
      PROVE  /\ i \in 0 .. (symtab[n].num - 1) /\ wrote'[n][i] \in Nat
             /\ wrote'[n][i] > 0 => disk[symtab[n].addr + i] = Datum(n, wrote'[n][i])
  <2>1. i \in DOMAIN old /\ wrote'[n][i] = IF i \in Range THEN writes ELSE old[i]
    BY <1>3, <1>6
  <2>2. CASE i \in Range
    BY <1>1, <1>2, <1>5, <2>1, <2>2
  <2>3. CASE i \notin Range
    BY <1>5, <2>1, <2>3
  <2> QED
    BY <2>2, <2>3
<1>7. ASSUME NEW m \in DOMAIN wrote', m # n, NEW i \in DOMAIN wrote'[m]
      PROVE  /\ i \in 0 .. (symtab[m].num - 1) /\ wrote'[m][i] \in Nat
             /\ wrote'[m][i] > 0 => disk[symtab[m].addr + i] = Datum(m, wrote'[m][i])
  BY <1>3, <1>4, <1>7 DEF Within, IntactBut, InHand, Holds, n
<1>8. Within(symtab)' /\ Intact(symtab)'
  <2>1. \A m \in DOMAIN wrote' : m \in DOMAIN symtab
    BY <1>1, <1>3, <1>4 DEF Within, Known
  <2>2. \A m \in DOMAIN wrote' : \A i \in DOMAIN wrote'[m] :
          /\ i \in 0 .. (symtab[m].num - 1) /\ wrote'[m][i] \in Nat
          /\ wrote'[m][i] > 0 => disk[symtab[m].addr + i] = Datum(m, wrote'[m][i])
    BY <1>6, <1>7
  <2> QED
    BY <1>1, <2>1, <2>2 DEF Within, Intact, Holds
<1>9. OpenOK' /\ ClosedOK' /\ ReadingOK' /\ Started'
  BY <1>1, <1>8, Writing DEF OpenOK, Intact, IntactBut
<1> QED
  BY <1>1, <1>9, IdleCall DEF Data, DataOnTheirWay, RestPastData, Handling

LEMMA IoData == ASSUME FInv, Sound, Data, Io PROVE Data'
<1>1. /\ UNCHANGED <<head, mode, symtab, chrtaddr, wrote, writes>> /\ op.todo # <<>>
      /\ op' = [op EXCEPT !.todo = Tail(@)] /\ failed' = failed
      /\ disk' = [disk EXCEPT ![Head(op.todo).at] = Head(op.todo).cell]
  BY DEF Io, memory, ghosts, bounds
<1>2. op.fn # "none" /\ Opened
  BY <1>1, IdleCall DEF Data, ClosedOK, RestPastData
<1>3. /\ op'.fn = op.fn /\ op'.name = op.name /\ op'.first = op.first /\ op'.num = op.num
      /\ op'.todo = Tail(op.todo) /\ op' # Idle
  <2>1. DOMAIN op = Fields
    BY DEF FInv, IInv, OpOK, CallOK
  <2>2. /\ op'.fn = op.fn /\ op'.name = op.name /\ op'.first = op.first /\ op'.num = op.num
        /\ op'.todo = Tail(op.todo)
    BY <1>1, <2>1 DEF Fields
  <2> QED
    BY <1>2, <2>2, IdleCall
<1>4. Handling' = Handling /\ Range' = Range /\ Place' = Place /\ Opened'
  BY <1>1, <1>2, <1>3 DEF Handling, Range, Place, Opened
<1>5. OpenOK'
  <2>1. Within(symtab) /\ IntactBut(symtab)
    BY <1>2 DEF Data, OpenOK
  <2>2. \A n \in DOMAIN wrote : \A i \in DOMAIN wrote[n] :
           \/ InHand(n, i)
           \/ wrote[n][i] > 0 => disk'[symtab[n].addr + i] = Datum(n, wrote[n][i])
    BY <1>1, <2>1, DataKept DEF FInv, Sound, Data
  <2>3. \A n, i : InHand(n, i)' <=> InHand(n, i)
    BY <1>3, <1>4 DEF InHand
  <2> QED
    BY <1>1, <2>1, <2>2, <2>3 DEF OpenOK, Within, IntactBut, Holds
<1>6. /\ op.todo \in Seq(Writes) /\ Head(op.todo) = op.todo[1] /\ 1 \in DOMAIN op.todo
      /\ \A i \in DOMAIN op'.todo : i + 1 \in DOMAIN op.todo /\ op'.todo[i] = op.todo[i + 1]
      /\ \A i \in DOMAIN op.todo : i # 1 => i - 1 \in DOMAIN op'.todo /\ op.todo[i] = op'.todo[i - 1]
  <2>1. op.todo \in Seq(Writes)
    BY DEF FInv, IInv, TodoOK
  <2> QED
    BY <1>1, <1>3, <2>1
<1>7. DataOnTheirWay'
  <2> SUFFICES ASSUME Handling PROVE DataOnTheirWay'
    BY <1>4 DEF DataOnTheirWay
  <2>1. /\ op.name \in Known /\ op.first + op.num <= symtab[op.name].num
        /\ op.fn = "write" => op.first = 0 /\ op.name \notin DOMAIN wrote
        /\ \A j \in Range : \/ disk[Place + j] = Datum(op.name, writes)
                             \/ \E i \in DOMAIN op.todo : op.todo[i].at = Place + j
        /\ \A i \in DOMAIN op.todo : /\ op.todo[i].at - Place \in Range
                                     /\ op.todo[i].cell = Datum(op.name, writes)
    BY DEF Data, DataOnTheirWay
  <2>2. disk' = [disk EXCEPT ![op.todo[1].at] = Datum(op.name, writes)]
    BY <1>1, <1>6, <2>1
  <2>3. ASSUME NEW j \in Range
        PROVE  \/ disk'[Place + j] = Datum(op.name, writes)
               \/ \E i \in DOMAIN op'.todo : op'.todo[i].at = Place + j
    <3>1. Place + j \in Addrs
      <4>1. /\ Place \in Nat /\ op.first \in Nat /\ op.num \in Nat /\ symtab[op.name].num \in Nat
            /\ chrtaddr \in Nat /\ chrtaddr + 1 <= MaxAddr
        BY <2>1, Places DEF Place, FInv, IInv, OpOK, CallOK, MemoryOK, Sound
      <4>2. Place + symtab[op.name].num <= MaxAddr
        <5>1. CASE op.fn = "write"
          <6>1. Place = chrtaddr /\ chrtaddr + symtab[op.name].num + 1 <= MaxAddr
            BY <5>1 DEF FInv, IInv, OpOK, Making, Place
          <6> HIDE DEF Place
          <6> QED
            BY <4>1, <6>1, SizesAssumption
        <5>2. CASE op.fn = "again"
          <6>1. op.name \in Known \ Growing
            BY <2>1, <5>2 DEF Growing, Making
          <6>2. Place + symtab[op.name].num <= chrtaddr
            BY <6>1, Places DEF Place, FInv, Sound
          <6> HIDE DEF Place
          <6> QED
            BY <4>1, <6>2, SizesAssumption
        <5> QED
          BY <5>1, <5>2 DEF Handling
      <4> HIDE DEF Place
      <4> QED
        BY <2>1, <4>1, <4>2, SizesAssumption DEF Range, Addrs
    <3>2. DOMAIN disk = Addrs
      BY DEF FInv, IInv, DiskOK
    <3>3. CASE disk[Place + j] = Datum(op.name, writes)
      BY <2>2, <3>1, <3>2, <3>3
    <3>4. ASSUME NEW i \in DOMAIN op.todo, op.todo[i].at = Place + j, i # 1
          PROVE  \E k \in DOMAIN op'.todo : op'.todo[k].at = Place + j
      BY <1>6, <3>4
    <3>5. CASE op.todo[1].at = Place + j
      BY <2>2, <3>1, <3>2, <3>5
    <3> QED
      BY <2>1, <3>3, <3>4, <3>5
  <2>4. \A i \in DOMAIN op'.todo : /\ op'.todo[i].at - Place \in Range
                                  /\ op'.todo[i].cell = Datum(op.name, writes)
    BY <1>6, <2>1
  <2> QED
    BY <1>1, <1>3, <1>4, <2>1, <2>3, <2>4 DEF DataOnTheirWay, Known
<1>8. RestPastData'
  BY <1>1, <1>2, <1>3, <1>6 DEF Data, RestPastData
<1> QED
  BY <1>1, <1>2, <1>3, <1>4, <1>5, <1>7, <1>8 DEF Data, ClosedOK, ReadingOK, Started

LEMMA IoFailsData == ASSUME FInv, Sound, Sound', Data, IoFails PROVE Data'
<1>1. /\ op.fn = "flush" /\ op.todo # <<>> /\ torn'
      /\ UNCHANGED <<head, mode, symtab, chrtaddr, wrote, writes>>
      /\ op' = [op EXCEPT !.todo = Tail(@)] /\ failed' = failed
      /\ disk' = disk \/ disk' = [disk EXCEPT ![Head(op.todo).at] = Torn]
  BY DEF IoFails, memory, Sound, Refused
<1>2. ~ Handling /\ Opened
  BY <1>1, IdleCall DEF Data, ClosedOK, Handling
<1>3. op'.fn = "flush" /\ op'.name = op.name /\ op'.todo = Tail(op.todo) /\ op' # Idle
  <2>1. op'.fn = "flush" /\ op'.name = op.name /\ op'.todo = Tail(op.todo)
    BY <1>1 DEF FInv, IInv, OpOK, CallOK, Fields
  <2> QED
    BY <2>1, IdleCall
<1>4. OpenOK'
  <2>1. Within(symtab) /\ IntactBut(symtab)
    BY <1>2 DEF Data, OpenOK
  <2>2. \A n \in DOMAIN wrote : \A i \in DOMAIN wrote[n] :
           \/ InHand(n, i)
           \/ wrote[n][i] > 0 => disk'[symtab[n].addr + i] = Datum(n, wrote[n][i])
    BY <1>1, <2>1, DataKept DEF FInv, Sound, Data
  <2> QED
    BY <1>1, <1>2, <2>1, <2>2 DEF OpenOK, Within, IntactBut, Holds, InHand
<1>5. RestPastData'
  <2>1. \A i \in DOMAIN op'.todo : i + 1 \in DOMAIN op.todo /\ op'.todo[i] = op.todo[i + 1]
    BY <1>1, <1>3 DEF FInv, IInv, TodoOK
  <2> QED
    BY <1>1, <1>3, <2>1 DEF Data, RestPastData
<1> QED
  BY <1>1, <1>2, <1>3, <1>4, <1>5
  DEF Data, ClosedOK, ReadingOK, Started, DataOnTheirWay, Handling, Opened

LEMMA ReadData == ASSUME FInv, Sound, Data, Read PROVE Data'
<1>1. /\ UNCHANGED <<disk, head, mode, symtab, chrtaddr, op, wrote, writes, torn, unsaid>>
      /\ Opened /\ op = Idle
  BY DEF Read, Quiet, ghosts, bounds
<1>2. ~ Handling
  BY <1>1, IdleCall DEF Handling
<1>3. mode = "PD_OPEN" /\ ~ torn' /\ ~ unsaid' => Readable' /\ OnDisk' = symtab
  BY <1>1 DEF Data, ReadingOK, Readable, OnDisk
<1> QED
  BY <1>1, <1>2, <1>3, ComesToRest

LEMMA DoubtRemains == [Next]_pvars /\ ~ Create => failed \subseteq failed' /\ (wild => wild')
<1> SUFFICES ASSUME [Next]_pvars, ~ Create PROVE failed \subseteq failed' /\ (wild => wild')
  OBVIOUS
<1>1. CASE UNCHANGED pvars
  BY <1>1 DEF pvars, ghosts
<1>2. CASE OpenDamaged \/ Read \/ Close \/ Flush
  BY <1>2 DEF OpenDamaged, Read, Close, Flush, Quiet, ghosts
<1>3. CASE FlushFails \/ WriteHeader \/ Crash \/ SliceDefined \/ Finish
  BY <1>3 DEF FlushFails, WriteHeader, Crash, SliceDefined, Finish, ghosts
<1>4. CASE Io \/ IoFails
  BY <1>4 DEF Io, IoFails, ghosts
<1>5. ASSUME NEW m, Open(m) PROVE failed \subseteq failed' /\ (wild => wild')
  BY <1>5 DEF Open
<1>6. ASSUME NEW n, NEW k, WriteNew(n, k) \/ WriteAgain(n, k)
      PROVE  failed \subseteq failed' /\ (wild => wild')
  BY <1>6 DEF WriteNew, WriteAgain, Quiet, ghosts
<1>7. ASSUME NEW n, NEW k, NEW first, NEW num, SliceNew(n, k, first, num) \/ SliceAgain(n, k, first, num)
      PROVE  failed \subseteq failed' /\ (wild => wild')
  BY <1>7 DEF SliceNew, SliceAgain, ghosts
<1> QED
  BY <1>1, <1>2, <1>3, <1>4, <1>5, <1>6, <1>7 DEF Next

LEMMA SoundInductive == SInv /\ [Next]_pvars => SInv'
<1> SUFFICES ASSUME SInv, [Next]_pvars PROVE SInv'
  OBVIOUS
<1>1. FInv /\ FInv'
  BY FlagInductive DEF SInv
<1> SUFFICES ASSUME Sound' PROVE Data'
  BY <1>1 DEF SInv
<1>2. CASE Create
  BY <1>1, <1>2, CreateData
<1>3. CASE Sound
  <2>1. Data
    BY <1>3 DEF SInv
  <2>2. CASE UNCHANGED pvars
    <3>1. /\ UNCHANGED <<disk, head, mode, symtab, chrtaddr, op, wrote, writes, torn, unsaid, crashed>>
          /\ Readable' = Readable /\ OnDisk' = OnDisk
      BY <2>2 DEF pvars, memory, ghosts, bounds, Readable, OnDisk
    <3> QED
      BY <2>1, <3>1
      DEF Data, OpenOK, ClosedOK, ReadingOK, Started, DataOnTheirWay, RestPastData, Opened, Handling,
          Within, Intact, IntactBut, InHand, Holds, Range, Place, Known
  <2>3. CASE OpenDamaged \/ Read \/ Close \/ Flush
    BY <1>1, <1>3, <2>1, <2>3, ReadData, CloseData DEF OpenDamaged, Sound
  <2>4. CASE FlushFails \/ WriteHeader \/ Crash
    BY <1>1, <1>3, <2>1, <2>4, FlushFailsData, WriteHeaderData, CrashData
  <2>5. CASE SliceDefined \/ Finish \/ Io \/ IoFails
    BY <1>1, <1>3, <2>1, <2>5, SliceDefinedData, FinishData, IoData, IoFailsData
  <2>6. ASSUME NEW m \in {"PD_APPEND", "PD_OPEN"}, Open(m) PROVE Data'
    BY <1>1, <1>3, <2>1, <2>6, OpenData
  <2>7. ASSUME NEW n \in Names, NEW k \in Sizes, WriteNew(n, k) \/ WriteAgain(n, k) PROVE Data'
    BY <1>1, <1>3, <2>1, <2>7, WriteNewData, WriteAgainData
  <2>8. ASSUME NEW n \in Names, NEW k \in Sizes, NEW first \in 0..(k - 1), NEW num \in Sizes,
               SliceNew(n, k, first, num) \/ SliceAgain(n, k, first, num)
        PROVE  Data'
    <3>1. first \in Nat
      BY SizesAssumption
    <3> QED
      BY <1>1, <1>3, <2>1, <2>8, <3>1, SliceNewData, SliceAgainData
  <2> QED
    BY <1>2, <2>2, <2>3, <2>4, <2>5, <2>6, <2>7, <2>8 DEF Next
<1>4. CASE ~ Sound /\ ~ Create
  <2>1. failed # {} \/ wild
    BY <1>4 DEF Sound
  <2>2. failed \subseteq failed' /\ (wild => wild')
    BY <1>4, DoubtRemains
  <2> QED
    BY <2>1, <2>2 DEF Sound
<1> QED
  BY <1>2, <1>3, <1>4

\* What the file holds of the elements on their way is not spoken of yet.
LEMMA Stored == SInv => StoredAsWritten
<1> SUFFICES ASSUME SInv, failed = {}, ~ wild PROVE StoredAsWritten
  BY DEF StoredAsWritten
<1>1. Data
  BY DEF SInv, Sound
<1>2. ASSUME NEW n \in Known \cap DOMAIN wrote, n # op.name \/ op = Idle,
             NEW i \in DOMAIN wrote[n], wrote[n][i] > 0
      PROVE  disk[symtab[n].addr + i] = Datum(n, wrote[n][i])
  <2>1. ~ InHand(n, i)
    BY <1>2, IdleCall DEF InHand, Handling
  <2>2. CASE Opened
    BY <1>1, <1>2, <2>1, <2>2 DEF Data, OpenOK, IntactBut, Holds
  <2> QED
    BY <1>1, <1>2, <2>2 DEF Data, ClosedOK
<1> QED
  BY <1>2 DEF StoredAsWritten

LEMMA ClosedComplete == SInv => ClosedIsComplete
<1> SUFFICES ASSUME SInv, ~ Opened, ~ wild, ~ crashed, writes > 0, ~ torn, ~ unsaid, failed = {}
             PROVE  Complete
  BY DEF ClosedIsComplete
<1>1. Readable /\ Within(OnDisk) /\ Intact(OnDisk)
  BY DEF SInv, Sound, Data, ClosedOK
<1> QED
  BY <1>1 DEF Complete, Within, Intact, Holds

LEMMA AlwaysSound == Spec => []SInv
BY SoundInitially, SoundInductive, PTL DEF Spec

(* Every element holds what the last call that wrote it put there, for all *)
(* entries but the one being written, as long as no write was refused.     *)
THEOREM StoredIsWritten == Spec => []StoredAsWritten
BY AlwaysSound, Stored, PTL

(* A file that was closed, or whose process died while it was flushed and  *)
(* nothing was in progress, opens again with every variable in it.         *)
THEOREM ClosedFileComplete == Spec => []ClosedIsComplete
BY AlwaysSound, ClosedComplete, PTL
=============================================================================
