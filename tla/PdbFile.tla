------------------------------ MODULE PdbFile ------------------------------
(* A PDB file as PDB lite keeps it (src/src/pdb/pdb.c, pdlow.c, pdrdwr.c)  *)
(* under the calls of the PDB driver (src/src/pdb_drv/silo_pdb.c).         *)
(*                                                                         *)
(* On the disk: a header with two addresses, the data of the variables one *)
(* after the other, then the structure chart and the symbol table.  In     *)
(* memory: the symbol table, chrtaddr, where the data end, and flushed,    *)
(* the belief that the tables on the disk are those in memory.  The next   *)
(* new variable is put at chrtaddr, over the tables of the last flush.     *)
(*                                                                         *)
(* The unit of storage is a cell: an element of a variable, the chart, the *)
(* symbol table.  A call is a list of cells to write (op.todo), one a      *)
(* step, so that a write may be refused, and the process may die, between  *)
(* any two.  What stdio holds back at a crash is a suffix of the writes:   *)
(* the disk of a crash at an earlier step.  The attribute table, which the *)
(* driver never makes, and entries of several blocks are left out.         *)
EXTENDS Integers, Sequences, FiniteSets

CONSTANTS Names,      \* the variables a program may write
          Root,       \* the entry "/" that every file has
          Sizes,      \* numbers of elements
          MaxAddr,    \* bound: cells of the disk
          MaxWrites,  \* bound: calls that write data
          MaxFaults   \* bound: system calls that fail

ASSUME RootAssumption  == Root \notin Names
ASSUME SizesAssumption == Sizes \subseteq Nat /\ MaxAddr \in Nat \ {0, 1}
ASSUME PdbBounds       == MaxWrites \in Nat /\ MaxFaults \in Nat

VARIABLES
  disk,     \* the cells, from the first address of the data
  head,     \* the header: {} or {[chrt, symt]}
  mode,     \* file->mode, "closed" when the process holds no file
  symtab,   \* entry -> [addr, num]
  chrtaddr, flushed,
  op,       \* the call in progress
  wrote,    \* history: entry -> the call that last wrote each element
  failed,   \* history: entries whose data could not be written
  unsaid,   \* history: a slice was refused, its entry defined, since the flush
  torn,     \* history: a write of the last flush was refused
  crashed,  \* history: the process died since the file was last opened
  wild,     \* more elements were written than an entry has
  writes, faults

memory == <<mode, symtab, chrtaddr, flushed>>
bounds == <<writes, faults>>
ghosts == <<wrote, failed, unsaid, torn, crashed>>
pvars  == <<disk, head, memory, op, ghosts, wild, bounds>>

Entries  == Names \cup {Root}
Addrs    == 0..MaxAddr
NoTable  == [n \in {} |-> [addr |-> 0, num |-> 0]]
Cell(kind, of, gen, tab) == [kind |-> kind, of |-> of, gen |-> gen, tab |-> tab]
Blank    == Cell("blank", Root, 0, NoTable)
Torn     == Cell("torn", Root, 0, NoTable)
Chart    == Cell("chart", Root, 0, NoTable)
Symt(t)  == Cell("symt", Root, 0, t)
Datum(n, g) == Cell("data", n, g, NoTable)

Known   == DOMAIN symtab
Idle    == [fn |-> "none", name |-> Root, first |-> 0, num |-> 0, close |-> FALSE, todo |-> <<>>]
Quiet   == op = Idle /\ ~ wild
Opened  == mode # "closed"
Extent(e) == e.addr .. (e.addr + e.num - 1)

(* Elements first, .., first + k - 1 of an entry at addr, in order.        *)
Elements(n, addr, first, k, g) ==
  [i \in 1..k |-> [at |-> addr + first + i - 1, cell |-> Datum(n, g)]]

(* What lite_PD_open finds: the tables the header points at.               *)
Readable == \E h \in head : disk[h.chrt].kind = "chart" /\ disk[h.symt].kind = "symt"
OnDisk   == LET h == CHOOSE x \in head : TRUE IN disk[h.symt].tab

Init ==
  /\ disk = [a \in Addrs |-> Blank] /\ head = {}
  /\ mode = "closed" /\ symtab = NoTable /\ chrtaddr = 0 /\ flushed = FALSE
  /\ op = Idle
  /\ wrote = [n \in {} |-> [i \in 0..0 |-> 0]] /\ failed = {}
  /\ unsaid = FALSE /\ torn = FALSE /\ crashed = FALSE /\ wild = FALSE
  /\ writes = 0 /\ faults = 0

-----------------------------------------------------------------------------
(* Opening and closing.                                                    *)

(* lite_PD_create: an empty file, then the entry "/".  The file has no     *)
(* tables and cannot be opened before the first flush.                     *)
Create ==
  /\ Quiet /\ ~ Opened /\ writes < MaxWrites
  /\ disk' = [a \in Addrs |-> Blank] /\ head' = {}
  /\ mode' = "PD_CREATE" /\ flushed' = FALSE /\ chrtaddr' = 0
  /\ symtab' = [n \in {Root} |-> [addr |-> 0, num |-> 1]]
  /\ writes' = writes + 1
  /\ op' = [Idle EXCEPT !.fn = "write", !.num = 1, !.todo = Elements(Root, 0, 0, 1, writes')]
  /\ wrote' = [n \in {} |-> [i \in 0..0 |-> 0]] /\ failed' = {}
  /\ unsaid' = FALSE /\ torn' = FALSE /\ crashed' = FALSE
  /\ UNCHANGED <<wild, faults>>

(* lite_PD_open: the tables are read and the data end where the chart is.  *)
(* After a crash or a failed flush the history starts from what it holds.  *)
Found(n) == [i \in 0..(OnDisk[n].num - 1) |->
  LET c == disk[OnDisk[n].addr + i] IN IF c = Datum(n, c.gen) THEN c.gen ELSE 0]
Open(m) ==
  /\ Quiet /\ ~ Opened /\ Readable
  /\ mode' = m /\ symtab' = OnDisk /\ flushed' = FALSE
  /\ \E h \in head : chrtaddr' = h.chrt
  /\ crashed' = FALSE
  /\ wrote' = IF crashed \/ torn \/ unsaid \/ failed # {} THEN [n \in DOMAIN OnDisk |-> Found(n)] ELSE wrote
  /\ UNCHANGED <<disk, head, op, failed, unsaid, torn, wild, bounds>>

(* The header points at something else: what is read as tables then ...    *)
OpenDamaged ==
  /\ Quiet /\ ~ Opened /\ head # {} /\ ~ Readable
  /\ wild' = TRUE
  /\ UNCHANGED <<disk, head, memory, op, ghosts, bounds>>

LetGo == /\ mode' = "closed" /\ symtab' = NoTable /\ chrtaddr' = 0 /\ flushed' = FALSE

MustFlush_onlyNew == mode = "PD_CREATE" /\ ~ flushed
MustFlush == mode \in {"PD_CREATE", "PD_APPEND"} /\ ~ flushed

(* The tables as lite_PD_flush writes them, the header apart.              *)
Tables == << [at |-> chrtaddr, cell |-> Chart], [at |-> chrtaddr + 1, cell |-> Symt(symtab)] >>
BeginFlush(close) ==
  /\ op' = [Idle EXCEPT !.fn = "flush", !.close = close, !.todo = Tables]
  /\ torn' = FALSE /\ unsaid' = FALSE

(* lite_PD_close: nothing to flush, or a flush first.                      *)
Close ==
  /\ Quiet /\ Opened
  /\ \/ ~ MustFlush /\ LetGo /\ UNCHANGED <<op, torn, unsaid>>
     \/ MustFlush /\ BeginFlush(TRUE) /\ UNCHANGED memory
  /\ UNCHANGED <<disk, head, wrote, failed, crashed, wild, bounds>>

(* DBFlush, db_pdb_flush, lite_PD_flush: no question of the mode.          *)
Flush ==
  /\ Quiet /\ Opened /\ ~ flushed
  /\ BeginFlush(FALSE)
  /\ UNCHANGED <<disk, head, memory, wrote, failed, crashed, wild, bounds>>

(* A seek or a tell fails on the way: the flush is given up, and a close   *)
(* closes the file all the same.                                           *)
FlushFails ==
  /\ op.fn = "flush" /\ faults < MaxFaults
  /\ IF op.close THEN LetGo ELSE UNCHANGED memory
  /\ op' = Idle /\ faults' = faults + 1 /\ torn' = TRUE
  /\ UNCHANGED <<disk, head, wrote, failed, unsaid, crashed, wild, writes>>

(* The header is written in place when the tables are.                     *)
WriteHeader ==
  /\ op.fn = "flush" /\ op.todo = <<>>
  /\ head' = {[chrt |-> chrtaddr, symt |-> chrtaddr + 1]}
  /\ IF op.close THEN LetGo
     ELSE flushed' = TRUE /\ UNCHANGED <<mode, symtab, chrtaddr>>
  /\ op' = Idle
  /\ UNCHANGED <<disk, ghosts, wild, bounds>>

-----------------------------------------------------------------------------
(* Reading and writing variables.                                          *)

(* _lite_PD_rd_syment marks the file as not flushed.                       *)
Read ==
  /\ Quiet /\ Opened /\ flushed
  /\ \E n \in Known : symtab[n].num > 0
  /\ flushed' = FALSE
  /\ UNCHANGED <<disk, head, mode, symtab, chrtaddr, op, ghosts, wild, bounds>>

Install(n, k) == symtab' = [m \in Known \cup {n} |->
                   IF m = n THEN [addr |-> chrtaddr, num |-> k] ELSE symtab[m]]

(* _lite_PD_wr_syment: from here the tables on the disk are out of date.   *)
OutOfDate_not == UNCHANGED flushed
OutOfDate == flushed' = FALSE

Writable == mode \in {"PD_CREATE", "PD_APPEND"} /\ writes < MaxWrites

(* _PD_write of a variable the file does not have: its entry is installed  *)
(* at the end of the data and then the data are written there.             *)
WriteNew(n, k) ==
  /\ Quiet /\ Writable /\ n \notin Known /\ chrtaddr + k + 1 <= MaxAddr
  /\ Install(n, k)
  /\ writes' = writes + 1
  /\ \/ /\ OutOfDate
        /\ op' = [Idle EXCEPT !.fn = "write", !.name = n, !.num = k,
                              !.todo = Elements(n, chrtaddr, 0, k, writes')]
        /\ UNCHANGED <<failed, faults>>
     \/ /\ faults < MaxFaults   \* the seek fails
        /\ failed' = failed \cup {n} /\ faults' = faults + 1
        /\ UNCHANGED <<flushed, op>>
  /\ UNCHANGED <<disk, head, mode, chrtaddr, wrote, unsaid, torn, crashed, wild>>

(* Of a variable it has: in place, and nothing checks that it fits.        *)
Fits_any(n, k) == TRUE
Fits(n, k) == k <= symtab[n].num
WriteAgain(n, k) ==
  /\ Quiet /\ Writable /\ n \in Known \cap Names /\ k > 0
  /\ writes' = writes + 1
  /\ IF Fits(n, k)
     THEN /\ OutOfDate
          /\ op' = [Idle EXCEPT !.fn = "again", !.name = n, !.num = k,
                                !.todo = Elements(n, symtab[n].addr, 0, k, writes')]
          /\ UNCHANGED wild
     ELSE wild' = TRUE /\ UNCHANGED <<flushed, op>>
  /\ UNCHANGED <<disk, head, mode, symtab, chrtaddr, ghosts, faults>>

(* db_pdb_WriteSlice of a new variable: lite_PD_defent reserves the space  *)
(* for all of it, by a byte written one past its end, and leaves flushed   *)
(* alone.                                                                  *)
SliceNew(n, k, first, num) ==
  /\ Quiet /\ Writable /\ n \notin Known /\ k > 0 /\ num > 0
  /\ chrtaddr + k + 1 <= MaxAddr
  /\ Install(n, k)
  /\ writes' = writes + 1
  /\ op' = [Idle EXCEPT !.fn = "define", !.name = n, !.first = first, !.num = num,
                        !.todo = << [at |-> chrtaddr + k, cell |-> Torn] >>]
  /\ UNCHANGED <<disk, head, mode, chrtaddr, flushed, ghosts, wild, faults>>

BeginSlice(n, first, num) ==
  op' = [Idle EXCEPT !.fn = "again", !.name = n, !.first = first, !.num = num,
                     !.todo = Elements(n, symtab[n].addr, first, num, writes)]

(* Only now are the offset and the length compared with the size.          *)
SliceDefined ==
  /\ op.fn = "define" /\ op.todo = <<>>
  /\ chrtaddr' = chrtaddr + symtab[op.name].num
  /\ IF op.first + op.num <= symtab[op.name].num
     THEN /\ OutOfDate
          /\ BeginSlice(op.name, op.first, op.num)
          /\ wrote' = [m \in DOMAIN wrote \cup {op.name} |->
                IF m = op.name THEN [i \in 0..(symtab[m].num - 1) |-> 0] ELSE wrote[m]]
          /\ UNCHANGED unsaid
     ELSE op' = Idle /\ unsaid' = TRUE /\ UNCHANGED <<flushed, wrote>>
  /\ UNCHANGED <<disk, head, mode, symtab, failed, torn, crashed, wild, bounds>>

SliceAgain(n, k, first, num) ==
  /\ Quiet /\ Writable /\ n \in Known \cap Names /\ k = symtab[n].num /\ num > 0
  /\ first + num <= k
  /\ writes' = writes + 1
  /\ OutOfDate
  /\ op' = [Idle EXCEPT !.fn = "again", !.name = n, !.first = first, !.num = num,
                        !.todo = Elements(n, symtab[n].addr, first, num, writes')]
  /\ UNCHANGED <<disk, head, mode, symtab, chrtaddr, ghosts, wild, faults>>

(* A write is over.  Only a new variable moves the end of the data.        *)
EndOfData_stays  == UNCHANGED chrtaddr
EndOfData == chrtaddr' = IF op.fn = "write" THEN chrtaddr + op.num ELSE chrtaddr

Wrote(n) ==
  LET old == IF n \in DOMAIN wrote THEN wrote[n] ELSE [i \in 0..(op.num - 1) |-> 0]
  IN  [m \in DOMAIN wrote \cup {n} |->
        IF m # n THEN wrote[m]
        ELSE [i \in DOMAIN old |->
               IF i \in op.first..(op.first + op.num - 1) THEN writes ELSE old[i]]]
Finish ==
  /\ op.fn \in {"write", "again"} /\ op.todo = <<>>
  /\ EndOfData
  /\ wrote' = Wrote(op.name)
  /\ op' = Idle
  /\ UNCHANGED <<disk, head, mode, symtab, flushed, failed, unsaid, torn, crashed, wild, bounds>>

-----------------------------------------------------------------------------
(* The disk.                                                               *)
Io ==
  /\ op.todo # <<>>
  /\ disk' = [disk EXCEPT ![Head(op.todo).at] = Head(op.todo).cell]
  /\ op' = [op EXCEPT !.todo = Tail(@)]
  /\ UNCHANGED <<head, memory, ghosts, wild, bounds>>

(* A write is refused, all of it or in part.  _PD_write and lite_PD_defent *)
(* give up and leave the entry; the results of the writes of the tables    *)
(* are not looked at.                                                      *)
Refused == disk' = disk \/ disk' = [disk EXCEPT ![Head(op.todo).at] = Torn]
IoFails ==
  /\ op.todo # <<>> /\ faults < MaxFaults
  /\ Refused
  /\ faults' = faults + 1
  /\ IF op.fn = "flush"
     THEN op' = [op EXCEPT !.todo = Tail(@)] /\ torn' = TRUE /\ UNCHANGED failed
     ELSE op' = Idle /\ failed' = failed \cup {op.name} /\ UNCHANGED torn
  /\ UNCHANGED <<head, memory, wrote, unsaid, crashed, wild, writes>>

(* The process dies, in the middle of a write perhaps.                     *)
Crash ==
  /\ Opened /\ ~ wild
  /\ IF op.todo = <<>> THEN disk' = disk ELSE Refused
  /\ LetGo /\ op' = Idle
  /\ crashed' = ~ (op = Idle /\ flushed)
  /\ UNCHANGED <<head, wrote, failed, unsaid, torn, wild, bounds>>

Next ==
  \/ Create \/ OpenDamaged \/ \E m \in {"PD_APPEND", "PD_OPEN"} : Open(m)
  \/ Close \/ Flush \/ FlushFails \/ WriteHeader
  \/ Read
  \/ \E n \in Names, k \in Sizes :
       \/ WriteNew(n, k) \/ WriteAgain(n, k)
       \/ \E first \in 0..(k - 1), num \in Sizes :
            SliceNew(n, k, first, num) \/ SliceAgain(n, k, first, num)
  \/ SliceDefined \/ Finish
  \/ Io \/ IoFails \/ Crash

Spec == Init /\ [][Next]_pvars

-----------------------------------------------------------------------------
(* Two entries of the symbol table never share storage, unless the data of *)
(* one of them could not be written: then the entry stays, the end of the  *)
(* data does not move, and the next new variable is put in its place. And  *)
(* what was written lies below chrtaddr, where the next variable and the   *)
(* tables go: only the entry being written starts there.                   *)
StorageDisjoint ==
  \A m \in Known \ failed :
    /\ \A n \in Known \ failed :
         m # n => Extent(symtab[m]) \cap Extent(symtab[n]) = {}
    /\ \/ symtab[m].addr + symtab[m].num <= chrtaddr
       \/ op.fn \in {"write", "define"} /\ m = op.name

(* Every element holds what the last call that wrote it put there, for all *)
(* entries but the one being written and those whose write was refused,    *)
(* as long as no refused entry has its storage where a later one is.       *)
StoredAsWritten ==
  failed = {} /\ ~ wild =>
    \A n \in Known \cap DOMAIN wrote : n # op.name \/ op = Idle =>
      \A i \in DOMAIN wrote[n] :
        wrote[n][i] > 0 => disk[symtab[n].addr + i] = Datum(n, wrote[n][i])

(* While the library believes the file flushed, a reader (or this process, *)
(* after a crash) finds in it the symbol table that is in memory.          *)
FlushedIsOnDisk ==
  Opened /\ flushed /\ op = Idle /\ ~ torn /\ ~ unsaid /\ failed = {} =>
    Readable /\ OnDisk = symtab

(* A file that was closed opens again, with every variable in it.          *)
Complete ==
  /\ Readable
  /\ \A n \in DOMAIN wrote \ failed :
       /\ n \in DOMAIN OnDisk
       /\ \A i \in DOMAIN wrote[n] :
            wrote[n][i] > 0 => disk[OnDisk[n].addr + i] = Datum(n, wrote[n][i])
ClosedIsComplete ==
  ~ Opened /\ ~ wild /\ ~ crashed /\ writes > 0 /\ ~ torn /\ ~ unsaid /\ failed = {}
    => Complete

(* The same whatever slice the library has refused: lite_PD_flush is to    *)
(* "Dump the data description tables containing the current state of the   *)
(* PDB file" (pdb.c:1459).                                                 *)
RefusedSliceHarmless ==
  ~ Opened /\ ~ wild /\ ~ crashed /\ writes > 0 /\ faults = 0 => Complete
=============================================================================
