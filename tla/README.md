# Silo in TLA+

Silo is a C library that writes scientific data (meshes, variables, materials)
to self-describing files. It has a device-independent layer
(`src/src/silo/`) that dispatches each call to a driver chosen when the file
is opened; the two that write are PDB (`src/src/pdb_drv/` on top of the
bundled PDB lite, `src/src/pdb/` and `src/src/score/`) and HDF5
(`src/src/hdf5_drv/`), which has a virtual file driver of its own for HDF5.
A header-only library, `src/src/silo/pmpio.h`, lets the ranks of a parallel
program take turns at writing shared files.

This directory holds specifications of the parts of Silo where the order of
steps matters and tests reach least, the TLC runs that check them on small
instances, and TLAPS proofs for all sizes. `PROJECT.json` lists runs,
theorems, hazards, findings, and for each definition the source lines it
stands for.

    tlc -workers 2 -config SiloVFD.cfg MCSiloVFD     # a run
    tlapm SiloVFD_proofs.tla                         # a proof

There are two kinds of model here. Where a component has a protocol of its own
(a cache, a baton, a list of files, a directory, the tables of a file, an
object put twice), a module has its state and an action for each operation.
Where a component is many functions that are each a sequence of fallible steps
(the drivers, PDB lite, the Fortran interface), a module gives every function
as its steps, and one machine, `Calls`, carries them out with everything that
can go wrong.

## 1. The system

Silo has no threads. What makes it hard is elsewhere: a cache between the
caller and the disk, system calls that fail half way through a call, `longjmp`
out of calls that had clean-up left to do, and processes that wait on each
other. "Jump" below always means the `longjmp` by which `db_perror` leaves an
API call (`silo.c`, `db_perror`; the `setjmp` is in `API_BEGIN`,
`silo_private.h`).

| Component | State | Operations | Interacts with | Correct when |
|---|---|---|---|---|
| Virtual file driver, `H5FDsilo.c` | fields of `H5FD_silo_t`: block cache, position and direction of the descriptor, three ends of file, a clock | open, close, read, write, truncate, set_eoa, get_eof; preemption of blocks | called by the HDF5 library, calls the kernel | no byte is lost or moved by eviction, partial write, seek elision, close and reopen; a read-only file is not touched; every call ends |
| Block list, `H5FDsilo.c` | `block_list[]`, `num_blocks` | binary search exact or for a place, next slot, insert, remove | inside the driver | sorted; a search finds what is there and a place for what is not |
| PMPIO, `pmpio.h` | one baton per rank and file: neighbours, tag, error | init, wait, hand off, finish, rank queries | MPI, the application's open and close callbacks | one rank of a group has the file; errors are passed on; nobody waits for ever |
| File layer, `silo.c` | `_db_fstatus` (ids), `_db_regstatus` (open files), error level | DBOpen, DBCreate, DBClose, DBInqFile, DBShowErrors | drivers, file system | many readers or one writer; unique ids; live handles are known; levels come back |
| API contexts, `silo_private.h`, `silo.c` | jump stack, `jold`/`jstat`, saved directory | API_BEGIN/END, context_switch, context_restore | around every call | the directory of a file is the same after a call as before, error or not |
| Table of contents and directories | `DBtoc` per file, current directory | DBNewToc, DBMkDir, DBSetDir, DBCd | contexts, drivers | the TOC belongs to the current directory |
| Path names | none | db_normalize_path, db_join_path, db_dirname, ... | contexts, drivers | idempotent; joins name the same object |
| Name schemes, `silo_ns.c` | expression trees, a circular cache of results | DBMakeNamescheme, DBGetName, DBFreeNamescheme | application | name of n depends on n only; a result lives as long as promised |
| Hash table of PDB lite, `schash.c` | buckets | install, lookup, remove | PDB lite | a map from names to entries |
| PDB lite files, `pdb.c`, `pdlow.c`, ... | in-memory charts, address of the tail | open, write, append, flush, close | PDB driver, stdio | a flushed file can be opened and has every entry |
| PDB driver, HDF5 driver | driver part of `DBfile` | a callback per object type | file layer, PDB lite or HDF5 | what is put is what is got; every way out gives back handles and memory |
| Driver table and option sets | tables of function pointers and options | registration, DBRegisterFileOptionsSet | DBOpen | lookup of what was registered |
| Objects, option lists, copies, region trees | application memory | Alloc/Free, DBMakeOptlist, DBAddOption, DBCp, DBMakeMrgtree | application | no leaks or dangling fields |
| Global and file settings | scalars | DBSet/DBGet pairs | read by drivers | last value set |
| netCDF, Taurus, debug drivers | reader state | read callbacks | file layer | sequential readers and a tracer |
| Filters | replaced callbacks | DBRegisterFilter... | DBOpen | run once per open |
| extface, utils | none | geometry | application | numeric |
| Fortran interface, `silo_f.c` | table of pointers that stand for integers | a wrapper of each call | everything | an id is the object it was given for; what is copied is freed; a failure is told |
| JSON interface, `silo_json.c` | external arrays | conversion to buffers and files | application | what is taken is given back |
| fpzip, hzip, zfp (vendored) | codec state | compress, decompress | HDF5 filters | third-party |
| Tools (browser, silex, silock, silodiff) | GUI, scripts | read files | the library | applications |

All are modelled but path names, the vendored codecs and the tools: the virtual
file driver, its list, PMPIO and the Fortran interface wholly, the others in
part. What is left out of each is in its note in `PROJECT.json`; section 6 has
the reasons.

Behaviours that are hard to test, at the line where they bite, are in
`PROJECT.json` under "hazards" with the property that would catch them. The
main ones: the cached position that decides whether to seek (`H5FDsilo.c:853`);
blocks loaded past the end of the file (`:1100`); the early exits of the binary
search (`:708`); a slot number carried from one block to the next while blocks
move (`:2217`); unequal groups (`pmpio.h:306`), synchronous sends with several
batons (`pmpio.h:428`); an id that is given back only if the driver returns
(`silo.c:4186`); a file that is registered before filters can still fail
(`silo.c:4204`); frames and directories kept in static variables of a function
that enters itself (`silo_private.h:289`); a table of contents that outlives
what it lists (`silo.c:6634`); data written over the tables of the last flush
(`pdb.c:1085`); a failed write whose entry stays (`pdb.c:1040`); options of one
call that reach the next (`silo.c:11780`); a header replaced before a call fails
(`silo_hdf5.c:4837`); slots of the table of pointers that are used again
(`silo_f.c:159`); jumps past the statement that frees a copy (`silo_f.c:945`).

## 2. The modules

| Module | Models | Proofs |
|---|---|---|
| `FlatFile` | abstract: a file is an array of bytes that reads and writes fill or return in order | |
| `SiloVFD` | the virtual file driver and the kernel's descriptor; implements `FlatFile` | `SiloVFD_proofs` |
| `BlockSet` | abstract: a set of at most `max_blocks` ids | |
| `BlockList` | the array of blocks; implements `BlockSet` | `BlockList_proofs` |
| `PMPIO` | baton passing among MPI ranks | `PMPIO_proofs` |
| `FileLocks` | abstract: readers-or-writer locks on files | |
| `SiloFiles` | opening and closing files, ids, error levels and jumps; implements `FileLocks` | `SiloFiles_proofs` |
| `SiloContext` | entry into the library: frames and their static variables, the directory a call works in, the table of contents, the cached group | `SiloContext_proofs` |
| `PdbFile` | a PDB file cell by cell: data, tables, failing writes, the death of the process | `PdbFile_proofs` |
| `Objects` | the 26 kinds of object: what a call may supply | |
| `PdbObjects`, `Hdf5Objects` | the Put and Get callback of each kind, for each driver | |
| `ObjectLoss` | abstract: what a driver gives back of what it was given, with the exceptions | `ObjectStore_proofs` |
| `ObjectStore` | two objects of a directory put again and again, with what calls leave behind in the process and a write that is refused | `ObjectStore_proofs` |
| `ApiChecks`, `ApiReads` | the checks of every public function, in order | |
| `ApiRules` | which functions keep the rules on overwriting and grabbed drivers | `Calls_proofs` |
| `CallSteps` | the language of steps | |
| `FortranCalls`, `SiloCalls`, `AllocCalls`, `SchemeCalls`, `Hdf5Calls`, `PdbCalls`, `LiteCalls`, `LiteDataCalls`, `ReaderCalls` | every function of a component as its steps; what it loses (`...Lost`) and what it does not tell (`...Silent`) | |
| `Calls` | a program that calls them, the table of Fortran pointers, errors and jumps | `Calls_proofs` |
| `MC...` | values of constants for TLC (`BlockList` has only numbers and needs none) | |

`MCCalls` composes `Calls` with the nine modules of steps; `ObjectStore` composes
the two drivers with the store and is held to `ObjectLoss`.

A definition whose name ends in `_something` and whose comment is "mutant" is
a plausible bug, used to see that a property notices it; no specification
refers to it.

## 3. How the models correspond to the code

### SiloVFD (`src/src/hdf5_drv/H5FDsilo.c`)

The file is cut into blocks of `BlockSize` bytes, of which at most `MaxBlocks`
are in memory. State: the fields of `H5FD_silo_t` under their own names
(`eoa`, `eof`, `file_eof`, `pos`, `op`, `op_counter`), `cache` (the function
from block id to block that `block_list` represents; the array is
`BlockList`'s), and the kernel's side: the bytes `disk`, the size `dlen`, the
offset `fdpos`. `req` is the call in progress. `written`, what a caller last
wrote at each address, is a ghost, as is the count `faults`.

| Action | Code |
|---|---|
| `Open` | `H5FD_silo_open`: the `stat` gives `eof` and `file_eof`; truncation; an empty cache |
| `SetEoa`, `Truncate` | `H5FD_silo_set_eoa`; `H5FD_silo_truncate`, which returns before its body |
| `BeginWrite`, `BeginRead` | the checks at the head of `H5FD_silo_write` and `H5FD_silo_read` |
| `Evict` | `find_block_to_preempt`, `free_block_by_index` (with `file_write_block`) |
| `Load` | `alloc_block_by_id` (with `file_read_block`, or a buffer of `malloc`) |
| `Put`, `Get` | `put_data_to_block_by_index`, `get_data_from_block_by_index` |
| `Return` | the end of the loop |
| `BeginClose`, `Flush`, `Close` | `H5FD_silo_close`: its loop over the blocks, then `close` |

A pass of the loop of a read or write is at most one `Evict`, one `Load` and
one `Put` or `Get`. They exclude each other by what they leave behind, so the
split adds no behaviour: it only makes the state between them visible.
`WriteBlock` and `ReadBlock` translate `file_write` and `file_read`: the seek
is skipped when `pos` and `op` say so, and a failed system call returns before
`pos` and `op` are updated. A system call that fails transfers nothing and
may or may not have moved the offset; short transfers that make progress are
retried by the code and come out as one.

`Junk` is what `malloc` leaves in a block that starts at or past the end of
the file. The kernel fills holes with `Zero`.

### BlockList (same file)

`bl`, `num_blocks` and `blidx` are the array, its length and the slot in
hand; `bot`, `top`, `mid` are the variables of `find_block_index_by_id`, whose
loop is the actions `Hit`, `Above`, `Below`, `Miss`, one per branch. The
search is exact (`"EXACT"`) or for the slot after which a new block goes
(`"CLOSEST"`). `NextSlot` is the shortcut of `H5FD_silo_read/write`: the slot
after the one used last is tried before any search. `Preempt` and `Insert`
shift the array (`Closed`, `Opened`).

### PMPIO (`src/src/silo/pmpio.h`)

Every rank runs the same `Program`, a sequence of waits and hand-offs on
batons. `groupRank`, `rankInGroup`, `hasBefore`, `hasAfter` are the arithmetic
of `PMPIO_Init`. `Start`, `Receive` and `ReceiveError` are
`PMPIO_WaitForBaton`; `HandOff` and `Sent` are `PMPIO_HandOffBaton`, in two
steps because its `MPI_Ssend` waits for the receiver. `MayFail` lets receives
and the application's callbacks fail. MPI is external: a message between two
ranks with one tag is delivered once, in order.

### SiloFiles (`src/src/silo/silo.c`, `src/src/unknown/silo_unknown.c`)

`fstatus` is `_db_fstatus` and `vhand` the static start of the search in
`db_get_fileid`; `reg` is `_db_regstatus`, the list of open files with no gap,
each with the identity of its file (`inode`, from `stat`) and whether it is
being written. `level`, `old`, `nested` are `_db_err_level` and the statics
of `DBShowErrors`. `held` are the handles the application has, `inq` the
progress of `DBInqFile`.

`Open`/`RefuseOpen` and `Create` translate `DBOpenReal` and `DBCreateReal`:
the checks, `db_get_fileid`, the driver, `db_register_file`, and what runs
after it. `Succeed` and `Fail` each have two outcomes, because with the
levels `NONE` and `TOP` an error leaves the call by a jump (`Unwinds`) and
skips what is left: the return of the id in `Fail`, the return of the handle
in `Succeed`. `Close` is `DBClose` with `db_unregister_file`; `InqFile`,
`InqResume`, `InqClose` and an `Open` in between are `DBInqFile`. `Unlink` is
anybody removing a name while the file may be open. Drivers are external:
they succeed, or fail with or without reporting.

After a jump out of `DBInqFile`, its local `dbfile` was changed since the
`setjmp` and is indeterminate in C: `InqResume` lets it be either value.

### SiloContext (`silo_private.h`, `silo.c`, `silo_pdb.c`)

`API_BEGIN2` pushes a frame when the jump stack is empty, moves to the directory
of the name it is given and keeps the old one in `jold`; `API_END` moves back and
pops. `jstat` and `jold` are static in each function: `Begin` resets them, so a
function that enters itself (`DBGetVarByteLength` for the components of an
object) overwrites those of its caller. `calls` are the calls in progress,
outermost first, `jstk` says whether the stack is empty, has a live frame or one
whose function has returned; a jump into the last is `wild`, after which nothing
is claimed.

| Action | Code |
|---|---|
| `Begin`, `BeginElsewhere`, `BeginFails` | `API_BEGIN2` with the name in this directory, in another, in none (`context_switch`) |
| `Return`, `Jump` | `API_RETURN` and `API_END`; the code after the `setjmp` |
| `SetDir`, `MkDir`, `MkDirPUp`, `MkDirPDown`, `MkDirPBack` | `DBSetDir`, `DBMkDir`, `DBMkDirP` segment by segment |
| `Write`, `ReadVar`, `PutComponent`, `PutHeader`, `WriteObject` | `DBWrite`, `DBReadVar`, the two halves of `DBPutCurve`, `DBWriteObject` of the program's own |
| `GetCurve`, `VarByteLength`, `GetToc`, `InqFileHasObjects` | with the group that `PJ_GetObject` keeps, and the table of contents |

`dirs` and `vars` are the symbols of the PDB file; `Resolve` is what
`lite_PD_fixname` and the path functions make of a name. `unseen` (symbols that
entered without `db_FreeToc`) and `measured` (an object was measured) are
histories.

### PdbFile (`src/src/pdb/pdb.c`, `pdlow.c`, `pdrdwr.c`, `silo_pdb.c`)

The disk is an array of cells: an element of a variable, the structure chart, the
symbol table. A call is a list of cells still to write (`op.todo`), one a step
(`Io`), so that a write may be refused (`IoFails`) and the process die (`Crash`)
between any two. What stdio holds back at a crash is a suffix of the writes, so
the disk of a crash is the disk of an earlier step. `symtab`, `chrtaddr`, `mode`
and `flushed` are the fields of `PDBfile`; `head` is the header with the
addresses of the tables. `WriteNew` and `WriteAgain` are `lite_PD_write` of a
new and of a known variable, `SliceNew`, `SliceDefined` and `SliceAgain`
`db_pdb_WriteSlice`, which defines before it checks; `Flush`, `FlushFails` and
`WriteHeader` are `lite_PD_flush`; `Create`, `Open`, `OpenDamaged`, `Read` and
`Close` are named for the code. A write of more elements than an entry has
makes the model `wild`.

### Objects, drivers and ObjectStore (`silo.h.in`, `silo_pdb.c`, `silo_hdf5.c`)

A call is the set of pieces its caller supplied, each named for the field of the
structure that returns it. `PdbObjects` and `Hdf5Objects` say for each kind what
the Put callback writes and what the Get callback reads, with their conditions.
In `ObjectStore` a value is the number of the call that supplied it (`Wrong` if
none did). A PDB object is a header that names variables of its directory, some
of them shared: `time`, the dimensions of a quad mesh, and the values of a quad,
ucd or csg variable and those of its mixed zones, which the driver names after the
component the caller gives (`silo_pdb.c:10353`, 10380, 10667, 11333, 11344) and not
after the object. So a call also chooses a component (`Components`), `Owner` says whose
a variable is, and `Held` is the one that a header names. An HDF5 object is an
attribute with the members of the first call, which a later call is converted
to, and data sets made anew. `left` is what the option structures of the process
(`_ma`, `_ms`, `_pm`, `_um`) keep from one call to the next. A refused write ends
a call where its driver looks at the result, and nowhere else. `Accepts` says what
a caller may supply, and `StoreAssumption` that every call of an instance is one of
these; the first form of `Accepts`, which asked every kind for the lengths of the
arrays that another kind has under the same name, let no material with `matnos`
through, and it was the proof of `AllReturned` that showed it.

### ApiChecks, ApiReads, ApiRules (`silo.c`)

Each public function is the sequence of its checks, in order, with the error of
each; a call is described by what the checks look at (`file`, `listed`,
`grabbed`, `given` and so on). `Verdict` is the first error.

### CallSteps, the modules of steps, and Calls

`CallSteps` has a constructor for each kind of step: a check, a call whose result
is looked at or not, memory or a handle that is taken (`Open`, `Copy`, `More`),
given back (`Free`) or handed to somebody else (`Keep`), a branch, a loop,
`PROTECT` with its `CLEANUP` (`Guard`), a frame of PDB lite (`Catch`, `Throw`), a
handle of a Fortran program (`Look`, `Need`, `Give`, `Drop`, `Forget`). A function
is a `Script`: its steps, how it reports its own errors (`db_perror`, `API_ERROR`,
`UNWIND`, a result, a frame of PDB lite) and whether its answer says what the
functions it calls said. The data are left out: a condition on them is a branch
that may go either way.

Small functions that stand next to each other in the source and have to do with
each other are one definition, a record with a field for each (`Reading`,
`SymbolEntries`, `HashTables`, ...); its lines in `PROJECT.json` run from the first of
them to the last. A definition that only abbreviates steps which several functions
have (`Scratch`, `MeshData`) has no entry of its own: what it stands for is in the
lines of the functions that use it.

`Calls` carries a script out step by step (`Checked`, `Acquired`, `Copied`, `Freed`,
`Guarded`, `Succeeds`, `Fails`, ...). How a call of another function may come back
(`Outcomes`) is computed from that function's own script, through all of PDB
lite to a fixed point, because `lite_PD_error` jumps to the frame that was last
set for the kind of error, not to that of the function under way. With `DB_NONE`
and `DB_TOP` an error jumps, with `DB_ALL` it returns, unless a `PROTECT` is around
it. `pointers`, `max` and `empty` are the table `DBFortranPointers` of `silo_f.c`,
with its growth, its failure to grow and the slots used again. `ScriptsAssumption` is
what the proofs need to know of the scripts: an id is given in the last step of a
function, and a function that takes an id back does nothing besides, but for the
call of the C function that frees the object, next to which it takes the id back. TLC
evaluates it on all of them.

`Lost` and `Silent` are what the code loses and does not tell: `CopiesReturned` and
`FailureReported` say that there is nothing else. They were written by reading the
code, and the run refutes any that is not named; section 7 goes through them.
`Hiding` finds the second kind without a run: the functions with a step that
ignores what a callee returns, or does not tell it, and after which no error is
certain to follow. The assumption `Excused` of `MCCalls` says that every name in
`Silent` is one of those, so none is excused without a step that hides something.

## 4. The runs

States are distinct states of TLC's complete search.

| Run | Checks | States |
|---|---|---|
| `vfd` | Three blocks of two bytes, a cache of two, writes of one and three bytes and reads of three at every address, any number of opens and closes: `TypeOK`, `Coherent` (nothing written is lost or moved, in memory or on disk), `CleanBlocksOnDisk`, `DescriptorTracked` (a seek is skipped only where it may be), `CloseIsDurable`, `EofIsHighWater`, `ImplementsFlatFile` | 2 229 610 |
| `vfd_faults` | Four blocks through a cache of three, raw data and metadata competing, one system call fails: `ReadOnlyUntouched`, `CallsReturn` (every call ends) | 63 019 |
| `blocklist` | All calls over seven ids through four slots: `UsesItsBlock`, `InsertsInPlace`, `CallsEnd`, `ImplementsBlockSet` | 33 428 |
| `pmpio_interleaved` | Five ranks in groups of three and two, two batons at once, callbacks and receives that may fail: `OneHolderPerGroup`, `CreatedByFirst`, `ErrorStopsGroup`, `AllFinish` | 16 492 |
| `pmpio_nested` | finding, section 7 | |
| `files` | Three ids, three handles, two files under two names, one level of suspension: `ReadersOrWriter`, `HandlesListed`, `IdsUnique`, `ImplementsFileLocks` | 298 422 |
| `files_leak` | finding | |
| `ctx` | A program makes and enters directories, writes, puts, reads, measures and lists by relative and absolute names, at both kinds of error level, one write refused: `FrameLeftOnlyByLength`, `DirectoryKept`, `TocListsDirectory`, `CachedGroupIsCurrent`, `ParentsExist` | 2 598 174 |
| `pdb` | Two variables of up to two elements, whole and in slices, a failing system call, the death of the process between any two writes: `StorageDisjoint`, `StoredAsWritten`, `FlushedIsOnDisk`, `ClosedIsComplete` | 2 336 845 |
| `pdb_slice` | finding | |
| `objects` | Sixteen pairs of kinds, both drivers, two or more sets of pieces for each kind, two names of components, three puts, one refused: `NothingLost` (all of a put comes back but for what `ObjectLoss` names), `FromACall`, `OfOnePut`, `NothingWrong`, `NamesOfThisCall`, `StaysAsPut` | 183 564 |
| `calls` | Every function of the nine modules of steps, with what it calls failing by a jump or by its result: `IdsRefer`, `HeldAreLive`, `CopiesReturned`, `FailureReported` | 822 413 |

Every property of a passing run has a mutant in `PROJECT.json`: a change to
one definition that a bug in the code could make, and that the run refutes.

### Bounds, and why they are enough

* `MaxId`, `BlockSize`, `MaxBlocks`: three blocks and two in memory make every
  call possible that starts, ends or lies inside a block and crosses into
  the next while a third is preempted. The choice among victims shows only
  with three in memory, hence the shape of `vfd_faults`; blocks of one byte
  there keep the states few.
* `MaxAge`: no call starts once the clock is past it. A call takes at most two
  ticks for each block, so four is enough for a load, a hit, an eviction and
  the reload of a block within one opening. The clock starts again at each
  open, so openings are not bounded.
* `DiskAddr` is twice the address space: after a failed transfer a skipped
  seek can put a block at the wrong offset, but a descriptor is never further
  from `pos` than the file is long (`Drift` in `SiloVFD_proofs`, proved).
* `MaxFaults` is one wherever something may fail, since the code has no retries
  whose exhaustion would matter. The theorems hold for any number.
* PMPIO: groups of three and two have a first, a middle and a last rank and
  both sides of `commSplit`. Other sizes are covered by the lemmas
  `FirstOfGroup`, `GroupsInOrder` and `ShortGroups`, which hold for all.
* `BlockList`: with four slots the search takes up to three steps on either
  side and meets both ends of the array.
* `SiloFiles`: three ids suffice to fill, leak and reuse them; two files, to
  tell them apart; `MaxNested` of one, as `DBInqFile` suspends once and leaves
  one suspension open.
* `SiloContext`: three symbols written (a variable and the two of an object, or
  the same one again), directories two deep, so that a name may lead up, down
  and elsewhere; one name of the program is the name of the variable that a
  Put of another writes, which is where they collide.
* `PdbFile`: sizes zero, one and two, so that a slice may be a part; four writes
  let both variables be written twice; `MaxAddr` of seven holds both, the root
  entry and the tables, and a write past it is not begun.
* `ObjectStore`: a full call, one without time and names, one without elements
  where the kind allows it; three puts are a first, a second of the same name
  and one of the other. Two names of components let two variables name one alike or
  apart, and a variable change its own. `ucdsubmesh`, whose arrays are its parent's,
  and `multimeshadj`, which several calls fill, are in `PdbRoundTrip` and
  `Hdf5RoundTrip` only (`Placed`).
* `Calls`: two slots and two objects, so that a slot is emptied and used again
  while another is in use. Functions in C share nothing but memory, so each is
  called alone. Every script is entered, and every branch of it is taken.
* Symmetry is declared for handles, files and names (`SiloFiles`), for the objects
  (`Calls`) and for the components (`ObjectStore`), which are only compared; these
  runs check safety only.
* Deadlock is checked, except where the system may stop: all ids leaked
  (`SiloFiles`), the bound on writes or puts reached (`ctx`, `pdb`, `objects`), a
  jump into a dead frame or a crash (`ctx`, `calls`), and `pmpio_nested`, where
  the deadlock is the finding.

### Fairness

* `SiloVFD`, `BlockList`: `WF_vars(Step)`. A call that has begun runs in its
  caller's thread and keeps running; callers need not call.
* `PMPIO`: weak fairness for each rank, a process of its own. MPI promises
  progress to matched sends and receives.
* The others: none. They are sequential code in which a call consists of a
  bounded number of steps; nothing there waits.

## 5. The proofs

tlapm proves all of the following from nothing, for every value of the
constants that the assumptions allow (positive sizes; disjoint kinds of
values).

**SiloVFD** (`SiloVFD_proofs`). `TypeCorrect`, `ReadOnly` and `AgesDiffer` hold
whatever system calls fail. `NothingLost`, `SeeksAreSound`, `CleanMeansOnDisk`
and `CloseDurable` have the form `Spec => [](faults = 0 => P)`: the property
holds until a system call fails, which is as much as is true (section 7).
`DriverImplementsFlatFile` assumes `MaxFaults = 0`. The inductive invariant
is `Base /\ (faults = 0 => Faithful)`. `Faithful` joins `Coherent` (bytes),
`CleanBlocksOnDisk` (a clean block may be dropped: needed for `Evict`) and
`DescriptorTracked` (a skipped seek is right: needed wherever `Coherent` meets
the disk); none is inductive alone. `Base` keeps the request inside the
address space (`RequestInFile`), says that no block is dirty in a file opened
for reading (`Modes`: from it `ReadOnly` follows even with faults, and the
mode would not be enough) and bounds the descriptor (`Drift`). The refinement
maps `content` to `written`; `Put` is `Store`, `Get` is `Fetch`, and evictions,
loads and flushes stutter. The block arithmetic is in `InBlock` and `InFile`. `EofSound` has an invariant of
its own on top, `HighWater`: a dirty block starts below `eof` (`DirtyBelowEof`), without
which a close could leave a longer file than `eof` says.

`RoomIsFound` is about the one place where the driver trusts the cache to be
reasonable: `find_block_to_preempt` returns -1 if nothing qualifies, and its callers
index with the answer (`H5FDsilo.c:736`). With two blocks or more, and whatever fails,
a full cache has a victim, because the ages of blocks differ and lie below the
clock (`AgesDistinct`) and the blocks never exceed `MaxBlocks` (`HasRoom`). The
hypothesis `MaxBlocks > 1` is needed: the code accepts one (section 7).
`CallsRunOut` has a natural number, `Left`, that every step of a call brings down, and shows
that a call under way has a step to take. `CallsUseASet` joins this module to
`BlockList`: until it closes, what the driver does with its cache is what `BlockSet`
allows, the least block never preempted, none added when full. With `ListImplementsSet` the
array and its binary search can stand for the set `cached`.

**BlockList** (`BlockList_proofs`). `AlwaysSorted`, `SearchCorrect`,
`InsertionCorrect`, `ListImplementsSet`. The invariant adds to the properties what the
search knows: no id below `bot` or above `top` can be the one sought
(`Narrowed`), and, when it looks for a place, that the place is between them
(`PlaceBetween`), which is why it returns before they cross. The refinement
maps the array to the set of its ids, and proves that a shift adds or removes
just one. `CallsRunOut` counts the passes to come, each at its longest, and within a
pass the width of the search or the slots yet to shift; the sum falls at every
step, although a preemption starts the search again.

**PMPIO** (`PMPIO_proofs`). `TypeCorrect`, `FirstOfGroup` (a rank without
predecessor is the least of its group, for all sizes), and, for a program
that is `WellUsed`, `MutualExclusion`, `ErrorStops` and `FirstCreates`. `WellUsed` (each
call once, a wait before its hand-off) is the pattern of the header's example and
is an assumption of those three theorems and of the two below. The invariant says that a message
comes from a rank that has closed its file (`MessageFromClosed`), that a rank
has had its turn only after all before it in the group (`TurnsInOrder`), and
that errors have travelled as far as turns have (`ErrorPassed`). `FirstCreates` adds
that only a rank without predecessor creates (`CreatorIsFirst`).
`NobodyStuck` says that until all are done some rank is blocked neither in a receive nor in
a synchronous send. It needs besides that every baton waited for is handed off, and
batons in the order of their waits (`InOrder`): without it the run `pmpio_nested`
deadlocks. The invariant `Flow` relates the messages under way to where their sender and
receiver are; the argument takes the least rank that is neither done nor in a send: it, or
the rank before it, can go on. If there is none, the last rank in a send can. With `CallsRunOut`, that every
rank has a bounded number of steps, nobody waits for ever. The assumption `ProgramsTold` of
`MCPMPIO` has TLC confirm that both programs are `WellUsed` and only the interleaved
one is `InOrder`.

**SiloFiles** (`SiloFiles_proofs`). `TypeCorrect`, `OneWriter`, `IdsAreUnique`,
`HandlesAreListed`, `FilesImplementLocks`. The invariant says that the list is
packed and without duplicates and that files on the list and files with an id
are the same. `db_register_file` drops an entry when the list is full and
nobody looks; the lemma `Room` shows by pigeonhole that this cannot happen: a
free id means fewer open files than slots.

**SiloContext** (`SiloContext_proofs`). `FramesArePopped` and
`DirectoriesAreRestored` rest on `FrameInv`: unless an object was measured, either
no call is in progress, the stack is empty and there is no `jold` (`Idle`), or one is,
with a live frame of its own, and `jold` is the directory it started in whenever it
has left it, `DBSetDir` and `DBMkDirP` apart (`Busy`). `TocIsCurrent` rests on `TocInv`, which adds that nothing is
`unseen` when there is no table. `ParentsAreThere` rests on `PathInv`: every directory of
the file, each one that a call is in, that a frame is to go back to and that
`DBMkDirP` has come to, and the directory of each object a call is about, is there. It is
inductive only together with `FrameInv`, which says whose `jold` a jump restores.
`CacheIsCurrent` adds `CacheInv`: the name a group was read by resolves, from the directory
the file is in, to the object it was read from, or to one whose name the array of
another object has. What `Resolve` makes of a path of any length is in `Resolves`.
`ArgsAssumption` says what the program may ask for: paths of names and `..`, and for
a variable or an object one that ends in a name, or the root, which a call for an
object refuses (`Begin`). The exceptions in the properties are the ones the code
has; section 7.

**PdbFile** (`PdbFile_proofs`). Three invariants, each on top of the last. `IInv`
(types, what a call in progress still has to write, and where) gives
`StorageIsDisjoint`, whatever fails. `FInv` adds that the flag `flushed` is set
only at the end of a flush (`FlagOK`) and how far a flush has come
(`FlushOnItsWay`) and gives
`FlushedMeansOnDisk`. `SInv` adds, as long as nothing has failed (`Sound`), that
each element that was written is on the disk or in the rest of the call, and that
the rest writes nothing below `chrtaddr` but its own entry; it gives
`StoredIsWritten` and `ClosedFileComplete`. The separation of entries is needed
for the last: without it a write could undo another.

**Objects** (`ObjectStore_proofs`). `PdbRoundTrip` and `Hdf5RoundTrip`: for each of
the 26 kinds and every set of pieces, what a driver gives back of a first put is
what it was given, but for what `PdbLost` and `Hdf5Lost` name. There is a lemma
for each kind.

**ObjectStore** (the same module). For every pair of kinds of `Placed`, every set of
calls that the library accepts, any names of components and any number of puts and
refused writes: `OneCall`, `WrongOnlySo`, `AllSupplied`, `OwnNames`, `OthersStay` (an
action property) and `AllReturned`. `OneCall`, `AllSupplied` and `OthersStay` except the
arrays of a component in a PDB file (`OfComponent`, `SameComponent`): they may be of a
later call, for another object, that named the same component, and of no other. The
invariant `StoreInv` says what the option structures of the
process may hold and that a call supplied it (`LeftInv`), that the pieces a header
names come from its own call, what stays set apart (`HeadInv`), that what the header of a PDB object
names is on the disk with the value of that call, or of a later call with the same
component, or is `Wrong` (`NamedInv`), what any variable of the directory may hold, an
array of a component only what a call that named it supplied (`DiskInv`), and that the dimensions of a quad
mesh are there with its variable (`MeshInv`). The parts need each other: an option
that an earlier call left set gets into a header, from there into the disk, and out
by what the next call reads. `AllReturned` adds `WholeInv`: as long as nothing was
refused, an object can be read, and has what its last call supplied, and in HDF5
the members of the first call's header. The lemmas on single kinds say what a
callback writes of what it is given; they are the only place where kinds are told
apart.

**ApiRules** (`Calls_proofs`). For every call, no function that makes something
by a name reaches its driver when the name exists and may not be overwritten,
but `DBPutMultimeshadj`, `DBChangeObject`, `DBWriteSlice` and `DBWriteComponent`; and
none reaches it while a driver is grabbed, but the six named in `AskGrabbed`.

**Calls** (`Calls_proofs`). `IdsStayRight` and `ObjectsStayLive`, for every set of
functions that `ScriptsAssumption` allows, every size of the table and every set of
objects. Neither property is inductive. `CallInv` adds: an object that an
id is held for is gone only if its release failed, or while the step that takes the
id back comes next (`HeldInv`); what the table has for an id that is held was given
for it (`SlotInv`), even after the table was lost; two ids of one object mean that the release of one of them
failed (`OneIdInv`); the call under way frees the object of no other id, and of no
id any more once it has taken its own back (`ReleaseInv`); and what a call has made
is not yet the object of an id (`MadeInv`). That a slot used again is empty and that the
count of empty slots goes with it is `Allocates`. `FailuresAreSaid` has no need
of those: it says that `FailureReported` follows from `Hiding \subseteq Silent`, which is a
condition on the text of each function by itself. Its invariant, `FailInv`, is that inside a
function that is not `Silent` a failure has been told, or an error is certain to come: no
branch lies between here and a refusal (`Doomed`). So to check a function that is added
to the scripts it is enough to look at its steps one at a time. For the 689 functions here TLC
finds `Hiding = Silent`, with 145 names.

Induction over data comes from the well-founded order of the naturals: the least
counterexample exists by `NatLessThanWellFounded` and `WFMin`. `WalkDefined` (the
recursive function behind `Resolve`) and `LastSlot` are proved so; the
induction theorems of the library, which take an operator, are not used.

**Only model-checked.** `CallsReturn`, `CallsEnd` and `AllFinish` are liveness under
fairness. What they rest on is proved (`CallsRunOut` three times, `NobodyStuck`): a measure
falls, and there is a step to take. The last inference, that a step which stays possible is
taken, is TLC's. `CanStep` in those theorems is the guards of the actions written out, since
`ENABLED` is out of tlapm's reach. `CopiesReturned` says what hundreds of given functions leave
allocated on every way out of them, including by jumps that come from a fixed point over all of PDB lite;
it depends on each script and follows from no condition on single steps. TLC walks every way
through every script. The hypothesis of `FailuresAreSaid` is about given scripts too, and TLC's. The
findings are counterexamples.

## 6. What is not modelled, and why

* In the virtual file driver: a write that fails after part of its bytes went out
  (a failing call here transfers nothing); `get_eof` and the statistics, which
  change no state; the Windows variants; sizes past the range of `haddr_t`
  (the checks for them are before any state changes); two processes on one
  file, which Silo does not support.
* In PMPIO: what the callbacks do to a file (`SiloFiles` for the default ones),
  and `PMPIO_Finish`, which frees.
* In the file layer: `DB_ABORT`, which ends the process; collisions of the
  hash used for file identity; other processes that replace a file between
  its `stat` and its open. That a closed handle is known only by its address,
  which `malloc` may give out again (`silo.c:2059`).
* In `SiloContext`: links, `DBCpDir` and `DBCpListedObjects` (their steps are in
  `SiloCalls`), the directories of the HDF5 driver, which are groups.
* In `PdbFile`: the attribute table, which the driver never makes; entries of
  several blocks; types and their conversion.
* In the objects: sizes and types that every call has, and partial reads
  (`DBSetDataReadMask`) but for their steps. A variable has one component, which stands
  for all of them, and the array of a component is no other variable of the directory:
  that names put together from two parts may come out alike (`a_b` with `c`, `a` with
  `b_c`) is not modelled, nor what `ucdsubmesh` and `multimeshadj` share. The arrays of a
  curve are its own, not those that `DBOPT_XVARNAME` and `DBOPT_REFERENCE` point to.
* In the steps: data. A branch may go either way, so a function whose
  conditions exclude each other has more paths here than in C; what is proved
  absent is absent, and each entry of `Lost` and `Silent` was traced by hand to
  a path of the code. A second release of what was released before is not
  noticed. In the HDF5 driver, local variables changed between `setjmp` and
  `longjmp` are taken to be in memory; the build is serial; calls of HDF5 whose
  result nobody looks at and who take nothing are left out. In the Fortran
  interface, `DB_ABORT`, the number of options of a list and the stride of a list
  of names; a program does not release an id again whose release failed, and it forgets
  an id that it has handed to `DBRMPTR`, which empties the slot and leaves the
  program's variable as it is (`silo_f.c:245-249`; `Unset` in `Dropped`).
* Path names: `db_normalize_path`, `db_join_path` and `db_dirname` work on strings
  a character at a time and keep no state. What they compute is `Resolve`.
* The values of name schemes, the order in a bucket of the hash table, geometry
  (`extface.c`, materials, statistics), the byte conversions of `pdconv.c`, the
  tracing driver, the two sample filters, the conversion of each object to JSON:
  numeric or textual, without state that calls share.
* fpzip, hzip and zfp (third-party), the tools and the browser (applications).

## 7. Where code and prose disagree, and other things met

Three have runs of their own in which TLC finds the counterexample.

* `pmpio_nested`: `pmpio.h:255` says calls on batons with different tags "can be
  interleaved". If they are handed off in the reverse of the order of the
  waits, the synchronous send of one waits for a rank that waits for the
  other. In the order of the waits it works (`pmpio_interleaved`).
* `files_leak`: `silo.c:4045` says the id is freed "if open fails". A driver
  that fails by `db_perror` under the default level jumps past line 4188. After
  `DB_NFILES` such opens nothing can be opened.
* `pdb_slice`: `db_pdb_WriteSlice` defines a new variable before it checks the
  slice (`silo_pdb.c:7608`). The definition writes over the tables of the last flush
  (`pdb.c:1655`) and leaves the file marked as flushed, so the close, which is to
  "Dump the data description tables" (`pdb.c:1459`), skips it.

The following were met while modelling. Those marked with a property appear in
the models as an exception of that property; take the exception away, or allow a
fault, and TLC shows them.

**Virtual file driver.** Preemption (`H5FDsilo.c:1123`) and close (`:1610`) drop the
result of the write, free the block and report success, though both are
documented "Return: Non-negative on success/Negative on failure" (`CloseIsDurable`
with `MaxFaults = 1`). `:386` says that `pos` becomes undefined "when an error
occurs"; the macro that reports the error returns first, so lines 880 and 881
cannot run and a later transfer may skip a seek it needs (`:868`). Open accepts a
block count of one (`:1470`), but the search for a victim starts at the second
block (`:736`), finds none, and the caller indexes `block_list[-1]`. Reading past the
end returns what `malloc` left, not zeros (`:2023`). `H5FD_silo_truncate` returns
before its body.

**File layer.** `DBInqFile` calls `DBShowErrors(DB_RESUME)` to "Turn the error handling
back on." (`silo.c:4607`), but `db_unk_Open` (`silo_unknown.c:143`, `:308`) has suspended
once more and restored by value, so errors stay off. `DBShowErrors` clears the level
of drivers before it saves it (`silo.c:3593`).

**API entry.** `DBGetVarByteLength` of an object resets the static `jstat` of its
caller, whose frame stays on the stack; the next error jumps into a function
that has returned (`silo_private.h:193`, `:289`; `FrameLeftOnlyByLength`). A jump out
of `DBMkDirP` leaves the program in another directory (`DirectoryKept`). A NULL or
unlisted handle is refused by `API_BEGIN2` with `E_NOTREG` (`silo_private.h:292`,
`silo.c:2051`), so the later checks for `E_NOFILE` are dead; so is `DBWrite`'s
`E_NOTIMP` (6878), as `db_FullyDeprecatedConvention` is always 0. `DBPutQuadvar`
(9780), `DBPutUcdvar` (10094) and `DBPutCsgvar` (10702) test `!varnames[i] &&
!*varnames[i]`, which reads NULL. The flag of `DBGrabDriver` is one for all files
(2844). `DBCpDir` (5612) and `DBCpListedObjects` (6522) free the table of contents of
the source, not of `dstFile`; `DBWriteObject` (6616) and `DBChangeObject` (6564) free
none (`TocListsDirectory`). `WriteComponent` overwrites a variable of the same name
(6778); `PJ_put_group` asks the overwrite setting of the library, not of the
file (`silo_pdb.c:1669`).

**PDB file and driver.** `DBFlush` on a file opened for reading writes tables
(`pdb.c:1488`); any read marks the file as not flushed (`pdrdwr.c:375`); `chrtaddr`
becomes -1 when the position cannot be told (`pdb.c:1519`). `silo_pdb.c:7529`
reports success for data that was not written, against `:7515` "Returns OKAY on
success, OOPS on failure." (`NothingWrong`). The `time` of a directory is one
variable: a later object changes the time of an earlier (`StaysAsPut`, `Times`). The
values of a quad, ucd or csg variable are in `c_data`, and those of its mixed zones in
`c_mix`, for a component `c` (10353, 10380, 10667, 11333, 11344): two variables of a
directory with a component of the same name, such as a vector of `u` and `v` and a
scalar `u`, have one array, and the second put changes what the first returns; the
overwrite setting is only asked about the names of the objects (`StaysAsPut`,
`OfOnePut`, `FromACall`, `SameComponent`).
Losses (`PdbLost`): csgmesh `bndnames`, `origin`, `alt_nodenum_vars`; csgvar
`conserved`, `extensive`, `use_specmf`; csgzonelist `xforms`; pointvar `ascii_labels`, and
its values unless the process put a point mesh; quadvar `extensive` becomes
`conserved`; zonelist `lo_offset`, `hi_offset`; ucdsubmesh `mrgtree_name`, `phzonelist`,
`group_no`; multimesh `alt_*`; multimat `nmatnos`, `material_names`, `matcolors` without
`matnos`; multimatspecies `matname`.

**HDF5 driver.** Losses (`Hdf5Lost`): csgmesh `bndnames`; csgvar `dtime`, `use_specmf`,
`ascii_labels`; phzonelist `alt_zonenum_vars`; ucdsubmesh `phzonelist`, `group_no`; mrgtree
`src_mesh_type` (15905, 15913); multimatspecies `matname`. A header put again keeps the
members of the first. Options of materials and species (`_ma`, `_ms`) are never reset
(`silo.c:11760-11815`), those of csgvar (`silo_hdf5.c:9345`) and ucdsubmesh (11050) only
in part (`FromACall`, `Sticky`); names are cleared only if the put does not jump
(`silo.c:8940`).

**What functions lose and do not tell** is in the tables `...Lost` and `...Silent` of
each module of steps, checked by `CopiesReturned` and `FailureReported`. The larger
groups:

* Fortran: every copy of a string leaks when a C function jumps; `DBGETCURVE`,
  `DBADDREGIONA`, `DBADDIAOPT` and `DBGETCOMPRESS` leak on return too; `DBPUTCURVE`,
  `DBWRITE`, `DBGETQV1`, `DBINQFILE` and others answer 0 for a call that failed.
  `DBFREEOBJECT` never gives its slot back. When the table cannot grow it is
  forgotten and its size is not, so the next access reads NULL (`IdsRefer`, `lost`).
* HDF5: each `db_hdf5_GetX` has a `return NULL` inside `PROTECT`, which leaves its
  jump frame behind and leaks the object header (so does `silo_hdf5.c:8244`); each
  `PutX` loses the header types when the header cannot be written; `GetMultimeshadj`
  frees an array twice (13813, 13940), as may `GetDir` (6376); `FreeNodelists(meshname)`
  does not compare the file (1305); the read mask stays changed after
  `UcdvarDecompression` (11573); a file image whose `realloc` fails is lost (16894).
* `silo.c`: `db_copy_single_object_abspath` reads NULL when `DBMakeObject` refuses
  (6089); `DBClearObject` nulls what it should free (3138); `DBAddOption` counts an
  option before it has room for it (4881); `DBCp` loses its lists and returns nothing;
  `DBCp`, `DBLs` and the installation of filters do not tell their failures.
* `alloc.c`: `DBFree...` of multimesh, csgmesh, pointmesh, ucdmesh, quadmesh, zonelist,
  phzonelist, csgzonelist, curve and mrgvar leave fields behind (ghost labels,
  `alt_*`, `reference`); some read members of an object that is half made.
* PDB driver: `PJ_GetObject` leaks the file name of another file; `PJ_GetMrgtree` reads a
  string that was never set (7045); `GetMultimeshadj` goes on with freed offsets when
  errors return (4142); `ReadMatVals` leaves the read mask at none (6744).
* PDB lite: an error of one kind inside a function with a frame of another passes
  its clean-up; `lite_PD_open` closes its stream twice after some failures (525,
  541); the free of one file's tables takes the lists of all (181-196); the buffer
  for jumps is one, so a nested read overwrites it (`pdpath.c:1010`).
* Readers: `activ >= 1000 || activ <= 1005` is always true (`silo_taurus.c:907`, `1004`,
  `1071`, `taurus.c:1908`; `&&` at 718); `NewToc` writes past a list of one (457);
  `GetPointvar` of NetCDF reads the first value for every component (1026) and
  `SO_GetComponent` may leave the directory changed (295).
* Name schemes: `DBGetName` returns one of a ring of strings, which a later call uses
  again; a scheme that cannot be made for an embedded string yields "".

## 8. What is left

In the order of their worth: a module in which the array of `BlockList` replaces
`cache` in `SiloVFD` (`CallsUseASet` says that it can); the directories of the HDF5 driver in `SiloContext`, with
links; what `DBCp` and `DBCpDir` copy; the shape of a region tree under the calls
that walk it; the ring of results of `DBGetName` with its lifetimes; the hash table
as a map.
