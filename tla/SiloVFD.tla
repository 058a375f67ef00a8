------------------------------ MODULE SiloVFD -------------------------------
(***************************************************************************)
(* The Silo virtual file driver for HDF5 (src/hdf5_drv/H5FDsilo.c).        *)
(*                                                                         *)
(* The driver cuts the file into blocks of BlockSize bytes, keeps at most  *)
(* MaxBlocks of them in memory and moves only whole blocks to and from the *)
(* file descriptor.  A dirty block is written when it is preempted or when *)
(* the file is closed.  A call of the driver runs the loop of              *)
(* H5FD_silo_read/H5FD_silo_write over the blocks it touches; each pass    *)
(* of the loop is here at most one Evict, at most one Load and one Put or  *)
(* Get, in that order, because each is enabled only by what the one before *)
(* it left behind.                                                         *)
(*                                                                         *)
(* block_list is kept by the code as an array sorted by block id; here it  *)
(* is the function from id to block, and the array itself, its binary      *)
(* search and its shifts are the subject of BlockList.tla.                 *)
(***************************************************************************)
EXTENDS Integers, Sequences, FiniteSets

CONSTANTS BlockSize,    \* file->block_size
          MaxBlocks,    \* file->max_blocks
          MaxId,        \* bound: the largest block id of the address space
          Bytes,        \* the values a byte can be given
          Zero,         \* what the kernel returns for a byte of a hole
          Junk,         \* what malloc leaves in a byte
          Undef,        \* ghost: a byte nobody has written
          Idle,         \* no call of the driver is in progress
          Mems,         \* bound: the kinds of memory, of {"raw", "meta"}
          Payloads,     \* bound: the buffers a caller writes
          ReadSizes,    \* bound: the sizes a caller reads
          InitSizes,    \* bound: the sizes of the file before the first open
          Eoas,         \* bound: the ends of allocated space the library sets
          MaxAge,       \* bound: no call starts once op_counter exceeds it
          MaxFaults     \* bound: how many system calls fail (0: none)

ASSUME SizesAssumption ==
    /\ BlockSize \in Nat \ {0}
    /\ MaxBlocks \in Nat \ {0}
    /\ MaxId \in Nat
    /\ MaxAge \in Nat
    /\ MaxFaults \in Nat

Addr  == 0 .. ((MaxId + 1) * BlockSize - 1)
Id    == 0 .. MaxId
Off   == 0 .. (BlockSize - 1)

\* A write that skips its seek after a failed one can land past Addr, but
\* never farther than the address space is long.
DiskAddr == 0 .. (2 * (MaxId + 1) * BlockSize - 1)

Cell == Bytes \cup {Zero, Junk}

ASSUME CellsAssumption ==
    /\ Zero \notin Bytes /\ Junk \notin Bytes /\ Undef \notin Cell
    /\ Zero # Junk
    /\ Payloads \subseteq Seq(Bytes) \ {<<>>}
    /\ ReadSizes \subseteq Nat \ {0}
    /\ Mems \subseteq {"raw", "meta"}
    /\ InitSizes \subseteq 0 .. ((MaxId + 1) * BlockSize)
    /\ Eoas \subseteq 0 .. ((MaxId + 1) * BlockSize)

HADDR_UNDEF == -1

VARIABLES disk,         \* the bytes of the file, Zero beyond dlen
          dlen,         \* the size of the file as the kernel sees it
          fdpos,        \* the kernel's offset of the descriptor
          mode,         \* "closed", "ro" or "rw" (write_access)
          eoa, eof, file_eof, pos, op, op_counter,  \* fields of H5FD_silo_t
          cache,        \* block_list: a function from cached ids to blocks
          req,          \* the call in progress, or Idle
          written,      \* ghost: the last value written to each address
          faults        \* how many system calls have failed

vars == <<disk, dlen, fdpos, mode, eoa, eof, file_eof, pos, op, op_counter,
          cache, req, written, faults>>

kernelVars == <<disk, dlen, fdpos, pos, op, file_eof, faults>>

-----------------------------------------------------------------------------
(* Blocks *)

Block == [age : Nat, buf : [Off -> Cell], dirty : BOOLEAN,
          minmoff : 0 .. BlockSize, maxmoff : 0 .. BlockSize,
          minroff : 0 .. BlockSize, maxroff : 0 .. BlockSize]

Smaller(x, y) == IF x <= y THEN x ELSE y
Larger(x, y)  == IF x >= y THEN x ELSE y

cached == DOMAIN cache

Without(id) == [i \in cached \ {id} |-> cache[i]]
With(id, b) == [i \in cached \cup {id} |-> IF i = id THEN b ELSE cache[i]]

\* A block is metadata when its metadata span exceeds its raw span.
IsMeta(b) == b.maxmoff - b.minmoff > b.maxroff - b.minroff

Oldest(S) == {i \in S : \A j \in S : cache[i].age <= cache[j].age}

\* The metadata candidate is forgotten.
Preferred_rawOnly(raw, cand) == Oldest(raw)                 \* mutant
Preferred(raw, cand) == IF raw # {} THEN Oldest(raw) ELSE Oldest(cand)

\* find_block_to_preempt: never the first block of the list, and a block of
\* raw data before any block of metadata.
Victims ==
    LET cand == {i \in cached : /\ cache[i].age < op_counter
                                /\ \E j \in cached : j < i}
        raw  == {i \in cand : ~IsMeta(cache[i])}
    IN  Preferred(raw, cand)

-----------------------------------------------------------------------------
(* The file descriptor *)

MayFail == faults < MaxFaults

\* The physical end of file after a block was written up to end.
EofAfterWrite_stale(end) == file_eof                        \* mutant
EofAfterWrite(end) == Larger(file_eof, end)

\* file_write and file_write_block for block id.  The seek is skipped when
\* the cached position says it is not needed.  A call that fails returns
\* early: it leaves pos and op as they were.
WriteBlock(id) ==
    LET addr  == id * BlockSize
        start == IF addr # pos \/ op # "write" THEN addr ELSE fdpos
    IN  \/ /\ disk' = [a \in DiskAddr |->
                         IF start <= a /\ a < start + BlockSize
                           THEN cache[id].buf[a - start] ELSE disk[a]]
           /\ dlen' = Larger(dlen, start + BlockSize)
           /\ fdpos' = start + BlockSize
           /\ pos' = addr + BlockSize
           /\ op' = "write"
           /\ file_eof' = EofAfterWrite(addr + BlockSize)
           /\ UNCHANGED faults
        \/ /\ MayFail
           /\ faults' = faults + 1
           /\ fdpos' \in {fdpos, start}
           /\ UNCHANGED <<disk, dlen, pos, op, file_eof>>

\* file_read and file_read_block into the block b just allocated for id:
\* bytes past the end of the file are cleared.  A failed read leaves the
\* buffer as malloc returned it.
ReadBlock(id, b) ==
    LET addr  == id * BlockSize
        start == IF addr # pos \/ op # "read" THEN addr ELSE fdpos
        n     == Smaller(BlockSize, IF dlen > start THEN dlen - start ELSE 0)
    IN  \/ /\ cache' = With(id, [b EXCEPT !.buf = [o \in Off |->
                                  IF o < n THEN disk[start + o] ELSE Zero]])
           /\ fdpos' = start + n
           /\ pos' = addr + n
           /\ op' = "read"
           /\ UNCHANGED faults
        \/ /\ MayFail
           /\ faults' = faults + 1
           /\ cache' = With(id, b)
           /\ fdpos' \in {fdpos, start}
           /\ UNCHANGED <<pos, op>>

\* A block is written when it leaves memory, if it is dirty.  Neither caller
\* looks at the result of the write.
WriteBack_never(id) == UNCHANGED kernelVars                 \* mutant
WriteBack(id) ==
    IF cache[id].dirty THEN WriteBlock(id) ELSE UNCHANGED kernelVars

-----------------------------------------------------------------------------
(* Opening a file, and the calls that move no data *)

Init ==
    /\ dlen \in InitSizes
    /\ \E v \in Bytes : disk = [a \in DiskAddr |-> IF a < dlen THEN v ELSE Zero]
    /\ written = [a \in Addr |-> IF a < dlen THEN disk[a] ELSE Undef]
    /\ fdpos = 0 /\ mode = "closed"
    /\ eoa = 0 /\ eof = 0 /\ file_eof = 0
    /\ pos = HADDR_UNDEF /\ op = "unknown" /\ op_counter = 0
    /\ cache = <<>>
    /\ req = Idle
    /\ faults = 0

\* H5FD_silo_open, with or without H5F_ACC_RDWR and H5F_ACC_TRUNC.
Open(m, trunc) ==
    /\ mode = "closed"
    /\ mode' = m
    /\ IF trunc
         THEN /\ dlen' = 0
              /\ disk' = [a \in DiskAddr |-> Zero]
              /\ written' = [a \in Addr |-> Undef]
         ELSE UNCHANGED <<dlen, disk, written>>
    /\ file_eof' = dlen' /\ eof' = dlen' /\ eoa' = 0
    /\ pos' = HADDR_UNDEF /\ op' = "unknown" /\ op_counter' = 0
    /\ fdpos' = 0
    /\ cache' = <<>>
    /\ UNCHANGED <<req, faults>>

\* H5FD_silo_set_eoa
SetEoa(a) ==
    /\ mode # "closed" /\ req = Idle
    /\ eoa' = a
    /\ UNCHANGED <<disk, dlen, fdpos, mode, eof, file_eof, pos, op, op_counter,
                   cache, req, written, faults>>

Begin(r) ==
    /\ mode # "closed" /\ req = Idle
    /\ req' = r
    /\ UNCHANGED <<disk, dlen, fdpos, mode, eoa, eof, file_eof, pos, op,
                   op_counter, cache, written, faults>>

\* H5FD_silo_truncate returns before it does anything.
Truncate == Begin([kind |-> "truncate"])

-----------------------------------------------------------------------------
(* H5FD_silo_read and H5FD_silo_write *)

\* The check of both calls against the allocated space.
InAllocated_start(addr, size) == addr < eoa                 \* mutant
InAllocated(addr, size) == addr + size <= eoa

\* The library calls write only on a file it opened for writing.
BeginWrite(mem, addr, data) ==
    /\ op_counter <= MaxAge
    /\ mode = "rw"
    /\ InAllocated(addr, Len(data))
    /\ Begin([kind |-> "write", mem |-> mem, addr |-> addr,
              size |-> Len(data), data |-> data, done |-> 0])

BeginRead(mem, addr, size) ==
    /\ op_counter <= MaxAge
    /\ InAllocated(addr, size)
    /\ Begin([kind |-> "read", mem |-> mem, addr |-> addr,
              size |-> size, data |-> <<>>, done |-> 0])

Moving == req # Idle /\ req.kind \in {"read", "write"} /\ req.done < req.size

\* relevant_blocks, one block at a time: the block the loop has come to, the
\* offset in it, and how many of the request's bytes are in it.
curAddr == req.addr + req.done
curId   == curAddr \div BlockSize
curOff  == curAddr % BlockSize
curLen  == Smaller(BlockSize - curOff, req.size - req.done)

\* Each use of a block takes the next age.
Tick == op_counter' = op_counter + 1

\* find_block_to_preempt and free_block_by_index.
Evict ==
    /\ Moving
    /\ curId \notin cached
    /\ Cardinality(cached) = MaxBlocks
    /\ \E v \in Victims :
         /\ WriteBack(v)
         /\ cache' = Without(v)
    /\ UNCHANGED <<mode, eoa, eof, op_counter, req, written>>

\* A block is read from disk only if it starts inside the file.
OnDisk_offByOne(id) == id * BlockSize + 1 < file_eof        \* mutant
OnDisk(id) == id * BlockSize < file_eof

\* alloc_block_by_id
Load ==
    /\ Moving
    /\ curId \notin cached
    /\ Cardinality(cached) < MaxBlocks
    /\ LET b == [age |-> op_counter, buf |-> [o \in Off |-> Junk],
                 dirty |-> FALSE,
                 minmoff |-> BlockSize, maxmoff |-> 0,
                 minroff |-> BlockSize, maxroff |-> 0]
       IN  IF OnDisk(curId)
             THEN ReadBlock(curId, b)
             ELSE cache' = With(curId, b) /\ UNCHANGED <<fdpos, pos, op, faults>>
    /\ Tick
    /\ UNCHANGED <<disk, dlen, mode, eoa, eof, file_eof, req, written>>

\* Block b after this pass, with new bytes: the span of raw data or of
\* metadata touched in it grows to cover the bytes of the pass.
Passed(b, buf, dirty) ==
    LET last == curOff + curLen - 1
        raw  == req.mem = "raw"
    IN  [age |-> op_counter, buf |-> buf, dirty |-> dirty,
         minmoff |-> IF raw THEN b.minmoff ELSE Smaller(b.minmoff, curOff),
         maxmoff |-> IF raw THEN b.maxmoff ELSE Larger(b.maxmoff, last),
         minroff |-> IF raw THEN Smaller(b.minroff, curOff) ELSE b.minroff,
         maxroff |-> IF raw THEN Larger(b.maxroff, last) ELSE b.maxroff]

Touched_dirty(b) == Passed(b, b.buf, TRUE)                  \* mutant
Touched(b) == Passed(b, b.buf, b.dirty)

\* The block after this pass of a write.
Copied(b) == [o \in Off |-> IF curOff <= o /\ o < curOff + curLen
                              THEN req.data[req.done + (o - curOff) + 1]
                              ELSE b.buf[o]]
Filled_notDirty(b) == Passed(b, Copied(b), b.dirty)         \* mutant
Filled(b) == Passed(b, Copied(b), TRUE)

\* The high-water mark after bytes were put in a block up to end.
EofAfterPut_first(end) == IF eof = 0 THEN end ELSE eof      \* mutant
EofAfterPut(end) == Larger(eof, end)

\* put_data_to_block_by_index
Put ==
    /\ Moving /\ req.kind = "write"
    /\ curId \in cached
    /\ cache' = With(curId, Filled(cache[curId]))
    /\ written' = [a \in Addr |->
         IF curAddr <= a /\ a < curAddr + curLen
           THEN req.data[a - req.addr + 1] ELSE written[a]]
    /\ Tick
    /\ eof' = EofAfterPut(curAddr + curLen)
    /\ req' = [req EXCEPT !.done = req.done + curLen]
    /\ UNCHANGED <<mode, eoa, kernelVars>>

\* get_data_from_block_by_index
Get ==
    /\ Moving /\ req.kind = "read"
    /\ curId \in cached
    /\ cache' = With(curId, Touched(cache[curId]))
    /\ Tick
    /\ req' = [req EXCEPT
         !.done = req.done + curLen,
         !.data = [i \in 1 .. (req.done + curLen) |->
            IF i <= req.done THEN req.data[i]
                             ELSE cache[curId].buf[curOff + (i - req.done - 1)]]]
    /\ UNCHANGED <<mode, eoa, eof, written, kernelVars>>

\* Reads, writes and truncations report success.
Return ==
    /\ req # Idle
    /\ req.kind # "close"
    /\ req.kind # "truncate" => req.done = req.size
    /\ req' = Idle
    /\ UNCHANGED <<disk, dlen, fdpos, mode, eoa, eof, file_eof, pos, op,
                   op_counter, cache, written, faults>>

-----------------------------------------------------------------------------
(* H5FD_silo_close *)

BeginClose == Begin([kind |-> "close"])

Closing == req # Idle /\ req.kind = "close"

\* The blocks are flushed and freed by increasing id; the result of a write
\* is not looked at.  A file opened without write access skips the loop.
Flush ==
    /\ Closing
    /\ mode = "rw"
    /\ \E id \in cached :
         /\ \A j \in cached : id <= j
         /\ WriteBack(id)
         /\ cache' = Without(id)
    /\ UNCHANGED <<mode, eoa, eof, op_counter, req, written>>

AllFlushed_butLast == mode = "ro" \/ Cardinality(cached) <= 1   \* mutant
AllFlushed == mode = "ro" \/ cached = {}

Close ==
    /\ Closing
    /\ AllFlushed
    /\ mode' = "closed"
    /\ cache' = <<>>
    /\ req' = Idle
    /\ UNCHANGED <<disk, dlen, fdpos, eoa, eof, file_eof, pos, op, op_counter,
                   written, faults>>

-----------------------------------------------------------------------------
Step == Evict \/ Load \/ Put \/ Get \/ Return \/ Flush \/ Close

Call ==
    \/ \E m \in {"ro", "rw"} : Open(m, FALSE)
    \/ Open("rw", TRUE)
    \/ \E a \in Eoas : SetEoa(a)
    \/ \E mem \in Mems, a \in Addr :
         \/ \E data \in Payloads : BeginWrite(mem, a, data)
         \/ \E size \in ReadSizes : BeginRead(mem, a, size)
    \/ Truncate
    \/ BeginClose

Next == Call \/ Step

\* The driver runs in its caller's thread: a call that has begun keeps going.
Spec == Init /\ [][Next]_vars /\ WF_vars(Step)

-----------------------------------------------------------------------------
(* Properties *)

Request ==
    [kind : {"write", "read"}, mem : {"raw", "meta"}, addr : Addr,
     size : Nat, data : Seq(Cell), done : Nat]
    \cup [kind : {"truncate", "close"}]

ASSUME IdleAssumption == Idle \notin Request

\* The fields hold what their C types and the code's conventions allow.
TypeOK ==
    /\ disk \in [DiskAddr -> Cell] /\ dlen \in Nat /\ fdpos \in Nat
    /\ mode \in {"closed", "ro", "rw"}
    /\ eoa \in 0 .. (MaxId + 1) * BlockSize /\ eof \in Nat /\ file_eof \in Nat
    /\ pos \in Nat \cup {HADDR_UNDEF} /\ op \in {"unknown", "read", "write"}
    /\ op_counter \in Nat
    /\ cached \subseteq Id /\ cache \in [cached -> Block]
    /\ req \in Request \cup {Idle}
    /\ written \in [Addr -> Bytes \cup {Undef}]
    /\ faults \in 0 .. MaxFaults

\* What a reader of the file would get for address a: the block in memory if
\* there is one, else the byte on disk.
Visible(a) == IF a \div BlockSize \in cached
                THEN cache[a \div BlockSize].buf[a % BlockSize]
                ELSE disk[a]

\* Every byte that was written is what the driver would return for it: no
\* eviction, reload, partial write of a block, seek that was skipped, close
\* or reopen loses or moves a byte.  A written byte that is not in memory is
\* inside the file, so it will be read back and not left as malloc's junk.
Coherent ==
    \A a \in Addr : written[a] # Undef =>
        /\ Visible(a) = written[a]
        /\ a \div BlockSize \notin cached => a < dlen

\* A clean block can be dropped without a write: every written byte in it is
\* on disk already.
CleanBlocksOnDisk ==
    \A id \in cached : ~cache[id].dirty =>
        \A a \in Addr : a \div BlockSize = id /\ written[a] # Undef =>
            a < dlen /\ disk[a] = written[a]

\* The driver's idea of the descriptor is the kernel's: the position it uses
\* to skip a seek is where the next transfer would take place, and its
\* physical end of file is the size of the file.
DescriptorTracked ==
    mode # "closed" =>
        /\ op # "unknown" => pos = fdpos
        /\ file_eof = dlen

\* Once the file is closed every byte that was written is on disk.
CloseIsDurable ==
    mode = "closed" =>
        \A a \in Addr : written[a] # Undef => a < dlen /\ disk[a] = written[a]

\* eof covers every byte that was written and never exceeds what close will
\* have put on disk: the file will end in the last block eof reaches.
EofIsHighWater ==
    mode # "closed" =>
        /\ \A a \in Addr : written[a] # Undef => a < eof
        /\ file_eof <= eof + BlockSize - 1
        /\ dlen < eof => \E id \in cached : cache[id].dirty /\ id = (eof - 1) \div BlockSize

\* The ages find_block_to_preempt compares are distinct and below op_counter,
\* where its search starts, so its strict comparisons pick one block.
AgesDistinct ==
    \A i, j \in cached :
        /\ cache[i].age < op_counter
        /\ cache[i].age = cache[j].age => i = j

\* A file opened for reading is never changed, whatever is evicted and even
\* when system calls fail.
ReadOnlyUntouched == [][mode = "ro" => UNCHANGED <<disk, dlen>>]_vars

\* Every call that begins returns: a full cache always has a block to preempt
\* and the loop over the blocks ends.
CallsReturn == req # Idle ~> req = Idle

\* The driver implements a flat file whose content is what was written.
Flat == INSTANCE FlatFile WITH MaxAddr <- (MaxId + 1) * BlockSize,
                               content <- written
ImplementsFlatFile == Flat!Spec

=============================================================================
