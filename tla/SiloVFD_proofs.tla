--------------------------- MODULE SiloVFD_proofs ---------------------------
(***************************************************************************)
(* For every size of block, number of blocks and length of file: the       *)
(* fields keep their types, a file opened for reading is never changed,    *)
(* and until a system call fails every byte that was written is what the   *)
(* driver returns and what closing the file leaves on disk.                *)
(***************************************************************************)
EXTENDS SiloVFD, FiniteSetTheorems, WellFoundedInduction, TLAPS

MaxAddr == (MaxId + 1) * BlockSize

-----------------------------------------------------------------------------
(* Addresses, blocks and offsets *)

LEMMA Divides ==
    ASSUME NEW a \in Nat
    PROVE  /\ a \div BlockSize \in Nat /\ a % BlockSize \in Off
           /\ a = (a \div BlockSize) * BlockSize + (a % BlockSize)
  BY SizesAssumption DEF Off

LEMMA Monotone ==
    ASSUME NEW x \in Nat, NEW y \in Nat, x < y
    PROVE  x * BlockSize + BlockSize <= y * BlockSize
  <1>1. PICK d \in Nat : y = x + 1 + d
    <2>1. y - x - 1 \in Nat /\ y = x + 1 + (y - x - 1)
      OBVIOUS
    <2> QED
      BY <2>1
  <1>2. y * BlockSize = x * BlockSize + BlockSize + d * BlockSize
    BY <1>1, SizesAssumption
  <1>3. d * BlockSize \in Nat /\ x * BlockSize \in Nat /\ y * BlockSize \in Nat
    BY SizesAssumption
  <1> QED
    BY <1>2, <1>3, SizesAssumption

LEMMA BlockFits ==
    ASSUME NEW id \in Id
    PROVE  /\ id * BlockSize \in Nat /\ MaxAddr \in Nat
           /\ id * BlockSize + BlockSize <= MaxAddr
           /\ MaxAddr = MaxId * BlockSize + BlockSize
           /\ MaxId * BlockSize \in Nat
  <1>1. id < MaxId + 1 /\ id \in Nat /\ MaxId + 1 \in Nat
    BY SizesAssumption DEF Id
  <1>2. id * BlockSize + BlockSize <= (MaxId + 1) * BlockSize
    BY <1>1, Monotone
  <1>3. (MaxId + 1) * BlockSize = MaxId * BlockSize + BlockSize
    BY SizesAssumption
  <1>4. id * BlockSize \in Nat /\ MaxId * BlockSize \in Nat
    BY <1>1, SizesAssumption
  <1> QED
    BY <1>2, <1>3, <1>4, SizesAssumption DEF MaxAddr

LEMMA InBlock ==
    ASSUME NEW a \in Nat, NEW id \in Nat
    PROVE  /\ a \div BlockSize = id <=> id * BlockSize <= a /\ a < id * BlockSize + BlockSize
           /\ a \div BlockSize = id => a % BlockSize = a - id * BlockSize
  <1> DEFINE d == a \div BlockSize
             m == a % BlockSize
  <1>1. d \in Nat /\ m \in Nat /\ m < BlockSize /\ a = d * BlockSize + m
    BY Divides, SizesAssumption DEF Off
  <1>2. id < d => id * BlockSize + BlockSize <= d * BlockSize
    BY <1>1, Monotone
  <1>3. d < id => d * BlockSize + BlockSize <= id * BlockSize
    BY <1>1, Monotone
  <1>4. id * BlockSize \in Nat /\ d * BlockSize \in Nat
    BY <1>1, SizesAssumption
  <1> HIDE DEF d, m
  <1>5. d = id <=> id * BlockSize <= a /\ a < id * BlockSize + BlockSize
    BY <1>1, <1>2, <1>3, <1>4, SizesAssumption
  <1>6. d = id => m = a - id * BlockSize
    BY <1>1, <1>4
  <1> QED
    BY <1>5, <1>6 DEF d, m

LEMMA InFile ==
    ASSUME NEW a \in Addr
    PROVE  a \in Nat /\ a < MaxAddr /\ a \div BlockSize \in Id /\ a \in DiskAddr
  <1>1. a \in Nat /\ a < MaxAddr /\ MaxAddr \in Nat /\ 2 * (MaxId + 1) * BlockSize = 2 * MaxAddr
    BY SizesAssumption DEF Addr, MaxAddr
  <1>2. a \div BlockSize \in Nat
    BY <1>1, Divides
  <1>3. CASE a \div BlockSize > MaxId
    <2>1. (MaxId + 1) * BlockSize <= (a \div BlockSize) * BlockSize
      <3>1. CASE a \div BlockSize = MaxId + 1
        BY <3>1, SizesAssumption
      <3>2. CASE a \div BlockSize > MaxId + 1
        <4>1. (MaxId + 1) * BlockSize + BlockSize <= (a \div BlockSize) * BlockSize
          BY <1>2, <3>2, Monotone, SizesAssumption
        <4>2. (MaxId + 1) * BlockSize \in Nat /\ (a \div BlockSize) * BlockSize \in Nat
          BY <1>2, SizesAssumption
        <4> QED
          BY <4>1, <4>2, SizesAssumption
      <3> QED
        BY <1>2, <1>3, <3>1, <3>2, SizesAssumption
    <2>2. (a \div BlockSize) * BlockSize <= a
      BY <1>1, <1>2, InBlock
    <2>3. (a \div BlockSize) * BlockSize \in Nat
      BY <1>2, SizesAssumption
    <2> QED
      BY <1>1, <2>1, <2>2, <2>3 DEF MaxAddr
  <1> QED
    BY <1>1, <1>2, <1>3, SizesAssumption DEF Id, DiskAddr

LEMMA Sizes ==
    /\ MaxAddr \in Nat /\ MaxId * BlockSize \in Nat /\ BlockSize \in Nat
    /\ MaxAddr = MaxId * BlockSize + BlockSize
    /\ DiskAddr = 0 .. (2 * MaxAddr - 1)
    /\ Addr = 0 .. (MaxAddr - 1)
  <1>1. 0 \in Id
    BY SizesAssumption DEF Id
  <1>2. 2 * (MaxId + 1) * BlockSize = 2 * MaxAddr
    BY SizesAssumption DEF MaxAddr
  <1> QED
    BY <1>1, <1>2, BlockFits, SizesAssumption DEF DiskAddr, Addr, MaxAddr

-----------------------------------------------------------------------------
(* The inductive invariant *)

\* A descriptor whose seek was skipped after an error runs ahead of the
\* position the driver believes in, but never by more than the file is long.
Drift == op # "unknown" => pos \in Nat /\ fdpos <= pos + MaxId * BlockSize

Kernel ==
    /\ disk \in [DiskAddr -> Cell] /\ dlen \in 0 .. 2 * MaxAddr /\ fdpos \in Nat
    /\ pos \in Nat \cup {HADDR_UNDEF} /\ op \in {"unknown", "read", "write"}
    /\ file_eof \in Nat /\ faults \in 0 .. MaxFaults
    /\ Drift

Transfer == req # Idle /\ req.kind \in {"read", "write"}

\* The call in progress stays inside the address space and carries what it
\* was given.
RequestInFile ==
    /\ Transfer => req.addr + req.size <= MaxAddr /\ req.done <= req.size
    /\ Transfer /\ req.kind = "write" =>
         mode = "rw" /\ req.data \in Seq(Bytes) /\ Len(req.data) = req.size
    /\ Transfer /\ req.kind = "read" => Len(req.data) = req.done

\* A closed file has no block in memory, one opened for reading no dirty one.
Modes ==
    /\ mode = "closed" => cached = {} /\ req = Idle
    /\ mode = "ro" => \A id \in cached : ~cache[id].dirty

Base == TypeOK /\ Kernel /\ RequestInFile /\ Modes

\* What holds until a system call fails.
Faithful == DescriptorTracked /\ Coherent /\ CleanBlocksOnDisk

IInv == Base /\ (faults = 0 => Faithful)

LEMMA Initially == Init => IInv
  <1>1. SUFFICES ASSUME Init PROVE IInv
    OBVIOUS
  <1>2. dlen \in 0 .. MaxAddr /\ cached = {} /\ req = Idle /\ faults = 0
        /\ cache \in [cached -> Block]
    BY <1>1, CellsAssumption DEF Init, cached, MaxAddr
  <1>3. PICK v \in Bytes : disk = [a \in DiskAddr |-> IF a < dlen THEN v ELSE Zero]
    BY <1>1 DEF Init
  <1>4. disk \in [DiskAddr -> Cell]
    BY <1>3 DEF Cell
  <1>5. written \in [Addr -> Bytes \cup {Undef}]
        /\ \A a \in Addr : written[a] # Undef => a < dlen /\ disk[a] = written[a]
    BY <1>1, <1>3, InFile DEF Init
  <1>6. Kernel
    BY <1>1, <1>2, <1>4, Sizes, SizesAssumption DEF Init, Kernel, Drift
  <1>7. TypeOK
    BY <1>1, <1>2, <1>5, <1>6, Sizes, SizesAssumption DEF Init, TypeOK, Kernel, MaxAddr
  <1>8. RequestInFile /\ Modes
    BY <1>1, <1>2 DEF Init, RequestInFile, Modes, Transfer
  <1>9. Faithful
    <2>1. \A a \in Addr : Visible(a) = disk[a]
      BY <1>2 DEF Visible
    <2> QED
      BY <1>1, <1>2, <1>5, <2>1
      DEF Init, Faithful, DescriptorTracked, Coherent, CleanBlocksOnDisk
  <1> QED
    BY <1>6, <1>7, <1>8, <1>9 DEF IInv, Base

-----------------------------------------------------------------------------
(* The system calls *)

LEMMA WriteBlockKernel ==
    ASSUME Base, NEW id \in cached, WriteBlock(id)
    PROVE  Kernel' /\ dlen' >= dlen /\ faults' >= faults
  <1> DEFINE addr == id * BlockSize
             start == IF addr # pos \/ op # "write" THEN addr ELSE fdpos
  <1>1. /\ addr \in Nat /\ addr <= MaxId * BlockSize /\ addr + BlockSize <= MaxAddr
        /\ cache[id].buf \in [Off -> Cell]
    <2>1. id \in Id /\ cache[id] \in Block
      BY DEF Base, TypeOK
    <2>2. cache[id].buf \in [Off -> Cell]
      BY <2>1 DEF Block
    <2>3. addr \in Nat /\ addr + BlockSize <= MaxAddr
      BY <2>1, BlockFits
    <2> QED
      BY <2>2, <2>3, Sizes
  <1> HIDE DEF addr
  <1>2. start \in Nat /\ start <= addr + MaxId * BlockSize
    <2>1. MaxId * BlockSize \in Nat /\ addr \in Nat
      BY <1>1, Sizes
    <2>2. CASE start = addr
      BY <2>1, <2>2
    <2>3. CASE start = fdpos /\ addr = pos /\ op = "write"
      BY <2>3 DEF Base, Kernel, Drift
    <2> QED
      BY <2>2, <2>3
  <1> HIDE DEF start
  <1>3. start + BlockSize <= 2 * MaxAddr
    <2> DEFINE last == MaxId * BlockSize
    <2>1. /\ last \in Nat /\ BlockSize \in Nat /\ MaxAddr = last + BlockSize
          /\ addr \in Nat /\ addr <= last /\ start \in Nat /\ start <= addr + last
      BY <1>1, <1>2, Sizes
    <2> HIDE DEF last
    <2> QED
      BY <2>1
  <1>4. CASE /\ disk' = [a \in DiskAddr |->
                         IF start <= a /\ a < start + BlockSize
                           THEN cache[id].buf[a - start] ELSE disk[a]]
             /\ dlen' = Larger(dlen, start + BlockSize)
             /\ fdpos' = start + BlockSize
             /\ pos' = addr + BlockSize
             /\ op' = "write"
             /\ file_eof' = EofAfterWrite(addr + BlockSize)
             /\ UNCHANGED faults
    <2>1. disk' \in [DiskAddr -> Cell]
      <3>1. ASSUME NEW a \in DiskAddr, start <= a, a < start + BlockSize
            PROVE  a - start \in Off
        <4>1. a \in Nat /\ BlockSize \in Nat
          BY Sizes DEF DiskAddr
        <4> QED
          BY <3>1, <1>2, <4>1 DEF Off
      <3> QED
        BY <3>1, <1>1, <1>4 DEF Base, Kernel
    <2>2. dlen' \in 0 .. 2 * MaxAddr /\ dlen' >= dlen
      <3>1. BlockSize \in Nat /\ MaxAddr \in Nat /\ dlen \in 0 .. 2 * MaxAddr
        BY Sizes DEF Base, Kernel
      <3> QED
        BY <1>2, <1>3, <1>4, <3>1 DEF Larger
    <2>3. file_eof' \in Nat
      BY <1>1, <1>4, Sizes DEF Base, Kernel, Larger, EofAfterWrite
    <2>4. Drift' /\ fdpos' \in Nat /\ pos' \in Nat
      <3> DEFINE last == MaxId * BlockSize
      <3>1. last \in Nat /\ BlockSize \in Nat /\ addr \in Nat
        BY <1>1, Sizes
      <3>2. start \in Nat /\ start <= addr + last
        BY <1>2
      <3>3. Drift' <=> (op' # "unknown" => pos' \in Nat /\ fdpos' <= pos' + last)
        BY DEF Drift
      <3> HIDE DEF last
      <3> QED
        BY <1>4, <3>1, <3>2, <3>3
    <2>5. op' \in {"unknown", "read", "write"} /\ faults' = faults
      BY <1>4
    <2>6. faults \in 0 .. MaxFaults /\ faults >= faults
      BY SizesAssumption DEF Base, Kernel
    <2> QED
      BY <2>1, <2>2, <2>3, <2>4, <2>5, <2>6 DEF Kernel
  <1>5. CASE /\ MayFail
             /\ faults' = faults + 1
             /\ fdpos' \in {fdpos, start}
             /\ UNCHANGED <<disk, dlen, pos, op, file_eof>>
    <2>1. start = fdpos \/ start = addr
      BY DEF start
    <2>2. op # "unknown" => pos \in Nat
      BY DEF Base, Kernel, Drift
    <2> QED
      BY <1>1, <1>2, <1>5, <2>1, <2>2, Sizes, SizesAssumption
      DEF Base, Kernel, Drift, MayFail
  <1>6. \/ /\ disk' = [a \in DiskAddr |->
                         IF start <= a /\ a < start + BlockSize
                           THEN cache[id].buf[a - start] ELSE disk[a]]
           /\ dlen' = Larger(dlen, start + BlockSize)
           /\ fdpos' = start + BlockSize
           /\ pos' = addr + BlockSize
           /\ op' = "write"
           /\ file_eof' = EofAfterWrite(addr + BlockSize)
           /\ UNCHANGED faults
        \/ /\ MayFail
           /\ faults' = faults + 1
           /\ fdpos' \in {fdpos, start}
           /\ UNCHANGED <<disk, dlen, pos, op, file_eof>>
    BY DEF WriteBlock, start, addr
  <1> QED
    BY <1>4, <1>5, <1>6

LEMMA WriteBackKernel ==
    ASSUME Base, NEW id \in cached, WriteBack(id)
    PROVE  Kernel' /\ dlen' >= dlen /\ faults' >= faults
  <1>1. CASE cache[id].dirty
    BY <1>1, WriteBlockKernel DEF WriteBack
  <1>2. CASE ~cache[id].dirty
    BY <1>2, Sizes, SizesAssumption DEF WriteBack, kernelVars, Base, Kernel, Drift
  <1> QED
    BY <1>1, <1>2

LEMMA ReadBlockKernel ==
    ASSUME Base, NEW id \in Id, NEW b \in Block, ReadBlock(id, b),
           UNCHANGED <<disk, dlen, file_eof>>
    PROVE  /\ Kernel' /\ faults' >= faults
           /\ \E buf \in [Off -> Cell] : cache' = With(id, [b EXCEPT !.buf = buf])
  <1> DEFINE addr  == id * BlockSize
             start == IF addr # pos \/ op # "read" THEN addr ELSE fdpos
             n     == Smaller(BlockSize, IF dlen > start THEN dlen - start ELSE 0)
             buf   == [o \in Off |-> IF o < n THEN disk[start + o] ELSE Zero]
  <1>1. addr \in Nat /\ addr <= MaxId * BlockSize
    BY BlockFits, Sizes
  <1> HIDE DEF addr
  <1>2. start \in Nat /\ start <= addr + MaxId * BlockSize
    <2>1. MaxId * BlockSize \in Nat /\ addr \in Nat
      BY <1>1, Sizes
    <2>2. CASE start = addr
      BY <2>1, <2>2
    <2>3. CASE start = fdpos /\ addr = pos /\ op = "read"
      BY <2>3 DEF Base, Kernel, Drift
    <2> QED
      BY <2>2, <2>3
  <1>3. n \in Nat /\ (n > 0 => start + n <= dlen)
    <2>1. dlen \in Nat /\ BlockSize \in Nat
      BY Sizes DEF Base, Kernel
    <2>2. CASE dlen > start
      <3>1. n = IF BlockSize <= dlen - start THEN BlockSize ELSE dlen - start
        BY <2>2 DEF Smaller
      <3> QED
        BY <1>2, <2>1, <2>2, <3>1
    <2>3. CASE ~(dlen > start)
      <3>1. n = IF BlockSize <= 0 THEN BlockSize ELSE 0
        BY <2>3 DEF Smaller
      <3> QED
        BY <2>1, <3>1
    <2> QED
      BY <2>2, <2>3
  <1>4. \/ /\ cache' = With(id, [b EXCEPT !.buf = buf])
           /\ fdpos' = start + n /\ pos' = addr + n /\ op' = "read" /\ UNCHANGED faults
        \/ /\ MayFail /\ faults' = faults + 1
           /\ cache' = With(id, b)
           /\ fdpos' \in {fdpos, start} /\ UNCHANGED <<pos, op>>
    BY DEF ReadBlock, addr
  <1>5. (start = fdpos \/ start = addr) /\ (op # "unknown" => pos \in Nat)
    BY DEF Base, Kernel, Drift
  <1>6. b.buf \in [Off -> Cell] /\ b = [b EXCEPT !.buf = b.buf]
    BY DEF Block
  <1> HIDE DEF addr, start, n
  <1>7. buf \in [Off -> Cell]
    <2>1. ASSUME NEW o \in Off, o < n PROVE start + o \in DiskAddr
      BY <1>2, <1>3, <2>1, Sizes DEF Off, Base, Kernel
    <2> QED
      BY <2>1 DEF Base, Kernel, Cell
  <1> HIDE DEF buf
  <1>8. Kernel' /\ faults' >= faults
    <2>1. fdpos' \in Nat /\ pos' \in Nat \cup {HADDR_UNDEF} /\ op' \in {"unknown", "read", "write"}
      BY <1>1, <1>2, <1>3, <1>4 DEF Base, Kernel
    <2>2. faults' \in 0 .. MaxFaults /\ faults' >= faults
      BY <1>4, SizesAssumption DEF Base, Kernel, MayFail
    <2>3. Drift'
      <3>1. CASE fdpos' = start + n /\ pos' = addr + n
        BY SMTT(30), <3>1, <1>1, <1>2, <1>3, Sizes DEF Drift
      <3>2. CASE fdpos' \in {fdpos, start} /\ UNCHANGED <<pos, op>>
        <4>1. op # "unknown" => fdpos <= pos + MaxId * BlockSize /\ addr <= pos + MaxId * BlockSize
          BY SMTT(30), <1>1, <1>5, Sizes DEF Base, Kernel, Drift
        <4> QED
          BY <3>2, <4>1, <1>5 DEF Drift
      <3> QED
        BY <3>1, <3>2, <1>4
    <2> QED
      BY <2>1, <2>2, <2>3 DEF Base, Kernel
  <1> QED
    BY <1>4, <1>6, <1>7, <1>8

-----------------------------------------------------------------------------
(* What they do to the bytes while none has failed *)

\* A block that was written back is on disk, and no other byte has moved.
LEMMA WrittenBack ==
    ASSUME Base, Faithful, mode # "closed", NEW id \in cached, WriteBack(id),
           faults = 0, faults' = 0
    PROVE  /\ \A a \in Addr : a \div BlockSize = id /\ written[a] # Undef =>
                a < dlen' /\ disk'[a] = written[a]
           /\ \A a \in Addr : a \div BlockSize # id => disk'[a] = disk[a]
           /\ op' # "unknown" => pos' = fdpos'
           /\ file_eof' = dlen'
  <1>1. CASE ~cache[id].dirty
    BY <1>1 DEF WriteBack, kernelVars, Faithful, DescriptorTracked, CleanBlocksOnDisk
  <1>2. CASE cache[id].dirty
    <2> DEFINE addr == id * BlockSize
    <2>1. id \in Id /\ addr \in Nat /\ addr + BlockSize <= MaxAddr
      BY BlockFits DEF Base, TypeOK
    <2>2. (op = "write" /\ addr = pos => fdpos = addr) /\ file_eof = dlen
      BY DEF Faithful, DescriptorTracked
    <2>3. /\ disk' = [a \in DiskAddr |->
                        IF addr <= a /\ a < addr + BlockSize
                          THEN cache[id].buf[a - addr] ELSE disk[a]]
          /\ dlen' = Larger(dlen, addr + BlockSize)
          /\ fdpos' = addr + BlockSize
          /\ pos' = addr + BlockSize
          /\ file_eof' = EofAfterWrite(addr + BlockSize)
      BY <1>2, <2>2 DEF WriteBack, WriteBlock
    <2> HIDE DEF addr
    <2>4. dlen' \in Nat /\ dlen' >= addr + BlockSize /\ file_eof' = dlen'
      BY <2>1, <2>2, <2>3, Sizes DEF Larger, EofAfterWrite, Base, Kernel
    <2>5. ASSUME NEW a \in Addr
          PROVE  /\ a \in Nat /\ a \in DiskAddr
                 /\ a \div BlockSize = id <=> addr <= a /\ a < addr + BlockSize
                 /\ a \div BlockSize = id => a % BlockSize = a - addr
      BY <2>1, InFile, InBlock DEF addr, Id
    <2>6. ASSUME NEW a \in Addr, a \div BlockSize = id, written[a] # Undef
          PROVE  a < dlen' /\ disk'[a] = written[a]
      <3>1. Visible(a) = cache[id].buf[a - addr] /\ Visible(a) = written[a]
        BY <2>5, <2>6 DEF Visible, Faithful, Coherent
      <3>2. addr <= a /\ a < addr + BlockSize /\ a \in Nat /\ a \in DiskAddr
        BY <2>5, <2>6
      <3>3. a < dlen'
        BY <2>1, <2>4, <3>2, Sizes
      <3>4. disk'[a] = cache[id].buf[a - addr]
        BY <2>3, <3>2
      <3> QED
        BY <3>1, <3>3, <3>4
    <2>7. ASSUME NEW a \in Addr, a \div BlockSize # id PROVE disk'[a] = disk[a]
      BY <2>3, <2>5, <2>7
    <2> QED
      BY <2>3, <2>4, <2>6, <2>7
  <1> QED
    BY <1>1, <1>2

\* So it can leave memory.
LEMMA RemoveFaithful ==
    ASSUME Base, Faithful, mode # "closed", NEW id \in cached, WriteBack(id),
           cache' = Without(id), UNCHANGED <<written, mode>>, faults = 0, faults' = 0
    PROVE  Faithful'
  <1>1. cached' = cached \ {id} /\ \A i \in cached \ {id} : cache'[i] = cache[i]
    BY DEF Without, cached
  <1>2. dlen' >= dlen /\ dlen \in Int /\ dlen' \in Int
    BY WriteBackKernel, Sizes DEF Kernel, Base
  <1>3. DescriptorTracked'
    BY WrittenBack DEF DescriptorTracked
  <1>4. ASSUME NEW a \in Addr, written[a] # Undef
        PROVE  Visible(a)' = written[a] /\ (a \div BlockSize \notin cached' => a < dlen')
    <2>1. CASE a \div BlockSize = id
      BY <1>1, <1>4, <2>1, WrittenBack DEF Visible
    <2>2. CASE a \div BlockSize # id
      <3>1. disk'[a] = disk[a] /\ Visible(a) = written[a]
            /\ (a \div BlockSize \notin cached => a < dlen)
        BY <1>4, <2>2, WrittenBack DEF Faithful, Coherent
      <3> QED
        BY <1>1, <1>2, <2>2, <3>1, InFile DEF Visible
    <2> QED
      BY <2>1, <2>2
  <1>5. Coherent'
    BY <1>4 DEF Coherent
  <1>6. CleanBlocksOnDisk'
    <2>1. SUFFICES ASSUME NEW i \in cached', ~cache'[i].dirty,
                          NEW a \in Addr, a \div BlockSize = i, written[a] # Undef
                   PROVE  a < dlen' /\ disk'[a] = written[a]
      BY DEF CleanBlocksOnDisk
    <2>2. i \in cached /\ i # id /\ ~cache[i].dirty
      BY <1>1, <2>1
    <2>3. a < dlen /\ disk[a] = written[a]
      BY <2>1, <2>2 DEF Faithful, CleanBlocksOnDisk
    <2>4. disk'[a] = disk[a]
      BY <2>1, <2>2, WrittenBack
    <2> QED
      BY <1>2, <2>3, <2>4, InFile
  <1> QED
    BY <1>3, <1>5, <1>6 DEF Faithful

-----------------------------------------------------------------------------
(* The steps                                                               *)

\* The type of the fields that no system call changes.
LEMMA TypeFromKernel ==
    ASSUME Kernel', mode' \in {"closed", "ro", "rw"}, eoa' \in 0 .. MaxAddr, eof' \in Nat,
           op_counter' \in Nat, cached' \subseteq Id, cache' \in [cached' -> Block],
           req' \in Request \cup {Idle}, written' \in [Addr -> Bytes \cup {Undef}]
    PROVE  TypeOK'
  <1>1. dlen' \in Nat /\ eoa' \in 0 .. (MaxId + 1) * BlockSize
    BY Sizes DEF Kernel, MaxAddr
  <1>2. /\ disk' \in [DiskAddr -> Cell] /\ fdpos' \in Nat /\ file_eof' \in Nat
        /\ pos' \in Nat \cup {HADDR_UNDEF} /\ op' \in {"unknown", "read", "write"}
        /\ faults' \in 0 .. MaxFaults
    BY DEF Kernel
  <1> QED
    BY <1>1, <1>2 DEF TypeOK

\* The loop of a read or a write, and the one of close, drop a block.
LEMMA RemoveKeeps ==
    ASSUME IInv, mode # "closed", NEW id \in cached, WriteBack(id), cache' = Without(id),
           UNCHANGED <<mode, eoa, eof, op_counter, req, written>>
    PROVE  IInv'
  <1>1. Kernel' /\ faults' >= faults
    BY WriteBackKernel DEF IInv
  <1>2. /\ cached' = cached \ {id} /\ cache' \in [cached' -> Block]
        /\ \A i \in cached \ {id} : cache'[i] = cache[i]
    BY DEF Without, cached, IInv, Base, TypeOK
  <1>3. TypeOK'
    <2>1. /\ mode' \in {"closed", "ro", "rw"} /\ eoa' \in 0 .. MaxAddr /\ eof' \in Nat
          /\ op_counter' \in Nat /\ cached' \subseteq Id
          /\ req' \in Request \cup {Idle} /\ written' \in [Addr -> Bytes \cup {Undef}]
      BY <1>2 DEF IInv, Base, TypeOK, MaxAddr
    <2> QED
      BY <1>1, <1>2, <2>1, TypeFromKernel
  <1>4. RequestInFile' /\ Modes'
    BY <1>2 DEF IInv, Base, RequestInFile, Modes, Transfer
  <1>5. ASSUME faults' = 0 PROVE Faithful'
    <2>1. faults = 0
      BY <1>1, <1>5, SizesAssumption DEF IInv, Base, Kernel
    <2> QED
      BY <1>5, <2>1, RemoveFaithful DEF IInv
  <1> QED
    BY <1>1, <1>3, <1>4, <1>5 DEF IInv, Base

\* The block a transfer has come to.
LEMMA Current ==
    ASSUME Base, Moving
    PROVE  /\ req.addr \in Nat /\ req.done \in Nat /\ req.size \in Nat
           /\ req.done < req.size /\ req.addr + req.size <= MaxAddr
           /\ curAddr \in Addr /\ curAddr \in Nat /\ curId \in Id /\ curOff \in Off
           /\ curAddr = curId * BlockSize + curOff /\ curId * BlockSize \in Nat
           /\ curLen \in Nat \ {0} /\ curOff + curLen <= BlockSize
           /\ req.done + curLen <= req.size
           /\ mode # "closed" /\ Transfer /\ req.kind \in {"read", "write"}
           /\ req.mem \in {"raw", "meta"}
  <1>1. req \in [kind : {"write", "read"}, mem : {"raw", "meta"}, addr : Addr,
                 size : Nat, data : Seq(Cell), done : Nat]
    BY DEF Moving, Base, TypeOK, Request
  <1>2. /\ req.addr \in Nat /\ req.done \in Nat /\ req.size \in Nat /\ req.addr \in Addr
        /\ req.done < req.size /\ req.addr + req.size <= MaxAddr
        /\ mode # "closed" /\ Transfer /\ req.kind \in {"read", "write"}
        /\ req.mem \in {"raw", "meta"}
    BY <1>1, InFile DEF Moving, Base, RequestInFile, Modes, Transfer
  <1>3. curAddr \in Nat /\ curAddr \in Addr
    <2>0. MaxAddr \in Nat
      BY Sizes
    <2>1. req.addr + req.done \in Nat /\ req.addr + req.done < MaxAddr
      BY <1>2, <2>0
    <2> QED
      BY <2>1, Sizes DEF curAddr
  <1>4. /\ curId \in Id /\ curOff \in Off /\ curId * BlockSize \in Nat
        /\ curAddr = curId * BlockSize + curOff
    BY <1>3, InFile, Divides, BlockFits DEF curId, curOff
  <1>5. curLen \in Nat \ {0} /\ curOff + curLen <= BlockSize /\ req.done + curLen <= req.size
    <2>0. BlockSize \in Nat
      BY Sizes
    <2>1. curOff \in Nat /\ curOff < BlockSize
      BY <1>4, Sizes DEF Off
    <2>2. CASE BlockSize - curOff <= req.size - req.done
      <3>1. curLen = BlockSize - curOff
        BY <2>2 DEF curLen, Smaller
      <3> QED
        BY <1>2, <2>0, <2>1, <2>2, <3>1
    <2>3. CASE ~(BlockSize - curOff <= req.size - req.done)
      <3>1. curLen = req.size - req.done
        BY <2>3 DEF curLen, Smaller
      <3> QED
        BY <1>2, <2>0, <2>1, <2>3, <3>1
    <2> QED
      BY <2>2, <2>3
  <1> QED
    BY <1>2, <1>3, <1>4, <1>5

LEMMA EvictKeeps == ASSUME IInv, Evict PROVE IInv'
  <1>1. PICK v \in Victims : WriteBack(v) /\ cache' = Without(v)
    BY DEF Evict
  <1>2. v \in cached
    BY <1>1 DEF Victims, Preferred, Oldest
  <1> QED
    BY <1>1, <1>2, Current, RemoveKeeps DEF Evict, IInv

LEMMA FlushKeeps == ASSUME IInv, Flush PROVE IInv'
  <1>1. mode # "closed"
    BY DEF Flush
  <1> QED
    BY <1>1, RemoveKeeps DEF Flush

\* Block id is in memory with contents b.
LEMMA WithBlock ==
    ASSUME Base, NEW id \in Id, NEW b \in Block, cache' = With(id, b)
    PROVE  /\ cached' = cached \cup {id} /\ cached' \subseteq Id
           /\ cache' \in [cached' -> Block]
           /\ cache'[id] = b
           /\ \A i \in cached \ {id} : cache'[i] = cache[i]
  BY DEF With, cached, Base, TypeOK

LEMMA LoadKeeps == ASSUME IInv, Load PROVE IInv'
  <1> DEFINE b == [age |-> op_counter, buf |-> [o \in Off |-> Junk], dirty |-> FALSE,
                   minmoff |-> BlockSize, maxmoff |-> 0,
                   minroff |-> BlockSize, maxroff |-> 0]
  <1>1. /\ curId \notin cached
        /\ IF OnDisk(curId) THEN ReadBlock(curId, b)
                            ELSE cache' = With(curId, b) /\ UNCHANGED <<fdpos, pos, op, faults>>
        /\ op_counter' = op_counter + 1
        /\ UNCHANGED <<disk, dlen, mode, eoa, eof, file_eof, req, written>>
    BY DEF Load, Tick
  <1>2. /\ curId \in Id /\ mode # "closed"
    BY Current DEF Load, IInv
  <1>3. b \in Block /\ b.dirty = FALSE
    BY Sizes DEF Block, Cell, IInv, Base, TypeOK
  <1>4. b = [b EXCEPT !.buf = b.buf] /\ b.buf \in [Off -> Cell]
    BY DEF Cell
  <1> HIDE DEF b
  <1>5. Kernel' /\ faults' >= faults
        /\ \E buf \in [Off -> Cell] : cache' = With(curId, [b EXCEPT !.buf = buf])
    <2>1. CASE OnDisk(curId)
      BY <1>1, <1>2, <1>3, <2>1, ReadBlockKernel DEF IInv
    <2>2. CASE ~OnDisk(curId)
      <3>1. Kernel' /\ faults' >= faults
        BY <1>1, <2>2, SizesAssumption DEF IInv, Base, Kernel, Drift
      <3> QED
        BY <1>1, <1>4, <2>2, <3>1
    <2> QED
      BY <2>1, <2>2
  <1>6. PICK buf \in [Off -> Cell] : cache' = With(curId, [b EXCEPT !.buf = buf])
    BY <1>5
  <1>7. [b EXCEPT !.buf = buf] \in Block /\ [b EXCEPT !.buf = buf].dirty = FALSE
        /\ [b EXCEPT !.buf = buf].buf = buf
    BY <1>3 DEF Block
  <1>8. /\ cached' = cached \cup {curId} /\ cached' \subseteq Id
        /\ cache' \in [cached' -> Block] /\ ~cache'[curId].dirty /\ cache'[curId].buf = buf
        /\ \A i \in cached \ {curId} : cache'[i] = cache[i]
    BY <1>2, <1>6, <1>7, WithBlock DEF IInv
  <1>9. TypeOK'
    <2>1. /\ mode' \in {"closed", "ro", "rw"} /\ eoa' \in 0 .. MaxAddr /\ eof' \in Nat
          /\ op_counter' \in Nat
          /\ req' \in Request \cup {Idle} /\ written' \in [Addr -> Bytes \cup {Undef}]
      BY <1>1 DEF IInv, Base, TypeOK, MaxAddr
    <2> QED
      BY <1>5, <1>8, <2>1, TypeFromKernel
  <1>10. RequestInFile' /\ Modes'
    BY <1>1, <1>2, <1>8 DEF IInv, Base, RequestInFile, Modes, Transfer
  <1>11. ASSUME faults' = 0 PROVE Faithful'
    <2>1. faults = 0 /\ Faithful
      BY <1>5, <1>11, SizesAssumption DEF IInv, Base, Kernel
    <2> DEFINE addr == curId * BlockSize
               n == Smaller(BlockSize, IF dlen > addr THEN dlen - addr ELSE 0)
    <2>2. addr \in Nat /\ dlen \in Nat /\ BlockSize \in Nat /\ file_eof = dlen
      BY <1>2, <2>1, BlockFits, Sizes DEF Faithful, DescriptorTracked, IInv, Base, Kernel
    <2>3. OnDisk(curId) <=> addr < dlen
      BY <2>2 DEF OnDisk
    <2>4. CASE OnDisk(curId)
      <3>1. op = "read" /\ addr = pos => fdpos = addr
        BY <1>2, <2>1 DEF Faithful, DescriptorTracked
      <3>2. cache' = With(curId, [b EXCEPT !.buf = [o \in Off |->
                              IF o < n THEN disk[addr + o] ELSE Zero]])
            /\ fdpos' = addr + n /\ pos' = addr + n
        BY <1>1, <1>11, <2>1, <2>4, <3>1 DEF ReadBlock
      <3> DEFINE r == [o \in Off |-> IF o < n THEN disk[addr + o] ELSE Zero]
      <3>3. cache'[curId].buf = r
        <4>1. cache'[curId] = [b EXCEPT !.buf = r]
          BY <1>2, <3>2 DEF With
        <4> QED
          BY <4>1, <1>3 DEF Block
      <3>4. ASSUME NEW a \in Addr, a \div BlockSize = curId, a < dlen
            PROVE  cache'[curId].buf[a % BlockSize] = disk[a]
        <4>1. addr <= a /\ a < addr + BlockSize /\ a % BlockSize = a - addr /\ a \in Nat
          BY <1>2, <3>4, InFile, InBlock DEF Id
        <4> HIDE DEF addr
        <4>2. a - addr \in Off
          BY <2>2, <4>1 DEF Off
        <4>3. a - addr < n
          <5>1. n = IF BlockSize <= dlen - addr THEN BlockSize ELSE dlen - addr
            BY <2>2, <3>4, <4>1 DEF Smaller
          <5> QED
            BY <2>2, <3>4, <4>1, <5>1
        <4> HIDE DEF n
        <4>4. addr + (a - addr) = a
          BY <2>2, <4>1
        <4> QED
          BY <3>3, <4>1, <4>2, <4>3, <4>4
      <3>5. DescriptorTracked'
        BY <1>1, <2>2, <3>2 DEF DescriptorTracked
      <3>6. ASSUME NEW a \in Addr, written[a] # Undef
            PROVE  Visible(a)' = written[a] /\ (a \div BlockSize \notin cached' => a < dlen)
        <4>1. Visible(a) = written[a] /\ (a \div BlockSize \notin cached => a < dlen)
          BY <2>1, <3>6 DEF Faithful, Coherent
        <4>2. CASE a \div BlockSize = curId
          BY <1>1, <1>8, <3>4, <4>1, <4>2 DEF Visible
        <4>3. CASE a \div BlockSize # curId
          BY <1>1, <1>8, <4>1, <4>3 DEF Visible
        <4> QED
          BY <4>2, <4>3
      <3>7. Coherent'
        BY <1>1, <3>6 DEF Coherent
      <3>8. CleanBlocksOnDisk'
        <4>1. SUFFICES ASSUME NEW i \in cached', ~cache'[i].dirty,
                              NEW a \in Addr, a \div BlockSize = i, written[a] # Undef
                       PROVE  a < dlen /\ disk[a] = written[a]
          BY <1>1 DEF CleanBlocksOnDisk
        <4>2. CASE i = curId
          BY <1>1, <2>1, <4>1, <4>2 DEF Faithful, Coherent, Visible
        <4>3. CASE i # curId
          BY <1>8, <2>1, <4>1, <4>3 DEF Faithful, CleanBlocksOnDisk
        <4> QED
          BY <4>2, <4>3
      <3> QED
        BY <3>5, <3>7, <3>8 DEF Faithful
    <2>5. CASE ~OnDisk(curId)
      <3>1. ASSUME NEW a \in Addr, a \div BlockSize = curId PROVE written[a] = Undef
        <4>1. addr <= a /\ a \in Nat
          BY <1>2, <3>1, InFile, InBlock DEF Id
        <4> HIDE DEF addr
        <4>2. ~(a < dlen)
          BY <2>2, <2>3, <2>5, <4>1
        <4> QED
          BY <1>1, <2>1, <3>1, <4>2 DEF Faithful, Coherent
      <3>2. DescriptorTracked'
        BY <1>1, <2>1, <2>5 DEF Faithful, DescriptorTracked
      <3>3. Coherent'
        BY <1>1, <1>8, <2>1, <3>1 DEF Faithful, Coherent, Visible
      <3>4. CleanBlocksOnDisk'
        BY <1>1, <1>8, <2>1, <3>1 DEF Faithful, CleanBlocksOnDisk
      <3> QED
        BY <3>2, <3>3, <3>4 DEF Faithful
    <2> QED
      BY <2>4, <2>5
  <1> QED
    BY <1>5, <1>9, <1>10, <1>11 DEF IInv, Base

\* A pass leaves a block a block.
LEMMA PassedBlock ==
    ASSUME Base, Moving, NEW b \in Block, NEW buf \in [Off -> Cell], NEW dirty \in BOOLEAN
    PROVE  /\ Passed(b, buf, dirty) \in Block
           /\ Passed(b, buf, dirty).buf = buf /\ Passed(b, buf, dirty).dirty = dirty
  <1>1. curOff \in 0 .. BlockSize /\ curOff + curLen - 1 \in 0 .. BlockSize
    <2>1. BlockSize \in Nat
      BY Sizes
    <2>2. curOff \in Nat /\ curLen \in Nat \ {0} /\ curOff + curLen <= BlockSize
      BY Current DEF Off
    <2> QED
      BY <2>1, <2>2
  <1>2. /\ b.minmoff \in 0 .. BlockSize /\ b.maxmoff \in 0 .. BlockSize
        /\ b.minroff \in 0 .. BlockSize /\ b.maxroff \in 0 .. BlockSize
    BY DEF Block
  <1>3. op_counter \in Nat
    BY DEF Base, TypeOK
  <1> QED
    BY <1>1, <1>2, <1>3 DEF Passed, Block, Smaller, Larger

LEMMA PutKeeps == ASSUME IInv, Put PROVE IInv'
  <1>1. Base /\ Moving /\ req.kind = "write" /\ curId \in cached
    BY DEF Put, IInv
  <1>2. cache[curId] \in Block /\ cache[curId].buf \in [Off -> Cell]
    BY <1>1 DEF Base, TypeOK, Block
  <1>3. /\ Transfer /\ mode = "rw" /\ req.data \in Seq(Bytes) /\ Len(req.data) = req.size
        /\ req \in [kind : {"write", "read"}, mem : {"raw", "meta"}, addr : Addr,
                    size : Nat, data : Seq(Cell), done : Nat]
    BY <1>1 DEF Moving, Transfer, Base, RequestInFile, TypeOK, Request
  <1>4. /\ req.addr \in Nat /\ req.done \in Nat /\ req.size \in Nat
        /\ curAddr \in Nat /\ curId \in Id /\ curOff \in Nat
        /\ curAddr = curId * BlockSize + curOff /\ curId * BlockSize \in Nat
        /\ curLen \in Nat \ {0} /\ curOff + curLen <= BlockSize
        /\ req.done + curLen <= req.size
    BY <1>1, Current DEF Off
  <1>5. curAddr = req.addr + req.done /\ BlockSize \in Nat
    BY Sizes DEF curAddr
  <1>6. /\ cache' = With(curId, Filled(cache[curId]))
        /\ written' = [a \in Addr |-> IF curAddr <= a /\ a < curAddr + curLen
                                        THEN req.data[a - req.addr + 1] ELSE written[a]]
        /\ op_counter' = op_counter + 1
        /\ eof' = EofAfterPut(curAddr + curLen)
        /\ req' = [req EXCEPT !.done = req.done + curLen]
        /\ UNCHANGED <<mode, eoa, kernelVars>>
    BY DEF Put, Tick
  <1>7. Copied(cache[curId]) \in [Off -> Cell]
    <2>1. ASSUME NEW o \in Off, curOff <= o, o < curOff + curLen
          PROVE  req.data[req.done + (o - curOff) + 1] \in Bytes
      <3>1. req.done + (o - curOff) + 1 \in 1 .. Len(req.data)
        <4>1. o \in Nat
          BY DEF Off
        <4> QED
          BY SMTT(30), <1>3, <1>4, <2>1, <4>1
      <3> QED
        BY <1>3, <3>1
    <2> QED
      BY <1>2, <2>1 DEF Copied, Cell
  <1> DEFINE b == Filled(cache[curId])
  <1>8. b \in Block /\ b.buf = Copied(cache[curId]) /\ b.dirty = TRUE
    BY <1>1, <1>2, <1>7, PassedBlock DEF Filled
  <1> HIDE DEF b
  <1>9. /\ cached' = cached /\ cached' \subseteq Id /\ cache' \in [cached' -> Block]
        /\ cache'[curId] = b
        /\ \A i \in cached \ {curId} : cache'[i] = cache[i]
    <2>1. cached \cup {curId} = cached
      BY <1>1
    <2> QED
      BY <1>1, <1>4, <1>6, <1>8, <2>1, WithBlock DEF b
  <1>10. written' \in [Addr -> Bytes \cup {Undef}]
    <2>1. ASSUME NEW a \in Addr, curAddr <= a, a < curAddr + curLen
          PROVE  req.data[a - req.addr + 1] \in Bytes
      <3>1. a - req.addr + 1 \in 1 .. Len(req.data)
        <4>1. a \in Nat
          BY InFile
        <4>2. /\ req.addr \in Nat /\ req.done \in Nat /\ req.size \in Nat /\ curLen \in Nat
              /\ curAddr = req.addr + req.done /\ req.done + curLen <= req.size
          BY <1>4, <1>5
        <4>3. 1 <= a - req.addr + 1 /\ a - req.addr + 1 <= req.size
          BY <2>1, <4>1, <4>2
        <4> QED
          BY <1>3, <4>1, <4>2, <4>3
      <3> QED
        BY <1>3, <3>1
    <2> QED
      BY <1>1, <1>6, <2>1 DEF Base, TypeOK
  <1>11. Kernel' /\ faults' = faults
    BY <1>1, <1>6 DEF Base, Kernel, kernelVars, Drift
  <1>12. TypeOK'
    <2>1. eof' \in Nat
      BY <1>1, <1>4, <1>6 DEF EofAfterPut, Larger, Base, TypeOK
    <2>2. req' \in Request \cup {Idle}
      <3>1. req.done + curLen \in Nat
        BY <1>4
      <3>2. req' \in [kind : {"write", "read"}, mem : {"raw", "meta"}, addr : Addr,
                      size : Nat, data : Seq(Cell), done : Nat]
        BY <1>3, <1>6, <3>1
      <3> QED
        BY <3>2 DEF Request
    <2>3. mode' \in {"closed", "ro", "rw"} /\ eoa' \in 0 .. MaxAddr /\ op_counter' \in Nat
      BY <1>1, <1>6 DEF Base, TypeOK, MaxAddr
    <2> QED
      BY <1>9, <1>10, <1>11, <2>1, <2>2, <2>3, TypeFromKernel
  <1>13. RequestInFile' /\ Modes'
    BY <1>1, <1>3, <1>4, <1>6 DEF Base, RequestInFile, Modes, Transfer
  <1>14. ASSUME faults' = 0 PROVE Faithful'
    <2>1. Faithful
      BY <1>11, <1>14 DEF IInv
    <2>2. DescriptorTracked'
      BY <1>6, <2>1 DEF Faithful, DescriptorTracked, kernelVars
    <2>3. ASSUME NEW a \in Addr, a \div BlockSize = curId
          PROVE  Visible(a)' = IF curAddr <= a /\ a < curAddr + curLen
                                 THEN written'[a] ELSE Visible(a)
      <3>1. curId * BlockSize <= a /\ a \in Nat /\ a % BlockSize = a - curId * BlockSize
            /\ a % BlockSize \in Off
        BY <1>4, <2>3, InFile, InBlock, Divides DEF Id
      <3>2. curOff <= a % BlockSize /\ a % BlockSize < curOff + curLen
              <=> curAddr <= a /\ a < curAddr + curLen
        BY <1>4, <3>1
      <3>3. req.done + ((a % BlockSize) - curOff) + 1 = a - req.addr + 1
        BY <1>4, <1>5, <3>1
      <3>4. Visible(a)' = Copied(cache[curId])[a % BlockSize] /\ Visible(a) = cache[curId].buf[a % BlockSize]
        BY <1>1, <1>8, <1>9, <2>3 DEF Visible
      <3> QED
        BY <1>6, <3>1, <3>2, <3>3, <3>4 DEF Copied
    <2>4. ASSUME NEW a \in Addr, a \div BlockSize # curId
          PROVE  Visible(a)' = Visible(a) /\ written'[a] = written[a]
      <3>1. ~(curId * BlockSize <= a /\ a < curId * BlockSize + BlockSize) /\ a \in Nat
        BY <1>4, <2>4, InFile, InBlock DEF Id
      <3>2. ~(curAddr <= a /\ a < curAddr + curLen)
        BY <1>4, <1>5, <3>1
      <3> QED
        BY <1>6, <1>9, <2>4, <3>2 DEF Visible, kernelVars
    <2>5. Coherent'
      <3>1. SUFFICES ASSUME NEW a \in Addr, written'[a] # Undef
                     PROVE  /\ Visible(a)' = written'[a]
                            /\ a \div BlockSize \notin cached' => a < dlen'
        BY DEF Coherent
      <3>2. CASE a \div BlockSize = curId
        BY <1>1, <1>6, <1>9, <2>1, <2>3, <3>1, <3>2 DEF Faithful, Coherent
      <3>3. CASE a \div BlockSize # curId
        BY <1>6, <1>9, <2>1, <2>4, <3>1, <3>3 DEF Faithful, Coherent, kernelVars
      <3> QED
        BY <3>2, <3>3
    <2>6. CleanBlocksOnDisk'
      BY <1>6, <1>8, <1>9, <2>1, <2>4 DEF Faithful, CleanBlocksOnDisk, kernelVars
    <2> QED
      BY <2>2, <2>5, <2>6 DEF Faithful
  <1> QED
    BY <1>11, <1>12, <1>13, <1>14 DEF IInv, Base

LEMMA TableIsSeq ==
    ASSUME NEW S, NEW n \in Nat, NEW f \in [1 .. n -> S]
    PROVE  f \in Seq(S) /\ Len(f) = n
  OBVIOUS

\* The request after a pass of a read.
LEMMA GetRequest ==
    ASSUME IInv, Get
    PROVE  /\ req' \in [kind : {"write", "read"}, mem : {"raw", "meta"}, addr : Addr,
                        size : Nat, data : Seq(Cell), done : Nat]
           /\ req'.kind = "read" /\ req'.addr = req.addr /\ req'.size = req.size
           /\ req'.done = req.done + curLen /\ Len(req'.data) = req.done + curLen
           /\ req' = [req EXCEPT !.done = req'.done, !.data = req'.data]
           /\ \A i \in 1 .. (req.done + curLen) :
                req'.data[i] = IF i <= req.done THEN req.data[i]
                                 ELSE cache[curId].buf[curOff + (i - req.done - 1)]
  <1>1. Base /\ Moving /\ req.kind = "read" /\ curId \in cached
    BY DEF Get, IInv
  <1>2. cache[curId] \in Block /\ cache[curId].buf \in [Off -> Cell]
        /\ cache[curId].dirty \in BOOLEAN
    BY <1>1 DEF Base, TypeOK, Block
  <1>3. /\ Transfer /\ Len(req.data) = req.done
        /\ req \in [kind : {"write", "read"}, mem : {"raw", "meta"}, addr : Addr,
                    size : Nat, data : Seq(Cell), done : Nat]
    BY <1>1 DEF Moving, Transfer, Base, RequestInFile, TypeOK, Request
  <1>4. /\ req.addr \in Nat /\ req.done \in Nat /\ req.size \in Nat
        /\ curId \in Id /\ curOff \in Nat
        /\ curLen \in Nat \ {0} /\ curOff + curLen <= BlockSize
        /\ req.done + curLen <= req.size /\ req.addr + req.size <= MaxAddr
    BY <1>1, Current DEF Off
  <1> DEFINE d == [i \in 1 .. (req.done + curLen) |->
                     IF i <= req.done THEN req.data[i]
                                      ELSE cache[curId].buf[curOff + (i - req.done - 1)]]
             r1 == [req EXCEPT !.done = req.done + curLen]
  <1>5. d \in Seq(Cell) /\ Len(d) = req.done + curLen
    <2>1. ASSUME NEW i \in 1 .. (req.done + curLen) PROVE d[i] \in Cell
      <3>1. CASE i <= req.done
        BY <1>3, <1>4, <2>1, <3>1
      <3>2. CASE ~(i <= req.done)
        <4>1. BlockSize \in Nat
          BY Sizes
        <4>2. curOff + (i - req.done - 1) \in Off
          BY <1>4, <2>1, <3>2, <4>1 DEF Off
        <4> QED
          BY <1>2, <2>1, <3>2, <4>2
      <3> QED
        BY <3>1, <3>2
    <2>2. req.done + curLen \in Nat
      BY <1>4
    <2> HIDE DEF d
    <2>3. d = [i \in 1 .. (req.done + curLen) |-> d[i]]
      BY DEF d
    <2>4. d \in [1 .. (req.done + curLen) -> Cell]
      BY <2>1, <2>3, Zenon
    <2> QED
      BY <2>2, <2>4, TableIsSeq
  <1>7. req' = [r1 EXCEPT !.data = d]
    BY DEF Get
  <1>9. \A i \in 1 .. (req.done + curLen) :
          d[i] = IF i <= req.done THEN req.data[i]
                                  ELSE cache[curId].buf[curOff + (i - req.done - 1)]
    BY Zenon
  <1> HIDE DEF d
  <1>8. /\ req' \in [kind : {"write", "read"}, mem : {"raw", "meta"}, addr : Addr,
                     size : Nat, data : Seq(Cell), done : Nat]
        /\ req'.kind = "read" /\ req'.addr = req.addr /\ req'.size = req.size
        /\ req'.done = req.done + curLen /\ req'.data = d
    <2>1. req.done + curLen \in Nat
      BY <1>4
    <2>2. /\ r1 \in [kind : {"write", "read"}, mem : {"raw", "meta"}, addr : Addr,
                     size : Nat, data : Seq(Cell), done : Nat]
          /\ r1.kind = "read" /\ r1.addr = req.addr /\ r1.size = req.size
          /\ r1.done = req.done + curLen
      BY <1>1, <1>3, <2>1
    <2> HIDE DEF r1
    <2> QED
      BY <1>5, <1>7, <2>2
  <1>10. req' = [req EXCEPT !.done = req'.done, !.data = req'.data]
    BY <1>7, <1>8, Zenon
  <1> QED
    BY <1>5, <1>8, <1>9, <1>10

LEMMA GetKeeps == ASSUME IInv, Get PROVE IInv'
  <1>1. Base /\ Moving /\ req.kind = "read" /\ curId \in cached
    BY DEF Get, IInv
  <1>2. cache[curId] \in Block /\ cache[curId].buf \in [Off -> Cell]
        /\ cache[curId].dirty \in BOOLEAN
    BY <1>1 DEF Base, TypeOK, Block
  <1>4. /\ req.addr \in Nat /\ req.size \in Nat /\ curId \in Id
        /\ req.done + curLen <= req.size /\ req.addr + req.size <= MaxAddr
    BY <1>1, Current
  <1>6. /\ cache' = With(curId, Touched(cache[curId]))
        /\ op_counter' = op_counter + 1
        /\ UNCHANGED <<mode, eoa, eof, written, kernelVars>>
    BY DEF Get, Tick
  <1>8. /\ req' \in [kind : {"write", "read"}, mem : {"raw", "meta"}, addr : Addr,
                     size : Nat, data : Seq(Cell), done : Nat]
        /\ req'.kind = "read" /\ req'.addr = req.addr /\ req'.size = req.size
        /\ req'.done = req.done + curLen /\ Len(req'.data) = req.done + curLen
    BY GetRequest
  <1> DEFINE b == Touched(cache[curId])
  <1>9. b \in Block /\ b.buf = cache[curId].buf /\ b.dirty = cache[curId].dirty
    BY <1>1, <1>2, PassedBlock DEF Touched
  <1> HIDE DEF b
  <1>10. /\ cached' = cached /\ cached' \subseteq Id /\ cache' \in [cached' -> Block]
         /\ \A i \in cached : cache'[i].buf = cache[i].buf /\ cache'[i].dirty = cache[i].dirty
    <2>1. cached \cup {curId} = cached
      BY <1>1
    <2>2. /\ cached' = cached /\ cached' \subseteq Id /\ cache' \in [cached' -> Block]
          /\ cache'[curId] = b
          /\ \A i \in cached \ {curId} : cache'[i] = cache[i]
      BY <1>1, <1>4, <1>6, <1>9, <2>1, WithBlock DEF b
    <2> QED
      BY <1>9, <2>2
  <1>11. Kernel' /\ faults' = faults
    BY <1>1, <1>6 DEF Base, Kernel, kernelVars, Drift
  <1>12. TypeOK'
    <2>1. req' \in Request \cup {Idle}
      BY <1>8 DEF Request
    <2>2. mode' \in {"closed", "ro", "rw"} /\ eoa' \in 0 .. MaxAddr /\ op_counter' \in Nat
          /\ eof' \in Nat /\ written' \in [Addr -> Bytes \cup {Undef}]
      BY <1>1, <1>6 DEF Base, TypeOK, MaxAddr
    <2> QED
      BY <1>10, <1>11, <2>1, <2>2, TypeFromKernel
  <1>13. RequestInFile'
    BY <1>4, <1>8 DEF RequestInFile, Transfer
  <1>14. Modes'
    BY <1>1, <1>6, <1>10 DEF Base, Modes, Moving
  <1>15. ASSUME faults' = 0 PROVE Faithful'
    <2>1. Faithful
      BY <1>11, <1>15 DEF IInv
    <2>2. \A a \in Addr : Visible(a)' = Visible(a)
      BY <1>6, <1>10 DEF Visible, kernelVars
    <2>3. DescriptorTracked' /\ Coherent'
      BY <1>6, <1>10, <2>1, <2>2 DEF Faithful, DescriptorTracked, Coherent, kernelVars
    <2>4. CleanBlocksOnDisk'
      BY <1>6, <1>10, <2>1 DEF Faithful, CleanBlocksOnDisk, kernelVars
    <2> QED
      BY <2>3, <2>4 DEF Faithful
  <1> QED
    BY <1>11, <1>12, <1>13, <1>14, <1>15 DEF IInv, Base

\* Steps that move no byte keep what is known of the bytes.
LEMMA FaithfulKept ==
    ASSUME Faithful, mode # "closed" \/ mode' = "closed",
           UNCHANGED <<disk, dlen, fdpos, pos, op, file_eof, cache, written>>
    PROVE  Faithful'
  BY DEF Faithful, DescriptorTracked, Coherent, CleanBlocksOnDisk, Visible, cached

LEMMA BeginKeeps ==
    ASSUME IInv, NEW r \in Request, Begin(r),
           r.kind \in {"read", "write"} =>
             r.addr + r.size <= MaxAddr /\ r.done = 0 /\ r.size \in Nat,
           r.kind = "write" => mode = "rw" /\ r.data \in Seq(Bytes) /\ Len(r.data) = r.size,
           r.kind = "read" => r.data = <<>>
    PROVE  IInv'
  <1>1. mode # "closed" /\ req' = r
        /\ UNCHANGED <<disk, dlen, fdpos, mode, eoa, eof, file_eof, pos, op,
                       op_counter, cache, written, faults>>
    BY DEF Begin
  <1>2. TypeOK' /\ Kernel' /\ Modes'
    BY <1>1 DEF IInv, Base, TypeOK, Kernel, Drift, Modes, cached
  <1>3. RequestInFile'
    BY <1>1 DEF RequestInFile, Transfer
  <1>4. faults' = 0 => Faithful'
    BY <1>1, FaithfulKept DEF IInv
  <1> QED
    BY <1>2, <1>3, <1>4 DEF IInv, Base

LEMMA BeginWriteKeeps ==
    ASSUME IInv, NEW mem \in Mems, NEW a \in Addr, NEW data \in Payloads,
           BeginWrite(mem, a, data)
    PROVE  IInv'
  <1> DEFINE r == [kind |-> "write", mem |-> mem, addr |-> a, size |-> Len(data),
                   data |-> data, done |-> 0]
  <1>1. Begin(r) /\ mode = "rw" /\ a + Len(data) <= eoa
    BY DEF BeginWrite, InAllocated
  <1>2. data \in Seq(Bytes) /\ data \in Seq(Cell) /\ Len(data) \in Nat /\ mem \in {"raw", "meta"}
    BY CellsAssumption DEF Cell
  <1>3. r \in Request
    BY <1>2 DEF Request
  <1>4. a + Len(data) <= MaxAddr
    <2>1. eoa \in 0 .. MaxAddr
      BY DEF IInv, Base, TypeOK, MaxAddr
    <2>2. MaxAddr \in Nat /\ a \in Nat
      BY Sizes, InFile
    <2> QED
      BY <1>1, <1>2, <2>1, <2>2
  <1> QED
    BY <1>1, <1>2, <1>3, <1>4, BeginKeeps

LEMMA BeginReadKeeps ==
    ASSUME IInv, NEW mem \in Mems, NEW a \in Addr, NEW size \in ReadSizes,
           BeginRead(mem, a, size)
    PROVE  IInv'
  <1> DEFINE r == [kind |-> "read", mem |-> mem, addr |-> a, size |-> size,
                   data |-> <<>>, done |-> 0]
  <1>1. Begin(r) /\ a + size <= eoa
    BY DEF BeginRead, InAllocated
  <1>2. <<>> \in Seq(Cell) /\ size \in Nat /\ mem \in {"raw", "meta"}
    BY CellsAssumption
  <1>3. r \in Request
    BY <1>2 DEF Request
  <1>4. a + size <= MaxAddr
    <2>1. eoa \in 0 .. MaxAddr
      BY DEF IInv, Base, TypeOK, MaxAddr
    <2>2. MaxAddr \in Nat /\ a \in Nat
      BY Sizes, InFile
    <2> QED
      BY <1>1, <1>2, <2>1, <2>2
  <1> QED
    BY <1>1, <1>2, <1>3, <1>4, BeginKeeps

LEMMA SetEoaKeeps == ASSUME IInv, NEW a \in Eoas, SetEoa(a) PROVE IInv'
  <1>1. eoa' = a /\ mode # "closed"
        /\ UNCHANGED <<disk, dlen, fdpos, mode, eof, file_eof, pos, op, op_counter,
                       cache, req, written, faults>>
    BY DEF SetEoa
  <1>2. a \in 0 .. (MaxId + 1) * BlockSize
    BY CellsAssumption
  <1>3. Base'
    BY <1>1, <1>2 DEF IInv, Base, TypeOK, Kernel, Drift, RequestInFile, Transfer, Modes, cached
  <1>4. faults' = 0 => Faithful'
    BY <1>1, FaithfulKept DEF IInv
  <1> QED
    BY <1>3, <1>4 DEF IInv

LEMMA ReturnKeeps == ASSUME IInv, Return PROVE IInv'
  <1>1. mode # "closed" /\ req' = Idle
        /\ UNCHANGED <<disk, dlen, fdpos, mode, eoa, eof, file_eof, pos, op,
                       op_counter, cache, written, faults>>
    BY DEF Return, IInv, Base, Modes
  <1>2. Base'
    BY <1>1 DEF IInv, Base, TypeOK, Kernel, Drift, RequestInFile, Transfer, Modes, cached
  <1>3. faults' = 0 => Faithful'
    BY <1>1, FaithfulKept DEF IInv
  <1> QED
    BY <1>2, <1>3 DEF IInv

\* Close frees blocks that are on disk: those of a file opened for reading
\* are clean, and the others have been flushed.
LEMMA CloseKeeps == ASSUME IInv, Close PROVE IInv'
  <1>1. mode' = "closed" /\ cached' = {} /\ req' = Idle /\ cache' \in [cached' -> Block]
        /\ UNCHANGED <<disk, dlen, fdpos, eoa, eof, file_eof, pos, op, op_counter,
                       written, faults>>
    BY DEF Close, cached
  <1>2. Kernel'
    BY <1>1 DEF IInv, Base, Kernel, Drift
  <1>3. TypeOK'
    <2>1. eoa' \in 0 .. MaxAddr /\ eof' \in Nat /\ op_counter' \in Nat
          /\ written' \in [Addr -> Bytes \cup {Undef}]
      BY <1>1 DEF IInv, Base, TypeOK, MaxAddr
    <2> QED
      BY <1>1, <1>2, <2>1, TypeFromKernel
  <1>4. RequestInFile' /\ Modes'
    BY <1>1 DEF RequestInFile, Modes, Transfer
  <1>5. ASSUME faults' = 0 PROVE Faithful'
    <2>1. Faithful
      BY <1>1, <1>5 DEF IInv
    <2>2. ASSUME NEW a \in Addr, written[a] # Undef PROVE a < dlen /\ disk[a] = written[a]
      <3>1. CASE a \div BlockSize \in cached
        <4>1. ~cache[a \div BlockSize].dirty
          BY <3>1 DEF Close, AllFlushed, IInv, Base, Modes
        <4> QED
          BY <2>1, <2>2, <3>1, <4>1 DEF Faithful, CleanBlocksOnDisk
      <3>2. CASE a \div BlockSize \notin cached
        BY <2>1, <2>2, <3>2 DEF Faithful, Coherent, Visible
      <3> QED
        BY <3>1, <3>2
    <2> QED
      BY <1>1, <2>2 DEF Faithful, DescriptorTracked, Coherent, CleanBlocksOnDisk, Visible
  <1> QED
    BY <1>2, <1>3, <1>4, <1>5 DEF IInv, Base

LEMMA OpenKeeps ==
    ASSUME IInv, NEW m \in {"ro", "rw"}, NEW trunc \in BOOLEAN, Open(m, trunc)
    PROVE  IInv'
  <1>1. /\ mode = "closed" /\ cached = {} /\ req = Idle /\ mode' = m
        /\ file_eof' = dlen' /\ eof' = dlen' /\ eoa' = 0
        /\ pos' = HADDR_UNDEF /\ op' = "unknown" /\ op_counter' = 0 /\ fdpos' = 0
        /\ cached' = {} /\ cache' \in [cached' -> Block]
        /\ UNCHANGED <<req, faults>>
    BY DEF Open, IInv, Base, Modes, cached
  <1>2. \/ UNCHANGED <<dlen, disk, written>>
        \/ /\ dlen' = 0 /\ disk' = [a \in DiskAddr |-> Zero]
           /\ written' = [a \in Addr |-> Undef]
    BY DEF Open
  <1>3. /\ dlen' \in 0 .. 2 * MaxAddr /\ dlen' \in Nat /\ disk' \in [DiskAddr -> Cell]
        /\ written' \in [Addr -> Bytes \cup {Undef}]
    <2>1. /\ dlen \in 0 .. 2 * MaxAddr /\ dlen \in Nat /\ disk \in [DiskAddr -> Cell]
          /\ written \in [Addr -> Bytes \cup {Undef}] /\ MaxAddr \in Nat
      BY Sizes DEF IInv, Base, TypeOK, Kernel
    <2> QED
      BY <1>2, <2>1 DEF Cell
  <1>4. Kernel'
    BY <1>1, <1>3 DEF IInv, Base, Kernel, Drift
  <1>5. TypeOK'
    <2>1. eoa' \in 0 .. MaxAddr /\ req' \in Request \cup {Idle}
      BY <1>1, Sizes
    <2> QED
      BY <1>1, <1>3, <1>4, <2>1, TypeFromKernel
  <1>6. RequestInFile' /\ Modes'
    BY <1>1 DEF RequestInFile, Modes, Transfer
  <1>7. ASSUME faults' = 0 PROVE Faithful'
    <2>1. \A a \in Addr : written[a] # Undef => a < dlen /\ disk[a] = written[a]
      BY <1>1, <1>7 DEF IInv, Faithful, Coherent, Visible
    <2>2. \A a \in Addr : written'[a] # Undef => a < dlen' /\ disk'[a] = written'[a]
      BY <1>2, <2>1
    <2> QED
      BY <1>1, <2>2 DEF Faithful, DescriptorTracked, Coherent, CleanBlocksOnDisk, Visible
  <1> QED
    BY <1>4, <1>5, <1>6, <1>7 DEF IInv, Base

LEMMA StepKeeps == ASSUME IInv, [Next]_vars PROVE IInv'
  <1>1. CASE \E m \in {"ro", "rw"} : Open(m, FALSE)
    BY <1>1, OpenKeeps
  <1>2. CASE Open("rw", TRUE)
    BY <1>2, OpenKeeps
  <1>3. CASE \E a \in Eoas : SetEoa(a)
    BY <1>3, SetEoaKeeps
  <1>4. CASE \E mem \in Mems, a \in Addr :
               \/ \E data \in Payloads : BeginWrite(mem, a, data)
               \/ \E size \in ReadSizes : BeginRead(mem, a, size)
    BY <1>4, BeginWriteKeeps, BeginReadKeeps
  <1>5. CASE Truncate \/ BeginClose
    <2>1. PICK k \in {"truncate", "close"} : Begin([kind |-> k])
      BY <1>5 DEF Truncate, BeginClose
    <2>2. [kind |-> k] \in Request /\ [kind |-> k].kind = k
      BY DEF Request
    <2> QED
      BY <2>1, <2>2, BeginKeeps
  <1>6. CASE Step
    BY <1>6, EvictKeeps, LoadKeeps, PutKeeps, GetKeeps, ReturnKeeps, FlushKeeps, CloseKeeps
    DEF Step
  <1>7. CASE UNCHANGED vars
    <2>1. UNCHANGED <<disk, dlen, fdpos, mode, eoa, eof, file_eof, pos, op, op_counter,
                      cache, req, written, faults>>
      BY <1>7 DEF vars
    <2>2. Base'
      BY <2>1 DEF IInv, Base, TypeOK, Kernel, Drift, RequestInFile, Transfer, Modes, cached
    <2>3. faults' = 0 => Faithful'
      BY <2>1 DEF IInv, Faithful, DescriptorTracked, Coherent, CleanBlocksOnDisk, Visible, cached
    <2> QED
      BY <2>2, <2>3 DEF IInv
  <1> QED
    BY <1>1, <1>2, <1>3, <1>4, <1>5, <1>6, <1>7 DEF Next, Call

-----------------------------------------------------------------------------
(* The theorems *)

LEMMA Inductive == Spec => []IInv
  <1>1. IInv /\ [Next]_vars => IInv'
    BY StepKeeps
  <1> QED
    BY Initially, <1>1, PTL DEF Spec

\* The fields of H5FD_silo_t and of its blocks keep their types, whatever
\* system calls fail.
THEOREM TypeCorrect == Spec => []TypeOK
  BY Inductive, PTL DEF IInv, Base

\* Until a system call fails, every byte that was written is what
\* H5FD_silo_read would return for it.
THEOREM NothingLost == Spec => [](faults = 0 => Coherent)
  <1>1. IInv => (faults = 0 => Coherent)
    BY DEF IInv, Faithful
  <1> QED
    BY Inductive, <1>1, PTL

\* Until then the position by which file_read and file_write skip a seek is
\* the descriptor's, and file_eof the size of the file.
THEOREM SeeksAreSound == Spec => [](faults = 0 => DescriptorTracked)
  <1>1. IInv => (faults = 0 => DescriptorTracked)
    BY DEF IInv, Faithful
  <1> QED
    BY Inductive, <1>1, PTL

\* Until then free_block_by_index drops a clean block without loss.
THEOREM CleanMeansOnDisk == Spec => [](faults = 0 => CleanBlocksOnDisk)
  <1>1. IInv => (faults = 0 => CleanBlocksOnDisk)
    BY DEF IInv, Faithful
  <1> QED
    BY Inductive, <1>1, PTL

\* Until then H5FD_silo_close leaves every byte that was written on disk.
THEOREM CloseDurable == Spec => [](faults = 0 => CloseIsDurable)
  <1>1. IInv => (faults = 0 => CloseIsDurable)
    BY DEF IInv, Base, Modes, Faithful, Coherent, Visible, CloseIsDurable
  <1> QED
    BY Inductive, <1>1, PTL

\* Even when system calls fail, no call on a file opened for reading changes
\* it.
THEOREM ReadOnly == Spec => ReadOnlyUntouched
  <1>1. ASSUME IInv, Next, mode = "ro" PROVE UNCHANGED <<disk, dlen>>
    <2>1. ASSUME NEW v \in cached, WriteBack(v) PROVE UNCHANGED <<disk, dlen>>
      BY <1>1, <2>1 DEF WriteBack, kernelVars, IInv, Base, Modes
    <2>2. CASE Evict
      BY <2>1, <2>2 DEF Evict, Victims, Preferred, Oldest
    <2>3. CASE Call
      BY <1>1, <2>3 DEF Call, Open, SetEoa, BeginWrite, BeginRead, Truncate, BeginClose, Begin
    <2>4. CASE Load \/ Put \/ Get \/ Return \/ Flush \/ Close
      BY <1>1, <2>4 DEF Load, Put, Get, Return, Flush, Close, kernelVars
    <2> QED
      BY <1>1, <2>2, <2>3, <2>4 DEF Next, Step
  <1>2. IInv /\ [Next]_vars => [mode = "ro" => UNCHANGED <<disk, dlen>>]_vars
    BY <1>1
  <1> QED
    BY Inductive, <1>2, PTL DEF Spec, ReadOnlyUntouched

-----------------------------------------------------------------------------
(* The ages of blocks                                                      *)

LEMMA AgesKept == ASSUME IInv, AgesDistinct, [Next]_vars PROVE AgesDistinct'
  <1>1. ASSUME cached' \subseteq cached, \A i \in cached' : cache'[i] = cache[i],
               op_counter' = op_counter
        PROVE  AgesDistinct'
    BY <1>1 DEF AgesDistinct
  <1>2. ASSUME NEW id, cached' = cached \cup {id}, cache'[id].age = op_counter,
               \A i \in cached \ {id} : cache'[i] = cache[i], op_counter' = op_counter + 1
        PROVE  AgesDistinct'
    <2>1. op_counter \in Nat /\ \A i \in cached : cache[i].age \in Nat
      BY DEF IInv, Base, TypeOK, Block
    <2> QED
      BY <1>2, <2>1 DEF AgesDistinct
  <1>3. ASSUME NEW id, NEW b, b.age = op_counter, cache' = With(id, b),
               op_counter' = op_counter + 1
        PROVE  AgesDistinct'
    <2>1. /\ cached' = cached \cup {id} /\ cache'[id] = b
          /\ \A i \in cached \ {id} : cache'[i] = cache[i]
      BY <1>3 DEF With, cached
    <2> QED
      BY <1>2, <1>3, <2>1
  <1>4. CASE Load
    <2> DEFINE b == [age |-> op_counter, buf |-> [o \in Off |-> Junk], dirty |-> FALSE,
                     minmoff |-> BlockSize, maxmoff |-> 0,
                     minroff |-> BlockSize, maxroff |-> 0]
    <2>1. b \in Block /\ b.age = op_counter /\ op_counter' = op_counter + 1 /\ curId \in Id
          /\ UNCHANGED <<disk, dlen, file_eof>>
          /\ IF OnDisk(curId) THEN ReadBlock(curId, b) ELSE cache' = With(curId, b)
      <3>1. b \in Block /\ b.age = op_counter
        BY Sizes DEF Block, Cell, IInv, Base, TypeOK
      <3>2. curId \in Id
        BY <1>4, Current DEF Load, IInv
      <3> QED
        BY <1>4, <3>1, <3>2 DEF Load, Tick
    <2> HIDE DEF b
    <2>2. CASE OnDisk(curId)
      <3>1. PICK buf \in [Off -> Cell] : cache' = With(curId, [b EXCEPT !.buf = buf])
        BY <2>1, <2>2, ReadBlockKernel DEF IInv
      <3>2. [b EXCEPT !.buf = buf].age = op_counter
        BY <2>1 DEF Block
      <3> QED
        BY <1>3, <2>1, <3>1, <3>2
    <2>3. CASE ~OnDisk(curId)
      BY <1>3, <2>1, <2>3
    <2> QED
      BY <2>2, <2>3
  <1>5. CASE Put \/ Get
    <2>1. PICK buf, dirty : cache' = With(curId, Passed(cache[curId], buf, dirty))
      BY <1>5 DEF Put, Get, Filled, Touched
    <2>2. Passed(cache[curId], buf, dirty).age = op_counter /\ op_counter' = op_counter + 1
      BY <1>5 DEF Passed, Put, Get, Tick
    <2> QED
      BY <1>3, <2>1, <2>2
  <1>6. CASE Evict \/ Flush
    BY <1>1, <1>6 DEF Evict, Flush, Without, cached
  <1>7. CASE Return \/ UNCHANGED vars
    BY <1>1, <1>7 DEF Return, vars, cached
  <1>8. CASE Close
    BY <1>8 DEF Close, AgesDistinct, cached
  <1>9. CASE Call
    <2>1. CASE \E m \in {"ro", "rw"}, trunc \in BOOLEAN : Open(m, trunc)
      BY <2>1 DEF Open, AgesDistinct, cached
    <2>2. CASE UNCHANGED <<cache, op_counter>>
      BY <1>1, <2>2 DEF cached
    <2> QED
      BY <1>9, <2>1, <2>2 DEF Call, SetEoa, BeginWrite, BeginRead, Truncate, BeginClose, Begin
  <1> QED
    BY <1>4, <1>5, <1>6, <1>7, <1>8, <1>9 DEF Next, Step

\* No two blocks have the age find_block_to_preempt compares, even when
\* system calls fail.
THEOREM AgesDiffer == Spec => []AgesDistinct
  <1>1. Init => AgesDistinct
    BY DEF Init, AgesDistinct, cached
  <1> QED
    BY Inductive, <1>1, AgesKept, PTL DEF Spec

-----------------------------------------------------------------------------
(* The high-water mark                                                     *)

\* A dirty block starts below the high-water mark, so that writing the whole
\* of it passes the mark by less than a block.
DirtyBelowEof == \A id \in cached : cache[id].dirty => id * BlockSize < eof

HighWater == EofIsHighWater /\ DirtyBelowEof

\* Writing a block back: the file reaches the end of a dirty one, and no
\* further than it was or than that.
LEMMA WriteBackExtends ==
    ASSUME Base, Faithful, mode # "closed", NEW id \in cached, WriteBack(id),
           faults = 0, faults' = 0
    PROVE  /\ cache[id].dirty => dlen' >= id * BlockSize + BlockSize
           /\ dlen' >= dlen /\ file_eof' = dlen'
           /\ \/ dlen' = dlen
              \/ cache[id].dirty /\ dlen' = id * BlockSize + BlockSize
  <1>1. file_eof' = dlen'
    BY WrittenBack
  <1>2. CASE ~cache[id].dirty
    BY SMTT(30), <1>1, <1>2, Sizes DEF WriteBack, kernelVars, Base, Kernel
  <1>3. CASE cache[id].dirty
    <2> DEFINE addr == id * BlockSize
    <2>1. addr \in Nat /\ BlockSize \in Nat /\ dlen \in Nat
      BY BlockFits, Sizes DEF Base, TypeOK
    <2>2. op = "write" /\ addr = pos => fdpos = addr
      BY DEF Faithful, DescriptorTracked
    <2>3. dlen' = Larger(dlen, addr + BlockSize)
      BY <1>3, <2>2 DEF WriteBack, WriteBlock
    <2> HIDE DEF addr
    <2>4. dlen' >= addr + BlockSize /\ dlen' >= dlen
          /\ (dlen' = dlen \/ dlen' = addr + BlockSize)
      BY <2>1, <2>3 DEF Larger
    <2> QED
      BY <1>1, <1>3, <2>4 DEF addr
  <1> QED
    BY <1>2, <1>3

LEMMA RemoveHighWater ==
    ASSUME IInv, mode # "closed", HighWater, NEW id \in cached, WriteBack(id),
           cache' = Without(id), UNCHANGED <<mode, eof, written>>, faults = 0, faults' = 0
    PROVE  HighWater'
  <1>1. cached' = cached \ {id} /\ \A i \in cached \ {id} : cache'[i] = cache[i]
    BY DEF Without, cached
  <1>2. /\ cache[id].dirty => dlen' >= id * BlockSize + BlockSize
        /\ dlen' >= dlen /\ file_eof' = dlen'
        /\ \/ dlen' = dlen
           \/ cache[id].dirty /\ dlen' = id * BlockSize + BlockSize
    BY WriteBackExtends DEF IInv
  <1>3. /\ file_eof = dlen /\ dlen \in Nat /\ eof \in Nat /\ BlockSize \in Nat
        /\ id \in Nat /\ id * BlockSize \in Nat /\ cached \subseteq Id
    BY BlockFits, Sizes DEF IInv, Base, TypeOK, Faithful, DescriptorTracked, Id
  <1>4. DirtyBelowEof'
    BY <1>1 DEF HighWater, DirtyBelowEof
  <1>5. file_eof' <= eof + BlockSize - 1
    <2>1. CASE dlen' = dlen
      BY <1>2, <1>3, <2>1 DEF HighWater, EofIsHighWater
    <2>2. CASE cache[id].dirty /\ dlen' = id * BlockSize + BlockSize
      <3>1. id * BlockSize < eof
        BY <2>2 DEF HighWater, DirtyBelowEof
      <3> QED
        BY <1>2, <1>3, <2>2, <3>1
    <2> QED
      BY <1>2, <2>1, <2>2
  <1>6. ASSUME dlen' < eof
        PROVE  \E i \in cached' : cache'[i].dirty /\ i = (eof - 1) \div BlockSize
    <2>1. dlen < eof /\ eof - 1 \in Nat
      <3>1. dlen' \in Nat
        BY <1>2, <1>3
      <3> QED
        BY <1>2, <1>3, <1>6, <3>1
    <2>2. PICK i \in cached : cache[i].dirty /\ i = (eof - 1) \div BlockSize
      BY <2>1 DEF HighWater, EofIsHighWater
    <2>3. CASE i = id
      <3>1. id * BlockSize <= eof - 1 /\ eof - 1 < id * BlockSize + BlockSize
        BY <1>3, <2>1, <2>2, <2>3, InBlock
      <3>2. dlen' >= id * BlockSize + BlockSize /\ dlen' \in Nat
        BY <1>2, <1>3, <2>2, <2>3
      <3> QED
        BY <1>3, <1>6, <3>1, <3>2
    <2>4. CASE i # id
      BY <1>1, <2>2, <2>4
    <2> QED
      BY <2>3, <2>4
  <1>7. \A a \in Addr : written[a] # Undef => a < eof
    BY DEF HighWater, EofIsHighWater
  <1> QED
    BY <1>4, <1>5, <1>6, <1>7 DEF HighWater, EofIsHighWater

LEMMA PutHighWater == ASSUME IInv, HighWater, Put PROVE HighWater'
  <1>1. /\ Base /\ Moving /\ curId \in cached /\ mode # "closed"
        /\ curId \in Id /\ curOff \in Nat /\ curAddr \in Nat
        /\ curAddr = curId * BlockSize + curOff /\ curId * BlockSize \in Nat
        /\ curLen \in Nat \ {0} /\ curOff + curLen <= BlockSize
    BY Current DEF Put, IInv, Off
  <1>2. /\ cache' = With(curId, Filled(cache[curId]))
        /\ written' = [a \in Addr |-> IF curAddr <= a /\ a < curAddr + curLen
                                        THEN req.data[a - req.addr + 1] ELSE written[a]]
        /\ eof' = EofAfterPut(curAddr + curLen)
        /\ dlen' = dlen /\ file_eof' = file_eof /\ mode' = mode
    BY DEF Put, kernelVars
  <1>3. eof \in Nat /\ dlen \in Nat /\ file_eof \in Nat /\ BlockSize \in Nat
        /\ cached \subseteq Id
    BY Sizes DEF IInv, Base, TypeOK
  <1>4. /\ eof' \in Nat /\ eof' >= eof /\ eof' >= curAddr + curLen
        /\ (eof' = eof \/ eof' = curAddr + curLen)
    BY <1>1, <1>2, <1>3 DEF EofAfterPut, Larger
  <1>5. /\ cached' = cached /\ cache'[curId].dirty
        /\ \A i \in cached \ {curId} : cache'[i] = cache[i]
    BY <1>1, <1>2 DEF With, cached, Filled, Passed
  <1>6. ASSUME NEW a \in Addr, written'[a] # Undef PROVE a < eof'
    <2>1. a \in Nat
      BY InFile
    <2>2. CASE curAddr <= a /\ a < curAddr + curLen
      BY <1>1, <1>4, <2>1, <2>2
    <2>3. CASE ~(curAddr <= a /\ a < curAddr + curLen)
      <3>1. a < eof
        BY <1>1, <1>2, <1>6, <2>3 DEF HighWater, EofIsHighWater
      <3> QED
        BY <1>3, <1>4, <2>1, <3>1
    <2> QED
      BY <2>2, <2>3
  <1>7. file_eof' <= eof' + BlockSize - 1
    <2>1. file_eof <= eof + BlockSize - 1
      BY <1>1 DEF HighWater, EofIsHighWater
    <2> QED
      BY <1>2, <1>3, <1>4, <2>1
  <1>8. ASSUME dlen' < eof'
        PROVE  \E i \in cached' : cache'[i].dirty /\ i = (eof' - 1) \div BlockSize
    <2>1. CASE eof' = eof
      <3>1. PICK i \in cached : cache[i].dirty /\ i = (eof - 1) \div BlockSize
        BY <1>1, <1>2, <1>8, <2>1 DEF HighWater, EofIsHighWater
      <3> QED
        BY <1>5, <2>1, <3>1
    <2>2. CASE eof' = curAddr + curLen
      <3>1. /\ eof' - 1 \in Nat /\ curId * BlockSize <= eof' - 1
            /\ eof' - 1 < curId * BlockSize + BlockSize
        BY <1>1, <1>3, <2>2
      <3>2. curId = (eof' - 1) \div BlockSize
        <4>1. curId \in Nat
          BY <1>1 DEF Id
        <4> QED
          BY <3>1, <4>1, InBlock
      <3> QED
        BY <1>1, <1>5, <3>2
    <2> QED
      BY <1>4, <2>1, <2>2
  <1>9. DirtyBelowEof'
    <2>1. SUFFICES ASSUME NEW i \in cached, cache'[i].dirty PROVE i * BlockSize < eof'
      BY <1>5 DEF DirtyBelowEof
    <2>2. CASE i = curId
      BY <1>1, <1>4, <2>2
    <2>3. CASE i # curId
      <3>1. i * BlockSize < eof /\ i * BlockSize \in Nat
        BY <1>3, <1>5, <2>1, <2>3, BlockFits DEF HighWater, DirtyBelowEof
      <3> QED
        BY <1>3, <1>4, <3>1
    <2> QED
      BY <2>2, <2>3
  <1> QED
    BY <1>6, <1>7, <1>8, <1>9 DEF HighWater, EofIsHighWater

\* A block brought into memory is clean, and one that is read stays as it is.
LEMMA LoadHighWater == ASSUME IInv, HighWater, Load PROVE HighWater'
  <1> DEFINE b == [age |-> op_counter, buf |-> [o \in Off |-> Junk], dirty |-> FALSE,
                   minmoff |-> BlockSize, maxmoff |-> 0,
                   minroff |-> BlockSize, maxroff |-> 0]
  <1>1. /\ curId \notin cached /\ mode # "closed" /\ curId \in Id
        /\ IF OnDisk(curId) THEN ReadBlock(curId, b) ELSE cache' = With(curId, b)
        /\ UNCHANGED <<dlen, mode, eof, file_eof, written>>
    BY Current DEF Load, IInv
  <1>2. \E c : cache' = With(curId, c) /\ ~c.dirty
    <2>1. b.dirty = FALSE /\ \A buf : [b EXCEPT !.buf = buf].dirty = FALSE
      OBVIOUS
    <2> HIDE DEF b
    <2> QED
      BY <1>1, <2>1 DEF ReadBlock
  <1>3. /\ cached' = cached \cup {curId} /\ ~cache'[curId].dirty
        /\ \A i \in cached : cache'[i] = cache[i]
    BY <1>1, <1>2 DEF With, cached
  <1> QED
    BY <1>1, <1>3 DEF HighWater, EofIsHighWater, DirtyBelowEof

LEMMA GetHighWater == ASSUME IInv, HighWater, Get PROVE HighWater'
  <1>1. curId \in cached /\ cache' = With(curId, Touched(cache[curId]))
        /\ UNCHANGED <<dlen, mode, eof, file_eof, written>>
    BY DEF Get, kernelVars
  <1>2. /\ cached' = cached /\ \A i \in cached : cache'[i].dirty = cache[i].dirty
    BY <1>1 DEF With, cached, Touched, Passed
  <1> QED
    BY <1>1, <1>2 DEF HighWater, EofIsHighWater, DirtyBelowEof

LEMMA OpenHighWater ==
    ASSUME IInv, faults = 0, NEW m \in {"ro", "rw"}, NEW trunc \in BOOLEAN, Open(m, trunc)
    PROVE  HighWater'
  <1>1. /\ mode = "closed" /\ cached = {} /\ cached' = {}
        /\ file_eof' = dlen' /\ eof' = dlen'
    BY DEF Open, IInv, Base, Modes, cached
  <1>2. \A a \in Addr : written[a] # Undef => a < dlen
    BY <1>1 DEF IInv, Faithful, Coherent
  <1>3. \A a \in Addr : written'[a] # Undef => a < dlen'
    BY <1>2 DEF Open
  <1>4. dlen' \in Nat /\ BlockSize \in Nat /\ BlockSize > 0
    BY Sizes, SizesAssumption DEF Open, IInv, Base, TypeOK
  <1>5. file_eof' <= eof' + BlockSize - 1 /\ ~(dlen' < eof')
    <2>1. \A n \in Nat : n <= n + BlockSize - 1 /\ ~(n < n)
      BY SizesAssumption
    <2> QED
      BY <1>1, <1>4, <2>1, Zenon
  <1>6. \A a \in Addr : written'[a] # Undef => a < eof'
    BY <1>1, <1>3
  <1> QED
    BY <1>1, <1>5, <1>6 DEF HighWater, EofIsHighWater, DirtyBelowEof

LEMMA HighWaterKept ==
    ASSUME IInv, IInv', faults = 0 => HighWater, [Next]_vars, faults' = 0
    PROVE  HighWater'
  <1>1. ASSUME faults' >= faults PROVE faults = 0 /\ HighWater
    BY <1>1, SizesAssumption DEF IInv, Base, TypeOK
  <1>2. ASSUME UNCHANGED <<dlen, mode, eof, file_eof, cache, written, faults>>
        PROVE  HighWater'
    BY <1>2 DEF HighWater, EofIsHighWater, DirtyBelowEof, cached
  <1>3. ASSUME NEW id \in cached, mode # "closed", WriteBack(id), cache' = Without(id),
               UNCHANGED <<mode, eof, written>>
        PROVE  HighWater'
    BY <1>1, <1>3, WriteBackKernel, RemoveHighWater DEF IInv
  <1>4. CASE Evict
    <2>1. PICK v \in Victims : WriteBack(v) /\ cache' = Without(v)
      BY <1>4 DEF Evict
    <2>2. v \in cached
      BY <2>1 DEF Victims, Preferred, Oldest
    <2>3. mode # "closed"
      BY <1>4, Current DEF Evict, IInv
    <2> QED
      BY <1>3, <1>4, <2>1, <2>2, <2>3 DEF Evict
  <1>5. CASE Flush
    BY <1>3, <1>5 DEF Flush
  <1>6. CASE Load
    <2>1. faults' >= faults
      <3>1. faults' = faults \/ faults' = faults + 1
        BY <1>6 DEF Load, ReadBlock
      <3> QED
        BY <3>1, SizesAssumption DEF IInv, Base, TypeOK
    <2> QED
      BY <1>1, <1>6, <2>1, LoadHighWater
  <1>7. CASE Put \/ Get
    BY <1>7, PutHighWater, GetHighWater DEF Put, Get, kernelVars
  <1>8. CASE Return \/ UNCHANGED vars
    BY <1>2, <1>8 DEF Return, vars, HighWater, EofIsHighWater, DirtyBelowEof, cached
  <1>9. CASE Close
    BY <1>9 DEF Close, HighWater, EofIsHighWater, DirtyBelowEof, cached
  <1>10. CASE Call
    <2>1. CASE \E m \in {"ro", "rw"}, trunc \in BOOLEAN : Open(m, trunc)
      BY <2>1, OpenHighWater DEF Open
    <2>2. CASE UNCHANGED <<dlen, mode, eof, file_eof, cache, written, faults>>
      BY <2>2 DEF HighWater, EofIsHighWater, DirtyBelowEof, cached
    <2> QED
      BY <1>10, <2>1, <2>2
      DEF Call, SetEoa, BeginWrite, BeginRead, Truncate, BeginClose, Begin
  <1> QED
    BY <1>4, <1>5, <1>6, <1>7, <1>8, <1>9, <1>10 DEF Next, Step

\* Until a system call fails, eof is past every byte that was written, the
\* file passes it by less than a block, and where the file falls short of it
\* the block that will be written there is in memory and dirty.
THEOREM EofSound == Spec => [](faults = 0 => EofIsHighWater)
  <1>1. Init => HighWater
    BY DEF Init, HighWater, EofIsHighWater, DirtyBelowEof, cached
  <1>2. (faults = 0 => HighWater) => (faults = 0 => EofIsHighWater)
    BY DEF HighWater
  <1>3. IInv /\ IInv' /\ (faults = 0 => HighWater) /\ [Next]_vars
          => (faults = 0 => HighWater)'
    BY HighWaterKept
  <1> QED
    BY Inductive, <1>1, <1>2, <1>3, PTL DEF Spec

-----------------------------------------------------------------------------
(* The driver implements a flat file                                       *)

LEMMA StepIsFlat ==
    ASSUME IInv, faults = 0, [Next]_vars
    PROVE  [Flat!Next]_Flat!vars
  <1> USE DEF Flat!vars, Flat!Next
  <1>1. Flat!Addr = Addr
    BY DEF Flat!Addr, Addr
  <1>2. CASE Evict \/ Load \/ Flush \/ UNCHANGED vars
    BY <1>2 DEF Evict, Load, Flush, vars
  <1>3. CASE Put
    <2>1. /\ req.done < req.size /\ req.done \in Nat /\ req.size \in Nat
          /\ curLen \in Nat \ {0} /\ req.done + curLen <= req.size /\ Transfer
      BY <1>3, Current DEF Put, IInv
    <2>2. curAddr = req.addr + req.done /\ curLen \in 1 .. (req.size - req.done)
      BY <2>1 DEF curAddr
    <2>3. Flat!Store
      BY <1>1, <1>3, <2>1, <2>2 DEF Put, Flat!Store, Flat!IsTransfer, Transfer
    <2> QED
      BY <2>3
  <1>4. CASE Get
    <2>1. /\ req.done < req.size /\ req.done \in Nat /\ req.size \in Nat /\ req.addr \in Nat
          /\ curLen \in Nat \ {0} /\ req.done + curLen <= req.size /\ Transfer
          /\ curId \in Id /\ curOff \in Nat /\ curOff + curLen <= BlockSize
          /\ curAddr = curId * BlockSize + curOff /\ curId * BlockSize \in Nat
          /\ req.addr + req.size <= MaxAddr
      BY <1>4, Current DEF Get, IInv, Off
    <2>2. curAddr = req.addr + req.done /\ curLen \in 1 .. (req.size - req.done)
      BY <2>1 DEF curAddr
    <2>3. ASSUME NEW i \in 1 .. req.done PROVE req'.data[i] = req.data[i]
      <3>1. i \in 1 .. (req.done + curLen) /\ i <= req.done
        BY <2>1, <2>3
      <3> QED
        BY <1>4, <3>1, GetRequest
    <2>4. ASSUME NEW i \in (req.done + 1) .. (req.done + curLen)
          PROVE  Flat!Agrees(req.addr + i - 1, req'.data[i])
      <3> DEFINE a == req.addr + i - 1
      <3>1. /\ a \in Nat /\ a < MaxAddr /\ curId * BlockSize <= a
            /\ a < curId * BlockSize + BlockSize /\ MaxAddr \in Nat /\ BlockSize \in Nat
            /\ a - curId * BlockSize = curOff + (i - req.done - 1)
            /\ i \in 1 .. (req.done + curLen) /\ ~(i <= req.done)
        <4>1. MaxAddr \in Nat /\ BlockSize \in Nat
          BY Sizes
        <4> QED
          BY <2>1, <2>2, <2>4, <4>1
      <3>2. req'.data[i] = cache[curId].buf[a - curId * BlockSize]
        BY <1>4, <3>1, GetRequest
      <3> HIDE DEF a
      <3>3. a \in Addr
        BY <3>1, Sizes
      <3>4. a \div BlockSize = curId /\ a % BlockSize = a - curId * BlockSize
        <4>1. curId \in Nat
          BY <2>1, SizesAssumption DEF Id
        <4> QED
          BY <3>1, <4>1, InBlock
      <3>5. req'.data[i] = Visible(a)
        BY <1>4, <3>2, <3>4 DEF Get, Visible
      <3>6. written[a] # Undef => Visible(a) = written[a]
        BY <3>3 DEF IInv, Faithful, Coherent
      <3> QED
        BY <3>5, <3>6 DEF Flat!Agrees, a
    <2>5. Flat!Fetch
      <3>1. /\ req'.done = req.done + curLen
            /\ Len(req'.data) = req'.done
            /\ req' = [req EXCEPT !.done = req'.done, !.data = req'.data]
            /\ UNCHANGED <<written, mode, eoa>>
        BY <1>4, GetRequest DEF Get
      <3> QED
        BY <1>4, <2>1, <2>2, <2>3, <2>4, <3>1, Zenon
        DEF Get, Flat!Fetch, Flat!IsTransfer, Transfer
    <2> QED
      BY <2>5
  <1>5. CASE Return
    <2>1. Flat!Return
      BY <1>5 DEF Return, Flat!Return, Flat!IsTransfer
    <2> QED
      BY <2>1
  <1>6. CASE Close
    <2>1. Flat!Return
      BY <1>6 DEF Close, Closing, Flat!Return, Flat!IsTransfer
    <2> QED
      BY <2>1
  <1>7. ASSUME NEW m \in {"ro", "rw"}, NEW trunc, Open(m, trunc)
        PROVE  Flat!Next
    <2>1. Flat!Open
      BY <1>1, <1>7 DEF Open, Flat!Open
    <2> QED
      BY <2>1
  <1>8. ASSUME NEW a \in Eoas, SetEoa(a) PROVE Flat!Next
    <2>1. Flat!SetEoa
      BY <1>8, CellsAssumption DEF SetEoa, Flat!SetEoa
    <2> QED
      BY <2>1
  <1>9. ASSUME NEW r, Begin(r),
               r.kind \in {"read", "write"} => r.done = 0 /\ r.addr + r.size <= eoa,
               r.kind = "write" => mode = "rw"
        PROVE  [Flat!Next]_Flat!vars
    <2>1. CASE r = Idle
      BY <1>9, <2>1 DEF Begin
    <2>2. CASE r # Idle
      <3>1. Flat!Begin
        BY <1>9, <2>2 DEF Begin, Flat!Begin, Flat!IsTransfer
      <3> QED
        BY <3>1
    <2> QED
      BY <2>1, <2>2
  <1>10. ASSUME NEW mem \in Mems, NEW a \in Addr,
                \/ \E data \in Payloads : BeginWrite(mem, a, data)
                \/ \E size \in ReadSizes : BeginRead(mem, a, size)
         PROVE  [Flat!Next]_Flat!vars
    BY <1>9, <1>10 DEF BeginWrite, BeginRead, InAllocated
  <1>11. CASE Truncate \/ BeginClose
    <2>1. PICK k \in {"truncate", "close"} : Begin([kind |-> k])
      BY <1>11 DEF Truncate, BeginClose
    <2>2. [kind |-> k].kind = k
      OBVIOUS
    <2> QED
      BY <1>9, <2>1, <2>2
  <1> QED
    BY <1>2, <1>3, <1>4, <1>5, <1>6, <1>7, <1>8, <1>10, <1>11 DEF Next, Call, Step

\* Without failing system calls the driver implements a flat file: reads
\* return what was last written, across evictions, closes and reopens.
THEOREM DriverImplementsFlatFile ==
    ASSUME MaxFaults = 0
    PROVE  Spec => ImplementsFlatFile
  <1>1. Init => Flat!Init
    <2>1. Flat!Addr = Addr
      BY DEF Flat!Addr, Addr
    <2> QED
      BY <2>1, Initially DEF Init, IInv, Base, TypeOK, Flat!Init
  <1>2. IInv => faults = 0
    BY SizesAssumption DEF IInv, Base, TypeOK
  <1>3. IInv /\ [Next]_vars => [Flat!Next]_Flat!vars
    BY <1>2, StepIsFlat
  <1> QED
    BY Inductive, <1>1, <1>3, PTL DEF Spec, ImplementsFlatFile, Flat!Spec

-----------------------------------------------------------------------------
(* A full cache has a block to preempt                                     *)

LEMMA SmallestOf ==
    ASSUME NEW S \in SUBSET Nat, S # {}
    PROVE  \E m \in S : \A j \in S : m <= j
  <1> DEFINE Less == OpToRel(<, Nat)
  <1>1. IsWellFoundedOn(Less, Nat)
    BY NatLessThanWellFounded
  <1>2. \A x, y \in Nat : <<x, y>> \in Less <=> x < y
    BY DEF OpToRel
  <1> HIDE DEF Less
  <1>3. PICK m \in S : \A y \in S : <<y, m>> \notin Less
    BY <1>1, WFMin
  <1>4. ASSUME NEW j \in S PROVE m <= j
    <2>1. j \in Nat /\ m \in Nat /\ ~(j < m)
      BY <1>2, <1>3
    <2> QED
      BY <2>1
  <1> QED
    BY <1>4

LEMMA CachedFinite ==
    ASSUME Base
    PROVE  IsFiniteSet(cached) /\ Cardinality(cached) \in Nat /\ cached \subseteq Nat
  <1>1. cached \subseteq Id /\ Id = 0 .. MaxId /\ MaxId \in Nat
    BY SizesAssumption DEF Base, TypeOK, Id
  <1>2. IsFiniteSet(Id)
    BY <1>1, FS_Interval
  <1>3. IsFiniteSet(cached)
    BY <1>1, <1>2, FS_Subset
  <1> QED
    BY <1>1, <1>3, FS_CardinalityType

LEMMA OldestExists ==
    ASSUME Base, NEW S \in SUBSET cached, S # {}
    PROVE  Oldest(S) # {}
  <1>1. \A i \in S : cache[i].age \in Nat
    BY DEF Base, TypeOK, Block
  <1> DEFINE ages == {cache[i].age : i \in S}
  <1>2. ages \in SUBSET Nat /\ ages # {}
    BY <1>1
  <1>3. PICK m \in ages : \A a \in ages : m <= a
    BY <1>2, SmallestOf
  <1>4. PICK i \in S : m = cache[i].age
    OBVIOUS
  <1> QED
    BY <1>3, <1>4 DEF Oldest

\* Of two cached blocks one is not the first of the list, and it was used
\* before op_counter.
LEMMA VictimExists ==
    ASSUME Base, AgesDistinct, Cardinality(cached) > 1
    PROVE  Victims # {}
  <1> DEFINE cand == {i \in cached : /\ cache[i].age < op_counter
                                    /\ \E j \in cached : j < i}
             raw  == {i \in cand : ~IsMeta(cache[i])}
  <1>1. IsFiniteSet(cached) /\ Cardinality(cached) \in Nat /\ cached \subseteq Nat
    BY CachedFinite
  <1>2. cached # {}
    BY FS_EmptySet
  <1>3. PICK m \in cached : \A j \in cached : m <= j
    BY <1>1, <1>2, SmallestOf
  <1>4. cached # {m}
    <2>1. Cardinality({m}) = 1
      BY FS_Singleton, Zenon
    <2>2. Cardinality(cached) # 1
      BY <1>1
    <2> QED
      BY <2>1, <2>2, Zenon
  <1>5. PICK i \in cached : i # m
    BY <1>4
  <1>6. m < i
    BY <1>1, <1>3, <1>5
  <1>7. i \in cand
    BY <1>6 DEF AgesDistinct
  <1>8. Victims = Preferred(raw, cand)
    BY DEF Victims
  <1>9. raw \in SUBSET cached /\ cand \in SUBSET cached
    OBVIOUS
  <1> HIDE DEF cand, raw
  <1> QED
    BY <1>7, <1>8, <1>9, OldestExists DEF Preferred

\* What a step does to the set of cached blocks.
LEMMA LoadCached ==
    ASSUME IInv, Load
    PROVE  cached' = cached \cup {curId} /\ curId \notin cached
  <1>1. PICK b : cache' = With(curId, b)
    BY DEF Load, ReadBlock
  <1> QED
    BY <1>1 DEF Load, With, cached

LEMMA UseCached ==
    ASSUME Put \/ Get
    PROVE  cached' = cached /\ curId \in cached
  BY DEF Put, Get, With, cached

LEMMA EvictCached ==
    ASSUME Evict
    PROVE  \E v \in cached : (\E j \in cached : j < v) /\ cached' = cached \ {v}
  <1>1. PICK v \in Victims : cache' = Without(v)
    BY DEF Evict
  <1>2. v \in cached /\ \E j \in cached : j < v
    BY <1>1 DEF Victims, Preferred, Oldest
  <1> QED
    BY <1>1, <1>2 DEF Without, cached

LEMMA DropCached ==
    ASSUME Evict \/ Flush
    PROVE  \E v \in cached : cached' = cached \ {v}
  <1>1. CASE Evict
    BY <1>1, EvictCached
  <1>2. CASE Flush
    BY <1>2 DEF Flush, Without, cached
  <1> QED
    BY <1>1, <1>2

\* The cache never holds more than max_blocks.
HasRoom == Cardinality(cached) <= MaxBlocks

LEMMA SameSize ==
    ASSUME IInv, Evict \/ Load \/ Flush \/ Put \/ Get
    PROVE  /\ Evict \/ Flush => Cardinality(cached') = Cardinality(cached) - 1
           /\ Load => Cardinality(cached') = Cardinality(cached) + 1
           /\ Put \/ Get => Cardinality(cached') = Cardinality(cached)
  <1>1. IsFiniteSet(cached) /\ Cardinality(cached) \in Nat
    BY CachedFinite DEF IInv
  <1>2. ASSUME Evict \/ Flush PROVE Cardinality(cached') = Cardinality(cached) - 1
    <2>1. \E v \in cached : cached' = cached \ {v}
      BY <1>2, DropCached
    <2> QED
      BY <1>1, <2>1, FS_RemoveElement
  <1>3. ASSUME Load PROVE Cardinality(cached') = Cardinality(cached) + 1
    <2>1. cached' = cached \cup {curId} /\ curId \notin cached
      BY <1>3, LoadCached
    <2> QED
      BY <1>1, <2>1, FS_AddElement
  <1>4. ASSUME Put \/ Get PROVE Cardinality(cached') = Cardinality(cached)
    BY <1>4, UseCached
  <1> QED
    BY <1>2, <1>3, <1>4

LEMMA RoomKept == ASSUME IInv, HasRoom, [Next]_vars PROVE HasRoom'
  <1>1. Cardinality(cached) \in Nat /\ Cardinality(cached) <= MaxBlocks
        /\ MaxBlocks \in Nat
    BY CachedFinite, SizesAssumption DEF IInv, HasRoom
  <1>2. CASE Evict \/ Flush
    <2>1. Cardinality(cached') = Cardinality(cached) - 1
      BY <1>2, SameSize
    <2> QED
      BY <1>1, <2>1 DEF HasRoom
  <1>3. CASE Load
    <2>1. Cardinality(cached') = Cardinality(cached) + 1
          /\ Cardinality(cached) < MaxBlocks
      BY <1>3, SameSize DEF Load
    <2> QED
      BY <1>1, <2>1 DEF HasRoom
  <1>4. CASE Put \/ Get
    BY <1>1, <1>4, UseCached DEF HasRoom
  <1>5. CASE cached' = cached
    BY <1>1, <1>5 DEF HasRoom
  <1>6. CASE cached' = {}
    BY <1>1, <1>6, FS_EmptySet DEF HasRoom
  <1>7. CASE Return \/ Close \/ Call \/ UNCHANGED vars
    <2>1. cache' = cache \/ cache' = <<>>
      BY <1>7 DEF Return, Close, Call, Open, SetEoa, BeginWrite, BeginRead,
                  Truncate, BeginClose, Begin, vars
    <2> QED
      BY <1>5, <1>6, <2>1 DEF cached
  <1> QED
    BY <1>2, <1>3, <1>4, <1>7 DEF Next, Step

\* There are never more than max_blocks blocks in memory, and when there are
\* that many find_block_to_preempt finds one of them: it does not return -1,
\* which H5FD_silo_read and H5FD_silo_write would hand to
\* free_block_by_index as an index.  A cache of one block has no victim: the
\* search never considers the first block of the list.
Fits == /\ Cardinality(cached) <= MaxBlocks
        /\ Cardinality(cached) = MaxBlocks => Victims # {}

\* A cache of two blocks or more always has room for a block, or a victim,
\* whatever system calls fail.
THEOREM RoomIsFound ==
    ASSUME MaxBlocks > 1
    PROVE  Spec => []Fits
  <1>1. Init => HasRoom
    <2>1. Init => cached = {}
      BY DEF Init, cached
    <2> QED
      BY <2>1, FS_EmptySet, SizesAssumption DEF HasRoom
  <1>2. IInv /\ HasRoom /\ [Next]_vars => HasRoom'
    BY RoomKept
  <1>3. IInv /\ HasRoom /\ AgesDistinct => Fits
    <2>1. ASSUME IInv, AgesDistinct, Cardinality(cached) = MaxBlocks
          PROVE  Victims # {}
      BY <2>1, VictimExists DEF IInv
    <2> QED
      BY <2>1 DEF HasRoom, Fits
  <1> QED
    BY Inductive, AgesDiffer, <1>1, <1>2, <1>3, PTL DEF Spec

-----------------------------------------------------------------------------
(* A call of the driver runs out of steps                                  *)

LEMMA SmallerMeasure ==
    ASSUME NEW old \in Nat, NEW new \in Nat, NEW size \in Nat, NEW done \in Nat,
           NEW n \in Nat \ {0}, done + n <= size, NEW phase \in 0 .. 2,
           old = 3 * (size - done) + 1, new = 3 * (size - (done + n)) + phase + 1
    PROVE  new < old
  OBVIOUS

\* How far a pass of the loop is from its Put or Get: a block must be made
\* room for, or only brought in, or is there.
Phase == IF ~Moving \/ curId \in cached THEN 0
         ELSE IF Cardinality(cached) < MaxBlocks THEN 1 ELSE 2

\* A bound on the steps the call in progress still takes.
Left == IF req = Idle THEN 0
        ELSE IF Transfer THEN 3 * (req.size - req.done) + Phase + 1
        ELSE IF Closing THEN Cardinality(cached) + 1
        ELSE 1

\* The guards of Put and Get, Load, Evict, Return, Close and Flush, one of
\* which holds whenever a call is in progress.
CanStep ==
    \/ Moving /\ curId \in cached
    \/ Moving /\ curId \notin cached /\ Cardinality(cached) < MaxBlocks
    \/ Moving /\ curId \notin cached /\ Cardinality(cached) = MaxBlocks /\ Victims # {}
    \/ Transfer /\ req.done = req.size
    \/ req # Idle /\ req.kind = "truncate"
    \/ Closing /\ AllFlushed
    \/ Closing /\ mode = "rw" /\ \E i \in cached : \A j \in cached : i <= j

\* The call in progress is a transfer, a truncation or a close.
LEMMA Kinds ==
    ASSUME Base, req # Idle
    PROVE  /\ Transfer => /\ req.size \in Nat /\ req.done \in Nat
                          /\ req.done <= req.size /\ ~Closing
           /\ ~Transfer => req.kind \in {"truncate", "close"}
           /\ mode \in {"ro", "rw"}
  <1>1. req \in Request
    BY DEF Base, TypeOK
  <1>2. ASSUME Transfer
        PROVE  req.size \in Nat /\ req.done \in Nat /\ req.done <= req.size /\ ~Closing
    BY <1>1, <1>2 DEF Base, RequestInFile, Transfer, Request, Closing
  <1>3. ASSUME ~Transfer PROVE req.kind \in {"truncate", "close"}
    BY <1>1, <1>3 DEF Transfer, Request
  <1>4. mode \in {"ro", "rw"}
    BY DEF Base, TypeOK, Modes
  <1> QED
    BY <1>2, <1>3, <1>4

LEMMA PhaseRange == Phase \in 0 .. 2
  BY DEF Phase

LEMMA LeftNat == ASSUME Base PROVE Left \in Nat
  <1>1. CASE req = Idle
    BY <1>1 DEF Left
  <1>2. CASE req # Idle /\ Transfer
    <2>1. Left = 3 * (req.size - req.done) + Phase + 1
      BY <1>2 DEF Left
    <2> QED
      BY <1>2, <2>1, Kinds, PhaseRange
  <1>3. CASE req # Idle /\ ~Transfer
    BY <1>3, CachedFinite DEF Left
  <1> QED
    BY <1>1, <1>2, <1>3

LEMMA AlwaysCanStep ==
    ASSUME Base, Fits, req # Idle
    PROVE  CanStep
  <1>1. Cardinality(cached) \in Nat /\ Cardinality(cached) <= MaxBlocks
        /\ (Cardinality(cached) = MaxBlocks => Victims # {}) /\ cached \subseteq Nat
        /\ MaxBlocks \in Nat
    BY CachedFinite, SizesAssumption DEF Fits
  <1>2. CASE Moving
    <2>1. \/ curId \in cached
          \/ curId \notin cached /\ Cardinality(cached) < MaxBlocks
          \/ curId \notin cached /\ Cardinality(cached) = MaxBlocks
      BY <1>1
    <2> QED
      BY <1>1, <1>2, <2>1 DEF CanStep
  <1>3. CASE Transfer /\ ~Moving
    <2>1. req.done = req.size
      BY <1>3, Kinds DEF Transfer, Moving
    <2> QED
      BY <1>3, <2>1 DEF CanStep
  <1>4. CASE ~Transfer
    <2>1. CASE req.kind = "truncate"
      BY <2>1 DEF CanStep
    <2>2. CASE Closing /\ (mode = "ro" \/ cached = {})
      BY <2>2 DEF CanStep, AllFlushed
    <2>3. CASE Closing /\ mode = "rw" /\ cached # {}
      <3>1. \E i \in cached : \A j \in cached : i <= j
        BY <1>1, <2>3, SmallestOf
      <3> QED
        BY <2>3, <3>1 DEF CanStep
    <2> QED
      BY <1>4, <2>1, <2>2, <2>3, Kinds DEF Closing
  <1> QED
    BY <1>2, <1>3, <1>4

LEMMA EvictShrinks == ASSUME IInv, Evict PROVE Left' < Left
  <1>1. /\ Moving /\ curId \notin cached /\ Cardinality(cached) = MaxBlocks /\ req' = req
        /\ Transfer /\ req.size \in Nat /\ req.done \in Nat /\ req # Idle
        /\ req.done < req.size
    BY Current DEF Evict, IInv, Transfer
  <1>2. Moving' /\ Transfer' /\ curId' = curId
    BY <1>1 DEF Moving, Transfer, curId, curAddr
  <1>3. curId \notin cached' /\ Cardinality(cached') < MaxBlocks
    <2>1. Cardinality(cached') = Cardinality(cached) - 1
      BY SameSize
    <2>2. \E v \in cached : cached' = cached \ {v}
      BY DropCached
    <2> QED
      BY <1>1, <2>1, <2>2, SizesAssumption
  <1>4. Phase = 2 /\ Phase' = 1
    BY <1>1, <1>2, <1>3, SizesAssumption DEF Phase
  <1>5. Left = 3 * (req.size - req.done) + 3 /\ Left' = 3 * (req.size - req.done) + 2
    BY <1>1, <1>2, <1>4 DEF Left
  <1> QED
    BY <1>1, <1>5

LEMMA LoadShrinks == ASSUME IInv, Load PROVE Left' < Left
  <1>1. /\ Moving /\ curId \notin cached /\ Cardinality(cached) < MaxBlocks /\ req' = req
        /\ Transfer /\ req.size \in Nat /\ req.done \in Nat /\ req # Idle
    BY Current DEF Load, IInv, Transfer
  <1>2. Moving' /\ Transfer' /\ curId' = curId /\ curId \in cached'
    BY <1>1, LoadCached DEF Moving, Transfer, curId, curAddr
  <1>3. Phase = 1 /\ Phase' = 0
    BY <1>1, <1>2 DEF Phase
  <1>4. Left = 3 * (req.size - req.done) + 2 /\ Left' = 3 * (req.size - req.done) + 1
    BY <1>1, <1>2, <1>3 DEF Left
  <1> QED
    BY <1>1, <1>4

\* The request after a pass: it has moved on by the bytes of the pass.
LEMMA MovedOn ==
    ASSUME IInv, Put \/ Get
    PROVE  /\ req' \in Request /\ req'.kind = req.kind /\ req'.addr = req.addr
           /\ req'.size = req.size /\ req'.done = req.done + curLen
           /\ req.kind \in {"read", "write"}
  <1>1. CASE Get
    BY <1>1, GetRequest DEF Get, Request
  <1>2. CASE Put
    <2>1. req \in [kind : {"write", "read"}, mem : {"raw", "meta"}, addr : Addr,
                   size : Nat, data : Seq(Cell), done : Nat] /\ req.kind = "write"
      BY <1>2 DEF Put, Moving, IInv, Base, TypeOK, Request
    <2>2. req' = [req EXCEPT !.done = req.done + curLen] /\ req.done + curLen \in Nat
      BY <1>2, Current DEF Put, IInv
    <2> QED
      BY <2>1, <2>2 DEF Request
  <1> QED
    BY <1>1, <1>2

LEMMA PassShrinks == ASSUME IInv, Put \/ Get PROVE Left' < Left
  <1>1. /\ Moving /\ Transfer /\ curId \in cached /\ req # Idle
        /\ req.size \in Nat /\ req.done \in Nat
        /\ curLen \in Nat \ {0} /\ req.done + curLen <= req.size
    BY Current DEF Put, Get, IInv, Transfer
  <1>2. Left = 3 * (req.size - req.done) + 1
    BY <1>1 DEF Left, Phase
  <1>3. CASE req' = Idle
    <2>1. Left' = 0
      BY <1>3 DEF Left
    <2> QED
      BY <1>1, <1>2, <2>1
  <1>4. CASE req' # Idle
    <2>1. PICK phase \in 0 .. 2 : phase = Phase'
      BY DEF Phase
    <2>2. Left' = 3 * (req.size - (req.done + curLen)) + phase + 1
      BY <1>4, <2>1, MovedOn DEF Left, Transfer
    <2>3. /\ 3 * (req.size - req.done) + 1 \in Nat
          /\ 3 * (req.size - (req.done + curLen)) + phase + 1 \in Nat
      BY <1>1
    <2>4. 3 * (req.size - (req.done + curLen)) + phase + 1 < 3 * (req.size - req.done) + 1
      BY <1>1, <2>1, <2>3, SmallerMeasure
    <2> QED
      BY <1>2, <2>2, <2>4, Zenon
  <1> QED
    BY <1>3, <1>4

LEMMA FlushShrinks == ASSUME IInv, Flush PROVE Left' < Left
  <1>1. req' = req /\ req # Idle /\ ~Transfer /\ Closing
    BY DEF Flush, Closing, Transfer
  <1>2. Left = Cardinality(cached) + 1 /\ Left' = Cardinality(cached') + 1
    BY <1>1 DEF Left, Transfer, Closing
  <1>3. Cardinality(cached') = Cardinality(cached) - 1 /\ Cardinality(cached) \in Nat
    BY SameSize, CachedFinite DEF IInv
  <1> QED
    BY <1>2, <1>3

\* Every step that takes a call on, of those Spec is fair to, brings its end
\* nearer, and until the end there is such a step: the loops of
\* H5FD_silo_read, H5FD_silo_write and H5FD_silo_close are finite and never
\* stuck, also when system calls fail.  (CallsReturn follows, given that the
\* step is then taken.)
THEOREM CallsRunOut ==
    Spec => /\ [](Left \in Nat /\ (MaxBlocks > 1 /\ req # Idle => CanStep))
            /\ [][Step => Left' < Left]_vars
  <1>1. IInv /\ (MaxBlocks > 1 => Fits)
          => Left \in Nat /\ (MaxBlocks > 1 /\ req # Idle => CanStep)
    BY LeftNat, AlwaysCanStep DEF IInv
  <1>2. IInv /\ [Next]_vars => [Step => Left' < Left]_vars
    <2>1. ASSUME IInv, Return \/ Close PROVE Left' < Left
      <3>1. Left' = 0 /\ Left \in Nat /\ req # Idle
        BY <2>1, LeftNat DEF Left, Return, Close, Closing, IInv
      <3>2. Left # 0
        <4>1. CASE Transfer
          BY <3>1, <4>1, Kinds, PhaseRange, <2>1 DEF Left, IInv
        <4>2. CASE ~Transfer
          BY <3>1, <4>2, CachedFinite, <2>1 DEF Left, IInv
        <4> QED
          BY <4>1, <4>2
      <3> QED
        BY <3>1, <3>2
    <2> QED
      BY <2>1, EvictShrinks, LoadShrinks, PassShrinks, FlushShrinks DEF Step
  <1>3. CASE MaxBlocks > 1
    <2>1. Spec => []Fits
      BY <1>3, RoomIsFound
    <2>2. Fits => (MaxBlocks > 1 => Fits)
      OBVIOUS
    <2> QED
      BY Inductive, <1>1, <1>2, <2>1, <2>2, PTL DEF Spec
  <1>4. CASE ~(MaxBlocks > 1)
    <2>1. MaxBlocks > 1 => Fits
      BY <1>4
    <2> QED
      BY Inductive, <1>1, <1>2, <2>1, PTL DEF Spec
  <1> QED
    BY <1>3, <1>4

-----------------------------------------------------------------------------
(* The cache of the transfers is the set BlockList implements              *)

\* The block a transfer has come to, and the last one it touches.
Wanted == IF Moving THEN curId ELSE -1
Final  == IF Moving THEN (req.addr + req.size - 1) \div BlockSize ELSE -1

Set == INSTANCE BlockSet WITH ids <- cached, want <- Wanted, last <- Final

LEMMA SameCardinality == ASSUME NEW S PROVE Set!Cardinality(S) = Cardinality(S)
  BY Zenon DEF Set!Cardinality, Cardinality

\* A block comes after another one exactly if it starts past its end.
LEMMA LaterBlock ==
    ASSUME NEW a \in Nat, NEW id \in Nat
    PROVE  id < a \div BlockSize <=> id * BlockSize + BlockSize <= a
  <1> DEFINE d == a \div BlockSize
  <1>1. d \in Nat /\ d * BlockSize \in Nat /\ id * BlockSize \in Nat /\ BlockSize \in Nat
    BY Divides, SizesAssumption
  <1>2. d * BlockSize <= a /\ a < d * BlockSize + BlockSize
    BY <1>1, InBlock
  <1>3. id < d => id * BlockSize + BlockSize <= d * BlockSize
    BY <1>1, Monotone
  <1>4. d < id => d * BlockSize + BlockSize <= id * BlockSize
    BY <1>1, Monotone
  <1> HIDE DEF d
  <1>5. id < d <=> id * BlockSize + BlockSize <= a
    <2>1. CASE id < d
      BY <1>1, <1>2, <1>3, <2>1
    <2>2. CASE id = d
      BY <1>1, <1>2, <2>2
    <2>3. CASE d < id
      BY <1>1, <1>2, <1>4, <2>3
    <2> QED
      BY <1>1, <2>1, <2>2, <2>3
  <1> QED
    BY <1>5 DEF d

LEMMA EvictIsDrop == ASSUME IInv, Evict PROVE Set!Drop
  <1>1. Moving /\ curId \notin cached /\ Cardinality(cached) = MaxBlocks /\ req' = req
        /\ curId \in Nat
    BY Current DEF Evict, IInv, Id
  <1>2. Wanted = curId /\ Wanted' = Wanted /\ Final' = Final /\ Wanted # -1
    BY <1>1 DEF Wanted, Final, Moving, curId, curAddr
  <1>3. Set!Cardinality(cached) = MaxBlocks
    BY <1>1, SameCardinality
  <1> QED
    BY <1>1, <1>2, <1>3, EvictCached DEF Set!Drop, Set!Nobody

LEMMA LoadIsAdd == ASSUME IInv, Load PROVE Set!Add
  <1>1. Moving /\ curId \notin cached /\ Cardinality(cached) < MaxBlocks /\ req' = req
        /\ curId \in Nat
    BY Current DEF Load, IInv, Id
  <1>2. Wanted = curId /\ Wanted' = Wanted /\ Final' = Final /\ Wanted # -1
    BY <1>1 DEF Wanted, Final, Moving, curId, curAddr
  <1>3. Set!Cardinality(cached) < MaxBlocks
    BY <1>1, SameCardinality
  <1> QED
    BY <1>1, <1>2, <1>3, LoadCached DEF Set!Add, Set!Nobody

LEMMA PassIsUse == ASSUME IInv, Put \/ Get PROVE Set!Use
  <1> DEFINE end == req.addr + req.size - 1
             next == req.addr + (req.done + curLen)
  <1>1. /\ Moving /\ curId \in cached /\ cached' = cached
        /\ curId \in Nat /\ curOff \in Nat /\ curLen \in Nat \ {0} /\ BlockSize \in Nat
        /\ curId * BlockSize \in Nat /\ curOff + curLen <= BlockSize
        /\ req.addr \in Nat /\ req.done \in Nat /\ req.size \in Nat
        /\ req.done + curLen <= req.size
        /\ req.addr + req.done = curId * BlockSize + curOff
    <2>1. Base /\ Moving /\ curId \in cached /\ cached' = cached
      BY UseCached DEF Put, Get, IInv
    <2>2. req.addr + req.done = curId * BlockSize + curOff
      BY <2>1, Current DEF curAddr
    <2> QED
      BY <2>1, <2>2, Current, Sizes DEF Id, Off
  <1>2. /\ req' # Idle /\ req'.kind \in {"read", "write"} /\ req'.addr = req.addr
        /\ req'.size = req.size /\ req'.done = req.done + curLen
    BY MovedOn, IdleAssumption
  <1>3. Wanted = curId /\ Final = end \div BlockSize /\ end \in Nat /\ next \in Nat
    BY <1>1 DEF Wanted, Final
  <1>4. CASE req.done + curLen = req.size
    <2>1. ~Moving'
      BY <1>1, <1>2, <1>4 DEF Moving
    <2>2. ~(curId < end \div BlockSize)
      <3>1. end < curId * BlockSize + BlockSize
        BY <1>1, <1>4
      <3>2. ~(curId * BlockSize + BlockSize <= end)
        BY <1>1, <1>3, <3>1
      <3> QED
        BY <1>1, <1>3, <3>2, LaterBlock
    <2>3. Wanted' = -1 /\ Final' = -1
      BY <2>1 DEF Wanted, Final
    <2> QED
      BY <1>1, <1>3, <2>2, <2>3 DEF Set!Use, Set!Nobody
  <1>5. CASE req.done + curLen # req.size
    <2>1. req.done + curLen < req.size
      BY <1>1, <1>5
    <2>2. curLen = BlockSize - curOff
      BY <1>1, <1>5 DEF curLen, Smaller
    <2>3. next = curId * BlockSize + BlockSize /\ next <= end
      BY <1>1, <2>1, <2>2
    <2>4. Moving' /\ curId' = next \div BlockSize /\ Final' = Final
      <3>1. Moving'
        BY <1>2, <2>1 DEF Moving
      <3>2. curAddr' = next
        BY <1>2 DEF curAddr
      <3> QED
        BY <1>1, <1>2, <3>1, <3>2 DEF Final, curId
    <2>5. curId < end \div BlockSize
      BY <1>1, <1>3, <2>3, LaterBlock
    <2>6. next \div BlockSize = curId + 1
      <3>1. (curId + 1) * BlockSize = curId * BlockSize + BlockSize /\ BlockSize > 0
        BY <1>1, SizesAssumption
      <3>2. (curId + 1) * BlockSize <= next /\ next < (curId + 1) * BlockSize + BlockSize
        BY <1>1, <1>3, <2>3, <3>1
      <3> HIDE DEF next
      <3>3. curId + 1 \in Nat
        BY <1>1
      <3> QED
        BY <1>3, <3>2, <3>3, InBlock
    <2>7. Wanted' = Wanted + 1
      BY <1>3, <2>4, <2>6 DEF Wanted
    <2> QED
      BY <1>1, <1>3, <2>4, <2>5, <2>7 DEF Set!Use
  <1> QED
    BY <1>4, <1>5

LEMMA TransferIsBegin ==
    ASSUME Base, NEW a \in Addr, NEW n \in Nat \ {0}, InAllocated(a, n),
           NEW r \in Request, Begin(r), r.kind \in {"read", "write"},
           r.addr = a, r.size = n, r.done = 0
    PROVE  Set!Begin
  <1>1. a \in Nat /\ a \div BlockSize \in Id /\ MaxAddr \in Nat
    BY InFile, Sizes
  <1>2. a + n <= MaxAddr
    <2>1. eoa \in Nat /\ eoa <= MaxAddr
      BY <1>1 DEF Base, TypeOK, MaxAddr
    <2> QED
      BY <1>1, <2>1 DEF InAllocated
  <1>3. a + n - 1 \in Addr /\ a + n - 1 \in Nat
    BY <1>1, <1>2, Sizes
  <1>4. (a + n - 1) \div BlockSize \in Id
    BY <1>3, InFile
  <1>5. a \div BlockSize <= (a + n - 1) \div BlockSize
    <2> DEFINE first == a \div BlockSize
               end == (a + n - 1) \div BlockSize
    <2>1. first \in Nat /\ end \in Nat /\ end * BlockSize \in Nat
      BY <1>1, <1>4, SizesAssumption DEF Id
    <2>2. end < first => end * BlockSize + BlockSize <= a
      BY <1>1, <2>1, LaterBlock
    <2>3. a + n - 1 < end * BlockSize + BlockSize
      BY <1>3, <2>1, InBlock
    <2> HIDE DEF first, end
    <2>4. first <= end
      BY <1>1, <2>1, <2>2, <2>3, SizesAssumption
    <2> QED
      BY <2>4 DEF first, end
  <1>6. r # Idle /\ req' = r /\ req = Idle /\ cached' = cached
    BY IdleAssumption DEF Begin, cached
  <1>7. Moving' /\ ~Moving
    BY <1>6 DEF Moving
  <1>8. Wanted' = a \div BlockSize
    <2>1. curAddr' = a
      BY <1>1, <1>6 DEF curAddr
    <2> QED
      BY <1>7, <2>1 DEF Wanted, curId
  <1>9. Final' = (a + n - 1) \div BlockSize
    BY <1>6, <1>7 DEF Final
  <1>10. Wanted = -1
    BY <1>7 DEF Wanted
  <1>11. Wanted' \in 0 .. MaxId /\ Final' \in Wanted' .. MaxId
    <2> DEFINE first == a \div BlockSize
               end == (a + n - 1) \div BlockSize
    <2>1. first \in 0 .. MaxId /\ end \in first .. MaxId
      BY <1>1, <1>4, <1>5, SizesAssumption DEF Id
    <2> HIDE DEF first, end
    <2>2. Wanted' = first /\ Final' = end
      BY <1>8, <1>9 DEF first, end
    <2> QED
      BY <2>1, <2>2, Zenon
  <1> QED
    BY <1>6, <1>10, <1>11 DEF Set!Begin, Set!Nobody

LEMMA StepUsesASet ==
    ASSUME IInv, [Next]_vars, ~Closing
    PROVE  [Set!Next]_(Set!vars)
  <1>1. CASE Evict \/ Load \/ Put \/ Get
    BY <1>1, EvictIsDrop, LoadIsAdd, PassIsUse DEF Set!Next
  <1>2. ASSUME ~Moving, ~Moving', cached' = cached PROVE UNCHANGED Set!vars
    BY <1>2 DEF Set!vars, Wanted, Final
  <1>3. CASE Return
    <2>1. ~Moving
      BY <1>3, Kinds DEF Return, Moving, Transfer, IInv
    <2> QED
      BY <1>2, <1>3, <2>1 DEF Return, Moving, cached
  <1>4. CASE Flush \/ Close
    BY <1>4 DEF Flush, Close
  <1>5. ASSUME NEW mem \in Mems, NEW a \in Addr, NEW data \in Payloads,
               BeginWrite(mem, a, data)
        PROVE  Set!Begin
    <2> DEFINE r == [kind |-> "write", mem |-> mem, addr |-> a,
                     size |-> Len(data), data |-> data, done |-> 0]
    <2>1. Len(data) \in Nat \ {0} /\ data \in Seq(Cell) /\ mem \in {"raw", "meta"}
      BY CellsAssumption DEF Cell
    <2>2. r \in Request
      BY <2>1 DEF Request
    <2>3. Begin(r) /\ InAllocated(a, Len(data))
      BY <1>5 DEF BeginWrite
    <2>4. r.kind = "write" /\ r.addr = a /\ r.size = Len(data) /\ r.done = 0
      OBVIOUS
    <2> HIDE DEF r
    <2> QED
      BY <2>1, <2>2, <2>3, <2>4, TransferIsBegin DEF IInv
  <1>6. ASSUME NEW mem \in Mems, NEW a \in Addr, NEW size \in ReadSizes,
               BeginRead(mem, a, size)
        PROVE  Set!Begin
    <2> DEFINE r == [kind |-> "read", mem |-> mem, addr |-> a,
                     size |-> size, data |-> <<>>, done |-> 0]
    <2>1. size \in Nat \ {0} /\ <<>> \in Seq(Cell) /\ mem \in {"raw", "meta"}
      BY CellsAssumption
    <2>2. r \in Request
      BY <2>1 DEF Request
    <2>3. Begin(r) /\ InAllocated(a, size)
      BY <1>6 DEF BeginRead
    <2>4. r.kind = "read" /\ r.addr = a /\ r.size = size /\ r.done = 0
      OBVIOUS
    <2> HIDE DEF r
    <2> QED
      BY <2>1, <2>2, <2>3, <2>4, TransferIsBegin DEF IInv
  <1>7. ASSUME NEW m, NEW trunc, Open(m, trunc) PROVE UNCHANGED Set!vars
    BY <1>2, <1>7 DEF Open, IInv, Base, Modes, Moving, cached
  <1>8. ASSUME NEW a, SetEoa(a) PROVE UNCHANGED Set!vars
    BY <1>2, <1>8 DEF SetEoa, Moving, cached
  <1>9. CASE Truncate \/ BeginClose
    <2>1. PICK k \in {"truncate", "close"} : Begin([kind |-> k])
      BY <1>9 DEF Truncate, BeginClose
    <2>2. ~Moving /\ ~Moving' /\ cached' = cached
      BY <2>1 DEF Begin, Moving, cached
    <2> QED
      BY <1>2, <2>2
  <1>10. CASE UNCHANGED vars
    BY <1>10 DEF vars, Set!vars, Wanted, Final, Moving, curId, curAddr, cached
  <1>11. CASE Call
    BY <1>5, <1>6, <1>7, <1>8, <1>9, <1>11 DEF Call, Set!Next
  <1> QED
    BY <1>1, <1>3, <1>4, <1>10, <1>11 DEF Next, Step

\* From open to close the driver uses its cache as the set of ids of
\* BlockSet, whose promises the sorted array of BlockList keeps: a transfer
\* asks for the blocks from its first to its last one by one, drops a block
\* other than the least only when the set is full, adds the block it asked
\* for before it uses it, and the calls that move no data leave the set
\* alone.  H5FD_silo_close alone removes blocks in another order, and leaves
\* the set as a new one.
THEOREM CallsUseASet ==
    Spec => /\ [](mode = "closed" => Set!Init)
            /\ [][~Closing => [Set!Next]_(Set!vars)]_vars
  <1>1. IInv => (mode = "closed" => Set!Init)
    BY DEF IInv, Base, Modes, Set!Init, Set!Nobody, Wanted, Final, Moving
  <1>2. IInv /\ [Next]_vars => [~Closing => [Set!Next]_(Set!vars)]_vars
    BY StepUsesASet
  <1> QED
    BY Inductive, <1>1, <1>2, PTL DEF Spec

=============================================================================
