------------------------------- MODULE EasyFs -------------------------------
(***************************************************************************)
(* The file system of labs/phase_5_fs/easy-fs: bitmaps, disk inodes with   *)
(* direct and indirect blocks, one directory, and the block cache between  *)
(* them and the disk.                                                      *)
(*                                                                         *)
(*   disk     disk[d][b]: block b of device d.  Every block is a function: *)
(*            of bits (bitmaps), of slots (inodes) or of cells (data)      *)
(*   queue    the queue of the BlockCacheManager, one for all devices      *)
(*   op       the operation that holds the lock of the file system, or Idle*)
(*   prog     the block accesses it still has to make                      *)
(*   flushed  how much of the queue its block_cache_sync_all has written   *)
(*   halted   the kernel has panicked                                      *)
(*   ops      the number of operations, up to MAX_OPS                      *)
(*   was      history: the files before the operation                      *)
(*   safe     history: the files after the last sync                       *)
(*                                                                         *)
(* The lock admits one operation at a time, so what an operation will do   *)
(* is known when it starts; when its blocks reach the disk is not.  One    *)
(* access is one step.  A cell is a byte of a file, a directory entry or   *)
(* the number of a block in an indirect block.                             *)
(***************************************************************************)
EXTENDS Integers, Sequences, FiniteSets, SequencesExt

CONSTANTS
  Devices, Names,
  Requests,              \* the writes: [off, data]
  total_blocks,          \* of a device
  BLOCK_SZ,              \* cells of a block
  BLOCK_BITS,            \* bits of a bitmap block
  INODE_BLOCK_CAPACITY,  \* inodes of a block
  INODE_DIRECT_COUNT,
  BLOCK_CACHE_SIZE,
  MAX_OPS

ASSUME SizesAssumption ==
  /\ {total_blocks, BLOCK_SZ, BLOCK_BITS, INODE_BLOCK_CAPACITY, INODE_DIRECT_COUNT,
      BLOCK_CACHE_SIZE, MAX_OPS} \subseteq Nat \ {0}
  /\ BLOCK_CACHE_SIZE > 1
  /\ Devices # {}

VARIABLES disk, queue, op, prog, flushed, halted, ops, was, safe

vars == <<disk, queue, op, prog, flushed, halted, ops, was, safe>>

Cell(kind, name, number) == <<kind, name, number>>
Zero == Cell("zero", "", 0)
Pointer(b) == Cell("block", "", b)
DirEntry(n, i) == Cell("entry", n, i)

CeilDiv(a, b) == (a + b - 1) \div b
Upto(a, b) == [i \in 1 .. (IF b > a THEN b - a ELSE 0) |-> a + i - 1]     \* a, ..., b - 1

-----------------------------------------------------------------------------
(* efs.rs: the regions of the device.                                      *)

inode_bitmap_blocks == 1
inode_num == inode_bitmap_blocks * BLOCK_BITS
inode_area_blocks == CeilDiv(inode_num, INODE_BLOCK_CAPACITY)
inode_total_blocks == inode_bitmap_blocks + inode_area_blocks
data_total_blocks == total_blocks - 1 - inode_total_blocks
data_bitmap_blocks == (data_total_blocks + BLOCK_BITS) \div (BLOCK_BITS + 1)
data_area_blocks == data_total_blocks - data_bitmap_blocks

inode_area_start_block == 1 + inode_bitmap_blocks
data_bitmap_start_block == 1 + inode_total_blocks
data_area_start_block == 1 + inode_total_blocks + data_bitmap_blocks

ROOT == 0
InodeBlock(i) == inode_area_start_block + i \div INODE_BLOCK_CAPACITY
InodeSlot(i) == i % INODE_BLOCK_CAPACITY

\* A freshly initialized inode.
Fresh == [size |-> 0, direct |-> [k \in 0 .. INODE_DIRECT_COUNT - 1 |-> 0],
          indirect1 |-> 0, indirect2 |-> 0]

ZeroBlock == [i \in 0 .. BLOCK_SZ - 1 |-> Zero]

\* What create leaves on the device: zeros, and the root directory.
Formatted ==
  [b \in 0 .. total_blocks - 1 |->
     IF b \in 1 .. inode_bitmap_blocks
       THEN [i \in 0 .. BLOCK_BITS - 1 |-> b = 1 /\ i = ROOT]
     ELSE IF b \in inode_area_start_block .. data_bitmap_start_block - 1
       THEN [i \in 0 .. INODE_BLOCK_CAPACITY - 1 |-> Fresh]
     ELSE IF b \in data_bitmap_start_block .. data_area_start_block - 1
       THEN [i \in 0 .. BLOCK_BITS - 1 |-> FALSE]
     ELSE ZeroBlock]

-----------------------------------------------------------------------------
(* layout.rs: the blocks of an inode.                                      *)

INODE_INDIRECT1_COUNT == BLOCK_SZ
INDIRECT1_BOUND == INODE_DIRECT_COUNT + INODE_INDIRECT1_COUNT

data_blocks(size) == CeilDiv(size, BLOCK_SZ)

\* A plausible bug: the first indirect block is taken one block too early.
EagerTotalBlocks(size) ==
  LET n == data_blocks(size)
  IN  n + (IF n >= INODE_DIRECT_COUNT THEN 1 ELSE 0)
        + (IF n > INDIRECT1_BOUND
             THEN 1 + CeilDiv(n - INDIRECT1_BOUND, INODE_INDIRECT1_COUNT) ELSE 0)

\* DiskInode::total_blocks: the data blocks and their indirect blocks.
TotalBlocks(size) ==
  LET n == data_blocks(size)
  IN  n + (IF n > INODE_DIRECT_COUNT THEN 1 ELSE 0)
        + (IF n > INDIRECT1_BOUND
             THEN 1 + CeilDiv(n - INDIRECT1_BOUND, INODE_INDIRECT1_COUNT) ELSE 0)

\* Data block k sits behind the indirect blocks that begin with it.
LeafOf(k) == (k - INDIRECT1_BOUND) \div INODE_INDIRECT1_COUNT
SlotsOf(k) ==
  (IF k = INODE_DIRECT_COUNT THEN <<<<"indirect1", 0>>>> ELSE << >>)
  \o (IF k = INDIRECT1_BOUND THEN <<<<"indirect2", 0>>>> ELSE << >>)
  \o (IF k >= INDIRECT1_BOUND /\ (k - INDIRECT1_BOUND) % INODE_INDIRECT1_COUNT = 0
        THEN <<<<"leaf", LeafOf(k)>>>> ELSE << >>)
  \o <<<<"data", k>>>>

Slots(from, to) == FlattenSeq([i \in DOMAIN Upto(from, to) |-> SlotsOf(from + i - 1)])

\* A block number read from an indirect block of the device B.
Follow(B, b, i) == IF b \in DOMAIN B THEN B[b][i][3] ELSE 0

\* The block in a slot of the inode di.
BlockIn(B, di, slot) ==
  LET k == slot[2]
      j == k - INDIRECT1_BOUND
  IN  CASE slot[1] = "indirect1" -> di.indirect1
        [] slot[1] = "indirect2" -> di.indirect2
        [] slot[1] = "leaf"      -> Follow(B, di.indirect2, k)
        [] slot[1] = "data" /\ k < INODE_DIRECT_COUNT -> di.direct[k]
        [] slot[1] = "data" /\ k \in INODE_DIRECT_COUNT .. INDIRECT1_BOUND - 1 ->
             Follow(B, di.indirect1, k - INODE_DIRECT_COUNT)
        [] OTHER -> Follow(B, Follow(B, di.indirect2, LeafOf(k)), j % INODE_INDIRECT1_COUNT)

get_block_id(B, di, k) == BlockIn(B, di, <<"data", k>>)

\* The indirect blocks that get_block_id reads.
IndirectOf(B, di, k) ==
  IF k < INODE_DIRECT_COUNT THEN << >>
  ELSE IF k < INDIRECT1_BOUND THEN <<di.indirect1>>
  ELSE <<di.indirect2, BlockIn(B, di, <<"leaf", LeafOf(k)>>)>>

\* All blocks of an inode, in the order clear_size returns them.
BlocksOf(B, di) ==
  LET s == Slots(0, data_blocks(di.size)) IN [i \in DOMAIN s |-> BlockIn(B, di, s[i])]

\* read_at of the whole file.
BytesOf(B, di) ==
  [i \in 1 .. di.size |->
     LET b == get_block_id(B, di, (i - 1) \div BLOCK_SZ)
     IN  IF b \in DOMAIN B THEN B[b][(i - 1) % BLOCK_SZ] ELSE Zero]

-----------------------------------------------------------------------------
(* What is on a device B: the disk, or the disk behind the cache.          *)

DiskInode(B, i) == B[InodeBlock(i)][InodeSlot(i)]

Entries(B) == BytesOf(B, DiskInode(B, ROOT))
Position(B, n) == {k \in DOMAIN Entries(B) : Entries(B)[k][1] = "entry" /\ Entries(B)[k][2] = n}
Exists(B, n) == Position(B, n) # {}
Number(B, n) == Entries(B)[CHOOSE k \in Position(B, n) : TRUE][3]

FilesOn(B) ==
  [n \in {m \in Names : Exists(B, m)} |-> BytesOf(B, DiskInode(B, Number(B, n)))]

\* The entry of the queue for a block: the manager looks at the number alone.
Cached(b) == {i \in DOMAIN queue : queue[i].blk = b}
EntryOf(b) == CHOOSE i \in Cached(b) : TRUE

\* The device as an operation sees it.
View(d) ==
  [b \in DOMAIN disk[d] |-> IF Cached(b) = {} THEN disk[d][b] ELSE queue[EntryOf(b)].data]

Files == [d \in Devices |-> FilesOn(View(d))]

-----------------------------------------------------------------------------
(* Accesses: a block, the blocks held meanwhile, whether it is modified,   *)
(* the part that is overwritten, and whether an assertion fails instead.   *)

Access(b, held, dirty, put) ==
  [blk |-> b, held |-> held, dirty |-> dirty, put |-> put, fails |-> FALSE]
Read(b, held) == Access(b, held, FALSE, << >>)
Modify(b, held, put) == Access(b, held, TRUE, put)
Panic == [blk |-> 0, held |-> {}, dirty |-> FALSE, put |-> << >>, fails |-> TRUE]

Reads(bs, held) == [i \in DOMAIN bs |-> Read(bs[i], held)]

\* The device after some accesses.
After(B, accesses) ==
  FoldLeft(LAMBDA C, a : IF a.blk \in DOMAIN C THEN [C EXCEPT ![a.blk] = a.put @@ @] ELSE C,
           B, accesses)

\* Bitmap::alloc, n times: the first free bits, in order.  The blocks in
\* front of the one that has the bit are opened for writing as well.
FreeBits(B, start, blocks) ==
  SelectSeq(Upto(0, blocks * BLOCK_BITS),
            LAMBDA i : ~B[start + i \div BLOCK_BITS][i % BLOCK_BITS])

Alloc(start, bit, held) ==
  LET at == bit \div BLOCK_BITS
  IN  [j \in 1 .. at |-> Modify(start + j - 1, held, << >>)]
        \o <<Modify(start + at, held, bit % BLOCK_BITS :> TRUE)>>

\* Bitmap::dealloc asserts that the bit is set.
Dealloc(B, start, bit, held) ==
  LET b == start + bit \div BLOCK_BITS
  IN  IF B[b][bit % BLOCK_BITS] THEN <<Modify(b, held, bit % BLOCK_BITS :> FALSE)>>
      ELSE <<Panic>>

\* A plausible bug: a freed block keeps its old bytes.
DeallocUnzeroed(B, b, held) ==
  <<Modify(b, held, << >>)>>
    \o Dealloc(B, data_bitmap_start_block, b - data_area_start_block, held)

dealloc_data(B, b, held) ==
  <<Modify(b, held, ZeroBlock)>>
    \o Dealloc(B, data_bitmap_start_block, b - data_area_start_block, held)

-----------------------------------------------------------------------------
(* vfs.rs and layout.rs: growing, writing and clearing inode i.            *)

\* DiskInode::increase_size: the inode with its new blocks, given as ids.
Grown(B, di, new_size, ids) ==
  LET slots == Slots(data_blocks(di.size), data_blocks(new_size))
      new(s, old) == IF s \in Range(slots) THEN ids[CHOOSE j \in DOMAIN slots : slots[j] = s] ELSE old
  IN  [size |-> new_size,
       direct |-> [k \in DOMAIN di.direct |-> new(<<"data", k>>, di.direct[k])],
       indirect1 |-> new(<<"indirect1", 0>>, di.indirect1),
       indirect2 |-> new(<<"indirect2", 0>>, di.indirect2)]

\* The entries it writes into indirect blocks.
Linked(B, di, new_size, ids, held) ==
  LET slots == Slots(data_blocks(di.size), data_blocks(new_size))
      grown == Grown(B, di, new_size, ids)
      leaf(m) == IF <<"leaf", m>> \in Range(slots)
                   THEN ids[CHOOSE j \in DOMAIN slots : slots[j] = <<"leaf", m>>]
                   ELSE BlockIn(B, di, <<"leaf", m>>)
      link(s, id) ==
        CASE s[1] = "leaf" -> <<Modify(grown.indirect2, held, s[2] :> Pointer(id))>>
          [] s[1] = "data" /\ s[2] \in INODE_DIRECT_COUNT .. INDIRECT1_BOUND - 1 ->
               <<Modify(grown.indirect1, held, s[2] - INODE_DIRECT_COUNT :> Pointer(id))>>
          [] s[1] = "data" /\ s[2] >= INDIRECT1_BOUND ->
               <<Modify(leaf(LeafOf(s[2])), held,
                        (s[2] - INDIRECT1_BOUND) % INODE_INDIRECT1_COUNT :> Pointer(id))>>
          [] OTHER -> << >>
  IN  FlattenSeq([j \in DOMAIN slots |-> link(slots[j], ids[j])])

\* Inode::increase_size: allocate first, then hand the blocks to the inode.
\* alloc_data panics when there is no free bit.
increase_size(B, i, new_size) ==
  LET di     == DiskInode(B, i)
      held   == {InodeBlock(i)}
      free   == FreeBits(B, data_bitmap_start_block, data_bitmap_blocks)
      needed == TotalBlocks(new_size) - TotalBlocks(di.size)
      bits   == SubSeq(free, 1, Min({needed, Len(free)}))
      ids    == [j \in DOMAIN bits |-> bits[j] + data_area_start_block]
      allocs == FlattenSeq([j \in DOMAIN bits |-> Alloc(data_bitmap_start_block, bits[j], held)])
  IN  IF new_size <= di.size THEN << >>
      ELSE IF needed > Len(free) THEN allocs \o <<Panic>>
      ELSE allocs \o Linked(B, di, new_size, ids, held)
             \o <<Modify(InodeBlock(i), held, InodeSlot(i) :> Grown(B, di, new_size, ids))>>

\* DiskInode::write_at: block by block, each found with get_block_id.
WriteBytes(B, i, off, data) ==
  LET di   == DiskInode(B, i)
      held == {InodeBlock(i)}
      last == off + Len(data) - 1
      cells(k) == [c \in {c \in 0 .. BLOCK_SZ - 1 : k * BLOCK_SZ + c \in off .. last} |->
                     data[k * BLOCK_SZ + c - off + 1]]
      ks   == Upto(off \div BLOCK_SZ, last \div BLOCK_SZ + 1)
  IN  FlattenSeq([j \in DOMAIN ks |->
        Reads(IndirectOf(B, di, ks[j]), held)
          \o <<Modify(get_block_id(B, di, ks[j]), held, cells(ks[j]))>>])

\* The closure that Inode::write_at and Inode::create pass to
\* modify_disk_inode, which holds the block of the inode.
Written(B, i, off, data) ==
  LET grow == increase_size(B, i, off + Len(data))
  IN  <<Modify(InodeBlock(i), {}, << >>)>> \o grow
        \o (IF grow # << >> /\ Last(grow).fails THEN << >>
            ELSE WriteBytes(After(B, grow), i, off, data))

\* A read of the first cells of inode i, through read_disk_inode.
ReadBytes(B, i, cells) ==
  LET di == DiskInode(B, i)
      ks == Upto(0, data_blocks(cells))
  IN  <<Read(InodeBlock(i), {})>>
        \o FlattenSeq([j \in DOMAIN ks |->
             Reads(Append(IndirectOf(B, di, ks[j]), get_block_id(B, di, ks[j])), {InodeBlock(i)})])

\* find and create read the directory up to the entry.
Lookup(B, n) ==
  ReadBytes(B, ROOT, IF Exists(B, n) THEN CHOOSE k \in Position(B, n) : TRUE
                     ELSE DiskInode(B, ROOT).size)

Created(B, n) ==
  LET free == FreeBits(B, 1, inode_bitmap_blocks)
      i    == Head(free)
      init == Alloc(1, i, {}) \o <<Modify(InodeBlock(i), {}, InodeSlot(i) :> Fresh)>>
      C    == After(B, init)
  IN  IF Exists(B, n) THEN << >>
      ELSE IF free = << >> THEN <<Panic>>
      ELSE init \o Written(C, ROOT, DiskInode(C, ROOT).size, <<DirEntry(n, i)>>)

\* A plausible bug: clear_size returns the blocks and leaves the inode as it is.
ClearedUnreset(B, i) ==
  LET di   == DiskInode(B, i)
      held == {InodeBlock(i)}
      bs   == BlocksOf(B, di)
  IN  <<Modify(InodeBlock(i), {}, << >>)>>
        \o FlattenSeq([j \in DOMAIN bs |-> dealloc_data(B, bs[j], held)])

\* clear_size reads the indirect blocks and resets the inode; then the blocks
\* are freed one by one.
Cleared(B, i) ==
  LET di   == DiskInode(B, i)
      held == {InodeBlock(i)}
      s    == Slots(0, data_blocks(di.size))
      meta == SelectSeq(s, LAMBDA x : x[1] # "data")
      bs   == BlocksOf(B, di)
  IN  <<Modify(InodeBlock(i), {}, << >>)>>
        \o Reads([j \in DOMAIN meta |-> BlockIn(B, di, meta[j])], held)
        \o <<Modify(InodeBlock(i), held, InodeSlot(i) :> Fresh)>>
        \o FlattenSeq([j \in DOMAIN bs |-> dealloc_data(B, bs[j], held)])

-----------------------------------------------------------------------------
(* Operations.                                                             *)

Idle == [kind |-> "idle", dev |-> CHOOSE d \in Devices : TRUE, name |-> ""]

Begin(kind, d, n, accesses) ==
  /\ op = Idle /\ ~halted /\ ops < MAX_OPS
  /\ op' = [kind |-> kind, dev |-> d, name |-> n]
  /\ prog' = accesses
  /\ ops' = ops + 1
  /\ was' = Files
  /\ UNCHANGED <<disk, queue, flushed, halted, safe>>

find(d, n) == Begin("find", d, n, Lookup(View(d), n))

ls(d) == Begin("ls", d, "", ReadBytes(View(d), ROOT, DiskInode(View(d), ROOT).size))

create(d, n) == Begin("create", d, n, Lookup(View(d), n) \o Created(View(d), n))

read_at(d, n) ==
  /\ Exists(View(d), n)
  /\ LET i == Number(View(d), n)
     IN  Begin("read", d, n, ReadBytes(View(d), i, DiskInode(View(d), i).size))

write_at(d, n, r) ==
  /\ Exists(View(d), n)
  /\ Begin("write", d, n, Written(View(d), Number(View(d), n), r.off, r.data))

clear(d, n) ==
  /\ Exists(View(d), n)
  /\ Begin("clear", d, n, Cleared(View(d), Number(View(d), n)))

-----------------------------------------------------------------------------
(* block_cache.rs.                                                         *)

\* BlockCache::sync, also when an entry is dropped.
Synced(e) == IF e.dirty THEN [disk EXCEPT ![e.dev][e.blk] = e.data] ELSE disk

\* The first entry nobody holds.
Victim(held) ==
  LET free == {i \in DOMAIN queue : queue[i].blk \notin held}
  IN  CHOOSE i \in free : \A j \in free : i <= j

\* A plausible bug: get_mut does not mark the block.
PutUnmarked(e, a) == IF a.dirty THEN [e EXCEPT !.data = a.put @@ @] ELSE e

\* read or modify on a cached block.
Put(e, a) == IF a.dirty THEN [e EXCEPT !.dirty = TRUE, !.data = a.put @@ @] ELSE e
Load(a) == [blk |-> a.blk, dev |-> op.dev, dirty |-> FALSE, data |-> disk[op.dev][a.blk]]

NextAccess == prog' = Tail(prog) /\ UNCHANGED <<op, flushed, halted, ops, was, safe>>

\* get_block_cache of a block in the queue.
Hit ==
  /\ prog # << >> /\ ~halted
  /\ ~Head(prog).fails /\ Cached(Head(prog).blk) # {}
  /\ queue' = [queue EXCEPT ![EntryOf(Head(prog).blk)] = Put(@, Head(prog))]
  /\ UNCHANGED disk
  /\ NextAccess

Misses ==
  prog # << >> /\ ~halted /\ ~Head(prog).fails /\ Cached(Head(prog).blk) = {}
OnDevice == Head(prog).blk \in 0 .. total_blocks - 1
Full == Len(queue) = BLOCK_CACHE_SIZE

Miss ==
  /\ Misses /\ OnDevice /\ ~Full
  /\ queue' = Append(queue, Put(Load(Head(prog)), Head(prog)))
  /\ UNCHANGED disk
  /\ NextAccess

Evict ==
  /\ Misses /\ OnDevice /\ Full
  /\ \E i \in DOMAIN queue : queue[i].blk \notin Head(prog).held
  /\ LET v == Victim(Head(prog).held)
     IN  /\ queue' = Append(RemoveAt(queue, v), Put(Load(Head(prog)), Head(prog)))
         /\ disk' = Synced(queue[v])
  /\ NextAccess

\* A failed assertion or unwrap, no entry to evict, or a block that is not on
\* the device.
Halt ==
  /\ prog # << >> /\ ~halted
  /\ \/ Head(prog).fails
     \/ Misses /\ ~OnDevice
     \/ Misses /\ Full /\ \A i \in DOMAIN queue : queue[i].blk \in Head(prog).held
  /\ halted' = TRUE
  /\ UNCHANGED <<disk, queue, op, prog, flushed, ops, was, safe>>

Syncs == op.kind \in {"write", "clear"}

\* block_cache_sync_all, one entry.
SyncOne ==
  /\ op # Idle /\ prog = << >> /\ Syncs /\ flushed < Len(queue)
  /\ disk' = Synced(queue[flushed + 1])
  /\ queue' = [queue EXCEPT ![flushed + 1].dirty = FALSE]
  /\ flushed' = flushed + 1
  /\ UNCHANGED <<op, prog, halted, ops, was, safe>>

\* The operation returns.
Return ==
  /\ op # Idle /\ prog = << >>
  /\ Syncs => flushed = Len(queue)
  /\ op' = Idle
  /\ flushed' = 0
  /\ safe' = IF Syncs THEN Files ELSE safe
  /\ was' = Files
  /\ UNCHANGED <<disk, queue, prog, halted, ops>>

\* The power fails and the kernel boots again while nothing is unwritten;
\* open reads the super block.  What a failure at any other moment leaves is
\* the disk of that moment.
Restart ==
  /\ op = Idle /\ ~halted
  /\ \A i \in DOMAIN queue : ~queue[i].dirty
  /\ queue' = << >>
  /\ op' = [Idle EXCEPT !.kind = "open"]
  /\ prog' = <<Read(0, {})>>
  /\ UNCHANGED <<disk, flushed, halted, ops, was, safe>>

-----------------------------------------------------------------------------
\* Every device was formatted earlier and has been opened, which leaves a super
\* block in the cache.
SuperBlock == [blk |-> 0, dev |-> Idle.dev, dirty |-> FALSE, data |-> Formatted[0]]

Init ==
  /\ disk = [d \in Devices |-> Formatted]
  /\ queue = <<SuperBlock>> /\ op = Idle /\ prog = << >> /\ flushed = 0 /\ halted = FALSE /\ ops = 0
  /\ was = [d \in Devices |-> << >>]
  /\ safe = [d \in Devices |-> << >>]

Next ==
  \/ \E d \in Devices : ls(d)
  \/ \E d \in Devices, n \in Names : find(d, n) \/ create(d, n) \/ read_at(d, n) \/ clear(d, n)
  \/ \E d \in Devices, n \in Names, r \in Requests : write_at(d, n, r)
  \/ Hit \/ Miss \/ Evict \/ Halt \/ SyncOne \/ Return \/ Restart

Spec == Init /\ [][Next]_vars

-----------------------------------------------------------------------------
(* Properties.                                                             *)

\* easy-fs is a store of files: create, write_at and clear, each of which
\* goes through many cached blocks, evictions and indirect blocks, change the
\* named file in one go and no other file; find, ls, read_at, an eviction and
\* a restart change nothing; a gap in a file reads as zeros although its
\* blocks belonged to other files before.
Store == INSTANCE FileStore WITH files <- IF op = Idle THEN Files ELSE was
ImplementsFileStore == Store!Spec

\* The power may fail at any moment, also between two writes of
\* block_cache_sync_all: what is on the disk then has every file as it was
\* at the last sync, except the file that write_at or clear is working on.
PowerLossSparesOtherFiles ==
  \A d \in Devices : \A n \in DOMAIN safe[d] :
    ~(Syncs /\ op.dev = d /\ op.name = n)
      => Exists(disk[d], n) /\ FilesOn(disk[d])[n] = safe[d][n]

\* There is one copy of a block in the cache at most, the cache keeps its size,
\* and an entry that is not marked modified is what the disk has: whatever
\* get_block_cache evicts and block_cache_sync_all skips, nothing is lost.
CacheIsCoherent ==
  /\ Len(queue) <= BLOCK_CACHE_SIZE
  /\ \A i, j \in DOMAIN queue : queue[i].blk = queue[j].blk => i = j
  /\ \A i \in DOMAIN queue :
       ~queue[i].dirty => queue[i].data = disk[queue[i].dev][queue[i].blk]

\* The inodes in use, and all their blocks one after the other.
InodesOf(B) == <<ROOT>> \o [k \in DOMAIN Entries(B) |-> Entries(B)[k][3]]
AllBlocks(B) ==
  LET is == InodesOf(B) IN FlattenSeq([k \in DOMAIN is |-> BlocksOf(B, DiskInode(B, is[k]))])
SetBits(B, start, blocks) ==
  {i \in 0 .. blocks * BLOCK_BITS - 1 : B[start + i \div BLOCK_BITS][i % BLOCK_BITS]}

\* Between two operations every allocated block belongs to exactly one file,
\* as data or as an indirect block, and every block of a file is allocated:
\* blocks_num_needed counts exactly the blocks increase_size takes, and clear
\* gives all of them back.  The same holds for inodes and directory entries.
BlocksOwnedOnce ==
  op = Idle => \A d \in Devices :
    LET B == View(d) IN
    /\ IsInjective(AllBlocks(B)) /\ IsInjective(InodesOf(B))
    /\ Range(InodesOf(B)) = SetBits(B, 1, inode_bitmap_blocks)
    /\ {b - data_area_start_block : b \in Range(AllBlocks(B))}
         = SetBits(B, data_bitmap_start_block, data_bitmap_blocks)

\* The only panic is that of unwrap() in alloc_inode or alloc_data when no
\* bit is free: no bit is freed twice, there is always an entry to evict, and
\* no operation asks the device for a block it does not have.
PanicsOnlyWhenFull ==
  halted => /\ Head(prog).fails
            /\ \/ FreeBits(View(op.dev), data_bitmap_start_block, data_bitmap_blocks) = << >>
               \/ FreeBits(View(op.dev), 1, inode_bitmap_blocks) = << >>

\* Every bit that Bitmap::alloc hands out for data is, as its comment says,
\* an index into the data area.
BitsAreInTheRegion ==
  \A d \in Devices :
    SetBits(View(d), data_bitmap_start_block, data_bitmap_blocks) \subseteq 0 .. data_area_blocks - 1
=============================================================================
