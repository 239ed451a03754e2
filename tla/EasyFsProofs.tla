---------------------------- MODULE EasyFsProofs ----------------------------
(***************************************************************************)
(* Proofs about EasyFs for every number of devices, every size of a device *)
(* and of the cache, and every set of requests: the cache is coherent, the *)
(* regions that create lays out fit the device, and with one device the    *)
(* cache cannot be told from it and is written when an operation returns.  *)
(***************************************************************************)
EXTENDS EasyFs, SequenceTheorems, WellFoundedInduction, TLAPS

Blocks == 0 .. total_blocks - 1

IsEntry(e) ==
  /\ e = [blk |-> e.blk, dev |-> e.dev, dirty |-> e.dirty, data |-> e.data]
  /\ e.blk \in Blocks /\ e.dev \in Devices /\ e.dirty \in BOOLEAN

\* The shape of the state as far as the cache depends on it.  The contents of
\* blocks have no type here.
Shape ==
  /\ queue \in Seq(Range(queue))
  /\ \A i \in 1 .. Len(queue) : IsEntry(queue[i])
  /\ DOMAIN disk = Devices
  /\ \A d \in Devices : DOMAIN disk[d] = Blocks
  /\ op.dev \in Devices
  /\ flushed \in Nat

IndInv == Shape /\ CacheIsCoherent

-----------------------------------------------------------------------------
(* Sequences and entries.                                                  *)

\* A sequence is a sequence over its own elements.
LEMMA OwnRange ==
  ASSUME NEW S, NEW s \in Seq(S)
  PROVE  s \in Seq(Range(s))
  BY DEF Range

\* A set of numbers has a least element: the first entry that can be evicted.
LEMMA LeastNumber ==
  ASSUME NEW S, S \subseteq Nat, S # {}
  PROVE  \E i \in S : \A j \in S : i <= j
<1>1. PICK i \in S : \A j \in S : ~(<<j, i>> \in OpToRel(<, Nat))
  BY NatLessThanWellFounded, WFMin
<1>2. ASSUME NEW j \in S PROVE i <= j
  <2>1. <<j, i>> \in Nat \X Nat /\ <<j, i>>[1] = j /\ <<j, i>>[2] = i
    OBVIOUS
  <2>2. j < i => <<j, i>> \in OpToRel(<, Nat)
    BY <2>1 DEF OpToRel
  <2>3. ~(j < i)
    BY <1>1, <2>2, Zenon
  <2>4. i \in Nat /\ j \in Nat
    OBVIOUS
  <2> QED
    BY <2>3, <2>4
<1> QED
  BY <1>2

\* What RemoveAt of the eviction leaves: the other entries, in order.
LEMMA Removed ==
  ASSUME NEW S, NEW s \in Seq(S), NEW v \in 1 .. Len(s)
  PROVE  /\ RemoveAt(s, v) \in Seq(S)
         /\ Len(RemoveAt(s, v)) = Len(s) - 1
         /\ \A i \in 1 .. Len(s) - 1 :
              RemoveAt(s, v)[i] = IF i < v THEN s[i] ELSE s[i + 1]
<1> DEFINE p == SubSeq(s, 1, v - 1)
           q == SubSeq(s, v + 1, Len(s))
<1>1. p \in Seq(S) /\ Len(p) = v - 1 /\ \A i \in 1 .. v - 1 : p[i] = s[i]
  OBVIOUS
<1>2. q \in Seq(S) /\ Len(q) = Len(s) - v /\ \A i \in 1 .. Len(s) - v : q[i] = s[v + i]
  OBVIOUS
<1> HIDE DEF p, q
<1>3. p \o q \in Seq(S) /\ Len(p \o q) = Len(s) - 1
  <2>1. p \o q \in Seq(S) /\ Len(p \o q) = Len(p) + Len(q)
    BY <1>1, <1>2, ConcatProperties
  <2>2. Len(s) \in Nat
    OBVIOUS
  <2> QED
    BY <1>1, <1>2, <2>1, <2>2
<1>4. \A i \in 1 .. Len(s) - 1 : (p \o q)[i] = IF i < v THEN s[i] ELSE s[i + 1]
  BY <1>1, <1>2
<1> QED
  BY <1>3, <1>4 DEF RemoveAt, p, q

\* read and modify leave an entry the entry of its block, and what is not
\* marked afterwards was not changed.
LEMMA PutKeepsBlock ==
  ASSUME NEW e, IsEntry(e), NEW a
  PROVE  /\ IsEntry(Put(e, a))
         /\ Put(e, a).blk = e.blk /\ Put(e, a).dev = e.dev
         /\ ~Put(e, a).dirty => ~e.dirty /\ Put(e, a).data = e.data
  BY DEF Put, IsEntry

\* sync clears the mark and leaves the rest of the entry.
LEMMA CleanIsEntry ==
  ASSUME NEW f, IsEntry(f), NEW e, e = [f EXCEPT !.dirty = FALSE]
  PROVE  /\ IsEntry(e) /\ ~e.dirty
         /\ e.blk = f.blk /\ e.dev = f.dev /\ e.data = f.data
<1>1. e = [blk |-> f.blk, dev |-> f.dev, dirty |-> FALSE, data |-> f.data]
  BY DEF IsEntry
<1> QED
  BY <1>1 DEF IsEntry

\* A block that is loaded is as on the disk.
LEMMA LoadIsEntry ==
  ASSUME Shape, NEW a, a.blk \in Blocks
  PROVE  /\ IsEntry(Load(a))
         /\ Load(a).blk = a.blk /\ Load(a).dev = op.dev
         /\ Load(a).data = disk[Load(a).dev][Load(a).blk]
  BY DEF Load, IsEntry, Shape

\* sync writes the block of one entry and nothing else.
LEMMA SyncedWritesOne ==
  ASSUME Shape, NEW e, IsEntry(e)
  PROVE  /\ DOMAIN Synced(e) = Devices
         /\ \A d \in Devices : DOMAIN Synced(e)[d] = Blocks
         /\ \A d \in Devices, b \in Blocks :
              Synced(e)[d][b] = IF e.dirty /\ d = e.dev /\ b = e.blk THEN e.data ELSE disk[d][b]
  BY DEF Synced, Shape, IsEntry

\* There is a device for Idle to name.
LEMMA IdleDev == Idle.dev \in Devices
  BY SizesAssumption DEF Idle

-----------------------------------------------------------------------------
(* The regions of the device.                                              *)

\* For every size of the device and of a bitmap block, the bitmap that create
\* lays out has a bit for every block of the data area: no block is out of
\* reach of Bitmap::alloc.  The converse does not hold.
THEOREM EveryBlockHasABit ==
  ASSUME data_total_blocks \in Nat
  PROVE  data_area_blocks <= data_bitmap_blocks * BLOCK_BITS
<1> DEFINE T == data_total_blocks
           B == BLOCK_BITS
           q == (T + B) \div (B + 1)
<1>1. B \in Nat \ {0}
  BY SizesAssumption
<1> HIDE DEF T, B
<1>2. T \in Nat
  BY DEF T
<1>3. q \in Nat /\ T + B < (q + 1) * (B + 1)
  BY <1>1, <1>2
<1>4. T - q <= q * B
  BY <1>1, <1>2, <1>3
<1> QED
  BY <1>4 DEF data_area_blocks, data_bitmap_blocks, T, B

-----------------------------------------------------------------------------
(* The cache.                                                              *)

LEMMA InitIndInv == Init => IndInv
<1> SUFFICES ASSUME Init PROVE IndInv
  OBVIOUS
<1>1. Idle.dev \in Devices /\ op.dev \in Devices
  BY IdleDev DEF Init
<1>2. IsEntry(SuperBlock)
  BY <1>1, SizesAssumption DEF SuperBlock, IsEntry, Blocks
<1>3. /\ DOMAIN disk = Devices
      /\ \A d \in Devices : DOMAIN disk[d] = Blocks /\ disk[d] = Formatted
  BY DEF Init, Formatted, Blocks
<1>4. queue = <<SuperBlock>> /\ Len(queue) = 1 /\ queue[1] = SuperBlock /\ DOMAIN queue = 1 .. 1
  BY DEF Init
<1>5. queue \in Seq(Range(queue))
  <2>1. <<SuperBlock>> \in Seq({SuperBlock})
    OBVIOUS
  <2> QED
    BY <1>4, <2>1, OwnRange
<1>6. Shape
  BY <1>1, <1>2, <1>3, <1>4, <1>5 DEF Shape, Init
<1>7. SuperBlock.data = disk[SuperBlock.dev][SuperBlock.blk]
  BY <1>1, <1>3 DEF SuperBlock
<1>8. CacheIsCoherent
  BY <1>4, <1>7, SizesAssumption DEF CacheIsCoherent
<1> QED
  BY <1>6, <1>8 DEF IndInv

\* A step that leaves cache and disk alone.
LEMMA CacheUntouched ==
  ASSUME IndInv, UNCHANGED <<disk, queue>>, op'.dev \in Devices, flushed' \in Nat
  PROVE  IndInv'
  BY DEF IndInv, Shape, CacheIsCoherent, IsEntry

LEMMA BeginStep ==
  ASSUME IndInv, NEW kind, NEW d \in Devices, NEW n, NEW accesses, Begin(kind, d, n, accesses)
  PROVE  IndInv'
<1>1. op'.dev \in Devices /\ flushed' \in Nat
  BY DEF Begin, IndInv, Shape
<1> QED
  BY <1>1, CacheUntouched DEF Begin

\* A hit changes one entry in place.
LEMMA HitStep == ASSUME IndInv, Hit PROVE IndInv'
<1> DEFINE x == EntryOf(Head(prog).blk)
           e == Put(queue[x], Head(prog))
<1>1. x \in 1 .. Len(queue)
  BY DEF Hit, EntryOf, Cached, IndInv, Shape
<1>2. IsEntry(queue[x])
  BY <1>1 DEF IndInv, Shape
<1>3. /\ IsEntry(e)
      /\ e.blk = queue[x].blk /\ e.dev = queue[x].dev
      /\ ~e.dirty => ~queue[x].dirty /\ e.data = queue[x].data
  BY <1>2, PutKeepsBlock
<1>4. queue' = [queue EXCEPT ![x] = e] /\ UNCHANGED <<disk, op, flushed>>
  BY DEF Hit, NextAccess
<1> HIDE DEF x, e
<1>5. /\ Len(queue') = Len(queue) /\ queue' \in Seq(Range(queue) \cup {e})
      /\ \A i \in 1 .. Len(queue) : queue'[i] = IF i = x THEN e ELSE queue[i]
  BY <1>1, <1>4 DEF IndInv, Shape
<1>6. queue' \in Seq(Range(queue'))
  BY <1>5, OwnRange
<1>7. Shape'
  BY <1>3, <1>4, <1>5, <1>6 DEF IndInv, Shape, IsEntry
<1>8. CacheIsCoherent'
  BY <1>1, <1>3, <1>4, <1>5, <1>6 DEF IndInv, Shape, CacheIsCoherent
<1> QED
  BY <1>7, <1>8 DEF IndInv

\* A miss appends an entry for a block that had none.
LEMMA MissStep == ASSUME IndInv, Miss PROVE IndInv'
<1> DEFINE a == Head(prog)
           e == Put(Load(a), a)
<1>1. a.blk \in Blocks /\ \A i \in 1 .. Len(queue) : queue[i].blk # a.blk
  BY DEF Miss, Misses, OnDevice, Cached, Blocks, IndInv, Shape
<1>2. /\ IsEntry(e)
      /\ e.blk = a.blk
      /\ ~e.dirty => e.data = disk[e.dev][e.blk]
  BY <1>1, LoadIsEntry, PutKeepsBlock DEF IndInv
<1>3. queue' = Append(queue, e) /\ UNCHANGED <<disk, op, flushed>> /\ Len(queue) # BLOCK_CACHE_SIZE
  BY DEF Miss, NextAccess, Full
<1> HIDE DEF a, e
<1>4. /\ Len(queue') = Len(queue) + 1 /\ queue' \in Seq(Range(queue) \cup {e})
      /\ \A i \in 1 .. Len(queue) + 1 : queue'[i] = IF i = Len(queue) + 1 THEN e ELSE queue[i]
  BY <1>3 DEF IndInv, Shape
<1>5. queue' \in Seq(Range(queue'))
  BY <1>4, OwnRange
<1>6. Shape'
  BY <1>2, <1>3, <1>4, <1>5 DEF IndInv, Shape, IsEntry
<1>7. Len(queue') <= BLOCK_CACHE_SIZE
  BY <1>3, <1>4, SizesAssumption DEF IndInv, Shape, CacheIsCoherent
<1>8. CacheIsCoherent'
  <2>1. DOMAIN queue = 1 .. Len(queue) /\ DOMAIN queue' = 1 .. Len(queue) + 1
    BY <1>4, <1>5 DEF IndInv, Shape
  <2>2. \A i, j \in 1 .. Len(queue) + 1 : queue'[i].blk = queue'[j].blk => i = j
    BY <1>1, <1>2, <1>4, <2>1, SMTT(30) DEF IndInv, Shape, CacheIsCoherent
  <2>3. \A i \in 1 .. Len(queue) + 1 :
           ~queue'[i].dirty => queue'[i].data = disk'[queue'[i].dev][queue'[i].blk]
    BY <1>2, <1>3, <1>4, <2>1 DEF IndInv, Shape, CacheIsCoherent
  <2> QED
    BY <1>7, <2>1, <2>2, <2>3 DEF CacheIsCoherent
<1> QED
  BY <1>6, <1>8 DEF IndInv

\* An eviction writes the victim to the disk if it is marked, and replaces it
\* by an entry for a block that had none.  No other entry is for the block
\* of the victim, so no clean entry falls behind the disk.
LEMMA EvictStep == ASSUME IndInv, Evict PROVE IndInv'
<1> DEFINE a == Head(prog)
           e == Put(Load(a), a)
           v == Victim(a.held)
           r == RemoveAt(queue, v)
           old(i) == IF i < v THEN i ELSE i + 1
<1>1. a.blk \in Blocks /\ \A i \in 1 .. Len(queue) : queue[i].blk # a.blk
  BY DEF Evict, Misses, OnDevice, Cached, Blocks, IndInv, Shape
<1>2. /\ IsEntry(e)
      /\ e.blk = a.blk
      /\ ~e.dirty => e.data = disk[e.dev][e.blk]
  BY <1>1, LoadIsEntry, PutKeepsBlock DEF IndInv
<1>3. v \in 1 .. Len(queue)
  <2> DEFINE free == {i \in DOMAIN queue : queue[i].blk \notin a.held}
  <2>1. free # {} /\ free \subseteq 1 .. Len(queue)
    BY DEF Evict, IndInv, Shape
  <2>2. free \subseteq Nat
    BY <2>1 DEF IndInv, Shape
  <2> HIDE DEF free
  <2>3. \E i \in free : \A j \in free : i <= j
    BY <2>1, <2>2, LeastNumber
  <2> QED
    BY <2>1, <2>3 DEF Victim, free
<1>4. queue' = Append(r, e) /\ disk' = Synced(queue[v]) /\ UNCHANGED <<op, flushed>>
  BY DEF Evict, NextAccess
<1>5. IsEntry(queue[v])
  BY <1>3 DEF IndInv, Shape
<1>6. /\ DOMAIN disk' = Devices
      /\ \A d \in Devices : DOMAIN disk'[d] = Blocks
      /\ \A d \in Devices, b \in Blocks : b # queue[v].blk => disk'[d][b] = disk[d][b]
  BY <1>4, <1>5, SyncedWritesOne, SMTT(30) DEF IndInv
<1>7. /\ r \in Seq(Range(queue)) /\ Len(r) = Len(queue) - 1
      /\ \A i \in 1 .. Len(queue) - 1 : r[i] = queue[old(i)]
  BY <1>3, Removed DEF IndInv, Shape
<1> HIDE DEF a, e, v, r
<1>8. /\ Len(queue') = Len(queue) /\ queue' \in Seq(Range(queue) \cup {e})
      /\ \A i \in 1 .. Len(queue) : queue'[i] = IF i = Len(queue) THEN e ELSE queue[old(i)]
  <2>1. Len(queue) \in Nat /\ r \in Seq(Range(queue) \cup {e})
    BY <1>7 DEF IndInv, Shape
  <2>2. /\ Len(queue') = Len(r) + 1 /\ queue' \in Seq(Range(queue) \cup {e})
        /\ \A i \in 1 .. Len(r) + 1 : queue'[i] = IF i = Len(r) + 1 THEN e ELSE r[i]
    BY <1>4, <2>1
  <2> QED
    BY <1>3, <1>7, <2>1, <2>2
<1>9. queue' \in Seq(Range(queue'))
  BY <1>8, OwnRange
<1>10. /\ Len(queue) \in Nat
       /\ \A i \in 1 .. Len(queue) : i # Len(queue) => old(i) \in 1 .. Len(queue) /\ old(i) # v
       /\ \A i, j \in 1 .. Len(queue) : old(i) = old(j) => i = j
  BY <1>3 DEF IndInv, Shape
<1> HIDE DEF old
<1>11. Shape'
  BY <1>2, <1>4, <1>6, <1>8, <1>9, <1>10 DEF IndInv, Shape, IsEntry
<1>12. \A i, j \in 1 .. Len(queue) : queue'[i].blk = queue'[j].blk => i = j
  BY <1>1, <1>2, <1>8, <1>10 DEF IndInv, Shape, CacheIsCoherent
<1>13. ASSUME NEW i \in 1 .. Len(queue), ~queue'[i].dirty
       PROVE  queue'[i].data = disk'[queue'[i].dev][queue'[i].blk]
  <2>1. CASE i = Len(queue)
    <3>1. queue'[i] = e
      BY <1>8, <2>1
    <3>2. e.dev \in Devices /\ e.blk \in Blocks /\ e.blk # queue[v].blk
      BY <1>1, <1>2, <1>3 DEF IsEntry
    <3> QED
      BY <1>2, <1>6, <1>13, <3>1, <3>2
  <2>2. CASE i # Len(queue)
    <3>1. queue'[i] = queue[old(i)] /\ old(i) \in 1 .. Len(queue) /\ old(i) # v
      BY <1>8, <1>10, <2>2
    <3>2. queue[old(i)].blk # queue[v].blk /\ IsEntry(queue[old(i)])
      BY <1>3, <3>1 DEF IndInv, Shape, CacheIsCoherent
    <3>3. queue[old(i)].data = disk[queue[old(i)].dev][queue[old(i)].blk]
      BY <1>13, <3>1 DEF IndInv, Shape, CacheIsCoherent
    <3> QED
      BY <1>6, <3>1, <3>2, <3>3, SMTT(30) DEF IsEntry
  <2> QED
    BY <2>1, <2>2
<1>14. CacheIsCoherent'
  <2>1. Len(queue') <= BLOCK_CACHE_SIZE
    BY <1>8 DEF IndInv, CacheIsCoherent
  <2>2. DOMAIN queue' = 1 .. Len(queue)
    BY <1>8, <1>9
  <2> QED
    BY <1>12, <1>13, <2>1, <2>2 DEF CacheIsCoherent
<1> QED
  BY <1>11, <1>14 DEF IndInv

\* A step of block_cache_sync_all writes one entry and clears its mark.
LEMMA SyncStep == ASSUME IndInv, SyncOne PROVE IndInv'
<1> DEFINE x == flushed + 1
           e == [queue[x] EXCEPT !.dirty = FALSE]
<1>1. x \in 1 .. Len(queue)
  BY DEF SyncOne, IndInv, Shape
<1>2. IsEntry(queue[x])
  BY <1>1 DEF IndInv, Shape
<1>3. IsEntry(e) /\ e.blk = queue[x].blk /\ e.dev = queue[x].dev /\ e.data = queue[x].data /\ ~e.dirty
  BY <1>2, CleanIsEntry
<1>4. queue' = [queue EXCEPT ![x] = e] /\ disk' = Synced(queue[x]) /\ op' = op /\ flushed' = x
  BY DEF SyncOne
<1>5. /\ DOMAIN disk' = Devices
      /\ \A d \in Devices : DOMAIN disk'[d] = Blocks
      /\ \A d \in Devices, b \in Blocks :
           disk'[d][b] = IF queue[x].dirty /\ d = queue[x].dev /\ b = queue[x].blk
                           THEN queue[x].data ELSE disk[d][b]
  BY <1>2, <1>4, SyncedWritesOne DEF IndInv
<1> HIDE DEF e
<1>6. /\ Len(queue') = Len(queue) /\ queue' \in Seq(Range(queue) \cup {e})
      /\ \A i \in 1 .. Len(queue) : queue'[i] = IF i = x THEN e ELSE queue[i]
  BY <1>1, <1>4 DEF IndInv, Shape
<1>7. queue' \in Seq(Range(queue'))
  BY <1>6, OwnRange
<1>8. Shape'
  BY <1>1, <1>3, <1>4, <1>5, <1>6, <1>7 DEF IndInv, Shape, IsEntry
<1>9. \A i, j \in 1 .. Len(queue) : queue'[i].blk = queue'[j].blk => i = j
  BY <1>1, <1>3, <1>6 DEF IndInv, Shape, CacheIsCoherent
<1>10. ASSUME NEW i \in 1 .. Len(queue), ~queue'[i].dirty
       PROVE  queue'[i].data = disk'[queue'[i].dev][queue'[i].blk]
  <2>1. CASE i = x
    <3>1. queue'[i] = e /\ e.dev \in Devices /\ e.blk \in Blocks
      BY <1>3, <1>6, <2>1 DEF IsEntry
    <3>2. ~queue[x].dirty => queue[x].data = disk[queue[x].dev][queue[x].blk]
      BY <1>1 DEF IndInv, Shape, CacheIsCoherent
    <3> QED
      BY <1>3, <1>5, <3>1, <3>2
  <2>2. CASE i # x
    <3>1. queue'[i] = queue[i] /\ IsEntry(queue[i]) /\ queue[i].blk # queue[x].blk
      BY <1>1, <1>6, <2>2 DEF IndInv, Shape, CacheIsCoherent
    <3>2. queue[i].data = disk[queue[i].dev][queue[i].blk]
      BY <1>10, <3>1 DEF IndInv, Shape, CacheIsCoherent
    <3> QED
      BY <1>5, <3>1, <3>2 DEF IsEntry
  <2> QED
    BY <2>1, <2>2
<1>11. CacheIsCoherent'
  BY <1>6, <1>7, <1>9, <1>10 DEF IndInv, Shape, CacheIsCoherent
<1> QED
  BY <1>8, <1>11 DEF IndInv

\* A restart begins with an empty cache.
LEMMA RestartStep == ASSUME IndInv, Restart PROVE IndInv'
<1>1. queue' = << >> /\ disk' = disk /\ flushed' = flushed /\ op'.dev \in Devices
  BY IdleDev DEF Restart, Idle
<1>2. Len(queue') = 0 /\ queue' \in Seq(Range(queue')) /\ DOMAIN queue' = 1 .. 0
  BY <1>1
<1>3. Shape'
  BY <1>1, <1>2 DEF IndInv, Shape
<1>4. CacheIsCoherent'
  BY <1>2, SizesAssumption DEF CacheIsCoherent
<1> QED
  BY <1>3, <1>4 DEF IndInv

LEMMA NextIndInv == IndInv /\ [Next]_vars => IndInv'
<1> SUFFICES ASSUME IndInv, [Next]_vars PROVE IndInv'
  OBVIOUS
<1>1. ASSUME NEW d \in Devices, ls(d) PROVE IndInv'
  BY <1>1, BeginStep DEF ls
<1>2. ASSUME NEW d \in Devices, NEW n \in Names,
             find(d, n) \/ create(d, n) \/ read_at(d, n) \/ clear(d, n)
      PROVE  IndInv'
  BY <1>2, BeginStep DEF find, create, read_at, clear
<1>3. ASSUME NEW d \in Devices, NEW n \in Names, NEW r \in Requests, write_at(d, n, r)
      PROVE  IndInv'
  BY <1>3, BeginStep DEF write_at
<1>4. CASE Halt
  BY <1>4, CacheUntouched DEF Halt, IndInv, Shape
<1>5. CASE Return
  <2>1. op'.dev \in Devices /\ flushed' \in Nat /\ UNCHANGED <<disk, queue>>
    BY <1>5, IdleDev DEF Return
  <2> QED
    BY <2>1, CacheUntouched
<1>6. CASE UNCHANGED vars
  BY <1>6, CacheUntouched DEF vars, IndInv, Shape
<1> QED
  BY <1>1, <1>2, <1>3, <1>4, <1>5, <1>6, HitStep, MissStep, EvictStep, SyncStep, RestartStep
  DEF Next

\* For every number of devices, every size of a device and of the cache and
\* every set of requests: the cache has one copy of a block, never grows past
\* its size, and every entry that get_block_cache may drop unwritten is what
\* the disk has.
THEOREM Coherence == Spec => []CacheIsCoherent
<1>1. Spec => []IndInv
  BY InitIndInv, NextIndInv, PTL DEF Spec
<1> QED
  BY <1>1, PTL DEF IndInv

-----------------------------------------------------------------------------
(* What the operations see of the cache.  The manager looks at the number  *)
(* of a block alone, so this is about a kernel with one device.            *)

OneDevice == \A d, e \in Devices : d = e

\* An access as the operation that makes it sees the device B change.
Changed(B, a) == IF a.dirty THEN [B EXCEPT ![a.blk] = a.put @@ @] ELSE B

\* A hit, a miss and an eviction make no difference to an operation: the access
\* is what changes what is seen.  Writing back, a restart and the end of
\* an operation change nothing.
CacheIsInvisible ==
  [][\A d \in Devices :
       View(d)' = IF Hit \/ Miss \/ Evict THEN Changed(View(d), Head(prog)) ELSE View(d)]_vars

\* When write_at or clear returns, the disk is what the operations see, and has
\* the files that a restart will find.
WritesAreDurable ==
  [][Return /\ Syncs =>
       \A d \in Devices : View(d) = disk[d] /\ safe'[d] = FilesOn(disk[d])]_vars

\* The device D behind the cache q.
ViewIn(q, D) ==
  [b \in DOMAIN D |->
     LET c == {i \in DOMAIN q : q[i].blk = b}
     IN  IF c = {} THEN D[b] ELSE q[CHOOSE i \in c : TRUE].data]

\* A block has one entry at most.
Unique(q) == \A i, j \in 1 .. Len(q) : q[i].blk = q[j].blk => i = j

\* Before and after a step.
LEMMA ViewIsViewIn ==
  \A d : View(d) = ViewIn(queue, disk[d]) /\ View(d)' = ViewIn(queue', disk'[d])
  BY DEF View, ViewIn, Cached, EntryOf

\* A block is seen as its entry has it, or as on the disk.
LEMMA Seen ==
  ASSUME NEW S, NEW q \in Seq(S), NEW D, Unique(q)
  PROVE  /\ ViewIn(q, D) = [b \in DOMAIN D |-> ViewIn(q, D)[b]]
         /\ DOMAIN ViewIn(q, D) = DOMAIN D
         /\ \A i \in 1 .. Len(q) : q[i].blk \in DOMAIN D => ViewIn(q, D)[q[i].blk] = q[i].data
         /\ \A b \in DOMAIN D : (\A i \in 1 .. Len(q) : q[i].blk # b) => ViewIn(q, D)[b] = D[b]
<1>1. DOMAIN q = 1 .. Len(q)
  OBVIOUS
<1>2. ASSUME NEW i \in 1 .. Len(q), q[i].blk \in DOMAIN D
      PROVE  ViewIn(q, D)[q[i].blk] = q[i].data
  <2>1. {j \in DOMAIN q : q[j].blk = q[i].blk} = {i}
    BY <1>1 DEF Unique
  <2> QED  BY <1>2, <2>1 DEF ViewIn
<1>3. ASSUME NEW b \in DOMAIN D, \A i \in 1 .. Len(q) : q[i].blk # b
      PROVE  ViewIn(q, D)[b] = D[b]
  <2>1. {j \in DOMAIN q : q[j].blk = b} = {}
    BY <1>1, <1>3
  <2> QED  BY <2>1 DEF ViewIn
<1> QED  BY <1>2, <1>3 DEF ViewIn

\* A device that agrees with the entries, and with the disk elsewhere, is what
\* is seen.
LEMMA SameView ==
  ASSUME NEW S, NEW q \in Seq(S), NEW D, Unique(q), NEW K, DOMAIN D = K,
         NEW B, B = [b \in K |-> B[b]],
         \A i \in 1 .. Len(q) : q[i].blk \in K /\ B[q[i].blk] = q[i].data,
         \A b \in K : (\A i \in 1 .. Len(q) : q[i].blk # b) => B[b] = D[b]
  PROVE  ViewIn(q, D) = B
<1>1. ASSUME NEW b \in K PROVE ViewIn(q, D)[b] = B[b]
  <2>1. CASE \E i \in 1 .. Len(q) : q[i].blk = b
    <3>1. PICK i \in 1 .. Len(q) : q[i].blk = b
      BY <2>1
    <3> QED  BY <3>1, Seen
  <2>2. CASE \A i \in 1 .. Len(q) : q[i].blk # b
    BY <2>2, Seen
  <2> QED  BY <2>1, <2>2
<1>2. ViewIn(q, D) = [b \in K |-> ViewIn(q, D)[b]]
  BY Seen
<1> QED  BY <1>1, <1>2

\* What the invariant says of the cache of the one device.
LEMMA CacheFacts ==
  ASSUME IndInv, OneDevice, NEW d \in Devices
  PROVE  /\ queue \in Seq(Range(queue)) /\ Unique(queue) /\ DOMAIN disk[d] = Blocks
         /\ \A i \in 1 .. Len(queue) :
              /\ IsEntry(queue[i]) /\ queue[i].blk \in Blocks /\ queue[i].dev = d
              /\ ~queue[i].dirty => queue[i].data = disk[d][queue[i].blk]
<1>1. \A i \in 1 .. Len(queue) : IsEntry(queue[i]) /\ queue[i].blk \in Blocks /\ queue[i].dev = d
  BY DEF IndInv, Shape, OneDevice, IsEntry
<1>2. DOMAIN queue = 1 .. Len(queue)
  BY DEF IndInv, Shape
<1> QED  BY <1>1, <1>2 DEF IndInv, Shape, CacheIsCoherent, Unique

\* The same after a step.
LEMMA CacheFactsAfter ==
  ASSUME IndInv', OneDevice, NEW d \in Devices
  PROVE  /\ queue' \in Seq(Range(queue')) /\ Unique(queue') /\ DOMAIN disk'[d] = Blocks
         /\ \A i \in 1 .. Len(queue') : queue'[i].blk \in Blocks
<1>1. DOMAIN queue' = 1 .. Len(queue')
  BY DEF IndInv, Shape
<1> QED  BY <1>1 DEF IndInv, Shape, CacheIsCoherent, Unique, IsEntry

\* What read and modify do to the entry of the block.
LEMMA PutChanges ==
  ASSUME NEW e, IsEntry(e), NEW a
  PROVE  /\ a.dirty => Put(e, a).data = a.put @@ e.data
         /\ ~a.dirty => Put(e, a).data = e.data
  BY DEF Put, IsEntry

\* A cache q and a disk D after the access a to what was seen as B: the entry e
\* has what a changed, and the other blocks are in their entries or on the disk.
AccessMade(q, D, B, a, e) ==
  /\ Unique(q) /\ DOMAIN D = Blocks /\ B = [b \in Blocks |-> B[b]]
  /\ a.blk \in Blocks /\ e.blk = a.blk
  /\ a.dirty => e.data = a.put @@ B[a.blk]
  /\ ~a.dirty => e.data = B[a.blk]
  /\ \E i \in 1 .. Len(q) : q[i] = e
  /\ \A i \in 1 .. Len(q) :
       \/ q[i] = e
       \/ q[i].blk \in Blocks /\ q[i].blk # a.blk /\ q[i].data = B[q[i].blk]
  /\ \A b \in Blocks : (\A i \in 1 .. Len(q) : q[i].blk # b) => D[b] = B[b]

\* It is seen as the change that a makes.
LEMMA AccessInView ==
  ASSUME NEW S, NEW q \in Seq(S), NEW D, NEW B, NEW a, NEW e, AccessMade(q, D, B, a, e)
  PROVE  ViewIn(q, D) = Changed(B, a)
<1> DEFINE C == Changed(B, a)
<1>1. C = [b \in Blocks |-> C[b]]
  BY DEF Changed, AccessMade
<1>2. \A b \in Blocks : b # a.blk => C[b] = B[b]
  BY DEF Changed, AccessMade
<1>3. C[a.blk] = e.data
  BY DEF Changed, AccessMade
<1> HIDE DEF C
<1>4. \A i \in 1 .. Len(q) : q[i].blk \in Blocks /\ C[q[i].blk] = q[i].data
  BY <1>2, <1>3 DEF AccessMade
<1>5. \A b \in Blocks : (\A i \in 1 .. Len(q) : q[i].blk # b) => C[b] = D[b]
  BY <1>2 DEF AccessMade
<1>6. Unique(q) /\ DOMAIN D = Blocks
  BY DEF AccessMade
<1>7. ViewIn(q, D) = C
  BY <1>1, <1>4, <1>5, <1>6, SameView
<1> QED  BY <1>7 DEF C

\* The same for a step of the cache.
LEMMA AccessSeen ==
  ASSUME IndInv, IndInv', OneDevice, NEW d \in Devices,
         NEW B, B = ViewIn(queue, disk[d]),
         NEW a, a.blk \in Blocks, NEW e, e.blk = a.blk,
         a.dirty => e.data = a.put @@ B[a.blk],
         ~a.dirty => e.data = B[a.blk],
         \E i \in 1 .. Len(queue') : queue'[i] = e,
         \A i \in 1 .. Len(queue') :
           \/ queue'[i] = e
           \/ \E j \in 1 .. Len(queue) : queue'[i] = queue[j] /\ queue[j].blk # a.blk,
         \A b \in Blocks : (\A i \in 1 .. Len(queue') : queue'[i].blk # b) => disk'[d][b] = B[b]
  PROVE  View(d)' = Changed(View(d), a)
<1>1. /\ B = [b \in Blocks |-> B[b]]
      /\ \A i \in 1 .. Len(queue) : queue[i].blk \in Blocks /\ B[queue[i].blk] = queue[i].data
  BY CacheFacts, Seen
<1>2. \A i \in 1 .. Len(queue') :
        \/ queue'[i] = e
        \/ /\ queue'[i].blk \in Blocks /\ queue'[i].blk # a.blk
           /\ queue'[i].data = B[queue'[i].blk]
  BY <1>1
<1>3. queue' \in Seq(Range(queue')) /\ Unique(queue') /\ DOMAIN disk'[d] = Blocks
  BY CacheFactsAfter
<1>4. AccessMade(queue', disk'[d], B, a, e)
  BY <1>1, <1>2, <1>3 DEF AccessMade
<1>5. ViewIn(queue', disk'[d]) = Changed(B, a)
  BY <1>3, <1>4, AccessInView
<1> QED  BY <1>5, ViewIsViewIn

\* A hit changes the entry in place.
LEMMA HitSeen ==
  ASSUME IndInv, IndInv', OneDevice, NEW d \in Devices, Hit
  PROVE  View(d)' = Changed(View(d), Head(prog))
<1> DEFINE a == Head(prog)
           x == EntryOf(a.blk)
           e == Put(queue[x], a)
           B == ViewIn(queue, disk[d])
<1>1. x \in 1 .. Len(queue) /\ queue[x].blk = a.blk
  BY SMTT(30) DEF Hit, EntryOf, Cached, IndInv, Shape
<1>2. queue' = [queue EXCEPT ![x] = e] /\ disk' = disk
  BY DEF Hit
<1>3. /\ e.blk = a.blk
      /\ a.dirty => e.data = a.put @@ queue[x].data
      /\ ~a.dirty => e.data = queue[x].data
  BY <1>1, CacheFacts, PutKeepsBlock, PutChanges
<1> HIDE DEF a, x, e
<1>4. /\ \A i \in 1 .. Len(queue) : B[queue[i].blk] = queue[i].data
      /\ \A b \in Blocks : (\A i \in 1 .. Len(queue) : queue[i].blk # b) => B[b] = disk[d][b]
  BY CacheFacts, Seen
<1> HIDE DEF B
<1>5. a.blk \in Blocks /\ B[a.blk] = queue[x].data
  BY <1>1, <1>4, CacheFacts
<1>6. /\ Len(queue') = Len(queue)
      /\ \A i \in 1 .. Len(queue) : queue'[i] = IF i = x THEN e ELSE queue[i]
  BY <1>1, <1>2, CacheFacts
<1>7. \A i \in 1 .. Len(queue) : i # x => queue[i].blk # a.blk
  BY <1>1, CacheFacts DEF Unique
<1>8. \A b \in Blocks : (\A i \in 1 .. Len(queue') : queue'[i].blk # b) => disk'[d][b] = B[b]
  BY <1>1, <1>2, <1>3, <1>4, <1>6
<1>9. a.dirty => e.data = a.put @@ B[a.blk]
  BY <1>3, <1>5
<1>10. ~a.dirty => e.data = B[a.blk]
  BY <1>3, <1>5
<1>11. /\ \E i \in 1 .. Len(queue') : queue'[i] = e
       /\ \A i \in 1 .. Len(queue') :
            \/ queue'[i] = e
            \/ \E j \in 1 .. Len(queue) : queue'[i] = queue[j] /\ queue[j].blk # a.blk
  BY <1>1, <1>6, <1>7
<1>12. B = ViewIn(queue, disk[d])
  BY DEF B
<1> QED  BY <1>3, <1>5, <1>8, <1>9, <1>10, <1>11, <1>12, AccessSeen DEF a

\* A miss loads what the disk has.
LEMMA MissSeen ==
  ASSUME IndInv, IndInv', OneDevice, NEW d \in Devices, Miss
  PROVE  View(d)' = Changed(View(d), Head(prog))
<1> DEFINE a == Head(prog)
           e == Put(Load(a), a)
           B == ViewIn(queue, disk[d])
<1>1. a.blk \in Blocks /\ \A i \in 1 .. Len(queue) : queue[i].blk # a.blk
  BY DEF Miss, Misses, OnDevice, Cached, Blocks, IndInv, Shape
<1>2. queue' = Append(queue, e) /\ disk' = disk
  BY DEF Miss
<1>3. op.dev = d /\ IsEntry(Load(a)) /\ Load(a).blk = a.blk /\ Load(a).data = disk[d][a.blk]
  BY <1>1, LoadIsEntry DEF IndInv, Shape, OneDevice
<1>4. /\ e.blk = a.blk
      /\ a.dirty => e.data = a.put @@ disk[d][a.blk]
      /\ ~a.dirty => e.data = disk[d][a.blk]
  BY <1>3, PutKeepsBlock, PutChanges
<1> HIDE DEF a, e
<1>5. \A b \in Blocks : (\A i \in 1 .. Len(queue) : queue[i].blk # b) => B[b] = disk[d][b]
  BY CacheFacts, Seen
<1> HIDE DEF B
<1>6. B[a.blk] = disk[d][a.blk]
  BY <1>1, <1>5
<1>7. /\ Len(queue) \in Nat /\ Len(queue') = Len(queue) + 1
      /\ \A i \in 1 .. Len(queue) + 1 : queue'[i] = IF i = Len(queue) + 1 THEN e ELSE queue[i]
  BY <1>2, CacheFacts
<1>8. \A b \in Blocks : (\A i \in 1 .. Len(queue') : queue'[i].blk # b) => disk'[d][b] = B[b]
  BY <1>2, <1>5, <1>7
<1>9. a.dirty => e.data = a.put @@ B[a.blk]
  BY <1>4, <1>6
<1>10. ~a.dirty => e.data = B[a.blk]
  BY <1>4, <1>6
<1>11. /\ \E i \in 1 .. Len(queue') : queue'[i] = e
       /\ \A i \in 1 .. Len(queue') :
            \/ queue'[i] = e
            \/ \E j \in 1 .. Len(queue) : queue'[i] = queue[j] /\ queue[j].blk # a.blk
  BY <1>1, <1>7
<1>12. B = ViewIn(queue, disk[d])
  BY DEF B
<1> QED  BY <1>1, <1>4, <1>8, <1>9, <1>10, <1>11, <1>12, AccessSeen DEF a

\* The first entry that is not held.
LEMMA VictimIsEntry ==
  ASSUME IndInv, Evict
  PROVE  Victim(Head(prog).held) \in 1 .. Len(queue)
<1> DEFINE free == {i \in DOMAIN queue : queue[i].blk \notin Head(prog).held}
<1>1. free # {} /\ free \subseteq 1 .. Len(queue)
  BY DEF Evict, IndInv, Shape
<1>2. free \subseteq Nat
  BY <1>1 DEF IndInv, Shape
<1> HIDE DEF free
<1>3. \E i \in free : \A j \in free : i <= j
  BY <1>1, <1>2, LeastNumber
<1> QED  BY <1>1, <1>3 DEF Victim, free

\* An eviction: the disk has the victim as it was seen.
LEMMA EvictSeen ==
  ASSUME IndInv, IndInv', OneDevice, NEW d \in Devices, Evict
  PROVE  View(d)' = Changed(View(d), Head(prog))
<1> DEFINE a == Head(prog)
           e == Put(Load(a), a)
           v == Victim(a.held)
           r == RemoveAt(queue, v)
           B == ViewIn(queue, disk[d])
<1>1. a.blk \in Blocks /\ \A i \in 1 .. Len(queue) : queue[i].blk # a.blk
  BY DEF Evict, Misses, OnDevice, Cached, Blocks, IndInv, Shape
<1>2. queue' = Append(r, e) /\ disk' = Synced(queue[v])
  BY DEF Evict
<1>3. op.dev = d /\ IsEntry(Load(a)) /\ Load(a).blk = a.blk /\ Load(a).data = disk[d][a.blk]
  BY <1>1, LoadIsEntry DEF IndInv, Shape, OneDevice
<1>4. /\ e.blk = a.blk
      /\ a.dirty => e.data = a.put @@ disk[d][a.blk]
      /\ ~a.dirty => e.data = disk[d][a.blk]
  BY <1>3, PutKeepsBlock, PutChanges
<1>5. v \in 1 .. Len(queue)
  BY VictimIsEntry
<1>6. /\ r \in Seq(Range(queue)) /\ Len(r) = Len(queue) - 1
      /\ \A i \in 1 .. Len(queue) - 1 : r[i] = IF i < v THEN queue[i] ELSE queue[i + 1]
  <2>1. queue \in Seq(Range(queue))
    BY CacheFacts
  <2> HIDE DEF v
  <2> QED  BY <1>5, <2>1, Removed
<1> HIDE DEF a, e, v, r
<1>7. /\ \A i \in 1 .. Len(queue) : B[queue[i].blk] = queue[i].data
      /\ \A b \in Blocks : (\A i \in 1 .. Len(queue) : queue[i].blk # b) => B[b] = disk[d][b]
  BY CacheFacts, Seen
<1> HIDE DEF B
<1>8. B[a.blk] = disk[d][a.blk]
  BY <1>1, <1>7
<1>9. \A b \in Blocks : disk'[d][b] = IF b = queue[v].blk THEN queue[v].data ELSE disk[d][b]
  <2>1. /\ IsEntry(queue[v]) /\ queue[v].dev = d
        /\ ~queue[v].dirty => queue[v].data = disk[d][queue[v].blk]
    BY <1>5, CacheFacts
  <2>2. \A b \in Blocks :
          disk'[d][b] = IF queue[v].dirty /\ d = queue[v].dev /\ b = queue[v].blk
                          THEN queue[v].data ELSE disk[d][b]
    BY <1>2, <2>1, SyncedWritesOne DEF IndInv
  <2> QED  BY <2>1, <2>2
<1>10. Len(queue) \in Nat /\ queue \in Seq(Range(queue))
  BY CacheFacts
<1>11. /\ Len(queue') = Len(queue) /\ queue'[Len(queue)] = e
       /\ \A i \in 1 .. Len(queue) - 1 : queue'[i] = IF i < v THEN queue[i] ELSE queue[i + 1]
  BY <1>2, <1>5, <1>6, <1>10
<1>12. \A j \in 1 .. Len(queue) : j # v => \E i \in 1 .. Len(queue') : queue'[i] = queue[j]
  <2> SUFFICES ASSUME NEW j \in 1 .. Len(queue), j # v
               PROVE  \E i \in 1 .. Len(queue') : queue'[i] = queue[j]
    OBVIOUS
  <2>1. CASE j < v
    BY <1>5, <1>10, <1>11, <2>1
  <2>2. CASE j > v
    <3>1. j - 1 \in 1 .. Len(queue) - 1 /\ ~ (j - 1 < v) /\ j - 1 + 1 = j /\ j - 1 \in 1 .. Len(queue')
      BY <1>5, <1>10, <1>11, <2>2
    <3>2. queue'[j - 1] = queue[j]
      BY <1>11, <3>1
    <3> QED  BY <3>1, <3>2
  <2> QED  BY <1>5, <1>10, <2>1, <2>2
<1>13. ASSUME NEW b \in Blocks, \A i \in 1 .. Len(queue') : queue'[i].blk # b
       PROVE  disk'[d][b] = B[b]
  <2>1. CASE b = queue[v].blk
    BY <1>5, <1>7, <1>9, <2>1
  <2>2. CASE b # queue[v].blk
    <3>1. \A j \in 1 .. Len(queue) : queue[j].blk # b
      BY <1>12, <1>13, <2>2
    <3> QED  BY <1>7, <1>9, <2>2, <3>1
  <2> QED  BY <2>1, <2>2
<1>14. a.dirty => e.data = a.put @@ B[a.blk]
  BY <1>4, <1>8
<1>15. ~a.dirty => e.data = B[a.blk]
  BY <1>4, <1>8
<1>16. ASSUME NEW i \in 1 .. Len(queue')
       PROVE  \/ queue'[i] = e
              \/ \E j \in 1 .. Len(queue) : queue'[i] = queue[j] /\ queue[j].blk # a.blk
  <2>1. CASE i = Len(queue)
    BY <1>11, <2>1
  <2>2. CASE i # Len(queue)
    <3>1. i \in 1 .. Len(queue) - 1 /\ i \in 1 .. Len(queue) /\ i + 1 \in 1 .. Len(queue)
      BY <1>10, <1>11, <2>2
    <3> QED  BY <1>1, <1>11, <3>1
  <2> QED  BY <2>1, <2>2
<1>17. \E i \in 1 .. Len(queue') : queue'[i] = e
  BY <1>5, <1>10, <1>11
<1>18. B = ViewIn(queue, disk[d])
  BY DEF B
<1> QED  BY <1>1, <1>4, <1>13, <1>14, <1>15, <1>16, <1>17, <1>18, AccessSeen DEF a

\* Writing an entry back moves nothing that is seen.
LEMMA SyncSeen ==
  ASSUME IndInv, IndInv', OneDevice, NEW d \in Devices, SyncOne
  PROVE  View(d)' = View(d)
<1> DEFINE x == flushed + 1
           B == ViewIn(queue, disk[d])
<1>1. x \in 1 .. Len(queue)
  BY DEF SyncOne, IndInv, Shape
<1>2. queue' = [queue EXCEPT ![x].dirty = FALSE] /\ disk' = Synced(queue[x])
  BY DEF SyncOne
<1>3. /\ IsEntry(queue[x]) /\ queue[x].dev = d
      /\ ~queue[x].dirty => queue[x].data = disk[d][queue[x].blk]
  BY <1>1, CacheFacts
<1>4. /\ Len(queue') = Len(queue)
      /\ \A i \in 1 .. Len(queue) : queue'[i].blk = queue[i].blk /\ queue'[i].data = queue[i].data
  <2>1. PICK e : e = [queue[x] EXCEPT !.dirty = FALSE]
    OBVIOUS
  <2>2. e.blk = queue[x].blk /\ e.data = queue[x].data
    BY <1>3, <2>1, CleanIsEntry
  <2>3. queue' = [queue EXCEPT ![x] = e]
    BY <1>2, <2>1
  <2> QED  BY <1>1, <2>2, <2>3, CacheFacts, SMTT(30)
<1>5. \A b \in Blocks : b # queue[x].blk => disk'[d][b] = disk[d][b]
  BY <1>2, <1>3, SyncedWritesOne DEF IndInv
<1>6. /\ B = [b \in Blocks |-> B[b]]
      /\ \A i \in 1 .. Len(queue) : queue[i].blk \in Blocks /\ B[queue[i].blk] = queue[i].data
      /\ \A b \in Blocks : (\A i \in 1 .. Len(queue) : queue[i].blk # b) => B[b] = disk[d][b]
  BY CacheFacts, Seen
<1> HIDE DEF B
<1>7. \A i \in 1 .. Len(queue') : B[queue'[i].blk] = queue'[i].data
  BY <1>4, <1>6
<1>8. \A b \in Blocks : (\A i \in 1 .. Len(queue') : queue'[i].blk # b) => B[b] = disk'[d][b]
  BY <1>1, <1>4, <1>5, <1>6
<1>9. ViewIn(queue', disk'[d]) = B
  BY <1>6, <1>7, <1>8, CacheFactsAfter, SameView
<1> QED  BY <1>9, ViewIsViewIn DEF B

\* With nothing marked, what is seen is the disk.
LEMMA CleanSeen ==
  ASSUME IndInv, OneDevice, NEW d \in Devices, disk[d] = [b \in Blocks |-> disk[d][b]],
         \A i \in 1 .. Len(queue) : ~queue[i].dirty
  PROVE  View(d) = disk[d]
<1>1. ViewIn(queue, disk[d]) = disk[d]
  BY CacheFacts, SameView
<1> QED  BY <1>1, ViewIsViewIn

\* Devices are functions; block_cache_sync_all leaves behind it what is written,
\* and starts at the front of the queue.
FlushInv ==
  /\ \A d \in Devices : disk[d] = [b \in Blocks |-> disk[d][b]]
  /\ \A i \in 1 .. Len(queue) : i <= flushed => ~queue[i].dirty
  /\ prog # << >> \/ op = Idle => flushed = 0

\* sync leaves a device a device.
LEMMA SyncedIsDevice ==
  ASSUME IndInv, FlushInv, NEW e, IsEntry(e), NEW d \in Devices
  PROVE  Synced(e)[d] = [b \in Blocks |-> Synced(e)[d][b]]
<1>1. disk[d] = [b \in Blocks |-> disk[d][b]] /\ DOMAIN disk = Devices /\ DOMAIN disk[d] = Blocks
  BY DEF FlushInv, IndInv, Shape
<1>2. CASE ~ (e.dirty /\ e.dev = d)
  <2>1. Synced(e)[d] = disk[d]
    BY <1>1, <1>2 DEF Synced, IsEntry
  <2> QED  BY <1>1, <2>1
<1>3. CASE e.dirty /\ e.dev = d
  <2>1. Synced(e)[d] = [disk[d] EXCEPT ![e.blk] = e.data]
    BY <1>1, <1>3 DEF Synced
  <2> QED  BY <1>1, <2>1
<1> QED  BY <1>2, <1>3

LEMMA InitFlushInv == Init => FlushInv
  BY DEF Init, FlushInv, Formatted, Blocks

\* The loop of block_cache_sync_all runs when no access is left.
LEMMA NextFlushInv ==
  ASSUME IndInv, FlushInv, [Next]_vars
  PROVE  FlushInv'
<1>1. ASSUME UNCHANGED <<disk, queue, flushed>>, op = Idle \/ UNCHANGED <<op, prog>>
      PROVE  FlushInv'
  BY <1>1 DEF FlushInv
<1>2. ASSUME NEW kind, NEW d, NEW n, NEW accesses, Begin(kind, d, n, accesses) PROVE FlushInv'
  BY <1>2, <1>1 DEF Begin
<1>3. ASSUME flushed = 0, flushed' = 0,
             \A d \in Devices : disk'[d] = [b \in Blocks |-> disk'[d][b]],
             Len(queue') \in Nat
      PROVE  FlushInv'
  BY <1>3 DEF FlushInv
<1>4. IndInv'
  BY NextIndInv
<1>5. Len(queue') \in Nat
  BY <1>4 DEF IndInv, Shape
<1>6. CASE Hit
  BY <1>3, <1>5, <1>6 DEF Hit, NextAccess, FlushInv
<1>7. CASE Miss
  BY <1>3, <1>5, <1>7 DEF Miss, Misses, NextAccess, FlushInv
<1>8. CASE Evict
  <2>1. flushed = 0 /\ flushed' = 0 /\ disk' = Synced(queue[Victim(Head(prog).held)])
    BY <1>8 DEF Evict, Misses, NextAccess, FlushInv
  <2>2. IsEntry(queue[Victim(Head(prog).held)])
    BY <1>8, VictimIsEntry DEF IndInv, Shape
  <2>3. \A d \in Devices : disk'[d] = [b \in Blocks |-> disk'[d][b]]
    BY <2>1, <2>2, SyncedIsDevice
  <2> QED  BY <1>3, <1>5, <2>1, <2>3
<1>9. CASE Halt
  BY <1>1, <1>9 DEF Halt
<1>10. CASE SyncOne
  <2> DEFINE x == flushed + 1
             e == [queue[x] EXCEPT !.dirty = FALSE]
  <2>1. x \in 1 .. Len(queue) /\ flushed \in Nat /\ op # Idle /\ prog = << >>
    BY <1>10 DEF SyncOne, IndInv, Shape
  <2>2. /\ queue' = [queue EXCEPT ![x] = e] /\ disk' = Synced(queue[x])
        /\ flushed' = x /\ op' = op /\ prog' = prog
    BY <1>10 DEF SyncOne
  <2>3. IsEntry(queue[x]) /\ queue \in Seq(Range(queue))
    BY <2>1 DEF IndInv, Shape
  <2>4. ~e.dirty
    BY <2>3, CleanIsEntry
  <2>5. \A d \in Devices : disk'[d] = [b \in Blocks |-> disk'[d][b]]
    BY <2>2, <2>3, SyncedIsDevice
  <2> HIDE DEF e
  <2>6. Len(queue') = Len(queue) /\ \A i \in 1 .. Len(queue) : queue'[i] = IF i = x THEN e ELSE queue[i]
    BY <2>1, <2>2, <2>3
  <2>7. \A i \in 1 .. Len(queue') : i <= flushed' => ~queue'[i].dirty
    BY <2>1, <2>2, <2>4, <2>6 DEF FlushInv
  <2> QED  BY <2>1, <2>2, <2>5, <2>7 DEF FlushInv
<1>11. CASE Return
  BY <1>5, <1>11 DEF Return, FlushInv
<1>12. CASE Restart
  BY <1>12 DEF Restart, FlushInv
<1>13. CASE UNCHANGED vars
  BY <1>1, <1>13 DEF vars
<1> QED
  BY <1>2, <1>6, <1>7, <1>8, <1>9, <1>10, <1>11, <1>12, <1>13
  DEF Next, ls, find, create, read_at, clear, write_at

\* A cache that leaves queue and disk alone shows the same.
LEMMA NothingSeen ==
  ASSUME UNCHANGED <<disk, queue>>, NEW d
  PROVE  View(d)' = View(d)
  BY ViewIsViewIn

\* A restart with nothing unwritten.
LEMMA RestartSeen ==
  ASSUME IndInv, FlushInv, OneDevice, NEW d \in Devices, Restart
  PROVE  View(d)' = View(d)
<1>1. queue' = << >> /\ disk' = disk /\ disk[d] = [b \in Blocks |-> disk[d][b]]
  BY DEF Restart, FlushInv
<1>2. View(d) = disk[d]
  BY <1>1, CleanSeen DEF Restart, IndInv, Shape
<1>3. ViewIn(<< >>, disk[d]) = disk[d]
  BY <1>1 DEF ViewIn
<1> QED  BY <1>1, <1>2, <1>3, ViewIsViewIn

\* For every size of the device and of the cache and every set of requests, the
\* cache cannot be told from the device: an eviction, a write-back and a
\* restart change nothing that an operation reads, and an access changes the
\* block it writes and no other, cached or not.
THEOREM CacheUnseen ==
  ASSUME OneDevice
  PROVE  Spec => CacheIsInvisible
<1> DEFINE A == \A d \in Devices :
                  View(d)' = IF Hit \/ Miss \/ Evict THEN Changed(View(d), Head(prog)) ELSE View(d)
<1>1. ASSUME IndInv, IndInv', FlushInv, [Next]_vars PROVE A
  <2> SUFFICES ASSUME NEW d \in Devices
               PROVE  View(d)' = IF Hit \/ Miss \/ Evict THEN Changed(View(d), Head(prog)) ELSE View(d)
    OBVIOUS
  <2>1. CASE Hit \/ Miss \/ Evict
    BY <1>1, <2>1, HitSeen, MissSeen, EvictSeen
  <2>2. CASE ~ (Hit \/ Miss \/ Evict)
    <3>1. ASSUME NEW kind, NEW e, NEW n, NEW accesses, Begin(kind, e, n, accesses)
          PROVE  View(d)' = View(d)
      BY <3>1, NothingSeen DEF Begin
    <3>2. Halt \/ Return \/ UNCHANGED vars => View(d)' = View(d)
      BY NothingSeen DEF Halt, Return, vars
    <3>3. SyncOne => View(d)' = View(d)
      BY <1>1, SyncSeen
    <3>4. Restart => View(d)' = View(d)
      BY <1>1, RestartSeen
    <3>5. View(d)' = View(d)
      BY <1>1, <2>2, <3>1, <3>2, <3>3, <3>4 DEF Next, ls, find, create, read_at, clear, write_at
    <3> QED  BY <2>2, <3>5
  <2> QED  BY <2>1, <2>2
<1>2. IndInv /\ FlushInv /\ [Next]_vars => IndInv' /\ FlushInv'
  BY NextIndInv, NextFlushInv
<1>3. IndInv /\ IndInv' /\ FlushInv /\ [Next]_vars => A
  BY <1>1
<1>4. IndInv /\ IndInv' /\ FlushInv /\ [Next]_vars => [A]_vars
  BY <1>3
<1> QED
  BY <1>2, <1>4, InitIndInv, InitFlushInv, PTL DEF Spec, CacheIsInvisible

\* For every size of the device and of the cache and every set of requests:
\* when write_at or clear returns, nothing is left unwritten, and the files on
\* the disk are the files every operation sees.
THEOREM ReturnedIsWritten ==
  ASSUME OneDevice
  PROVE  Spec => WritesAreDurable
<1> DEFINE A == Return /\ Syncs =>
                  \A d \in Devices : View(d) = disk[d] /\ safe'[d] = FilesOn(disk[d])
<1>1. ASSUME IndInv, FlushInv, Return, Syncs, NEW d \in Devices
      PROVE  View(d) = disk[d] /\ safe'[d] = FilesOn(disk[d])
  <2>1. flushed = Len(queue) /\ safe' = Files
    BY <1>1 DEF Return
  <2>2. disk[d] = [b \in Blocks |-> disk[d][b]] /\ \A i \in 1 .. Len(queue) : ~queue[i].dirty
    BY <1>1, <2>1 DEF FlushInv, IndInv, Shape
  <2>3. View(d) = disk[d]
    BY <1>1, <2>2, CleanSeen
  <2> QED  BY <2>1, <2>3 DEF Files
<1>2. IndInv /\ FlushInv /\ [Next]_vars => IndInv' /\ FlushInv'
  BY NextIndInv, NextFlushInv
<1>3. IndInv /\ FlushInv => [A]_vars
  BY <1>1
<1> QED
  BY <1>2, <1>3, InitIndInv, InitFlushInv, PTL DEF Spec, WritesAreDurable
=============================================================================
