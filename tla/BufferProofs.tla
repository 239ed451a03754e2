--------------------------- MODULE BufferProofs ---------------------------
(***************************************************************************)
(* Proofs about producer_consumer.rs (ProducerConsumer), for every size of *)
(* the buffer and every number of items.  They use the semaphores and the  *)
(* mutex only through what SyncProofs says of them: its invariants, and    *)
(* what a call does to the caller and to the thread it wakes.              *)
(***************************************************************************)
EXTENDS ProducerConsumer, SyncProofs

\* What main creates: as many permits in EMPTY as there are slots, none in FULL.
BufferSetup ==
  /\ Threads = {producer, consumer} /\ producer # consumer
  /\ Sems = {EMPTY, FULL} /\ EMPTY # FULL
  /\ initial[EMPTY] = BUF_SIZE /\ initial[FULL] = 0
  /\ MUTEX \in Mutexes
  /\ BUF_SIZE \in Nat \ {0} /\ N_ITEMS \in Nat /\ N_ITEMS <= MAX_UPS

\* The semaphore a thread takes from and gives to, and the rounds it has made.
Take(t) == IF t = producer THEN EMPTY ELSE FULL
Give(t) == IF t = producer THEN FULL ELSE EMPTY
Rounds(t) == IF t = producer THEN PRODUCED ELSE CONSUMED

\* The statements of a round.
Locations == {"down", "lock", "buffer", "index", "count", "unlock", "up"}

\* Where a thread can be that takes a permit of s.  One that sleeps in down is
\* at "lock", and one that sleeps in lock is at "buffer".
ClientTable(at, run, has, waits, s) ==
  \/ at \in {"down", "lock", "up"} /\ run = "Ready" /\ MUTEX \notin has
  \/ at = "lock" /\ run = "Blocked" /\ MUTEX \notin has /\ waits = {<<"sem", s>>}
  \/ at = "buffer" /\ run = "Blocked" /\ MUTEX \notin has /\ waits = {<<"mutex", MUTEX>>}
  \/ at \in {"buffer", "index", "count", "unlock"} /\ run = "Ready" /\ MUTEX \in has

\* Thread t is at one of these places.
ClientAt(t) == ClientTable(pc[t], state[t], holds[t], Waits(t), Take(t))

\* A permit is taken before the round is counted, and given back after.
Taken(at, run) ==
  IF (at = "lock" /\ run = "Ready") \/ at \in {"buffer", "index", "count"} THEN 1 ELSE 0
Owed(at) == IF at \in {"unlock", "up"} THEN 1 ELSE 0

\* The permits taken and given back are the rounds, up to the one in progress.
RoundsCounted(t) ==
  /\ downs[Take(t)] = Rounds(t) + Taken(pc[t], state[t])
  /\ ups[Give(t)] = Rounds(t) - Owed(pc[t])
  /\ Rounds(t) <= N_ITEMS
  /\ pc[t] \in {"lock", "buffer", "index", "count"} => Rounds(t) < N_ITEMS

\* Each thread is where the table says, with its permits counted.
ClientInv ==
  /\ Safe
  /\ pc \in [Threads -> Locations]
  /\ relock = [t \in Threads |-> NoMutex]
  /\ PRODUCED \in Nat /\ CONSUMED \in Nat
  /\ \A t \in Threads : ClientAt(t) /\ RoundsCounted(t)

\* The items written and not yet taken are in their slots.
DataInv ==
  /\ BUF \in [0 .. BUF_SIZE - 1 -> Nat]
  /\ TAIL = PRODUCED + (IF pc[producer] = "count" THEN 1 ELSE 0)
  /\ HEAD = CONSUMED + (IF pc[consumer] = "count" THEN 1 ELSE 0)
  /\ \A i \in Nat :
       HEAD <= i /\ i < TAIL + (IF pc[producer] = "index" THEN 1 ELSE 0)
         => BUF[i % BUF_SIZE] = i

\* The invariant of the program.
BufferInv == ClientInv /\ DataInv /\ main # "-1"

\* The semaphores of the two threads cross.
LEMMA Crossed ==
  ASSUME BufferSetup, NEW t \in Threads, NEW u \in Threads \ {t}
  PROVE  /\ Take(t) \in Sems /\ Give(t) \in Sems /\ Take(t) # Give(t)
         /\ Take(u) = Give(t) /\ Give(u) = Take(t)
         /\ \A w \in Threads \ {t} : w = u
  BY DEF BufferSetup, Take, Give

\* Items less than the size of the buffer apart have slots of their own.
LEMMA OwnSlot ==
  ASSUME NEW k \in Nat, k > 0, NEW a \in Nat, NEW b \in Nat, a < b, b - a < k
  PROVE  a % k # b % k
<1> SUFFICES ASSUME a % k = b % k PROVE FALSE
  OBVIOUS
<1> DEFINE p == a \div k
           q == b \div k
           r == a % k
<1>1. p \in Int /\ q \in Int /\ r \in Int
  OBVIOUS
<1>2. a = k * p + r
  OBVIOUS
<1>3. b = k * q + r
  OBVIOUS
<1> HIDE DEF p, q, r
<1>4. b - a = k * (q - p)
  BY <1>1, <1>2, <1>3
<1>5. q - p >= 1 => k * (q - p) >= k
  BY <1>1
<1>6. q - p <= 0 => k * (q - p) <= 0
  BY <1>1
<1> QED  BY <1>1, <1>4, <1>5, <1>6

\* What a thread takes and gives is the same after a step.
LEMMA ClientAfter ==
  \A t : ClientAt(t)' <=> ClientTable(pc'[t], state'[t], holds'[t], Waits(t)', Take(t))
  BY DEF ClientAt, ClientTable, Take

\* A step that finishes no round leaves the number of rounds.
LEMMA RoundsAfter ==
  ASSUME UNCHANGED <<PRODUCED, CONSUMED>>, NEW t
  PROVE  RoundsCounted(t)' <=>
           /\ downs'[Take(t)] = Rounds(t) + Taken(pc'[t], state'[t])
           /\ ups'[Give(t)] = Rounds(t) - Owed(pc'[t])
           /\ Rounds(t) <= N_ITEMS
           /\ pc'[t] \in {"lock", "buffer", "index", "count"} => Rounds(t) < N_ITEMS
  BY DEF RoundsCounted, Taken, Owed, Rounds, Take, Give

\* Types of what is counted.
LEMMA Counted ==
  ASSUME BufferSetup, ClientInv, NEW t \in Threads
  PROVE  /\ downs \in [Sems -> Nat] /\ ups \in [Sems -> Nat]
         /\ Take(t) \in Sems /\ Give(t) \in Sems
         /\ Rounds(t) \in Nat /\ pc[t] \in Locations
  BY DEF BufferSetup, ClientInv, Safe, IndInv, TypeOK, Rounds, Take, Give

\* A thread a call leaves alone stays where it is in the table.
LEMMA ClientKept ==
  ASSUME NEW u, Keeps(u), pc'[u] = pc[u], ClientAt(u)
  PROVE  ClientAt(u)'
  BY ClientAfter DEF ClientAt, Keeps

\* sem_down(take).
LEMMA ClientDown ==
  ASSUME BufferSetup, ClientInv, NEW t \in Threads, pc[t] = "down", Rounds(t) < N_ITEMS,
         pc' = [pc EXCEPT ![t] = "lock"], sys_semaphore_down(t, Take(t)),
         UNCHANGED <<PRODUCED, CONSUMED>>
  PROVE  ClientInv'
<1> DEFINE x == Take(t)
<1>0. x \in Sems /\ sys_semaphore_down(t, x) /\ Safe
  BY Counted DEF ClientInv
<1> HIDE DEF x
<1>1. Safe'
  BY <1>0, SafeStep DEF Next
<1>2. relock' = relock
  BY DEF sys_semaphore_down, cvVars
<1>3. /\ \A u \in Threads \ {t} : Keeps(u)
      /\ holds'[t] = holds[t] /\ ups' = ups
      /\ \/ state'[t] = "Ready" /\ Waits(t)' = {} /\ downs' = [downs EXCEPT ![x] = @ + 1]
         \/ state'[t] = "Blocked" /\ Waits(t)' = {<<"sem", x>>} /\ downs' = downs
  BY <1>0, DownCall
<1>4. pc'[t] = "lock" /\ pc' \in [Threads -> Locations] /\ \A u \in Threads \ {t} : pc'[u] = pc[u]
  BY DEF ClientInv, Locations
<1>5. ClientAt(t)'
  <2>1. MUTEX \notin holds[t]
    BY DEF ClientInv, ClientAt, ClientTable
  <2> QED  BY <1>3, <1>4, <2>1, ClientAfter DEF ClientTable, x
<1>6. RoundsCounted(t)'
  <2>1. /\ downs[x] = Rounds(t) /\ ups[Give(t)] = Rounds(t)
    BY Counted DEF ClientInv, RoundsCounted, Taken, Owed, x
  <2>2. downs'[x] = Rounds(t) + Taken(pc'[t], state'[t])
    BY <1>0, <1>3, <1>4, <2>1, Counted DEF Taken
  <2>3. ups'[Give(t)] = Rounds(t) - Owed(pc'[t])
    BY <1>3, <1>4, <2>1, Counted DEF Owed
  <2>4. downs'[Take(t)] = Rounds(t) + Taken(pc'[t], state'[t])
    BY <2>2 DEF x
  <2>5. Rounds(t) <= N_ITEMS
    BY Counted DEF BufferSetup
  <2> QED  BY <2>3, <2>4, <2>5, RoundsAfter
<1>7. ASSUME NEW u \in Threads \ {t} PROVE ClientAt(u)' /\ RoundsCounted(u)'
  <2>1. Keeps(u) /\ pc'[u] = pc[u] /\ ClientAt(u) /\ RoundsCounted(u)
    BY <1>3, <1>4 DEF ClientInv
  <2>2. downs'[Take(u)] = downs[Take(u)]
    BY <1>3, Crossed, Counted DEF x
  <2>3. RoundsCounted(u)'
    BY <1>3, <2>1, <2>2, RoundsAfter DEF RoundsCounted, Keeps
  <2> QED  BY <2>1, <2>3, ClientKept
<1> QED  BY <1>1, <1>2, <1>4, <1>5, <1>6, <1>7 DEF ClientInv

\* mutex_lock.
LEMMA ClientLock ==
  ASSUME BufferSetup, ClientInv, NEW t \in Threads, pc[t] = "lock",
         pc' = [pc EXCEPT ![t] = "buffer"], sys_mutex_lock(t, MUTEX),
         UNCHANGED <<PRODUCED, CONSUMED>>
  PROVE  ClientInv'
<1>0. MUTEX \in Mutexes /\ Safe /\ state[t] = "Ready"
  BY DEF ClientInv, BufferSetup, sys_mutex_lock, CanCall
<1>1. Safe'
  BY <1>0, SafeStep DEF Next
<1>2. relock' = relock /\ downs' = downs /\ ups' = ups
  BY DEF sys_mutex_lock, cvVars, semVars
<1>3. /\ \A u \in Threads \ {t} : Keeps(u)
      /\ \/ state'[t] = "Ready" /\ holds'[t] = holds[t] \cup {MUTEX}
         \/ state'[t] = "Blocked" /\ Waits(t)' = {<<"mutex", MUTEX>>} /\ holds'[t] = holds[t]
  BY <1>0, LockCall
<1>4. pc'[t] = "buffer" /\ pc' \in [Threads -> Locations] /\ \A u \in Threads \ {t} : pc'[u] = pc[u]
  BY DEF ClientInv, Locations
<1>5. ClientAt(t)'
  <2>1. MUTEX \notin holds[t]
    BY DEF sys_mutex_lock
  <2> QED  BY <1>3, <1>4, <2>1, ClientAfter DEF ClientTable
<1>6. RoundsCounted(t)'
  <2>1. RoundsCounted(t)
    BY DEF ClientInv
  <2> QED  BY <1>0, <1>2, <1>4, <2>1, RoundsAfter DEF RoundsCounted, Taken, Owed
<1>7. ASSUME NEW u \in Threads \ {t} PROVE ClientAt(u)' /\ RoundsCounted(u)'
  <2>1. Keeps(u) /\ pc'[u] = pc[u] /\ ClientAt(u) /\ RoundsCounted(u)
    BY <1>3, <1>4 DEF ClientInv
  <2>2. RoundsCounted(u)'
    BY <1>2, <2>1, RoundsAfter DEF RoundsCounted, Keeps
  <2> QED  BY <2>1, <2>2, ClientKept
<1> QED  BY <1>1, <1>2, <1>4, <1>5, <1>6, <1>7 DEF ClientInv

\* mutex_unlock: the other thread, if it slept for the mutex, has it.
LEMMA ClientUnlock ==
  ASSUME BufferSetup, ClientInv, NEW t \in Threads, pc[t] = "unlock",
         pc' = [pc EXCEPT ![t] = "up"], sys_mutex_unlock(t, MUTEX),
         UNCHANGED <<PRODUCED, CONSUMED>>
  PROVE  ClientInv'
<1>0. MUTEX \in Mutexes /\ Safe
  BY DEF ClientInv, BufferSetup
<1>1. Safe'
  BY <1>0, SafeStep DEF Next
<1>2. relock' = relock /\ downs' = downs /\ ups' = ups
  BY DEF sys_mutex_unlock, cvVars, semVars
<1>3. /\ state'[t] = "Ready" /\ holds'[t] = holds[t] \ {MUTEX}
      /\ \/ \A u \in Threads \ {t} : Keeps(u)
         \/ \E w \in Threads \ {t} :
              /\ state[w] = "Blocked" /\ Waits(w) = {<<"mutex", MUTEX>>}
              /\ state'[w] = "Ready" /\ holds'[w] = holds[w] \cup {MUTEX}
              /\ \A u \in Threads \ {t, w} : Keeps(u)
  BY <1>0, UnlockCall
<1>4. pc'[t] = "up" /\ pc' \in [Threads -> Locations] /\ \A u \in Threads \ {t} : pc'[u] = pc[u]
  BY DEF ClientInv, Locations
<1>5. ClientAt(t)'
  BY <1>3, <1>4, ClientAfter DEF ClientTable
<1>6. RoundsCounted(t)'
  <2>1. RoundsCounted(t)
    BY DEF ClientInv
  <2> QED  BY <1>2, <1>4, <2>1, RoundsAfter DEF RoundsCounted, Taken, Owed
<1>7. ASSUME NEW u \in Threads \ {t} PROVE ClientAt(u)' /\ RoundsCounted(u)'
  <2>0. pc'[u] = pc[u] /\ ClientAt(u) /\ RoundsCounted(u)
    BY <1>4 DEF ClientInv
  <2>1. CASE Keeps(u)
    <3>1. RoundsCounted(u)'
      BY <1>2, <2>0, <2>1, RoundsAfter DEF RoundsCounted, Keeps
    <3> QED  BY <2>0, <2>1, <3>1, ClientKept
  <2>2. CASE ~ Keeps(u)
    <3>1. /\ state[u] = "Blocked" /\ Waits(u) = {<<"mutex", MUTEX>>}
          /\ state'[u] = "Ready" /\ holds'[u] = holds[u] \cup {MUTEX}
      BY <1>3, <2>2, Crossed
    <3>2. pc[u] = "buffer"
      <4>1. {<<"mutex", MUTEX>>} # {<<"sem", Take(u)>>}
        <5>1. <<"mutex", MUTEX>> # <<"sem", Take(u)>>
          OBVIOUS
        <5> QED  BY <5>1
      <4> QED  BY <2>0, <3>1, <4>1 DEF ClientAt, ClientTable
    <3>3. ClientAt(u)'
      BY <2>0, <3>1, <3>2, ClientAfter DEF ClientTable
    <3>4. RoundsCounted(u)'
      BY <1>2, <2>0, <3>2, RoundsAfter DEF RoundsCounted, Taken, Owed
    <3> QED  BY <3>3, <3>4
  <2> QED  BY <2>1, <2>2
<1> QED  BY <1>1, <1>2, <1>4, <1>5, <1>6, <1>7 DEF ClientInv

\* sem_up(give): the other thread, if it slept for the permit, has it.
LEMMA ClientUp ==
  ASSUME BufferSetup, ClientInv, NEW t \in Threads, pc[t] = "up",
         pc' = [pc EXCEPT ![t] = "down"], sys_semaphore_up(t, Give(t)),
         UNCHANGED <<PRODUCED, CONSUMED>>
  PROVE  ClientInv'
<1> DEFINE x == Give(t)
<1>0. x \in Sems /\ sys_semaphore_up(t, x) /\ Safe
  BY Counted DEF ClientInv
<1> HIDE DEF x
<1>1. Safe'
  BY <1>0, SafeStep DEF Next
<1>2. relock' = relock
  BY DEF sys_semaphore_up, cvVars
<1>3. /\ holds' = holds /\ ups' = [ups EXCEPT ![x] = @ + 1]
      /\ state'[t] = "Ready"
      /\ \/ (\A u \in Threads \ {t} : Keeps(u)) /\ downs' = downs
         \/ /\ downs' = [downs EXCEPT ![x] = @ + 1]
            /\ \E w \in Threads \ {t} :
                 /\ state[w] = "Blocked" /\ Waits(w) = {<<"sem", x>>}
                 /\ state'[w] = "Ready"
                 /\ \A u \in Threads \ {t, w} : Keeps(u)
  BY <1>0, UpCall
<1>4. pc'[t] = "down" /\ pc' \in [Threads -> Locations] /\ \A u \in Threads \ {t} : pc'[u] = pc[u]
  BY DEF ClientInv, Locations
<1>5. ClientAt(t)'
  <2>1. MUTEX \notin holds[t]
    BY DEF ClientInv, ClientAt, ClientTable
  <2> QED  BY <1>3, <1>4, <2>1, ClientAfter DEF ClientTable
<1>6. PICK u \in Threads : u # t
  BY DEF BufferSetup
<1>7. /\ Take(t) \in Sems /\ Take(t) # x /\ Take(u) = x /\ Give(u) = Take(t)
      /\ \A w \in Threads \ {t} : w = u
  BY <1>6, Crossed DEF x
<1>8. RoundsCounted(t)'
  <2>1. RoundsCounted(t)
    BY DEF ClientInv
  <2>2. downs'[Take(t)] = downs[Take(t)] /\ ups'[x] = ups[x] + 1
    BY <1>0, <1>3, <1>7, Counted
  <2>3. downs[Take(t)] = Rounds(t) /\ ups[x] = Rounds(t) - 1 /\ Rounds(t) \in Nat
    BY <2>1, Counted DEF RoundsCounted, Taken, Owed, x
  <2>4. Taken(pc'[t], state'[t]) = 0 /\ Owed(pc'[t]) = 0
    BY <1>4 DEF Taken, Owed
  <2> QED  BY <1>4, <2>1, <2>2, <2>3, <2>4, RoundsAfter DEF RoundsCounted, x
<1>9. ClientAt(u)' /\ RoundsCounted(u)'
  <2>0. pc'[u] = pc[u] /\ ClientAt(u) /\ RoundsCounted(u) /\ ups'[Give(u)] = ups[Give(u)]
    BY <1>3, <1>4, <1>6, <1>7, Counted DEF ClientInv
  <2>1. CASE Keeps(u) /\ downs' = downs
    <3>1. RoundsCounted(u)'
      BY <2>0, <2>1, RoundsAfter DEF RoundsCounted, Keeps
    <3> QED  BY <2>0, <2>1, <3>1, ClientKept
  <2>2. CASE ~ (Keeps(u) /\ downs' = downs)
    <3>1. /\ state[u] = "Blocked" /\ Waits(u) = {<<"sem", x>>}
          /\ state'[u] = "Ready" /\ holds'[u] = holds[u] /\ downs'[x] = downs[x] + 1
      BY <1>0, <1>3, <1>6, <1>7, <2>2, Counted
    <3>2. pc[u] = "lock"
      <4>1. {<<"mutex", MUTEX>>} # {<<"sem", x>>}
        <5>1. <<"mutex", MUTEX>> # <<"sem", x>>
          OBVIOUS
        <5> QED  BY <5>1
      <4> QED  BY <2>0, <3>1, <4>1 DEF ClientAt, ClientTable
    <3>3. ClientAt(u)'
      BY <2>0, <3>1, <3>2, ClientAfter DEF ClientAt, ClientTable
    <3>4. downs[x] = Rounds(u) /\ Rounds(u) \in Nat
      BY <1>6, <1>7, <2>0, <3>1, <3>2, Counted DEF RoundsCounted, Taken
    <3>5. Taken(pc'[u], state'[u]) = 1
      BY <2>0, <3>1, <3>2 DEF Taken
    <3>6. RoundsCounted(u)'
      BY <1>7, <2>0, <3>1, <3>4, <3>5, RoundsAfter DEF RoundsCounted
    <3> QED  BY <3>3, <3>6
  <2> QED  BY <2>1, <2>2
<1> QED  BY <1>1, <1>2, <1>4, <1>5, <1>6, <1>7, <1>8, <1>9 DEF ClientInv

\* A step of the program that makes no call and does not finish a round.
LEMMA ClientMoves ==
  ASSUME BufferSetup, ClientInv, NEW t \in Threads,
         \/ pc[t] = "buffer" /\ CanCall(t) /\ pc' = [pc EXCEPT ![t] = "index"]
         \/ pc[t] = "index" /\ pc' = [pc EXCEPT ![t] = "count"],
         UNCHANGED <<vars, PRODUCED, CONSUMED>>
  PROVE  ClientInv'
<1>1. /\ Safe' /\ relock' = relock /\ state' = state /\ holds' = holds
      /\ downs' = downs /\ ups' = ups
  BY SafeStep DEF ClientInv, vars
<1>2. \A u : Waits(u)' = Waits(u)
  BY SameQueues DEF vars
<1>3. /\ pc' \in [Threads -> Locations] /\ \A u \in Threads \ {t} : pc'[u] = pc[u]
      /\ pc'[t] \in {"index", "count"}
  BY DEF ClientInv, Locations
<1>4. ClientAt(t) /\ RoundsCounted(t) /\ state[t] = "Ready"
  BY DEF ClientInv, ClientAt, ClientTable, CanCall
<1>5. ClientAt(t)'
  BY <1>1, <1>3, <1>4, ClientAfter DEF ClientAt, ClientTable
<1>6. RoundsCounted(t)'
  BY <1>1, <1>3, <1>4, RoundsAfter DEF RoundsCounted, Taken, Owed
<1>7. ASSUME NEW u \in Threads \ {t} PROVE ClientAt(u)' /\ RoundsCounted(u)'
  <2>1. Keeps(u) /\ pc'[u] = pc[u] /\ ClientAt(u) /\ RoundsCounted(u)
    BY <1>1, <1>2, <1>3 DEF ClientInv, Keeps
  <2>2. RoundsCounted(u)'
    BY <1>1, <2>1, RoundsAfter DEF RoundsCounted
  <2> QED  BY <2>1, <2>2, ClientKept
<1> QED  BY <1>1, <1>3, <1>5, <1>6, <1>7 DEF ClientInv

\* The count at the end of a round.
LEMMA ClientCounts ==
  ASSUME BufferSetup, ClientInv, NEW t \in Threads,
         pc[t] = "count", pc' = [pc EXCEPT ![t] = "unlock"], UNCHANGED vars,
         PRODUCED' = IF t = producer THEN PRODUCED + 1 ELSE PRODUCED,
         CONSUMED' = IF t = producer THEN CONSUMED ELSE CONSUMED + 1
  PROVE  ClientInv'
<1>1. /\ Safe' /\ relock' = relock /\ state' = state /\ holds' = holds
      /\ downs' = downs /\ ups' = ups
  BY SafeStep DEF ClientInv, vars
<1>2. \A u : Waits(u)' = Waits(u)
  BY SameQueues DEF vars
<1>3. /\ pc' \in [Threads -> Locations] /\ \A u \in Threads \ {t} : pc'[u] = pc[u]
      /\ pc'[t] = "unlock"
  BY DEF ClientInv, Locations
<1>4. ClientAt(t) /\ RoundsCounted(t)
  BY DEF ClientInv
<1>5. ClientAt(t)'
  BY <1>1, <1>3, <1>4, ClientAfter DEF ClientAt, ClientTable
<1>6. Rounds(t)' = Rounds(t) + 1 /\ \A u \in Threads \ {t} : Rounds(u)' = Rounds(u)
  BY DEF Rounds, BufferSetup
<1>7. RoundsCounted(t)'
  <2>1. /\ downs[Take(t)] = Rounds(t) + 1 /\ ups[Give(t)] = Rounds(t) /\ Rounds(t) < N_ITEMS
        /\ Rounds(t) \in Nat /\ N_ITEMS \in Nat
    BY <1>4, Counted DEF RoundsCounted, Taken, Owed, BufferSetup
  <2>2. downs[Take(t)] = Rounds(t)' + 0 /\ ups[Give(t)] = Rounds(t)' - 1 /\ Rounds(t)' <= N_ITEMS
    BY <1>6, <2>1
  <2> QED  BY <1>1, <1>3, <2>2 DEF RoundsCounted, Taken, Owed, Take, Give
<1>8. ASSUME NEW u \in Threads \ {t} PROVE ClientAt(u)' /\ RoundsCounted(u)'
  <2>1. Keeps(u) /\ pc'[u] = pc[u] /\ ClientAt(u) /\ RoundsCounted(u) /\ Rounds(u)' = Rounds(u)
    BY <1>1, <1>2, <1>3, <1>6 DEF ClientInv, Keeps
  <2>2. RoundsCounted(u)'
    BY <1>1, <2>1 DEF RoundsCounted, Take, Give, Taken, Owed
  <2> QED  BY <2>1, <2>2, ClientKept
<1>9. PRODUCED' \in Nat /\ CONSUMED' \in Nat
  BY DEF ClientInv
<1> QED  BY <1>1, <1>3, <1>5, <1>7, <1>8, <1>9 DEF ClientInv

\* The permits bound how far the two can be apart.
LEMMA PermitBounds ==
  ASSUME BufferSetup, ClientInv
  PROVE  /\ PRODUCED + Taken(pc[producer], state[producer]) <= BUF_SIZE + CONSUMED - Owed(pc[consumer])
         /\ CONSUMED + Taken(pc[consumer], state[consumer]) <= PRODUCED - Owed(pc[producer])
<1>1. PermitsAreExact
  BY PermitsFromCount DEF ClientInv, Safe
<1>2. downs[EMPTY] <= BUF_SIZE + ups[EMPTY] /\ downs[FULL] <= 0 + ups[FULL]
  BY <1>1 DEF PermitsAreExact, BufferSetup
<1>3. RoundsCounted(producer) /\ RoundsCounted(consumer) /\ producer # consumer
  BY DEF ClientInv, BufferSetup
<1>4. /\ downs[EMPTY] = PRODUCED + Taken(pc[producer], state[producer])
      /\ ups[FULL] = PRODUCED - Owed(pc[producer])
      /\ downs[FULL] = CONSUMED + Taken(pc[consumer], state[consumer])
      /\ ups[EMPTY] = CONSUMED - Owed(pc[consumer])
  BY <1>3 DEF RoundsCounted, Take, Give, Rounds
<1>5. /\ Taken(pc[producer], state[producer]) \in Nat /\ Taken(pc[consumer], state[consumer]) \in Nat
      /\ Owed(pc[producer]) \in Nat /\ Owed(pc[consumer]) \in Nat
  BY DEF Taken, Owed
<1> QED  BY <1>2, <1>4, <1>5, SMTT(30) DEF ClientInv, BufferSetup

\* A call leaves the buffer alone, and is not made between the write of a slot
\* and the count.
LEMMA DataKept ==
  ASSUME BufferSetup, ClientInv, DataInv, NEW t \in Threads, NEW to,
         pc[t] \notin {"index", "count"}, to \notin {"index", "count"},
         pc' = [pc EXCEPT ![t] = to], UNCHANGED <<BUF, HEAD, TAIL, PRODUCED, CONSUMED>>
  PROVE  DataInv'
<1>1. \A u \in Threads : /\ pc'[u] = "count" <=> pc[u] = "count"
                         /\ pc'[u] = "index" <=> pc[u] = "index"
  BY DEF ClientInv
<1>2. producer \in Threads /\ consumer \in Threads
  BY DEF BufferSetup
<1> QED  BY <1>1, <1>2 DEF DataInv

\* The calls of either thread.
LEMMA ClientCalls ==
  ASSUME BufferSetup, BufferInv, NEW t \in Threads,
         Calls(t, Take(t), Give(t), Rounds(t)),
         UNCHANGED <<BUF, HEAD, TAIL, PRODUCED, CONSUMED, main>>
  PROVE  BufferInv'
<1> USE DEF BufferInv
<1>1. CASE Goto(t, "down", "lock") /\ Rounds(t) < N_ITEMS /\ sys_semaphore_down(t, Take(t))
  BY <1>1, ClientDown, DataKept DEF Goto
<1>2. CASE Goto(t, "lock", "buffer") /\ sys_mutex_lock(t, MUTEX)
  BY <1>2, ClientLock, DataKept DEF Goto
<1>3. CASE Goto(t, "unlock", "up") /\ sys_mutex_unlock(t, MUTEX)
  BY <1>3, ClientUnlock, DataKept DEF Goto
<1>4. CASE Goto(t, "up", "down") /\ sys_semaphore_up(t, Give(t))
  BY <1>4, ClientUp, DataKept DEF Goto
<1> QED  BY <1>1, <1>2, <1>3, <1>4 DEF Calls

\* The producer writes slot TAIL, which holds no item that is still to be read.
LEMMA ProducerWrites ==
  ASSUME BufferSetup, BufferInv, pc[producer] = "buffer", CanCall(producer),
         pc' = [pc EXCEPT ![producer] = "index"],
         BUF' = [BUF EXCEPT ![TAIL % BUF_SIZE] = PRODUCED],
         UNCHANGED <<vars, HEAD, TAIL, PRODUCED, CONSUMED, main>>
  PROVE  BufferInv'
<1>1. ClientInv'
  BY ClientMoves DEF BufferInv, BufferSetup
<1>2. /\ producer \in Threads /\ consumer \in Threads /\ producer # consumer
      /\ BUF_SIZE \in Nat /\ BUF_SIZE > 0 /\ pc \in [Threads -> Locations]
      /\ PRODUCED \in Nat /\ CONSUMED \in Nat
  BY DEF BufferSetup, BufferInv, ClientInv
<1>3. /\ TAIL = PRODUCED /\ HEAD \in Nat /\ HEAD >= CONSUMED
      /\ BUF \in [0 .. BUF_SIZE - 1 -> Nat]
  BY <1>2 DEF BufferInv, DataInv
<1>4. TAIL < HEAD + BUF_SIZE
  <2>1. Taken(pc[producer], state[producer]) = 1 /\ Owed(pc[consumer]) \in Nat
    BY DEF Taken, Owed
  <2>2. PRODUCED + 1 <= BUF_SIZE + CONSUMED - Owed(pc[consumer])
    BY <2>1, PermitBounds DEF BufferInv
  <2> QED  BY <1>2, <1>3, <2>1, <2>2
<1>5. /\ pc'[producer] = "index" /\ pc'[consumer] = pc[consumer]
  BY <1>2
<1>6. TAIL % BUF_SIZE \in 0 .. BUF_SIZE - 1
  BY <1>2, <1>3
<1>7. ASSUME NEW i \in Nat, HEAD <= i, i < TAIL + 1
      PROVE  BUF'[i % BUF_SIZE] = i
  <2>1. CASE i = TAIL
    BY <1>3, <1>6, <2>1
  <2>2. CASE i < TAIL
    <3>1. i % BUF_SIZE # TAIL % BUF_SIZE
      <4>1. TAIL \in Nat /\ TAIL - i < BUF_SIZE
        BY <1>2, <1>3, <1>4, <1>7
      <4> QED  BY <1>2, <2>2, <4>1, OwnSlot
    <3>2. i % BUF_SIZE \in 0 .. BUF_SIZE - 1
      BY <1>2
    <3>3. BUF'[i % BUF_SIZE] = BUF[i % BUF_SIZE]
      BY <1>3, <3>1, <3>2
    <3>4. BUF[i % BUF_SIZE] = i
      BY <1>7, <2>2 DEF BufferInv, DataInv
    <3> QED  BY <3>3, <3>4
  <2> QED  BY <1>3, <1>2, <1>7, <2>1, <2>2
<1>8. BUF' \in [0 .. BUF_SIZE - 1 -> Nat]
  BY <1>2, <1>3
<1>9. DataInv'
  BY <1>3, <1>5, <1>7, <1>8 DEF BufferInv, DataInv
<1> QED  BY <1>1, <1>9 DEF BufferInv

\* The producer's other steps in the critical section, and the consumer's.
LEMMA IndicesMove ==
  ASSUME BufferSetup, BufferInv, UNCHANGED <<vars, BUF, main>>,
         \/ /\ pc[producer] = "index" /\ pc' = [pc EXCEPT ![producer] = "count"]
            /\ TAIL' = TAIL + 1 /\ UNCHANGED <<HEAD, PRODUCED, CONSUMED>>
         \/ /\ pc[producer] = "count" /\ pc' = [pc EXCEPT ![producer] = "unlock"]
            /\ PRODUCED' = PRODUCED + 1 /\ UNCHANGED <<HEAD, TAIL, CONSUMED>>
         \/ /\ pc[consumer] = "buffer" /\ pc' = [pc EXCEPT ![consumer] = "index"]
            /\ CanCall(consumer) /\ UNCHANGED <<HEAD, TAIL, PRODUCED, CONSUMED>>
         \/ /\ pc[consumer] = "index" /\ pc' = [pc EXCEPT ![consumer] = "count"]
            /\ HEAD' = HEAD + 1 /\ UNCHANGED <<TAIL, PRODUCED, CONSUMED>>
         \/ /\ pc[consumer] = "count" /\ pc' = [pc EXCEPT ![consumer] = "unlock"]
            /\ CONSUMED' = CONSUMED + 1 /\ UNCHANGED <<HEAD, TAIL, PRODUCED>>
  PROVE  BufferInv'
<1>1. /\ producer \in Threads /\ consumer \in Threads /\ producer # consumer
      /\ pc \in [Threads -> Locations] /\ PRODUCED \in Nat /\ CONSUMED \in Nat
  BY DEF BufferSetup, BufferInv, ClientInv
<1>2. ClientInv'
  BY <1>1, ClientMoves, ClientCounts DEF BufferInv
<1>3. DataInv'
  BY <1>1 DEF BufferInv, DataInv
<1> QED  BY <1>2, <1>3 DEF BufferInv

\* Nothing of this depends on main.
LEMMA BufferStutter ==
  ASSUME BufferSetup, BufferInv, UNCHANGED <<vars, pc, BUF, HEAD, TAIL, PRODUCED, CONSUMED>>
  PROVE  ClientInv' /\ DataInv'
<1>1. /\ Safe' /\ relock' = relock /\ state' = state /\ holds' = holds
      /\ downs' = downs /\ ups' = ups
  BY SafeStep DEF BufferInv, ClientInv, vars
<1>2. \A u : Waits(u)' = Waits(u)
  BY SameQueues DEF vars
<1>3. ASSUME NEW u \in Threads PROVE ClientAt(u)' /\ RoundsCounted(u)'
  <2>1. Keeps(u) /\ pc'[u] = pc[u] /\ ClientAt(u) /\ RoundsCounted(u)
    BY <1>1, <1>2 DEF BufferInv, ClientInv, Keeps
  <2>2. RoundsCounted(u)'
    BY <1>1, <2>1, RoundsAfter DEF RoundsCounted
  <2> QED  BY <2>1, <2>2, ClientKept
<1>4. ClientInv'
  BY <1>1, <1>3 DEF BufferInv, ClientInv
<1> QED  BY <1>4 DEF BufferInv, DataInv

\* main tests both counters when the consumer has finished.
LEMMA BufferMain ==
  ASSUME BufferSetup, BufferInv, MainReturns
  PROVE  BufferInv'
<1>1. UNCHANGED <<vars, pc, BUF, HEAD, TAIL, PRODUCED, CONSUMED>>
  BY DEF MainReturns, bufVars, vars
<1>2. PRODUCED = N_ITEMS /\ CONSUMED = N_ITEMS
  <2>1. CONSUMED <= PRODUCED
    <3>1. Taken(pc[consumer], state[consumer]) \in Nat /\ Owed(pc[producer]) \in Nat
      BY DEF Taken, Owed
    <3> QED  BY <3>1, PermitBounds DEF BufferInv, ClientInv
  <2>2. PRODUCED <= N_ITEMS
    BY DEF BufferInv, ClientInv, RoundsCounted, Rounds, BufferSetup
  <2> QED  BY <2>1, <2>2 DEF MainReturns, BufferInv, ClientInv, BufferSetup
<1>3. main' = "0"
  BY <1>2 DEF MainReturns
<1>4. ClientInv' /\ DataInv'
  BY <1>1, BufferStutter
<1> QED  BY <1>3, <1>4 DEF BufferInv

\* The program after any number of steps.
LEMMA BufferInvariance ==
  ASSUME BufferSetup
  PROVE  PCSpec => []BufferInv
<1>0. /\ producer \in Threads /\ consumer \in Threads /\ producer # consumer
      /\ Take(producer) = EMPTY /\ Give(producer) = FULL /\ Rounds(producer) = PRODUCED
      /\ Take(consumer) = FULL /\ Give(consumer) = EMPTY /\ Rounds(consumer) = CONSUMED
  BY DEF BufferSetup, Take, Give, Rounds
<1>1. PCInit => BufferInv
  <2> SUFFICES ASSUME PCInit PROVE BufferInv
    OBVIOUS
  <2>1. /\ Init /\ pc = [t \in Threads |-> "down"]
        /\ HEAD = 0 /\ TAIL = 0 /\ PRODUCED = 0 /\ CONSUMED = 0 /\ main = "waits"
        /\ BUF = [i \in 0 .. BUF_SIZE - 1 |-> 0]
    BY DEF PCInit
  <2>2. Safe
    BY <2>1, SafeInit
  <2>3. \A t \in Threads : ClientAt(t)
    BY <2>1 DEF ClientAt, ClientTable, Init
  <2>4. ASSUME NEW t \in Threads PROVE RoundsCounted(t)
    <3>1. Take(t) \in Sems /\ Give(t) \in Sems /\ Rounds(t) = 0
      BY <2>1 DEF Take, Give, Rounds, BufferSetup
    <3>2. downs[Take(t)] = 0 /\ ups[Give(t)] = 0 /\ pc[t] = "down"
      BY <2>1, <3>1 DEF Init
    <3>3. Taken(pc[t], state[t]) = 0 /\ Owed(pc[t]) = 0
      BY <3>2 DEF Taken, Owed
    <3> QED  BY <3>1, <3>2, <3>3 DEF RoundsCounted, BufferSetup
  <2>5. ClientInv
    BY <2>1, <2>2, <2>3, <2>4 DEF ClientInv, Init, Locations
  <2>6. DataInv
    BY <1>0, <2>1 DEF DataInv, BufferSetup
  <2> QED  BY <2>1, <2>5, <2>6 DEF BufferInv
<1>2. BufferInv /\ [PCNext]_(pcVars) => BufferInv'
  <2> SUFFICES ASSUME BufferInv, [PCNext]_(pcVars) PROVE BufferInv'
    OBVIOUS
  <2>1. CASE Produce
    <3>1. CASE /\ Calls(producer, EMPTY, FULL, PRODUCED)
               /\ UNCHANGED <<BUF, HEAD, TAIL, PRODUCED, CONSUMED, main>>
      BY <1>0, <3>1, ClientCalls
    <3> QED
      BY <2>1, <3>1, ProducerWrites, IndicesMove
         DEF Produce, Goto, bufVars, vars
  <2>2. CASE Consume
    <3>1. CASE /\ Calls(consumer, FULL, EMPTY, CONSUMED)
               /\ UNCHANGED <<BUF, HEAD, TAIL, PRODUCED, CONSUMED, main>>
      BY <1>0, <3>1, ClientCalls
    <3> QED
      BY <2>2, <3>1, IndicesMove
         DEF Consume, Goto, bufVars, vars
  <2>3. CASE MainReturns
    BY <2>3, BufferMain
  <2>4. CASE UNCHANGED pcVars
    <3>1. UNCHANGED <<vars, pc, BUF, HEAD, TAIL, PRODUCED, CONSUMED, main>>
      BY <2>4 DEF pcVars, bufVars, vars
    <3> QED  BY <3>1, BufferStutter DEF BufferInv
  <2> QED  BY <2>1, <2>2, <2>3, <2>4 DEF PCNext
<1> QED  BY <1>1, <1>2, PTL DEF PCSpec

\* producer_consumer.rs, for any size of the buffer and any number of items:
\* the consumer finds item HEAD in slot HEAD, written and not overwritten.
THEOREM EveryItemInOrder ==
  ASSUME BufferSetup
  PROVE  PCSpec => []ItemsArriveInOrder
<1>1. BufferInv => ItemsArriveInOrder
  <2> SUFFICES ASSUME BufferInv, pc[consumer] = "buffer"
               PROVE  BUF[HEAD % BUF_SIZE] = HEAD /\ HEAD < TAIL
    BY DEF ItemsArriveInOrder
  <2>1. Taken(pc[consumer], state[consumer]) = 1 /\ Owed(pc[producer]) \in Nat
    BY DEF Taken, Owed
  <2>2. CONSUMED + 1 <= PRODUCED - Owed(pc[producer])
    BY <2>1, PermitBounds DEF BufferInv
  <2>3. HEAD = CONSUMED /\ TAIL >= PRODUCED /\ PRODUCED \in Nat /\ CONSUMED \in Nat /\ TAIL \in Nat
    BY DEF BufferInv, ClientInv, DataInv
  <2>4. HEAD < TAIL /\ HEAD \in Nat
    BY <2>1, <2>2, <2>3
  <2> QED  BY <2>3, <2>4 DEF BufferInv, DataInv
<1> QED  BY <1>1, BufferInvariance, PTL

\* main of producer_consumer.rs, which tests PRODUCED and CONSUMED once without
\* the mutex, never returns -1.
THEOREM BothCountsFull ==
  ASSUME BufferSetup
  PROVE  PCSpec => [](main # "-1")
<1>1. BufferInv => main # "-1"
  BY DEF BufferInv
<1> QED  BY <1>1, BufferInvariance, PTL

\* The guard of the next step of thread t.
MayGoOn(t) ==
  /\ CanCall(t)
  /\ pc[t] = "down" => Rounds(t) < N_ITEMS
  /\ pc[t] = "lock" => MUTEX \notin holds[t]
  /\ pc[t] = "unlock" => MUTEX \in holds[t]
  /\ pc[t] = "up" => ups[Give(t)] < MAX_UPS

\* Thread t has made all its rounds.
Finished(t) == pc[t] = "down" /\ Rounds(t) = N_ITEMS

\* A thread that cannot go on is finished, or sleeps.
LEMMA WhyStopped ==
  ASSUME BufferSetup, BufferInv, NEW t \in Threads, ~ MayGoOn(t), ~ Finished(t)
  PROVE  /\ state[t] = "Blocked" /\ MUTEX \notin holds[t]
         /\ \/ pc[t] = "lock" /\ Waits(t) = {<<"sem", Take(t)>>}
            \/ pc[t] = "buffer" /\ Waits(t) = {<<"mutex", MUTEX>>}
<1>1. ClientAt(t) /\ RoundsCounted(t) /\ relock[t] = NoMutex
  BY DEF BufferInv, ClientInv
<1>2. Rounds(t) \in Nat /\ N_ITEMS \in Nat /\ MAX_UPS \in Nat /\ N_ITEMS <= MAX_UPS
  BY Counted, SyncAssumption DEF BufferInv, BufferSetup
<1>3. ASSUME pc[t] = "up" PROVE ups[Give(t)] < MAX_UPS
  <2>1. ups[Give(t)] = Rounds(t) - Owed(pc[t]) /\ Rounds(t) <= N_ITEMS
    BY <1>1 DEF RoundsCounted
  <2>2. Owed(pc[t]) = 1
    BY <1>3 DEF Owed
  <2> QED  BY <1>2, <2>1, <2>2
<1>4. ASSUME pc[t] = "down" PROVE Rounds(t) < N_ITEMS
  <2>1. Rounds(t) <= N_ITEMS /\ Rounds(t) # N_ITEMS
    BY <1>1, <1>4 DEF RoundsCounted, Finished
  <2> QED  BY <1>2, <2>1
<1>5. state[t] # "Ready"
  BY <1>1, <1>3, <1>4 DEF MayGoOn, CanCall, ClientAt, ClientTable
<1> QED  BY <1>1, <1>5 DEF ClientAt, ClientTable

\* producer_consumer.rs: the two threads never wait for each other; they stop when both are finished
\* and not before.
THEOREM BufferGoesOn ==
  ASSUME BufferSetup
  PROVE  PCSpec =>
           []((\E t \in Threads : MayGoOn(t)) \/ (\A t \in Threads : Finished(t)))
<1>1. BufferInv => (\E t \in Threads : MayGoOn(t)) \/ (\A t \in Threads : Finished(t))
  <2> SUFFICES ASSUME BufferInv, \A t \in Threads : ~ MayGoOn(t), NEW v \in Threads, ~ Finished(v)
               PROVE  FALSE
    OBVIOUS
  <2>1. /\ producer \in Threads /\ consumer \in Threads /\ producer # consumer
        /\ Threads = {producer, consumer}
        /\ Take(producer) = EMPTY /\ Rounds(producer) = PRODUCED
        /\ Take(consumer) = FULL /\ Rounds(consumer) = CONSUMED
        /\ PRODUCED \in Nat /\ CONSUMED \in Nat /\ N_ITEMS \in Nat
        /\ BUF_SIZE \in Nat /\ BUF_SIZE > 0
    BY DEF BufferSetup, Take, Rounds, BufferInv, ClientInv
  <2>2. \A t \in Threads : MUTEX \notin holds[t]
    <3>1. \A t \in Threads : Finished(t) => MUTEX \notin holds[t]
      BY DEF Finished, BufferInv, ClientInv, ClientAt, ClientTable
    <3> QED  BY <3>1, WhyStopped
  <2>3. mutex_queue[MUTEX] = <<>>
    BY <2>2 DEF BufferInv, ClientInv, Safe, IndInv, MutexInv, TakenMutexHasAHolder, BufferSetup
  <2>4. ASSUME NEW t \in Threads, NEW q \in Ids, Waits(t) = {q}
        PROVE  WaitQueues[q] # <<>>
    <3>1. \E i \in 1 .. Len(WaitQueues[q]) : WaitQueues[q][i] = t
      BY <2>4 DEF Waits, WaitsIn
    <3>2. Len(WaitQueues[q]) # 0
      BY <3>1
    <3> QED  BY <3>2, SMTT(30)
  <2>5. ASSUME NEW t \in Threads, ~ Finished(t)
        PROVE  /\ pc[t] = "lock" /\ state[t] = "Blocked" /\ Rounds(t) < N_ITEMS
               /\ sem_queue[Take(t)] # <<>>
    <3>1. Waits(t) # {<<"mutex", MUTEX>>}
      <4>1. <<"mutex", MUTEX>> \in Ids /\ WaitQueues[<<"mutex", MUTEX>>] = mutex_queue[MUTEX]
        BY DEF Ids, WaitQueues, BufferSetup
      <4> QED  BY <2>3, <2>4, <4>1
    <3>2. pc[t] = "lock" /\ state[t] = "Blocked" /\ Waits(t) = {<<"sem", Take(t)>>}
      BY <2>5, <3>1, WhyStopped
    <3>3. <<"sem", Take(t)>> \in Ids /\ WaitQueues[<<"sem", Take(t)>>] = sem_queue[Take(t)]
      BY Counted DEF Ids, WaitQueues, BufferInv
    <3>4. sem_queue[Take(t)] # <<>>
      BY <2>4, <3>2, <3>3
    <3>5. Rounds(t) < N_ITEMS
      BY <3>2 DEF BufferInv, ClientInv, RoundsCounted
    <3> QED  BY <3>2, <3>4, <3>5
  <2>6. ASSUME NEW t \in Threads, ~ Finished(t)
        PROVE  downs[Take(t)] = initial[Take(t)] + ups[Take(t)] /\ downs[Take(t)] = Rounds(t)
    <3>1. PermitsAreExact /\ Take(t) \in Sems /\ Rounds(t) \in Nat
      BY PermitsFromCount, Counted DEF BufferInv, ClientInv, Safe
    <3>2. downs[Take(t)] = initial[Take(t)] + ups[Take(t)]
      BY <2>5, <2>6, <3>1 DEF PermitsAreExact
    <3>3. RoundsCounted(t)
      BY DEF BufferInv, ClientInv
    <3>4. downs[Take(t)] = Rounds(t) + Taken(pc[t], state[t])
      BY <3>3 DEF RoundsCounted
    <3>5. Taken(pc[t], state[t]) = 0
      BY <2>5, <2>6 DEF Taken
    <3> QED  BY <3>1, <3>2, <3>4, <3>5, SMTT(30)
  <2>7. ASSUME NEW t \in Threads
        PROVE  ups[Give(t)] = Rounds(t) /\ Rounds(t) <= N_ITEMS /\ (Finished(t) => Rounds(t) = N_ITEMS)
    <3>1. pc[t] \in {"lock", "down"} /\ RoundsCounted(t) /\ Rounds(t) \in Nat
      BY <2>5, Counted DEF BufferInv, ClientInv, Finished
    <3>2. ups[Give(t)] = Rounds(t) - Owed(pc[t]) /\ Rounds(t) <= N_ITEMS
      BY <3>1 DEF RoundsCounted
    <3>3. Owed(pc[t]) = 0
      BY <3>1 DEF Owed
    <3> QED  BY <3>1, <3>2, <3>3 DEF Finished
  <2>8. /\ ups[EMPTY] = CONSUMED /\ ups[FULL] = PRODUCED /\ PRODUCED <= N_ITEMS /\ CONSUMED <= N_ITEMS
        /\ initial[EMPTY] = BUF_SIZE /\ initial[FULL] = 0
    BY <2>1, <2>7 DEF Give, BufferSetup
  <2>9. CASE ~ Finished(producer)
    <3>1. PRODUCED = BUF_SIZE + CONSUMED /\ PRODUCED < N_ITEMS
      BY <2>1, <2>5, <2>6, <2>8, <2>9
    <3>2. ~ Finished(consumer)
      BY <2>1, <2>7, <3>1
    <3>3. CONSUMED = 0 + PRODUCED
      BY <2>1, <2>6, <2>8, <3>2
    <3> QED  BY <2>1, <3>1, <3>3
  <2>10. CASE Finished(producer)
    <3>1. v = consumer /\ ~ Finished(consumer) /\ PRODUCED = N_ITEMS
      BY <2>1, <2>7, <2>10
    <3>2. CONSUMED = 0 + PRODUCED /\ CONSUMED < N_ITEMS
      BY <2>1, <2>5, <2>6, <2>8, <3>1
    <3> QED  BY <2>1, <3>1, <3>2
  <2> QED  BY <2>9, <2>10
<1> QED  BY <1>1, BufferInvariance, PTL

=============================================================================
