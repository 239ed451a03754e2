----------------------------- MODULE SyncProofs -----------------------------
(***************************************************************************)
(* Proofs about Sync, for any number of threads, mutexes, semaphores and   *)
(* condition variables, whatever the clients do with them.                 *)
(*                                                                         *)
(* MutualExclusion is not inductive: unlock hands the mutex to a waiter    *)
(* without looking at the other holders, and lock looks at `locked` only,  *)
(* so one needs to know that `locked` says whether there is a holder       *)
(* (TakenMutexHasAHolder).  The bound on permits needs the relation        *)
(* between count, history and queue (CountEncodesWaiters).  That sleepers  *)
(* are queued once needs the latter too: where the sign of the count says  *)
(* that somebody waits, Semaphore::up takes the head of the queue.         *)
(***************************************************************************)
EXTENDS Sync, TLAPS

MutexInv == TakenMutexHasAHolder /\ MutualExclusion

IndInv == TypeOK /\ MutexInv /\ CountEncodesWaiters

-----------------------------------------------------------------------------
(* Lock and unlock.                                                        *)

\* MutexBlocking::lock keeps the types, the exclusion and the meaning of
\* `locked`, whoever calls it.
LEMMA LockStep ==
  ASSUME TypeOK, MutexInv, NEW t \in Threads, NEW m \in Mutexes, lock(t, m)
  PROVE  /\ locked' \in [Mutexes -> BOOLEAN]
         /\ mutex_queue' \in [Mutexes -> Seq(Threads)]
         /\ holds' \in [Threads -> SUBSET Mutexes]
         /\ state' \in [Threads -> {"Ready", "Blocked"}]
         /\ MutexInv'
<1>1. CASE ~ locked[m]
  <2>1. /\ locked' = [locked EXCEPT ![m] = TRUE]
        /\ holds' = [holds EXCEPT ![t] = @ \cup {m}]
        /\ mutex_queue' = mutex_queue /\ state' = state
    BY <1>1 DEF lock
  <2>2. \A u \in Threads : m \notin holds[u]
    BY <1>1 DEF MutexInv, TakenMutexHasAHolder
  <2>3. MutualExclusion'
    BY <2>1, <2>2 DEF TypeOK, MutexInv, MutualExclusion
  <2>4. TakenMutexHasAHolder'
    BY <2>1, <2>2 DEF TypeOK, MutexInv, TakenMutexHasAHolder
  <2>. QED  BY <2>1, <2>3, <2>4 DEF TypeOK, MutexInv
<1>2. CASE locked[m]
  <2>1. /\ mutex_queue' = [mutex_queue EXCEPT ![m] = Append(@, t)]
        /\ state' = [state EXCEPT ![t] = "Blocked"]
        /\ locked' = locked /\ holds' = holds
    BY <1>2 DEF lock
  <2>2. MutexInv'
    BY <2>1, <1>2 DEF TypeOK, MutexInv, MutualExclusion, TakenMutexHasAHolder
  <2>3. mutex_queue' \in [Mutexes -> Seq(Threads)]
    BY <2>1 DEF TypeOK
  <2>. QED  BY <2>1, <2>2, <2>3 DEF TypeOK
<1>. QED  BY <1>1, <1>2

\* MutexBlocking::unlock by the holder does too, with and without a waiter.
LEMMA UnlockStep ==
  ASSUME TypeOK, MutexInv, NEW t \in Threads, NEW m \in Mutexes, m \in holds[t],
         NEW STATE s, s \in [Threads -> {"Ready", "Blocked"}], unlock(t, m, s)
  PROVE  /\ locked' \in [Mutexes -> BOOLEAN]
         /\ mutex_queue' \in [Mutexes -> Seq(Threads)]
         /\ holds' \in [Threads -> SUBSET Mutexes]
         /\ state' \in [Threads -> {"Ready", "Blocked"}]
         /\ MutexInv'
<1>0. locked[m] /\ \A u \in Threads : m \in holds[u] => u = t
  BY DEF MutexInv, MutualExclusion, TakenMutexHasAHolder
<1>1. CASE mutex_queue[m] = <<>>
  <2>1. /\ locked' = [locked EXCEPT ![m] = FALSE]
        /\ holds' = [holds EXCEPT ![t] = @ \ {m}]
        /\ state' = s
        /\ mutex_queue' = mutex_queue
    BY <1>1 DEF unlock
  <2>2. MutualExclusion'
    BY <2>1 DEF TypeOK, MutexInv, MutualExclusion
  <2>3. TakenMutexHasAHolder'
    BY <2>1, <1>0, <1>1 DEF TypeOK, MutexInv, TakenMutexHasAHolder
  <2>. QED  BY <2>1, <2>2, <2>3 DEF TypeOK, MutexInv
<1>2. CASE mutex_queue[m] # <<>>
  <2>. DEFINE u == Head(mutex_queue[m])
  <2>0. u \in Threads /\ Tail(mutex_queue[m]) \in Seq(Threads)
    BY <1>2 DEF TypeOK
  <2>1. /\ holds' = [holds EXCEPT ![t] = @ \ {m}, ![u] = @ \cup {m}]
        /\ state' = [s EXCEPT ![u] = "Ready"]
        /\ mutex_queue' = [mutex_queue EXCEPT ![m] = Tail(@)]
        /\ locked' = locked
    BY <1>2 DEF unlock
  <2>. HIDE DEF u
  <2>2. \A v \in Threads : holds'[v] = IF v = u THEN holds[v] \cup {m} ELSE holds[v] \ {m}
    <3>1. \A v \in Threads : v # t => holds[v] \ {m} = holds[v]
      BY <1>0
    <3>. QED  BY <2>0, <2>1, <3>1 DEF TypeOK
  <2>3. MutualExclusion'
    BY <2>0, <2>2 DEF TypeOK, MutexInv, MutualExclusion
  <2>4. TakenMutexHasAHolder'
    <3>. SUFFICES ASSUME NEW n \in Mutexes
                  PROVE  /\ locked'[n] <=> \E v \in Threads : n \in holds'[v]
                         /\ ~ locked'[n] => mutex_queue'[n] = <<>>
      BY DEF TakenMutexHasAHolder
    <3>1. CASE n = m
      <4>1. locked'[m]
        BY <2>1, <1>0
      <4>2. m \in holds'[u]
        BY <2>0, <2>2
      <4>. QED  BY <3>1, <4>1, <4>2, <2>0
    <3>2. CASE n # m
      <4>1. locked'[n] = locked[n] /\ mutex_queue'[n] = mutex_queue[n]
        BY <3>2, <2>1 DEF TypeOK
      <4>2. \A v \in Threads : n \in holds'[v] <=> n \in holds[v]
        BY <3>2, <2>2
      <4>3. /\ locked[n] <=> \E v \in Threads : n \in holds[v]
            /\ ~ locked[n] => mutex_queue[n] = <<>>
        BY DEF MutexInv, TakenMutexHasAHolder
      <4>. QED  BY <4>1, <4>2, <4>3
    <3>. QED  BY <3>1, <3>2
  <2>5. mutex_queue' \in [Mutexes -> Seq(Threads)]
    BY <2>0, <2>1 DEF TypeOK
  <2>6. holds' \in [Threads -> SUBSET Mutexes] /\ state' \in [Threads -> {"Ready", "Blocked"}]
    BY <2>0, <2>1 DEF TypeOK
  <2>. QED  BY <2>1, <2>3, <2>4, <2>5, <2>6 DEF TypeOK, MutexInv
<1>. QED  BY <1>1, <1>2

-----------------------------------------------------------------------------
(* Up and down.                                                            *)

\* CountEncodesWaiters for one semaphore: count, permits at the start, ups,
\* downs, waiters.
Encodes(c, i, u, d, l) == c = i + u - d - l /\ l = IF c < 0 THEN - c ELSE 0

\* The arithmetic of up and down.
LEMMA Encoding ==
  ASSUME NEW c \in Int, NEW i \in Nat, NEW u \in Nat, NEW d \in Nat, NEW l \in Nat,
         Encodes(c, i, u, d, l)
  PROVE  /\ c + 1 <= 0 => l >= 1 /\ Encodes(c + 1, i, u + 1, d + 1, l - 1)
         /\ ~ (c + 1 <= 0) => Encodes(c + 1, i, u + 1, d, l)
         /\ c - 1 < 0 => Encodes(c - 1, i, u, d, l + 1)
         /\ ~ (c - 1 < 0) => Encodes(c - 1, i, u, d + 1, l)
BY DEF Encodes

\* What the encoding says of the permits.
LEMMA EncodingBounds ==
  ASSUME NEW c \in Int, NEW i \in Nat, NEW u \in Nat, NEW d \in Nat, NEW l \in Nat,
         Encodes(c, i, u, d, l)
  PROVE  d <= i + u /\ (l # 0 => d = i + u)
BY DEF Encodes

\* Semaphore::up keeps the types and the meaning of count; where it wakes
\* somebody there is somebody.
LEMMA UpStep ==
  ASSUME TypeOK, CountEncodesWaiters, NEW s \in Sems, up(s)
  PROVE  /\ count' \in [Sems -> Int] /\ sem_queue' \in [Sems -> Seq(Threads)]
         /\ ups' \in [Sems -> Nat] /\ downs' \in [Sems -> Nat]
         /\ state' \in [Threads -> {"Ready", "Blocked"}]
         /\ CountEncodesWaiters'
<1>0. /\ count[s] \in Int /\ ups[s] \in Nat /\ downs[s] \in Nat /\ initial[s] \in Nat
      /\ sem_queue[s] \in Seq(Threads) /\ Len(sem_queue[s]) \in Nat
  BY SyncAssumption DEF TypeOK
<1>1. Encodes(count[s], initial[s], ups[s], downs[s], Len(sem_queue[s]))
  BY DEF CountEncodesWaiters, Encodes
<1>2. ups' = [ups EXCEPT ![s] = @ + 1] /\ count' = [count EXCEPT ![s] = @ + 1]
  BY DEF up
<1>3. count' \in [Sems -> Int] /\ ups' \in [Sems -> Nat]
  BY <1>0, <1>2 DEF TypeOK
<1>4. CASE count[s] + 1 <= 0
  <2>1. sem_queue[s] # <<>>
    <3>1. Len(sem_queue[s]) >= 1
      BY <1>0, <1>1, <1>4, Encoding
    <3>. QED  BY <3>1, <1>0
  <2>2. /\ Head(sem_queue[s]) \in Threads
        /\ Tail(sem_queue[s]) \in Seq(Threads)
        /\ Len(Tail(sem_queue[s])) = Len(sem_queue[s]) - 1
    BY <1>0, <2>1
  <2>3. /\ sem_queue' = [sem_queue EXCEPT ![s] = Tail(@)]
        /\ state' = [state EXCEPT ![Head(sem_queue[s])] = "Ready"]
        /\ downs' = [downs EXCEPT ![s] = @ + 1]
    BY <1>4 DEF up
  <2>4. /\ sem_queue' \in [Sems -> Seq(Threads)] /\ downs' \in [Sems -> Nat]
        /\ state' \in [Threads -> {"Ready", "Blocked"}]
    BY <1>0, <2>2, <2>3 DEF TypeOK
  <2>5. CountEncodesWaiters'
    <3>. SUFFICES ASSUME NEW r \in Sems
                  PROVE  Encodes(count'[r], initial[r], ups'[r], downs'[r], Len(sem_queue'[r]))
      BY DEF CountEncodesWaiters, Encodes
    <3>1. CASE r # s
      BY <3>1, <1>2, <2>3 DEF TypeOK, CountEncodesWaiters, Encodes
    <3>2. CASE r = s
      <4>1. /\ count'[s] = count[s] + 1 /\ ups'[s] = ups[s] + 1 /\ downs'[s] = downs[s] + 1
            /\ sem_queue'[s] = Tail(sem_queue[s])
        BY <1>2, <2>3 DEF TypeOK
      <4>2. Encodes(count[s] + 1, initial[s], ups[s] + 1, downs[s] + 1, Len(sem_queue[s]) - 1)
        BY <1>0, <1>1, <1>4, Encoding
      <4>. QED  BY <3>2, <4>1, <4>2, <2>2
    <3>. QED  BY <3>1, <3>2
  <2>. QED  BY <1>3, <2>4, <2>5
<1>5. CASE ~ (count[s] + 1 <= 0)
  <2>1. sem_queue' = sem_queue /\ state' = state /\ downs' = downs
    BY <1>5 DEF up
  <2>2. CountEncodesWaiters'
    <3>. SUFFICES ASSUME NEW r \in Sems
                  PROVE  Encodes(count'[r], initial[r], ups'[r], downs'[r], Len(sem_queue'[r]))
      BY DEF CountEncodesWaiters, Encodes
    <3>1. CASE r # s
      BY <3>1, <1>2, <2>1 DEF TypeOK, CountEncodesWaiters, Encodes
    <3>2. CASE r = s
      <4>1. count'[s] = count[s] + 1 /\ ups'[s] = ups[s] + 1
        BY <1>2 DEF TypeOK
      <4>2. Encodes(count[s] + 1, initial[s], ups[s] + 1, downs[s], Len(sem_queue[s]))
        BY <1>0, <1>1, <1>5, Encoding
      <4>. QED  BY <3>2, <4>1, <4>2, <2>1
    <3>. QED  BY <3>1, <3>2
  <2>. QED  BY <1>3, <2>1, <2>2 DEF TypeOK
<1>. QED  BY <1>4, <1>5

\* Semaphore::down does too.
LEMMA DownStep ==
  ASSUME TypeOK, CountEncodesWaiters, NEW t \in Threads, NEW s \in Sems, down(t, s)
  PROVE  /\ count' \in [Sems -> Int] /\ sem_queue' \in [Sems -> Seq(Threads)]
         /\ ups' \in [Sems -> Nat] /\ downs' \in [Sems -> Nat]
         /\ state' \in [Threads -> {"Ready", "Blocked"}]
         /\ CountEncodesWaiters'
<1>0. /\ count[s] \in Int /\ ups[s] \in Nat /\ downs[s] \in Nat /\ initial[s] \in Nat
      /\ sem_queue[s] \in Seq(Threads) /\ Len(sem_queue[s]) \in Nat
  BY SyncAssumption DEF TypeOK
<1>1. Encodes(count[s], initial[s], ups[s], downs[s], Len(sem_queue[s]))
  BY DEF CountEncodesWaiters, Encodes
<1>2. count' = [count EXCEPT ![s] = @ - 1] /\ ups' = ups
  BY DEF down
<1>3. count' \in [Sems -> Int] /\ ups' \in [Sems -> Nat]
  BY <1>0, <1>2 DEF TypeOK
<1>4. CASE count[s] - 1 < 0
  <2>1. /\ Append(sem_queue[s], t) \in Seq(Threads)
        /\ Len(Append(sem_queue[s], t)) = Len(sem_queue[s]) + 1
    BY <1>0
  <2>2. /\ sem_queue' = [sem_queue EXCEPT ![s] = Append(@, t)]
        /\ state' = [state EXCEPT ![t] = "Blocked"]
        /\ downs' = downs
    BY <1>4 DEF down
  <2>3. /\ sem_queue' \in [Sems -> Seq(Threads)] /\ downs' \in [Sems -> Nat]
        /\ state' \in [Threads -> {"Ready", "Blocked"}]
    BY <2>1, <2>2 DEF TypeOK
  <2>4. CountEncodesWaiters'
    <3>. SUFFICES ASSUME NEW r \in Sems
                  PROVE  Encodes(count'[r], initial[r], ups'[r], downs'[r], Len(sem_queue'[r]))
      BY DEF CountEncodesWaiters, Encodes
    <3>1. CASE r # s
      BY <3>1, <1>2, <2>2 DEF TypeOK, CountEncodesWaiters, Encodes
    <3>2. CASE r = s
      <4>1. count'[s] = count[s] - 1 /\ sem_queue'[s] = Append(sem_queue[s], t)
        BY <1>2, <2>2 DEF TypeOK
      <4>2. Encodes(count[s] - 1, initial[s], ups[s], downs[s], Len(sem_queue[s]) + 1)
        BY <1>0, <1>1, <1>4, Encoding
      <4>. QED  BY <3>2, <4>1, <4>2, <1>2, <2>1, <2>2
    <3>. QED  BY <3>1, <3>2
  <2>. QED  BY <1>3, <2>3, <2>4
<1>5. CASE ~ (count[s] - 1 < 0)
  <2>1. /\ sem_queue' = sem_queue /\ state' = state
        /\ downs' = [downs EXCEPT ![s] = @ + 1]
    BY <1>5 DEF down
  <2>2. downs' \in [Sems -> Nat]
    BY <1>0, <2>1 DEF TypeOK
  <2>3. CountEncodesWaiters'
    <3>. SUFFICES ASSUME NEW r \in Sems
                  PROVE  Encodes(count'[r], initial[r], ups'[r], downs'[r], Len(sem_queue'[r]))
      BY DEF CountEncodesWaiters, Encodes
    <3>1. CASE r # s
      BY <3>1, <1>2, <2>1 DEF TypeOK, CountEncodesWaiters, Encodes
    <3>2. CASE r = s
      <4>1. count'[s] = count[s] - 1 /\ downs'[s] = downs[s] + 1
        BY <1>2, <2>1 DEF TypeOK
      <4>2. Encodes(count[s] - 1, initial[s], ups[s], downs[s] + 1, Len(sem_queue[s]))
        BY <1>0, <1>1, <1>5, Encoding
      <4>. QED  BY <3>2, <4>1, <4>2, <1>2, <2>1
    <3>. QED  BY <3>1, <3>2
  <2>. QED  BY <1>3, <2>1, <2>2, <2>3 DEF TypeOK
<1>. QED  BY <1>4, <1>5

-----------------------------------------------------------------------------
(* The invariant.                                                          *)

\* Fresh primitives satisfy it.
LEMMA InitIndInv == Init => IndInv
<1>. SUFFICES ASSUME Init PROVE IndInv
  OBVIOUS
<1>1. TypeOK
  BY SyncAssumption DEF Init, TypeOK
<1>2. MutexInv
  BY DEF Init, MutexInv, TakenMutexHasAHolder, MutualExclusion
<1>3. CountEncodesWaiters
  <2>1. \A s \in Sems : initial[s] \in Nat
    BY SyncAssumption
  <2>. QED  BY <2>1 DEF Init, CountEncodesWaiters
<1>. QED  BY <1>1, <1>2, <1>3 DEF IndInv

\* What does not touch the semaphores keeps their part of the invariant.
LEMMA SemKept ==
  ASSUME CountEncodesWaiters, UNCHANGED semVars
  PROVE  CountEncodesWaiters'
BY DEF CountEncodesWaiters, semVars

\* What does not touch the mutexes keeps theirs.
LEMMA MutexKept ==
  ASSUME MutexInv, UNCHANGED mutexVars
  PROVE  MutexInv'
BY DEF MutexInv, MutualExclusion, TakenMutexHasAHolder, mutexVars

\* Every call, and the second half of Condvar::wait, keeps the invariant.
LEMMA NextIndInv == IndInv /\ [Next]_vars => IndInv'
<1>. SUFFICES ASSUME IndInv, [Next]_vars PROVE IndInv'
  OBVIOUS
<1>. USE DEF IndInv
<1>1. ASSUME NEW t \in Threads, Relock(t) PROVE IndInv'
  <2>1. relock[t] \in Mutexes
    BY <1>1 DEF Relock, TypeOK
  <2>2. lock(t, relock[t]) /\ UNCHANGED semVars /\ cv_queue' = cv_queue
        /\ relock' = [relock EXCEPT ![t] = NoMutex]
    BY <1>1 DEF Relock
  <2>3. /\ locked' \in [Mutexes -> BOOLEAN]
        /\ mutex_queue' \in [Mutexes -> Seq(Threads)]
        /\ holds' \in [Threads -> SUBSET Mutexes]
        /\ state' \in [Threads -> {"Ready", "Blocked"}]
        /\ MutexInv'
    BY <2>1, <2>2, LockStep
  <2>4. TypeOK'
    BY <2>2, <2>3 DEF TypeOK, semVars
  <2>. QED  BY <2>2, <2>3, <2>4, SemKept
<1>2. ASSUME NEW t \in Threads, NEW m \in Mutexes, sys_mutex_lock(t, m) PROVE IndInv'
  <2>1. lock(t, m) /\ UNCHANGED semVars /\ UNCHANGED cvVars
    BY <1>2 DEF sys_mutex_lock
  <2>2. /\ locked' \in [Mutexes -> BOOLEAN]
        /\ mutex_queue' \in [Mutexes -> Seq(Threads)]
        /\ holds' \in [Threads -> SUBSET Mutexes]
        /\ state' \in [Threads -> {"Ready", "Blocked"}]
        /\ MutexInv'
    BY <2>1, LockStep
  <2>3. TypeOK'
    BY <2>1, <2>2 DEF TypeOK, semVars, cvVars
  <2>. QED  BY <2>1, <2>2, <2>3, SemKept
<1>3. ASSUME NEW t \in Threads, NEW m \in Mutexes, sys_mutex_unlock(t, m) PROVE IndInv'
  <2>1. /\ m \in holds[t] /\ state \in [Threads -> {"Ready", "Blocked"}]
        /\ unlock(t, m, state) /\ UNCHANGED semVars /\ UNCHANGED cvVars
    BY <1>3 DEF sys_mutex_unlock, TypeOK
  <2>2. /\ locked' \in [Mutexes -> BOOLEAN]
        /\ mutex_queue' \in [Mutexes -> Seq(Threads)]
        /\ holds' \in [Threads -> SUBSET Mutexes]
        /\ state' \in [Threads -> {"Ready", "Blocked"}]
        /\ MutexInv'
    BY <2>1, UnlockStep
  <2>3. TypeOK'
    BY <2>1, <2>2 DEF TypeOK, semVars, cvVars
  <2>. QED  BY <2>1, <2>2, <2>3, SemKept
<1>4. ASSUME NEW t \in Threads, NEW s \in Sems, sys_semaphore_up(t, s) PROVE IndInv'
  <2>1. up(s) /\ UNCHANGED mutexVars /\ UNCHANGED cvVars
    BY <1>4 DEF sys_semaphore_up
  <2>2. /\ count' \in [Sems -> Int] /\ sem_queue' \in [Sems -> Seq(Threads)]
        /\ ups' \in [Sems -> Nat] /\ downs' \in [Sems -> Nat]
        /\ state' \in [Threads -> {"Ready", "Blocked"}]
        /\ CountEncodesWaiters'
    BY <2>1, UpStep
  <2>3. TypeOK'
    BY <2>1, <2>2 DEF TypeOK, mutexVars, cvVars
  <2>. QED  BY <2>1, <2>2, <2>3, MutexKept
<1>5. ASSUME NEW t \in Threads, NEW s \in Sems, sys_semaphore_down(t, s) PROVE IndInv'
  <2>1. down(t, s) /\ UNCHANGED mutexVars /\ UNCHANGED cvVars
    BY <1>5 DEF sys_semaphore_down
  <2>2. /\ count' \in [Sems -> Int] /\ sem_queue' \in [Sems -> Seq(Threads)]
        /\ ups' \in [Sems -> Nat] /\ downs' \in [Sems -> Nat]
        /\ state' \in [Threads -> {"Ready", "Blocked"}]
        /\ CountEncodesWaiters'
    BY <2>1, DownStep
  <2>3. TypeOK'
    BY <2>1, <2>2 DEF TypeOK, mutexVars, cvVars
  <2>. QED  BY <2>1, <2>2, <2>3, MutexKept
<1>6. ASSUME NEW t \in Threads, NEW c \in Condvars, NEW m \in Mutexes,
             sys_condvar_wait(t, c, m)
      PROVE  IndInv'
  <2>1. /\ m \in holds[t] /\ [state EXCEPT ![t] = "Blocked"] \in [Threads -> {"Ready", "Blocked"}]
        /\ unlock(t, m, [state EXCEPT ![t] = "Blocked"]) /\ UNCHANGED semVars
        /\ cv_queue' = [cv_queue EXCEPT ![c] = Append(@, t)]
        /\ relock' = [relock EXCEPT ![t] = m]
    BY <1>6 DEF sys_condvar_wait, TypeOK
  <2>2. /\ locked' \in [Mutexes -> BOOLEAN]
        /\ mutex_queue' \in [Mutexes -> Seq(Threads)]
        /\ holds' \in [Threads -> SUBSET Mutexes]
        /\ state' \in [Threads -> {"Ready", "Blocked"}]
        /\ MutexInv'
    BY <2>1, UnlockStep
  <2>3. cv_queue' \in [Condvars -> Seq(Threads)] /\ relock' \in [Threads -> Mutexes \cup {NoMutex}]
    BY <2>1 DEF TypeOK
  <2>4. TypeOK'
    BY <2>1, <2>2, <2>3 DEF TypeOK, semVars
  <2>. QED  BY <2>1, <2>2, <2>4, SemKept
<1>7. ASSUME NEW t \in Threads, NEW c \in Condvars, sys_condvar_signal(t, c) PROVE IndInv'
  <2>1. /\ UNCHANGED mutexVars /\ UNCHANGED semVars /\ relock' = relock
        /\ cv_queue[c] \in Seq(Threads) /\ cv_queue[c] # <<>>
        /\ cv_queue' = [cv_queue EXCEPT ![c] = Tail(@)]
        /\ state' = [state EXCEPT ![Head(cv_queue[c])] = "Ready"]
    BY <1>7 DEF sys_condvar_signal, TypeOK
  <2>2. Head(cv_queue[c]) \in Threads /\ Tail(cv_queue[c]) \in Seq(Threads)
    BY <2>1
  <2>3. TypeOK'
    BY <2>1, <2>2 DEF TypeOK, mutexVars, semVars
  <2>. QED  BY <2>1, <2>3, SemKept, MutexKept
<1>8. ASSUME NEW t \in Threads, NEW c \in Condvars, broadcast(t, c) PROVE IndInv'
  <2>1. UNCHANGED mutexVars /\ UNCHANGED semVars
    BY <1>8 DEF broadcast
  <2>2. TypeOK'
    BY <1>8 DEF broadcast, TypeOK, mutexVars, semVars
  <2>. QED  BY <2>1, <2>2, SemKept, MutexKept
<1>9. CASE UNCHANGED vars
  <2>1. UNCHANGED mutexVars /\ UNCHANGED semVars
    BY <1>9 DEF vars, mutexVars, semVars
  <2>2. TypeOK'
    BY <1>9 DEF vars, TypeOK
  <2>. QED  BY <2>1, <2>2, SemKept, MutexKept
<1>. QED  BY <1>1, <1>2, <1>3, <1>4, <1>5, <1>6, <1>7, <1>8, <1>9 DEF Next

\* The invariant holds in every state of every execution.
THEOREM Invariance == Spec => []IndInv
BY InitIndInv, NextIndInv, PTL DEF Spec

\* Type correctness.
THEOREM TypeCorrect == Spec => []TypeOK
<1>1. IndInv => TypeOK
  BY DEF IndInv
<1>. QED  BY Invariance, <1>1, PTL

\* MutexBlocking excludes: no two threads are between lock and unlock of one
\* mutex, with Condvar::wait releasing and taking it in between.
THEOREM Exclusion == Spec => []MutualExclusion
<1>1. IndInv => MutualExclusion
  BY DEF IndInv, MutexInv
<1>. QED  BY Invariance, <1>1, PTL

\* Nobody waits for a mutex that nobody holds.
THEOREM HolderExists == Spec => []TakenMutexHasAHolder
<1>1. IndInv => TakenMutexHasAHolder
  BY DEF IndInv, MutexInv
<1>. QED  BY Invariance, <1>1, PTL

\* A negative SemInner.count is the number of waiters, so the sign test in up
\* and down always agrees with the wait queue.
THEOREM SignIsWaiters == Spec => []CountEncodesWaiters
<1>1. IndInv => CountEncodesWaiters
  BY DEF IndInv
<1>. QED  BY Invariance, <1>1, PTL

\* What count encodes bounds the downs that have returned.
LEMMA PermitsFromCount == IndInv => PermitsAreExact
<1>. SUFFICES ASSUME IndInv, NEW s \in Sems
              PROVE  /\ downs[s] <= initial[s] + ups[s]
                     /\ sem_queue[s] # <<>> => downs[s] = initial[s] + ups[s]
  BY DEF PermitsAreExact
<1> DEFINE waiters == Len(sem_queue[s])
<1>1. sem_queue[s] \in Seq(Threads)
  BY DEF IndInv, TypeOK
<1>2. sem_queue[s] # <<>> => waiters # 0
  BY <1>1
<1>3. count[s] \in Int /\ ups[s] \in Nat /\ downs[s] \in Nat /\ initial[s] \in Nat
  BY SyncAssumption DEF IndInv, TypeOK
<1>4. waiters \in Nat
  BY <1>1
<1>5. Encodes(count[s], initial[s], ups[s], downs[s], waiters)
  BY DEF IndInv, CountEncodesWaiters, Encodes
<1> HIDE DEF waiters
<1>6. /\ downs[s] <= initial[s] + ups[s]
      /\ waiters # 0 => downs[s] = initial[s] + ups[s]
  BY <1>3, <1>4, <1>5, EncodingBounds
<1>. QED  BY <1>2, <1>6

\* Semaphore::down lets through exactly as many threads as there are permits.
THEOREM ExactPermits == Spec => []PermitsAreExact
BY Invariance, PermitsFromCount, PTL

-----------------------------------------------------------------------------
(* Sleepers.                                                               *)

\* The wait queues of all primitives, taken together.
Ids == ({"mutex"} \X Mutexes) \cup ({"sem"} \X Sems) \cup ({"condvar"} \X Condvars)

WaitQueues ==
  [q \in Ids |-> IF q[1] = "mutex" THEN mutex_queue[q[2]]
                 ELSE IF q[1] = "sem" THEN sem_queue[q[2]] ELSE cv_queue[q[2]]]

\* SleepersAreQueuedOnce, of queues W and thread states s.
Sleeping(W, s) ==
  /\ \A q \in Ids : \A i \in 1 .. Len(W[q]) : s[W[q][i]] = "Blocked"
  /\ \A q, r \in Ids : \A i \in 1 .. Len(W[q]), j \in 1 .. Len(W[r]) :
       W[q][i] = W[r][j] => q = r /\ i = j
  /\ \A t \in Threads :
       s[t] = "Blocked" => \E q \in Ids : \E i \in 1 .. Len(W[q]) : W[q][i] = t

QueuesOf == [Ids -> Seq(Threads)]
States == [Threads -> {"Ready", "Blocked"}]

\* A running thread appends itself to a queue and blocks.
LEMMA Sleep ==
  ASSUME NEW W \in QueuesOf, NEW s \in States, Sleeping(W, s),
         NEW q \in Ids, NEW t \in Threads, s[t] = "Ready"
  PROVE  /\ Sleeping([W EXCEPT ![q] = Append(@, t)], [s EXCEPT ![t] = "Blocked"])
         /\ [W EXCEPT ![q] = Append(@, t)] \in QueuesOf
         /\ [s EXCEPT ![t] = "Blocked"] \in States
<1> DEFINE V == [W EXCEPT ![q] = Append(@, t)]
           u == [s EXCEPT ![t] = "Blocked"]
<1>1. W[q] \in Seq(Threads) /\ Append(W[q], t) \in Seq(Threads)
  BY DEF QueuesOf
<1>2. V \in QueuesOf /\ u \in States
  BY <1>1 DEF QueuesOf, States
<1>3. /\ Len(V[q]) = Len(W[q]) + 1 /\ V[q][Len(W[q]) + 1] = t
      /\ \A i \in 1 .. Len(W[q]) : V[q][i] = W[q][i]
      /\ \A r \in Ids : r # q => V[r] = W[r]
  BY <1>1 DEF QueuesOf
<1>4. \A r \in Ids : Len(W[r]) \in Nat /\ \A i \in 1 .. Len(W[r]) : W[r][i] \in Threads /\ W[r][i] # t
  BY SMTT(30) DEF QueuesOf, Sleeping
<1>5. \A v \in Threads : u[v] = IF v = t THEN "Blocked" ELSE s[v]
  BY DEF States
<1> HIDE DEF V, u
<1>6. ASSUME NEW r \in Ids, NEW i \in 1 .. Len(V[r])
      PROVE  \/ V[r][i] = t /\ r = q /\ i = Len(W[q]) + 1
             \/ i \in 1 .. Len(W[r]) /\ V[r][i] = W[r][i] /\ V[r][i] # t /\ V[r][i] \in Threads
  BY <1>3, <1>4
<1>7. \A r \in Ids : \A i \in 1 .. Len(V[r]) : u[V[r][i]] = "Blocked"
  BY <1>5, <1>6 DEF Sleeping
<1>8. \A p, r \in Ids : \A i \in 1 .. Len(V[p]), j \in 1 .. Len(V[r]) :
        V[p][i] = V[r][j] => p = r /\ i = j
  BY <1>6 DEF Sleeping
<1>9. ASSUME NEW v \in Threads, u[v] = "Blocked"
      PROVE  \E r \in Ids : \E i \in 1 .. Len(V[r]) : V[r][i] = v
  <2>1. CASE v = t
    BY <1>3, <1>4, <2>1
  <2>2. CASE v # t
    <3>1. PICK r \in Ids : \E i \in 1 .. Len(W[r]) : W[r][i] = v
      BY <1>5, <1>9, <2>2 DEF Sleeping
    <3> QED
      BY <1>3, <1>4, <3>1
  <2> QED
    BY <2>1, <2>2
<1> QED
  BY <1>2, <1>7, <1>8, <1>9 DEF Sleeping, V, u

\* The first thread of a queue is taken off and woken.
LEMMA Wake ==
  ASSUME NEW W \in QueuesOf, NEW s \in States, Sleeping(W, s),
         NEW q \in Ids, W[q] # <<>>
  PROVE  /\ Sleeping([W EXCEPT ![q] = Tail(@)], [s EXCEPT ![Head(W[q])] = "Ready"])
         /\ Head(W[q]) \in Threads
<1> DEFINE t == Head(W[q])
           V == [W EXCEPT ![q] = Tail(@)]
           u == [s EXCEPT ![t] = "Ready"]
<1>1. /\ W[q] \in Seq(Threads) /\ t \in Threads /\ t = W[q][1] /\ Len(W[q]) \in Nat \ {0}
      /\ Tail(W[q]) \in Seq(Threads)
  BY DEF QueuesOf
<1>2. /\ Len(V[q]) = Len(W[q]) - 1
      /\ \A i \in 1 .. Len(W[q]) - 1 : V[q][i] = W[q][i + 1]
      /\ \A r \in Ids : r # q => V[r] = W[r]
  BY <1>1 DEF QueuesOf
<1>3. \A v \in Threads : u[v] = IF v = t THEN "Ready" ELSE s[v]
  BY DEF States
<1>4. \A r \in Ids : Len(W[r]) \in Nat /\ \A i \in 1 .. Len(W[r]) : W[r][i] \in Threads
  BY DEF QueuesOf
<1> DEFINE old(r, i) == IF r = q THEN i + 1 ELSE i
<1> HIDE DEF V, u, t
<1>5. ASSUME NEW r \in Ids, NEW i \in 1 .. Len(V[r])
      PROVE  old(r, i) \in 1 .. Len(W[r]) /\ V[r][i] = W[r][old(r, i)] /\ V[r][i] # t
  <2>1. old(r, i) \in 1 .. Len(W[r]) /\ V[r][i] = W[r][old(r, i)] /\ (r = q => old(r, i) # 1)
    BY <1>1, <1>2, <1>4
  <2> QED
    BY <1>1, <2>1 DEF Sleeping
<1>6. \A r \in Ids : \A i \in 1 .. Len(V[r]) : u[V[r][i]] = "Blocked"
  BY <1>3, <1>4, <1>5 DEF Sleeping
<1>7. ASSUME NEW p \in Ids, NEW r \in Ids, NEW i \in 1 .. Len(V[p]), NEW j \in 1 .. Len(V[r]),
             V[p][i] = V[r][j]
      PROVE  p = r /\ i = j
  <2>1. /\ old(p, i) \in 1 .. Len(W[p]) /\ old(r, j) \in 1 .. Len(W[r])
        /\ W[p][old(p, i)] = W[r][old(r, j)]
    BY <1>5, <1>7
  <2> HIDE DEF old
  <2>2. p = r /\ old(p, i) = old(r, j)
    BY <2>1 DEF Sleeping
  <2> QED
    BY <1>1, <1>2, <1>4, <2>2 DEF old
<1>8. ASSUME NEW v \in Threads, u[v] = "Blocked"
      PROVE  \E r \in Ids : \E i \in 1 .. Len(V[r]) : V[r][i] = v
  <2>1. v # t /\ s[v] = "Blocked"
    BY <1>1, <1>3, <1>8
  <2>2. PICK r \in Ids : \E i \in 1 .. Len(W[r]) : W[r][i] = v
    BY <2>1 DEF Sleeping
  <2>3. PICK i \in 1 .. Len(W[r]) : W[r][i] = v
    BY <2>2
  <2>4. CASE r = q
    <3>1. i # 1
      BY <1>1, <2>1, <2>3, <2>4
    <3>2. i - 1 \in 1 .. Len(V[r]) /\ V[r][i - 1] = v
      BY <1>1, <1>2, <2>3, <2>4, <3>1
    <3> QED
      BY <3>2
  <2>5. CASE r # q
    BY <1>2, <2>3, <2>5
  <2> QED
    BY <2>4, <2>5
<1> QED
  BY <1>1, <1>6, <1>7, <1>8 DEF Sleeping, V, u, t

\* The states u are s with everybody in a queue woken.
WokenFrom(queue, s, u) ==
  \A t \in Threads : u[t] = IF \E i \in 1 .. Len(queue) : queue[i] = t THEN "Ready" ELSE s[t]

\* Condvar::broadcast.
LEMMA WakeAll ==
  ASSUME NEW W \in QueuesOf, NEW s \in States, Sleeping(W, s), NEW q \in Ids,
         NEW u, WokenFrom(W[q], s, u)
  PROVE  Sleeping([W EXCEPT ![q] = <<>>], u)
<1> DEFINE V == [W EXCEPT ![q] = <<>>]
<1>1. Len(V[q]) = 0 /\ \A r \in Ids : r # q => V[r] = W[r]
  BY DEF QueuesOf
<1> HIDE DEF V
<1>2. \A r \in Ids : Len(W[r]) \in Nat /\ \A i \in 1 .. Len(W[r]) : W[r][i] \in Threads
  BY DEF QueuesOf
<1>3. \A r \in Ids : \A i \in 1 .. Len(V[r]) :
        r # q /\ i \in 1 .. Len(W[r]) /\ V[r][i] = W[r][i]
  BY <1>1
<1>4. \A r \in Ids : \A i \in 1 .. Len(V[r]) : u[V[r][i]] = "Blocked"
  BY <1>2, <1>3 DEF Sleeping, WokenFrom
<1>5. \A p, r \in Ids : \A i \in 1 .. Len(V[p]), j \in 1 .. Len(V[r]) :
        V[p][i] = V[r][j] => p = r /\ i = j
  BY <1>3 DEF Sleeping
<1>6. ASSUME NEW v \in Threads, u[v] = "Blocked"
      PROVE  \E r \in Ids : \E i \in 1 .. Len(V[r]) : V[r][i] = v
  <2>1. s[v] = "Blocked" /\ ~ \E i \in 1 .. Len(W[q]) : W[q][i] = v
    BY <1>6 DEF WokenFrom
  <2>2. PICK r \in Ids : \E i \in 1 .. Len(W[r]) : W[r][i] = v
    BY <2>1 DEF Sleeping
  <2> QED
    BY <1>1, <2>1, <2>2
<1> QED
  BY <1>4, <1>5, <1>6 DEF Sleeping, V

\* The two ways to say it agree.
LEMMA PlacesAreQueued ==
  ASSUME TypeOK
  PROVE  SleepersAreQueuedOnce <=> Sleeping(WaitQueues, state)
<1> DEFINE W == WaitQueues
<1>1. /\ \A m \in Mutexes : <<"mutex", m>> \in Ids /\ W[<<"mutex", m>>] = mutex_queue[m]
      /\ \A x \in Sems : <<"sem", x>> \in Ids /\ W[<<"sem", x>>] = sem_queue[x]
      /\ \A c \in Condvars : <<"condvar", c>> \in Ids /\ W[<<"condvar", c>>] = cv_queue[c]
  BY DEF Ids, WaitQueues
<1>2. \A q \in Ids :
        \/ q[1] = "mutex" /\ q[2] \in Mutexes /\ q = <<"mutex", q[2]>>
        \/ q[1] = "sem" /\ q[2] \in Sems /\ q = <<"sem", q[2]>>
        \/ q[1] = "condvar" /\ q[2] \in Condvars /\ q = <<"condvar", q[2]>>
  BY DEF Ids
<1> HIDE DEF W
<1>3. ASSUME NEW q \in Ids PROVE W[q] \in Seq(Threads)
  <2>1. CASE q[2] \in Mutexes /\ q = <<"mutex", q[2]>>
    BY <1>1, <2>1 DEF TypeOK
  <2>2. CASE q[2] \in Sems /\ q = <<"sem", q[2]>>
    BY <1>1, <2>2 DEF TypeOK
  <2>3. CASE q[2] \in Condvars /\ q = <<"condvar", q[2]>>
    BY <1>1, <2>3 DEF TypeOK
  <2> QED
    BY <1>2, <2>1, <2>2, <2>3
<1>4. ASSUME NEW t \in Threads, NEW p
      PROVE  p \in Places(t) <=> \E q \in Ids : \E i \in 1 .. Len(W[q]) : p = <<q[1], q[2], i>> /\ W[q][i] = t
  <2>1. p \in Places(t) <=> p \in MutexPlaces(t) \/ p \in SemPlaces(t) \/ p \in CondvarPlaces(t)
    BY DEF Places
  <2>2. p \in MutexPlaces(t) <=>
           \E m \in Mutexes : \E i \in 1 .. Len(mutex_queue[m]) :
               p = <<"mutex", m, i>> /\ mutex_queue[m][i] = t
    BY DEF MutexPlaces, Indices
  <2>3. p \in SemPlaces(t) <=>
           \E x \in Sems : \E i \in 1 .. Len(sem_queue[x]) :
               p = <<"sem", x, i>> /\ sem_queue[x][i] = t
    BY DEF SemPlaces, Indices
  <2>4. p \in CondvarPlaces(t) <=>
           \E c \in Condvars : \E i \in 1 .. Len(cv_queue[c]) :
               p = <<"condvar", c, i>> /\ cv_queue[c][i] = t
    BY DEF CondvarPlaces, Indices
  <2>5. p \in Places(t) <=>
          \/ \E m \in Mutexes : \E i \in 1 .. Len(mutex_queue[m]) :
               p = <<"mutex", m, i>> /\ mutex_queue[m][i] = t
          \/ \E x \in Sems : \E i \in 1 .. Len(sem_queue[x]) :
               p = <<"sem", x, i>> /\ sem_queue[x][i] = t
          \/ \E c \in Condvars : \E i \in 1 .. Len(cv_queue[c]) :
               p = <<"condvar", c, i>> /\ cv_queue[c][i] = t
    BY <2>1, <2>2, <2>3, <2>4
  <2>6. ASSUME p \in Places(t)
        PROVE  \E q \in Ids : \E i \in 1 .. Len(W[q]) : p = <<q[1], q[2], i>> /\ W[q][i] = t
    <3>1. CASE \E m \in Mutexes : \E i \in 1 .. Len(mutex_queue[m]) :
                 p = <<"mutex", m, i>> /\ mutex_queue[m][i] = t
      <4>1. PICK m \in Mutexes : \E i \in 1 .. Len(mutex_queue[m]) :
                 p = <<"mutex", m, i>> /\ mutex_queue[m][i] = t
        BY <3>1
      <4> DEFINE q == <<"mutex", m>>
      <4>2. q \in Ids /\ W[q] = mutex_queue[m] /\ q[1] = "mutex" /\ q[2] = m
        BY <1>1
      <4> HIDE DEF q
      <4> QED
        BY <4>1, <4>2
    <3>2. CASE \E x \in Sems : \E i \in 1 .. Len(sem_queue[x]) :
                 p = <<"sem", x, i>> /\ sem_queue[x][i] = t
      <4>1. PICK x \in Sems : \E i \in 1 .. Len(sem_queue[x]) :
                 p = <<"sem", x, i>> /\ sem_queue[x][i] = t
        BY <3>2
      <4> DEFINE q == <<"sem", x>>
      <4>2. q \in Ids /\ W[q] = sem_queue[x] /\ q[1] = "sem" /\ q[2] = x
        BY <1>1
      <4> HIDE DEF q
      <4> QED
        BY <4>1, <4>2
    <3>3. CASE \E c \in Condvars : \E i \in 1 .. Len(cv_queue[c]) :
                 p = <<"condvar", c, i>> /\ cv_queue[c][i] = t
      <4>1. PICK c \in Condvars : \E i \in 1 .. Len(cv_queue[c]) :
                 p = <<"condvar", c, i>> /\ cv_queue[c][i] = t
        BY <3>3
      <4> DEFINE q == <<"condvar", c>>
      <4>2. q \in Ids /\ W[q] = cv_queue[c] /\ q[1] = "condvar" /\ q[2] = c
        BY <1>1
      <4> HIDE DEF q
      <4> QED
        BY <4>1, <4>2
    <3> QED
      BY <2>5, <2>6, <3>1, <3>2, <3>3
  <2>7. ASSUME NEW q \in Ids, NEW i \in 1 .. Len(W[q]), p = <<q[1], q[2], i>>, W[q][i] = t
        PROVE  p \in Places(t)
    <3>1. CASE q[2] \in Mutexes /\ q = <<"mutex", q[2]>>
      BY <1>1, <2>5, <2>7, <3>1
    <3>2. CASE q[2] \in Sems /\ q = <<"sem", q[2]>>
      BY <1>1, <2>5, <2>7, <3>2
    <3>3. CASE q[2] \in Condvars /\ q = <<"condvar", q[2]>>
      BY <1>1, <2>5, <2>7, <3>3
    <3> QED
      BY <1>2, <3>1, <3>2, <3>3
  <2> QED
    BY <2>6, <2>7
<1>5. \A q, r \in Ids : q[1] = r[1] /\ q[2] = r[2] => q = r
  BY <1>2
<1>6. \A q \in Ids : \A i \in 1 .. Len(W[q]) : W[q][i] \in Threads
  BY <1>3
<1>7. \A t \in Threads : Places(t) # {} <=> \E q \in Ids : \E i \in 1 .. Len(W[q]) : W[q][i] = t
  BY <1>4
<1>8. \A t \in Threads : (\A p, r \in Places(t) : p = r) <=>
         \A q, r \in Ids : \A i \in 1 .. Len(W[q]), j \in 1 .. Len(W[r]) :
           W[q][i] = t /\ W[r][j] = t => q = r /\ i = j
  <2> SUFFICES ASSUME NEW t \in Threads
               PROVE  (\A p, r \in Places(t) : p = r) <=>
                      \A q, r \in Ids : \A i \in 1 .. Len(W[q]), j \in 1 .. Len(W[r]) :
                        W[q][i] = t /\ W[r][j] = t => q = r /\ i = j
    OBVIOUS
  <2>1. ASSUME \A p, r \in Places(t) : p = r,
               NEW q \in Ids, NEW r \in Ids, NEW i \in 1 .. Len(W[q]), NEW j \in 1 .. Len(W[r]),
               W[q][i] = t, W[r][j] = t
        PROVE  q = r /\ i = j
    <3>1. <<q[1], q[2], i>> \in Places(t) /\ <<r[1], r[2], j>> \in Places(t)
      BY <1>4, <2>1
    <3>2. <<q[1], q[2], i>> = <<r[1], r[2], j>>
      BY <2>1, <3>1
    <3> QED
      BY <1>5, <3>2
  <2>2. ASSUME \A q, r \in Ids : \A i \in 1 .. Len(W[q]), j \in 1 .. Len(W[r]) :
                 W[q][i] = t /\ W[r][j] = t => q = r /\ i = j,
               NEW p \in Places(t), NEW r \in Places(t)
        PROVE  p = r
    BY <1>4, <2>2
  <2> QED
    BY <2>1, <2>2
<1>9. \A t \in Threads : state[t] \in {"Ready", "Blocked"}
  BY DEF TypeOK
<1>10. ASSUME SleepersAreQueuedOnce PROVE Sleeping(W, state)
  <2>1. \A t \in Threads : state[t] = "Blocked" <=> Places(t) # {}
    BY <1>10 DEF SleepersAreQueuedOnce
  <2>2. \A t \in Threads : \A p, q \in Places(t) : p = q
    BY <1>10 DEF SleepersAreQueuedOnce
  <2> QED
    BY <1>6, <1>7, <1>8, <2>1, <2>2 DEF Sleeping
<1>11. ASSUME Sleeping(W, state) PROVE SleepersAreQueuedOnce
  <2>1. ASSUME NEW t \in Threads PROVE state[t] = "Blocked" <=> Places(t) # {}
    <3>1. ASSUME state[t] = "Blocked" PROVE Places(t) # {}
      BY <1>7, <1>11, <3>1 DEF Sleeping
    <3>2. ASSUME Places(t) # {} PROVE state[t] = "Blocked"
      <4>1. PICK q \in Ids : \E i \in 1 .. Len(W[q]) : W[q][i] = t
        BY <1>7, <3>2
      <4> QED
        BY <1>11, <4>1 DEF Sleeping
    <3> QED
      BY <3>1, <3>2
  <2>2. \A t \in Threads : \A p, q \in Places(t) : p = q
    BY <1>8, <1>11 DEF Sleeping
  <2> QED
    BY <2>1, <2>2, Zenon DEF SleepersAreQueuedOnce
<1> QED
  BY <1>10, <1>11 DEF W

\* A queue is that of a mutex, of a semaphore or of a condition variable.
LEMMA IdShape ==
  \A q \in Ids :
    \/ q[1] = "mutex" /\ q[2] \in Mutexes /\ q = <<"mutex", q[2]>>
    \/ q[1] = "sem" /\ q[2] \in Sems /\ q = <<"sem", q[2]>>
    \/ q[1] = "condvar" /\ q[2] \in Condvars /\ q = <<"condvar", q[2]>>
  BY DEF Ids

\* What an operation on the queue of a mutex does to the queues taken together.
LEMMA MutexQueueChanged ==
  ASSUME TypeOK, NEW m \in Mutexes, NEW x, mutex_queue' = [mutex_queue EXCEPT ![m] = x],
         sem_queue' = sem_queue, cv_queue' = cv_queue
  PROVE  /\ <<"mutex", m>> \in Ids /\ WaitQueues[<<"mutex", m>>] = mutex_queue[m]
         /\ WaitQueues' = [WaitQueues EXCEPT ![<<"mutex", m>>] = x]
<1> DEFINE k == <<"mutex", m>>
<1>1. k \in Ids /\ k[1] = "mutex" /\ k[2] = m
  BY DEF Ids
<1>2. WaitQueues[k] = mutex_queue[m]
  BY <1>1 DEF WaitQueues
<1>3. \A q \in Ids : WaitQueues'[q] = IF q = k THEN x ELSE WaitQueues[q]
  BY <1>1, IdShape DEF WaitQueues, TypeOK
<1> HIDE DEF k
<1>4. WaitQueues' = [q \in Ids |-> WaitQueues'[q]] /\ WaitQueues = [q \in Ids |-> WaitQueues[q]]
  BY DEF WaitQueues
<1>5. WaitQueues' = [WaitQueues EXCEPT ![k] = x]
  BY <1>1, <1>3, <1>4
<1> QED
  BY <1>1, <1>2, <1>5 DEF k

\* The same for a queue of a semaphore.
LEMMA SemQueueChanged ==
  ASSUME TypeOK, NEW m \in Sems, NEW x, sem_queue' = [sem_queue EXCEPT ![m] = x],
         mutex_queue' = mutex_queue, cv_queue' = cv_queue
  PROVE  /\ <<"sem", m>> \in Ids /\ WaitQueues[<<"sem", m>>] = sem_queue[m]
         /\ WaitQueues' = [WaitQueues EXCEPT ![<<"sem", m>>] = x]
<1> DEFINE k == <<"sem", m>>
<1>1. k \in Ids /\ k[1] = "sem" /\ k[2] = m
  BY DEF Ids
<1>2. WaitQueues[k] = sem_queue[m]
  BY <1>1 DEF WaitQueues
<1>3. \A q \in Ids : WaitQueues'[q] = IF q = k THEN x ELSE WaitQueues[q]
  BY <1>1, IdShape DEF WaitQueues, TypeOK
<1> HIDE DEF k
<1>4. WaitQueues' = [q \in Ids |-> WaitQueues'[q]] /\ WaitQueues = [q \in Ids |-> WaitQueues[q]]
  BY DEF WaitQueues
<1>5. WaitQueues' = [WaitQueues EXCEPT ![k] = x]
  BY <1>1, <1>3, <1>4
<1> QED
  BY <1>1, <1>2, <1>5 DEF k

\* The same for a queue of a condition variable.
LEMMA CondvarQueueChanged ==
  ASSUME TypeOK, NEW m \in Condvars, NEW x, cv_queue' = [cv_queue EXCEPT ![m] = x],
         mutex_queue' = mutex_queue, sem_queue' = sem_queue
  PROVE  /\ <<"condvar", m>> \in Ids /\ WaitQueues[<<"condvar", m>>] = cv_queue[m]
         /\ WaitQueues' = [WaitQueues EXCEPT ![<<"condvar", m>>] = x]
<1> DEFINE k == <<"condvar", m>>
<1>1. k \in Ids /\ k[1] = "condvar" /\ k[2] = m
  BY DEF Ids
<1>2. WaitQueues[k] = cv_queue[m]
  BY <1>1 DEF WaitQueues
<1>3. \A q \in Ids : WaitQueues'[q] = IF q = k THEN x ELSE WaitQueues[q]
  BY <1>1, IdShape DEF WaitQueues, TypeOK
<1> HIDE DEF k
<1>4. WaitQueues' = [q \in Ids |-> WaitQueues'[q]] /\ WaitQueues = [q \in Ids |-> WaitQueues[q]]
  BY DEF WaitQueues
<1>5. WaitQueues' = [WaitQueues EXCEPT ![k] = x]
  BY <1>1, <1>3, <1>4
<1> QED
  BY <1>1, <1>2, <1>5 DEF k


\* Every sleeper has one place in a wait queue.
SleepInv == Sleeping(WaitQueues, state)

\* Queues and states have their types.
LEMMA QueueTypes ==
  ASSUME TypeOK
  PROVE  WaitQueues \in QueuesOf /\ state \in States
  BY IdShape DEF WaitQueues, QueuesOf, States, TypeOK

\* A step that changes no queue and no state leaves who sleeps where.
LEMMA NobodyMoves ==
  ASSUME SleepInv, UNCHANGED <<mutex_queue, sem_queue, cv_queue, state>>
  PROVE  SleepInv'
<1>1. WaitQueues' = WaitQueues
  BY DEF WaitQueues
<1> QED  BY <1>1 DEF SleepInv, Sleeping

\* MutexBlocking::lock by a thread that runs.
LEMMA LockSleeps ==
  ASSUME TypeOK, SleepInv, NEW t \in Threads, state[t] = "Ready", NEW m \in Mutexes, lock(t, m),
         UNCHANGED <<sem_queue, cv_queue>>
  PROVE  SleepInv'
<1>1. CASE ~ locked[m]
  BY <1>1, NobodyMoves DEF lock
<1>2. CASE locked[m]
  <2>1. /\ mutex_queue' = [mutex_queue EXCEPT ![m] = Append(mutex_queue[m], t)]
        /\ state' = [state EXCEPT ![t] = "Blocked"]
    BY <1>2 DEF lock
  <2>2. /\ <<"mutex", m>> \in Ids
        /\ WaitQueues' = [WaitQueues EXCEPT ![<<"mutex", m>>] = Append(@, t)]
    BY <2>1, MutexQueueChanged
  <2> QED
    BY <2>1, <2>2, QueueTypes, Sleep DEF SleepInv
<1> QED
  BY <1>1, <1>2

\* MutexBlocking::unlock wakes the first waiter, if there is one.
LEMMA UnlockWakes ==
  ASSUME TypeOK, SleepInv, NEW t \in Threads, NEW m \in Mutexes, unlock(t, m, state),
         UNCHANGED <<sem_queue, cv_queue>>
  PROVE  SleepInv'
<1>1. CASE mutex_queue[m] = <<>>
  BY <1>1, NobodyMoves DEF unlock
<1>2. CASE mutex_queue[m] # <<>>
  <2>1. /\ mutex_queue' = [mutex_queue EXCEPT ![m] = Tail(mutex_queue[m])]
        /\ state' = [state EXCEPT ![Head(mutex_queue[m])] = "Ready"]
    BY <1>2 DEF unlock
  <2>2. /\ <<"mutex", m>> \in Ids /\ WaitQueues[<<"mutex", m>>] = mutex_queue[m]
        /\ WaitQueues' = [WaitQueues EXCEPT ![<<"mutex", m>>] = Tail(@)]
    BY <2>1, MutexQueueChanged
  <2> QED
    BY <1>2, <2>1, <2>2, QueueTypes, Wake DEF SleepInv
<1> QED
  BY <1>1, <1>2

\* Condvar::wait: the caller goes to sleep on the condition variable and the
\* first waiter of the mutex wakes.
LEMMA WaitSleeps ==
  ASSUME TypeOK, SleepInv, NEW t \in Threads, NEW c \in Condvars, NEW m \in Mutexes,
         sys_condvar_wait(t, c, m)
  PROVE  SleepInv'
<1> DEFINE k == <<"mutex", m>>
           l == <<"condvar", c>>
           W == [WaitQueues EXCEPT ![l] = Append(@, t)]
           s == [state EXCEPT ![t] = "Blocked"]
<1>1. /\ state[t] = "Ready" /\ unlock(t, m, s) /\ sem_queue' = sem_queue
      /\ cv_queue' = [cv_queue EXCEPT ![c] = Append(cv_queue[c], t)]
  BY DEF sys_condvar_wait, CanCall, semVars
<1>2. /\ k \in Ids /\ l \in Ids /\ k # l /\ k[1] = "mutex" /\ k[2] = m
      /\ l[1] = "condvar" /\ l[2] = c
  BY DEF Ids
<1>3. WaitQueues \in QueuesOf /\ state \in States
  BY QueueTypes
<1>4. WaitQueues[k] = mutex_queue[m] /\ WaitQueues[l] = cv_queue[c]
  BY <1>2 DEF WaitQueues
<1>5. Sleeping(W, s) /\ W \in QueuesOf /\ s \in States
  BY <1>1, <1>2, <1>3, Sleep DEF SleepInv
<1>6. WaitQueues' = [q \in Ids |-> WaitQueues'[q]]
  BY DEF WaitQueues
<1>7. \A q \in Ids : W[q] = IF q = l THEN Append(cv_queue[c], t) ELSE WaitQueues[q]
  BY <1>2, <1>3, <1>4 DEF QueuesOf
<1>8. W = [q \in Ids |-> W[q]] /\ W[k] = mutex_queue[m]
  BY <1>2, <1>3, <1>4 DEF QueuesOf
<1> HIDE DEF k, l, W
<1>9. CASE mutex_queue[m] = <<>>
  <2>1. mutex_queue' = mutex_queue /\ state' = s
    BY <1>1, <1>9 DEF unlock
  <2>2. \A q \in Ids : WaitQueues'[q] = W[q]
    BY <1>1, <1>2, <1>7, <2>1, IdShape, SMTT(30) DEF WaitQueues, TypeOK, l
  <2>3. WaitQueues' = W
    BY <1>6, <1>8, <2>2
  <2> QED
    BY <1>5, <2>1, <2>3 DEF SleepInv
<1>10. CASE mutex_queue[m] # <<>>
  <2>1. /\ mutex_queue' = [mutex_queue EXCEPT ![m] = Tail(mutex_queue[m])]
        /\ state' = [s EXCEPT ![Head(mutex_queue[m])] = "Ready"]
    BY <1>1, <1>10 DEF unlock
  <2>2. \A q \in Ids : WaitQueues'[q] = IF q = k THEN Tail(W[k]) ELSE W[q]
    BY <1>1, <1>2, <1>7, <1>8, <2>1, IdShape, ZenonT(30) DEF WaitQueues, TypeOK, k, l
  <2>3. WaitQueues' = [W EXCEPT ![k] = Tail(@)]
    BY <1>2, <1>6, <1>8, <2>2
  <2> HIDE DEF s
  <2> QED
    BY <1>2, <1>5, <1>8, <1>10, <2>1, <2>3, Wake DEF SleepInv
<1> QED
  BY <1>9, <1>10

\* Where Semaphore::up looks for a waiter there is one.
LEMMA WaiterWhenNegative ==
  ASSUME TypeOK, CountEncodesWaiters, NEW x \in Sems, count[x] + 1 <= 0
  PROVE  sem_queue[x] # <<>>
<1>1. sem_queue[x] \in Seq(Threads) /\ count[x] \in Int
  BY DEF TypeOK
<1>2. Len(sem_queue[x]) = - count[x]
  BY <1>1 DEF CountEncodesWaiters
<1> QED
  BY <1>1, <1>2

\* No call makes a thread sleep outside the queues, or twice in them.
LEMMA NextSleepInv == IndInv /\ SleepInv /\ [Next]_vars => SleepInv'
<1> SUFFICES ASSUME IndInv, SleepInv, [Next]_vars PROVE SleepInv'
  OBVIOUS
<1> USE DEF IndInv
<1>1. ASSUME NEW t \in Threads, Relock(t) PROVE SleepInv'
  <2>1. /\ state[t] = "Ready" /\ relock[t] \in Mutexes /\ lock(t, relock[t])
        /\ UNCHANGED <<sem_queue, cv_queue>>
    BY <1>1 DEF Relock, TypeOK, semVars
  <2> QED
    BY <2>1, LockSleeps
<1>2. ASSUME NEW t \in Threads, NEW m \in Mutexes, sys_mutex_lock(t, m) PROVE SleepInv'
  BY <1>2, LockSleeps DEF sys_mutex_lock, CanCall, semVars, cvVars
<1>3. ASSUME NEW t \in Threads, NEW m \in Mutexes, sys_mutex_unlock(t, m) PROVE SleepInv'
  BY <1>3, UnlockWakes DEF sys_mutex_unlock, semVars, cvVars
<1>4. ASSUME NEW t \in Threads, NEW x \in Sems, sys_semaphore_up(t, x) PROVE SleepInv'
  <2>1. up(x) /\ UNCHANGED <<mutex_queue, cv_queue>>
    BY <1>4 DEF sys_semaphore_up, mutexVars, cvVars
  <2>2. CASE ~ (count[x] + 1 <= 0)
    BY <2>1, <2>2, NobodyMoves DEF up
  <2>3. CASE count[x] + 1 <= 0
    <3>1. /\ sem_queue' = [sem_queue EXCEPT ![x] = Tail(sem_queue[x])]
          /\ state' = [state EXCEPT ![Head(sem_queue[x])] = "Ready"]
      BY <2>1, <2>3 DEF up
    <3>2. sem_queue[x] # <<>>
      BY <2>3, WaiterWhenNegative
    <3>3. /\ <<"sem", x>> \in Ids /\ WaitQueues[<<"sem", x>>] = sem_queue[x]
          /\ WaitQueues' = [WaitQueues EXCEPT ![<<"sem", x>>] = Tail(@)]
      BY <2>1, <3>1, SemQueueChanged
    <3> QED
      BY <3>1, <3>2, <3>3, QueueTypes, Wake DEF SleepInv
  <2> QED
    BY <2>2, <2>3
<1>5. ASSUME NEW t \in Threads, NEW x \in Sems, sys_semaphore_down(t, x) PROVE SleepInv'
  <2>1. down(t, x) /\ state[t] = "Ready" /\ UNCHANGED <<mutex_queue, cv_queue>>
    BY <1>5 DEF sys_semaphore_down, CanCall, mutexVars, cvVars
  <2>2. CASE ~ (count[x] - 1 < 0)
    BY <2>1, <2>2, NobodyMoves DEF down
  <2>3. CASE count[x] - 1 < 0
    <3>1. /\ sem_queue' = [sem_queue EXCEPT ![x] = Append(sem_queue[x], t)]
          /\ state' = [state EXCEPT ![t] = "Blocked"]
      BY <2>1, <2>3 DEF down
    <3>2. /\ <<"sem", x>> \in Ids
          /\ WaitQueues' = [WaitQueues EXCEPT ![<<"sem", x>>] = Append(@, t)]
      BY <2>1, <3>1, SemQueueChanged
    <3> QED
      BY <2>1, <3>1, <3>2, QueueTypes, Sleep DEF SleepInv
  <2> QED
    BY <2>2, <2>3
<1>6. ASSUME NEW t \in Threads, NEW c \in Condvars, NEW m \in Mutexes, sys_condvar_wait(t, c, m)
      PROVE  SleepInv'
  BY <1>6, WaitSleeps
<1>7. ASSUME NEW t \in Threads, NEW c \in Condvars, sys_condvar_signal(t, c) PROVE SleepInv'
  <2>1. /\ cv_queue[c] # <<>> /\ UNCHANGED <<mutex_queue, sem_queue>>
        /\ cv_queue' = [cv_queue EXCEPT ![c] = Tail(cv_queue[c])]
        /\ state' = [state EXCEPT ![Head(cv_queue[c])] = "Ready"]
    BY <1>7 DEF sys_condvar_signal, mutexVars, semVars
  <2>2. /\ <<"condvar", c>> \in Ids /\ WaitQueues[<<"condvar", c>>] = cv_queue[c]
        /\ WaitQueues' = [WaitQueues EXCEPT ![<<"condvar", c>>] = Tail(@)]
    BY <2>1, CondvarQueueChanged
  <2> QED
    BY <2>1, <2>2, QueueTypes, Wake DEF SleepInv
<1>8. ASSUME NEW t \in Threads, NEW c \in Condvars, broadcast(t, c) PROVE SleepInv'
  <2>1. /\ UNCHANGED <<mutex_queue, sem_queue>>
        /\ cv_queue' = [cv_queue EXCEPT ![c] = <<>>]
        /\ state' = [u \in Threads |-> IF \E i \in 1 .. Len(cv_queue[c]) : cv_queue[c][i] = u
                                       THEN "Ready" ELSE state[u]]
    BY <1>8 DEF broadcast, mutexVars, semVars
  <2>2. /\ <<"condvar", c>> \in Ids /\ WaitQueues[<<"condvar", c>>] = cv_queue[c]
        /\ WaitQueues' = [WaitQueues EXCEPT ![<<"condvar", c>>] = <<>>]
    BY <2>1, CondvarQueueChanged
  <2> QED
    <3> DEFINE k == <<"condvar", c>>
    <3>1. WokenFrom(WaitQueues[k], state, state')
      BY <2>1, <2>2 DEF WokenFrom
    <3>2. k \in Ids /\ WaitQueues' = [WaitQueues EXCEPT ![k] = <<>>]
      BY <2>2
    <3> HIDE DEF k
    <3>3. WaitQueues \in QueuesOf /\ state \in States
      BY QueueTypes
    <3> QED
      BY <3>1, <3>2, <3>3, WakeAll DEF SleepInv
<1>9. CASE UNCHANGED vars
  BY <1>9, NobodyMoves DEF vars, mutexVars, semVars, cvVars
<1> QED
  BY <1>1, <1>2, <1>3, <1>4, <1>5, <1>6, <1>7, <1>8, <1>9 DEF Next

\* At the start nobody sleeps.
LEMMA InitSleepInv == Init => SleepInv
<1> SUFFICES ASSUME Init PROVE SleepInv
  OBVIOUS
<1>1. \A q \in Ids : WaitQueues[q] = <<>>
  BY IdShape DEF Init, WaitQueues
<1>2. \A q \in Ids : Len(WaitQueues[q]) = 0
  BY <1>1
<1> QED
  BY <1>2 DEF Init, SleepInv, Sleeping

\* For any number of threads and primitives: a thread that is blocked is in one
\* wait queue, once, and a queue holds only blocked threads.  block_current_and_
\* run_next loses nobody, and wake_task is never called on a runnable thread.
THEOREM SleepersFound == Spec => []SleepersAreQueuedOnce
<1>1. Spec => []SleepInv
  BY InitSleepInv, NextSleepInv, Invariance, PTL DEF Spec
<1>2. IndInv /\ SleepInv => SleepersAreQueuedOnce
  BY PlacesAreQueued DEF IndInv, SleepInv
<1> QED
  BY <1>1, <1>2, Invariance, PTL

-----------------------------------------------------------------------------
(* What a call does to the caller and to the thread it wakes.              *)

\* The queues of W that thread t is in.
WaitsIn(W, t) == {q \in Ids : \E i \in 1 .. Len(W[q]) : W[q][i] = t}

\* The queues thread t is in.
Waits(t) == WaitsIn(WaitQueues, t)

\* The queues after t has joined queue q, and after its head has left.
Joined(W, q, t) == [W EXCEPT ![q] = Append(@, t)]
Left(W, q) == [W EXCEPT ![q] = Tail(@)]

\* Blocked is to be in a queue, and in one only.
LEMMA AsleepSomewhere ==
  ASSUME NEW W \in QueuesOf, NEW s \in States, Sleeping(W, s), NEW t \in Threads
  PROVE  /\ s[t] = "Blocked" <=> WaitsIn(W, t) # {}
         /\ \A q, r \in WaitsIn(W, t) : q = r
  BY DEF WaitsIn, Sleeping, States

\* Who goes to sleep is in the one queue, and the others stay where they were.
LEMMA FallsAsleep ==
  ASSUME NEW W \in QueuesOf, NEW s \in States, Sleeping(W, s),
         NEW q \in Ids, NEW t \in Threads, s[t] = "Ready",
         NEW V, V = Joined(W, q, t)
  PROVE  /\ WaitsIn(V, t) = {q}
         /\ \A u \in Threads \ {t} : WaitsIn(V, u) = WaitsIn(W, u)
<1>1. W[q] \in Seq(Threads) /\ Len(W[q]) \in Nat
  BY DEF QueuesOf
<1>2. /\ Len(V[q]) = Len(W[q]) + 1 /\ V[q][Len(W[q]) + 1] = t
      /\ \A i \in 1 .. Len(W[q]) : V[q][i] = W[q][i]
      /\ \A r \in Ids : r # q => V[r] = W[r]
  BY <1>1 DEF QueuesOf, Joined
<1>3. \A r \in Ids : \A i \in 1 .. Len(W[r]) : W[r][i] # t
  BY DEF Sleeping
<1>4. \A r \in Ids : (\E i \in 1 .. Len(V[r]) : V[r][i] = t) <=> r = q
  BY <1>1, <1>2, <1>3
<1>5. ASSUME NEW u \in Threads \ {t}, NEW r \in Ids
      PROVE  (\E i \in 1 .. Len(V[r]) : V[r][i] = u) <=> (\E i \in 1 .. Len(W[r]) : W[r][i] = u)
  <2>1. CASE r # q
    BY <1>2, <2>1
  <2>2. CASE r = q
    <3>1. ASSUME NEW i \in 1 .. Len(V[r]), V[r][i] = u
          PROVE  i \in 1 .. Len(W[r]) /\ W[r][i] = u
      BY <1>1, <1>2, <2>2, <3>1
    <3>2. ASSUME NEW i \in 1 .. Len(W[r]), W[r][i] = u
          PROVE  i \in 1 .. Len(V[r]) /\ V[r][i] = u
      BY <1>1, <1>2, <2>2, <3>2
    <3> QED  BY <3>1, <3>2
  <2> QED  BY <2>1, <2>2
<1>6. WaitsIn(V, t) = {q}
  BY <1>4 DEF WaitsIn
<1>7. \A u \in Threads \ {t} : WaitsIn(V, u) = WaitsIn(W, u)
  BY <1>5 DEF WaitsIn
<1> QED  BY <1>6, <1>7

\* Who is woken was in the one queue and is in none, and the others stay.
LEMMA WakesUp ==
  ASSUME NEW W \in QueuesOf, NEW s \in States, Sleeping(W, s), NEW q \in Ids, W[q] # <<>>,
         NEW t, t = Head(W[q]), NEW V, V = Left(W, q)
  PROVE  /\ t \in Threads /\ s[t] = "Blocked"
         /\ WaitsIn(W, t) = {q} /\ WaitsIn(V, t) = {}
         /\ \A u \in Threads \ {t} : WaitsIn(V, u) = WaitsIn(W, u)
<1>1. W[q] \in Seq(Threads) /\ Len(W[q]) \in Nat \ {0} /\ t = W[q][1] /\ t \in Threads
  BY DEF QueuesOf
<1>2. /\ Len(V[q]) = Len(W[q]) - 1
      /\ \A i \in 1 .. Len(W[q]) - 1 : V[q][i] = W[q][i + 1]
      /\ \A r \in Ids : r # q => V[r] = W[r]
  BY <1>1 DEF QueuesOf, Left
<1>3. \A r \in Ids : \A i \in 1 .. Len(W[r]) : W[r][i] = t => r = q /\ i = 1
  BY <1>1 DEF Sleeping
<1>4. s[t] = "Blocked"
  BY <1>1 DEF Sleeping
<1>5. WaitsIn(W, t) = {q}
  BY <1>1, <1>3 DEF WaitsIn
<1>6. \A r \in Ids : ~ \E i \in 1 .. Len(V[r]) : V[r][i] = t
  BY <1>1, <1>2, <1>3
<1>7. WaitsIn(V, t) = {}
  BY <1>6 DEF WaitsIn
<1>8. ASSUME NEW u \in Threads \ {t}, NEW r \in Ids
      PROVE  (\E i \in 1 .. Len(V[r]) : V[r][i] = u) <=> (\E i \in 1 .. Len(W[r]) : W[r][i] = u)
  <2>1. CASE r # q
    BY <1>2, <2>1
  <2>2. CASE r = q
    <3>1. ASSUME NEW i \in 1 .. Len(V[r]), V[r][i] = u
          PROVE  i + 1 \in 1 .. Len(W[r]) /\ W[r][i + 1] = u
      BY <1>1, <1>2, <2>2, <3>1
    <3>2. ASSUME NEW i \in 1 .. Len(W[r]), W[r][i] = u
          PROVE  i - 1 \in 1 .. Len(V[r]) /\ V[r][i - 1] = u
      <4>1. i # 1
        BY <1>1, <2>2, <3>2
      <4>2. i - 1 \in 1 .. Len(W[q]) - 1 /\ (i - 1) + 1 = i
        BY <1>1, <2>2, <4>1
      <4> QED  BY <1>2, <2>2, <3>2, <4>2
    <3> QED  BY <3>1, <3>2
  <2> QED  BY <2>1, <2>2
<1>9. \A u \in Threads \ {t} : WaitsIn(V, u) = WaitsIn(W, u)
  BY <1>8, ZenonT(30) DEF WaitsIn
<1> QED  BY <1>1, <1>4, <1>5, <1>7, <1>9

\* The invariants of Sync that the programs rely on.
Safe == IndInv /\ SleepInv

\* A call leaves thread u alone.
Keeps(u) == state'[u] = state[u] /\ holds'[u] = holds[u] /\ Waits(u)' = Waits(u)

\* A thread runs when it is in no queue.
LEMMA Awake ==
  ASSUME Safe, NEW t \in Threads
  PROVE  state[t] = "Ready" <=> Waits(t) = {}
<1>1. state[t] \in {"Ready", "Blocked"}
  BY DEF Safe, IndInv, TypeOK
<1> QED  BY <1>1, QueueTypes, AsleepSomewhere DEF Safe, IndInv, SleepInv, Waits

\* The queues a thread is in after a step are those of the new queues.
LEMMA WaitsAfter == \A u : Waits(u)' = WaitsIn(WaitQueues', u)
  BY DEF Waits, WaitsIn

\* A step that changes no queue leaves everybody where they are.
LEMMA SameQueues ==
  ASSUME UNCHANGED <<mutex_queue, sem_queue, cv_queue>>
  PROVE  \A u : Waits(u)' = Waits(u)
  BY DEF Waits, WaitsIn, WaitQueues

\* sys_mutex_lock: the caller has the mutex, or sleeps in its queue.
LEMMA LockCall ==
  ASSUME Safe, NEW t \in Threads, NEW m \in Mutexes, sys_mutex_lock(t, m)
  PROVE  /\ \A u \in Threads \ {t} : Keeps(u)
         /\ \/ state'[t] = "Ready" /\ Waits(t)' = {} /\ holds'[t] = holds[t] \cup {m}
            \/ state'[t] = "Blocked" /\ Waits(t)' = {<<"mutex", m>>} /\ holds'[t] = holds[t]
<1>1. /\ lock(t, m) /\ state[t] = "Ready" /\ UNCHANGED <<sem_queue, cv_queue>>
      /\ state \in States /\ holds \in [Threads -> SUBSET Mutexes] /\ TypeOK
  BY DEF sys_mutex_lock, CanCall, semVars, cvVars, Safe, IndInv, TypeOK, States
<1>2. CASE ~ locked[m]
  <2>1. /\ holds' = [holds EXCEPT ![t] = @ \cup {m}] /\ state' = state
        /\ UNCHANGED <<mutex_queue, sem_queue, cv_queue>>
    BY <1>1, <1>2 DEF lock
  <2>2. Waits(t) = {}
    BY <1>1, Awake
  <2> QED  BY <1>1, <2>1, <2>2, SameQueues DEF Keeps
<1>3. CASE locked[m]
  <2>1. /\ mutex_queue' = [mutex_queue EXCEPT ![m] = Append(mutex_queue[m], t)]
        /\ state' = [state EXCEPT ![t] = "Blocked"] /\ holds' = holds
    BY <1>1, <1>3 DEF lock
  <2>2. /\ <<"mutex", m>> \in Ids
        /\ WaitQueues' = [WaitQueues EXCEPT ![<<"mutex", m>>] = Append(@, t)]
    BY <1>1, <2>1, MutexQueueChanged
  <2>3. WaitQueues \in QueuesOf /\ state \in States /\ Sleeping(WaitQueues, state)
    BY <1>1, QueueTypes DEF Safe, SleepInv
  <2> DEFINE q == <<"mutex", m>>
  <2>4. q \in Ids /\ WaitQueues' = Joined(WaitQueues, q, t)
    BY <2>2 DEF Joined
  <2> HIDE DEF q
  <2>5. /\ WaitsIn(WaitQueues', t) = {q}
        /\ \A u \in Threads \ {t} : WaitsIn(WaitQueues', u) = WaitsIn(WaitQueues, u)
    BY <1>1, <2>3, <2>4, FallsAsleep
  <2>6. Waits(t)' = {q} /\ \A u \in Threads \ {t} : Waits(u)' = Waits(u)
    BY <2>5, WaitsAfter DEF Waits
  <2> QED  BY <1>1, <2>1, <2>6 DEF Keeps, States, q
<1> QED  BY <1>2, <1>3

\* sys_mutex_unlock: the caller gives the mutex up; at most one sleeper of its
\* queue is woken, and has it.
LEMMA UnlockCall ==
  ASSUME Safe, NEW t \in Threads, NEW m \in Mutexes, sys_mutex_unlock(t, m)
  PROVE  /\ state'[t] = "Ready" /\ Waits(t)' = {} /\ holds'[t] = holds[t] \ {m}
         /\ \/ \A u \in Threads \ {t} : Keeps(u)
            \/ \E w \in Threads \ {t} :
                 /\ state[w] = "Blocked" /\ Waits(w) = {<<"mutex", m>>}
                 /\ state'[w] = "Ready" /\ Waits(w)' = {} /\ holds'[w] = holds[w] \cup {m}
                 /\ \A u \in Threads \ {t, w} : Keeps(u)
<1>1. /\ unlock(t, m, state) /\ state[t] = "Ready" /\ UNCHANGED <<sem_queue, cv_queue>>
      /\ state \in States /\ holds \in [Threads -> SUBSET Mutexes] /\ TypeOK
      /\ WaitQueues \in QueuesOf /\ Sleeping(WaitQueues, state) /\ Waits(t) = {}
  BY QueueTypes, Awake
     DEF sys_mutex_unlock, CanCall, semVars, cvVars, Safe, IndInv, TypeOK, States, SleepInv
<1>2. CASE mutex_queue[m] = <<>>
  <2>1. /\ holds' = [holds EXCEPT ![t] = @ \ {m}] /\ state' = state
        /\ UNCHANGED <<mutex_queue, sem_queue, cv_queue>>
    BY <1>1, <1>2 DEF unlock
  <2> QED  BY <1>1, <2>1, SameQueues DEF Keeps
<1>3. CASE mutex_queue[m] # <<>>
  <2>1. PICK w : w = Head(mutex_queue[m])
    OBVIOUS
  <2>2. /\ mutex_queue' = [mutex_queue EXCEPT ![m] = Tail(mutex_queue[m])]
        /\ state' = [state EXCEPT ![w] = "Ready"]
        /\ holds' = [holds EXCEPT ![t] = @ \ {m}, ![w] = @ \cup {m}]
    BY <2>1, <1>1, <1>3 DEF unlock
  <2>3. /\ <<"mutex", m>> \in Ids /\ WaitQueues[<<"mutex", m>>] = mutex_queue[m]
        /\ WaitQueues' = [WaitQueues EXCEPT ![<<"mutex", m>>] = Tail(@)]
    BY <1>1, <2>2, MutexQueueChanged
  <2> DEFINE q == <<"mutex", m>>
  <2>4. /\ q \in Ids /\ WaitQueues[q] # <<>> /\ w = Head(WaitQueues[q])
        /\ WaitQueues' = Left(WaitQueues, q)
    BY <2>1, <1>3, <2>3 DEF Left
  <2> HIDE DEF q
  <2>5. /\ w \in Threads /\ state[w] = "Blocked"
        /\ WaitsIn(WaitQueues, w) = {q} /\ WaitsIn(WaitQueues', w) = {}
        /\ \A u \in Threads \ {w} : WaitsIn(WaitQueues', u) = WaitsIn(WaitQueues, u)
    BY <1>1, <2>4, WakesUp, SMTT(30)
  <2>6. /\ w \in Threads /\ state[w] = "Blocked" /\ Waits(w) = {<<"mutex", m>>} /\ Waits(w)' = {}
        /\ \A u \in Threads \ {w} : Waits(u)' = Waits(u)
    BY <2>5, WaitsAfter DEF Waits, q
  <2>7. w # t
    BY <1>1, <2>6
  <2>8. /\ state'[w] = "Ready" /\ \A u \in Threads \ {w} : state'[u] = state[u]
        /\ holds'[w] = holds[w] \cup {m} /\ holds'[t] = holds[t] \ {m}
        /\ \A u \in Threads \ {t, w} : holds'[u] = holds[u]
    BY <1>1, <2>2, <2>6, <2>7 DEF States
  <2> QED  BY <1>1, <2>6, <2>7, <2>8 DEF Keeps
<1> QED  BY <1>2, <1>3

\* sys_semaphore_down: the caller has a permit, or sleeps in the queue.
LEMMA DownCall ==
  ASSUME Safe, NEW t \in Threads, NEW x \in Sems, sys_semaphore_down(t, x)
  PROVE  /\ \A u \in Threads \ {t} : Keeps(u)
         /\ holds'[t] = holds[t] /\ ups' = ups
         /\ \/ state'[t] = "Ready" /\ Waits(t)' = {} /\ downs' = [downs EXCEPT ![x] = @ + 1]
            \/ state'[t] = "Blocked" /\ Waits(t)' = {<<"sem", x>>} /\ downs' = downs
<1>1. /\ down(t, x) /\ state[t] = "Ready" /\ UNCHANGED <<mutex_queue, cv_queue, holds>>
      /\ state \in States /\ TypeOK
  BY DEF sys_semaphore_down, CanCall, mutexVars, cvVars, Safe, IndInv, TypeOK, States
<1>2. CASE ~ (count[x] - 1 < 0)
  <2>1. /\ downs' = [downs EXCEPT ![x] = @ + 1] /\ state' = state /\ ups' = ups
        /\ UNCHANGED <<mutex_queue, sem_queue, cv_queue>>
    BY <1>1, <1>2 DEF down
  <2>2. Waits(t) = {}
    BY <1>1, Awake
  <2> QED  BY <1>1, <2>1, <2>2, SameQueues DEF Keeps
<1>3. CASE count[x] - 1 < 0
  <2>1. /\ sem_queue' = [sem_queue EXCEPT ![x] = Append(sem_queue[x], t)]
        /\ state' = [state EXCEPT ![t] = "Blocked"] /\ downs' = downs /\ ups' = ups
    BY <1>1, <1>3 DEF down
  <2>2. /\ <<"sem", x>> \in Ids
        /\ WaitQueues' = [WaitQueues EXCEPT ![<<"sem", x>>] = Append(@, t)]
    BY <1>1, <2>1, SemQueueChanged
  <2>3. WaitQueues \in QueuesOf /\ state \in States /\ Sleeping(WaitQueues, state)
    BY <1>1, QueueTypes DEF Safe, SleepInv
  <2> DEFINE q == <<"sem", x>>
  <2>4. q \in Ids /\ WaitQueues' = Joined(WaitQueues, q, t)
    BY <2>2 DEF Joined
  <2> HIDE DEF q
  <2>5. /\ WaitsIn(WaitQueues', t) = {q}
        /\ \A u \in Threads \ {t} : WaitsIn(WaitQueues', u) = WaitsIn(WaitQueues, u)
    BY <1>1, <2>3, <2>4, FallsAsleep
  <2>6. Waits(t)' = {q} /\ \A u \in Threads \ {t} : Waits(u)' = Waits(u)
    BY <2>5, WaitsAfter DEF Waits
  <2> QED  BY <1>1, <2>1, <2>6 DEF Keeps, States, q
<1> QED  BY <1>2, <1>3

\* sys_semaphore_up: at most one sleeper of the queue is woken, with a permit.
LEMMA UpCall ==
  ASSUME Safe, NEW t \in Threads, NEW x \in Sems, sys_semaphore_up(t, x)
  PROVE  /\ holds' = holds /\ ups' = [ups EXCEPT ![x] = @ + 1]
         /\ state'[t] = "Ready" /\ Waits(t)' = {}
         /\ \/ (\A u \in Threads \ {t} : Keeps(u)) /\ downs' = downs
            \/ /\ downs' = [downs EXCEPT ![x] = @ + 1]
               /\ \E w \in Threads \ {t} :
                    /\ state[w] = "Blocked" /\ Waits(w) = {<<"sem", x>>}
                    /\ state'[w] = "Ready" /\ Waits(w)' = {}
                    /\ \A u \in Threads \ {t, w} : Keeps(u)
<1>1. /\ up(x) /\ state[t] = "Ready" /\ UNCHANGED <<mutex_queue, cv_queue, holds>>
      /\ state \in States /\ TypeOK
      /\ WaitQueues \in QueuesOf /\ Sleeping(WaitQueues, state) /\ Waits(t) = {}
  BY QueueTypes, Awake
     DEF sys_semaphore_up, CanCall, mutexVars, cvVars, Safe, IndInv, TypeOK, States, SleepInv
<1>2. CASE ~ (count[x] + 1 <= 0)
  <2>1. /\ downs' = downs /\ state' = state /\ ups' = [ups EXCEPT ![x] = @ + 1]
        /\ UNCHANGED <<mutex_queue, sem_queue, cv_queue>>
    BY <1>1, <1>2 DEF up
  <2> QED  BY <1>1, <2>1, SameQueues DEF Keeps
<1>3. CASE count[x] + 1 <= 0
  <2>1. PICK w : w = Head(sem_queue[x])
    OBVIOUS
  <2>2. /\ sem_queue' = [sem_queue EXCEPT ![x] = Tail(sem_queue[x])]
        /\ state' = [state EXCEPT ![w] = "Ready"]
        /\ downs' = [downs EXCEPT ![x] = @ + 1] /\ ups' = [ups EXCEPT ![x] = @ + 1]
    BY <2>1, <1>1, <1>3 DEF up
  <2>3. sem_queue[x] # <<>>
    BY <1>3, WaiterWhenNegative DEF Safe, IndInv
  <2>4. /\ <<"sem", x>> \in Ids /\ WaitQueues[<<"sem", x>>] = sem_queue[x]
        /\ WaitQueues' = [WaitQueues EXCEPT ![<<"sem", x>>] = Tail(@)]
    BY <1>1, <2>2, SemQueueChanged
  <2> DEFINE q == <<"sem", x>>
  <2>5. /\ q \in Ids /\ WaitQueues[q] # <<>> /\ w = Head(WaitQueues[q])
        /\ WaitQueues' = Left(WaitQueues, q)
    BY <2>1, <2>3, <2>4 DEF Left
  <2> HIDE DEF q
  <2>6. /\ w \in Threads /\ state[w] = "Blocked"
        /\ WaitsIn(WaitQueues, w) = {q} /\ WaitsIn(WaitQueues', w) = {}
        /\ \A u \in Threads \ {w} : WaitsIn(WaitQueues', u) = WaitsIn(WaitQueues, u)
    BY <1>1, <2>5, WakesUp, SMTT(30)
  <2>7. /\ w \in Threads /\ state[w] = "Blocked" /\ Waits(w) = {<<"sem", x>>} /\ Waits(w)' = {}
        /\ \A u \in Threads \ {w} : Waits(u)' = Waits(u)
    BY <2>6, WaitsAfter DEF Waits, q
  <2>8. w # t
    BY <1>1, <2>7
  <2>9. state'[w] = "Ready" /\ \A u \in Threads \ {w} : state'[u] = state[u]
    BY <1>1, <2>2, <2>7 DEF States
  <2> QED  BY <1>1, <2>2, <2>7, <2>8, <2>9 DEF Keeps
<1> QED  BY <1>2, <1>3

\* Every call a program makes is one of Sync's, and so keeps its invariants.
LEMMA SafeStep ==
  ASSUME Safe, [Next]_vars
  PROVE  Safe'
  BY NextIndInv, NextSleepInv DEF Safe

\* They hold when the program starts.
LEMMA SafeInit == Init => Safe
  BY InitIndInv, InitSleepInv DEF Safe
=============================================================================
