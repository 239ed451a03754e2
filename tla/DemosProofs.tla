---------------------------- MODULE DemosProofs ----------------------------
(***************************************************************************)
(* Proofs about philosopher_dinner.rs (Philosophers) and race_counter.rs   *)
(* (RaceCounter), for every number of threads, forks and iterations.  They *)
(* use the mutexes only through what SyncProofs says of them: its          *)
(* invariants, and what a call does to the caller and to the thread it     *)
(* wakes.                                                                  *)
(***************************************************************************)
EXTENDS Philosophers, SyncProofs, FiniteSetTheorems, WellFoundedInduction

(* philosopher_dinner.rs                                                   *)

\* Philosopher i is thread i, and fork i mutex i.
DinnerSetup ==
  /\ N \in Nat /\ N >= 2
  /\ Threads = 0 .. N - 1 /\ Mutexes = 0 .. N - 1

\* The order in which philosopher id takes the forks.
First(id) == Forks(id)[1]
Second(id) == Forks(id)[2]

\* Where a philosopher can be with a as the first fork and b as the second,
\* and what they hold there.
AtTable(at, run, forks, waits, a, b) ==
  \/ at \in {"think", "lock first"} /\ run = "Ready" /\ forks = {}
  \/ at = "lock second" /\ run = "Ready" /\ forks = {a}
  \/ at = "lock second" /\ run = "Blocked" /\ forks = {} /\ waits = {<<"mutex", a>>}
  \/ at = "eat" /\ run = "Ready" /\ forks = {a, b}
  \/ at = "eat" /\ run = "Blocked" /\ forks = {a} /\ waits = {<<"mutex", b>>}
  \/ at = "unlock second" /\ run = "Ready" /\ forks = {a, b}
  \/ at = "unlock first" /\ run = "Ready" /\ forks = {a}

\* Philosopher id is at one of these places.
PhilosopherAt(id) ==
  AtTable(pc[id], state[id], holds[id], Waits(id), First(id), Second(id))

\* Every philosopher is where the table says.
DinnerInv ==
  /\ Safe
  /\ pc \in [Threads -> {"think", "lock first", "lock second", "eat",
                         "unlock second", "unlock first"}]
  /\ relock = [t \in Threads |-> NoMutex]
  /\ \A id \in Threads : PhilosopherAt(id)

\* Every philosopher takes the lower-numbered fork first.
LEMMA ForksOrdered ==
  ASSUME DinnerSetup, NEW id \in Threads
  PROVE  /\ First(id) \in Mutexes /\ Second(id) \in Mutexes /\ First(id) < Second(id)
         /\ {First(id), Second(id)} = {id, (id + 1) % N}
<1>1. id \in Int /\ 0 <= id /\ id < N /\ N \in Nat /\ N >= 2
  BY DEF DinnerSetup
<1>2. (id + 1) % N = IF id + 1 = N THEN 0 ELSE id + 1
  BY <1>1
<1> QED  BY <1>1, <1>2 DEF First, Second, Forks, DinnerSetup

\* The forks of a philosopher are the same after a step.
LEMMA AtTableAfter ==
  \A id : PhilosopherAt(id)' <=>
            AtTable(pc'[id], state'[id], holds'[id], Waits(id)', First(id), Second(id))
  BY DEF PhilosopherAt, AtTable, First, Second, Forks

\* A call of lock leaves the other philosophers where they are.
LEMMA ForkTaken ==
  ASSUME DinnerSetup, DinnerInv, NEW id \in Threads, NEW m \in Mutexes, sys_mutex_lock(id, m),
         NEW to, pc' = [pc EXCEPT ![id] = to]
  PROVE  /\ Safe' /\ relock' = relock
         /\ \A u \in Threads \ {id} : PhilosopherAt(u)'
         /\ \/ state'[id] = "Ready" /\ holds'[id] = holds[id] \cup {m}
            \/ state'[id] = "Blocked" /\ holds'[id] = holds[id] /\ Waits(id)' = {<<"mutex", m>>}
<1>1. Safe'
  BY SafeStep DEF DinnerInv, Next
<1>2. relock' = relock
  BY DEF sys_mutex_lock, cvVars
<1>3. \A u \in Threads \ {id} : PhilosopherAt(u)'
  <2>1. \A u \in Threads \ {id} : Keeps(u) /\ pc'[u] = pc[u] /\ PhilosopherAt(u)
    BY LockCall DEF DinnerInv
  <2> QED  BY <2>1, AtTableAfter DEF PhilosopherAt, Keeps
<1> QED  BY <1>1, <1>2, <1>3, LockCall DEF DinnerInv

\* Who waits for one mutex waits for that one.
LEMMA OneMutex ==
  ASSUME NEW x, NEW y, {<<"mutex", x>>} = {<<"mutex", y>>}
  PROVE  x = y
<1>1. <<"mutex", x>> = <<"mutex", y>>
  OBVIOUS
<1> QED  BY <1>1

\* A call of unlock: the philosopher who slept for the fork has it.
LEMMA ForkReleased ==
  ASSUME DinnerSetup, DinnerInv, NEW id \in Threads, NEW m \in Mutexes, sys_mutex_unlock(id, m),
         NEW to, pc' = [pc EXCEPT ![id] = to]
  PROVE  /\ Safe' /\ relock' = relock
         /\ \A u \in Threads \ {id} : PhilosopherAt(u)'
         /\ state'[id] = "Ready" /\ holds'[id] = holds[id] \ {m}
<1>1. Safe'
  BY SafeStep DEF DinnerInv, Next
<1>2. relock' = relock
  BY DEF sys_mutex_unlock, cvVars
<1>3. \A u \in Threads \ {id} : PhilosopherAt(u)'
  <2>1. \A u \in Threads \ {id} : pc'[u] = pc[u] /\ PhilosopherAt(u)
    BY DEF DinnerInv
  <2>2. \A u \in Threads \ {id} : Keeps(u) => PhilosopherAt(u)'
    BY <2>1, AtTableAfter DEF PhilosopherAt, Keeps
  <2>3. ASSUME NEW w \in Threads \ {id}, state[w] = "Blocked", Waits(w) = {<<"mutex", m>>},
               state'[w] = "Ready", holds'[w] = holds[w] \cup {m}
        PROVE  PhilosopherAt(w)'
    <3>1. \/ pc[w] = "lock second" /\ holds[w] = {} /\ Waits(w) = {<<"mutex", First(w)>>}
          \/ pc[w] = "eat" /\ holds[w] = {First(w)} /\ Waits(w) = {<<"mutex", Second(w)>>}
      BY <2>1, <2>3 DEF PhilosopherAt, AtTable
    <3>2. \/ pc[w] = "lock second" /\ holds[w] = {} /\ m = First(w)
          \/ pc[w] = "eat" /\ holds[w] = {First(w)} /\ m = Second(w)
      BY <2>3, <3>1, OneMutex
    <3>3. \/ pc'[w] = "lock second" /\ holds'[w] = {First(w)}
          \/ pc'[w] = "eat" /\ holds'[w] = {First(w), Second(w)}
      BY <2>1, <2>3, <3>2
    <3> QED  BY <2>3, <3>3, AtTableAfter DEF AtTable
  <2>4. \/ \A u \in Threads \ {id} : Keeps(u)
        \/ \E w \in Threads \ {id} :
             /\ state[w] = "Blocked" /\ Waits(w) = {<<"mutex", m>>}
             /\ state'[w] = "Ready" /\ holds'[w] = holds[w] \cup {m}
             /\ \A u \in Threads \ {id, w} : Keeps(u)
    BY UnlockCall DEF DinnerInv
  <2>5. CASE \A u \in Threads \ {id} : Keeps(u)
    BY <2>2, <2>5
  <2>6. ASSUME NEW w \in Threads \ {id}, state[w] = "Blocked", Waits(w) = {<<"mutex", m>>},
               state'[w] = "Ready", holds'[w] = holds[w] \cup {m},
               \A u \in Threads \ {id, w} : Keeps(u)
        PROVE  \A u \in Threads \ {id} : PhilosopherAt(u)'
    <3>1. PhilosopherAt(w)'
      BY <2>3, <2>6
    <3> QED  BY <2>2, <2>6, <3>1
  <2> QED  BY <2>4, <2>5, <2>6
<1> QED  BY <1>1, <1>2, <1>3, UnlockCall DEF DinnerInv

\* Every step of a philosopher follows the table.
LEMMA DinnerStep ==
  ASSUME DinnerSetup, DinnerInv, NEW id \in Threads, philosopher(id)
  PROVE  DinnerInv'
<1> DEFINE a == First(id)
           b == Second(id)
<1>0. a \in Mutexes /\ b \in Mutexes /\ a # b
  BY ForksOrdered DEF DinnerSetup
<1>1. PhilosopherAt(id) /\ pc \in [Threads -> {"think", "lock first", "lock second", "eat",
                         "unlock second", "unlock first"}]
  BY DEF DinnerInv
<1>2. ASSUME NEW to \in {"think", "lock first", "lock second", "eat",
                         "unlock second", "unlock first"},
             pc' = [pc EXCEPT ![id] = to],
             Safe', relock' = relock, \A u \in Threads \ {id} : PhilosopherAt(u)',
             PhilosopherAt(id)'
      PROVE  DinnerInv'
  BY <1>2 DEF DinnerInv
<1>3. ASSUME UNCHANGED vars, NEW to, pc' = [pc EXCEPT ![id] = to]
      PROVE  /\ Safe' /\ relock' = relock /\ state' = state /\ holds' = holds
             /\ \A u \in Threads \ {id} : PhilosopherAt(u)'
  <2>1. Safe' /\ relock' = relock /\ state' = state /\ holds' = holds
    BY <1>3, SafeStep DEF DinnerInv, vars
  <2>2. \A u : Waits(u)' = Waits(u)
    BY <1>3, SameQueues DEF vars
  <2>3. \A u \in Threads \ {id} : pc'[u] = pc[u] /\ PhilosopherAt(u)
    BY <1>3 DEF DinnerInv
  <2> QED  BY <2>1, <2>2, <2>3, AtTableAfter DEF PhilosopherAt
<1>4. CASE Goto(id, "think", "lock first") /\ CanCall(id) /\ UNCHANGED vars
  <2>1. pc[id] = "think" /\ pc' = [pc EXCEPT ![id] = "lock first"] /\ UNCHANGED vars
    BY <1>4 DEF Goto, vars
  <2>2. PhilosopherAt(id)'
    BY <1>1, <1>3, <2>1, AtTableAfter DEF PhilosopherAt, AtTable
  <2> QED  BY <1>2, <1>3, <2>1, <2>2
<1>5. CASE Goto(id, "lock first", "lock second") /\ sys_mutex_lock(id, a)
  <2>1. /\ pc[id] = "lock first" /\ pc' = [pc EXCEPT ![id] = "lock second"]
        /\ sys_mutex_lock(id, a) /\ holds[id] = {}
    BY <1>1, <1>5 DEF Goto, PhilosopherAt, AtTable
  <2> HIDE DEF a
  <2>2. /\ Safe' /\ relock' = relock
        /\ \A u \in Threads \ {id} : PhilosopherAt(u)'
        /\ \/ state'[id] = "Ready" /\ holds'[id] = holds[id] \cup {a}
           \/ state'[id] = "Blocked" /\ holds'[id] = holds[id] /\ Waits(id)' = {<<"mutex", a>>}
    BY <1>0, <2>1, ForkTaken
  <2>3. PhilosopherAt(id)'
    BY <1>1, <2>1, <2>2, AtTableAfter DEF AtTable, a
  <2> QED  BY <1>2, <2>1, <2>2, <2>3
<1>6. CASE Goto(id, "lock second", "eat") /\ sys_mutex_lock(id, b)
  <2>1. /\ pc[id] = "lock second" /\ pc' = [pc EXCEPT ![id] = "eat"]
        /\ sys_mutex_lock(id, b) /\ holds[id] = {a}
    BY <1>1, <1>6 DEF Goto, PhilosopherAt, AtTable, sys_mutex_lock, CanCall
  <2> HIDE DEF b
  <2>2. /\ Safe' /\ relock' = relock
        /\ \A u \in Threads \ {id} : PhilosopherAt(u)'
        /\ \/ state'[id] = "Ready" /\ holds'[id] = holds[id] \cup {b}
           \/ state'[id] = "Blocked" /\ holds'[id] = holds[id] /\ Waits(id)' = {<<"mutex", b>>}
    BY <1>0, <2>1, ForkTaken
  <2>3. PhilosopherAt(id)'
    BY <1>1, <2>1, <2>2, AtTableAfter DEF AtTable, a, b
  <2> QED  BY <1>2, <2>1, <2>2, <2>3
<1>7. CASE Goto(id, "eat", "unlock second") /\ CanCall(id) /\ UNCHANGED vars
  <2>1. /\ pc[id] = "eat" /\ pc' = [pc EXCEPT ![id] = "unlock second"] /\ UNCHANGED vars
        /\ state[id] = "Ready"
    BY <1>7 DEF Goto, vars, CanCall
  <2>2. PhilosopherAt(id)'
    BY <1>1, <1>3, <2>1, AtTableAfter DEF PhilosopherAt, AtTable
  <2> QED  BY <1>2, <1>3, <2>1, <2>2
<1>8. CASE Goto(id, "unlock second", "unlock first") /\ sys_mutex_unlock(id, b)
  <2>1. /\ pc[id] = "unlock second" /\ pc' = [pc EXCEPT ![id] = "unlock first"]
        /\ sys_mutex_unlock(id, b) /\ holds[id] = {a, b}
    BY <1>1, <1>8 DEF Goto, PhilosopherAt, AtTable
  <2> HIDE DEF a, b
  <2>2. /\ Safe' /\ relock' = relock
        /\ \A u \in Threads \ {id} : PhilosopherAt(u)'
        /\ state'[id] = "Ready" /\ holds'[id] = holds[id] \ {b}
    BY <1>0, <2>1, ForkReleased
  <2>3. holds'[id] = {a}
    BY <1>0, <2>1, <2>2
  <2>4. PhilosopherAt(id)'
    BY <1>1, <2>1, <2>2, <2>3, AtTableAfter DEF AtTable, a
  <2> QED  BY <1>2, <2>1, <2>2, <2>4
<1>9. CASE Goto(id, "unlock first", "think") /\ sys_mutex_unlock(id, a)
  <2>1. /\ pc[id] = "unlock first" /\ pc' = [pc EXCEPT ![id] = "think"]
        /\ sys_mutex_unlock(id, a) /\ holds[id] = {a}
    BY <1>1, <1>9 DEF Goto, PhilosopherAt, AtTable
  <2> HIDE DEF a
  <2>2. /\ Safe' /\ relock' = relock
        /\ \A u \in Threads \ {id} : PhilosopherAt(u)'
        /\ state'[id] = "Ready" /\ holds'[id] = holds[id] \ {a}
    BY <1>0, <2>1, ForkReleased
  <2>3. PhilosopherAt(id)'
    BY <1>1, <2>1, <2>2, AtTableAfter DEF AtTable
  <2> QED  BY <1>2, <2>1, <2>2, <2>3
<1> QED
  BY <1>4, <1>5, <1>6, <1>7, <1>8, <1>9 DEF philosopher, First, Second

\* Among numbers below a bound there is a largest.
LEMMA LargestNumber ==
  ASSUME NEW k \in Nat, NEW S, S \subseteq 0 .. k, S # {}
  PROVE  \E i \in S : \A j \in S : j <= i
<1> DEFINE T == {k - i : i \in S}
<1>1. T \subseteq Nat /\ T # {}
  <2>1. \A i \in S : i \in Int /\ 0 <= i /\ i <= k /\ k - i \in Nat
    OBVIOUS
  <2>2. PICK i \in S : TRUE
    OBVIOUS
  <2> QED  BY <2>1, <2>2
<1> HIDE DEF T
<1>2. PICK n \in T : \A j \in T : ~ (<<j, n>> \in OpToRel(<, Nat))
  BY <1>1, NatLessThanWellFounded, WFMin, Zenon
<1>3. PICK i \in S : n = k - i
  BY DEF T
<1>4. ASSUME NEW j \in S PROVE j <= i
  <2> DEFINE d == k - j
  <2>1. d \in T /\ d \in Nat /\ n \in Nat
    BY <1>1 DEF T
  <2> HIDE DEF d
  <2>2. <<d, n>> \in Nat \X Nat /\ <<d, n>>[1] = d /\ <<d, n>>[2] = n
    BY <2>1
  <2>3. d < n => <<d, n>> \in OpToRel(<, Nat)
    BY <2>2 DEF OpToRel
  <2>4. ~ (d < n)
    BY <1>2, <2>1, <2>3, Zenon
  <2> QED  BY <1>3, <2>1, <2>4 DEF d
<1> QED  BY <1>4

\* The table after any number of steps.
LEMMA DinnerInvariance ==
  ASSUME DinnerSetup
  PROVE  PhilSpec => []DinnerInv
<1>1. PhilInit => DinnerInv
  <2> SUFFICES ASSUME PhilInit PROVE DinnerInv
    OBVIOUS
  <2>1. Init /\ pc = [id \in Threads |-> "think"]
    BY DEF PhilInit, Init
  <2>2. Safe
    BY <2>1, SafeInit
  <2>3. \A id \in Threads : PhilosopherAt(id)
    BY <2>1 DEF PhilosopherAt, AtTable, Init
  <2> QED  BY <2>1, <2>2, <2>3 DEF DinnerInv, Init
<1>2. DinnerInv /\ [PhilNext]_philVars => DinnerInv'
  <2> SUFFICES ASSUME DinnerInv, [PhilNext]_philVars PROVE DinnerInv'
    OBVIOUS
  <2>1. CASE PhilNext
    BY <2>1, DinnerStep DEF PhilNext
  <2>2. CASE UNCHANGED philVars
    <3>1. UNCHANGED <<vars, pc>>
      BY <2>2 DEF philVars, vars
    <3>2. Safe'
      BY <3>1, SafeStep DEF DinnerInv
    <3>3. \A u : Waits(u)' = Waits(u)
      BY <3>1, SameQueues DEF vars
    <3>4. \A u \in Threads : PhilosopherAt(u)'
      BY <3>1, <3>3, AtTableAfter DEF PhilosopherAt, DinnerInv, vars
    <3> QED  BY <3>1, <3>2, <3>4 DEF DinnerInv, vars
  <2> QED  BY <2>1, <2>2
<1> QED  BY <1>1, <1>2, PTL DEF PhilSpec

\* The guard of philosopher(id): awake, and about to lock a fork they do not
\* hold or to unlock one they do.
CanStep(id) ==
  /\ CanCall(id)
  /\ pc[id] = "lock first" => First(id) \notin holds[id]
  /\ pc[id] = "lock second" => Second(id) \notin holds[id]
  /\ pc[id] = "unlock second" => Second(id) \in holds[id]
  /\ pc[id] = "unlock first" => First(id) \in holds[id]

\* Whoever holds the highest-numbered fork that is waited for is awake: asleep,
\* they would wait for a higher one.
LEMMA SomebodyRuns ==
  ASSUME DinnerSetup, DinnerInv
  PROVE  \E id \in Threads : CanStep(id)
<1>0. ASSUME NEW id \in Threads, CanCall(id)
      PROVE  CanStep(id)
  <2>1. First(id) # Second(id)
    <3>1. First(id) \in Int /\ Second(id) \in Int /\ First(id) < Second(id)
      BY ForksOrdered DEF DinnerSetup
    <3> QED  BY <3>1
  <2>2. PhilosopherAt(id) /\ state[id] = "Ready"
    BY <1>0 DEF DinnerInv, CanCall
  <2> QED  BY <1>0, <2>1, <2>2 DEF CanStep, PhilosopherAt, AtTable
<1> SUFFICES ASSUME \A id \in Threads : ~ CanCall(id) PROVE FALSE
  BY <1>0
<1> DEFINE Wanted == {m \in 0 .. N - 1 : \E id \in Threads : Waits(id) = {<<"mutex", m>>}}
<1>1. ASSUME NEW id \in Threads
      PROVE  \/ holds[id] = {} /\ Waits(id) = {<<"mutex", First(id)>>}
             \/ holds[id] = {First(id)} /\ Waits(id) = {<<"mutex", Second(id)>>}
  <2>1. state[id] # "Ready"
    BY DEF CanCall, DinnerInv
  <2> QED  BY <2>1 DEF DinnerInv, PhilosopherAt, AtTable
<1>2. /\ \A id \in Threads : First(id) \in 0 .. N - 1 /\ Second(id) \in 0 .. N - 1 /\ First(id) < Second(id)
      /\ Mutexes = 0 .. N - 1
  BY ForksOrdered DEF DinnerSetup
<1>3. 0 \in Threads /\ N - 1 \in Nat
  BY DEF DinnerSetup
<1>4. Wanted # {}
  BY <1>1, <1>2, <1>3
<1>5. PICK m \in Wanted : \A j \in Wanted : j <= m
  BY <1>3, <1>4, LargestNumber
<1>6. m \in 0 .. N - 1 /\ \E id \in Threads : Waits(id) = {<<"mutex", m>>}
  OBVIOUS
<1>7. mutex_queue[m] # <<>>
  <2>0. PICK id \in Threads : Waits(id) = {<<"mutex", m>>}
    BY <1>6
  <2>1. PICK q \in Ids : q = <<"mutex", m>> /\ \E i \in 1 .. Len(WaitQueues[q]) : WaitQueues[q][i] = id
    BY <2>0 DEF Waits, WaitsIn
  <2>2. WaitQueues[q] = mutex_queue[m]
    BY <2>1 DEF WaitQueues
  <2>3. Len(mutex_queue[m]) # 0
    BY <2>1, <2>2
  <2> QED  BY <2>3
<1>8. PICK u \in Threads : m \in holds[u]
  BY <1>2, <1>6, <1>7 DEF DinnerInv, Safe, IndInv, MutexInv, TakenMutexHasAHolder
<1>9. m = First(u) /\ Waits(u) = {<<"mutex", Second(u)>>}
  BY <1>1, <1>8
<1>10. Second(u) \in Wanted
  BY <1>2, <1>9
<1> QED  BY <1>2, <1>5, <1>9, <1>10

\* philosopher_dinner.rs has no deadlock, for any number of philosophers: in
\* every state some philosopher is awake and may take the next step, since each
\* takes the lower-numbered fork first.
THEOREM DinnerGoesOn ==
  ASSUME DinnerSetup
  PROVE  PhilSpec => [](\E id \in Threads : CanStep(id))
<1>1. DinnerInv => \E id \in Threads : CanStep(id)
  BY SomebodyRuns
<1> QED  BY <1>1, DinnerInvariance, PTL

\* philosopher_dinner.rs: two philosophers who share a fork never eat together.
THEOREM NeighboursTakeTurns ==
  ASSUME DinnerSetup
  PROVE  PhilSpec =>
           [](\A i, j \in Threads :
                Eats(i) /\ Eats(j) /\ j = (i + 1) % N => i = j)
<1>1. DinnerInv =>
        \A i, j \in Threads : Eats(i) /\ Eats(j) /\ j = (i + 1) % N => i = j
  <2> SUFFICES ASSUME DinnerInv, NEW i \in Threads, NEW j \in Threads,
                      Eats(i), Eats(j), j = (i + 1) % N
               PROVE  i = j
    OBVIOUS
  <2>1. ASSUME NEW id \in Threads, Eats(id)
        PROVE  holds[id] = {First(id), Second(id)}
    BY <2>1 DEF DinnerInv, PhilosopherAt, AtTable, Eats, CanCall
  <2>2. j \in holds[i] /\ j \in holds[j]
    BY <2>1, ForksOrdered
  <2> QED  BY <2>2 DEF DinnerInv, Safe, IndInv, MutexInv, MutualExclusion
<1> QED  BY <1>1, DinnerInvariance, PTL

-----------------------------------------------------------------------------
(* race_counter.rs                                                         *)

CONSTANTS MUTEX_ID, THREADS, ITERS

VARIABLES COUNTER, reg, left, main

Race == INSTANCE RaceCounter

\* The workers are THREADS many and share a mutex that main has created.
RaceSetup ==
  /\ IsFiniteSet(Threads) /\ THREADS = Cardinality(Threads)
  /\ ITERS \in Nat
  /\ MUTEX_ID \in Mutexes

\* The increments made: iteration i of worker t.
Increments ==
  {p \in Threads \X (1 .. ITERS) :
     p[2] <= ITERS - left[p[1]] + (IF pc[p[1]] = "unlock" THEN 1 ELSE 0)}

\* Where worker t can be.  The thread that sleeps in lock is at "load", the
\* instruction it continues with.
WorkerAt(t) ==
  \/ pc[t] = "lock" /\ state[t] = "Ready" /\ MUTEX_ID \notin holds[t]
  \/ /\ pc[t] = "load" /\ left[t] > 0
     /\ \/ state[t] = "Ready" /\ MUTEX_ID \in holds[t]
        \/ /\ state[t] = "Blocked" /\ MUTEX_ID \notin holds[t]
           /\ Waits(t) = {<<"mutex", MUTEX_ID>>}
  \/ /\ pc[t] \in {"store", "unlock"} /\ left[t] > 0
     /\ state[t] = "Ready" /\ MUTEX_ID \in holds[t]

\* The types, and nobody is inside Condvar::wait.
RaceTypes ==
  /\ pc \in [Threads -> {"lock", "load", "store", "unlock"}]
  /\ COUNTER \in Nat
  /\ reg \in [Threads -> Nat]
  /\ left \in [Threads -> 0 .. ITERS]
  /\ relock = [t \in Threads |-> NoMutex]

\* COUNTER is the number of increments made; a value loaded is not stale.
RaceInv ==
  /\ Safe
  /\ RaceTypes
  /\ \A t \in Threads : WorkerAt(t)
  /\ \A t \in Threads : pc[t] = "store" => reg[t] = COUNTER
  /\ COUNTER = Cardinality(Increments)
  /\ main # "-1"

\* The calls race_counter.rs makes are those of Sync.
LEMMA RaceCalls ==
  ASSUME NEW t, NEW m
  PROVE  /\ Race!CanCall(t) <=> CanCall(t)
         /\ Race!sys_mutex_lock(t, m) <=> sys_mutex_lock(t, m)
         /\ Race!sys_mutex_unlock(t, m) <=> sys_mutex_unlock(t, m)
<1>1. Race!CanCall(t) <=> CanCall(t)
  BY DEF Race!CanCall, CanCall
<1>2. Race!lock(t, m) <=> lock(t, m)
  BY DEF Race!lock, lock
<1>3. Race!unlock(t, m, state) <=> unlock(t, m, state)
  BY DEF Race!unlock, unlock
<1> QED
  BY <1>1, <1>2, <1>3
     DEF Race!sys_mutex_lock, Race!sys_mutex_unlock, sys_mutex_lock, sys_mutex_unlock,
         Race!semVars, Race!cvVars, semVars, cvVars

\* There are THREADS * ITERS increments to make.
LEMMA IncrementsFinite ==
  ASSUME RaceSetup
  PROVE  IsFiniteSet(Increments) /\ Cardinality(Increments) <= THREADS * ITERS
<1>1. IsFiniteSet(1 .. ITERS) /\ Cardinality(1 .. ITERS) = ITERS
  BY FS_Interval DEF RaceSetup
<1>2. /\ IsFiniteSet(Threads \X (1 .. ITERS))
      /\ Cardinality(Threads \X (1 .. ITERS)) = THREADS * ITERS
  BY <1>1, FS_Product DEF RaceSetup
<1>3. Increments \in SUBSET (Threads \X (1 .. ITERS))
  BY DEF Increments
<1> QED  BY <1>2, <1>3, FS_Subset

\* A worker's call of lock: it has the mutex, or it sleeps at "load".
LEMMA WorkerLocks ==
  ASSUME RaceSetup, RaceInv, NEW t \in Threads, pc[t] = "lock", left[t] > 0,
         pc' = [pc EXCEPT ![t] = "load"], sys_mutex_lock(t, MUTEX_ID),
         UNCHANGED <<COUNTER, reg, left, main>>
  PROVE  RaceInv'
<1>1. Safe'
  BY SafeStep DEF RaceInv, RaceSetup, Next
<1>2. RaceTypes'
  BY DEF RaceInv, RaceTypes, sys_mutex_lock, cvVars
<1>3. \A u \in Threads : WorkerAt(u)'
  <2>1. /\ \A u \in Threads \ {t} : Keeps(u)
        /\ \/ state'[t] = "Ready" /\ MUTEX_ID \in holds'[t]
           \/ /\ state'[t] = "Blocked" /\ holds'[t] = holds[t]
              /\ Waits(t)' = {<<"mutex", MUTEX_ID>>}
    BY LockCall DEF RaceInv, RaceSetup
  <2>2. WorkerAt(t)'
    BY <2>1 DEF WorkerAt, RaceInv, RaceTypes
  <2>3. \A u \in Threads \ {t} : WorkerAt(u)'
    BY <2>1 DEF WorkerAt, RaceInv, RaceTypes, Keeps
  <2> QED  BY <2>2, <2>3
<1>4. \A u \in Threads : pc'[u] = "store" => reg'[u] = COUNTER'
  BY DEF RaceInv, RaceTypes
<1>5. Increments' = Increments
  BY DEF Increments, RaceInv, RaceTypes
<1> QED  BY <1>1, <1>2, <1>3, <1>4, <1>5 DEF RaceInv

\* The load.
LEMMA WorkerLoads ==
  ASSUME RaceSetup, RaceInv, NEW t \in Threads, pc[t] = "load", CanCall(t),
         pc' = [pc EXCEPT ![t] = "store"], reg' = [reg EXCEPT ![t] = COUNTER],
         UNCHANGED <<vars, COUNTER, left, main>>
  PROVE  RaceInv'
<1>1. Safe'
  BY SafeStep DEF RaceInv
<1>2. RaceTypes'
  BY DEF RaceInv, RaceTypes, vars
<1>3. \A u \in Threads : WorkerAt(u)'
  <2>1. \A u : Waits(u)' = Waits(u)
    BY SameQueues DEF vars
  <2> QED  BY <2>1 DEF WorkerAt, RaceInv, RaceTypes, CanCall, vars
<1>4. \A u \in Threads : pc'[u] = "store" => reg'[u] = COUNTER'
  BY DEF RaceInv, RaceTypes
<1>5. Increments' = Increments
  BY DEF Increments, RaceInv, RaceTypes
<1> QED  BY <1>1, <1>2, <1>3, <1>4, <1>5 DEF RaceInv

\* The store: what was loaded is still the value of COUNTER, and no other
\* worker has loaded it, since both would hold the mutex.
LEMMA WorkerStores ==
  ASSUME RaceSetup, RaceInv, NEW t \in Threads, pc[t] = "store", CanCall(t),
         pc' = [pc EXCEPT ![t] = "unlock"], COUNTER' = reg[t] + 1,
         UNCHANGED <<vars, reg, left, main>>
  PROVE  RaceInv'
<1>1. Safe'
  BY SafeStep DEF RaceInv
<1>2. RaceTypes'
  BY DEF RaceInv, RaceTypes, vars
<1>3. \A u \in Threads : WorkerAt(u)'
  <2>1. \A u : Waits(u)' = Waits(u)
    BY SameQueues DEF vars
  <2> QED  BY <2>1 DEF WorkerAt, RaceInv, RaceTypes, vars
<1>4. \A u \in Threads : pc'[u] = "store" => reg'[u] = COUNTER'
  <2> SUFFICES ASSUME NEW u \in Threads, pc'[u] = "store" PROVE FALSE
    OBVIOUS
  <2>1. u # t /\ pc[u] = "store"
    BY DEF RaceInv, RaceTypes
  <2>2. MUTEX_ID \in holds[u] /\ MUTEX_ID \in holds[t]
    BY <2>1 DEF RaceInv, WorkerAt
  <2> QED  BY <2>1, <2>2 DEF RaceInv, Safe, IndInv, MutexInv, MutualExclusion
<1>5. COUNTER' = Cardinality(Increments')
  <2> DEFINE p == <<t, ITERS - left[t] + 1>>
  <2>1. left[t] \in 1 .. ITERS /\ ITERS \in Nat
    BY DEF RaceInv, RaceTypes, WorkerAt, RaceSetup
  <2>2. p \in Threads \X (1 .. ITERS) /\ p \notin Increments
    BY <2>1 DEF Increments
  <2>3. ASSUME NEW q \in Threads \X (1 .. ITERS)
        PROVE  q \in Increments' <=> q \in Increments \/ q = p
    <3>1. CASE q[1] # t
      <4>1. pc'[q[1]] = pc[q[1]] /\ left'[q[1]] = left[q[1]] /\ q # p
        BY <3>1 DEF RaceInv, RaceTypes
      <4> QED  BY <4>1 DEF Increments
    <3>2. CASE q[1] = t
      <4>1. /\ q \in Increments <=> q[2] <= ITERS - left[t]
            /\ q \in Increments' <=> q[2] <= ITERS - left[t] + 1
        BY <2>1, <3>2 DEF Increments, RaceInv, RaceTypes
      <4>2. q = p <=> q[2] = ITERS - left[t] + 1
        BY <3>2
      <4> QED  BY <2>1, <4>1, <4>2
    <3> QED  BY <3>1, <3>2
  <2>4. Increments' = Increments \cup {p}
    BY <2>2, <2>3 DEF Increments
  <2> HIDE DEF p
  <2>5. Cardinality(Increments') = Cardinality(Increments) + 1
    BY <2>2, <2>4, IncrementsFinite, FS_AddElement
  <2> QED  BY <2>5 DEF RaceInv
<1> QED  BY <1>1, <1>2, <1>3, <1>4, <1>5 DEF RaceInv

\* The call of unlock: a worker that slept at "load" has the mutex now.
LEMMA WorkerUnlocks ==
  ASSUME RaceSetup, RaceInv, NEW t \in Threads, pc[t] = "unlock",
         pc' = [pc EXCEPT ![t] = "lock"], sys_mutex_unlock(t, MUTEX_ID),
         left' = [left EXCEPT ![t] = @ - 1], UNCHANGED <<COUNTER, reg, main>>
  PROVE  RaceInv'
<1>1. Safe'
  BY SafeStep DEF RaceInv, RaceSetup, Next
<1>2. RaceTypes'
  <2>1. left[t] > 0 /\ RaceTypes /\ ITERS \in Nat /\ relock' = relock
    BY DEF RaceInv, WorkerAt, RaceSetup, sys_mutex_unlock, cvVars
  <2>2. left[t] - 1 \in 0 .. ITERS
    BY <2>1 DEF RaceTypes
  <2> QED  BY <2>1, <2>2 DEF RaceTypes
<1>3. \A u \in Threads : WorkerAt(u)'
  <2>0. \A u \in Threads \ {t} : pc'[u] = pc[u] /\ left'[u] = left[u] /\ WorkerAt(u)
    BY DEF RaceInv, RaceTypes
  <2>1. \A u \in Threads \ {t} : Keeps(u) => WorkerAt(u)'
    BY <2>0 DEF WorkerAt, Keeps
  <2>2. ASSUME NEW w \in Threads \ {t}, state[w] = "Blocked", state'[w] = "Ready",
               holds'[w] = holds[w] \cup {MUTEX_ID}
        PROVE  WorkerAt(w)'
    BY <2>0, <2>2 DEF WorkerAt
  <2>3. /\ state'[t] = "Ready" /\ holds'[t] = holds[t] \ {MUTEX_ID}
        /\ \/ \A u \in Threads \ {t} : Keeps(u)
           \/ \E w \in Threads \ {t} :
                /\ state[w] = "Blocked" /\ state'[w] = "Ready"
                /\ holds'[w] = holds[w] \cup {MUTEX_ID}
                /\ \A u \in Threads \ {t, w} : Keeps(u)
    BY UnlockCall DEF RaceInv, RaceSetup
  <2>4. WorkerAt(t)'
    <3>1. pc'[t] = "lock"
      BY DEF RaceInv, RaceTypes
    <3> QED  BY <2>3, <3>1 DEF WorkerAt
  <2>5. ASSUME NEW u \in Threads \ {t} PROVE WorkerAt(u)'
    <3>1. CASE Keeps(u)
      BY <2>1, <3>1
    <3>2. CASE ~ Keeps(u)
      <4>1. /\ state[u] = "Blocked" /\ state'[u] = "Ready"
            /\ holds'[u] = holds[u] \cup {MUTEX_ID}
        BY <2>3, <3>2
      <4> QED  BY <2>2, <4>1
    <3> QED  BY <3>1, <3>2
  <2> QED  BY <2>4, <2>5
<1>4. \A u \in Threads : pc'[u] = "store" => reg'[u] = COUNTER'
  BY DEF RaceInv, RaceTypes
<1>5. Increments' = Increments
  <2>1. ASSUME NEW u \in Threads
        PROVE  ITERS - left'[u] + (IF pc'[u] = "unlock" THEN 1 ELSE 0)
                 = ITERS - left[u] + (IF pc[u] = "unlock" THEN 1 ELSE 0)
    BY DEF RaceInv, RaceTypes, RaceSetup
  <2> QED  BY <2>1 DEF Increments
<1> QED  BY <1>1, <1>2, <1>3, <1>4, <1>5 DEF RaceInv

\* COUNTER never exceeds the number of increments there are.
LEMMA RaceMain ==
  ASSUME RaceSetup, RaceInv, Race!MainReturns
  PROVE  RaceInv'
<1>1. Safe'
  BY SafeStep DEF RaceInv, Race!MainReturns, Race!vars, vars
<1>2. COUNTER = THREADS * ITERS
  <2>1. COUNTER <= THREADS * ITERS /\ COUNTER >= THREADS * ITERS
    BY IncrementsFinite DEF RaceInv, Race!MainReturns
  <2>2. COUNTER \in Nat /\ THREADS * ITERS \in Nat
    BY FS_CardinalityType DEF RaceInv, RaceTypes, RaceSetup
  <2> QED  BY <2>1, <2>2
<1>3. main' = "0"
  BY <1>2 DEF Race!MainReturns
<1>4. UNCHANGED <<vars, pc, COUNTER, reg, left>>
  BY DEF Race!MainReturns, Race!vars, vars
<1>5. \A u : Waits(u)' = Waits(u)
  BY <1>4, SameQueues DEF vars
<1>6. RaceTypes' /\ \A u \in Threads : WorkerAt(u)'
  BY <1>4, <1>5 DEF RaceTypes, WorkerAt, RaceInv, vars
<1> QED  BY <1>1, <1>3, <1>4, <1>6 DEF RaceInv, Increments

\* The workers after any number of steps.
LEMMA RaceInvariance ==
  ASSUME RaceSetup
  PROVE  Race!RaceSpec => []RaceInv
<1>1. Race!RaceInit => RaceInv
  <2> SUFFICES ASSUME Race!RaceInit PROVE RaceInv
    OBVIOUS
  <2>1. Init
    BY DEF Race!RaceInit, Race!Init, Init
  <2>2. Safe
    BY <2>1, SafeInit
  <2>3. RaceTypes /\ \A t \in Threads : WorkerAt(t)
    BY <2>1 DEF Race!RaceInit, RaceTypes, WorkerAt, RaceSetup, Init
  <2>4. Increments = {}
    BY DEF Increments, Race!RaceInit, RaceSetup
  <2> QED  BY <2>2, <2>3, <2>4, FS_EmptySet DEF RaceInv, Race!RaceInit
<1>2. RaceInv /\ [Race!RaceNext]_(Race!raceVars) => RaceInv'
  <2> SUFFICES ASSUME RaceInv, [Race!RaceNext]_(Race!raceVars) PROVE RaceInv'
    OBVIOUS
  <2>1. ASSUME NEW t \in Threads, Race!worker(t) PROVE RaceInv'
    BY <2>1, RaceCalls, WorkerLocks, WorkerLoads, WorkerStores, WorkerUnlocks
       DEF Race!worker, Race!Goto, Race!vars, vars
  <2>2. CASE Race!MainReturns
    BY <2>2, RaceMain
  <2>3. CASE UNCHANGED Race!raceVars
    <3>1. UNCHANGED <<vars, pc, COUNTER, reg, left, main>>
      BY <2>3 DEF Race!raceVars, Race!vars, vars
    <3>2. Safe'
      BY <3>1, SafeStep DEF RaceInv
    <3>3. \A u : Waits(u)' = Waits(u)
      BY <3>1, SameQueues DEF vars
    <3>4. RaceTypes' /\ \A u \in Threads : WorkerAt(u)'
      BY <3>1, <3>3 DEF RaceTypes, WorkerAt, RaceInv, vars
    <3> QED  BY <3>1, <3>2, <3>4 DEF RaceInv, Increments
  <2> QED  BY <2>1, <2>2, <2>3 DEF Race!RaceNext
<1> QED  BY <1>1, <1>2, PTL DEF Race!RaceSpec

\* race_counter.rs loses no increment, for any number of workers and
\* iterations: COUNTER is the number of increments made, so main, who waits for
\* all of them, does not return -1.
THEOREM NoIncrementLost ==
  ASSUME RaceSetup
  PROVE  Race!RaceSpec => [](COUNTER = Cardinality(Increments) /\ main # "-1")
<1>1. RaceInv => COUNTER = Cardinality(Increments) /\ main # "-1"
  BY DEF RaceInv
<1> QED  BY <1>1, RaceInvariance, PTL

\* The guard of the next step of worker t.
WorkerCan(t) ==
  /\ CanCall(t)
  /\ pc[t] = "lock" => left[t] > 0 /\ MUTEX_ID \notin holds[t]
  /\ pc[t] = "unlock" => MUTEX_ID \in holds[t]

\* race_counter.rs: the workers never stop before main has what it waits for.
THEOREM RaceGoesOn ==
  ASSUME RaceSetup
  PROVE  Race!RaceSpec => []((\E t \in Threads : WorkerCan(t)) \/ COUNTER = THREADS * ITERS)
<1>1. RaceInv => (\E t \in Threads : WorkerCan(t)) \/ COUNTER = THREADS * ITERS
  <2> SUFFICES ASSUME RaceInv, \A t \in Threads : ~ WorkerCan(t)
               PROVE  COUNTER = THREADS * ITERS
    OBVIOUS
  <2>1. ASSUME NEW t \in Threads
        PROVE  /\ MUTEX_ID \notin holds[t]
               /\ \/ pc[t] = "lock" /\ left[t] = 0
                  \/ pc[t] = "load" /\ Waits(t) = {<<"mutex", MUTEX_ID>>}
    <3>1. WorkerAt(t) /\ relock[t] = NoMutex /\ left[t] \in 0 .. ITERS /\ ITERS \in Nat
      BY DEF RaceInv, RaceTypes, RaceSetup
    <3>2. state[t] = "Ready" => pc[t] = "lock" /\ ~ (left[t] > 0) /\ MUTEX_ID \notin holds[t]
      BY <3>1 DEF WorkerAt, WorkerCan, CanCall
    <3>3. state[t] # "Ready" =>
            /\ pc[t] = "load" /\ Waits(t) = {<<"mutex", MUTEX_ID>>}
            /\ MUTEX_ID \notin holds[t]
      BY <3>1 DEF WorkerAt
    <3> QED  BY <3>1, <3>2, <3>3
  <2>2. mutex_queue[MUTEX_ID] = <<>>
    BY <2>1 DEF RaceInv, Safe, IndInv, MutexInv, TakenMutexHasAHolder, RaceSetup
  <2>3. ASSUME NEW t \in Threads PROVE Waits(t) # {<<"mutex", MUTEX_ID>>}
    <3> SUFFICES ASSUME Waits(t) = {<<"mutex", MUTEX_ID>>} PROVE FALSE
      OBVIOUS
    <3>1. /\ <<"mutex", MUTEX_ID>> \in Ids
          /\ WaitQueues[<<"mutex", MUTEX_ID>>] = mutex_queue[MUTEX_ID]
      BY DEF Ids, WaitQueues, RaceSetup
    <3>2. \E i \in 1 .. Len(mutex_queue[MUTEX_ID]) : mutex_queue[MUTEX_ID][i] = t
      BY <3>1 DEF Waits, WaitsIn
    <3> QED  BY <2>2, <3>2
  <2>4. \A t \in Threads : pc[t] = "lock" /\ left[t] = 0
    BY <2>1, <2>3
  <2>5. Increments = Threads \X (1 .. ITERS)
    BY <2>4 DEF Increments, RaceSetup
  <2>6. IsFiniteSet(1 .. ITERS) /\ Cardinality(1 .. ITERS) = ITERS
    BY FS_Interval DEF RaceSetup
  <2>7. Cardinality(Threads \X (1 .. ITERS)) = THREADS * ITERS
    BY <2>6, FS_Product DEF RaceSetup
  <2> QED  BY <2>5, <2>7 DEF RaceInv
<1> QED  BY <1>1, RaceInvariance, PTL

=============================================================================
