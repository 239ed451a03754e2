-------------------------------- MODULE Sync --------------------------------
(***************************************************************************)
(* The blocking primitives of labs/phase_3_sync/src/sync/: MutexBlocking,  *)
(* Semaphore and Condvar, used by threads that call them in any order a    *)
(* correct client may.                                                     *)
(*                                                                         *)
(* One hart, and the kernel runs with sstatus.SIE clear from the trap that *)
(* enters it, so a system call runs to its return or to                    *)
(* block_current_and_run_next before any other thread does; the timer      *)
(* preempts threads between their calls.  A step is a call up to there.    *)
(* task.rs holds stubs of current_task, block_current_and_run_next and     *)
(* wake_task; they are modelled by the comments that say what they do.     *)
(*                                                                         *)
(* Holding a mutex, and permits taken and given back, are not state of the *)
(* code: holds, ups and downs record what the callers have been told.      *)
(***************************************************************************)
EXTENDS Integers, Sequences

CONSTANTS Threads, Mutexes, Sems, Condvars,
          initial,    \* initial[s]: the argument of Semaphore::new
          NoMutex,    \* relock when a thread is not inside Condvar::wait
          MAX_UPS     \* bound: calls of up, per semaphore

ASSUME SyncAssumption ==
  /\ initial \in [Sems -> Nat]
  /\ NoMutex \notin Mutexes
  /\ MAX_UPS \in Nat

VARIABLES
  locked,       \* MutexInner.locked
  mutex_queue,  \* MutexInner.wait_queue
  count,        \* SemInner.count
  sem_queue,    \* SemInner.wait_queue
  cv_queue,     \* Condvar.wait_queue
  state,        \* Ready (the running thread included) or Blocked
  relock,       \* the mutex a thread inside Condvar::wait is to take again
  holds,        \* holds[t]: mutexes t's lock or wait returned with (history)
  ups, downs    \* ups called and downs returned, per semaphore (history)

vars == <<locked, mutex_queue, count, sem_queue, cv_queue, state, relock,
          holds, ups, downs>>
mutexVars == <<locked, mutex_queue, holds>>
semVars   == <<count, sem_queue, ups, downs>>
cvVars    == <<cv_queue, relock>>

\* A thread in user mode, about to make a call.
CanCall(t) == state[t] = "Ready" /\ relock[t] = NoMutex

-----------------------------------------------------------------------------
\* MutexBlocking::lock.
lock(t, m) ==
  IF ~ locked[m]
  THEN /\ locked' = [locked EXCEPT ![m] = TRUE]
       /\ holds' = [holds EXCEPT ![t] = @ \cup {m}]
       /\ UNCHANGED <<mutex_queue, state>>
  ELSE /\ mutex_queue' = [mutex_queue EXCEPT ![m] = Append(@, t)]
       /\ state' = [state EXCEPT ![t] = "Blocked"]
       /\ UNCHANGED <<locked, holds>>

\* A plausible bug: locked = false although a waiter is woken.
unlock_no_handoff(t, m, s) ==
  /\ locked' = [locked EXCEPT ![m] = FALSE]
  /\ IF mutex_queue[m] = <<>>
     THEN /\ holds' = [holds EXCEPT ![t] = @ \ {m}]
          /\ state' = s
          /\ UNCHANGED mutex_queue
     ELSE LET u == Head(mutex_queue[m])
          IN  /\ holds' = [holds EXCEPT ![t] = @ \ {m}, ![u] = @ \cup {m}]
              /\ state' = [s EXCEPT ![u] = "Ready"]
              /\ mutex_queue' = [mutex_queue EXCEPT ![m] = Tail(@)]

\* A plausible bug: the mutex is freed and the waiters are left asleep.
unlock_no_wake(t, m, s) ==
  /\ locked' = [locked EXCEPT ![m] = FALSE]
  /\ holds' = [holds EXCEPT ![t] = @ \ {m}]
  /\ state' = s
  /\ UNCHANGED mutex_queue

\* MutexBlocking::unlock: hand the mutex to the first waiter, else free it.
\* s is the thread states it starts from.
unlock(t, m, s) ==
  IF mutex_queue[m] = <<>>
  THEN /\ locked' = [locked EXCEPT ![m] = FALSE]
       /\ holds' = [holds EXCEPT ![t] = @ \ {m}]
       /\ state' = s
       /\ UNCHANGED mutex_queue
  ELSE LET u == Head(mutex_queue[m])
       IN  /\ holds' = [holds EXCEPT ![t] = @ \ {m}, ![u] = @ \cup {m}]
           /\ state' = [s EXCEPT ![u] = "Ready"]
           /\ mutex_queue' = [mutex_queue EXCEPT ![m] = Tail(@)]
           /\ UNCHANGED locked

sys_mutex_lock(t, m) ==
  /\ CanCall(t)
  /\ m \notin holds[t]
  /\ lock(t, m)
  /\ UNCHANGED <<semVars, cvVars>>

sys_mutex_unlock(t, m) ==
  /\ CanCall(t)
  /\ m \in holds[t]
  /\ unlock(t, m, state)
  /\ UNCHANGED <<semVars, cvVars>>

-----------------------------------------------------------------------------
\* A plausible bug: a waiter is woken only when count is negative afterwards.
up_late(s) ==
  /\ ups' = [ups EXCEPT ![s] = @ + 1]
  /\ count' = [count EXCEPT ![s] = @ + 1]
  /\ IF count[s] + 1 < 0
     THEN /\ sem_queue' = [sem_queue EXCEPT ![s] = Tail(@)]
          /\ state' = [state EXCEPT ![Head(sem_queue[s])] = "Ready"]
          /\ downs' = [downs EXCEPT ![s] = @ + 1]
     ELSE UNCHANGED <<sem_queue, state, downs>>

\* Semaphore::up: count <= 0 after the increment means somebody waits; its
\* down returns.
up(s) ==
  /\ ups' = [ups EXCEPT ![s] = @ + 1]
  /\ count' = [count EXCEPT ![s] = @ + 1]
  /\ IF count[s] + 1 <= 0
     THEN /\ sem_queue' = [sem_queue EXCEPT ![s] = Tail(@)]
          /\ state' = [state EXCEPT ![Head(sem_queue[s])] = "Ready"]
          /\ downs' = [downs EXCEPT ![s] = @ + 1]
     ELSE UNCHANGED <<sem_queue, state, downs>>

\* Semaphore::down.
down(t, s) ==
  /\ count' = [count EXCEPT ![s] = @ - 1]
  /\ IF count[s] - 1 < 0
     THEN /\ sem_queue' = [sem_queue EXCEPT ![s] = Append(@, t)]
          /\ state' = [state EXCEPT ![t] = "Blocked"]
          /\ UNCHANGED downs
     ELSE /\ downs' = [downs EXCEPT ![s] = @ + 1]
          /\ UNCHANGED <<sem_queue, state>>
  /\ UNCHANGED ups

sys_semaphore_up(t, s) ==
  /\ CanCall(t)
  /\ ups[s] < MAX_UPS
  /\ up(s)
  /\ UNCHANGED <<mutexVars, cvVars>>

sys_semaphore_down(t, s) ==
  /\ CanCall(t)
  /\ down(t, s)
  /\ UNCHANGED <<mutexVars, cvVars>>

-----------------------------------------------------------------------------
\* Condvar::wait up to the block: enqueue, unlock the mutex, sleep.
sys_condvar_wait(t, c, m) ==
  /\ CanCall(t)
  /\ m \in holds[t]
  /\ cv_queue' = [cv_queue EXCEPT ![c] = Append(@, t)]
  /\ unlock(t, m, [state EXCEPT ![t] = "Blocked"])
  /\ relock' = [relock EXCEPT ![t] = m]
  /\ UNCHANGED semVars

\* The rest of Condvar::wait, after the wake-up: lock the mutex.
Relock(t) ==
  /\ state[t] = "Ready"
  /\ relock[t] # NoMutex
  /\ lock(t, relock[t])
  /\ relock' = [relock EXCEPT ![t] = NoMutex]
  /\ UNCHANGED <<semVars, cv_queue>>

\* A plausible bug: the waiter is woken and stays queued.
sys_condvar_signal_no_pop(t, c) ==
  /\ CanCall(t)
  /\ cv_queue[c] # <<>>
  /\ state' = [state EXCEPT ![Head(cv_queue[c])] = "Ready"]
  /\ UNCHANGED <<mutexVars, semVars, cvVars>>

\* Condvar::signal; without a waiter nothing happens.
sys_condvar_signal(t, c) ==
  /\ CanCall(t)
  /\ cv_queue[c] # <<>>
  /\ cv_queue' = [cv_queue EXCEPT ![c] = Tail(@)]
  /\ state' = [state EXCEPT ![Head(cv_queue[c])] = "Ready"]
  /\ UNCHANGED <<mutexVars, semVars, relock>>

\* Condvar::broadcast.
broadcast(t, c) ==
  /\ CanCall(t)
  /\ cv_queue[c] # <<>>
  /\ cv_queue' = [cv_queue EXCEPT ![c] = <<>>]
  /\ state' = [u \in Threads |->
                 IF \E i \in 1 .. Len(cv_queue[c]) : cv_queue[c][i] = u
                 THEN "Ready" ELSE state[u]]
  /\ UNCHANGED <<mutexVars, semVars, relock>>

-----------------------------------------------------------------------------
Init ==
  /\ locked = [m \in Mutexes |-> FALSE]
  /\ mutex_queue = [m \in Mutexes |-> <<>>]
  /\ count = initial
  /\ sem_queue = [s \in Sems |-> <<>>]
  /\ cv_queue = [c \in Condvars |-> <<>>]
  /\ state = [t \in Threads |-> "Ready"]
  /\ relock = [t \in Threads |-> NoMutex]
  /\ holds = [t \in Threads |-> {}]
  /\ ups = [s \in Sems |-> 0]
  /\ downs = [s \in Sems |-> 0]

Next ==
  \E t \in Threads :
    \/ Relock(t)
    \/ \E m \in Mutexes : sys_mutex_lock(t, m) \/ sys_mutex_unlock(t, m)
    \/ \E s \in Sems : sys_semaphore_up(t, s) \/ sys_semaphore_down(t, s)
    \/ \E c \in Condvars, m \in Mutexes : sys_condvar_wait(t, c, m)
    \/ \E c \in Condvars : sys_condvar_signal(t, c) \/ broadcast(t, c)

Spec == Init /\ [][Next]_vars

-----------------------------------------------------------------------------
\* The variables have their types.
TypeOK ==
  /\ locked \in [Mutexes -> BOOLEAN]
  /\ mutex_queue \in [Mutexes -> Seq(Threads)]
  /\ count \in [Sems -> Int]
  /\ sem_queue \in [Sems -> Seq(Threads)]
  /\ cv_queue \in [Condvars -> Seq(Threads)]
  /\ state \in [Threads -> {"Ready", "Blocked"}]
  /\ relock \in [Threads -> Mutexes \cup {NoMutex}]
  /\ holds \in [Threads -> SUBSET Mutexes]
  /\ ups \in [Sems -> Nat]
  /\ downs \in [Sems -> Nat]

\* Between the return of lock (or of Condvar::wait) and the call of unlock (or
\* of wait) no other thread has the mutex.  The hand-off of unlock is what
\* makes this true: the woken thread does not test `locked` again.
MutualExclusion ==
  \A t, u \in Threads : holds[t] \cap holds[u] # {} => t = u

\* A mutex that is taken, by flag, has a holder, who will hand it on, and one
\* that is free has no holder and no waiter: nobody waits for a mutex that
\* nobody is going to release.
TakenMutexHasAHolder ==
  \A m \in Mutexes :
    /\ locked[m] <=> \E t \in Threads : m \in holds[t]
    /\ ~ locked[m] => mutex_queue[m] = <<>>

\* A semaphore lets through as many downs as there are permits, and holds
\* nobody back while a permit is free.
PermitsAreExact ==
  \A s \in Sems :
    /\ downs[s] <= initial[s] + ups[s]
    /\ sem_queue[s] # <<>> => downs[s] = initial[s] + ups[s]

\* The encoding the comment of Semaphore::up relies on: a negative count is the
\* number of waiters, a count that is not negative is the permits left.
CountEncodesWaiters ==
  \A s \in Sems :
    /\ count[s] = initial[s] + ups[s] - downs[s] - Len(sem_queue[s])
    /\ Len(sem_queue[s]) = IF count[s] < 0 THEN - count[s] ELSE 0

\* Where a thread is queued: kind of primitive, which one, position.
Indices(queue, t) == {i \in 1 .. Len(queue) : queue[i] = t}
MutexPlaces(t) ==
  UNION {{<<"mutex", m, i>> : i \in Indices(mutex_queue[m], t)} : m \in Mutexes}
SemPlaces(t) ==
  UNION {{<<"sem", s, i>> : i \in Indices(sem_queue[s], t)} : s \in Sems}
CondvarPlaces(t) ==
  UNION {{<<"condvar", c, i>> : i \in Indices(cv_queue[c], t)} : c \in Condvars}
Places(t) == MutexPlaces(t) \cup SemPlaces(t) \cup CondvarPlaces(t)

\* A thread sleeps exactly when it is in one wait queue, at one place: whoever
\* is to wake it finds it, and nobody else wakes it (wake_task of a thread that
\* is not blocked would put it into the ready queue twice).
SleepersAreQueuedOnce ==
  \A t \in Threads :
    /\ state[t] = "Blocked" <=> Places(t) # {}
    /\ \A p, q \in Places(t) : p = q

=============================================================================
