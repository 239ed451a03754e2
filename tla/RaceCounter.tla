---------------------------- MODULE RaceCounter ----------------------------
(***************************************************************************)
(* labs/phase_3_sync/user/src/bin/race_counter.rs over a mutex of Sync.    *)
(* `COUNTER += 1` is a load and a store; the timer preempts between any    *)
(* two steps.  main reads COUNTER without the mutex.                       *)
(***************************************************************************)
EXTENDS Sync

CONSTANTS MUTEX_ID,   \* the mutex main creates
          THREADS,    \* workers, Cardinality(Threads)
          ITERS       \* iterations of each

VARIABLES pc, COUNTER,
          reg,    \* reg[t]: the value t has loaded
          left,   \* left[t]: iterations t has still to begin or finish
          main    \* "waits", or what main returned

raceVars == <<vars, pc, COUNTER, reg, left, main>>

Goto(t, from, to) == pc[t] = from /\ pc' = [pc EXCEPT ![t] = to]

\* A plausible bug: the increment before the lock.
worker_unprotected(t) ==
  \/ /\ Goto(t, "lock", "load") /\ left[t] > 0
     /\ CanCall(t) /\ UNCHANGED <<vars, COUNTER, reg, left, main>>
  \/ /\ Goto(t, "load", "store") /\ CanCall(t)
     /\ reg' = [reg EXCEPT ![t] = COUNTER]
     /\ UNCHANGED <<vars, COUNTER, left, main>>
  \/ /\ Goto(t, "store", "unlock") /\ CanCall(t)
     /\ COUNTER' = reg[t] + 1
     /\ UNCHANGED <<vars, reg, left, main>>
  \/ /\ Goto(t, "unlock", "lock") /\ CanCall(t)
     /\ left' = [left EXCEPT ![t] = @ - 1]
     /\ UNCHANGED <<vars, COUNTER, reg, main>>

worker(t) ==
  \/ /\ Goto(t, "lock", "load") /\ left[t] > 0
     /\ sys_mutex_lock(t, MUTEX_ID)
     /\ UNCHANGED <<COUNTER, reg, left, main>>
  \/ /\ Goto(t, "load", "store") /\ CanCall(t)
     /\ reg' = [reg EXCEPT ![t] = COUNTER]
     /\ UNCHANGED <<vars, COUNTER, left, main>>
  \/ /\ Goto(t, "store", "unlock") /\ CanCall(t)
     /\ COUNTER' = reg[t] + 1
     /\ UNCHANGED <<vars, reg, left, main>>
  \/ /\ Goto(t, "unlock", "lock")
     /\ sys_mutex_unlock(t, MUTEX_ID)
     /\ left' = [left EXCEPT ![t] = @ - 1]
     /\ UNCHANGED <<COUNTER, reg, main>>

\* main leaves its yield loop and tests COUNTER once more.
MainReturns ==
  /\ main = "waits"
  /\ COUNTER >= THREADS * ITERS
  /\ main' = IF COUNTER = THREADS * ITERS THEN "0" ELSE "-1"
  /\ UNCHANGED <<vars, pc, COUNTER, reg, left>>

RaceInit ==
  /\ Init
  /\ pc = [t \in Threads |-> "lock"]
  /\ COUNTER = 0
  /\ reg = [t \in Threads |-> 0]
  /\ left = [t \in Threads |-> ITERS]
  /\ main = "waits"

RaceNext == MainReturns \/ \E t \in Threads : worker(t)

\* Round robin on a timer: a thread that can run does.
RaceSpec ==
  /\ RaceInit
  /\ [][RaceNext]_raceVars
  /\ WF_raceVars(MainReturns)
  /\ \A t \in Threads : WF_raceVars(worker(t))

-----------------------------------------------------------------------------
\* No increment is lost or made twice: main, who waits for all of them, gets
\* out of its loop and returns 0.
MainGetsTheFullCount == <>(main = "0") /\ [](main # "-1")

=============================================================================
