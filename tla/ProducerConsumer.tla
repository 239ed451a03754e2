-------------------------- MODULE ProducerConsumer --------------------------
(***************************************************************************)
(* labs/phase_3_sync/user/src/bin/producer_consumer.rs over the mutex and  *)
(* the semaphores of Sync.  The timer preempts between any two statements. *)
(* main reads CONSUMED and PRODUCED without the mutex.                     *)
(***************************************************************************)
EXTENDS Sync

CONSTANTS producer, consumer,    \* the two threads
          EMPTY, FULL, MUTEX,    \* what main creates
          BUF_SIZE, N_ITEMS

VARIABLES pc, BUF, HEAD, TAIL, PRODUCED, CONSUMED,
          main    \* "waits", or what main returned

bufVars == <<BUF, HEAD, TAIL, PRODUCED, CONSUMED>>
pcVars == <<vars, pc, bufVars, main>>

Goto(t, from, to) == pc[t] = from /\ pc' = [pc EXCEPT ![t] = to]

\* A plausible bug: the mutex is taken first.
CallsMutexFirst(t, take, give, done) ==
  \/ /\ Goto(t, "down", "lock") /\ done < N_ITEMS /\ sys_mutex_lock(t, MUTEX)
  \/ /\ Goto(t, "lock", "buffer") /\ sys_semaphore_down(t, take)
  \/ /\ Goto(t, "unlock", "up") /\ sys_mutex_unlock(t, MUTEX)
  \/ /\ Goto(t, "up", "down") /\ sys_semaphore_up(t, give)

\* A plausible bug: no permit is taken.
CallsNoPermit(t, take, give, done) ==
  \/ /\ Goto(t, "down", "lock") /\ done < N_ITEMS /\ CanCall(t) /\ UNCHANGED vars
  \/ /\ Goto(t, "lock", "buffer") /\ sys_mutex_lock(t, MUTEX)
  \/ /\ Goto(t, "unlock", "up") /\ sys_mutex_unlock(t, MUTEX)
  \/ /\ Goto(t, "up", "down") /\ sys_semaphore_up(t, give)

\* The calls around the critical section: sem_down(take), lock; unlock,
\* sem_up(give).  done is the number of rounds t has made.
Calls(t, take, give, done) ==
  \/ /\ Goto(t, "down", "lock") /\ done < N_ITEMS /\ sys_semaphore_down(t, take)
  \/ /\ Goto(t, "lock", "buffer") /\ sys_mutex_lock(t, MUTEX)
  \/ /\ Goto(t, "unlock", "up") /\ sys_mutex_unlock(t, MUTEX)
  \/ /\ Goto(t, "up", "down") /\ sys_semaphore_up(t, give)

\* producer: item i is PRODUCED, the number of rounds made before.
Produce ==
  \/ Calls(producer, EMPTY, FULL, PRODUCED) /\ UNCHANGED <<bufVars, main>>
  \/ /\ Goto(producer, "buffer", "index") /\ CanCall(producer)
     /\ BUF' = [BUF EXCEPT ![TAIL % BUF_SIZE] = PRODUCED]
     /\ UNCHANGED <<vars, HEAD, TAIL, PRODUCED, CONSUMED, main>>
  \/ /\ Goto(producer, "index", "count")
     /\ TAIL' = TAIL + 1
     /\ UNCHANGED <<vars, BUF, HEAD, PRODUCED, CONSUMED, main>>
  \/ /\ Goto(producer, "count", "unlock")
     /\ PRODUCED' = PRODUCED + 1
     /\ UNCHANGED <<vars, BUF, HEAD, TAIL, CONSUMED, main>>

\* consumer; the load of BUF has no effect (`let _v`).
Consume ==
  \/ Calls(consumer, FULL, EMPTY, CONSUMED) /\ UNCHANGED <<bufVars, main>>
  \/ /\ Goto(consumer, "buffer", "index") /\ CanCall(consumer)
     /\ UNCHANGED <<vars, bufVars, main>>
  \/ /\ Goto(consumer, "index", "count")
     /\ HEAD' = HEAD + 1
     /\ UNCHANGED <<vars, BUF, TAIL, PRODUCED, CONSUMED, main>>
  \/ /\ Goto(consumer, "count", "unlock")
     /\ CONSUMED' = CONSUMED + 1
     /\ UNCHANGED <<vars, BUF, HEAD, TAIL, PRODUCED, main>>

\* main leaves its yield loop and tests both counters.
MainReturns ==
  /\ main = "waits"
  /\ CONSUMED >= N_ITEMS
  /\ main' = IF PRODUCED = N_ITEMS /\ CONSUMED = N_ITEMS THEN "0" ELSE "-1"
  /\ UNCHANGED <<vars, pc, bufVars>>

PCInit ==
  /\ Init
  /\ pc = [t \in Threads |-> "down"]
  /\ BUF = [i \in 0 .. BUF_SIZE - 1 |-> 0]
  /\ HEAD = 0 /\ TAIL = 0 /\ PRODUCED = 0 /\ CONSUMED = 0
  /\ main = "waits"

PCNext == Produce \/ Consume \/ MainReturns

\* Round robin on a timer: a thread that can run does.
PCSpec ==
  /\ PCInit
  /\ [][PCNext]_pcVars
  /\ WF_pcVars(Produce) /\ WF_pcVars(Consume) /\ WF_pcVars(MainReturns)

-----------------------------------------------------------------------------
\* The consumer reads the items in the order they were produced, each once, and
\* the producer overwrites none that has not been read: when the consumer is at
\* the buffer, slot HEAD holds item HEAD.
ItemsArriveInOrder ==
  pc[consumer] = "buffer" /\ CanCall(consumer) => BUF[HEAD % BUF_SIZE] = HEAD /\ HEAD < TAIL

\* The program ends, and main returns 0.
MainSeesAllItems == <>(main = "0") /\ [](main # "-1")

=============================================================================
