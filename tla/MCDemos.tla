------------------------------ MODULE MCDemos ------------------------------
(***************************************************************************)
(* The three demonstration programs of labs/phase_3_sync/user/src/bin on   *)
(* the kernel of Sync: one of them is started, and the kernel creates the  *)
(* mutexes and semaphores that one asks for.  Five philosophers, as in the *)
(* program; three workers of two iterations; a buffer of two slots and     *)
(* five items, so that the ring wraps twice.                               *)
(***************************************************************************)
EXTENDS Integers

CONSTANT NoMutex

VARIABLES
  locked, mutex_queue, count, sem_queue, cv_queue, state, relock,
  holds, ups, downs,                       \* Sync
  pc, main,                                \* of the program that runs
  COUNTER, reg, left,                      \* race_counter.rs
  BUF, HEAD, TAIL, PRODUCED, CONSUMED,     \* producer_consumer.rs
  app                                      \* the program that was started

raceOnly == <<COUNTER, reg, left>>
bufferOnly == <<BUF, HEAD, TAIL, PRODUCED, CONSUMED>>
demoVars == <<locked, mutex_queue, count, sem_queue, cv_queue, state, relock,
              holds, ups, downs, pc, main, raceOnly, bufferOnly, app>>

Dinner == INSTANCE Philosophers WITH
  N <- 5, Threads <- 0 .. 4, Mutexes <- 0 .. 4,
  Sems <- {}, Condvars <- {}, initial <- << >>, MAX_UPS <- 0

Race == INSTANCE RaceCounter WITH
  THREADS <- 3, ITERS <- 2, MUTEX_ID <- 0, Threads <- 1 .. 3, Mutexes <- {0},
  Sems <- {}, Condvars <- {}, initial <- << >>, MAX_UPS <- 0

Bounded == INSTANCE ProducerConsumer WITH
  BUF_SIZE <- 2, N_ITEMS <- 5, MUTEX <- 0, Mutexes <- {0},
  producer <- "producer", consumer <- "consumer",
  Threads <- {"producer", "consumer"}, EMPTY <- "empty", FULL <- "full",
  Sems <- {"empty", "full"}, Condvars <- {}, MAX_UPS <- 5,
  initial <- [s \in {"empty", "full"} |-> IF s = "empty" THEN 2 ELSE 0]

\* The statics of a program that was not started.
NoRace == COUNTER = 0 /\ reg = << >> /\ left = << >>
NoBuffer == BUF = << >> /\ HEAD = 0 /\ TAIL = 0 /\ PRODUCED = 0 /\ CONSUMED = 0

DemoInit ==
  \/ app = "philosopher_dinner" /\ Dinner!PhilInit /\ main = "waits" /\ NoRace /\ NoBuffer
  \/ app = "race_counter" /\ Race!RaceInit /\ NoBuffer
  \/ app = "producer_consumer" /\ Bounded!PCInit /\ NoRace

philosopher(id) ==
  app = "philosopher_dinner" /\ Dinner!philosopher(id) /\ UNCHANGED <<main, raceOnly, bufferOnly, app>>
worker(t) ==
  app = "race_counter" /\ Race!worker(t) /\ UNCHANGED <<bufferOnly, app>>
RaceMain ==
  app = "race_counter" /\ Race!MainReturns /\ UNCHANGED <<bufferOnly, app>>
Produce ==
  app = "producer_consumer" /\ Bounded!Produce /\ UNCHANGED <<raceOnly, app>>
Consume ==
  app = "producer_consumer" /\ Bounded!Consume /\ UNCHANGED <<raceOnly, app>>
BufferMain ==
  app = "producer_consumer" /\ Bounded!MainReturns /\ UNCHANGED <<raceOnly, app>>

DemoNext ==
  \/ \E id \in 0 .. 4 : philosopher(id)
  \/ \E t \in 1 .. 3 : worker(t)
  \/ RaceMain \/ Produce \/ Consume \/ BufferMain

\* Round robin on a timer: a thread that can run does.
DemoSpec ==
  /\ DemoInit
  /\ [][DemoNext]_demoVars
  /\ \A id \in 0 .. 4 : WF_demoVars(philosopher(id))
  /\ \A t \in 1 .. 3 : WF_demoVars(worker(t))
  /\ WF_demoVars(RaceMain)
  /\ WF_demoVars(Produce) /\ WF_demoVars(Consume) /\ WF_demoVars(BufferMain)

-----------------------------------------------------------------------------
\* philosopher_dinner.rs: every heartbeat keeps beating.  There is no deadlock
\* (the acceptance criterion of the program), and nobody starves, since a mutex
\* is handed on in the order of arrival.
EveryoneKeepsEating ==
  \A id \in 0 .. 4 : []<>(app = "philosopher_dinner" => Dinner!Eats(id))

\* race_counter.rs: no increment is lost or made twice; main returns 0.
MainGetsTheFullCount == app = "race_counter" => Race!MainGetsTheFullCount

\* producer_consumer.rs: every item is read once and in order.
ItemsArriveInOrder == app = "producer_consumer" => Bounded!ItemsArriveInOrder

\* producer_consumer.rs: the program ends and main returns 0.
MainSeesAllItems == app = "producer_consumer" => Bounded!MainSeesAllItems

=============================================================================
