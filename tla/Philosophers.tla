---------------------------- MODULE Philosophers ----------------------------
(***************************************************************************)
(* labs/phase_3_sync/user/src/bin/philosopher_dinner.rs over the mutexes   *)
(* of Sync.  The timer preempts a philosopher between any two steps.       *)
(* HEARTBEAT, which only grows, is the occurrence of "eat".                *)
(***************************************************************************)
EXTENDS Sync

CONSTANT N     \* philosophers, and forks

VARIABLE pc    \* pc[id]: what philosopher id does next

philVars == <<vars, pc>>

\* A plausible bug: left fork first, for everybody.
ForksUnordered(id) == <<id, (id + 1) % N>>

\* The two forks, the lower-numbered one first.
Forks(id) ==
  LET left == id  right == (id + 1) % N
  IN  IF left < right THEN <<left, right>> ELSE <<right, left>>

Goto(id, from, to) == pc[id] = from /\ pc' = [pc EXCEPT ![id] = to]

philosopher(id) ==
  \/ Goto(id, "think", "lock first") /\ CanCall(id) /\ UNCHANGED vars
  \/ Goto(id, "lock first", "lock second") /\ sys_mutex_lock(id, Forks(id)[1])
  \/ Goto(id, "lock second", "eat") /\ sys_mutex_lock(id, Forks(id)[2])
  \/ Goto(id, "eat", "unlock second") /\ CanCall(id) /\ UNCHANGED vars
  \/ Goto(id, "unlock second", "unlock first") /\ sys_mutex_unlock(id, Forks(id)[2])
  \/ Goto(id, "unlock first", "think") /\ sys_mutex_unlock(id, Forks(id)[1])

PhilInit == Init /\ pc = [id \in Threads |-> "think"]

PhilNext == \E id \in Threads : philosopher(id)

\* Round robin on a timer: a thread that can run does.
PhilSpec ==
  /\ PhilInit
  /\ [][PhilNext]_philVars
  /\ \A id \in Threads : WF_philVars(philosopher(id))

-----------------------------------------------------------------------------
\* A philosopher eats with both forks in hand.
Eats(id) == pc[id] \in {"eat", "unlock second"} /\ CanCall(id)

=============================================================================
