-------------------------------- MODULE Proc --------------------------------
(***************************************************************************)
(* Processes of the phase 6 kernel: labs/phase_6_shell/src/task/ and       *)
(* syscall/process.rs, with the waiting loops of user/src/lib.rs and the   *)
(* program of user/src/bin/init.rs.                                        *)
(*                                                                         *)
(* One hart and no timer interrupt: a system call runs to its end or to    *)
(* its call of schedule() before any other task does, so a step is a       *)
(* system call up to there.  The Arc<ProcessControlBlock>s that keep a     *)
(* block alive are in the ready queue, in PROCESSOR.current, in INITPROC,  *)
(* in the parent's children, and in the local variable `task` of sys_yield *)
(* and sys_exit, which lives on the kernel stack while the task is         *)
(* switched out.                                                           *)
(*                                                                         *)
(* children is a Vec in the code; its order decides only which of several  *)
(* zombies waitpid(-1) finds, which is left open here.                     *)
(***************************************************************************)
EXTENDS Integers, Sequences

CONSTANTS Tasks,      \* identities of process control blocks
          initproc,   \* the block add_initproc installs in INITPROC
          NoTask,     \* None of PROCESSOR.current and of parent
          PidArgs     \* bound: the pids programs pass to waitpid

ASSUME ProcAssumption ==
  /\ initproc \in Tasks
  /\ NoTask \notin Tasks
  /\ PidArgs \subseteq Nat

TaskStatus == {"Ready", "Running", "Zombie"}
NotWaiting == -3    \* outside the loops of wait and waitpid
AnyChild   == -1    \* the argument of wait()

VARIABLES
  status,       \* PCBInner.status; "Unused" when the block does not exist
  pid,          \* ProcessControlBlock.pid
  parent,       \* PCBInner.parent
  children,     \* PCBInner.children
  ready_queue,  \* TASK_MANAGER.ready_queue
  current,      \* PROCESSOR.current
  next_pid,     \* PidAllocator.current
  recycled,     \* PidAllocator.recycled
  on_stack,     \* tasks with an Arc of themselves on their kernel stack
  waitfor,      \* the pid a task's wait/waitpid loop waits for
  shell,        \* init.rs: the pid of the shell forked last
  reaped        \* blocks sys_waitpid has removed from children (history)

vars == <<status, pid, parent, children, ready_queue, current, next_pid,
          recycled, on_stack, waitfor, shell, reaped>>

Existing == {t \in Tasks : status[t] # "Unused"}

Queued(t) == \E i \in 1 .. Len(ready_queue) : ready_queue[i] = t

CanRun(t) == current = t /\ waitfor[t] = NotWaiting

-----------------------------------------------------------------------------
\* run_tasks: fetch_task, mark Running, publish as current, __switch.  A task
\* that comes back from schedule() returns from sys_yield and drops its Arc.
run_tasks ==
  /\ current = NoTask
  /\ ready_queue # <<>>
  /\ LET task == Head(ready_queue)
     IN  /\ status' = [status EXCEPT ![task] = "Running"]
         /\ current' = task
         /\ on_stack' = on_stack \ {task}
  /\ ready_queue' = Tail(ready_queue)
  /\ UNCHANGED <<pid, parent, children, next_pid, recycled, waitfor, shell, reaped>>

\* A plausible bug: schedule() switches away without add_task.
ScheduleReadyLost(t) ==
  /\ current' = NoTask
  /\ status' = [status EXCEPT ![t] = "Ready"]
  /\ on_stack' = on_stack \cup {t}
  /\ UNCHANGED ready_queue

\* A plausible bug: push_front for push_back.
ScheduleReadyFront(t) ==
  /\ current' = NoTask
  /\ status' = [status EXCEPT ![t] = "Ready"]
  /\ on_stack' = on_stack \cup {t}
  /\ ready_queue' = <<t>> \o ready_queue

\* sys_yield and the schedule() it ends in: the task is marked Ready, taken
\* out of PROCESSOR and put at the back of the queue.
ScheduleReady(t) ==
  /\ current' = NoTask
  /\ status' = [status EXCEPT ![t] = "Ready"]
  /\ on_stack' = on_stack \cup {t}
  /\ ready_queue' = Append(ready_queue, t)

sys_yield(t) ==
  /\ CanRun(t)
  /\ t # initproc
  /\ ScheduleReady(t)
  /\ UNCHANGED <<pid, parent, children, next_pid, recycled, waitfor, shell, reaped>>

\* A plausible bug: the new pid is read and the counter is not advanced.
pid_alloc_stuck(p) ==
  /\ p = next_pid
  /\ UNCHANGED <<next_pid, recycled>>

\* PidAllocator::alloc.
pid_alloc(p) ==
  IF recycled # <<>>
  THEN /\ p = recycled[Len(recycled)]
       /\ recycled' = SubSeq(recycled, 1, Len(recycled) - 1)
       /\ UNCHANGED next_pid
  ELSE /\ p = next_pid
       /\ next_pid' = next_pid + 1
       /\ UNCHANGED recycled

\* A fresh block c: pid and links, then add_task.
Spawn(t, c) ==
  /\ status[c] = "Unused"
  /\ \E p \in {next_pid} \cup {recycled[i] : i \in 1 .. Len(recycled)} :
       /\ pid_alloc(p)
       /\ pid' = [pid EXCEPT ![c] = p]
  /\ status' = [status EXCEPT ![c] = "Ready"]
  /\ parent' = [parent EXCEPT ![c] = t]
  /\ children' = [children EXCEPT ![t] = @ \cup {c}, ![c] = {}]
  /\ ready_queue' = Append(ready_queue, c)
  /\ reaped' = reaped \ {c}
  /\ UNCHANGED <<current, on_stack>>

\* sys_fork by a program other than init; the child runs the same program, so
\* it starts outside the waiting loops.
sys_fork(t, c) ==
  /\ CanRun(t)
  /\ t # initproc
  /\ Spawn(t, c)
  /\ UNCHANGED <<waitfor, shell>>

\* init.rs: fork the shell, remember its pid, enter the wait loop.
InitForksShell(c) ==
  /\ CanRun(initproc)
  /\ Spawn(initproc, c)
  /\ shell' = pid'[c]
  /\ waitfor' = [waitfor EXCEPT ![initproc] = AnyChild]

\* A plausible bug: the orphans change parent and are pushed nowhere.
reparent_to_init_dropping(dying) ==
  /\ parent' = [c \in Tasks |-> IF c \in children[dying] THEN initproc ELSE parent[c]]
  /\ children' = [children EXCEPT ![dying] = {}]

\* reparent_to_init: drain dying's children into initproc's.
reparent_to_init(dying) ==
  /\ parent' = [c \in Tasks |-> IF c \in children[dying] THEN initproc ELSE parent[c]]
  /\ children' = [children EXCEPT ![dying] = {}, ![initproc] = @ \cup children[dying]]

\* sys_exit: Zombie, reparent, schedule() without add_task.  init never exits.
sys_exit(t) ==
  /\ CanRun(t)
  /\ t # initproc
  /\ status' = [status EXCEPT ![t] = "Zombie"]
  /\ reparent_to_init(t)
  /\ current' = NoTask
  /\ on_stack' = on_stack \cup {t}
  /\ UNCHANGED <<pid, ready_queue, next_pid, recycled, waitfor, shell, reaped>>

-----------------------------------------------------------------------------
\* A program enters wait or waitpid of user/src/lib.rs.
Wait(t, w) ==
  /\ CanRun(t)
  /\ t # initproc
  /\ waitfor' = [waitfor EXCEPT ![t] = w]
  /\ UNCHANGED <<status, pid, parent, children, ready_queue, current, next_pid,
                 recycled, on_stack, shell, reaped>>

\* The children the pid argument of sys_waitpid stands for.
Matching(t) ==
  {c \in children[t] : waitfor[t] = AnyChild \/ pid[c] = waitfor[t]}

Polls(t) == current = t /\ waitfor[t] # NotWaiting

\* sys_waitpid returns -1 and so does the loop.  (init.rs would loop on.)
WaitpidNoChild(t) ==
  /\ Polls(t)
  /\ t # initproc
  /\ Matching(t) = {}
  /\ waitfor' = [waitfor EXCEPT ![t] = NotWaiting]
  /\ UNCHANGED <<status, pid, parent, children, ready_queue, current, next_pid,
                 recycled, on_stack, shell, reaped>>

\* A plausible bug: -2 as soon as one matching child still runs.
WaitpidAgainIfAnyRuns(t) ==
  /\ Polls(t)
  /\ \E c \in Matching(t) : status[c] # "Zombie"
  /\ ScheduleReady(t)
  /\ UNCHANGED <<pid, parent, children, next_pid, recycled, waitfor, shell, reaped>>

\* sys_waitpid returns -2; the loop calls sys_yield and tries again.
WaitpidAgain(t) ==
  /\ Polls(t)
  /\ Matching(t) # {}
  /\ \A c \in Matching(t) : status[c] # "Zombie"
  /\ ScheduleReady(t)
  /\ UNCHANGED <<pid, parent, children, next_pid, recycled, waitfor, shell, reaped>>

\* The Arcs of c other than the one in t's children.
OtherArc(c, t) ==
  \/ c \in on_stack \/ Queued(c) \/ current = c \/ c = initproc
  \/ \E q \in Tasks \ {t} : c \in children[q]

\* Dropping the last Arc of c frees the block and PidHandle::drop recycles
\* its pid.
DropArc(c, t) ==
  IF OtherArc(c, t)
  THEN UNCHANGED <<status, recycled>>
  ELSE /\ status' = [status EXCEPT ![c] = "Unused"]
       /\ recycled' = Append(recycled, pid[c])

\* A plausible bug: init.rs does not compare the reaped pid with the shell's.
AfterReapAlwaysLoops(t, c) == IF t = initproc THEN AnyChild ELSE NotWaiting

\* The caller's loop after a child was reaped: init.rs goes on until it is the
\* shell, every other program's wait or waitpid returns.
AfterReap(t, c) ==
  IF t = initproc /\ pid[c] # shell THEN AnyChild ELSE NotWaiting

\* sys_waitpid removes a zombie and returns its pid.
WaitpidReap(t, c) ==
  /\ Polls(t)
  /\ c \in Matching(t)
  /\ status[c] = "Zombie"
  /\ children' = [children EXCEPT ![t] = @ \ {c}]
  /\ reaped' = reaped \cup {c}
  /\ DropArc(c, t)
  /\ waitfor' = [waitfor EXCEPT ![t] = AfterReap(t, c)]
  /\ UNCHANGED <<pid, parent, ready_queue, current, next_pid, on_stack, shell>>

-----------------------------------------------------------------------------
\* add_initproc: pid 0, in the ready queue.
Init ==
  /\ status = [t \in Tasks |-> IF t = initproc THEN "Ready" ELSE "Unused"]
  /\ pid = [t \in Tasks |-> 0]
  /\ parent = [t \in Tasks |-> NoTask]
  /\ children = [t \in Tasks |-> {}]
  /\ ready_queue = <<initproc>>
  /\ current = NoTask
  /\ next_pid = 1
  /\ recycled = <<>>
  /\ on_stack = {}
  /\ waitfor = [t \in Tasks |-> NotWaiting]
  /\ shell = 0
  /\ reaped = {}

Next ==
  \/ run_tasks
  \/ \E c \in Tasks : InitForksShell(c)
  \/ \E t \in Tasks :
       \/ sys_yield(t)
       \/ sys_exit(t)
       \/ WaitpidNoChild(t)
       \/ WaitpidAgain(t)
       \/ \E c \in Tasks : sys_fork(t, c)
       \/ \E c \in Tasks : WaitpidReap(t, c)
       \/ \E w \in PidArgs \cup {AnyChild} : Wait(t, w)

Spec == Init /\ [][Next]_vars

\* run_tasks loops for ever, and a task inside a waiting loop polls when it
\* runs.  The kernel has no timer, so that a task which runs on gives up the
\* processor sooner or later is up to the programs; those of user/src/bin do,
\* since each of their loops goes through a call that suspends.
GivesUp(t) == sys_yield(t) \/ sys_exit(t) \/ WaitpidAgain(t)

FairSpec ==
  /\ Spec
  /\ WF_vars(run_tasks)
  /\ WF_vars(\E c \in Tasks : InitForksShell(c))
  /\ \A t \in Tasks : WF_vars(WaitpidNoChild(t) \/ \E c \in Tasks : WaitpidReap(t, c))
  /\ \A t \in Tasks : SF_vars(GivesUp(t))

-----------------------------------------------------------------------------
\* The variables have their types.
TypeOK ==
  /\ status \in [Tasks -> TaskStatus \cup {"Unused"}]
  /\ pid \in [Tasks -> Nat]
  /\ parent \in [Tasks -> Tasks \cup {NoTask}]
  /\ children \in [Tasks -> SUBSET Tasks]
  /\ ready_queue \in Seq(Tasks)
  /\ current \in Tasks \cup {NoTask}
  /\ next_pid \in Nat
  /\ recycled \in Seq(Nat)
  /\ on_stack \in SUBSET Tasks
  /\ waitfor \in [Tasks -> PidArgs \cup {AnyChild, NotWaiting}]
  /\ shell \in Nat
  /\ reaped \in SUBSET Tasks

\* No task is ever lost or scheduled twice: a Ready task is in the ready queue
\* exactly once, a Running one is PROCESSOR.current, and zombies are in
\* neither, whatever forks, yields, exits and waits have happened.
NoTaskLost ==
  /\ \A t \in Tasks : status[t] = "Ready" <=> Queued(t)
  /\ \A i, j \in 1 .. Len(ready_queue) : ready_queue[i] = ready_queue[j] => i = j
  /\ \A t \in Tasks : status[t] = "Running" <=> current = t

\* Every process that has not been reaped is in the children of exactly one
\* process, its parent, and that one has not exited: someone can always reap
\* it.  A reaped process is in nobody's children and never runs again.
EveryProcessHasAParent ==
  /\ \A c \in Existing \ (reaped \cup {initproc}) :
       /\ parent[c] \in Existing
       /\ status[parent[c]] # "Zombie"
       /\ \A q \in Tasks : c \in children[q] <=> q = parent[c]
  /\ \A c \in Tasks : c \in reaped \/ c = initproc \/ c \notin Existing
                        => \A q \in Tasks : c \notin children[q]
  /\ \A c \in reaped : status[c] \in {"Zombie", "Unused"}

\* Two blocks that exist have different pids, so waitpid(pid) and the test
\* `reaped == pid` of init.rs mean one process; and no pid in use is waiting
\* in PidAllocator.recycled.
PidsUnique ==
  \A s, t \in Existing :
    /\ pid[s] = pid[t] => s = t
    /\ pid[s] < next_pid
    /\ \A i \in 1 .. Len(recycled) : recycled[i] # pid[s]

\* While init.rs is in its wait loop the shell it waits for is its child: the
\* loop never sees -1, on which it would spin without ever yielding.
InitHasItsShell ==
  waitfor[initproc] # NotWaiting =>
    \E c \in children[initproc] : pid[c] = shell

\* The bound on control blocks bites: init is to fork a shell and none is
\* left.  The model ends there (the kernel would be out of memory).
OutOfBlocks == CanRun(initproc) /\ Existing = Tasks

\* No starvation: a Ready task runs (FIFO queue, run_tasks).
ReadyTaskRuns ==
  \A t \in Tasks : status[t] = "Ready" ~> (status[t] = "Running" \/ OutOfBlocks)

\* Zombies left to init, orphans included, are reaped.
InitReapsZombies ==
  \A c \in Tasks :
    (status[c] = "Zombie" /\ c \in children[initproc]) ~>
      (c \in reaped \/ OutOfBlocks)

\* What the comment in sys_waitpid says of a reaped child: removing it from
\* children drops the last Arc, which frees the block (and its kernel stack
\* and pid).
ReapedBlockIsFreed == \A c \in reaped : status[c] = "Unused"

=============================================================================
