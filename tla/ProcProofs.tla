----------------------------- MODULE ProcProofs -----------------------------
(***************************************************************************)
(* Proofs about Proc, for any set of control blocks: no task is lost or    *)
(* queued twice, every unreaped process has one live parent, pids are      *)
(* unique, init always has its shell, and no pid is ever recycled.         *)
(***************************************************************************)
EXTENDS Proc, SequenceTheorems, TLAPS

\* The conjuncts that make the invariants inductive.  The Arc that sys_exit
\* leaves on the dying task's stack is what keeps every zombie's block alive.
ZombiesHeld ==
  /\ \A t \in Tasks : status[t] = "Zombie" => t \in on_stack
  /\ recycled = <<>>

InitAlive == status[initproc] \in {"Ready", "Running"}

IndInv ==
  /\ TypeOK
  /\ NoTaskLost
  /\ EveryProcessHasAParent
  /\ PidsUnique
  /\ InitHasItsShell
  /\ ZombiesHeld
  /\ InitAlive

-----------------------------------------------------------------------------
(* The ready queue as a sequence without repetitions.                      *)

Distinct(s) == \A i, j \in 1 .. Len(s) : s[i] = s[j] => i = j
In(x, s) == \E i \in 1 .. Len(s) : s[i] = x

\* push_back of an element that is not there.
LEMMA AppendDistinct ==
  ASSUME NEW S, NEW s \in Seq(S), NEW x \in S
  PROVE  /\ \A y : In(y, Append(s, x)) <=> In(y, s) \/ y = x
         /\ Distinct(s) /\ ~ In(x, s) => Distinct(Append(s, x))
<1>1. /\ Len(Append(s, x)) = Len(s) + 1 /\ Len(s) \in Nat
      /\ Append(s, x)[Len(s) + 1] = x
      /\ \A i \in 1 .. Len(s) : Append(s, x)[i] = s[i]
  BY AppendProperties, LenProperties
<1>2. QED
  BY <1>1 DEF Distinct, In

\* pop_front of a sequence without repetitions.
LEMMA TailDistinct ==
  ASSUME NEW S, NEW s \in Seq(S), s # <<>>, Distinct(s)
  PROVE  /\ Head(s) \in S /\ In(Head(s), s)
         /\ Tail(s) \in Seq(S)
         /\ Distinct(Tail(s))
         /\ \A y : In(y, Tail(s)) <=> In(y, s) /\ y # Head(s)
<1>1. /\ Len(s) \in Nat /\ Len(s) > 0
      /\ Head(s) = s[1] /\ Head(s) \in S
      /\ Tail(s) \in Seq(S)
      /\ Len(Tail(s)) = Len(s) - 1
      /\ \A i \in 1 .. Len(s) - 1 : Tail(s)[i] = s[i + 1]
  BY HeadTailProperties, LenProperties, EmptySeq
<1>2. Distinct(Tail(s))
  BY <1>1 DEF Distinct
<1>3. ASSUME NEW y PROVE In(y, Tail(s)) <=> In(y, s) /\ y # Head(s)
  <2>1. ASSUME In(y, Tail(s)) PROVE In(y, s) /\ y # Head(s)
    <3>1. PICK i \in 1 .. Len(s) - 1 : y = s[i + 1]
      BY <1>1, <2>1 DEF In
    <3>2. QED
      BY <1>1, <3>1 DEF In, Distinct
  <2>2. ASSUME In(y, s), y # Head(s) PROVE In(y, Tail(s))
    <3>1. PICK i \in 1 .. Len(s) : y = s[i]
      BY <2>2 DEF In
    <3>2. i - 1 \in 1 .. Len(s) - 1 /\ Tail(s)[i - 1] = y
      BY <1>1, <2>2, <3>1
    <3>3. QED
      BY <1>1, <3>2 DEF In
  <2>3. QED
    BY <2>1, <2>2
<1>4. QED
  BY <1>1, <1>2, <1>3 DEF In

-----------------------------------------------------------------------------
LEMMA InitIndInv == Init => IndInv
<1> SUFFICES ASSUME Init PROVE IndInv
  OBVIOUS
<1>1. Len(ready_queue) = 1 /\ ready_queue[1] = initproc /\ ready_queue \in Seq(Tasks)
  BY ProcAssumption DEF Init
<1>2. recycled = <<>> /\ recycled \in Seq(Nat) /\ Len(recycled) = 0
  BY DEF Init
<1>3. TypeOK
  BY <1>1, <1>2 DEF Init, TypeOK, TaskStatus
<1>4. NoTaskLost
  <2>1. \A t \in Tasks : Queued(t) <=> t = initproc
    BY <1>1 DEF Queued
  <2>2. \A t \in Tasks : /\ status[t] = "Ready" <=> t = initproc
                         /\ status[t] # "Running"
                         /\ current # t
    BY ProcAssumption DEF Init
  <2>3. QED
    BY <1>1, <2>1, <2>2 DEF NoTaskLost
<1>5. EveryProcessHasAParent
  BY ProcAssumption DEF Init, EveryProcessHasAParent, Existing
<1>6. PidsUnique
  <2>1. Existing = {initproc}
    BY ProcAssumption DEF Init, Existing
  <2>2. pid[initproc] = 0 /\ next_pid = 1
    BY ProcAssumption DEF Init
  <2>3. 1 .. Len(recycled) = {}
    BY <1>2
  <2>4. QED
    BY <2>1, <2>2, <2>3 DEF PidsUnique
<1>7. InitHasItsShell /\ InitAlive
  BY ProcAssumption DEF Init, InitHasItsShell, InitAlive
<1>8. ZombiesHeld
  BY DEF Init, ZombiesHeld
<1>9. QED
  BY <1>3, <1>4, <1>5, <1>6, <1>7, <1>8 DEF IndInv

\* What being in a children vector says of the child and of the owner.
LEMMA ChildFacts ==
  ASSUME TypeOK, EveryProcessHasAParent, NEW q \in Tasks, NEW c \in children[q]
  PROVE  /\ c \in Existing /\ c \notin reaped /\ c # initproc
         /\ q = parent[c] /\ q \in Existing /\ status[q] # "Zombie"
<1>1. c \in Tasks
  BY DEF TypeOK
<1>2. c \in Existing /\ c \notin reaped /\ c # initproc
  BY <1>1 DEF EveryProcessHasAParent
<1>3. QED
  BY <1>2 DEF EveryProcessHasAParent

\* A step that touches neither blocks, links nor pids.
LEMMA LinksKept ==
  ASSUME IndInv, UNCHANGED <<pid, parent, children, next_pid, recycled, reaped>>,
         \A t \in Tasks : /\ status'[t] = "Unused" <=> status[t] = "Unused"
                          /\ status'[t] = "Zombie" <=> status[t] = "Zombie"
  PROVE  EveryProcessHasAParent' /\ PidsUnique'
<1>1. Existing' = Existing
  BY DEF Existing
<1>2. EveryProcessHasAParent'
  <2>1. reaped \in SUBSET Tasks
    BY DEF IndInv, TypeOK
  <2>2. ASSUME NEW c \in Existing \ (reaped \cup {initproc})
        PROVE  /\ parent[c] \in Existing
               /\ status'[parent[c]] # "Zombie"
               /\ \A q \in Tasks : c \in children[q] <=> q = parent[c]
    BY DEF IndInv, EveryProcessHasAParent, Existing
  <2>3. ASSUME NEW c \in reaped PROVE status'[c] \in {"Zombie", "Unused"}
    BY <2>1, <2>3 DEF IndInv, EveryProcessHasAParent
  <2>4. \A c \in Tasks : c \in reaped \/ c = initproc \/ c \notin Existing
                           => \A q \in Tasks : c \notin children[q]
    BY DEF IndInv, EveryProcessHasAParent
  <2>5. QED
    BY <1>1, <2>2, <2>3, <2>4 DEF EveryProcessHasAParent
<1>3. PidsUnique'
  BY <1>1 DEF IndInv, PidsUnique
<1>4. QED
  BY <1>2, <1>3

LEMMA RunStep ==
  ASSUME IndInv, run_tasks
  PROVE  IndInv'
<1> USE DEF IndInv
<1> DEFINE task == Head(ready_queue)
<1>1. Distinct(ready_queue) /\ ready_queue \in Seq(Tasks) /\ ready_queue # <<>>
  BY DEF NoTaskLost, Distinct, TypeOK, run_tasks
<1>2. /\ task \in Tasks /\ In(task, ready_queue)
      /\ Tail(ready_queue) \in Seq(Tasks)
      /\ Distinct(Tail(ready_queue))
      /\ \A y : In(y, Tail(ready_queue)) <=> In(y, ready_queue) /\ y # task
  BY <1>1, TailDistinct
<1>3. /\ status' = [status EXCEPT ![task] = "Running"]
      /\ current' = task /\ current = NoTask
      /\ ready_queue' = Tail(ready_queue)
      /\ on_stack' = on_stack \ {task}
      /\ UNCHANGED <<pid, parent, children, next_pid, recycled, waitfor, shell, reaped>>
  BY DEF run_tasks
<1>4. status[task] = "Ready"
  BY <1>2 DEF NoTaskLost, Queued, In
<1> HIDE DEF task
<1>5. TypeOK'
  BY <1>2, <1>3 DEF TypeOK, TaskStatus
<1>6. NoTaskLost'
  <2>1. \A t \in Tasks : status'[t] = "Ready" <=> In(t, ready_queue')
    BY <1>2, <1>3 DEF NoTaskLost, Queued, In, TypeOK
  <2>2. \A t \in Tasks : status'[t] = "Running" <=> current' = t
    BY <1>2, <1>3, ProcAssumption DEF NoTaskLost, TypeOK
  <2>3. QED
    BY <1>2, <1>3, <2>1, <2>2 DEF NoTaskLost, Queued, In, Distinct
<1>7. \A t \in Tasks : /\ status'[t] = "Unused" <=> status[t] = "Unused"
                       /\ status'[t] = "Zombie" <=> status[t] = "Zombie"
  BY <1>2, <1>3, <1>4 DEF TypeOK
<1>8. EveryProcessHasAParent' /\ PidsUnique'
  BY <1>3, <1>7, LinksKept
<1>9. InitHasItsShell'
  BY <1>3 DEF InitHasItsShell
<1>10. ZombiesHeld'
  BY <1>3, <1>4, <1>7 DEF ZombiesHeld
<1>11. InitAlive'
  BY <1>3, ProcAssumption DEF InitAlive, TypeOK
<1>12. QED
  BY <1>5, <1>6, <1>8, <1>9, <1>10, <1>11

LEMMA ScheduleStep ==
  ASSUME IndInv, NEW t \in Tasks, current = t, ScheduleReady(t),
         UNCHANGED <<pid, parent, children, next_pid, recycled, waitfor, shell, reaped>>
  PROVE  IndInv'
<1> USE DEF IndInv
<1>1. /\ status' = [status EXCEPT ![t] = "Ready"]
      /\ current' = NoTask
      /\ ready_queue' = Append(ready_queue, t)
      /\ on_stack' = on_stack \cup {t}
  BY DEF ScheduleReady
<1>2. status[t] = "Running" /\ ~ In(t, ready_queue)
  BY DEF NoTaskLost, Queued, In
<1>3. Distinct(ready_queue) /\ ready_queue \in Seq(Tasks)
  BY DEF NoTaskLost, Distinct, TypeOK
<1>4. /\ \A y : In(y, ready_queue') <=> In(y, ready_queue) \/ y = t
      /\ Distinct(ready_queue')
      /\ ready_queue' \in Seq(Tasks)
  BY <1>1, <1>2, <1>3, AppendDistinct, AppendProperties
<1>5. TypeOK'
  BY <1>1, <1>4 DEF TypeOK, TaskStatus
<1>6. NoTaskLost'
  <2>1. \A u \in Tasks : status'[u] = "Ready" <=> In(u, ready_queue')
    <3>1. \A u \in Tasks : status[u] = "Ready" <=> In(u, ready_queue)
      BY DEF NoTaskLost, Queued, In
    <3>2. \A u \in Tasks : status'[u] = IF u = t THEN "Ready" ELSE status[u]
      BY <1>1 DEF TypeOK
    <3>3. QED
      BY <1>4, <3>1, <3>2
  <2>2. \A u \in Tasks : status'[u] = "Running" <=> current' = u
    BY <1>1, ProcAssumption DEF NoTaskLost, TypeOK
  <2>3. QED
    BY <1>4, <2>1, <2>2 DEF NoTaskLost, Queued, In, Distinct
<1>7. \A u \in Tasks : /\ status'[u] = "Unused" <=> status[u] = "Unused"
                       /\ status'[u] = "Zombie" <=> status[u] = "Zombie"
  BY <1>1, <1>2 DEF TypeOK
<1>8. EveryProcessHasAParent' /\ PidsUnique'
  BY <1>7, LinksKept
<1>9. InitHasItsShell'
  BY DEF InitHasItsShell
<1>10. ZombiesHeld'
  BY <1>1, <1>7 DEF ZombiesHeld
<1>11. InitAlive'
  BY <1>1, ProcAssumption DEF InitAlive, TypeOK
<1>12. QED
  BY <1>5, <1>6, <1>8, <1>9, <1>10, <1>11

\* What both forks do; what they do to waitfor and shell is left open.
LEMMA SpawnStep ==
  ASSUME IndInv, NEW t \in Tasks, NEW c \in Tasks, current = t, Spawn(t, c)
  PROVE  /\ status' \in [Tasks -> TaskStatus \cup {"Unused"}]
         /\ pid' \in [Tasks -> Nat]
         /\ parent' \in [Tasks -> Tasks \cup {NoTask}]
         /\ children' \in [Tasks -> SUBSET Tasks]
         /\ ready_queue' \in Seq(Tasks)
         /\ next_pid' \in Nat /\ recycled' \in Seq(Nat)
         /\ UNCHANGED <<current, on_stack>>
         /\ reaped' \in SUBSET Tasks
         /\ NoTaskLost' /\ EveryProcessHasAParent' /\ PidsUnique'
         /\ ZombiesHeld' /\ InitAlive'
         /\ c \in children'[t]
         /\ \A q \in Tasks : children[q] \subseteq children'[q]
         /\ \A q \in Existing : pid'[q] = pid[q]
<1> USE DEF IndInv
<1>1. recycled = <<>> /\ Len(recycled) = 0 /\ recycled \in Seq(Nat)
  BY DEF ZombiesHeld
<1>2. /\ status[c] = "Unused"
      /\ status' = [status EXCEPT ![c] = "Ready"]
      /\ parent' = [parent EXCEPT ![c] = t]
      /\ children' = [children EXCEPT ![t] = children[t] \cup {c}, ![c] = {}]
      /\ ready_queue' = Append(ready_queue, c)
      /\ reaped' = reaped \ {c}
      /\ UNCHANGED <<current, on_stack>>
  BY DEF Spawn
<1>3. /\ pid' = [pid EXCEPT ![c] = next_pid]
      /\ next_pid' = next_pid + 1
      /\ recycled' = recycled
  <2>1. PICK p \in {next_pid} \cup {recycled[i] : i \in 1 .. Len(recycled)} :
          pid_alloc(p) /\ pid' = [pid EXCEPT ![c] = p]
    BY DEF Spawn
  <2>2. QED
    BY <1>1, <2>1 DEF pid_alloc
<1>4. status[t] = "Running" /\ t # c /\ ~ In(c, ready_queue)
  BY <1>2 DEF NoTaskLost, Queued, In
<1>5. Distinct(ready_queue) /\ ready_queue \in Seq(Tasks)
  BY DEF NoTaskLost, Distinct, TypeOK
<1>6. /\ \A y : In(y, ready_queue') <=> In(y, ready_queue) \/ y = c
      /\ Distinct(ready_queue')
      /\ ready_queue' \in Seq(Tasks)
  BY <1>2, <1>4, <1>5, AppendDistinct, AppendProperties
<1>7. /\ status' \in [Tasks -> TaskStatus \cup {"Unused"}]
      /\ pid' \in [Tasks -> Nat] /\ next_pid' \in Nat
      /\ parent' \in [Tasks -> Tasks \cup {NoTask}]
      /\ children' \in [Tasks -> SUBSET Tasks]
      /\ reaped' \in SUBSET Tasks
      /\ recycled' \in Seq(Nat)
  <2>1. status' \in [Tasks -> TaskStatus \cup {"Unused"}]
    BY <1>2 DEF TypeOK, TaskStatus
  <2>2. pid' \in [Tasks -> Nat] /\ next_pid' \in Nat
    BY <1>3 DEF TypeOK
  <2>3. parent' \in [Tasks -> Tasks \cup {NoTask}]
    BY <1>2 DEF TypeOK
  <2>4. children' \in [Tasks -> SUBSET Tasks]
    BY <1>2 DEF TypeOK
  <2>5. reaped' \in SUBSET Tasks
    BY <1>2 DEF TypeOK
  <2>6. QED
    BY <1>1, <1>3, <2>1, <2>2, <2>3, <2>4, <2>5
<1>8. NoTaskLost'
  <2>1. \A u \in Tasks : status'[u] = "Ready" <=> In(u, ready_queue')
    BY <1>2, <1>6 DEF NoTaskLost, Queued, In, TypeOK
  <2>2. \A u \in Tasks : status'[u] = "Running" <=> current' = u
    BY <1>2, <1>4 DEF NoTaskLost, TypeOK
  <2>3. QED
    BY <1>6, <2>1, <2>2 DEF NoTaskLost, Queued, In, Distinct
<1>9. /\ Existing' = Existing \cup {c} /\ c \notin Existing
      /\ t \in Existing
  BY <1>2, <1>4 DEF Existing, TypeOK
<1>10. \A q \in Tasks : c \notin children[q]
  BY <1>9 DEF EveryProcessHasAParent
<1>11. children[c] = {}
  <2>1. ASSUME NEW d \in children[c] PROVE FALSE
    BY <1>9, ChildFacts
  <2>2. QED
    BY <2>1
<1>12. \A d, q \in Tasks : d \in children'[q] <=> d \in children[q] \/ (d = c /\ q = t)
  BY <1>2, <1>4, <1>11 DEF TypeOK
<1>13. EveryProcessHasAParent'
  <2>1. ASSUME NEW d \in Existing' \ (reaped' \cup {initproc})
        PROVE  /\ parent'[d] \in Existing'
               /\ status'[parent'[d]] # "Zombie"
               /\ \A q \in Tasks : d \in children'[q] <=> q = parent'[d]
    <3>1. CASE d = c
      BY <1>2, <1>4, <1>9, <1>10, <1>12, <3>1 DEF TypeOK
    <3>2. CASE d # c
      <4>1. d \in Existing \ (reaped \cup {initproc}) /\ d \in Tasks
        BY <1>2, <1>9, <3>2 DEF Existing
      <4>2. parent'[d] = parent[d] /\ parent[d] \in Existing /\ parent[d] # c
        BY <1>2, <1>9, <3>2, <4>1 DEF EveryProcessHasAParent, TypeOK
      <4>3. status'[parent[d]] = status[parent[d]] /\ status[parent[d]] # "Zombie"
        BY <1>2, <4>1, <4>2 DEF EveryProcessHasAParent, TypeOK, Existing
      <4>4. \A q \in Tasks : d \in children'[q] <=> q = parent[d]
        BY <1>12, <3>2, <4>1 DEF EveryProcessHasAParent
      <4>5. QED
        BY <1>9, <4>2, <4>3, <4>4
    <3>3. QED
      BY <3>1, <3>2
  <2>2. ASSUME NEW d \in Tasks, d \in reaped' \/ d = initproc \/ d \notin Existing',
               NEW q \in Tasks
        PROVE  d \notin children'[q]
    <3>1. d # c
      BY <1>2, <1>9, <2>2 DEF InitAlive
    <3>2. QED
      BY <1>2, <1>9, <1>12, <2>2, <3>1 DEF EveryProcessHasAParent
  <2>3. ASSUME NEW d \in reaped' PROVE status'[d] \in {"Zombie", "Unused"}
    BY <1>2, <2>3 DEF EveryProcessHasAParent, TypeOK
  <2>4. QED
    BY <2>1, <2>2, <2>3 DEF EveryProcessHasAParent
<1>14. PidsUnique'
  <2>1. \A q \in Existing : pid'[q] = pid[q] /\ pid[q] < next_pid /\ pid[q] \in Nat
    BY <1>3, <1>9 DEF PidsUnique, TypeOK, Existing
  <2>2. pid'[c] = next_pid /\ next_pid \in Nat
    BY <1>3 DEF TypeOK
  <2>3. \A s, u \in Existing' : pid'[s] = pid'[u] => s = u
    BY <1>9, <2>1, <2>2 DEF PidsUnique
  <2>4. \A s \in Existing' : pid'[s] < next_pid'
    BY <1>3, <1>9, <2>1, <2>2
  <2>5. 1 .. Len(recycled') = {}
    BY <1>1, <1>3
  <2>6. QED
    BY <2>3, <2>4, <2>5 DEF PidsUnique
<1>15. ZombiesHeld'
  BY <1>1, <1>2, <1>3 DEF ZombiesHeld, TypeOK
<1>16. InitAlive'
  BY <1>2, ProcAssumption DEF InitAlive, TypeOK
<1>17. \A q \in Existing : pid'[q] = pid[q]
  BY <1>3, <1>9 DEF TypeOK, Existing
<1>18. c \in children'[t] /\ \A q \in Tasks : children[q] \subseteq children'[q]
  BY <1>7, <1>12 DEF TypeOK
<1>19. QED
  BY <1>2, <1>6, <1>7, <1>8, <1>13, <1>14, <1>15, <1>16, <1>17, <1>18

LEMMA ForkStep ==
  ASSUME IndInv, NEW t \in Tasks, NEW c \in Tasks, sys_fork(t, c)
  PROVE  IndInv'
<1>1. current = t /\ Spawn(t, c) /\ UNCHANGED <<waitfor, shell>>
  BY DEF sys_fork, CanRun
<1>2. TypeOK'
  BY <1>1, SpawnStep DEF IndInv, TypeOK
<1>3. InitHasItsShell'
  <2>1. SUFFICES ASSUME waitfor[initproc] # NotWaiting
                 PROVE  \E d \in children'[initproc] : pid'[d] = shell
    BY <1>1 DEF InitHasItsShell
  <2>2. PICK d \in children[initproc] : pid[d] = shell
    BY <2>1 DEF IndInv, InitHasItsShell
  <2>3. d \in Existing
    BY <2>2, ChildFacts, ProcAssumption DEF IndInv
  <2>4. QED
    BY <1>1, <2>2, <2>3, SpawnStep, ProcAssumption
<1>4. QED
  BY <1>1, <1>2, <1>3, SpawnStep DEF IndInv

LEMMA InitForkStep ==
  ASSUME IndInv, NEW c \in Tasks, InitForksShell(c)
  PROVE  IndInv'
<1>1. /\ current = initproc /\ Spawn(initproc, c) /\ initproc \in Tasks
      /\ shell' = pid'[c]
      /\ waitfor' = [waitfor EXCEPT ![initproc] = AnyChild]
  BY ProcAssumption DEF InitForksShell, CanRun
<1>2. TypeOK'
  BY <1>1, SpawnStep DEF IndInv, TypeOK
<1>3. InitHasItsShell'
  BY <1>1, SpawnStep DEF InitHasItsShell
<1>4. QED
  BY <1>1, <1>2, <1>3, SpawnStep DEF IndInv

LEMMA ExitStep ==
  ASSUME IndInv, NEW t \in Tasks, sys_exit(t)
  PROVE  IndInv'
<1> USE DEF IndInv
<1>1. /\ current = t /\ t # initproc
      /\ status' = [status EXCEPT ![t] = "Zombie"]
      /\ parent' = [c \in Tasks |-> IF c \in children[t] THEN initproc ELSE parent[c]]
      /\ children' = [children EXCEPT ![t] = {},
                                      ![initproc] = children[initproc] \cup children[t]]
      /\ current' = NoTask
      /\ on_stack' = on_stack \cup {t}
      /\ UNCHANGED <<pid, ready_queue, next_pid, recycled, waitfor, shell, reaped>>
  BY DEF sys_exit, CanRun, reparent_to_init
<1>2. status[t] = "Running" /\ initproc \in Tasks
  BY <1>1, ProcAssumption DEF NoTaskLost
<1>3. TypeOK'
  <2>1. status' \in [Tasks -> TaskStatus \cup {"Unused"}]
    BY <1>1 DEF TypeOK, TaskStatus
  <2>2. parent' \in [Tasks -> Tasks \cup {NoTask}]
    BY <1>1, <1>2 DEF TypeOK
  <2>3. children' \in [Tasks -> SUBSET Tasks]
    BY <1>1, <1>2 DEF TypeOK
  <2>4. QED
    BY <1>1, <2>1, <2>2, <2>3 DEF TypeOK
<1>4. NoTaskLost'
  <2>1. \A u \in Tasks : /\ status'[u] = "Ready" <=> status[u] = "Ready"
                         /\ status'[u] # "Running"
                         /\ current' # u
    BY <1>1, <1>2, ProcAssumption DEF NoTaskLost, TypeOK
  <2>2. QED
    BY <1>1, <2>1 DEF NoTaskLost, Queued
<1>5. Existing' = Existing /\ t \in Existing /\ t \notin reaped /\ initproc \in Existing
  BY <1>1, <1>2 DEF Existing, TypeOK, EveryProcessHasAParent, InitAlive
<1>6. \A d, q \in Tasks :
        d \in children'[q] <=> \/ q # t /\ d \in children[q]
                               \/ q = initproc /\ d \in children[t]
  BY <1>1, <1>2 DEF TypeOK
<1>7. EveryProcessHasAParent'
  <2>1. ASSUME NEW d \in Existing \ (reaped \cup {initproc})
        PROVE  /\ parent'[d] \in Existing
               /\ status'[parent'[d]] # "Zombie"
               /\ \A q \in Tasks : d \in children'[q] <=> q = parent'[d]
    <3>1. /\ d \in Tasks /\ parent[d] \in Existing /\ parent[d] \in Tasks
          /\ status[parent[d]] # "Zombie"
          /\ \A q \in Tasks : d \in children[q] <=> q = parent[d]
      BY DEF EveryProcessHasAParent, Existing
    <3>2. CASE d \in children[t]
      <4>1. parent'[d] = initproc /\ parent[d] = t
        BY <1>1, <3>1, <3>2
      <4>2. status'[initproc] # "Zombie"
        BY <1>1, <1>2 DEF InitAlive, TypeOK
      <4>3. \A q \in Tasks : d \in children'[q] <=> q = initproc
        BY <1>2, <1>6, <3>1, <3>2, <4>1
      <4>4. QED
        BY <1>5, <4>1, <4>2, <4>3
    <3>3. CASE d \notin children[t]
      <4>1. parent'[d] = parent[d] /\ parent[d] # t
        BY <1>1, <3>1, <3>3
      <4>2. status'[parent[d]] # "Zombie"
        BY <1>1, <3>1, <4>1 DEF TypeOK
      <4>3. \A q \in Tasks : d \in children'[q] <=> q = parent[d]
        BY <1>6, <3>1, <3>3, <4>1
      <4>4. QED
        BY <3>1, <4>1, <4>2, <4>3
    <3>4. QED
      BY <3>2, <3>3
  <2>2. ASSUME NEW d \in Tasks, d \in reaped \/ d = initproc \/ d \notin Existing,
               NEW q \in Tasks
        PROVE  d \notin children'[q]
    BY <1>6, <2>2 DEF EveryProcessHasAParent
  <2>3. ASSUME NEW d \in reaped PROVE status'[d] \in {"Zombie", "Unused"}
    BY <1>1, <2>3 DEF EveryProcessHasAParent, TypeOK
  <2>4. reaped' = reaped /\ Existing' = Existing
    BY <1>1, <1>5
  <2>5. QED
    BY <2>1, <2>2, <2>3, <2>4 DEF EveryProcessHasAParent
<1>8. PidsUnique'
  BY <1>1, <1>5 DEF PidsUnique
<1>9. InitHasItsShell'
  <2>1. children[initproc] \subseteq children'[initproc]
    BY <1>1, <1>2, <1>3, <1>6 DEF TypeOK
  <2>2. QED
    BY <1>1, <2>1 DEF InitHasItsShell
<1>10. ZombiesHeld'
  BY <1>1 DEF ZombiesHeld, TypeOK
<1>11. InitAlive'
  BY <1>1, <1>2 DEF InitAlive, TypeOK
<1>12. QED
  BY <1>3, <1>4, <1>7, <1>8, <1>9, <1>10, <1>11

\* Entering or leaving a waiting loop changes nothing else.
LEMMA WaitStep ==
  ASSUME IndInv, NEW t \in Tasks \ {initproc}, NEW w \in PidArgs \cup {AnyChild, NotWaiting},
         waitfor' = [waitfor EXCEPT ![t] = w],
         UNCHANGED <<status, pid, parent, children, ready_queue, current, next_pid,
                     recycled, on_stack, shell, reaped>>
  PROVE  IndInv'
<1>1. TypeOK'
  BY DEF IndInv, TypeOK
<1>2. NoTaskLost' /\ EveryProcessHasAParent' /\ PidsUnique' /\ ZombiesHeld' /\ InitAlive'
  BY DEF IndInv, NoTaskLost, Queued, EveryProcessHasAParent, PidsUnique, Existing,
         ZombiesHeld, InitAlive
<1>3. waitfor'[initproc] = waitfor[initproc]
  BY ProcAssumption DEF IndInv, TypeOK
<1>4. InitHasItsShell'
  BY <1>3 DEF IndInv, InitHasItsShell
<1>5. QED
  BY <1>1, <1>2, <1>4 DEF IndInv

LEMMA ReapStep ==
  ASSUME IndInv, NEW t \in Tasks, NEW c \in Tasks, WaitpidReap(t, c)
  PROVE  IndInv'
<1> USE DEF IndInv
<1>1. /\ current = t
      /\ c \in children[t] /\ status[c] = "Zombie"
      /\ children' = [children EXCEPT ![t] = children[t] \ {c}]
      /\ reaped' = reaped \cup {c}
      /\ waitfor' = [waitfor EXCEPT ![t] = AfterReap(t, c)]
      /\ DropArc(c, t)
      /\ UNCHANGED <<pid, parent, ready_queue, current, next_pid, on_stack, shell>>
  BY DEF WaitpidReap, Polls, Matching
<1>2. UNCHANGED <<status, recycled>>
  BY <1>1 DEF DropArc, OtherArc, ZombiesHeld
<1>3. TypeOK'
  <2>1. AfterReap(t, c) \in {AnyChild, NotWaiting}
    BY DEF AfterReap
  <2>2. QED
    BY <1>1, <1>2, <2>1 DEF TypeOK
<1>4. NoTaskLost' /\ ZombiesHeld' /\ InitAlive' /\ Existing' = Existing
  BY <1>1, <1>2 DEF NoTaskLost, Queued, ZombiesHeld, InitAlive, Existing
<1>5. c \in Existing /\ c # initproc /\ c \notin reaped /\ t = parent[c]
  BY <1>1, ChildFacts
<1>6. \A d, q \in Tasks : d \in children'[q] <=> d \in children[q] /\ (d = c => q # t)
  BY <1>1 DEF TypeOK
<1>7. EveryProcessHasAParent'
  <2>1. ASSUME NEW d \in Existing \ (reaped' \cup {initproc})
        PROVE  /\ parent[d] \in Existing
               /\ status[parent[d]] # "Zombie"
               /\ \A q \in Tasks : d \in children'[q] <=> q = parent[d]
    <3>1. d \in Existing \ (reaped \cup {initproc}) /\ d # c /\ d \in Tasks
      BY <1>1, <2>1 DEF Existing
    <3>2. QED
      BY <1>6, <3>1 DEF EveryProcessHasAParent
  <2>2. ASSUME NEW d \in Tasks, d \in reaped' \/ d = initproc \/ d \notin Existing,
               NEW q \in Tasks
        PROVE  d \notin children'[q]
    <3>1. CASE d = c
      BY <1>1, <1>5, <1>6, <3>1, ChildFacts
    <3>2. CASE d # c
      BY <1>1, <1>6, <2>2, <3>2 DEF EveryProcessHasAParent
    <3>3. QED
      BY <3>1, <3>2
  <2>3. ASSUME NEW d \in reaped' PROVE status[d] \in {"Zombie", "Unused"}
    BY <1>1, <2>3 DEF EveryProcessHasAParent
  <2>4. UNCHANGED <<parent, status>> /\ Existing' = Existing
    BY <1>1, <1>2, <1>4
  <2>5. QED
    BY <2>1, <2>2, <2>3, <2>4 DEF EveryProcessHasAParent
<1>8. PidsUnique'
  BY <1>1, <1>2, <1>4 DEF PidsUnique
<1>9. InitHasItsShell'
  <2>1. SUFFICES ASSUME waitfor'[initproc] # NotWaiting
                 PROVE  \E d \in children'[initproc] : pid[d] = shell
    BY <1>1 DEF InitHasItsShell
  <2>2. CASE t # initproc
    BY <1>1, <2>1, <2>2, ProcAssumption DEF InitHasItsShell, TypeOK
  <2>3. CASE t = initproc
    <3>1. AfterReap(t, c) # NotWaiting /\ pid[c] # shell
      BY <1>1, <2>1, <2>3, ProcAssumption DEF AfterReap, TypeOK
    <3>2. waitfor[initproc] # NotWaiting
      BY <2>3 DEF WaitpidReap, Polls
    <3>3. PICK d \in children[initproc] : pid[d] = shell
      BY <3>2 DEF InitHasItsShell
    <3>4. d # c /\ d \in Tasks
      BY <3>1, <3>3, ProcAssumption DEF TypeOK
    <3>5. QED
      BY <1>6, <3>3, <3>4, ProcAssumption
  <2>4. QED
    BY <2>2, <2>3
<1>10. QED
  BY <1>3, <1>4, <1>7, <1>8, <1>9

LEMMA NextIndInv == IndInv /\ [Next]_vars => IndInv'
<1> SUFFICES ASSUME IndInv, [Next]_vars PROVE IndInv'
  OBVIOUS
<1>1. CASE UNCHANGED vars
  BY <1>1 DEF vars, IndInv, TypeOK, NoTaskLost, Queued, EveryProcessHasAParent,
              PidsUnique, Existing, InitHasItsShell, ZombiesHeld, InitAlive
<1>2. CASE run_tasks
  BY <1>2, RunStep
<1>3. ASSUME NEW c \in Tasks, InitForksShell(c) PROVE IndInv'
  BY <1>3, InitForkStep
<1>4. ASSUME NEW t \in Tasks, sys_yield(t) PROVE IndInv'
  BY <1>4, ScheduleStep DEF sys_yield, CanRun
<1>5. ASSUME NEW t \in Tasks, sys_exit(t) PROVE IndInv'
  BY <1>5, ExitStep
<1>6. ASSUME NEW t \in Tasks, WaitpidNoChild(t) PROVE IndInv'
  BY <1>6, WaitStep DEF WaitpidNoChild
<1>7. ASSUME NEW t \in Tasks, WaitpidAgain(t) PROVE IndInv'
  BY <1>7, ScheduleStep DEF WaitpidAgain, Polls
<1>8. ASSUME NEW t \in Tasks, NEW c \in Tasks, sys_fork(t, c) PROVE IndInv'
  BY <1>8, ForkStep
<1>9. ASSUME NEW t \in Tasks, NEW c \in Tasks, WaitpidReap(t, c) PROVE IndInv'
  BY <1>9, ReapStep
<1>10. ASSUME NEW t \in Tasks, NEW w \in PidArgs \cup {AnyChild}, Wait(t, w) PROVE IndInv'
  BY <1>10, WaitStep DEF Wait
<1>11. QED
  BY <1>1, <1>2, <1>3, <1>4, <1>5, <1>6, <1>7, <1>8, <1>9, <1>10 DEF Next

\* All the invariants together, in every reachable state.
THEOREM Invariance == Spec => []IndInv
BY InitIndInv, NextIndInv, PTL DEF Spec

\* Every variable of the scheduler and the process tree keeps its type, for
\* any number of control blocks.
THEOREM TypeCorrect == Spec => []TypeOK
<1>1. IndInv => TypeOK
  BY DEF IndInv
<1>2. QED
  BY <1>1, Invariance, PTL

\* run_tasks, schedule and add_task never lose a task or queue it twice.
THEOREM NoTaskEverLost == Spec => []NoTaskLost
<1>1. IndInv => NoTaskLost
  BY DEF IndInv
<1>2. QED
  BY <1>1, Invariance, PTL

\* Exits in any order leave every unreaped process with one live parent.
THEOREM SomeoneCanReap == Spec => []EveryProcessHasAParent
<1>1. IndInv => EveryProcessHasAParent
  BY DEF IndInv
<1>2. QED
  BY <1>1, Invariance, PTL

\* PidAllocator never gives two blocks the same pid.
THEOREM UniquePids == Spec => []PidsUnique
<1>1. IndInv => PidsUnique
  BY DEF IndInv
<1>2. QED
  BY <1>1, Invariance, PTL

\* init.rs never polls without a child, so it never spins on -1.
THEOREM ShellIsThere == Spec => []InitHasItsShell
<1>1. IndInv => InitHasItsShell
  BY DEF IndInv
<1>2. QED
  BY <1>1, Invariance, PTL

\* The leak: no pid ever reaches PidAllocator.recycled, since sys_exit's local
\* Arc is never dropped.
THEOREM NothingRecycled == Spec => [](recycled = <<>>)
<1>1. IndInv => recycled = <<>>
  BY DEF IndInv, ZombiesHeld
<1>2. QED
  BY <1>1, Invariance, PTL

=============================================================================
