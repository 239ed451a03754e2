------------------------------- MODULE Kernel -------------------------------
(***************************************************************************)
(* The phase 6 kernel running its programs: processes and scheduler (Proc) *)
(* composed with descriptors and pipes (PipeFs), under init, the shell and *)
(* the programs of labs/phase_6_shell/user/src/bin.                        *)
(*                                                                         *)
(* A program is the sequence of system calls it still has to make, its     *)
(* first element the call it is at.  Only the task that is                 *)
(* PROCESSOR.current makes progress; a read or write that cannot go on is  *)
(* a sys_yield (suspend_current_and_run_next), so everything here runs     *)
(* under the real round-robin queue and no fairness but that of the idle   *)
(* loop is assumed.                                                        *)
(*                                                                         *)
(* exec keeps pid, parent, children and descriptors, which is all there is *)
(* of a process here, so it is no step of its own.                         *)
(***************************************************************************)
EXTENDS Integers, Sequences

CONSTANTS Tasks, initproc, NoTask,   \* as in Proc
          PipeSeq,                   \* the pipes, in the order they are made
          MAX_FD, RING_BUFFER_SIZE,  \* as in PipeFs
          CHUNK,                     \* bytes asked for by one read of a filter
          Plans                      \* bound: what the shell is asked to run

VARIABLES status, pid, parent, children, ready_queue, current, next_pid,
          recycled, on_stack, waitfor, shell, reaped
VARIABLES alive, fds, call, made, ring, asked, wrote, got, delivered, eof
VARIABLES plan,     \* what the shell runs; chosen at the start
          prog,     \* prog[t]: the calls t still has to make
          pipefd,   \* the descriptors sys_pipe stored for each pipe
          kids,     \* kids[t]: the pids fork returned to t
          total     \* total[t]: bytes t's reads have returned

userVars == <<plan, prog, pipefd, kids, total>>

Pipes == {PipeSeq[i] : i \in 1 .. Len(PipeSeq)}
MaxBytes == 8    \* bound of PipeFs, above what any plan writes

P == INSTANCE Proc WITH PidArgs <- 1 .. 9
F == INSTANCE PipeFs WITH Procs <- Tasks, First <- initproc,
       FD_ARGS <- 0 .. MAX_FD - 1, MAX_LEN <- MaxBytes, MAX_BYTES <- MaxBytes

kernelVars == <<status, pid, parent, children, ready_queue, current, next_pid,
                recycled, on_stack, waitfor, shell, reaped>>
fileVars == <<alive, fds, call, made, ring, asked, wrote, got, delivered, eof>>
vars == <<kernelVars, fileVars, userVars>>

-----------------------------------------------------------------------------
(* Programs.                                                               *)

Fd(n) == [end |-> "fd", n |-> n]          \* a literal descriptor
R(k)  == [end |-> "r", n |-> k]           \* the read end of the k-th pipe
W(k)  == [end |-> "w", n |-> k]

Pipe(k)      == [op |-> "pipe", k |-> k]
Fork(p)      == [op |-> "fork", child |-> p]
Close(d)     == [op |-> "close", fd |-> d]
Dup(d)       == [op |-> "dup", fd |-> d]
Write(d, n)  == [op |-> "write", fd |-> d, n |-> n]
Read(d, n, then) == [op |-> "read", fd |-> d, n |-> n, then |-> then]
Expect(n)    == [op |-> "expect", n |-> n]    \* n bytes were read in all
Stdin        == [op |-> "stdin"]              \* read a line from the UART
Wait(j)      == [op |-> "wait", j |-> j]      \* waitpid of the j-th child
WaitAny      == [op |-> "wait", j |-> 0]      \* wait
WaitAll      == [op |-> "waitall"]            \* while wait(..) > 0 {}
Exit         == [op |-> "exit"]

\* Both ends of the n-1 pipes of an n-stage pipeline.
CloseAll(n) ==
  [j \in 1 .. 2 * (n - 1) |-> Close(IF j % 2 = 1 THEN R((j + 1) \div 2) ELSE W(j \div 2))]

\* A plausible bug: dup before close, so that the copy lands elsewhere.
RedirectDupFirst(i, n) ==
  (IF i > 1 THEN <<Dup(R(i - 1)), Close(Fd(0))>> ELSE <<>>)
    \o (IF i < n THEN <<Dup(W(i)), Close(Fd(1))>> ELSE <<>>)
    \o CloseAll(n)

\* run_pipeline in the child: dup the neighbours' ends onto 0 and 1 (close
\* first, dup takes the lowest free slot), close all pipe descriptors.
Redirect(i, n) ==
  (IF i > 1 THEN <<Close(Fd(0)), Dup(R(i - 1))>> ELSE <<>>)
    \o (IF i < n THEN <<Close(Fd(1)), Dup(W(i))>> ELSE <<>>)
    \o CloseAll(n)

\* What stage i executes: a source of so many bytes (ls, echo); a sink that
\* reads fd 0 in chunks until read returns 0, and counts (wc); between them
\* filters with the same loop that write each chunk to fd 1.  The filter of the
\* pipelines in test_lab3_shell.rs is grep, which is not among the programs.
Stage(i, n, bytes) ==
  (IF i = 1 THEN <<Write(Fd(1), bytes)>>
   ELSE IF i < n THEN <<Read(Fd(0), CHUNK, "copy")>>
   ELSE <<Read(Fd(0), CHUNK, "count"), Expect(bytes)>>) \o <<Exit>>

\* A plausible bug: the parent keeps its pipe descriptors.
run_pipeline_unclosed(n, bytes, background) ==
  [k \in 1 .. n - 1 |-> Pipe(k)]
    \o [i \in 1 .. n |-> Fork(Redirect(i, n) \o Stage(i, n, bytes))]
    \o (IF background THEN <<>> ELSE [i \in 1 .. n |-> Wait(i)])
    \o <<Exit>>

\* run_pipeline in the shell, and the `exit` typed after it.
run_pipeline(n, bytes, background) ==
  [k \in 1 .. n - 1 |-> Pipe(k)]
    \o [i \in 1 .. n |-> Fork(Redirect(i, n) \o Stage(i, n, bytes))]
    \o CloseAll(n)
    \o (IF background THEN <<>> ELSE [i \in 1 .. n |-> Wait(i)])
    \o <<Exit>>

\* pipe_test.rs: the child's buffer is larger than the message.
pipe_test(bytes) ==
  <<Pipe(1),
    Fork(<<Close(W(1)), Read(R(1), 2 * bytes, "once"), Expect(bytes), Exit>>),
    Close(R(1)), Write(W(1), bytes), Close(W(1)), WaitAny, Exit>>

\* usertests.rs: t_fork_basic, then t_pipe_roundtrip, whose buffer is exactly
\* as long as the message.
usertests(bytes) ==
  <<Fork(<<Exit>>), Wait(1),
    Pipe(1),
    Fork(<<Close(R(1)), Write(W(1), bytes), Exit>>),
    Close(W(1)), Read(R(1), bytes, "once"), Expect(bytes), WaitAny, Exit>>

\* forktree.rs, DEPTH levels deep.
spawn[d \in 0 .. 4] ==
  IF d = 0 THEN <<>> ELSE <<Fork(spawn[d - 1] \o <<Exit>>)>>
forktree(depth) == spawn[depth] \o <<WaitAll, Exit>>

\* The program the shell process runs for a plan.
ProgramOf(p) ==
  CASE p.cmd = "pipeline"   -> run_pipeline(p.n, p.bytes, FALSE)
    [] p.cmd = "background" -> run_pipeline(p.n, p.bytes, TRUE)
    [] p.cmd = "pipe_test"  -> pipe_test(p.bytes)
    [] p.cmd = "usertests"  -> usertests(p.bytes)
    [] p.cmd = "forktree"   -> forktree(p.n)

-----------------------------------------------------------------------------
(* The idle loop and init.                                                 *)

Dispatch == P!run_tasks /\ UNCHANGED <<fileVars, userVars>>

\* Control blocks differ in name only: take any one that is free.
Fresh(c) == status[c] = "Unused" /\ c = CHOOSE b \in Tasks : status[b] = "Unused"

\* init forks a shell; the first is given the plan, a later one (after the
\* first has exited) waits for input that does not come.
InitForks(c) ==
  /\ Fresh(c)
  /\ P!InitForksShell(c)
  /\ F!sys_fork(initproc, c)
  /\ prog' = [prog EXCEPT ![c] = IF shell = 0 THEN ProgramOf(plan) ELSE <<Stdin>>]
  /\ UNCHANGED <<plan, pipefd, kids, total>>

InitWaits ==
  /\ P!WaitpidAgain(initproc) \/ \E c \in Tasks : P!WaitpidReap(initproc, c)
  /\ UNCHANGED <<fileVars, userVars>>

-----------------------------------------------------------------------------
(* System calls of the running program t.                                  *)

At(t, op) ==
  /\ P!CanRun(t) /\ F!CanRun(t)
  /\ prog[t] # <<>>
  /\ Head(prog[t]).op = op

Advance(t) == prog' = [prog EXCEPT ![t] = Tail(@)]

FdOf(d) == CASE d.end = "fd" -> d.n
             [] d.end = "r"  -> pipefd[d.n].r
             [] d.end = "w"  -> pipefd[d.n].w

DoPipe(t) ==
  /\ At(t, "pipe")
  /\ LET k == Head(prog[t]).k
     IN  /\ F!sys_pipe(t, PipeSeq[k])
         /\ \E r, w \in 0 .. MAX_FD - 1 :
              /\ fds'[t][r] = F!ReadEnd(PipeSeq[k]) /\ fds'[t][w] = F!WriteEnd(PipeSeq[k])
              /\ pipefd' = [pipefd EXCEPT ![k] = [r |-> r, w |-> w]]
  /\ Advance(t)
  /\ UNCHANGED <<kernelVars, plan, kids, total>>

DoFork(t, c) ==
  /\ At(t, "fork")
  /\ Fresh(c)
  /\ P!sys_fork(t, c) /\ F!sys_fork(t, c)
  /\ prog' = [prog EXCEPT ![t] = Tail(@), ![c] = Head(prog[t]).child]
  /\ kids' = [kids EXCEPT ![t] = Append(@, pid'[c])]
  /\ UNCHANGED <<plan, pipefd, total>>

DoClose(t) ==
  /\ At(t, "close")
  /\ F!sys_close(t, FdOf(Head(prog[t]).fd))
  /\ Advance(t)
  /\ UNCHANGED <<kernelVars, plan, pipefd, kids, total>>

DoDup(t) ==
  /\ At(t, "dup")
  /\ F!sys_dup(t, FdOf(Head(prog[t]).fd))
  /\ Advance(t)
  /\ UNCHANGED <<kernelVars, plan, pipefd, kids, total>>

DoExit(t) ==
  /\ At(t, "exit")
  /\ P!sys_exit(t) /\ F!sys_exit(t)
  /\ Advance(t)
  /\ UNCHANGED <<plan, pipefd, kids, total>>

\* The program looks at what it has read; ExpectationsMet says it is right.
DoExpect(t) ==
  /\ At(t, "expect")
  /\ Advance(t)
  /\ UNCHANGED <<kernelVars, fileVars, plan, pipefd, kids, total>>

DoWait(t) ==
  /\ At(t, "wait") \/ At(t, "waitall")
  /\ LET i == Head(prog[t])
     IN  P!Wait(t, IF i.op = "waitall" \/ i.j = 0 THEN P!AnyChild ELSE kids[t][i.j])
  /\ UNCHANGED <<fileVars, userVars>>

\* The waiting loop; `while wait(..) > 0 {}` ends with -1 only.
WaitReturns(t) ==
  /\ t # initproc
  /\ \/ P!WaitpidNoChild(t) /\ Advance(t)
     \/ /\ \E c \in Tasks : P!WaitpidReap(t, c)
        /\ IF Head(prog[t]).op = "waitall" THEN UNCHANGED prog ELSE Advance(t)
  /\ UNCHANGED <<fileVars, plan, pipefd, kids, total>>

WaitAgain(t) ==
  /\ t # initproc
  /\ P!WaitpidAgain(t)
  /\ UNCHANGED <<fileVars, userVars>>

\* Reads and writes.  Writing nothing, or to the UART, returns at once.
DoRead(t) ==
  /\ At(t, "read")
  /\ F!sys_read(t, FdOf(Head(prog[t]).fd), Head(prog[t]).n)
  /\ UNCHANGED <<kernelVars, userVars>>

DoWrite(t) ==
  /\ At(t, "write")
  /\ LET i == Head(prog[t])
     IN  IF i.n = 0 \/ fds[t][FdOf(i.fd)] = F!Stdout
         THEN UNCHANGED fileVars
         ELSE F!sys_write(t, FdOf(i.fd), i.n)
  /\ Advance(t)
  /\ UNCHANGED <<kernelVars, plan, pipefd, kids, total>>

\* Stdin::read with nothing received suspends and tries again.
DoStdin(t) ==
  /\ At(t, "stdin")
  /\ P!sys_yield(t)
  /\ UNCHANGED <<fileVars, userVars>>

\* The program after a read that returned n bytes.
AfterRead(t, n) ==
  /\ total' = [total EXCEPT ![t] = @ + n]
  /\ CASE n = 0 \/ Head(prog[t]).then = "once" -> Advance(t)
       [] n > 0 /\ Head(prog[t]).then = "count" -> UNCHANGED prog
       [] n > 0 /\ Head(prog[t]).then = "copy" ->
            prog' = [prog EXCEPT ![t] = <<Write(Fd(1), n)>> \o @]

\* A plausible bug: at the end of the stream read returns the length asked for.
ReadGoesOnFull(t) ==
  /\ current = t
  /\ \E k \in Pipes :
       \/ /\ F!ReadByte(t, k)
          /\ IF call'[t] = F!Idle THEN AfterRead(t, Head(prog[t]).n)
             ELSE UNCHANGED <<prog, total>>
       \/ /\ F!ReadEof(t, k)
          /\ AfterRead(t, Head(prog[t]).n)
  /\ UNCHANGED <<kernelVars, plan, pipefd, kids>>

\* Pipe::read moves a byte or meets the end, and returns what it has copied.
ReadGoesOn(t) ==
  /\ current = t
  /\ \E k \in Pipes :
       \/ /\ F!ReadByte(t, k)
          /\ IF call'[t] = F!Idle THEN AfterRead(t, Head(prog[t]).n)
             ELSE UNCHANGED <<prog, total>>
       \/ /\ F!ReadEof(t, k)
          /\ AfterRead(t, Head(prog[t]).n - call[t].left)
  /\ UNCHANGED <<kernelVars, plan, pipefd, kids>>

WriteGoesOn(t) ==
  /\ current = t
  /\ \E k \in Pipes : F!WriteByte(t, k)
  /\ UNCHANGED <<kernelVars, userVars>>

\* Neither a byte nor the end of the stream, or no room: yield and retry.
Blocked(t) ==
  /\ current = t
  /\ \E k \in Pipes :
       \/ /\ call[t].file = F!ReadEnd(k)
          /\ F!available_read(ring[k]) = 0 /\ ~ F!all_write_ends_closed(k)
       \/ /\ call[t].file = F!WriteEnd(k)
          /\ F!available_write(ring[k]) = 0
  /\ P!sys_yield(t)
  /\ UNCHANGED <<fileVars, userVars>>

-----------------------------------------------------------------------------
Init ==
  /\ P!Init
  /\ F!Init
  /\ plan \in Plans
  /\ prog = [t \in Tasks |-> <<>>]
  /\ pipefd = [k \in 1 .. Len(PipeSeq) |-> [r |-> 0, w |-> 0]]
  /\ kids = [t \in Tasks |-> <<>>]
  /\ total = [t \in Tasks |-> 0]

Next ==
  \/ Dispatch
  \/ InitWaits
  \/ \E c \in Tasks : InitForks(c)
  \/ \E t \in Tasks :
       \/ DoPipe(t) \/ DoClose(t) \/ DoDup(t) \/ DoExit(t) \/ DoExpect(t)
       \/ DoWait(t) \/ WaitReturns(t) \/ WaitAgain(t)
       \/ DoStdin(t) \/ DoRead(t) \/ DoWrite(t) \/ ReadGoesOn(t) \/ WriteGoesOn(t) \/ Blocked(t)
       \/ \E c \in Tasks : DoFork(t, c)

\* The hart does not stop.
Spec == Init /\ [][Next]_vars /\ WF_vars(Next)

-----------------------------------------------------------------------------
\* The variables of this module have their types; nobody reads more than the
\* source of the plan has written.
TypeOK ==
  /\ plan \in Plans
  /\ total \in [Tasks -> 0 .. plan.bytes]
  /\ pipefd \in [1 .. Len(PipeSeq) -> [r : 0 .. MAX_FD - 1, w : 0 .. MAX_FD - 1]]
  /\ kids \in [Tasks -> Seq(Nat)]

\* What a stage's descriptor table must be: 0 and 1 its neighbours' pipes or
\* the UART, 2 the UART, and nothing else.
StageTable(i, n) ==
  [fd \in 0 .. MAX_FD - 1 |->
     CASE fd = 0 -> IF i > 1 THEN F!ReadEnd(PipeSeq[i - 1]) ELSE F!Stdin
       [] fd = 1 -> IF i < n THEN F!WriteEnd(PipeSeq[i]) ELSE F!Stdout
       [] fd = 2 -> F!Stdout
       [] OTHER  -> F!None]

\* Every stage of a pipeline starts (exec in run_pipeline, sh.rs) with exactly
\* the descriptors it should have: no end of another pipe, nor a second copy of
\* its own, straggles, on which a reader would wait for ever.
StageStartsClean ==
  plan.cmd \in {"pipeline", "background"} =>
    \A t \in Tasks :
      LET stages == {i \in 1 .. plan.n : prog[t] = Stage(i, plan.n, plan.bytes)}
      IN  stages # {} => \E i \in stages : fds[t] = StageTable(i, plan.n)

\* What a program reads is what was written, all of it: wc counts the bytes of
\* the first stage whatever filters lie between, pipe_test's child gets the
\* message, and the assert_eq! of usertests holds.
ExpectationsMet ==
  \A t \in Tasks :
    prog[t] # <<>> /\ Head(prog[t]).op = "expect" => total[t] = Head(prog[t]).n

\* Everything ends: each program of the plan runs to its exit and is reaped, by
\* its parent or as an orphan by init, and the machine is back at init waiting
\* for a shell that waits for a line.
Settled ==
  \E s \in Tasks :
    prog[s] = <<Stdin>> /\ P!Existing \ reaped = {initproc, s}
EveryProgramFinishes == <>Settled

=============================================================================
