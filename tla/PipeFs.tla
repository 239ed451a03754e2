------------------------------- MODULE PipeFs -------------------------------
(***************************************************************************)
(* Pipes and descriptor tables of the phase 6 kernel:                      *)
(* labs/phase_6_shell/src/fs/pipe.rs and syscall/fs.rs, with the parts of  *)
(* sys_fork and sys_exit that touch descriptor tables.                     *)
(*                                                                         *)
(* A process makes system calls one at a time.  Pipe::read and Pipe::write *)
(* take the ring's lock once per byte and give up the processor with the   *)
(* lock free when they cannot go on, so one step here is one critical      *)
(* section: one byte moved, or the end of the call.  A retry after         *)
(* suspend_current_and_run_next changes nothing and is a stuttering step.  *)
(*                                                                         *)
(* fd_table is a Vec<Option<Arc<dyn File>>>.  A slot past its end behaves  *)
(* exactly as a None slot (every call returns -1 on both, alloc_fd takes   *)
(* the lowest of either), so the table is a function that is None there.   *)
(*                                                                         *)
(* An Arc<Pipe> is held by the slots that name the end and by a call in    *)
(* progress, which cloned the Arc before it dropped the table's lock       *)
(* (syscall/fs.rs, `let file = file.clone(); drop(inner)`).                *)
(***************************************************************************)
EXTENDS PipeRingBuffer

CONSTANTS Procs,       \* process identities
          First,       \* the process that exists at the start
          Pipes,       \* pipe identities; each is made at most once
          MAX_FD,      \* bound: slots of a descriptor table
          FD_ARGS,     \* bound: the descriptors programs pass to system calls
          MAX_LEN,     \* bound: bytes asked for by one read or write
          MAX_BYTES    \* bound: bytes the writes of one pipe ask for, all together

ASSUME PipeFsAssumption ==
  /\ First \in Procs
  /\ MAX_FD \in Nat /\ MAX_FD >= 3
  /\ FD_ARGS \subseteq 0 .. MAX_FD - 1
  /\ MAX_LEN \in Nat \ {0}
  /\ MAX_BYTES \in Nat

Fd == 0 .. MAX_FD - 1

\* Files: the UART, and the two ends of every pipe.
Stdio     == [kind : {"none", "stdin", "stdout"}, pipe : {"uart"}]
PipeEnd   == [kind : {"read", "write"}, pipe : Pipes]
None      == [kind |-> "none",   pipe |-> "uart"]
Stdin     == [kind |-> "stdin",  pipe |-> "uart"]
Stdout    == [kind |-> "stdout", pipe |-> "uart"]
ReadEnd(k)  == [kind |-> "read",  pipe |-> k]
WriteEnd(k) == [kind |-> "write", pipe |-> k]

\* A call in progress: the cloned Arc and the bytes still to move.
Idle == [file |-> None, left |-> 0]
Call == {Idle} \cup [file : PipeEnd, left : 1 .. MAX_LEN]

VARIABLES
  alive,      \* processes that exist and have not exited
  fds,        \* fds[p][fd]: the descriptor tables
  call,       \* call[p]: the read or write p is inside of, or Idle
  made,       \* pipes made so far
  ring,       \* ring[k]: the PipeRingBuffer of pipe k
  asked,      \* asked[k]: bytes the sys_writes of pipe k ask for (history)
  wrote,      \* wrote[k]: bytes written to pipe k so far (history)
  got,        \* got[k]: bytes read from pipe k so far (history)
  delivered,  \* delivered[k]: the last byte read from pipe k (history)
  eof         \* pipes some read has reported the end of (history)

vars == <<alive, fds, call, made, ring, asked, wrote, got, delivered, eof>>
ringVars == <<ring, asked, wrote, got, delivered, eof>>

-----------------------------------------------------------------------------
\* PipeRingBuffer::all_write_ends_closed: the Weak no longer upgrades, that
\* is, no slot and no call in progress holds the write end.
HeldBy(p, file) == (\E fd \in Fd : fds[p][fd] = file) \/ call[p].file = file

all_write_ends_closed(k) == \A p \in Procs : ~ HeldBy(p, WriteEnd(k))

no_read_end(k) == \A p \in Procs : ~ HeldBy(p, ReadEnd(k))

-----------------------------------------------------------------------------
\* alloc_fd: the lowest free slot of a table.
Free(table) == {fd \in Fd : table[fd] = None}

\* A plausible bug: the scan does not test that the slot is None.
IsAllocFdUntested(table, fd) == \A g \in Free(table) : fd <= g

IsAllocFd(table, fd) == fd \in Free(table) /\ \A g \in Free(table) : fd <= g

CanRun(p) == p \in alive /\ call[p] = Idle

\* sys_pipe: make_pipe, then the read end into the lowest free slot, then the
\* write end into the lowest slot free after that.
sys_pipe(p, k) ==
  /\ CanRun(p)
  /\ k \notin made
  /\ \E rfd \in Fd, wfd \in Fd :
       LET table == [fds[p] EXCEPT ![rfd] = ReadEnd(k)]
       IN  /\ IsAllocFd(fds[p], rfd)
           /\ IsAllocFd(table, wfd)
           /\ fds' = [fds EXCEPT ![p] = [table EXCEPT ![wfd] = WriteEnd(k)]]
  /\ made' = made \cup {k}
  /\ UNCHANGED <<alive, call, ringVars>>

\* sys_dup: clone the Arc into the lowest free slot.
sys_dup(p, fd) ==
  /\ CanRun(p)
  /\ fds[p][fd] # None
  /\ \E new_fd \in Fd :
       /\ IsAllocFd(fds[p], new_fd)
       /\ fds' = [fds EXCEPT ![p][new_fd] = fds[p][fd]]
  /\ UNCHANGED <<alive, call, made, ringVars>>

\* sys_close: drop the slot's Arc.
sys_close(p, fd) ==
  /\ CanRun(p)
  /\ fds[p][fd] # None
  /\ fds' = [fds EXCEPT ![p][fd] = None]
  /\ UNCHANGED <<alive, call, made, ringVars>>

\* The descriptor-table part of sys_fork: every Some slot is Arc::cloned.
sys_fork(p, c) ==
  /\ CanRun(p)
  /\ c \notin alive
  /\ \A fd \in Fd : fds[c][fd] = None
  /\ alive' = alive \cup {c}
  /\ fds' = [fds EXCEPT ![c] = fds[p]]
  /\ UNCHANGED <<call, made, ringVars>>

\* A plausible bug: the exiting process keeps its table until it is reaped.
sys_exit_keeping_fds(p) ==
  /\ CanRun(p)
  /\ alive' = alive \ {p}
  /\ UNCHANGED <<fds, call, made, ringVars>>

\* The descriptor-table part of sys_exit: every slot is taken.
sys_exit(p) ==
  /\ CanRun(p)
  /\ alive' = alive \ {p}
  /\ fds' = [fds EXCEPT ![p] = [fd \in Fd |-> None]]
  /\ UNCHANGED <<call, made, ringVars>>

-----------------------------------------------------------------------------
\* sys_read and sys_write up to the call of file.read / file.write: the slot
\* must hold a file open in that direction, and its Arc is cloned.
sys_read(p, fd, len) ==
  /\ CanRun(p)
  /\ fds[p][fd].kind = "read"
  /\ call' = [call EXCEPT ![p] = [file |-> fds[p][fd], left |-> len]]
  /\ UNCHANGED <<alive, fds, made, ringVars>>

sys_write(p, fd, len) ==
  /\ CanRun(p)
  /\ fds[p][fd].kind = "write"
  /\ LET k == fds[p][fd].pipe
     IN  /\ asked[k] + len <= MAX_BYTES
         /\ asked' = [asked EXCEPT ![k] = @ + len]
  /\ call' = [call EXCEPT ![p] = [file |-> fds[p][fd], left |-> len]]
  /\ UNCHANGED <<alive, fds, made, ring, wrote, got, delivered, eof>>

\* The call moves one byte; after the last one it returns and drops its Arc.
Moved(p) ==
  call' = [call EXCEPT ![p] = IF call[p].left = 1 THEN Idle
                              ELSE [call[p] EXCEPT !.left = @ - 1]]

\* Pipe::read with a byte available.
ReadByte(p, k) ==
  /\ call[p].file = ReadEnd(k)
  /\ available_read(ring[k]) > 0
  /\ delivered' = [delivered EXCEPT ![k] = head_byte(ring[k])]
  /\ ring' = [ring EXCEPT ![k] = read_byte(ring[k])]
  /\ got' = [got EXCEPT ![k] = @ + 1]
  /\ Moved(p)
  /\ UNCHANGED <<alive, fds, made, asked, wrote, eof>>

\* A plausible bug: the reader takes an empty ring for the end of the stream.
ReadEofWhenEmpty(p, k) ==
  /\ call[p].file = ReadEnd(k)
  /\ available_read(ring[k]) = 0
  /\ eof' = eof \cup {k}
  /\ call' = [call EXCEPT ![p] = Idle]
  /\ UNCHANGED <<alive, fds, made, ring, asked, wrote, got, delivered>>

\* Pipe::read with an empty ring and no writer left: return what was copied.
ReadEof(p, k) ==
  /\ call[p].file = ReadEnd(k)
  /\ available_read(ring[k]) = 0
  /\ all_write_ends_closed(k)
  /\ eof' = eof \cup {k}
  /\ call' = [call EXCEPT ![p] = Idle]
  /\ UNCHANGED <<alive, fds, made, ring, asked, wrote, got, delivered>>

\* Pipe::write with room for a byte.
WriteByte(p, k) ==
  /\ call[p].file = WriteEnd(k)
  /\ available_write(ring[k]) > 0
  /\ ring' = [ring EXCEPT ![k] = write_byte(ring[k], wrote[k] + 1)]
  /\ wrote' = [wrote EXCEPT ![k] = @ + 1]
  /\ Moved(p)
  /\ UNCHANGED <<alive, fds, made, asked, got, delivered, eof>>

-----------------------------------------------------------------------------
Init ==
  /\ alive = {First}
  /\ fds = [p \in Procs |-> [fd \in Fd |->
              IF p = First /\ fd = 0 THEN Stdin
              ELSE IF p = First /\ fd \in {1, 2} THEN Stdout
              ELSE None]]
  /\ call = [p \in Procs |-> Idle]
  /\ made = {}
  /\ ring = [k \in Pipes |-> new]
  /\ asked = [k \in Pipes |-> 0]
  /\ wrote = [k \in Pipes |-> 0]
  /\ got = [k \in Pipes |-> 0]
  /\ delivered = [k \in Pipes |-> 0]
  /\ eof = {}

\* The steps of p inside Pipe::read or Pipe::write.
InCall(p) ==
  \E k \in Pipes : ReadByte(p, k) \/ ReadEof(p, k) \/ WriteByte(p, k)

Next ==
  \E p \in Procs :
    \/ \E k \in Pipes : sys_pipe(p, k)
    \/ \E fd \in FD_ARGS : sys_dup(p, fd)
    \/ \E fd \in FD_ARGS : sys_close(p, fd)
    \/ \E c \in Procs : sys_fork(p, c)
    \/ sys_exit(p)
    \/ \E fd \in FD_ARGS, len \in 1 .. MAX_LEN : sys_read(p, fd, len)
    \/ \E fd \in FD_ARGS, len \in 1 .. MAX_LEN : sys_write(p, fd, len)
    \/ InCall(p)

Spec == Init /\ [][Next]_vars

\* A suspended task goes to the tail of the FIFO ready queue and every task
\* gives up the processor sooner or later, so each call that can go on does.
FairSpec == Spec /\ \A p \in Procs : WF_vars(InCall(p))

-----------------------------------------------------------------------------
\* The variables have their types: in particular head and tail stay inside
\* the ring's array and a call never counts below zero.
TypeOK ==
  /\ alive \in SUBSET Procs
  /\ fds \in [Procs -> [Fd -> Stdio \cup PipeEnd]]
  /\ call \in [Procs -> Call]
  /\ made \in SUBSET Pipes
  /\ ring \in [Pipes -> Ring]
  /\ asked \in [Pipes -> 0 .. MAX_BYTES]
  /\ wrote \in [Pipes -> Nat]
  /\ got \in [Pipes -> Nat]
  /\ delivered \in [Pipes -> Nat]
  /\ eof \in SUBSET made

\* The number of bytes in flight fixes both availabilities, whatever the
\* positions of head and tail: PipeRingBuffer never mistakes a full ring for
\* an empty one, so a reader and a writer are never both told to wait.
EveryByteAccounted ==
  \A k \in Pipes :
    /\ got[k] + available_read(ring[k]) = wrote[k]
    /\ available_read(ring[k]) + available_write(ring[k]) = RING_BUFFER_SIZE

\* Every pipe's ring holds exactly the bytes written and not yet read, in
\* order from head across the wrap of the array, and the last byte
\* Pipe::read handed out is the last one it should have.
RingInv ==
  \A k \in Pipes : Holds(ring[k], got[k], wrote[k]) /\ delivered[k] = got[k]

\* Once Pipe::read has reported the end of a pipe, the ring is drained and no
\* descriptor and no call in progress can ever write to it again; and no
\* descriptor names a pipe before sys_pipe has made it.
EofInv ==
  /\ \A k \in eof : all_write_ends_closed(k) /\ got[k] = wrote[k]
  /\ \A k \in Pipes \ made : all_write_ends_closed(k) /\ no_read_end(k)

\* The inductive invariant: types, the ring, and the finality of an end that
\* Pipe::read has reported.  TypeOK needs EofInv (a pipe whose end is reported
\* was made, because someone holds its read end), EofInv needs RingInv (an
\* empty ring has delivered everything), and RingInv needs TypeOK.
IndInv == TypeOK /\ RingInv /\ EofInv

\* What the two ends of a pipe promise together (module ByteStream): bytes
\* come out of Pipe::read once each and in the order Pipe::write took them,
\* and a short read is reported only when all of them have been delivered and
\* no byte will ever be written again.
Stream == INSTANCE ByteStream WITH CAPACITY <- RING_BUFFER_SIZE
ImplementsByteStream == Stream!Spec

\* A descriptor that is open changes only by being closed (sys_close,
\* sys_exit): the slots alloc_fd hands to sys_pipe and sys_dup were free.
OpenFdNeverClobbered ==
  [][\A p \in Procs : \A fd \in Fd :
       fds[p][fd] # None => fds'[p][fd] \in {fds[p][fd], None}]_vars

\* A reader is released once no live process can write: exits, closes and
\* writes that end in any order leave no Arc of the write end behind, and
\* Pipe::read then returns what the ring still held.
Reading(p, k)  == call[p].file = ReadEnd(k)
WritersGone(k) == \A p \in alive : ~ HeldBy(p, WriteEnd(k))

ReaderReleased ==
  \A p \in Procs : \A k \in Pipes :
    (Reading(p, k) /\ WritersGone(k)) ~> call[p] = Idle

=============================================================================
