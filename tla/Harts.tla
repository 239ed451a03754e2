------------------------------- MODULE Harts -------------------------------
(***************************************************************************)
(* SpinLock, the interrupt flag and the kernel heap of labs/phase_3_sync,  *)
(* on several harts.  On every hart a trap handler may run on top of the   *)
(* code it interrupted, and both take the same locks and allocate from the *)
(* same heap.                                                              *)
(*                                                                         *)
(*   locked   SpinLock::locked, per lock            (sync/spin.rs)         *)
(*   sie      sstatus.SIE, per hart                 (arch/interrupts.rs)   *)
(*   handling whether a hart is in its trap handler                        *)
(*   pc, lk, saved   where a context is in lock, try_lock or drop, on      *)
(*            which lock, and the IrqState it saved                        *)
(*   next     BumpHeap::next                        (heap.rs)              *)
(*   call     the call of BumpHeap::alloc a context is in: the layout it   *)
(*            asked for and the local variable off                         *)
(*   halted   alloc returned null: the alloc error handler shut down       *)
(* masked and blocks are history: whether the code of a hart runs with     *)
(* interrupts off outside of any lock (a system call does), and what the   *)
(* heap has handed out.                                                    *)
(***************************************************************************)
EXTENDS Integers

CONSTANTS
  Harts, Locks,
  Layouts,        \* the records [size, align] asked for
  BASE,           \* the address of the heap buffer
  HEAP_SIZE,
  NoCall

ASSUME LayoutAssumption ==
  \A ly \in Layouts : ly.size \in Nat \ {0} /\ ly.align \in Nat \ {0}
ASSUME HeapAssumption == BASE \in Nat /\ HEAP_SIZE \in Nat

VARIABLES locked, sie, handling, pc, lk, saved, next, call, halted, masked,
          blocks

spinVars == <<locked, sie, pc, lk, saved>>
heapVars == <<next, call, halted, blocks>>
vars == <<spinVars, heapVars, handling, masked>>

Contexts == Harts \X {"code", "handler"}
Places == {"out", "spin", "try", "failed", "held", "released"}

Init ==
  /\ locked = [l \in Locks |-> FALSE]
  /\ masked \in [Harts -> BOOLEAN]
  /\ sie = [h \in Harts |-> ~masked[h]]
  /\ handling = [h \in Harts |-> FALSE]
  /\ pc = [c \in Contexts |-> "out"]
  /\ lk \in [Contexts -> Locks]
  /\ saved = [c \in Contexts |-> FALSE]
  /\ next = 0
  /\ call = [c \in Contexts |-> NoCall]
  /\ halted = FALSE
  /\ blocks = {}

\* The context its hart executes: the handler while there is one.
Runs(c) == ~halted /\ (handling[c[1]] <=> c[2] = "handler")

At(c, p) == Runs(c) /\ call[c] = NoCall /\ pc[c] = p
Goto(c, p) == pc' = [pc EXCEPT ![c] = p]

-----------------------------------------------------------------------------
(* sync/spin.rs over arch/interrupts.rs                                    *)

\* Clear SIE and keep what it was.
disable_and_save(c) ==
  /\ saved' = [saved EXCEPT ![c] = sie[c[1]]]
  /\ sie' = [sie EXCEPT ![c[1]] = FALSE]

\* Set SIE if it was set; restore never clears it.
restore(c) ==
  /\ sie' = [sie EXCEPT ![c[1]] = @ \/ saved[c]]
  /\ saved' = [saved EXCEPT ![c] = FALSE]

\* lock and try_lock: interrupts are off before the first compare_exchange.
Begin(c, l, p) ==
  /\ At(c, "out")
  /\ disable_and_save(c)
  /\ lk' = [lk EXCEPT ![c] = l]
  /\ Goto(c, p)
  /\ UNCHANGED <<locked, heapVars, handling, masked>>

\* compare_exchange(false, true): succeeds on a free lock.
Cas(c) == ~locked[lk[c]] /\ locked' = [locked EXCEPT ![lk[c]] = TRUE]

AcquireUntested(c) ==
  /\ At(c, "spin")
  /\ locked' = [locked EXCEPT ![lk[c]] = TRUE]
  /\ Goto(c, "held")
  /\ UNCHANGED <<sie, lk, saved, heapVars, handling, masked>>

\* The loop of lock.  An attempt that fails changes nothing.
Acquire(c) ==
  /\ At(c, "spin")
  /\ Cas(c)
  /\ Goto(c, "held")
  /\ UNCHANGED <<sie, lk, saved, heapVars, handling, masked>>

TryFailsUnrestored(c) ==
  \/ /\ At(c, "try") /\ locked[lk[c]]
     /\ Goto(c, "failed") /\ UNCHANGED <<locked, sie, lk, saved>>
  \/ At(c, "failed") /\ Goto(c, "out") /\ UNCHANGED <<locked, sie, lk, saved>>

\* try_lock on a lock that is taken: None, after restoring the flag.
TryFails(c) ==
  \/ /\ At(c, "try") /\ locked[lk[c]]
     /\ Goto(c, "failed") /\ UNCHANGED <<locked, sie, lk, saved>>
  \/ At(c, "failed") /\ restore(c) /\ Goto(c, "out") /\ UNCHANGED <<locked, lk>>

\* try_lock makes exactly one attempt.
try_lock(c) ==
  \/ At(c, "try") /\ Cas(c) /\ Goto(c, "held") /\ UNCHANGED <<sie, lk, saved, heapVars, handling, masked>>
  \/ TryFails(c) /\ UNCHANGED <<heapVars, handling, masked>>

raw_unlock(c) == locked' = [locked EXCEPT ![lk[c]] = FALSE]

DropRestoreFirst(c) ==
  \/ At(c, "held") /\ restore(c) /\ Goto(c, "released") /\ UNCHANGED <<locked, lk>>
  \/ At(c, "released") /\ raw_unlock(c) /\ Goto(c, "out") /\ UNCHANGED <<sie, lk, saved>>

\* SpinLockGuard::drop: release the flag, and only then restore interrupts.
Drop(c) ==
  \/ At(c, "held") /\ raw_unlock(c) /\ Goto(c, "released") /\ UNCHANGED <<sie, lk, saved>>
  \/ At(c, "released") /\ restore(c) /\ Goto(c, "out") /\ UNCHANGED <<locked, lk>>

DropGuard(c) == Drop(c) /\ UNCHANGED <<heapVars, handling, masked>>

-----------------------------------------------------------------------------
(* heap.rs                                                                 *)

\* The lowest multiple of align at or above addr.
AlignUp(addr, align) == (addr + align - 1) - ((addr + align - 1) % align)

\* What alloc computes from an offset: the address and the next offset.
Aligned(c) == AlignUp(BASE + call[c].off, call[c].align)
NewOff(c) == Aligned(c) - BASE + call[c].size

\* alloc begins with a load of next.  Code that holds a lock allocates too
\* (push_back on a wait queue), code that waits for one does not.
Load(c, ly) ==
  /\ At(c, "out") \/ At(c, "held")
  /\ call' = [call EXCEPT ![c] = [off |-> next, size |-> ly.size, align |-> ly.align]]
  /\ UNCHANGED <<spinVars, next, halted, blocks, handling, masked>>

Hands(c) ==
  /\ blocks' = blocks \cup {[at |-> Aligned(c), size |-> call[c].size]}
  /\ next' = NewOff(c)
  /\ call' = [call EXCEPT ![c] = NoCall]
  /\ UNCHANGED halted

ExchangeStale(c) ==
  /\ Runs(c) /\ call[c] # NoCall
  /\ \/ NewOff(c) > HEAP_SIZE /\ halted' = TRUE /\ UNCHANGED <<next, call, blocks>>
     \/ NewOff(c) <= HEAP_SIZE /\ Hands(c)
  /\ UNCHANGED <<spinVars, handling, masked>>

\* One turn of the loop of alloc: give up, take the block, or start again from
\* the offset that compare_exchange found.
Exchange(c) ==
  /\ Runs(c) /\ call[c] # NoCall
  /\ \/ NewOff(c) > HEAP_SIZE /\ halted' = TRUE /\ UNCHANGED <<next, call, blocks>>
     \/ NewOff(c) <= HEAP_SIZE /\ next = call[c].off /\ Hands(c)
     \/ /\ NewOff(c) <= HEAP_SIZE /\ next # call[c].off
        /\ call' = [call EXCEPT ![c].off = next] /\ UNCHANGED <<next, halted, blocks>>
  /\ UNCHANGED <<spinVars, handling, masked>>

-----------------------------------------------------------------------------
(* The hardware.                                                           *)

\* An interrupt is taken when SIE is set, and clears it.
Interrupt(h) ==
  /\ ~halted /\ ~handling[h] /\ sie[h]
  /\ handling' = [handling EXCEPT ![h] = TRUE]
  /\ sie' = [sie EXCEPT ![h] = FALSE]
  /\ UNCHANGED <<locked, pc, lk, saved, heapVars, masked>>

\* sret gives SIE the value it had when the interrupt was taken.
Sret(h) ==
  /\ At(<<h, "handler">>, "out")
  /\ handling' = [handling EXCEPT ![h] = FALSE]
  /\ sie' = [sie EXCEPT ![h] = TRUE]
  /\ UNCHANGED <<locked, pc, lk, saved, heapVars, masked>>

-----------------------------------------------------------------------------
\* The steps inside lock, try_lock, drop and alloc, and the end of a critical
\* section: a hart that executes such code goes on with it.
Step(c) == Acquire(c) \/ try_lock(c) \/ DropGuard(c) \/ Exchange(c)

Next ==
  \/ \E c \in Contexts, l \in Locks : Begin(c, l, "spin") \/ Begin(c, l, "try")
  \/ \E c \in Contexts, ly \in Layouts : Load(c, ly)
  \/ \E c \in Contexts : Step(c)
  \/ \E h \in Harts : Interrupt(h) \/ Sret(h)

Spec == Init /\ [][Next]_vars

\* A hart executes its instructions.  Nothing is assumed of the order in which
\* harts that spin get the lock, nor of how often interrupts come.
FairSpec == Spec /\ \A c \in Contexts : WF_vars(Step(c))

-----------------------------------------------------------------------------
TypeOK ==
  /\ locked \in [Locks -> BOOLEAN]
  /\ sie \in [Harts -> BOOLEAN] /\ handling \in [Harts -> BOOLEAN] /\ masked \in [Harts -> BOOLEAN]
  /\ pc \in [Contexts -> Places] /\ lk \in [Contexts -> Locks] /\ saved \in [Contexts -> BOOLEAN]
  /\ next \in 0 .. HEAP_SIZE
  /\ call \in [Contexts -> [off : 0 .. HEAP_SIZE, size : Nat \ {0}, align : Nat \ {0}] \cup {NoCall}]
  /\ halted \in BOOLEAN
  /\ \A b \in blocks : b.at \in Nat /\ b.size \in Nat \ {0}

Holds(c, l) == pc[c] = "held" /\ lk[c] = l

\* A lock has one guard at most, on any hart, in any context, and the flag of
\* the lock says whether there is one ("once a thread observes the CAS flip it
\* has unique access until it flips it back", sync/spin.rs:29-30).
GuardsExclude ==
  \A l \in Locks :
    /\ \A c, d \in Contexts : Holds(c, l) /\ Holds(d, l) => c = d
    /\ (locked[l] <=> \E c \in Contexts : Holds(c, l))

\* Outside of lock, try_lock and a critical section a hart has interrupts off
\* exactly when its code runs so or it is in its handler: no path through the
\* lock, None of try_lock included, leaves them off or turns them on early.
InterruptsRestored ==
  \A c \in Contexts :
    (handling[c[1]] <=> c[2] = "handler") /\ pc[c] = "out" =>
      (sie[c[1]] <=> ~handling[c[1]] /\ ~masked[c[1]])

\* The blocks that BumpHeap::alloc returned are inside the heap and disjoint,
\* however the loops of several harts and of their handlers interleave.
HeapBlocksDisjoint ==
  /\ \A b \in blocks : BASE <= b.at /\ b.at + b.size <= BASE + next
  /\ \A b, d \in blocks : b # d => b.at + b.size <= d.at \/ d.at + d.size <= b.at

\* No lock stays taken: a handler never spins on a lock that the code below it
\* holds, which could then never release it (sync/spin.rs:4-7 and 136-137).
LocksAreReleased == \A l \in Locks : []<>(~locked[l] \/ halted)

=============================================================================
