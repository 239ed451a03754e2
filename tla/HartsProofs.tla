---------------------------- MODULE HartsProofs ----------------------------
(***************************************************************************)
(* For any number of harts and locks and every heap: a spin lock has one   *)
(* guard, interrupts are back as they were after every path through the    *)
(* lock, and the blocks of the heap are disjoint.                          *)
(***************************************************************************)
EXTENDS Harts, TLAPS

\* What makes the three invariants inductive.  A context that is inside lock,
\* try_lock or drop is the one its hart executes, with interrupts off, and has
\* saved the flag its code runs with.  Only code that runs with interrupts on
\* is ever interrupted.
InsideLock ==
  /\ \A c \in Contexts :
       pc[c] # "out" =>
         /\ ~sie[c[1]]
         /\ (handling[c[1]] <=> c[2] = "handler")
         /\ (saved[c] <=> c[2] = "code" /\ ~masked[c[1]])
  /\ \A h \in Harts : handling[h] => ~masked[h]

\* An offset a context has loaded is never ahead of the heap.
LoadedBefore == \A c \in Contexts : call[c] # NoCall => call[c].off <= next

IndInv == TypeOK /\ GuardsExclude /\ InterruptsRestored /\ InsideLock
          /\ HeapBlocksDisjoint /\ LoadedBefore

-----------------------------------------------------------------------------
\* heap.rs: rounding up to an alignment does not go down.
LEMMA AlignUpIsUp ==
  ASSUME NEW addr \in Nat, NEW align \in Nat \ {0}
  PROVE  AlignUp(addr, align) \in Nat /\ AlignUp(addr, align) >= addr
<1> DEFINE r == (addr + align - 1) % align
<1>1. r \in 0 .. align - 1
  OBVIOUS
<1> HIDE DEF r
<1>2. (addr + align - 1) - r \in Nat /\ (addr + align - 1) - r >= addr
  BY <1>1
<1> QED
  BY <1>2 DEF AlignUp, r

\* A block that alloc computes begins at or behind the offset it started from
\* and ends at the next offset.
LEMMA BlockIsBehind ==
  ASSUME TypeOK, NEW c \in Contexts, call[c] # NoCall
  PROVE  /\ Aligned(c) \in Nat /\ Aligned(c) >= BASE + call[c].off
         /\ NewOff(c) \in Nat /\ Aligned(c) + call[c].size = BASE + NewOff(c)
         /\ NewOff(c) > call[c].off
<1>1. call[c] \in [off : 0 .. HEAP_SIZE, size : Nat \ {0}, align : Nat \ {0}]
  BY DEF TypeOK
<1>2. BASE + call[c].off \in Nat /\ call[c].align \in Nat \ {0} /\ call[c].size \in Nat \ {0}
  BY <1>1, HeapAssumption
<1>3. Aligned(c) \in Nat /\ Aligned(c) >= BASE + call[c].off
  BY <1>2, AlignUpIsUp DEF Aligned
<1> QED
  BY <1>1, <1>2, <1>3, HeapAssumption DEF NewOff

-----------------------------------------------------------------------------
LEMMA InitIndInv == Init => IndInv
<1> SUFFICES ASSUME Init PROVE IndInv
  OBVIOUS
<1> USE HeapAssumption, LayoutAssumption DEF Init
<1>1. TypeOK
  <2>1. sie \in [Harts -> BOOLEAN] /\ masked \in [Harts -> BOOLEAN]
    BY Zenon
  <2>2. /\ locked \in [Locks -> BOOLEAN] /\ handling \in [Harts -> BOOLEAN]
        /\ pc \in [Contexts -> Places] /\ lk \in [Contexts -> Locks] /\ saved \in [Contexts -> BOOLEAN]
    BY DEF Places
  <2>3. next \in 0 .. HEAP_SIZE /\ \A b \in blocks : b.at \in Nat /\ b.size \in Nat \ {0}
    OBVIOUS
  <2>4. call \in [Contexts -> [off : 0 .. HEAP_SIZE, size : Nat \ {0}, align : Nat \ {0}] \cup {NoCall}]
    OBVIOUS
  <2>5. halted \in BOOLEAN
    BY Zenon
  <2> QED
    BY <2>1, <2>2, <2>3, <2>4, <2>5, Zenon DEF TypeOK
<1>2. GuardsExclude /\ InterruptsRestored /\ InsideLock
  BY DEF GuardsExclude, Holds, InterruptsRestored, InsideLock, Contexts
<1>3. HeapBlocksDisjoint /\ LoadedBefore
  BY DEF HeapBlocksDisjoint, LoadedBefore
<1> QED
  BY <1>1, <1>2, <1>3 DEF IndInv

\* The lock side: what a step that leaves the heap alone has to preserve.
LockSide == GuardsExclude /\ InterruptsRestored /\ InsideLock
LockType ==
  /\ locked \in [Locks -> BOOLEAN]
  /\ sie \in [Harts -> BOOLEAN] /\ handling \in [Harts -> BOOLEAN] /\ masked \in [Harts -> BOOLEAN]
  /\ pc \in [Contexts -> Places] /\ lk \in [Contexts -> Locks] /\ saved \in [Contexts -> BOOLEAN]

\* Every step of the lock, of an interrupt and of its return.
LEMMA LockStep ==
  ASSUME LockType, LockSide,
         NEW c \in Contexts,
         \/ \E l \in Locks : Begin(c, l, "spin") \/ Begin(c, l, "try")
         \/ Acquire(c) \/ try_lock(c) \/ DropGuard(c)
         \/ Interrupt(c[1]) \/ Sret(c[1])
  PROVE  LockType' /\ LockSide'
<1> USE DEF LockType, LockSide
<1>0. /\ c[1] \in Harts /\ c[2] \in {"code", "handler"} /\ c = <<c[1], c[2]>>
      /\ \A d \in Contexts : d[1] \in Harts /\ d[2] \in {"code", "handler"} /\ d = <<d[1], d[2]>>
      /\ <<c[1], "handler">> \in Contexts /\ <<c[1], "code">> \in Contexts
  BY DEF Contexts
<1>1. ASSUME NEW l \in Locks, NEW p \in {"spin", "try"}, Begin(c, l, p)
      PROVE  LockType' /\ LockSide'
  <2> USE <1>1 DEF Begin, At, Runs, Goto, disable_and_save
  <2>1. LockType'
    BY <1>0 DEF Places
  <2>2. GuardsExclude'
    BY <1>0 DEF GuardsExclude, Holds
  <2>3. InterruptsRestored'
    <3> SUFFICES ASSUME NEW d \in Contexts, handling[d[1]] <=> d[2] = "handler", pc'[d] = "out"
                 PROVE  sie'[d[1]] <=> ~handling[d[1]] /\ ~masked[d[1]]
      BY DEF InterruptsRestored
    <3>1. d # c /\ pc[d] = "out"
      BY <1>0
    <3>2. d[1] # c[1]
      BY <1>0, <3>1
    <3> QED
      BY <1>0, <3>1, <3>2 DEF InterruptsRestored
  <2>4. InsideLock'
    <3>1. sie[c[1]] <=> c[2] = "code" /\ ~masked[c[1]]
      BY <1>0 DEF InterruptsRestored
    <3>2. saved'[c] <=> c[2] = "code" /\ ~masked[c[1]]
      BY <1>0, <3>1
    <3> QED
      BY <1>0, <3>2 DEF InsideLock
  <2> QED
    BY <2>1, <2>2, <2>3, <2>4
<1>2. ASSUME At(c, "spin") \/ At(c, "try"), Cas(c), Goto(c, "held"),
             UNCHANGED <<sie, lk, saved, handling, masked>>
      PROVE  LockType' /\ LockSide'
  <2> USE <1>2 DEF At, Runs, Goto, Cas
  <2>1. LockType'
    BY <1>0 DEF Places
  <2>2. GuardsExclude'
    BY <1>0 DEF GuardsExclude, Holds
  <2>3. InterruptsRestored' /\ InsideLock'
    BY <1>0 DEF InterruptsRestored, InsideLock
  <2> QED
    BY <2>1, <2>2, <2>3
<1>3. ASSUME At(c, "try"), Goto(c, "failed"), UNCHANGED <<locked, sie, lk, saved, handling, masked>>
      PROVE  LockType' /\ LockSide'
  <2> USE <1>3 DEF At, Runs, Goto
  <2>1. LockType'
    BY <1>0 DEF Places
  <2>2. GuardsExclude'
    BY <1>0 DEF GuardsExclude, Holds
  <2>3. InterruptsRestored' /\ InsideLock'
    BY <1>0 DEF InterruptsRestored, InsideLock
  <2> QED
    BY <2>1, <2>2, <2>3
<1>4. ASSUME At(c, "failed") \/ At(c, "released"), restore(c), Goto(c, "out"),
             UNCHANGED <<locked, lk, handling, masked>>
      PROVE  LockType' /\ LockSide'
  <2> USE <1>4 DEF At, Runs, Goto, restore
  <2>1. LockType'
    BY <1>0 DEF Places
  <2>2. GuardsExclude'
    BY <1>0 DEF GuardsExclude, Holds
  <2>3. InterruptsRestored' /\ InsideLock'
    BY <1>0, SMTT(30) DEF InterruptsRestored, InsideLock
  <2> QED
    BY <2>1, <2>2, <2>3
<1>5. ASSUME At(c, "held"), raw_unlock(c), Goto(c, "released"),
             UNCHANGED <<sie, lk, saved, handling, masked>>
      PROVE  LockType' /\ LockSide'
  <2> USE <1>5 DEF At, Runs, Goto, raw_unlock
  <2>1. LockType'
    BY <1>0 DEF Places
  <2>2. GuardsExclude'
    BY <1>0 DEF GuardsExclude, Holds
  <2>3. InterruptsRestored' /\ InsideLock'
    BY <1>0 DEF InterruptsRestored, InsideLock
  <2> QED
    BY <2>1, <2>2, <2>3
<1>6. ASSUME Interrupt(c[1]) \/ Sret(c[1])
      PROVE  LockType' /\ LockSide'
  <2> USE <1>6 DEF Interrupt, Sret
  <2>1. LockType'
    BY <1>0
  <2>2. GuardsExclude'
    BY <1>0 DEF GuardsExclude, Holds
  <2>3. InterruptsRestored' /\ InsideLock'
    BY <1>0, SMTT(30) DEF InterruptsRestored, InsideLock, At, Runs
  <2> QED
    BY <2>1, <2>2, <2>3
<1> QED
  BY <1>1, <1>2, <1>3, <1>4, <1>5, <1>6
     DEF Acquire, try_lock, TryFails, DropGuard, Drop, heapVars

\* The heap side: its type, disjoint blocks, and offsets that are not ahead.
HeapType ==
  /\ next \in 0 .. HEAP_SIZE
  /\ call \in [Contexts -> [off : 0 .. HEAP_SIZE, size : Nat \ {0}, align : Nat \ {0}] \cup {NoCall}]
  /\ halted \in BOOLEAN
  /\ \A b \in blocks : b.at \in Nat /\ b.size \in Nat \ {0}
HeapSide == HeapType /\ HeapBlocksDisjoint /\ LoadedBefore

\* alloc: the load, and every turn of its loop.
LEMMA HeapStep ==
  ASSUME TypeOK, HeapSide, NEW c \in Contexts,
         (\E ly \in Layouts : Load(c, ly)) \/ Exchange(c)
  PROVE  HeapSide'
<1> USE HeapAssumption, LayoutAssumption DEF HeapSide
<1>1. ASSUME NEW ly \in Layouts, Load(c, ly) PROVE HeapSide'
  <2>1. HeapType'
    BY <1>1 DEF Load, HeapType
  <2>2. HeapBlocksDisjoint' /\ LoadedBefore'
    BY <1>1 DEF Load, HeapType, HeapBlocksDisjoint, LoadedBefore
  <2> QED
    BY <2>1, <2>2
<1>2. ASSUME call[c] # NoCall, NewOff(c) <= HEAP_SIZE, next = call[c].off, Hands(c)
      PROVE  HeapSide'
  <2> DEFINE b == [at |-> Aligned(c), size |-> call[c].size]
  <2>1. /\ Aligned(c) \in Nat /\ Aligned(c) >= BASE + next
        /\ NewOff(c) \in Nat /\ Aligned(c) + call[c].size = BASE + NewOff(c)
        /\ NewOff(c) > next /\ call[c].size \in Nat \ {0}
    BY <1>2, BlockIsBehind DEF TypeOK
  <2>2. b.at = Aligned(c) /\ b.size = call[c].size
    OBVIOUS
  <2>3. blocks' = blocks \cup {b} /\ next' = NewOff(c) /\ call' = [call EXCEPT ![c] = NoCall] /\ halted' = halted
    BY <1>2 DEF Hands
  <2> HIDE DEF b
  <2>4. HeapType'
    BY <1>2, <2>1, <2>2, <2>3 DEF HeapType
  <2>5. \A d \in blocks : BASE <= d.at /\ d.at + d.size <= BASE + next /\ d.at \in Nat /\ d.size \in Nat
    BY DEF HeapBlocksDisjoint, HeapType
  <2>6. HeapBlocksDisjoint'
    <3>1. \A d \in blocks' : BASE <= d.at /\ d.at + d.size <= BASE + next'
      BY <2>1, <2>2, <2>3, <2>5 DEF HeapType
    <3>2. \A d \in blocks : d.at + d.size <= b.at
      BY <2>1, <2>2, <2>5 DEF HeapType
    <3> QED
      BY <2>3, <3>1, <3>2 DEF HeapBlocksDisjoint
  <2>7. LoadedBefore'
    BY <2>1, <2>3 DEF LoadedBefore, HeapType
  <2> QED
    BY <2>4, <2>6, <2>7
<1>3. ASSUME Exchange(c), ~(NewOff(c) <= HEAP_SIZE /\ next = call[c].off /\ Hands(c))
      PROVE  HeapSide'
  <2>1. HeapType'
    BY <1>3, ZenonT(30) DEF Exchange, HeapType
  <2>2. HeapBlocksDisjoint' /\ LoadedBefore'
    BY <1>3 DEF Exchange, HeapType, HeapBlocksDisjoint, LoadedBefore
  <2> QED
    BY <2>1, <2>2
<1> QED
  BY <1>1, <1>2, <1>3 DEF Exchange

-----------------------------------------------------------------------------
LEMMA NextIndInv == IndInv /\ [Next]_vars => IndInv'
<1> SUFFICES ASSUME IndInv, [Next]_vars PROVE IndInv'
  OBVIOUS
<1>1. LockType /\ LockSide /\ HeapSide /\ TypeOK
  BY DEF IndInv, TypeOK, LockType, LockSide, HeapSide, HeapType
<1>2. SUFFICES LockType' /\ LockSide' /\ HeapSide'
  BY DEF IndInv, TypeOK, LockType, LockSide, HeapSide, HeapType
<1>3. ASSUME UNCHANGED heapVars PROVE HeapSide'
  BY <1>1, <1>3 DEF heapVars, HeapSide, HeapType, HeapBlocksDisjoint, LoadedBefore
<1>4. ASSUME UNCHANGED <<spinVars, handling, masked>> PROVE LockType' /\ LockSide'
  BY <1>1, <1>4 DEF spinVars, LockType, LockSide, GuardsExclude, Holds, InterruptsRestored, InsideLock
<1>5. CASE \E c \in Contexts : \/ \E l \in Locks : Begin(c, l, "spin") \/ Begin(c, l, "try")
                               \/ Acquire(c) \/ try_lock(c) \/ DropGuard(c)
  <2>1. UNCHANGED heapVars
    BY <1>5 DEF Begin, Acquire, try_lock, DropGuard
  <2> QED
    BY <1>1, <1>3, <1>5, <2>1, LockStep
<1>6. CASE \E h \in Harts : Interrupt(h) \/ Sret(h)
  <2>1. PICK h \in Harts : Interrupt(h) \/ Sret(h)
    BY <1>6
  <2>2. UNCHANGED heapVars
    BY <2>1 DEF Interrupt, Sret
  <2>3. <<h, "code">> \in Contexts /\ <<h, "code">>[1] = h
    BY DEF Contexts
  <2> QED
    BY <1>1, <1>3, <2>1, <2>2, <2>3, LockStep
<1>7. CASE \E c \in Contexts : (\E ly \in Layouts : Load(c, ly)) \/ Exchange(c)
  <2>1. UNCHANGED <<spinVars, handling, masked>>
    BY <1>7 DEF Load, Exchange
  <2> QED
    BY <1>1, <1>4, <1>7, <2>1, HeapStep
<1>8. CASE UNCHANGED vars
  BY <1>3, <1>4, <1>8 DEF vars
<1> QED
  BY <1>5, <1>6, <1>7, <1>8 DEF Next, Step

\* IndInv holds in every reachable state of any number of harts and locks.
THEOREM Invariance == Spec => []IndInv
  BY InitIndInv, NextIndInv, PTL DEF Spec

\* sync/spin.rs: for any number of harts, a lock has one guard at most, be it
\* of the code of a hart or of its handler.
THEOREM GuardIsUnique == Spec => []GuardsExclude
<1>1. IndInv => GuardsExclude
  BY DEF IndInv
<1> QED
  BY <1>1, Invariance, PTL

\* sync/spin.rs, arch/interrupts.rs: every path through lock, try_lock and drop
\* leaves the interrupt flag as it found it.
THEOREM FlagIsRestored == Spec => []InterruptsRestored
<1>1. IndInv => InterruptsRestored
  BY DEF IndInv
<1> QED
  BY <1>1, Invariance, PTL

\* heap.rs: for every heap size, base address and layouts, the blocks that the
\* compare-exchange loop hands out are inside the heap and disjoint.
THEOREM BlocksAreDisjoint == Spec => []HeapBlocksDisjoint
<1>1. IndInv => HeapBlocksDisjoint
  BY DEF IndInv
<1> QED
  BY <1>1, Invariance, PTL

=============================================================================
