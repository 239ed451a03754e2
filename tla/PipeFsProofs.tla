---------------------------- MODULE PipeFsProofs ----------------------------
(***************************************************************************)
(* Proofs about PipeFs, for every number of processes and pipes and every  *)
(* ring size: the type invariant, the ring invariant, and that the pipes   *)
(* implement ByteStream.                                                   *)
(***************************************************************************)
EXTENDS PipeFs, TLAPS

\* The modulus in write_byte and read_byte only ever wraps one past the end.
LEMMA WrapNext ==
  ASSUME NEW x \in Cell
  PROVE  (x + 1) % RING_BUFFER_SIZE = (IF x + 1 = RING_BUFFER_SIZE THEN 0 ELSE x + 1)
  BY RingSizeAssumption, SMT DEF Cell

\* available_read and available_write count the bytes in flight and the room.
LEMMA Availability ==
  ASSUME NEW r \in Ring, NEW g \in Nat, NEW w \in Nat, Holds(r, g, w)
  PROVE  /\ available_read(r) = w - g
         /\ available_write(r) = RING_BUFFER_SIZE - (w - g)
<1> DEFINE h == r.head
           t == r.tail
<1>1. /\ RING_BUFFER_SIZE \in Nat /\ RING_BUFFER_SIZE > 0
      /\ h \in Int /\ 0 <= h /\ h < RING_BUFFER_SIZE
      /\ t \in Int
  BY RingSizeAssumption DEF Ring, Cell
<1>2. /\ g <= w /\ w <= g + RING_BUFFER_SIZE
      /\ t = IF h + (w - g) < RING_BUFFER_SIZE THEN h + (w - g)
             ELSE h + (w - g) - RING_BUFFER_SIZE
      /\ r.status = "Empty" <=> w = g
      /\ r.status = "Full" <=> w = g + RING_BUFFER_SIZE
  BY <1>1 DEF Holds, Wrap
<1>3. /\ w = g => available_read(r) = 0
      /\ w # g => available_read(r) = IF t > h THEN t - h
                                      ELSE RING_BUFFER_SIZE - h + t
  BY <1>2 DEF available_read
<1> HIDE DEF h, t
<1>4. available_read(r) = w - g
  BY <1>1, <1>2, <1>3
<1>5. QED
  BY <1>1, <1>2, <1>4 DEF available_write

\* Writing the next byte into a ring with room extends what it holds.
LEMMA WriteHolds ==
  ASSUME NEW r \in Ring, NEW g \in Nat, NEW w \in Nat, Holds(r, g, w),
         available_write(r) > 0
  PROVE  /\ write_byte(r, w + 1) \in Ring
         /\ Holds(write_byte(r, w + 1), g, w + 1)
<1> DEFINE S == RING_BUFFER_SIZE
           q == write_byte(r, w + 1)
           t == (r.tail + 1) % S
<1>1. /\ S \in Nat /\ S > 0
      /\ r.head \in Int /\ 0 <= r.head /\ r.head < S
      /\ r.tail \in Int /\ 0 <= r.tail /\ r.tail < S
      /\ r.arr \in [Cell -> Nat]
  BY RingSizeAssumption DEF Ring, Cell
<1>2. t = (IF r.tail + 1 = S THEN 0 ELSE r.tail + 1)
  BY WrapNext DEF Ring
<1>3. w < g + S
  BY Availability, <1>1
<1>4. /\ g <= w
      /\ r.tail = Wrap(r.head + (w - g))
      /\ \A i \in 0 .. w - g - 1 : r.arr[Wrap(r.head + i)] = g + i + 1
  BY DEF Holds
<1>5. /\ q.head = r.head
      /\ q.tail = t
      /\ q.arr = [r.arr EXCEPT ![r.tail] = w + 1]
      /\ q.status = IF t = r.head THEN "Full" ELSE "Normal"
  BY DEF write_byte, Ring
<1>6. q \in Ring
  <2>1. t \in Cell
    BY <1>1, <1>2 DEF Cell
  <2>2. [r.arr EXCEPT ![r.tail] = w + 1] \in [Cell -> Nat]
    <3>1. r.arr \in [Cell -> Nat] /\ w + 1 \in Nat
      BY <1>1
    <3>2. QED
      BY <3>1
  <2>3. QED
    BY <2>1, <2>2 DEF write_byte, Ring, Status
<1>7. t = Wrap(r.head + ((w + 1) - g))
  BY <1>1, <1>2, <1>3, <1>4 DEF Wrap
<1>8. t = r.head <=> w + 1 = g + S
  BY <1>1, <1>3, <1>4, <1>7 DEF Wrap
<1>9. ASSUME NEW i \in 0 .. (w + 1) - g - 1
      PROVE  q.arr[Wrap(r.head + i)] = g + i + 1
  <2>1. Wrap(r.head + i) \in Cell
    <3>1. 0 <= Wrap(r.head + i) /\ Wrap(r.head + i) < S /\ Wrap(r.head + i) \in Int
      BY <1>1, <1>3 DEF Wrap
    <3>2. QED
      BY <1>1, <3>1 DEF Cell
  <2>2. CASE i = w - g
    BY <1>1, <1>4, <1>5, <2>1, <2>2
  <2>3. CASE i # w - g
    <3>1. i \in 0 .. w - g - 1
      BY <1>4, <2>3
    <3>2. Wrap(r.head + i) # r.tail
      BY <1>1, <1>3, <1>4, <3>1 DEF Wrap
    <3>3. QED
      BY <1>1, <1>4, <1>5, <2>1, <3>1, <3>2
  <2>4. QED
    BY <2>2, <2>3
<1>10. Holds(q, g, w + 1)
  BY <1>1, <1>3, <1>4, <1>5, <1>7, <1>8, <1>9 DEF Holds
<1>11. QED
  BY <1>6, <1>10

\* Reading from a ring that is not empty yields the oldest byte it holds.
LEMMA ReadHolds ==
  ASSUME NEW r \in Ring, NEW g \in Nat, NEW w \in Nat, Holds(r, g, w),
         available_read(r) > 0
  PROVE  /\ read_byte(r) \in Ring
         /\ head_byte(r) = g + 1
         /\ g < w
         /\ Holds(read_byte(r), g + 1, w)
<1> DEFINE S == RING_BUFFER_SIZE
           q == read_byte(r)
           h == (r.head + 1) % S
<1>1. /\ S \in Nat /\ S > 0
      /\ r.head \in Int /\ 0 <= r.head /\ r.head < S
      /\ r.tail \in Int /\ 0 <= r.tail /\ r.tail < S
      /\ r.arr \in [Cell -> Nat]
  BY RingSizeAssumption DEF Ring, Cell
<1>2. h = (IF r.head + 1 = S THEN 0 ELSE r.head + 1)
  BY WrapNext DEF Ring
<1>3. g < w
  BY Availability, <1>1
<1>4. /\ w <= g + S
      /\ r.tail = Wrap(r.head + (w - g))
      /\ \A i \in 0 .. w - g - 1 : r.arr[Wrap(r.head + i)] = g + i + 1
  BY DEF Holds
<1>5. /\ q.head = h
      /\ q.tail = r.tail
      /\ q.arr = r.arr
      /\ q.status = IF h = r.tail THEN "Empty" ELSE "Normal"
  BY DEF read_byte, Ring
<1>6. q \in Ring
  <2>1. h \in Cell
    BY <1>1, <1>2 DEF Cell
  <2>2. QED
    BY <2>1 DEF read_byte, Ring, Status
<1>7. r.tail = Wrap(h + (w - (g + 1)))
  BY <1>1, <1>2, <1>3, <1>4 DEF Wrap
<1>8. h = r.tail <=> w = g + 1
  BY <1>1, <1>2, <1>3, <1>4, <1>7 DEF Wrap
<1>9. ASSUME NEW i \in 0 .. w - (g + 1) - 1
      PROVE  r.arr[Wrap(h + i)] = (g + 1) + i + 1
  <2>1. i + 1 \in 0 .. w - g - 1
    BY <1>3
  <2>2. Wrap(h + i) = Wrap(r.head + (i + 1))
    BY <1>1, <1>2, <1>4, <2>1 DEF Wrap
  <2>3. QED
    BY <1>4, <2>1, <2>2
<1>10. Holds(q, g + 1, w)
  BY <1>1, <1>3, <1>4, <1>5, <1>7, <1>8, <1>9 DEF Holds
<1>11. head_byte(r) = g + 1
  <2>1. Wrap(r.head + 0) = r.head /\ 0 \in 0 .. w - g - 1
    BY <1>1, <1>3 DEF Wrap
  <2>2. r.arr[Wrap(r.head + 0)] = g + 0 + 1
    BY <1>4, <2>1
  <2>3. QED
    BY <2>1, <2>2 DEF head_byte
<1>12. QED
  BY <1>3, <1>6, <1>10, <1>11

-----------------------------------------------------------------------------
LEMMA InitIndInv == Init => IndInv
<1> SUFFICES ASSUME Init PROVE IndInv
  OBVIOUS
<1>1. TypeOK
  <2>1. new \in Ring
    BY RingSizeAssumption DEF new, Ring, Cell, Status
  <2>2. \A p \in Procs : fds[p] \in [Fd -> Stdio \cup PipeEnd]
    BY DEF Init, Stdio, Stdin, Stdout, None
  <2>3. fds \in [Procs -> [Fd -> Stdio \cup PipeEnd]]
    BY <2>2 DEF Init
  <2>4. QED
    BY <2>1, <2>3, PipeFsAssumption DEF Init, TypeOK, Call
<1>2. RingInv
  <2>1. Holds(new, 0, 0)
    BY RingSizeAssumption DEF Holds, new, Wrap
  <2>2. QED
    BY <2>1 DEF Init, RingInv
<1>3. EofInv
  <2>1. ASSUME NEW p \in Procs, NEW fd \in Fd
        PROVE  fds[p][fd].kind \notin {"read", "write"}
    BY DEF Init, Stdin, Stdout, None
  <2>2. ASSUME NEW p \in Procs
        PROVE  call[p].file.kind = "none"
    BY DEF Init, Idle, None
  <2>3. QED
    BY <2>1, <2>2 DEF Init, EofInv, all_write_ends_closed, no_read_end,
                      HeldBy, WriteEnd, ReadEnd
<1>4. QED
  BY <1>1, <1>2, <1>3 DEF IndInv

\* A step after which every pipe end is held only if it was held before cannot
\* reopen a pipe.
Inherited ==
  \A p \in Procs : \A file \in PipeEnd :
    HeldBy(p, file)' => \E q \in Procs : HeldBy(q, file)

LEMMA ClosedStaysClosed ==
  ASSUME Inherited, NEW k \in Pipes
  PROVE  /\ all_write_ends_closed(k) => all_write_ends_closed(k)'
         /\ no_read_end(k) => no_read_end(k)'
<1>1. WriteEnd(k) \in PipeEnd /\ ReadEnd(k) \in PipeEnd
  BY DEF WriteEnd, ReadEnd, PipeEnd
<1>2. WriteEnd(k)' = WriteEnd(k) /\ ReadEnd(k)' = ReadEnd(k)
  BY DEF WriteEnd, ReadEnd
<1>3. \A p \in Procs : /\ HeldBy(p, WriteEnd(k))' => \E q \in Procs : HeldBy(q, WriteEnd(k))
                       /\ HeldBy(p, ReadEnd(k))' => \E q \in Procs : HeldBy(q, ReadEnd(k))
  BY <1>1 DEF Inherited
<1>4. QED
  BY <1>3 DEF all_write_ends_closed, no_read_end

\* A step that leaves the rings alone and only inherits ends keeps RingInv and
\* EofInv.
LEMMA TableStep ==
  ASSUME IndInv, Inherited, UNCHANGED <<ring, wrote, got, delivered, eof, made>>
  PROVE  RingInv' /\ EofInv'
<1>1. RingInv'
  BY DEF IndInv, RingInv
<1>2. EofInv'
  <2>1. \A k \in eof : k \in Pipes
    BY DEF IndInv, TypeOK
  <2>2. QED
    BY <2>1, ClosedStaysClosed DEF IndInv, EofInv
<1>3. QED
  BY <1>1, <1>2

LEMMA DupStep ==
  ASSUME IndInv, NEW p \in Procs, NEW fd \in Fd, sys_dup(p, fd)
  PROVE  IndInv'
<1>1. PICK n \in Fd : fds' = [fds EXCEPT ![p][n] = fds[p][fd]]
  BY DEF sys_dup
<1>2. TypeOK'
  BY <1>1 DEF IndInv, TypeOK, sys_dup, ringVars
<1>3. Inherited
  BY <1>1 DEF Inherited, HeldBy, IndInv, TypeOK, sys_dup
<1>4. QED
  BY <1>2, <1>3, TableStep DEF IndInv, sys_dup, ringVars

LEMMA CloseStep ==
  ASSUME IndInv, NEW p \in Procs, NEW fd \in Fd, sys_close(p, fd)
  PROVE  IndInv'
<1>1. None \in Stdio /\ None \notin PipeEnd
  BY DEF None, Stdio, PipeEnd
<1>2. TypeOK'
  BY <1>1 DEF IndInv, TypeOK, sys_close, ringVars
<1>3. Inherited
  BY <1>1 DEF Inherited, HeldBy, IndInv, TypeOK, sys_close
<1>4. QED
  BY <1>2, <1>3, TableStep DEF IndInv, sys_close, ringVars

LEMMA ForkStep ==
  ASSUME IndInv, NEW p \in Procs, NEW c \in Procs, sys_fork(p, c)
  PROVE  IndInv'
<1>1. TypeOK'
  BY DEF IndInv, TypeOK, sys_fork, ringVars
<1>2. Inherited
  BY DEF Inherited, HeldBy, IndInv, TypeOK, sys_fork
<1>3. QED
  BY <1>1, <1>2, TableStep DEF IndInv, sys_fork, ringVars

LEMMA ExitStep ==
  ASSUME IndInv, NEW p \in Procs, sys_exit(p)
  PROVE  IndInv'
<1>1. None \in Stdio /\ None \notin PipeEnd
  BY DEF None, Stdio, PipeEnd
<1>2. TypeOK'
  BY <1>1 DEF IndInv, TypeOK, sys_exit, ringVars
<1>3. Inherited
  BY <1>1 DEF Inherited, HeldBy, IndInv, TypeOK, sys_exit
<1>4. QED
  BY <1>2, <1>3, TableStep DEF IndInv, sys_exit, ringVars

LEMMA PipeStep ==
  ASSUME IndInv, NEW p \in Procs, NEW k \in Pipes, sys_pipe(p, k)
  PROVE  IndInv'
<1> USE DEF IndInv
<1>1. PICK rfd \in Fd, wfd \in Fd :
        fds' = [fds EXCEPT ![p] = [[fds[p] EXCEPT ![rfd] = ReadEnd(k)]
                                     EXCEPT ![wfd] = WriteEnd(k)]]
  BY DEF sys_pipe
<1>2. ReadEnd(k) \in PipeEnd /\ WriteEnd(k) \in PipeEnd
  BY DEF ReadEnd, WriteEnd, PipeEnd
<1>3. /\ UNCHANGED <<alive, call, ring, asked, wrote, got, delivered, eof>>
      /\ made' = made \cup {k} /\ k \notin made
  BY DEF sys_pipe, ringVars
<1>4. TypeOK'
  BY <1>1, <1>2, <1>3 DEF TypeOK
<1>5. RingInv'
  BY <1>3 DEF RingInv
<1>6. ASSUME NEW j \in Pipes, j # k
      PROVE  /\ all_write_ends_closed(j) => all_write_ends_closed(j)'
             /\ no_read_end(j) => no_read_end(j)'
  <2>1. WriteEnd(j) \notin {ReadEnd(k), WriteEnd(k)} /\ ReadEnd(j) \notin {ReadEnd(k), WriteEnd(k)}
    BY <1>6 DEF WriteEnd, ReadEnd
  <2>2. \A q \in Procs : \A fd \in Fd :
          fds'[q][fd] \in {fds[q][fd], ReadEnd(k), WriteEnd(k)}
    BY <1>1 DEF TypeOK
  <2>3. QED
    BY <1>3, <2>1, <2>2 DEF all_write_ends_closed, no_read_end, HeldBy
<1>7. EofInv'
  <2>1. k \notin eof /\ eof \subseteq Pipes
    BY <1>3 DEF TypeOK
  <2>2. \A j \in eof' : all_write_ends_closed(j)' /\ got'[j] = wrote'[j]
    BY <1>3, <1>6, <2>1 DEF EofInv
  <2>3. \A j \in Pipes \ made' : all_write_ends_closed(j)' /\ no_read_end(j)'
    BY <1>3, <1>6 DEF EofInv
  <2>4. QED
    BY <2>2, <2>3 DEF EofInv
<1>8. QED
  BY <1>4, <1>5, <1>7

\* A file open in a direction is an end of some pipe.
LEMMA OpenEnd ==
  ASSUME TypeOK, NEW p \in Procs, NEW fd \in Fd, fds[p][fd].kind \in {"read", "write"}
  PROVE  fds[p][fd] \in PipeEnd /\ fds[p][fd].pipe \in Pipes
BY DEF TypeOK, Stdio, PipeEnd

LEMMA ReadCallStep ==
  ASSUME IndInv, NEW p \in Procs, NEW fd \in Fd, NEW len \in 1 .. MAX_LEN,
         sys_read(p, fd, len)
  PROVE  IndInv'
<1>1. fds[p][fd] \in PipeEnd
  BY OpenEnd DEF IndInv, sys_read
<1>2. TypeOK'
  BY <1>1 DEF IndInv, TypeOK, sys_read, ringVars, Call
<1>3. Inherited
  BY DEF Inherited, HeldBy, IndInv, TypeOK, sys_read
<1>4. QED
  BY <1>2, <1>3, TableStep DEF IndInv, sys_read, ringVars

LEMMA WriteCallStep ==
  ASSUME IndInv, NEW p \in Procs, NEW fd \in Fd, NEW len \in 1 .. MAX_LEN,
         sys_write(p, fd, len)
  PROVE  IndInv'
<1>1. fds[p][fd] \in PipeEnd /\ fds[p][fd].pipe \in Pipes
  BY OpenEnd DEF IndInv, sys_write
<1>2. asked' \in [Pipes -> 0 .. MAX_BYTES]
  BY <1>1, PipeFsAssumption DEF IndInv, TypeOK, sys_write
<1>3. call' \in [Procs -> Call]
  <2>1. [file |-> fds[p][fd], left |-> len] \in Call
    BY <1>1 DEF Call
  <2>2. QED
    BY <2>1 DEF IndInv, TypeOK, sys_write
<1>4. TypeOK'
  BY <1>2, <1>3 DEF IndInv, TypeOK, sys_write
<1>5. Inherited
  BY DEF Inherited, HeldBy, IndInv, TypeOK, sys_write
<1>6. QED
  BY <1>4, <1>5, TableStep DEF IndInv, sys_write

\* Moving a byte keeps a call well formed and its file, or ends it.
LEMMA MovedCall ==
  ASSUME TypeOK, NEW p \in Procs, call[p].file \in PipeEnd, Moved(p)
  PROVE  /\ call' \in [Procs -> Call]
         /\ \A q \in Procs : call'[q].file \in {call[q].file, None}
<1>1. None \notin PipeEnd
  BY DEF None, PipeEnd
<1>2. call[p] \in [file : PipeEnd, left : 1 .. MAX_LEN]
  BY <1>1 DEF TypeOK, Call, Idle
<1>3. call[p].left # 1 =>
        [call[p] EXCEPT !.left = @ - 1] \in [file : PipeEnd, left : 1 .. MAX_LEN]
  BY <1>2, PipeFsAssumption
<1>4. call' \in [Procs -> Call]
  <2>1. (IF call[p].left = 1 THEN Idle ELSE [call[p] EXCEPT !.left = @ - 1]) \in Call
    BY <1>3 DEF Call
  <2>2. QED
    BY <2>1 DEF TypeOK, Moved
<1>5. \A q \in Procs : call'[q].file \in {call[q].file, None}
  BY <1>2 DEF TypeOK, Moved, Idle
<1>6. QED
  BY <1>4, <1>5

\* If no slot changes and calls only end, ends are only inherited.
LEMMA CallsOnlyEnd ==
  ASSUME UNCHANGED fds,
         \A q \in Procs : call'[q].file \in {call[q].file, None}
  PROVE  Inherited
<1>1. None \notin PipeEnd
  BY DEF None, PipeEnd
<1>2. QED
  BY <1>1 DEF Inherited, HeldBy

LEMMA ReadByteStep ==
  ASSUME IndInv, NEW p \in Procs, NEW k \in Pipes, ReadByte(p, k)
  PROVE  IndInv'
<1> USE DEF IndInv
<1>1. ReadEnd(k) \in PipeEnd
  BY DEF ReadEnd, PipeEnd
<1>2. /\ call' \in [Procs -> Call]
      /\ \A q \in Procs : call'[q].file \in {call[q].file, None}
  BY <1>1, MovedCall DEF ReadByte
<1>3. Inherited
  BY <1>2, CallsOnlyEnd DEF ReadByte
<1>4. /\ read_byte(ring[k]) \in Ring
      /\ head_byte(ring[k]) = got[k] + 1
      /\ got[k] < wrote[k]
      /\ Holds(read_byte(ring[k]), got[k] + 1, wrote[k])
  <2>1. ring[k] \in Ring /\ got[k] \in Nat /\ wrote[k] \in Nat
    BY DEF TypeOK
  <2>2. Holds(ring[k], got[k], wrote[k]) /\ available_read(ring[k]) > 0
    BY DEF RingInv, ReadByte
  <2>3. QED
    BY <2>1, <2>2, ReadHolds
<1>5. TypeOK'
  BY <1>2, <1>4 DEF TypeOK, ReadByte
<1>6. RingInv'
  BY <1>4 DEF RingInv, ReadByte, TypeOK
<1>7. EofInv'
  <2>1. eof \subseteq Pipes /\ k \notin eof
    BY <1>4 DEF TypeOK, EofInv
  <2>2. \A j \in eof : all_write_ends_closed(j)' /\ got'[j] = wrote'[j]
    BY <1>3, <2>1, ClosedStaysClosed DEF EofInv, ReadByte, TypeOK
  <2>3. \A j \in Pipes \ made : all_write_ends_closed(j)' /\ no_read_end(j)'
    BY <1>3, ClosedStaysClosed DEF EofInv
  <2>4. QED
    BY <2>2, <2>3 DEF EofInv, ReadByte
<1>8. QED
  BY <1>5, <1>6, <1>7

LEMMA WriteByteStep ==
  ASSUME IndInv, NEW p \in Procs, NEW k \in Pipes, WriteByte(p, k)
  PROVE  IndInv' /\ k \notin eof
<1> USE DEF IndInv
<1>1. WriteEnd(k) \in PipeEnd
  BY DEF WriteEnd, PipeEnd
<1>2. /\ call' \in [Procs -> Call]
      /\ \A q \in Procs : call'[q].file \in {call[q].file, None}
  BY <1>1, MovedCall DEF WriteByte
<1>3. Inherited
  BY <1>2, CallsOnlyEnd DEF WriteByte
<1>4. /\ write_byte(ring[k], wrote[k] + 1) \in Ring
      /\ Holds(write_byte(ring[k], wrote[k] + 1), got[k], wrote[k] + 1)
  <2>1. ring[k] \in Ring /\ got[k] \in Nat /\ wrote[k] \in Nat
    BY DEF TypeOK
  <2>2. Holds(ring[k], got[k], wrote[k]) /\ available_write(ring[k]) > 0
    BY DEF RingInv, WriteByte
  <2>3. QED
    BY <2>1, <2>2, WriteHolds
<1>5. k \notin eof
  BY DEF EofInv, all_write_ends_closed, HeldBy, WriteByte
<1>6. TypeOK'
  BY <1>2, <1>4 DEF TypeOK, WriteByte
<1>7. RingInv'
  BY <1>4 DEF RingInv, WriteByte, TypeOK
<1>8. EofInv'
  <2>1. eof \subseteq Pipes
    BY DEF TypeOK
  <2>2. \A j \in eof : all_write_ends_closed(j)' /\ got'[j] = wrote'[j]
    BY <1>3, <1>5, <2>1, ClosedStaysClosed DEF EofInv, WriteByte, TypeOK
  <2>3. \A j \in Pipes \ made : all_write_ends_closed(j)' /\ no_read_end(j)'
    BY <1>3, ClosedStaysClosed DEF EofInv
  <2>4. QED
    BY <2>2, <2>3 DEF EofInv, WriteByte
<1>9. QED
  BY <1>5, <1>6, <1>7, <1>8

LEMMA ReadEofStep ==
  ASSUME IndInv, NEW p \in Procs, NEW k \in Pipes, ReadEof(p, k)
  PROVE  IndInv' /\ got[k] = wrote[k]
<1> USE DEF IndInv
<1>1. /\ call' \in [Procs -> Call]
      /\ \A q \in Procs : call'[q].file \in {call[q].file, None}
  BY DEF ReadEof, TypeOK, Call, Idle
<1>2. Inherited
  BY <1>1, CallsOnlyEnd DEF ReadEof
<1>3. k \in made
  BY DEF EofInv, no_read_end, HeldBy, ReadEof
<1>4. got[k] = wrote[k]
  <2>1. ring[k] \in Ring /\ got[k] \in Nat /\ wrote[k] \in Nat
    BY DEF TypeOK
  <2>2. available_read(ring[k]) = wrote[k] - got[k]
    BY <2>1, Availability DEF RingInv
  <2>3. QED
    BY <2>1, <2>2, SMTT(30) DEF ReadEof
<1>5. TypeOK'
  BY <1>1, <1>3 DEF TypeOK, ReadEof
<1>6. RingInv'
  BY DEF RingInv, ReadEof
<1>7. EofInv'
  <2>1. eof \subseteq Pipes
    BY DEF TypeOK
  <2>2. \A j \in eof \cup {k} : all_write_ends_closed(j)
    BY DEF EofInv, ReadEof
  <2>3. \A j \in eof' : all_write_ends_closed(j)' /\ got'[j] = wrote'[j]
    BY <1>2, <1>4, <2>1, <2>2, ClosedStaysClosed DEF EofInv, ReadEof
  <2>4. \A j \in Pipes \ made : all_write_ends_closed(j)' /\ no_read_end(j)'
    BY <1>2, ClosedStaysClosed DEF EofInv
  <2>5. QED
    BY <2>3, <2>4 DEF EofInv, ReadEof
<1>8. QED
  BY <1>4, <1>5, <1>6, <1>7

LEMMA NextIndInv == IndInv /\ [Next]_vars => IndInv'
<1> SUFFICES ASSUME IndInv, [Next]_vars PROVE IndInv'
  OBVIOUS
<1>1. FD_ARGS \subseteq Fd
  BY PipeFsAssumption DEF Fd
<1>2. CASE UNCHANGED vars
  BY <1>2 DEF vars, IndInv, TypeOK, RingInv, EofInv, all_write_ends_closed,
              no_read_end, HeldBy
<1>3. ASSUME NEW p \in Procs, NEW k \in Pipes, sys_pipe(p, k) PROVE IndInv'
  BY <1>3, PipeStep
<1>4. ASSUME NEW p \in Procs, NEW fd \in FD_ARGS, sys_dup(p, fd) PROVE IndInv'
  BY <1>1, <1>4, DupStep
<1>5. ASSUME NEW p \in Procs, NEW fd \in FD_ARGS, sys_close(p, fd) PROVE IndInv'
  BY <1>1, <1>5, CloseStep
<1>6. ASSUME NEW p \in Procs, NEW c \in Procs, sys_fork(p, c) PROVE IndInv'
  BY <1>6, ForkStep
<1>7. ASSUME NEW p \in Procs, sys_exit(p) PROVE IndInv'
  BY <1>7, ExitStep
<1>8. ASSUME NEW p \in Procs, NEW fd \in FD_ARGS, NEW len \in 1 .. MAX_LEN,
             sys_read(p, fd, len)
      PROVE  IndInv'
  BY <1>1, <1>8, ReadCallStep
<1>9. ASSUME NEW p \in Procs, NEW fd \in FD_ARGS, NEW len \in 1 .. MAX_LEN,
             sys_write(p, fd, len)
      PROVE  IndInv'
  BY <1>1, <1>9, WriteCallStep
<1>10. ASSUME NEW p \in Procs, InCall(p) PROVE IndInv'
  BY <1>10, ReadByteStep, ReadEofStep, WriteByteStep DEF InCall
<1>11. QED
  BY <1>2, <1>3, <1>4, <1>5, <1>6, <1>7, <1>8, <1>9, <1>10 DEF Next

\* Type correctness, the ring invariant and the finality of EOF hold in every
\* reachable state, for any processes, pipes, descriptor bounds and ring size.
THEOREM Invariance == Spec => []IndInv
BY InitIndInv, NextIndInv, PTL DEF Spec

\* head and tail stay inside PipeRingBuffer's array, and every other variable of
\* the pipes and descriptor tables keeps its type.
THEOREM TypeCorrect == Spec => []TypeOK
<1>1. IndInv => TypeOK
  BY DEF IndInv
<1>2. QED
  BY <1>1, Invariance, PTL

\* The ring of every pipe holds exactly the bytes written and not yet read, in
\* order, however often PipeRingBuffer's head and tail have wrapped.
THEOREM RingsHold == Spec => []RingInv
<1>1. IndInv => RingInv
  BY DEF IndInv
<1>2. QED
  BY <1>1, Invariance, PTL

\* Pipe::read reports the end of a stream only when nothing is left in the ring
\* and nothing will ever be written to it.
THEOREM EndIsFinal == Spec => []EofInv
<1>1. IndInv => EofInv
  BY DEF IndInv
<1>2. QED
  BY <1>1, Invariance, PTL

\* Full and empty rings are never confused: the counts of available_read and
\* available_write always agree with the history of the pipe.
THEOREM BytesAccounted == Spec => []EveryByteAccounted
<1>1. IndInv => EveryByteAccounted
  <2> SUFFICES ASSUME IndInv, NEW k \in Pipes
               PROVE  /\ got[k] + available_read(ring[k]) = wrote[k]
                      /\ available_read(ring[k]) + available_write(ring[k])
                           = RING_BUFFER_SIZE
    BY DEF EveryByteAccounted
  <2>1. ring[k] \in Ring /\ got[k] \in Nat /\ wrote[k] \in Nat
    BY DEF IndInv, TypeOK
  <2>2. Holds(ring[k], got[k], wrote[k])
    BY DEF IndInv, RingInv
  <2>3. QED
    BY <2>1, <2>2, Availability, RingSizeAssumption
<1>2. QED
  BY <1>1, Invariance, PTL

\* Bytes come out of Pipe::read once each, in the order written, and an end
\* once reported is final: the pipes implement the abstract byte stream.
THEOREM Refinement == Spec => ImplementsByteStream
<1>1. Init => Stream!Init
  BY DEF Init, Stream!Init
<1>2. IndInv /\ [Next]_vars => [Stream!Next]_(Stream!streamVars)
  <2> SUFFICES ASSUME IndInv, [Next]_vars
               PROVE  Stream!Next \/ UNCHANGED <<wrote, got, delivered, eof>>
    BY DEF Stream!streamVars
  <2>1. ASSUME NEW p \in Procs, NEW k \in Pipes, ReadByte(p, k)
        PROVE  Stream!Take(k)
    <3>1. ring[k] \in Ring /\ got[k] \in Nat /\ wrote[k] \in Nat
      BY DEF IndInv, TypeOK
    <3>2. got[k] < wrote[k] /\ head_byte(ring[k]) = got[k] + 1
      BY <2>1, <3>1, ReadHolds DEF IndInv, RingInv, ReadByte
    <3>3. QED
      BY <2>1, <3>2 DEF ReadByte, Stream!Take
  <2>2. ASSUME NEW p \in Procs, NEW k \in Pipes, ReadEof(p, k)
        PROVE  Stream!ReportEnd(k)
    BY <2>2, ReadEofStep DEF ReadEof, Stream!ReportEnd
  <2>3. ASSUME NEW p \in Procs, NEW k \in Pipes, WriteByte(p, k)
        PROVE  Stream!Put(k)
    <3>1. ring[k] \in Ring /\ got[k] \in Nat /\ wrote[k] \in Nat
      BY DEF IndInv, TypeOK
    <3>2. available_write(ring[k]) = RING_BUFFER_SIZE - (wrote[k] - got[k])
      BY <3>1, Availability DEF IndInv, RingInv
    <3>3. wrote[k] - got[k] < RING_BUFFER_SIZE
      BY <2>3, <3>1, <3>2, RingSizeAssumption DEF WriteByte
    <3>4. k \notin eof
      BY <2>3, WriteByteStep
    <3>5. QED
      BY <2>3, <3>3, <3>4 DEF WriteByte, Stream!Put
  <2>4. ASSUME NEW p \in Procs, InCall(p)
        PROVE  Stream!Next
    BY <2>1, <2>2, <2>3, <2>4 DEF InCall, Stream!Next
  <2>5. ASSUME NEW p \in Procs,
               \/ \E k \in Pipes : sys_pipe(p, k)
               \/ \E fd \in FD_ARGS : sys_dup(p, fd)
               \/ \E fd \in FD_ARGS : sys_close(p, fd)
               \/ \E c \in Procs : sys_fork(p, c)
               \/ sys_exit(p)
               \/ \E fd \in FD_ARGS, len \in 1 .. MAX_LEN : sys_read(p, fd, len)
               \/ \E fd \in FD_ARGS, len \in 1 .. MAX_LEN : sys_write(p, fd, len)
        PROVE  UNCHANGED <<wrote, got, delivered, eof>>
    BY <2>5 DEF sys_pipe, sys_dup, sys_close, sys_fork, sys_exit, sys_read,
                sys_write, ringVars
  <2>6. QED
    BY <2>4, <2>5 DEF Next, vars
<1>3. QED
  BY <1>1, <1>2, Invariance, PTL DEF Spec, ImplementsByteStream, Stream!Spec

\* An open descriptor changes only by being closed: every slot that sys_pipe
\* and sys_dup take from alloc_fd was free.
THEOREM NoClobber == Spec => OpenFdNeverClobbered
<1> DEFINE Kept == \A p \in Procs : \A fd \in Fd :
                     fds[p][fd] # None => fds'[p][fd] \in {fds[p][fd], None}
<1>1. TypeOK /\ [Next]_vars => [Kept]_vars
  <2> SUFFICES ASSUME TypeOK, [Next]_vars PROVE Kept
    OBVIOUS
  <2>1. ASSUME NEW p \in Procs, NEW k \in Pipes, sys_pipe(p, k) PROVE Kept
    <3>1. PICK rfd \in Fd, wfd \in Fd :
            /\ IsAllocFd(fds[p], rfd)
            /\ IsAllocFd([fds[p] EXCEPT ![rfd] = ReadEnd(k)], wfd)
            /\ fds' = [fds EXCEPT ![p] = [[fds[p] EXCEPT ![rfd] = ReadEnd(k)]
                                            EXCEPT ![wfd] = WriteEnd(k)]]
      BY <2>1 DEF sys_pipe
    <3>2. ReadEnd(k) # None
      BY DEF ReadEnd, None
    <3>3. fds[p][rfd] = None /\ fds[p][wfd] = None
      BY <3>1, <3>2 DEF IsAllocFd, Free, TypeOK
    <3>4. QED
      BY <3>1, <3>3 DEF TypeOK
  <2>2. ASSUME NEW p \in Procs, NEW fd \in FD_ARGS, sys_dup(p, fd) PROVE Kept
    BY <2>2 DEF sys_dup, IsAllocFd, Free, TypeOK
  <2>3. ASSUME NEW p \in Procs, NEW fd \in FD_ARGS, sys_close(p, fd) PROVE Kept
    BY <2>3 DEF sys_close, TypeOK
  <2>4. ASSUME NEW p \in Procs, NEW c \in Procs, sys_fork(p, c) PROVE Kept
    BY <2>4 DEF sys_fork, TypeOK
  <2>5. ASSUME NEW p \in Procs, sys_exit(p) PROVE Kept
    BY <2>5 DEF sys_exit, TypeOK
  <2>6. CASE UNCHANGED fds
    BY <2>6
  <2>7. ASSUME NEW p \in Procs,
               \/ \E fd \in FD_ARGS, len \in 1 .. MAX_LEN : sys_read(p, fd, len)
               \/ \E fd \in FD_ARGS, len \in 1 .. MAX_LEN : sys_write(p, fd, len)
               \/ InCall(p)
        PROVE  UNCHANGED fds
    BY <2>7 DEF sys_read, sys_write, InCall, ReadByte, ReadEof, WriteByte
  <2>8. QED
    BY <2>1, <2>2, <2>3, <2>4, <2>5, <2>6, <2>7 DEF Next, vars
<1>2. QED
  BY <1>1, TypeCorrect, PTL DEF Spec, OpenFdNeverClobbered

=============================================================================
