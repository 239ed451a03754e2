--------------------------- MODULE PipeRingBuffer ---------------------------
(***************************************************************************)
(* The pipe's ring buffer, labs/phase_6_shell/src/fs/pipe.rs.              *)
(*                                                                         *)
(* The operators are the methods of PipeRingBuffer as functions from a     *)
(* ring to a ring.  A byte is its ordinal in the stream (1 for the first   *)
(* byte ever written, 2 for the next, ...): the code never looks at the    *)
(* value of a byte, so the ordinals tell apart everything a property about *)
(* order, loss or duplication needs.  0 is the value of a cell that was    *)
(* never written.                                                          *)
(***************************************************************************)
EXTENDS Integers

CONSTANT RING_BUFFER_SIZE    \* 2048 in the code

ASSUME RingSizeAssumption == RING_BUFFER_SIZE \in Nat \ {0}

Status == {"Full", "Empty", "Normal"}
Cell   == 0 .. RING_BUFFER_SIZE - 1

Ring == [arr : [Cell -> Nat], head : Cell, tail : Cell, status : Status]

new == [arr    |-> [c \in Cell |-> 0],
        head   |-> 0,
        tail   |-> 0,
        status |-> "Empty"]

\* PipeRingBuffer::write_byte.
write_byte(r, b) ==
  LET tail == (r.tail + 1) % RING_BUFFER_SIZE
  IN  [r EXCEPT !.arr[r.tail] = b,
                !.tail        = tail,
                !.status      = IF tail = r.head THEN "Full" ELSE "Normal"]

\* The byte PipeRingBuffer::read_byte returns.
head_byte(r) == r.arr[r.head]

\* A plausible bug: the Empty flag is forgotten when the reader catches up.
read_byte_never_empty(r) ==
  [r EXCEPT !.head   = (r.head + 1) % RING_BUFFER_SIZE,
            !.status = "Normal"]

\* PipeRingBuffer::read_byte.
read_byte(r) ==
  LET head == (r.head + 1) % RING_BUFFER_SIZE
  IN  [r EXCEPT !.head   = head,
                !.status = IF head = r.tail THEN "Empty" ELSE "Normal"]

\* PipeRingBuffer::available_read and available_write.  head = tail is
\* ambiguous; status tells an empty ring from a full one.
available_read(r) ==
  IF r.status = "Empty" THEN 0
  ELSE IF r.tail > r.head THEN r.tail - r.head
       ELSE RING_BUFFER_SIZE - r.head + r.tail

available_write(r) ==
  IF r.status = "Full" THEN 0 ELSE RING_BUFFER_SIZE - available_read(r)

-----------------------------------------------------------------------------
\* Ring r holds exactly the bytes g+1 .. w of the stream, oldest at head.
Wrap(x) == IF x < RING_BUFFER_SIZE THEN x ELSE x - RING_BUFFER_SIZE

Holds(r, g, w) ==
  /\ g <= w /\ w <= g + RING_BUFFER_SIZE
  /\ r.tail = Wrap(r.head + (w - g))
  /\ r.status = "Empty" <=> w = g
  /\ r.status = "Full" <=> w = g + RING_BUFFER_SIZE
  /\ \A i \in 0 .. w - g - 1 : r.arr[Wrap(r.head + i)] = g + i + 1

=============================================================================
