----------------------------- MODULE ByteStream -----------------------------
(***************************************************************************)
(* What a pipe promises its users, without rings, descriptors or           *)
(* processes: a bounded stream of bytes, numbered from 1 in the order they *)
(* are written, whose end, once reported, is final.                        *)
(***************************************************************************)
EXTENDS Integers

CONSTANTS Pipes, CAPACITY

VARIABLES wrote,      \* bytes put into each stream
          got,        \* bytes taken out of each stream
          delivered,  \* the byte taken out last
          eof         \* the streams whose end was reported

streamVars == <<wrote, got, delivered, eof>>

Init ==
  /\ wrote = [k \in Pipes |-> 0]
  /\ got = [k \in Pipes |-> 0]
  /\ delivered = [k \in Pipes |-> 0]
  /\ eof = {}

Put(k) ==
  /\ k \notin eof
  /\ wrote[k] - got[k] < CAPACITY
  /\ wrote' = [wrote EXCEPT ![k] = @ + 1]
  /\ UNCHANGED <<got, delivered, eof>>

Take(k) ==
  /\ got[k] < wrote[k]
  /\ got' = [got EXCEPT ![k] = @ + 1]
  /\ delivered' = [delivered EXCEPT ![k] = got[k] + 1]
  /\ UNCHANGED <<wrote, eof>>

ReportEnd(k) ==
  /\ got[k] = wrote[k]
  /\ eof' = eof \cup {k}
  /\ UNCHANGED <<wrote, got, delivered>>

Next == \E k \in Pipes : Put(k) \/ Take(k) \/ ReportEnd(k)

Spec == Init /\ [][Next]_streamVars

=============================================================================
