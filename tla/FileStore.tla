----------------------------- MODULE FileStore -----------------------------
(***************************************************************************)
(* What easy-fs promises to its callers: on every device a set of named    *)
(* files, each a sequence of bytes.  A write behind the end of a file      *)
(* fills the gap with zeros.  Looking up, reading, a full cache and a      *)
(* restart between two operations change nothing.                          *)
(***************************************************************************)
EXTENDS Integers, Sequences

CONSTANTS Devices, Names,
          Requests,      \* the writes: [off, data]
          Zero

VARIABLE files           \* files[d][name]: the bytes of a file on device d

Init == files = [d \in Devices |-> << >>]

Create(d, n) ==
  /\ n \notin DOMAIN files[d]
  /\ files' = [files EXCEPT ![d] = [m \in DOMAIN @ \cup {n} |-> IF m = n THEN << >> ELSE @[m]]]

\* The file after data is put behind its first off bytes.
Overwritten(file, off, data) ==
  LET end == off + Len(data)
  IN  [i \in 1 .. (IF end > Len(file) THEN end ELSE Len(file)) |->
         IF i \in off + 1 .. end THEN data[i - off]
         ELSE IF i <= Len(file) THEN file[i] ELSE Zero]

Write(d, n, r) ==
  /\ n \in DOMAIN files[d]
  /\ files' = [files EXCEPT ![d][n] = Overwritten(@, r.off, r.data)]

Clear(d, n) ==
  /\ n \in DOMAIN files[d]
  /\ files' = [files EXCEPT ![d][n] = << >>]

Next ==
  \E d \in Devices, n \in Names :
    \/ Create(d, n) \/ Clear(d, n)
    \/ \E r \in Requests : Write(d, n, r)

Spec == Init /\ [][Next]_files
=============================================================================
