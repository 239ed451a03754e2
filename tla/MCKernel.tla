------------------------------ MODULE MCKernel ------------------------------
(***************************************************************************)
(* Kernel with 7 control blocks: init, a shell, up to four processes of    *)
(* its own and the shell that follows it.  The ring holds 2 bytes, so a    *)
(* source of 4 blocks on it, wraps it and is read in chunks of 3 that end  *)
(* in the middle.                                                          *)
(***************************************************************************)
EXTENDS Kernel

CONSTANTS init, t1, t2, t3, t4, t5, t6, k1, k2, k3

MCPipeSeq == <<k1, k2, k3>>
MCPlans ==
  [cmd : {"pipeline", "background"}, n : 1 .. 4, bytes : 0 .. 4]
    \cup [cmd : {"pipe_test", "usertests"}, n : {0}, bytes : 1 .. 4]
    \cup [cmd : {"forktree"}, n : 1 .. 4, bytes : {0}]

=============================================================================
