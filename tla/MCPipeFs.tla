------------------------------ MODULE MCPipeFs ------------------------------
(***************************************************************************)
(* Small instances of PipeFs.  A ring of 2 and 3 bytes: it fills, wraps    *)
(* and drains.  5 descriptors: the three of the UART and one pipe, so that *)
(* dup needs a close first and meets a full table.                         *)
(***************************************************************************)
EXTENDS PipeFs

=============================================================================
