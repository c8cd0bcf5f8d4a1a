---------------------------- MODULE MCPosixFiles ----------------------------
(***************************************************************************)
(* PosixFiles for TLC.  Threads are interchangeable.                       *)
(***************************************************************************)
EXTENDS PosixFiles, TLC

Symmetry == Permutations(Thread)
=============================================================================
