---------------------------- MODULE MCPagerPort ----------------------------
(***************************************************************************)
(* PagerPort for TLC.                                                      *)
(***************************************************************************)
EXTENDS PagerPort, TLC

\* The threads that serve a port are alike.
Symmetry == Permutations(Thread)
=============================================================================
