------------------------------ MODULE MCLazyFs ------------------------------
(***************************************************************************)
(* LazyFs for TLC.  A shell launches the kernel with the standard          *)
(* descriptors open and perhaps some more.                                 *)
(***************************************************************************)
EXTENDS LazyFs

\* The lowest free descriptor, which the backing file gets, differs between
\* launches.
AnyLaunch == {{0, 1, 2} \cup S : S \in SUBSET (3 .. MaxFd)}
=============================================================================
