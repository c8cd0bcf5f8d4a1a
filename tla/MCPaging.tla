------------------------------ MODULE MCPaging ------------------------------
(***************************************************************************)
(* The default pager's paging space and its memory allocator for TLC.      *)
(* They share no state: a behaviour is one of PagingSpace or of Kalloc.    *)
(***************************************************************************)
EXTENDS PagingSpace, Kalloc, TLC

VARIABLE part

PagingInit == SpaceInit /\ kalloc_init /\ part \in {"space", "kalloc"}

PagingNext ==
  /\ UNCHANGED part
  /\ \/ part = "space" /\ SpaceNext /\ UNCHANGED kallocVars
     \/ part = "kalloc" /\ KallocNext /\ UNCHANGED spaceVars

PagingSpec == PagingInit /\ [][PagingNext]_<<spaceVars, kallocVars, part>>

\* A partition of two blocks and one of a single block.
TwoAndOne == 0 :> 2 @@ 1 :> 1

\* The threads that serve the kernel are alike, and so are those that allocate.
Symmetry == Permutations(Worker) \cup Permutations(Caller)
=============================================================================
