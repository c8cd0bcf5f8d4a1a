------------------------------- MODULE Kalloc -------------------------------
(***************************************************************************)
(* The memory allocator of Mach's bootstrap task and default pager         *)
(* (mach/bootstrap/kalloc.c).  Blocks smaller than a page have sizes that  *)
(* are powers of two and are kept on free lists; new ones are cut from an  *)
(* area that grows by whole pages.  Memory is counted in units of MINSIZE. *)
(*                                                                         *)
(* What is done under a spin lock is one step.  The lock is given up while *)
(* the area's new pages are mapped, so several threads may map pages for   *)
(* it at once.  The order of a free list does not matter here.             *)
(***************************************************************************)
EXTENDS Integers, FiniteSets, FiniteSetsExt

CONSTANTS
  Caller,       \* threads that call kalloc and kfree
  Requests,     \* sizes they ask for
  PageSize,     \* vm_page_size, at most 16 Kbytes: kalloc_max
  Top           \* bound: addresses of the task are below it

ASSUME KallocAssumption ==
  /\ PageSize \in Nat \ {0} /\ Requests \subseteq Nat \ {0} /\ Top \in Nat

VARIABLES
  mapped,                   \* the addresses the task has memory at
  live, kfree_list,         \* blocks in use, and those on the free lists
  kalloc_next_space, kalloc_end_of_space, kalloc_wasted_space,
  where,                    \* where a thread is
  want, new_space           \* its allocsize and the pages it has mapped

areaVars == <<kalloc_next_space, kalloc_end_of_space, kalloc_wasted_space>>
kallocVars == <<mapped, live, kfree_list, areaVars, where, want, new_space>>

Block(a, n) == [addr |-> a, size |-> n]
Cells(b) == b.addr .. (b.addr + b.size - 1)
Nothing == Block(0, 0)
Area == kalloc_next_space .. (kalloc_end_of_space - 1)

round_page(n) == PageSize * ((n + PageSize - 1) \div PageSize)

\* The least power of two that is large enough, below a page; vm_allocate rounds
\* up to whole pages.
Allocsize(n) == IF n < PageSize THEN Min({s \in {2^k : k \in 0 .. n} : n <= s}) ELSE n
Small(n) == Allocsize(n) < PageSize
ASSUME AllocsizeAssumption ==         \* the doubling ends
  \A n \in Requests : Allocsize(n) \in Nat /\ n <= Allocsize(n)

BlockSize(n) == IF Small(n) THEN Allocsize(n) ELSE round_page(n)

kalloc_init ==
  /\ mapped = {} /\ live = {} /\ kfree_list = {}
  /\ kalloc_next_space = PageSize /\ kalloc_end_of_space = PageSize
  /\ kalloc_wasted_space = 0
  /\ where = [t \in Caller |-> "idle"] /\ want = [t \in Caller |-> 0]
  /\ new_space = [t \in Caller |-> Nothing]

\* vm_map or vm_allocate anywhere: pages that were free.
vm_map(b) ==
  /\ b.addr % PageSize = 0 /\ Cells(b) \subseteq PageSize .. (Top - 1)
  /\ Cells(b) \cap mapped = {}
  /\ mapped' = mapped \cup Cells(b)

Continue(t, label) == where' = [where EXCEPT ![t] = label]
Return(t) ==
  /\ Continue(t, "idle")
  /\ want' = [want EXCEPT ![t] = 0] /\ new_space' = [new_space EXCEPT ![t] = Nothing]

---------------------------------------------------------------------------
\* kalloc of a small block: from the free list, or kget_space.
kalloc(t, n) ==
  /\ where[t] = "idle" /\ Small(n)
  /\ \/ \E b \in kfree_list :
          /\ b.size = Allocsize(n)
          /\ kfree_list' = kfree_list \ {b} /\ live' = live \cup {b}
          /\ UNCHANGED <<where, want>>
     \/ /\ \A b \in kfree_list : b.size # Allocsize(n)
        /\ Continue(t, "get") /\ want' = [want EXCEPT ![t] = Allocsize(n)]
        /\ UNCHANGED <<kfree_list, live>>
  /\ UNCHANGED <<mapped, areaVars, new_space>>

\* kalloc of a large one.  A failure returns 0 and changes nothing.
kalloc_large(t, n) ==
  /\ where[t] = "idle" /\ ~Small(n)
  /\ \E a \in PageSize .. Top :
       /\ vm_map(Block(a, BlockSize(n)))
       /\ live' = live \cup {Block(a, BlockSize(n))}
  /\ UNCHANGED <<kfree_list, areaVars, where, want, new_space>>

Fits(t) == kalloc_next_space + want[t] <= kalloc_end_of_space

\* kget_space: the area is too small and the thread has no pages yet.
NoSpace(t) ==
  /\ where[t] = "get" /\ ~Fits(t) /\ new_space[t] = Nothing
  /\ Continue(t, "map")
  /\ UNCHANGED <<mapped, live, kfree_list, areaVars, want, new_space>>

MapSpace(t) ==
  /\ where[t] = "map"
  /\ \/ \E a \in PageSize .. Top :
          /\ vm_map(Block(a, round_page(want[t])))
          /\ new_space' = [new_space EXCEPT ![t] = Block(a, round_page(want[t]))]
          /\ Continue(t, "get")
          /\ UNCHANGED want
     \/ Return(t) /\ UNCHANGED mapped
  /\ UNCHANGED <<live, kfree_list, areaVars>>

\* kget_space: the area is still too small; the thread's pages continue it or
\* replace it, and the block is their first part or follows the last one.
\* Fault: new_space keeps the pages that are in the area now.
AddSpace_Kept(t) ==
  LET new == new_space[t]
      joined == new.addr = kalloc_end_of_space
      from == IF joined THEN kalloc_next_space ELSE new.addr
  IN /\ where[t] = "get" /\ ~Fits(t) /\ new # Nothing
     /\ kalloc_wasted_space' = kalloc_wasted_space
          + (IF joined THEN 0 ELSE kalloc_end_of_space - kalloc_next_space)
     /\ kalloc_end_of_space' = new.addr + new.size
     /\ live' = live \cup {Block(from, want[t])}
     /\ kalloc_next_space' = from + want[t]
     /\ Continue(t, "unmap")
     /\ UNCHANGED <<mapped, kfree_list, want, new_space>>

AddSpace(t) ==
  LET new == new_space[t]
      joined == new.addr = kalloc_end_of_space
      from == IF joined THEN kalloc_next_space ELSE new.addr
  IN /\ where[t] = "get" /\ ~Fits(t) /\ new # Nothing
     /\ kalloc_wasted_space' = kalloc_wasted_space
          + (IF joined THEN 0 ELSE kalloc_end_of_space - kalloc_next_space)
     /\ kalloc_end_of_space' = new.addr + new.size
     /\ live' = live \cup {Block(from, want[t])}
     /\ kalloc_next_space' = from + want[t]
     /\ Return(t)
     /\ UNCHANGED <<mapped, kfree_list>>

\* kget_space: the block fits; another thread may have made the room, then the
\* thread's own pages are not needed.
\* Fault: they are forgotten.
CutSpace_Forgets(t) ==
  /\ where[t] = "get" /\ Fits(t)
  /\ live' = live \cup {Block(kalloc_next_space, want[t])}
  /\ kalloc_next_space' = kalloc_next_space + want[t]
  /\ Return(t)
  /\ UNCHANGED <<mapped, kfree_list, kalloc_end_of_space, kalloc_wasted_space>>

CutSpace(t) ==
  /\ where[t] = "get" /\ Fits(t)
  /\ live' = live \cup {Block(kalloc_next_space, want[t])}
  /\ kalloc_next_space' = kalloc_next_space + want[t]
  /\ IF new_space[t] = Nothing THEN Return(t)
     ELSE Continue(t, "unmap") /\ UNCHANGED <<want, new_space>>
  /\ UNCHANGED <<mapped, kfree_list, kalloc_end_of_space, kalloc_wasted_space>>

Unmap(t) ==
  /\ where[t] = "unmap"
  /\ mapped' = mapped \ Cells(new_space[t])
  /\ Return(t)
  /\ UNCHANGED <<live, kfree_list, areaVars>>

\* A block is freed with the size it was asked for with.
kfree(b) ==
  /\ live' = live \ {b}
  /\ IF b.size < PageSize THEN kfree_list' = kfree_list \cup {b} /\ UNCHANGED mapped
                          ELSE mapped' = mapped \ Cells(b) /\ UNCHANGED kfree_list
  /\ UNCHANGED <<areaVars, where, want, new_space>>

---------------------------------------------------------------------------
KallocNext ==
  \/ \E t \in Caller :
       \/ \E n \in Requests : kalloc(t, n) \/ kalloc_large(t, n)
       \/ NoSpace(t) \/ MapSpace(t) \/ AddSpace(t) \/ CutSpace(t) \/ Unmap(t)
  \/ \E b \in live : kfree(b)

KallocSpec == kalloc_init /\ [][KallocNext]_kallocVars

---------------------------------------------------------------------------
Apart(S, T) == S \cap T = {}

\* No memory is given out twice, and none that is not there: the blocks in use
\* and on the free lists, the area (kalloc.c:117-169) and the pages that threads
\* have just mapped for it lie apart from each other in mapped memory, however
\* the calls of kget_space overlap.
BlocksDisjoint ==
  /\ Apart(live, kfree_list)
  /\ \A b, c \in live \cup kfree_list : b # c => Apart(Cells(b), Cells(c))
  /\ \A b \in live \cup kfree_list :
       /\ Cells(b) \subseteq mapped /\ Apart(Cells(b), Area)
       /\ \A t \in Caller : Apart(Cells(b), Cells(new_space[t]))
  /\ Area \subseteq mapped
  /\ \A t \in Caller :
       /\ Cells(new_space[t]) \subseteq mapped /\ Apart(Cells(new_space[t]), Area)
       /\ \A u \in Caller : t # u => Apart(Cells(new_space[t]), Cells(new_space[u]))

\* Nothing is lost but what kalloc_wasted_space counts (kalloc.c:150-156): it is
\* the size of the mapped memory that is in no block, not in the area and not
\* among the pages that threads have mapped for it.
Kept ==
  (UNION {Cells(b) : b \in live \cup kfree_list}) \cup Area
    \cup (UNION {Cells(new_space[t]) : t \in Caller})
SpaceAccounted == Cardinality(mapped \ Kept) = kalloc_wasted_space
=============================================================================
