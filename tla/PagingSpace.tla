---------------------------- MODULE PagingSpace ----------------------------
(***************************************************************************)
(* Where Mach's default pager keeps the pages (mach/bootstrap/             *)
(* default_pager.c, up to destroy_paging_partition): partitions with a     *)
(* bitmap of blocks, and for every paging object a one- or two-level map   *)
(* from pages to blocks.  The threads that serve the kernel read and write *)
(* pages; another thread takes a partition out of use and moves its pages  *)
(* elsewhere.                                                              *)
(*                                                                         *)
(* A mutex that is held across another one is a variable with its holder;  *)
(* a section that takes no further lock is one step.  An object's pages    *)
(* are ordered by PagerPort: no two requests work on a page at once.       *)
(***************************************************************************)
EXTENDS Integers, FiniteSets, FiniteSetsExt, Functions

CONSTANTS
  Worker,           \* threads that serve the kernel
  Pager,            \* paging objects
  Offset,           \* pages of an object that are used
  Capacity,         \* total_size of the partition at each index of the list
  PAGEMAP_ENTRIES,
  MaxDoubled,       \* max_doubled_size, in pages
  Sizes,            \* sizes objects are created with, in pages
  Destroyer,        \* the thread that runs destroy_paging_partition
  Nobody,
  Late              \* TRUE: a block may be moved while a request is using it

ASSUME PagingSpaceAssumption ==
  /\ Late \in BOOLEAN
  /\ Offset \subseteq Nat /\ PAGEMAP_ENTRIES \in Nat \ {0} /\ MaxDoubled \in Nat
  /\ Sizes \subseteq Nat \ {0}
  /\ Destroyer \notin Worker /\ Nobody \notin Worker \cup {Destroyer}
  /\ \A i \in DOMAIN Capacity : Capacity[i] \in Nat

Index == DOMAIN Capacity
Actor == Worker \cup {Destroyer}
INVALID == -1                             \* P_INDEX_INVALID
NO_BLOCK == <<INVALID, 0>>
Blocks(i) == 0..Capacity[i] - 1
Unwritten == -1
Undefined == -2

VARIABLES
  partition,      \* struct part: is it there, is it going away, which blocks are taken
  disk,           \* what is in a block: an object, a page of it and a version
  list_lock,      \* all_partitions.lock
  p_lock,         \* the lock of each partition
  pagers,         \* all_pagers: the objects in the list
  map, size, cur_partition, dpager_lock,     \* struct dpager
  latest,         \* history: the version a page was written with last
  at, op          \* where a thread is, and its locals

partVars == <<partition, disk>>
lockVars == <<list_lock, p_lock>>
mapVars == <<map, size, cur_partition>>
spaceVars == <<partVars, lockVars, pagers, mapVars, dpager_lock, latest, at, op>>

NoChoice == [i |-> 0, need |-> 0, avoid |-> INVALID, ret |-> "idle"]
NoOp == [pager |-> Nobody, page |-> 0, block |-> NO_BLOCK, release |-> 0, lock_it |-> 1,
         choice |-> NoChoice, todo |-> {}]

Free(i) == Capacity[i] - Cardinality(partition[i].used)
Fresh == [here |-> 1, going_away |-> 0, used |-> {}]
Gone == [here |-> 0, going_away |-> 0, used |-> {}]

---------------------------------------------------------------------------
(* The block map of an object: direct, or blocks of direct maps            *)

Entries(n) == 0..n - 1
NoBlocks(n) == [p \in Entries(n) |-> NO_BLOCK]
Null == <<>>
Indirect(n) == n > PAGEMAP_ENTRIES                               \* INDIRECT_PAGEMAP
IndirectEntries(n) == (n - 1) \div PAGEMAP_ENTRIES + 1
RoundUp(n) == IndirectEntries(n) * PAGEMAP_ENTRIES               \* ROUNDUP_TO_PAGEMAP

\* The least of from, 2 from, 4 from ... that is n or more.
Doubled(from, n) == from * Min({d \in {2^k : k \in 0..n} : from * d >= n})
NewSize(from, n) == IF n <= MaxDoubled THEN Doubled(from, n) ELSE RoundUp(n)

pager_alloc(n) ==
  IF Indirect(n) THEN [k \in Entries(IndirectEntries(n)) |-> Null] ELSE NoBlocks(n)

\* Fault: of a direct map that becomes indirect nothing is kept.
pager_extend_Forgets(m, old, new) ==
  IF Indirect(old) THEN [k \in Entries(IndirectEntries(new)) |->
                           IF k \in DOMAIN m THEN m[k] ELSE Null]
  ELSE IF Indirect(new) THEN [k \in Entries(IndirectEntries(new)) |-> Null]
  ELSE [p \in Entries(new) |-> IF p \in DOMAIN m THEN m[p] ELSE NO_BLOCK]

pager_extend(m, old, new) ==
  LET copied(k) == k \in DOMAIN m
  IN CASE Indirect(old) -> [k \in Entries(IndirectEntries(new)) |->
                              IF copied(k) THEN m[k] ELSE Null]
       [] ~Indirect(old) /\ Indirect(new) ->
            [k \in Entries(IndirectEntries(new)) |->
               IF k = 0 THEN [p \in Entries(PAGEMAP_ENTRIES) |->
                                IF copied(p) THEN m[p] ELSE NO_BLOCK]
                        ELSE Null]
       [] OTHER -> [p \in Entries(new) |-> IF copied(p) THEN m[p] ELSE NO_BLOCK]

\* The block of a page.
Entry(m, n, p) ==
  IF ~Indirect(n) THEN m[p]
  ELSE IF m[p \div PAGEMAP_ENTRIES] = Null THEN NO_BLOCK
  ELSE m[p \div PAGEMAP_ENTRIES][p % PAGEMAP_ENTRIES]

\* The map with a second-level block for page p.
WithEntry(m, n, p) ==
  IF Indirect(n) /\ m[p \div PAGEMAP_ENTRIES] = Null
  THEN [m EXCEPT ![p \div PAGEMAP_ENTRIES] = NoBlocks(PAGEMAP_ENTRIES)] ELSE m

SetEntry(m, n, p, b) ==
  IF Indirect(n) THEN [m EXCEPT ![p \div PAGEMAP_ENTRIES][p % PAGEMAP_ENTRIES] = b]
  ELSE [m EXCEPT ![p] = b]

BlockOf(g, p) == IF p < size[g] THEN Entry(map[g], size[g], p) ELSE NO_BLOCK
PagesIn(g, i) == {p \in Offset : BlockOf(g, p)[1] = i}
PagesOf(g) == {p \in Offset : BlockOf(g, p) # NO_BLOCK}

SpaceInit ==
  /\ partition = [i \in Index |-> Fresh]
  /\ disk = [b \in UNION {{i} \X Blocks(i) : i \in Index} |-> <<>>]
  /\ list_lock = Nobody /\ p_lock = [i \in Index |-> Nobody]
  /\ pagers = {}
  /\ map = [g \in Pager |-> <<>>] /\ size = [g \in Pager |-> 0]
  /\ cur_partition = [g \in Pager |-> INVALID]
  /\ dpager_lock = [g \in Pager |-> Nobody]
  /\ latest = [g \in Pager |-> [p \in Offset |-> Unwritten]]
  /\ at = [a \in Actor |-> "idle"] /\ op = [a \in Actor |-> NoOp]

---------------------------------------------------------------------------
Unusable(i) == i = INVALID \/ partition[i].here = 0 \/ partition[i].going_away = 1
Step(a, from, to) == at[a] = from /\ at' = [at EXCEPT ![a] = to]
Finish(a) == at' = [at EXCEPT ![a] = "idle"] /\ op' = [op EXCEPT ![a] = NoOp]
MyPager(a) == op[a].pager
MyPage(a) == op[a].page

\* all_pagers.lock is held by destroy_paging_partition while it goes through
\* the list.
ListIsFree == op[Destroyer].todo = {} /\ at[Destroyer] \notin {"next", "pages"}

\* choose_partition(need, avoid), to go on at ret.
Choose(a, need, avoid, ret) ==
  /\ at' = [at EXCEPT ![a] = "choose"]
  /\ op' = [op EXCEPT ![a].choice = [i |-> 0, need |-> need, avoid |-> avoid, ret |-> ret]]

choose_partition_lock(a) ==
  /\ Step(a, "choose", "choosing")
  /\ list_lock = Nobody /\ list_lock' = a
  /\ UNCHANGED <<partVars, p_lock, pagers, mapVars, dpager_lock, latest, op>>

\* One turn of the loop.  The partition is returned locked unless there is none
\* to avoid.
choose_partition(a) ==
  LET i == op[a].choice.i
      skip == i = op[a].choice.avoid \/ Unusable(i)
      Return(r) == /\ op' = [op EXCEPT ![a].choice.i = r]
                   /\ at' = [at EXCEPT ![a] = op[a].choice.ret]
                   /\ list_lock' = Nobody
  IN /\ at[a] = "choosing"
     /\ \/ i \notin Index /\ Return(INVALID) /\ UNCHANGED p_lock
        \/ /\ i \in Index
           /\ skip \/ (p_lock[i] = Nobody /\ Free(i) < op[a].choice.need)
           /\ op' = [op EXCEPT ![a].choice.i = i + 1]
           /\ UNCHANGED <<at, list_lock, p_lock>>
        \/ /\ i \in Index /\ ~skip
           /\ p_lock[i] = Nobody /\ Free(i) >= op[a].choice.need
           /\ Return(i)
           /\ p_lock' = [p_lock EXCEPT ![i] = IF op[a].choice.avoid = INVALID THEN @ ELSE a]
     /\ UNCHANGED <<partVars, pagers, mapVars, dpager_lock, latest>>

---------------------------------------------------------------------------
(* Objects                                                                 *)

Unused(g) == g \notin pagers /\ \A a \in Actor : op[a].pager # g

\* pager_port_alloc
Create(w, g, n) ==
  /\ at[w] = "idle" /\ Unused(g)
  /\ at' = [at EXCEPT ![w] = "choose"]
  /\ op' = [op EXCEPT ![w] = [NoOp EXCEPT !.pager = g, !.page = n, !.choice.need = n,
                                    !.choice.ret = "create"]]
  /\ UNCHANGED <<partVars, lockVars, pagers, mapVars, dpager_lock, latest>>

\* None is big enough: any, or none at all.
CreateAny(w) ==
  /\ at[w] = "create" /\ op[w].choice.i = INVALID
  /\ Choose(w, 0, INVALID, "create_any")
  /\ UNCHANGED <<partVars, lockVars, pagers, mapVars, dpager_lock, latest>>

\* pager_alloc and pager_port_list_insert
Created(w) ==
  LET g == MyPager(w)
  IN /\ at[w] \in {"create", "create_any"} /\ (op[w].choice.i # INVALID \/ at[w] = "create_any")
     /\ ListIsFree
     /\ cur_partition' = [cur_partition EXCEPT ![g] = op[w].choice.i]
     /\ size' = [size EXCEPT ![g] = NewSize(1, MyPage(w))]
     /\ map' = [map EXCEPT ![g] = pager_alloc(size'[g])]
     /\ pagers' = pagers \cup {g}
     /\ Finish(w)
     /\ UNCHANGED <<partVars, lockVars, dpager_lock, latest>>

\* default_pager_no_senders: pager_port_list_delete, then pager_dealloc.
DeleteObject(w, g) ==
  /\ at[w] = "idle" /\ g \in pagers /\ ListIsFree
  /\ \A a \in Worker : op[a].pager # g
  /\ pagers' = pagers \ {g}
  /\ at' = [at EXCEPT ![w] = "delete"] /\ op' = [op EXCEPT ![w].pager = g]
  /\ UNCHANGED <<partVars, lockVars, mapVars, dpager_lock, latest>>

\* pager_dealloc_page: what is in the block no longer matters.  A partition that
\* is not there is a null pointer.
Dealloc(b) ==
  /\ p_lock[b[1]] = Nobody
  /\ partition' = [partition EXCEPT ![b[1]].used = @ \ {b[2]}]
  /\ disk' = [disk EXCEPT ![b] = <<>>]
Fault(a) == at' = [at EXCEPT ![a] = "fault"]
Missing(b) == partition[b[1]].here = 0

pager_dealloc(w) ==
  LET g == MyPager(w)
      p == Min(PagesOf(g))
  IN /\ at[w] = "delete"
     /\ \/ /\ PagesOf(g) # {}
           /\ IF Missing(BlockOf(g, p)) THEN Fault(w) /\ UNCHANGED <<partVars, map, latest>>
              ELSE /\ Dealloc(BlockOf(g, p))
                   /\ map' = [map EXCEPT ![g] = SetEntry(@, size[g], p, NO_BLOCK)]
                   /\ latest' = [latest EXCEPT ![g][p] = Unwritten]
                   /\ UNCHANGED at
           /\ UNCHANGED <<size, cur_partition, op>>
        \/ /\ PagesOf(g) = {}
           /\ map' = [map EXCEPT ![g] = <<>>] /\ size' = [size EXCEPT ![g] = 0]
           /\ cur_partition' = [cur_partition EXCEPT ![g] = INVALID]
           /\ Finish(w)
           /\ UNCHANGED <<partVars, latest>>
     /\ UNCHANGED <<lockVars, pagers, dpager_lock>>

---------------------------------------------------------------------------
(* default_write                                                           *)

\* A request of the kernel for a page nobody else is working on.
Request(w, g, p, r, label) ==
  /\ at[w] = "idle" /\ g \in pagers
  /\ \A a \in Worker : op[a].pager = g => op[a].page # p /\ at[a] # "delete"
  /\ at' = [at EXCEPT ![w] = label]
  /\ op' = [op EXCEPT ![w] = [NoOp EXCEPT !.pager = g, !.page = p, !.release = r]]
  /\ UNCHANGED <<partVars, lockVars, pagers, mapVars, dpager_lock, latest>>

\* pager_write_offset takes the object's lock.  An object without a partition
\* tries to find one for all of it, then one for a page.
pager_write_offset(w) ==
  LET g == MyPager(w)
  IN /\ at[w] = "write" /\ dpager_lock[g] = Nobody
     /\ dpager_lock' = [dpager_lock EXCEPT ![g] = w]
     /\ IF cur_partition[g] # INVALID THEN Step(w, "write", "grow") /\ UNCHANGED op
        ELSE Choose(w, Max({MyPage(w), size[g]}), INVALID, "attach")
     /\ UNCHANGED <<partVars, lockVars, pagers, mapVars, latest>>

\* out: with no block, PAGER_ERROR.
Fail(w) == dpager_lock' = [dpager_lock EXCEPT ![MyPager(w)] = Nobody] /\ Finish(w)

Attach(w) ==
  LET g == MyPager(w)
  IN /\ at[w] \in {"attach", "attach_any"}
     /\ \/ /\ op[w].choice.i # INVALID
           /\ cur_partition' = [cur_partition EXCEPT ![g] = op[w].choice.i]
           /\ at' = [at EXCEPT ![w] = "grow"] /\ op' = [op EXCEPT ![w].choice = NoChoice]
           /\ UNCHANGED dpager_lock
        \/ /\ op[w].choice.i = INVALID /\ at[w] = "attach"
           /\ Choose(w, 1, INVALID, "attach_any")
           /\ UNCHANGED <<cur_partition, dpager_lock>>
        \/ /\ op[w].choice.i = INVALID /\ at[w] = "attach_any"
           /\ Fail(w)
           /\ UNCHANGED cur_partition
     /\ UNCHANGED <<partVars, lockVars, pagers, map, size, latest>>

\* The loop that extends the map, and the look at the page's entry.
Grow(w) ==
  LET g == MyPager(w)
      p == MyPage(w)
      m == WithEntry(map[g], size[g], p)
      b == Entry(m, size[g], p)
  IN /\ at[w] = "grow" /\ dpager_lock[g] \in {Nobody, w}
     /\ \/ /\ p >= size[g]
           /\ dpager_lock' = [dpager_lock EXCEPT ![g] = Nobody]
           /\ Step(w, "grow", "extend")
           /\ UNCHANGED <<map, op>>
        \/ /\ p < size[g] /\ b # NO_BLOCK
           /\ map' = [map EXCEPT ![g] = m]
           /\ op' = [op EXCEPT ![w].block = b]
           /\ dpager_lock' = [dpager_lock EXCEPT ![g] = Nobody]
           /\ Step(w, "grow", "device_write")
        \/ /\ p < size[g] /\ b = NO_BLOCK
           /\ map' = [map EXCEPT ![g] = m]
           /\ dpager_lock' = [dpager_lock EXCEPT ![g] = w]
           /\ Step(w, "grow", "alloc_page")
           /\ UNCHANGED op
     /\ UNCHANGED <<partVars, lockVars, pagers, size, cur_partition, latest>>

Extend(w) ==
  LET g == MyPager(w)
      new == NewSize(size[g], MyPage(w) + 1)
  IN /\ at[w] = "extend" /\ dpager_lock[g] = Nobody
     /\ map' = [map EXCEPT ![g] = pager_extend(@, size[g], new)]
     /\ size' = [size EXCEPT ![g] = new]
     /\ Step(w, "extend", "grow")
     /\ UNCHANGED <<partVars, lockVars, pagers, cur_partition, dpager_lock, latest, op>>

\* pager_alloc_page: the partition is looked at before it is locked, if it is
\* not locked already.
pager_alloc_page(w) ==
  LET i == cur_partition[MyPager(w)]
  IN /\ at[w] = "alloc_page"
     /\ Step(w, "alloc_page", IF Unusable(i) THEN "no_block" ELSE "take")
     /\ UNCHANGED <<partVars, lockVars, pagers, mapVars, dpager_lock, latest, op>>

\* Fault: the return with a full partition leaves it locked.
Take_KeepsLock(w) ==
  LET g == MyPager(w)
      i == cur_partition[g]
      off == Min(Blocks(i) \ partition[i].used)
  IN /\ at[w] = "take"
     /\ op[w].lock_it = 1 => p_lock[i] = Nobody
     /\ p_lock' = [p_lock EXCEPT ![i] = IF Free(i) = 0 THEN w ELSE Nobody]
     /\ \/ /\ Free(i) = 0
           /\ Step(w, "take", "no_block")
           /\ UNCHANGED <<partition, map, dpager_lock, op>>
        \/ /\ Free(i) > 0
           /\ partition' = [partition EXCEPT ![i].used = @ \cup {off}]
           /\ map' = [map EXCEPT ![g] = SetEntry(@, size[g], MyPage(w), <<i, off>>)]
           /\ op' = [op EXCEPT ![w].block = <<i, off>>, ![w].lock_it = 1]
           /\ dpager_lock' = [dpager_lock EXCEPT ![g] = Nobody]
           /\ Step(w, "take", "device_write")
     /\ UNCHANGED <<disk, list_lock, pagers, size, cur_partition, latest>>

Take(w) ==
  LET g == MyPager(w)
      i == cur_partition[g]
      off == Min(Blocks(i) \ partition[i].used)
  IN /\ at[w] = "take"
     /\ op[w].lock_it = 1 => p_lock[i] = Nobody
     /\ p_lock' = [p_lock EXCEPT ![i] = Nobody]
     /\ \/ /\ Free(i) = 0
           /\ Step(w, "take", "no_block")
           /\ UNCHANGED <<partition, map, dpager_lock, op>>
        \/ /\ Free(i) > 0
           /\ partition' = [partition EXCEPT ![i].used = @ \cup {off}]
           /\ map' = [map EXCEPT ![g] = SetEntry(@, size[g], MyPage(w), <<i, off>>)]
           /\ op' = [op EXCEPT ![w].block = <<i, off>>, ![w].lock_it = 1]
           /\ dpager_lock' = [dpager_lock EXCEPT ![g] = Nobody]
           /\ Step(w, "take", "device_write")
     /\ UNCHANGED <<disk, list_lock, pagers, size, cur_partition, latest>>

\* The partition had no block: another one, once.
TryOther(w) ==
  LET g == MyPager(w)
  IN /\ at[w] = "no_block"
     /\ \/ op[w].lock_it = 1 /\ Choose(w, 1, cur_partition[g], "other") /\ UNCHANGED dpager_lock
        \/ op[w].lock_it = 0 /\ Fail(w)
     /\ UNCHANGED <<partVars, lockVars, pagers, mapVars, latest>>

Other(w) ==
  LET g == MyPager(w)
  IN /\ at[w] = "other"
     /\ \/ /\ op[w].choice.i # INVALID
           /\ cur_partition' = [cur_partition EXCEPT ![g] = op[w].choice.i]
           /\ op' = [op EXCEPT ![w].lock_it = 0, ![w].choice = NoChoice]
           /\ Step(w, "other", "alloc_page")
           /\ UNCHANGED dpager_lock
        \/ op[w].choice.i = INVALID /\ Fail(w) /\ UNCHANGED cur_partition
     /\ UNCHANGED <<partVars, lockVars, pagers, map, size, latest>>

\* The new version differs from the one before; a write that fails leaves
\* something undefined.
DeviceWrite(w) ==
  LET g == MyPager(w)
      p == MyPage(w)
  IN /\ at[w] = "device_write"
     /\ IF Missing(op[w].block) THEN Fault(w) /\ UNCHANGED <<disk, latest, op>>
        ELSE \E v \in {IF latest[g][p] = 0 THEN 1 ELSE 0, Undefined} :
               /\ disk' = [disk EXCEPT ![op[w].block] = <<g, p, v>>]
               /\ latest' = [latest EXCEPT ![g][p] = v]
               /\ Finish(w)
     /\ UNCHANGED <<partition, lockVars, pagers, mapVars, dpager_lock>>

---------------------------------------------------------------------------
(* default_read and default_has_page                                       *)

pager_read_offset(w) ==
  LET g == MyPager(w)
      b == BlockOf(g, MyPage(w))
  IN /\ at[w] = "read" /\ dpager_lock[g] = Nobody
     /\ IF MyPage(w) >= size[g] THEN Step(w, "read", "panic") /\ UNCHANGED op
        ELSE IF b = NO_BLOCK THEN Finish(w)
        ELSE op' = [op EXCEPT ![w].block = b] /\ Step(w, "read", "device_read")
     /\ UNCHANGED <<partVars, lockVars, pagers, mapVars, dpager_lock, latest>>

DeviceRead(w) ==
  /\ at[w] = "device_read"
  /\ IF Missing(op[w].block) THEN Fault(w) /\ UNCHANGED op
     ELSE \/ Finish(w)                           \* the page is kept, or the device failed
          \/ op[w].release = 1 /\ Step(w, "device_read", "release") /\ UNCHANGED op
  /\ UNCHANGED <<partVars, lockVars, pagers, mapVars, dpager_lock, latest>>

\* Fault: the block that was read is given back, wherever the page is now.
pager_release_offset_Stale(w) ==
  LET g == MyPager(w)
      p == MyPage(w)
  IN /\ at[w] = "release" /\ dpager_lock[g] = Nobody
     /\ map' = [map EXCEPT ![g] = SetEntry(@, size[g], p, NO_BLOCK)]
     /\ latest' = [latest EXCEPT ![g][p] = Unwritten]
     /\ Step(w, "release", "dealloc")
     /\ UNCHANGED <<partVars, lockVars, pagers, size, cur_partition, dpager_lock, op>>

pager_release_offset(w) ==
  LET g == MyPager(w)
      p == MyPage(w)
  IN /\ at[w] = "release" /\ dpager_lock[g] = Nobody
     /\ op' = [op EXCEPT ![w].block = Entry(map[g], size[g], p)]
     /\ map' = [map EXCEPT ![g] = SetEntry(@, size[g], p, NO_BLOCK)]
     /\ latest' = [latest EXCEPT ![g][p] = Unwritten]
     /\ Step(w, "release", "dealloc")
     /\ UNCHANGED <<partVars, lockVars, pagers, size, cur_partition, dpager_lock>>

Released(w) ==
  /\ at[w] = "dealloc"
  /\ IF Missing(op[w].block) THEN Fault(w) /\ UNCHANGED <<partVars, op>>
     ELSE Dealloc(op[w].block) /\ Finish(w)
  /\ UNCHANGED <<lockVars, pagers, mapVars, dpager_lock, latest>>

---------------------------------------------------------------------------
(* Partitions come and go                                                  *)

create_paging_partition ==
  LET i == Min({j \in Index : partition[j].here = 0})
  IN /\ \E j \in Index : partition[j].here = 0
     /\ list_lock = Nobody
     /\ partition' = [partition EXCEPT ![i] = Fresh]
     /\ p_lock' = [p_lock EXCEPT ![i] = Nobody]
     /\ UNCHANGED <<disk, list_lock, pagers, mapVars, dpager_lock, latest, at, op>>

D == Destroyer
Leaving == op[D].page           \* the partition's index

destroy_paging_partition(i) ==
  /\ at[D] = "idle" /\ list_lock = Nobody /\ partition[i].here = 1
  /\ partition' = [partition EXCEPT ![i].going_away = 1]
  /\ at' = [at EXCEPT ![D] = "again"] /\ op' = [op EXCEPT ![D].page = i]
  /\ UNCHANGED <<disk, lockVars, pagers, mapVars, dpager_lock, latest>>

\* all_over_again
Again ==
  /\ at[D] = "again" /\ p_lock[Leaving] = Nobody
  /\ p_lock' = [p_lock EXCEPT ![Leaving] = D]
  /\ op' = [op EXCEPT ![D].todo = pagers]
  /\ Step(D, "again", "next")
  /\ UNCHANGED <<partVars, list_lock, pagers, mapVars, dpager_lock, latest>>

\* The next object of the list, if its lock can be had at once.
NextPager ==
  /\ at[D] = "next" /\ op[D].todo # {}
  /\ LET g == CHOOSE g \in op[D].todo : TRUE
     IN \/ /\ dpager_lock[g] = Nobody
           /\ dpager_lock' = [dpager_lock EXCEPT ![g] = D]
           /\ op' = [op EXCEPT ![D].pager = g]
           /\ Step(D, "next", "pages")
           /\ UNCHANGED p_lock
        \/ /\ dpager_lock[g] # Nobody
           /\ p_lock' = [p_lock EXCEPT ![Leaving] = Nobody]
           /\ op' = [op EXCEPT ![D].todo = {}]
           /\ Step(D, "next", "again")
           /\ UNCHANGED dpager_lock
  /\ UNCHANGED <<partVars, list_lock, pagers, mapVars, latest>>

\* A request that has a block of partition i in its hands.
Using(w, i) ==
  \/ at[w] \in {"device_write", "device_read", "dealloc"} /\ op[w].block[1] = i
  \/ at[w] = "delete" /\ PagesIn(MyPager(w), i) # {}
InTime == Late \/ \A w \in Worker : ~Using(w, Leaving)

\* pager_realloc: the object's pages in the partition, one after the other;
\* then the object gets another partition for its new pages.
pager_realloc ==
  /\ at[D] = "pages" /\ InTime
  /\ \/ PagesIn(MyPager(D), Leaving) # {} /\ Choose(D, 1, Leaving, "move")
     \/ PagesIn(MyPager(D), Leaving) = {} /\ Choose(D, 0, INVALID, "moved")
  /\ UNCHANGED <<partVars, lockVars, pagers, mapVars, dpager_lock, latest>>

pager_move_page ==
  LET g == MyPager(D)
      p == Min(PagesIn(g, Leaving))
      i == op[D].choice.i
      old == BlockOf(g, p)
      new == <<i, Min(Blocks(i) \ partition[i].used)>>
  IN /\ at[D] = "move" /\ i # INVALID /\ InTime
     /\ IF Free(i) = 0 THEN Step(D, "move", "panic") /\ UNCHANGED <<partVars, map, op>>
        ELSE /\ disk' = [disk EXCEPT ![new] = disk[old], ![old] = <<>>]
             /\ partition' = [partition EXCEPT ![i].used = @ \cup {new[2]},
                                               ![Leaving].used = @ \ {old[2]}]
             /\ map' = [map EXCEPT ![g] = SetEntry(@, size[g], p, new)]
             /\ Step(D, "move", "pages") /\ op' = [op EXCEPT ![D].choice = NoChoice]
     /\ p_lock' = [p_lock EXCEPT ![i] = Nobody]
     /\ UNCHANGED <<list_lock, pagers, size, cur_partition, dpager_lock, latest>>

\* No room: the partition is put back, and stays locked.
NotMoved ==
  /\ at[D] = "move" /\ op[D].choice.i = INVALID
  /\ dpager_lock' = [dpager_lock EXCEPT ![MyPager(D)] = Nobody]
  /\ partition' = [partition EXCEPT ![Leaving].going_away = 0]
  /\ Finish(D)
  /\ UNCHANGED <<disk, lockVars, pagers, mapVars, latest>>

Moved ==
  LET g == MyPager(D)
  IN /\ at[D] = "moved"
     /\ cur_partition' = [cur_partition EXCEPT ![g] = op[D].choice.i]
     /\ dpager_lock' = [dpager_lock EXCEPT ![g] = Nobody]
     /\ op' = [op EXCEPT ![D].todo = @ \ {g}, ![D].pager = Nobody, ![D].choice = NoChoice]
     /\ Step(D, "moved", "next")
     /\ UNCHANGED <<partVars, lockVars, pagers, map, size, latest>>

Destroyed ==
  /\ at[D] = "next" /\ op[D].todo = {} /\ InTime
  /\ partition' = [partition EXCEPT ![Leaving] = Gone]
  /\ Finish(D)
  /\ UNCHANGED <<disk, lockVars, pagers, mapVars, dpager_lock, latest>>

---------------------------------------------------------------------------
Work(w) ==
  \/ choose_partition_lock(w) \/ choose_partition(w)
  \/ CreateAny(w) \/ Created(w) \/ pager_dealloc(w)
  \/ pager_write_offset(w) \/ Attach(w) \/ Grow(w) \/ Extend(w)
  \/ pager_alloc_page(w) \/ Take(w) \/ TryOther(w) \/ Other(w) \/ DeviceWrite(w)
  \/ pager_read_offset(w) \/ DeviceRead(w) \/ pager_release_offset(w) \/ Released(w)

Call(w) ==
  \E g \in Pager :
    \/ \E n \in Sizes : Create(w, g, n)
    \/ DeleteObject(w, g)
    \/ \E p \in Offset : Request(w, g, p, 0, "write")
    \/ \E p \in Offset, r \in {0, 1} : p < size[g] /\ Request(w, g, p, r, "read")

Destroy ==
  \/ \E i \in Index : destroy_paging_partition(i)
  \/ choose_partition_lock(D) \/ choose_partition(D)
  \/ Again \/ NextPager \/ pager_realloc \/ pager_move_page \/ NotMoved \/ Moved \/ Destroyed

SpaceNext == create_paging_partition \/ Destroy \/ \E w \in Worker : Call(w) \/ Work(w)

SpaceSpec == SpaceInit /\ [][SpaceNext]_spaceVars

---------------------------------------------------------------------------
References == {<<g, p>> \in Pager \X Offset : BlockOf(g, p) # NO_BLOCK}
Releasing == {w \in Worker : at[w] = "dealloc"}

\* Blocks are neither lost nor shared: a block is taken in the bitmap exactly
\* when one page of one object, or one request that is about to give it back,
\* has it, whatever extends, moves or deletes (default_pager.c:272-365).
BlocksAccounted ==
  /\ \A i \in Index : partition[i].here = 1 =>
       {<<i, b>> : b \in partition[i].used}
         = {b \in {BlockOf(r[1], r[2]) : r \in References} \cup {op[w].block : w \in Releasing} :
              b[1] = i}
  /\ Cardinality({BlockOf(r[1], r[2]) : r \in References} \cup {op[w].block : w \in Releasing})
       = Cardinality(References) + Cardinality(Releasing)

\* What was written last is read back: unless a write of the page is on its
\* way, the page's block holds its last version, through every extension of the
\* map (default_pager.c:612-767) and every move to another partition (854-910).
ReadsBack ==
  \A g \in pagers, p \in Offset :
    (\A w \in Worker : op[w].pager = g /\ op[w].page = p => at[w] # "device_write") =>
      IF BlockOf(g, p) = NO_BLOCK THEN latest[g][p] = Unwritten
      ELSE disk[BlockOf(g, p)] = <<g, p, latest[g][p]>>

\* A partition's lock outlives the call of its holder in two ways only: after a
\* destroy_paging_partition that found no room (default_pager.c:1621-1629), and
\* when pager_alloc_page, called with the lock held, finds the partition going
\* away (292-294).
LocksBalanced ==
  \A i \in Index : partition[i].here = 1 /\ p_lock[i] # Nobody =>
    \/ at[p_lock[i]] # "idle"
    \/ p_lock[i] = D
    \/ partition[i].going_away = 1

\* default_pager.c:1614, "there are no refs left": when a partition is removed,
\* no request and no object has a block of it.
NoRefsLeft ==
  \A i \in Index : partition[i].here = 0 =>
    /\ \A w \in Worker : ~Using(w, i)
    /\ \A g \in Pager : PagesIn(g, i) = {}
=============================================================================
