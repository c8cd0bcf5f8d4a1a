-------------------------- MODULE PagerPortData ----------------------------
(***************************************************************************)
(* The invariant PInv of PagerPort, about its messages, threads and counts *)
(* (it is proved in PagerPortLemmas and PagerPortProofs), and DInv, about  *)
(* the data: no request gets an old version of a page.                     *)
(***************************************************************************)
EXTENDS PagerPort, WellFoundedInduction, TLAPS

\* Most steps follow by logic alone and are left to Zenon.
USE ZenonT(20), SMTT(30)

\* Where a thread is before it gives its number up, and after.
Before == {"lock", "waiting_seqno", "mod_refs", "readers", "writers", "refs",
           "waiting_read", "waiting_write", "waiting_refs", "delete"}
Behind == {"idle", "broadcast", "read", "reply", "error", "finish_read", "broadcast_read",
           "has_page", "write", "writing", "write_error", "finish_write",
           "broadcast_write", "rights"}
Kinds == Carrying \cup {"terminate", "init", "no_senders"}

IsJob(j) == /\ j = [message |-> j.message, number |-> j.number, todo |-> j.todo,
                    value |-> j.value, request_refs |-> j.request_refs,
                    name_refs |-> j.name_refs]
            /\ j.number \in Nat

PTypes ==
  /\ log \in Seq(Message) /\ object \in {"active", "terminated", "flushed", "dead"}
  /\ content \in [Page -> Version]
  /\ received \in Nat /\ received <= Len(log)
  /\ seqno \in Nat /\ seqno <= received /\ readers \in Nat /\ writers \in Nat
  /\ pager_request \in {0, 1} /\ pager_name \in {0, 1} /\ name_refs \in Nat
  /\ freed \in {0, 1} /\ objects \in {"idle", "grow", "grown", "send"}
  /\ pc \in [Thread -> Before \cup Behind]
  /\ job = [t \in Thread |-> job[t]] /\ \A t \in Thread : IsJob(job[t])

\* What the kernel sends: after terminate init or no_senders, these nowhere
\* else, and nothing after no_senders.
Protocol ==
  /\ \A i \in 1 .. Len(log) :
       /\ log[i].kind \in {"init", "no_senders"} <=> i > 1 /\ log[i - 1].kind = "terminate"
       /\ log[i].kind = "no_senders" => i = Len(log)
  /\ object = "active" =>
       Len(log) = 0 \/ log[Len(log)].kind \notin {"terminate", "no_senders"}
  /\ object \in {"terminated", "flushed"} => Len(log) > 0 /\ log[Len(log)].kind = "terminate"
  /\ object = "dead" => Len(log) > 0 /\ log[Len(log)].kind = "no_senders"

\* The messages received and not finished are those from seqno on; each is with
\* one thread.
Turns ==
  /\ \A t \in Thread : pc[t] \in Before =>
       /\ seqno <= job[t].number /\ job[t].number < received
       /\ Kind(t) = log[job[t].number + 1].kind
       /\ pc[t] \notin {"lock", "waiting_seqno"} => job[t].number = seqno
  /\ \A t, u \in Thread : pc[t] \in Before /\ pc[u] \in Before /\ t # u =>
       job[t].number # job[u].number
  /\ freed = 0 => \A n \in Nat : seqno <= n /\ n < received =>
                    \E t \in Thread : pc[t] \in Before /\ job[t].number = n

\* Where a thread is goes with what it does.
Places ==
  \A t \in Thread :
    /\ Kind(t) \in Kinds
    /\ pc[t] = "mod_refs" => Kind(t) \in Carrying
    /\ pc[t] \in {"readers", "refs", "waiting_read", "waiting_refs", "rights"} =>
         Kind(t) = "terminate"
    /\ pc[t] \in {"writers", "waiting_write"} => Kind(t) \in Carrying \cup {"terminate"}
    /\ pc[t] = "delete" => Kind(t) = "no_senders"
    /\ pc[t] \in {"read", "reply", "error", "finish_read"} => Kind(t) = "request"
    /\ pc[t] \in {"has_page", "write", "writing", "write_error", "finish_write"} =>
         Kind(t) \in {"write", "initialize"}

\* The object is without its ports between terminate and init.
Ports ==
  /\ pager_request = 0 <=> seqno > 0 /\ log[seqno].kind = "terminate"
  /\ pager_name = pager_request
  /\ pager_name = 0 => name_refs = 0
  /\ objects \in {"grow", "grown"} <=> pager_name = 1 /\ name_refs = 0

\* What terminate has waited for stays.
Counts ==
  /\ TerminateWaits
  /\ \A t \in Thread : Kind(t) = "terminate" =>
       /\ pc[t] \in {"writers", "waiting_write"} => readers = 0
       /\ pc[t] \in {"refs", "waiting_refs"} => readers = 0 /\ writers = 0

Wakers ==
  \A t \in Thread :
    /\ pc[t] = "waiting_seqno" /\ job[t].number = seqno =>
         \E u \in Thread : pc[u] = "broadcast"
    /\ pc[t] = "waiting_read" => \E u \in Thread : Reading(u) \/ pc[u] = "broadcast_read"
    /\ pc[t] = "waiting_write" => \E u \in Thread : Writing(u) \/ pc[u] = "broadcast_write"
    /\ pc[t] = "waiting_refs" => objects \in {"grow", "grown"}

Freed ==
  /\ FreeIsLast
  /\ freed = 1 => object = "dead" /\ received = Len(log) /\ seqno = Len(log) - 1

PInv == PTypes /\ Protocol /\ Turns /\ Places /\ Ports /\ Counts /\ Wakers /\ Freed

InRead == {"read", "reply", "error", "finish_read"}
InWrite == {"has_page", "write", "writing", "write_error", "finish_write"}

\* No write is in progress when none is counted; this follows from PInv.
NoWriter == writers = 0 => \A t \in Thread : ~Writing(t)

-----------------------------------------------------------------------------
(* Facts about the parts of the state                                      *)

\* A set of naturals that has a member has a least one.
LEMMA Least ==
    ASSUME NEW S, S \subseteq Nat, S # {}
    PROVE  \E i \in S : \A j \in S : i <= j
<1>1. \E i \in S : \A j \in S : ~ (<<j, i>> \in OpToRel(<, Nat))
  BY NatLessThanWellFounded, WFMin
<1>2. \A i, j \in Nat : j < i => <<j, i>> \in OpToRel(<, Nat)
  BY DEF OpToRel
<1>3. PICK i \in S : \A j \in S : ~ (j < i)
  BY <1>1, <1>2
<1> QED
  BY <1>3, SMTT(30)

\* Fields of a job change, but not its message and number.
SameJob(t) ==
  /\ job' = [u \in Thread |-> job'[u]]
  /\ \A u \in Thread : u # t => job'[u] = job[u]
  /\ IsJob(job'[t]) /\ job'[t].message = job[t].message /\ job'[t].number = job[t].number

LEMMA JobSame ==
    ASSUME PTypes, NEW t \in Thread, NEW v, NEW w,
           \/ job' = job
           \/ job' = [job EXCEPT ![t].value = v]
           \/ job' = [job EXCEPT ![t].todo = v]
           \/ job' = [job EXCEPT ![t].request_refs = v]
           \/ job' = [job EXCEPT ![t].request_refs = v, ![t].name_refs = w]
    PROVE  SameJob(t)
  BY SMTT(30) DEF PTypes, IsJob, SameJob

LEMMA MessageType ==
    ASSUME NEW k \in Kinds, NEW P \in SUBSET Page, NEW d \in [P -> Version], NEW w \in {0, 1}
    PROVE  [kind |-> k, data |-> d, write |-> w] \in Message
<1>1. d \in UNION {[Q -> Version] : Q \in SUBSET Page}
  OBVIOUS
<1> QED
  BY <1>1 DEF Message, Kinds

LEMMA PlainType == ASSUME NEW k \in Kinds PROVE Plain(k) \in Message /\ Plain(k).kind = k
<1>1. [p \in {} |-> 0] \in [{} -> Version] /\ {} \in SUBSET Page
  OBVIOUS
<1> QED
  BY <1>1, MessageType DEF Plain

\* The other threads: at most one is woken.
Others(t) ==
  \A u \in Thread : u # t =>
    /\ job'[u] = job[u]
    /\ \/ pc'[u] = pc[u]
       \/ pc[u] = "waiting_seqno" /\ pc'[u] = "lock"
       \/ pc[u] = "waiting_read" /\ pc'[u] = "readers"
       \/ pc[u] = "waiting_write" /\ pc'[u] = "writers"

LEMMA OthersGoto ==
    ASSUME PTypes, NEW t \in Thread, NEW label, Goto(t, label)
    PROVE  /\ pc'[t] = label
           /\ (\A u \in Thread : u # t => job'[u] = job[u]) => Others(t)
  BY DEF PTypes, Goto, Others

LEMMA OthersWake ==
    ASSUME PTypes, NEW t \in Thread, NEW from, NEW to, NEW label,
           pc' = [Wake(from, to) EXCEPT ![t] = label],
           \/ from = "waiting_seqno" /\ to = "lock"
           \/ from = "waiting_read" /\ to = "readers"
           \/ from = "waiting_write" /\ to = "writers",
           \A u \in Thread : u # t => job'[u] = job[u]
    PROVE  pc'[t] = label /\ Others(t)
  BY DEF Wake, Others

LEMMA Turn ==
    ASSUME PInv, NEW t \in Thread, pc[t] \in Before, job[t].number = seqno
    PROVE  /\ freed = 0 /\ seqno < Len(log) /\ seqno < received /\ Kind(t) = log[seqno + 1].kind
           /\ Kind(t) \in Carrying \cup {"terminate"} => pager_request = 1
           /\ Kind(t) \in {"init", "no_senders"} => pager_request = 0
           /\ \A u \in Thread : u # t /\ pc[u] \in Before =>
                pc[u] \in {"lock", "waiting_seqno"} /\ job[u].number > seqno
           /\ Kind(t) = "no_senders" => /\ seqno + 1 = Len(log)
                                        /\ \A u \in Thread : u # t => pc[u] \notin Before
<1> USE DEF PInv
<1>1. freed = 0
  BY DEF Freed, FreeIsLast, PTypes, Before
<1>2. /\ seqno < received /\ Kind(t) = log[seqno + 1].kind
      /\ received \in Nat /\ seqno \in Nat /\ Len(log) \in Nat /\ received <= Len(log)
  BY SMTT(30) DEF Turns, PTypes
<1>3. seqno + 1 \in 1 .. Len(log)
  BY <1>2, SMTT(30)
<1>4. Kind(t) \in {"init", "no_senders"} <=> seqno > 0 /\ log[seqno].kind = "terminate"
  BY <1>2, <1>3, SMTT(30) DEF Protocol
<1>5. \A u \in Thread : u # t /\ pc[u] \in Before =>
        pc[u] \in {"lock", "waiting_seqno"} /\ job[u].number > seqno /\ job[u].number < received
  BY <1>2, SMTT(30) DEF Turns, PTypes, IsJob
<1>6. Kind(t) = "no_senders" => seqno + 1 = Len(log)
  BY <1>2, <1>3 DEF Protocol
<1>7. Kind(t) = "no_senders" => \A u \in Thread : u # t => pc[u] \notin Before
  BY <1>2, <1>5, <1>6, SMTT(30) DEF PTypes, IsJob
<1>8. /\ Kind(t) \in Carrying \cup {"terminate"} => pager_request = 1
      /\ Kind(t) \in {"init", "no_senders"} => pager_request = 0
  BY <1>4 DEF Ports, PTypes, Carrying
<1> QED
  BY <1>1, <1>2, <1>5, <1>6, <1>7, <1>8, SMTT(30)

-----------------------------------------------------------------------------
(* What the pager has of a page                                            *)

\* Where a message for page p is: in the log, not received yet, or with a thread
\* that has not done the page.
Paging == {"write", "initialize"}
Queued(i, kinds, p) == log[i].kind \in kinds /\ p \in DOMAIN log[i].data
Busy(t, kinds, p) ==
  Kind(t) \in kinds /\ p \in job[t].todo /\ pc[t] \notin {"finish_read", "broadcast_read"}
Unwritten(p) == \/ \E i \in 1 .. Len(log) : Queued(i, Paging, p)
                \/ \E t \in Thread : Busy(t, Paging, p)

\* What the pager has is right, unless a write failed.
Fine(p) == store[p] = content[p] \/ (store[p] = Absent /\ content[p] = 0)
Sound(p) == errors = 0 => Fine(p)

\* The messages: what was received is not in the log any more, a request and a
\* push are for one page, and a pageout has the right content.
Carries(m) ==
  /\ m.kind = "write" => DOMAIN m.data # {} /\ \A p \in DOMAIN m.data : m.data[p] = content[p]
  /\ m.kind \in {"request", "initialize"} => \E p \in Page : m.data = [q \in {p} |-> 0]
Logged ==
  \A i \in 1 .. Len(log) : /\ i <= received => DOMAIN log[i].data = {}
                           /\ i > received => Carries(log[i])

Tables == /\ page \in [Page -> {"in", "out", "wanted"}] /\ must \in [Page -> {0, 1}]
          /\ store \in [Page -> Version \cup {Absent, Torn}]

\* A handler: what is left to do.
HandledBy(t) ==
  /\ job[t].message \in Message /\ job[t].todo \subseteq DOMAIN job[t].message.data
  /\ pc[t] = "idle" => job[t] = NoJob
  /\ Kind(t) = "request" =>
       /\ pc[t] \in Before \cup InRead \cup {"broadcast", "broadcast_read"}
       /\ \E p \in Page : job[t].todo = {p}
  /\ Kind(t) = "initialize" => \E p \in Page : job[t].todo \subseteq {p}
  /\ pc[t] = "has_page" => Kind(t) = "initialize"
  /\ Kind(t) \in Paging =>
       /\ pc[t] \in Before \cup InWrite \cup {"broadcast", "broadcast_write"}
       /\ job[t].todo = {} <=> pc[t] \in {"finish_write", "broadcast_write"}
  /\ \A p \in job[t].todo : /\ Kind(t) = "write" => job[t].message.data[p] = content[p]
                            /\ Kind(t) = "initialize" => job[t].message.data[p] = 0
Handled == errors \in {0, 1} /\ \A t \in Thread : HandledBy(t)

\* No page has two messages of a kind, and a write comes before a request.
Single ==
  \A p \in Page : \A kinds \in {Paging, {"request"}} :
    /\ \A i, j \in 1 .. Len(log) : Queued(i, kinds, p) /\ Queued(j, kinds, p) => i = j
    /\ \A t, u \in Thread : Busy(t, kinds, p) /\ Busy(u, kinds, p) => t = u
    /\ \A i \in 1 .. Len(log), t \in Thread : ~(Queued(i, kinds, p) /\ Busy(t, kinds, p))

Ordered ==
  \A p \in Page :
    /\ \A i, j \in 1 .. Len(log) : Queued(i, {"request"}, p) /\ Queued(j, Paging, p) => j < i
    /\ \A i \in 1 .. Len(log), t \in Thread : ~(Busy(t, {"request"}, p) /\ Queued(i, Paging, p))
    /\ \A t, u \in Thread : Busy(t, {"request"}, p) /\ Busy(u, Paging, p) =>
         pc[t] \in Before /\ (pc[u] \in Before => job[u].number < job[t].number)

\* A page in memory has nothing to be written, a requested one is awaited, and
\* what the pager has is right unless something else is on its way.
HeldPage(p) ==
  /\ page[p] = "in" => ~Unwritten(p) /\ (must[p] = 0 => Sound(p))
  /\ page[p] = "out" /\ ~Unwritten(p) => Sound(p)
HeldLog(i, p) ==
  /\ Queued(i, {"request"}, p) => page[p] = "wanted" /\ (~Unwritten(p) => Sound(p))
  /\ Queued(i, {"initialize"}, p) => Sound(p)
Pushed(t, p) == IF pc[t] \in {"write", "writing", "write_error"}
                THEN errors = 0 => content[p] = 0 ELSE Sound(p)
Requested(t, p) ==
  /\ page[p] = "wanted"
  /\ pc[t] \in Before /\ ~Unwritten(p) => Sound(p)
  /\ pc[t] = "broadcast" => IF job[t].value > 0 THEN errors = 1 ELSE Fine(p)
  /\ pc[t] = "error" => errors = 1
  /\ pc[t] = "read" => Fine(p)
  /\ pc[t] = "reply" =>
       /\ \/ job[t].value = content[p]
          \/ job[t].value = Absent /\ content[p] = 0
          \/ job[t].value = DeviceError
       /\ job[t].value \in {Absent, DeviceError} \/ job[t].message.write = 0 => Sound(p)
HeldBy(t, p) == /\ Busy(t, {"initialize"}, p) => Pushed(t, p)
                /\ Busy(t, {"request"}, p) => Requested(t, p)
Held == \A p \in Page : /\ HeldPage(p)
                        /\ \A i \in 1 .. Len(log) : HeldLog(i, p)
                        /\ \A t \in Thread : HeldBy(t, p)

DInv == freed = 0 => Tables /\ Logged /\ Handled /\ Single /\ Ordered /\ Held

LEMMA ThreadStays ==
    ASSUME NEW t \in Thread, Others(t), NEW u \in Thread, u # t
    PROVE  /\ job'[u] = job[u] /\ Kind(u)' = Kind(u)
           /\ pc'[u] = pc[u] \/ (pc[u] \in Before /\ pc'[u] \in Before)
           /\ \A kinds, p : Busy(u, kinds, p)' <=> Busy(u, kinds, p)
<1>1. job'[u] = job[u] /\ (pc'[u] = pc[u] \/ (pc[u] \in Before /\ pc'[u] \in Before))
  BY DEF Others, Before
<1>2. Kind(u)' = Kind(u)
  BY <1>1 DEF Kind
<1> QED
  BY <1>1, <1>2 DEF Busy, Before

LEMMA HandledStays ==
    ASSUME NEW t \in Thread, Others(t), NEW u \in Thread, u # t, content' = content, HandledBy(u)
    PROVE  HandledBy(u)'
<1>1. /\ job'[u] = job[u] /\ Kind(u)' = Kind(u)
      /\ pc'[u] = pc[u] \/ (pc[u] \in Before /\ pc'[u] \in Before)
  BY ThreadStays
<1>2. CASE pc'[u] = pc[u]
  BY <1>1, <1>2 DEF HandledBy
<1>3. CASE pc[u] \in Before /\ pc'[u] \in Before
  <2>1. /\ pc'[u] \notin {"idle", "finish_write", "broadcast_write", "has_page"}
        /\ pc[u] \notin {"idle", "finish_write", "broadcast_write"}
    BY <1>3 DEF Before
  <2> QED
    BY <1>1, <1>3, <2>1 DEF HandledBy
<1> QED
  BY <1>1, <1>2, <1>3

\* Page p keeps its place; it may be written by the thread that has it, and when
\* nothing is left to be written the pager has it.
Left(t, p) ==
  /\ page'[p] = page[p] /\ must'[p] = must[p]
  /\ store'[p] = store[p] \/ Busy(t, Paging, p)
  /\ Unwritten(p) /\ ~Unwritten(p)' => Sound(p)'
\* Page p is read by the thread, or the kernel gets the answer.
Answered(t, p) == Busy(t, {"request"}, p) /\ pc[t] \notin Before /\ HeldPage(p)'

\* A step of thread t that does not send or receive messages.
LEMMA DataStep ==
    ASSUME DInv, freed = 0, NEW t \in Thread, Others(t), HandledBy(t)', Tables',
           log' = log, received' = received, content' = content,
           errors' = errors \/ errors' = 1,
           job'[t].number = job[t].number \/ job'[t].todo = {},
           pc'[t] \in Before => pc[t] \in Before,
           \A p \in Page :
             /\ Busy(t, Paging, p)' => Busy(t, Paging, p)
             /\ Busy(t, {"request"}, p)' => /\ Busy(t, {"request"}, p)
                                            /\ pc'[t] \notin Before => ~Unwritten(p)
             /\ HeldBy(t, p)' /\ (Left(t, p) \/ Answered(t, p))
    PROVE  DInv'
<1>1. Logged /\ Handled /\ Single /\ Ordered /\ Held
  BY DEF DInv
<1>2. \A i, kinds, p : Queued(i, kinds, p)' <=> Queued(i, kinds, p)
  BY DEF Queued
<1>3. \A u \in Thread : \A kinds \in {Paging, {"request"}} : \A p \in Page :
        Busy(u, kinds, p)' => Busy(u, kinds, p)
  BY ThreadStays
<1>4. Logged'
  BY <1>1 DEF Logged, Carries
<1>5. Handled'
  BY <1>1, HandledStays DEF Handled
<1>6. Single'
  <2> SUFFICES ASSUME NEW p \in Page, NEW kinds \in {Paging, {"request"}}
               PROVE  /\ \A i, j \in 1 .. Len(log) :
                           Queued(i, kinds, p)' /\ Queued(j, kinds, p)' => i = j
                      /\ \A u, v \in Thread : Busy(u, kinds, p)' /\ Busy(v, kinds, p)' => u = v
                      /\ \A i \in 1 .. Len(log), u \in Thread :
                           ~(Queued(i, kinds, p)' /\ Busy(u, kinds, p)')
    BY DEF Single, Paging
  <2>1. /\ \A i, j \in 1 .. Len(log) : Queued(i, kinds, p) /\ Queued(j, kinds, p) => i = j
        /\ \A u, v \in Thread : Busy(u, kinds, p) /\ Busy(v, kinds, p) => u = v
        /\ \A i \in 1 .. Len(log), u \in Thread : ~(Queued(i, kinds, p) /\ Busy(u, kinds, p))
    BY <1>1 DEF Single
  <2>2. \A u \in Thread : Busy(u, kinds, p)' => Busy(u, kinds, p)
    BY <1>3
  <2> QED
    BY <1>2, <2>1, <2>2
<1>7. Ordered'
  <2> SUFFICES ASSUME NEW p \in Page
               PROVE  /\ \A i, j \in 1 .. Len(log) :
                           Queued(i, {"request"}, p)' /\ Queued(j, Paging, p)' => j < i
                      /\ \A i \in 1 .. Len(log), u \in Thread :
                           ~(Busy(u, {"request"}, p)' /\ Queued(i, Paging, p)')
                      /\ \A u, v \in Thread : Busy(u, {"request"}, p)' /\ Busy(v, Paging, p)' =>
                           /\ pc'[u] \in Before
                           /\ pc'[v] \in Before => job'[v].number < job'[u].number
    BY DEF Ordered
  <2>1. \A i, j \in 1 .. Len(log) : Queued(i, {"request"}, p)' /\ Queued(j, Paging, p)' => j < i
    BY <1>1, <1>2 DEF Ordered
  <2>2. \A i \in 1 .. Len(log), u \in Thread : ~(Busy(u, {"request"}, p)' /\ Queued(i, Paging, p)')
    BY <1>1, <1>2, <1>3 DEF Ordered
  <2>3. ASSUME NEW u \in Thread, NEW v \in Thread, Busy(u, {"request"}, p)', Busy(v, Paging, p)'
        PROVE  pc'[u] \in Before /\ (pc'[v] \in Before => job'[v].number < job'[u].number)
    <3>1. Busy(u, {"request"}, p) /\ Busy(v, Paging, p) /\ Unwritten(p)
      BY <1>3, <2>3 DEF Unwritten
    <3>2. pc[u] \in Before /\ (pc[v] \in Before => job[v].number < job[u].number)
      BY <1>1, <3>1 DEF Ordered
    <3>3. pc'[u] \in Before
      BY <2>3, <3>1, <3>2, ThreadStays
    <3>4. /\ pc'[v] \in Before => pc[v] \in Before
          /\ job'[v].number = job[v].number /\ job'[u].number = job[u].number
      BY <2>3, ThreadStays, SMTT(30) DEF Busy
    <3> QED
      BY <3>2, <3>3, <3>4
  <2> QED
    BY <2>1, <2>2, <2>3
<1>8. Held'
  <2> SUFFICES ASSUME NEW p \in Page
               PROVE  /\ HeldPage(p)' /\ \A i \in 1 .. Len(log) : HeldLog(i, p)'
                      /\ \A u \in Thread : HeldBy(u, p)'
    BY DEF Held
  <2>1. Unwritten(p)' => Unwritten(p)
    BY <1>2, <1>3 DEF Unwritten
  <2>2. /\ HeldPage(p) /\ \A i \in 1 .. Len(log) : HeldLog(i, p)
        /\ \A u \in Thread : HeldBy(u, p)
    BY <1>1 DEF Held
  <2>3. CASE Answered(t, p)
    <3>1. ~Unwritten(p) /\ ~Unwritten(p)'
      BY <1>1, <2>1, <2>3 DEF Answered, Ordered, Unwritten
    <3>2. \A i \in 1 .. Len(log) : ~Queued(i, {"request"}, p)
      BY <1>1, <2>3 DEF Answered, Single
    <3>3. \A i \in 1 .. Len(log) : HeldLog(i, p)'
      BY <1>2, <3>1, <3>2 DEF HeldLog, Unwritten, Queued, Paging
    <3>4. ASSUME NEW u \in Thread, u # t PROVE HeldBy(u, p)'
      <4>1. ~Busy(u, {"request"}, p)
        BY <1>1, <2>3, <3>4 DEF Answered, Single
      <4>2. ~Busy(u, {"initialize"}, p)
        BY <3>1 DEF Unwritten, Busy, Paging
      <4> QED
        BY <3>4, <4>1, <4>2, ThreadStays DEF HeldBy
    <3> QED
      BY <2>3, <3>3, <3>4 DEF Answered
  <2>4. CASE Left(t, p)
    <3>1. store'[p] = store[p] => (Fine(p)' <=> Fine(p))
      BY DEF Fine
    <3>2. store'[p] = store[p] /\ Sound(p) => Sound(p)'
      BY <3>1, SMTT(30) DEF Sound
    <3>3. Busy(t, Paging, p) => Unwritten(p)
      BY DEF Unwritten
    <3>4. ~Unwritten(p)' /\ (~Unwritten(p) => Sound(p)) => Sound(p)'
      BY <2>4, <3>2, <3>3 DEF Left
    <3>5. HeldPage(p)'
      BY <2>1, <2>2, <2>4, <3>2, <3>3, <3>4 DEF HeldPage, Left
    <3>6. ASSUME NEW i \in 1 .. Len(log) PROVE HeldLog(i, p)'
      <4>1. Queued(i, {"initialize"}, p) => ~Busy(t, Paging, p)
        BY <1>1 DEF Single, Queued, Paging
      <4> QED
        BY <1>2, <2>2, <2>4, <3>2, <3>4, <4>1 DEF HeldLog, Left
    <3>7. ASSUME NEW u \in Thread, u # t PROVE HeldBy(u, p)'
      <4>1. /\ \A kinds : Busy(u, kinds, p)' <=> Busy(u, kinds, p)
            /\ job'[u] = job[u]
            /\ pc'[u] = pc[u] \/ (pc[u] \in Before /\ pc'[u] \in Before)
        BY <3>7, ThreadStays
      <4>2. Busy(u, {"initialize"}, p) => ~Busy(t, Paging, p)
        BY <1>1, <3>7 DEF Single, Busy, Paging
      <4>3. HeldBy(u, p)
        BY <2>2
      <4>4. Busy(u, {"initialize"}, p) => Pushed(u, p)'
        BY <2>4, <3>2, <4>1, <4>2, <4>3, SMTT(30) DEF HeldBy, Pushed, Left, Before
      <4>5. ASSUME Busy(u, {"request"}, p), Busy(t, Paging, p) PROVE Requested(u, p)'
        <5>1. pc[u] \in Before
          BY <1>1, <4>5 DEF Ordered
        <5> QED
          BY <2>4, <3>4, <4>1, <4>3, <4>5, <5>1 DEF HeldBy, Requested, Left, Before
      <4>6. ASSUME Busy(u, {"request"}, p), store'[p] = store[p] PROVE Requested(u, p)'
        <5>1. pc[u] \in Before => Requested(u, p)'
          BY <2>4, <3>4, <4>1, <4>3, <4>6 DEF HeldBy, Requested, Left, Before
        <5>2. pc[u] \notin Before => Requested(u, p)'
          BY <2>4, <3>1, <3>2, <3>4, <4>1, <4>3, <4>6 DEF HeldBy, Requested, Left
        <5> QED
          BY <5>1, <5>2
      <4> QED
        BY <2>4, <4>1, <4>4, <4>5, <4>6 DEF HeldBy, Left
    <3> QED
      BY <3>5, <3>6, <3>7
  <2> QED
    BY <2>3, <2>4
<1> QED
  BY <1>4, <1>5, <1>6, <1>7, <1>8 DEF DInv

\* A handler goes on; the pages and what it has to do stay.
LEMMA DataMoves ==
    ASSUME DInv, freed = 0, NEW t \in Thread, Others(t), SameJob(t), HandledBy(t)',
           UNCHANGED <<log, received, content, page, must, store, errors>>,
           pc'[t] \in Before => pc[t] \in Before,
           pc'[t] \in {"finish_read", "broadcast_read"} <=> pc[t] \in {"finish_read", "broadcast_read"},
           job'[t].todo = job[t].todo,
           \A p \in Page :
             /\ Busy(t, {"initialize"}, p) /\ Pushed(t, p) => Pushed(t, p)'
             /\ Busy(t, {"request"}, p) /\ Requested(t, p) => Requested(t, p)'
             /\ Busy(t, {"request"}, p) /\ pc[t] \in Before /\ pc'[t] \notin Before => ~Unwritten(p)
    PROVE  DInv'
<1>1. Kind(t)' = Kind(t)
  BY DEF SameJob, Kind
<1>2. \A kinds, p : Busy(t, kinds, p)' <=> Busy(t, kinds, p)
  BY <1>1 DEF Busy
<1>3. \A p : Unwritten(p)' <=> Unwritten(p)
  <2>1. \A u \in Thread : \A p : Busy(u, Paging, p)' <=> Busy(u, Paging, p)
    BY <1>2, ThreadStays
  <2> QED
    BY <2>1 DEF Unwritten, Queued
<1>4. ASSUME NEW p \in Page
      PROVE  /\ HeldBy(t, p)' /\ Left(t, p)
             /\ Busy(t, {"request"}, p) /\ pc'[t] \notin Before => ~Unwritten(p)
  <2>1. HeldBy(t, p) /\ Ordered
    BY DEF DInv, Held
  <2>2. HeldBy(t, p)'
    BY <1>2, <1>4, <2>1 DEF HeldBy
  <2>3. Left(t, p)
    BY <1>3 DEF Left
  <2>4. Busy(t, {"request"}, p) /\ pc[t] \notin Before => ~Unwritten(p)
    BY <2>1 DEF Ordered, Unwritten
  <2> QED
    BY <1>4, <2>2, <2>3, <2>4
<1> QED
  BY <1>2, <1>4, DataStep DEF SameJob, DInv, Tables

LEMMA DataBefore ==
    ASSUME DInv, PInv, NEW t \in Thread,
           \/ WaitSeqno(t) \/ CheckRequest(t) \/ ModRefs(t) \/ TerminateWait(t) \/ NoSenders(t)
           \/ StartRead(t) /\ writers # 0
    PROVE  DInv'
<1>1. PTypes
  BY DEF PInv
<1>2. SameJob(t)
  BY <1>1, JobSame DEF WaitSeqno, CheckRequest, ModRefs, TerminateWait, NoSenders, StartRead
<1>3. job'[t].todo = job[t].todo
  <2>1. \/ job' = job \/ \E v : job' = [job EXCEPT ![t].request_refs = v]
    BY DEF WaitSeqno, CheckRequest, ModRefs, TerminateWait, NoSenders, StartRead
  <2> QED
    BY <1>1, <2>1 DEF PTypes, IsJob
<1>4. PICK label \in {"waiting_seqno", "mod_refs", "writers", "waiting_read", "waiting_write",
                      "waiting_refs", "delete", "panic"} : Goto(t, label)
  BY DEF WaitSeqno, CheckRequest, ModRefs, TerminateWait, NoSenders, StartRead
<1>5. pc'[t] = label /\ Others(t) /\ Kind(t)' = Kind(t)
  BY <1>1, <1>2, <1>4, OthersGoto DEF SameJob, Kind
<1>6. pc[t] \in Before
  BY DEF WaitSeqno, CheckRequest, ModRefs, TerminateWait, NoSenders, StartRead, Checked, AtRefs,
         AtWriters, AtReaders, InTurn, Before
<1>7. label # "panic"
  <2>1. CASE NoSenders(t)
    <3>1. pager_request = 0
      BY <1>6, <2>1, Turn DEF NoSenders, InTurn
    <3>2. Goto(t, "delete")
      BY <2>1, <3>1 DEF NoSenders
    <3> QED
      BY <1>1, <1>5, <3>2, OthersGoto, SMTT(30)
  <2>2. CASE ~NoSenders(t)
    <3>1. \E l : Goto(t, l) /\ l # "panic"
      BY <2>2, SMTT(30) DEF WaitSeqno, CheckRequest, ModRefs, TerminateWait, StartRead
    <3> QED
      BY <1>1, <1>5, <3>1, OthersGoto
  <2> QED
    BY <2>1, <2>2
<1>8. /\ pc'[t] \in Before /\ pc'[t] \notin {"idle", "finish_write", "broadcast_write", "has_page"}
      /\ pc[t] \notin {"idle", "finish_write", "broadcast_write"}
  BY <1>5, <1>6, <1>7 DEF Before
<1>9. freed = 0
  BY <1>6 DEF PInv, Freed, FreeIsLast, PTypes, Before
<1>10. HandledBy(t)'
  <2>1. HandledBy(t) /\ content' = content
    BY <1>9 DEF DInv, Handled, WaitSeqno, CheckRequest, ModRefs, TerminateWait, NoSenders,
                StartRead, kernelVars
  <2> QED
    BY <1>2, <1>3, <1>5, <1>6, <1>8, <2>1, SMTT(30) DEF HandledBy, SameJob
<1>11. UNCHANGED <<log, received, content, page, must, store, errors>>
  BY DEF WaitSeqno, CheckRequest, ModRefs, TerminateWait, NoSenders, StartRead, kernelVars, pageVars
<1>12. \A p : (Fine(p)' <=> Fine(p)) /\ (Sound(p)' <=> Sound(p)) /\ (Unwritten(p)' <=> Unwritten(p))
  <2>1. \A u \in Thread : \A p : Busy(u, Paging, p)' <=> Busy(u, Paging, p)
    BY <1>3, <1>5, <1>6, <1>8, ThreadStays DEF Busy, Before
  <2> QED
    BY <1>11, <2>1 DEF Fine, Sound, Unwritten, Queued
<1>13. \A p \in Page : Pushed(t, p) => Pushed(t, p)'
  BY <1>6, <1>8, <1>11, <1>12 DEF Pushed, Before
<1>14. \A p \in Page : Requested(t, p) => Requested(t, p)'
  BY <1>6, <1>8, <1>11, <1>12 DEF Requested, Before
<1>15. /\ pc'[t] \notin {"finish_read", "broadcast_read"}
       /\ pc[t] \notin {"finish_read", "broadcast_read"}
  BY <1>6, <1>8 DEF Before
<1> QED
  BY <1>2, <1>3, <1>5, <1>6, <1>8, <1>9, <1>10, <1>11, <1>13, <1>14, <1>15, DataMoves

LEMMA SameStore ==
    ASSUME UNCHANGED <<content, store, errors>>
    PROVE  \A p : (Fine(p)' <=> Fine(p)) /\ (Sound(p)' <=> Sound(p))
  BY DEF Fine, Sound

\* The number is given up by a handler that is not a read.
LEMMA DataUnlock ==
    ASSUME DInv, PInv, NEW t \in Thread, StartWrite(t) \/ Terminate(t) \/ InitObject(t)
    PROVE  DInv'
<1>1. PTypes
  BY DEF PInv
<1>2. SameJob(t)
  BY <1>1, JobSame DEF StartWrite, Terminate, InitObject
<1>3. job'[t].todo = job[t].todo
  <2>1. \/ job' = job \/ \E v, w : job' = [job EXCEPT ![t].request_refs = v, ![t].name_refs = w]
    BY DEF StartWrite, Terminate, InitObject
  <2>2. ASSUME NEW v, NEW w, job' = [job EXCEPT ![t].request_refs = v, ![t].name_refs = w]
        PROVE  job'[t].todo = job[t].todo
    BY <1>1, <2>2, SMTT(30) DEF PTypes, IsJob
  <2> QED
    BY <2>1, <2>2
<1>4. pc[t] \in Before /\ Kind(t) # "request"
  BY DEF StartWrite, Terminate, InitObject, Checked, AtRefs, AtWriters, AtReaders, InTurn, Before
<1>5. Goto(t, "broadcast")
  <2>1. CASE InitObject(t)
    <3>1. pager_request = 0
      BY <1>4, <2>1, Turn DEF InitObject, InTurn
    <3> QED
      BY <2>1, <3>1 DEF InitObject, Unlock
  <2> QED
    BY <2>1 DEF StartWrite, Terminate, Unlock
<1>6. pc'[t] = "broadcast" /\ Others(t) /\ Kind(t)' = Kind(t)
  BY <1>1, <1>2, <1>5, OthersGoto DEF SameJob, Kind
<1>7. freed = 0
  BY <1>4 DEF PInv, Freed, FreeIsLast, PTypes, Before
<1>8. UNCHANGED <<log, received, content, page, must, store, errors>>
  BY DEF StartWrite, Terminate, InitObject, kernelVars, pageVars
<1>9. HandledBy(t)'
  <2>1. HandledBy(t)
    BY <1>7 DEF DInv, Handled
  <2>2. pc[t] \notin {"idle", "finish_write", "broadcast_write"}
    BY <1>4 DEF Before
  <2> QED
    BY <1>2, <1>3, <1>4, <1>6, <1>8, <2>1, <2>2 DEF HandledBy, SameJob
<1>10. \A p \in Page : Pushed(t, p) => Pushed(t, p)'
  BY <1>4, <1>6, <1>8, SameStore DEF Pushed, Before
<1>11. \A p \in Page : ~Busy(t, {"request"}, p)
  BY <1>4, SMTT(30) DEF Busy
<1>12. /\ pc'[t] \notin Before /\ pc'[t] \notin {"finish_read", "broadcast_read"}
       /\ pc[t] \notin {"finish_read", "broadcast_read"}
  BY <1>4, <1>6 DEF Before
<1> QED
  BY <1>2, <1>3, <1>6, <1>7, <1>8, <1>9, <1>10, <1>11, <1>12, DataMoves

\* pager_port_start_read: no write is in progress, and what was to be written
\* before the request has been.
LEMMA NothingUnwritten ==
    ASSUME DInv, PInv, NoWriter, NEW t \in Thread, Kind(t) = "request", Checked(t), writers = 0,
           NEW p \in Page, Busy(t, {"request"}, p)
    PROVE  ~Unwritten(p)
<1>1. pc[t] \in Before /\ job[t].number = seqno
  BY DEF Checked, InTurn, Before, PInv, Turns
<1>2. freed = 0
  BY <1>1, Turn
<1>3. Ordered /\ Handled
  BY <1>2 DEF DInv
<1>4. \A i \in 1 .. Len(log) : ~Queued(i, Paging, p)
  BY <1>3 DEF Ordered
<1>5. ASSUME NEW u \in Thread, Busy(u, Paging, p) PROVE FALSE
  <2>1. pc[u] \in Before => job[u].number < job[t].number
    BY <1>3, <1>5 DEF Ordered
  <2>2. pc[u] \notin Before
    BY <1>1, <2>1, SMTT(30) DEF PInv, Turns, PTypes, IsJob
  <2>3. Kind(u) \in Paging /\ job[u].todo # {}
    BY <1>5 DEF Busy
  <2>4. pc[u] \in InWrite \cup {"broadcast"}
    BY <1>3, <2>2, <2>3 DEF Handled, HandledBy
  <2>5. Writing(u)
    BY <2>3, <2>4 DEF Writing, InWrite, Paging
  <2> QED
    BY <2>5 DEF NoWriter
<1> QED
  BY <1>4, <1>5 DEF Unwritten

LEMMA DataRead ==
    ASSUME DInv, PInv, NoWriter, NEW t \in Thread, StartRead(t), writers = 0
    PROVE  DInv'
<1>1. PTypes
  BY DEF PInv
<1>2. /\ Kind(t) = "request" /\ Checked(t) /\ Goto(t, "broadcast")
      /\ job' = [job EXCEPT ![t].value = errors]
      /\ UNCHANGED <<log, received, content, page, must, store, errors>>
  BY DEF StartRead, Unlock, kernelVars, pageVars
<1>3. SameJob(t) /\ job'[t].todo = job[t].todo /\ job'[t].value = errors
  <2>1. SameJob(t)
    BY <1>1, <1>2, JobSame
  <2>2. job'[t].todo = job[t].todo /\ job'[t].value = errors
    BY <1>1, <1>2, SMTT(30) DEF PTypes, IsJob
  <2> QED
    BY <2>1, <2>2
<1>4. pc[t] \in Before
  BY <1>2 DEF Checked, InTurn, Before
<1>5. pc'[t] = "broadcast" /\ Others(t) /\ Kind(t)' = Kind(t)
  BY <1>1, <1>2, <1>3, OthersGoto DEF SameJob, Kind
<1>6. freed = 0
  BY <1>4 DEF PInv, Freed, FreeIsLast, PTypes, Before
<1>7. HandledBy(t)'
  <2>1. HandledBy(t)
    BY <1>6 DEF DInv, Handled
  <2> QED
    BY <1>2, <1>3, <1>5, <2>1 DEF HandledBy, SameJob, Paging
<1>8. \A p \in Page : Busy(t, {"request"}, p) => ~Unwritten(p)
  BY <1>2, NothingUnwritten
<1>9. errors \in {0, 1}
  BY <1>6 DEF DInv, Handled
<1>10. ASSUME NEW p \in Page, Busy(t, {"request"}, p), Requested(t, p) PROVE Requested(t, p)'
  <2>1. Sound(p)
    BY <1>4, <1>8, <1>10 DEF Requested
  <2>2. IF job'[t].value > 0 THEN errors = 1 ELSE Fine(p)'
    BY <1>2, <1>3, <1>9, <2>1, SameStore, SMTT(30) DEF Sound
  <2> QED
    BY <1>2, <1>5, <1>10, <2>2 DEF Requested, Before
<1>11. \A p \in Page : ~Busy(t, {"initialize"}, p)
  BY <1>2 DEF Busy
<1>12. /\ pc'[t] \notin Before /\ pc'[t] \notin {"finish_read", "broadcast_read"}
       /\ pc[t] \notin {"finish_read", "broadcast_read"}
  BY <1>4, <1>5 DEF Before
<1> QED
  BY <1>2, <1>3, <1>5, <1>6, <1>7, <1>8, <1>10, <1>11, <1>12, DataMoves

\* Behind the broadcast: to the device, or to the end.
LEMMA DataBroadcast ==
    ASSUME DInv, PInv, freed = 0, NEW t \in Thread,
           \/ BroadcastSeqno(t) /\ After(t) # "idle"
           \/ FinishRead(t) /\ readers = 1
           \/ FinishWrite(t) /\ writers = 1
    PROVE  DInv'
<1>1. PTypes /\ HandledBy(t) /\ Kind(t) \in Kinds
  BY DEF PInv, DInv, Handled, Places
<1>2. job' = job
  <2>1. CASE BroadcastSeqno(t) /\ After(t) # "idle"
    BY <1>1, <2>1 DEF BroadcastSeqno, PTypes
  <2> QED
    BY <2>1 DEF FinishRead, FinishWrite
<1>3. SameJob(t) /\ Kind(t)' = Kind(t)
  BY <1>1, <1>2, JobSame DEF Kind
<1>4. UNCHANGED <<log, received, content, page, must, store, errors>>
  BY DEF BroadcastSeqno, FinishRead, FinishWrite, kernelVars, pageVars
<1>5. CASE BroadcastSeqno(t)
  <2>1. pc'[t] = After(t) /\ Others(t) /\ pc[t] = "broadcast" /\ After(t) # "idle"
    BY <1>1, <1>2, <1>5, OthersWake DEF BroadcastSeqno, FinishRead, FinishWrite
  <2>2. \/ Kind(t) = "request" /\ pc'[t] = IF job[t].value > 0 THEN "error" ELSE "read"
        \/ Kind(t) = "write" /\ pc'[t] = "write"
        \/ Kind(t) = "initialize" /\ pc'[t] = "has_page"
        \/ Kind(t) = "terminate" /\ pc'[t] = "rights"
    BY <1>1, <2>1 DEF After, Kinds, Carrying
  <2>3. pc'[t] \in {"error", "read", "write", "has_page", "rights"}
    BY <2>2
  <2>4. HandledBy(t)'
    BY <1>1, <1>2, <1>3, <1>4, <2>1, <2>2, <2>3 DEF HandledBy, InRead, InWrite, Paging
  <2>5. ASSUME NEW p \in Page, Busy(t, {"initialize"}, p), Pushed(t, p) PROVE Pushed(t, p)'
    <3>1. pc'[t] = "has_page"
      BY <2>2, <2>5 DEF Busy
    <3> QED
      BY <1>4, <2>1, <2>5, <3>1, SameStore DEF Pushed
  <2>6. ASSUME NEW p \in Page, Busy(t, {"request"}, p), Requested(t, p) PROVE Requested(t, p)'
    <3>1. pc'[t] = IF job[t].value > 0 THEN "error" ELSE "read"
      BY <2>2, <2>6 DEF Busy
    <3>2. page[p] = "wanted" /\ IF job[t].value > 0 THEN errors = 1 ELSE Fine(p)'
      BY <1>4, <2>1, <2>6, SameStore DEF Requested
    <3> QED
      BY <1>4, <3>1, <3>2 DEF Requested, Before
  <2>7. pc'[t] \notin Before \cup {"finish_read", "broadcast_read"} /\ pc[t] \notin Before
    BY <2>1, <2>3 DEF Before
  <2> QED
    BY <1>2, <1>3, <1>4, <2>1, <2>4, <2>5, <2>6, <2>7, DataMoves
<1>6. CASE FinishRead(t) /\ readers = 1
  <2>1. pc[t] = "finish_read" /\ pc'[t] = "broadcast_read" /\ Others(t) /\ Kind(t) = "request"
    BY <1>1, <1>2, <1>6, OthersGoto DEF FinishRead, PInv, Places
  <2>2. HandledBy(t)'
    BY <1>1, <1>2, <1>3, <1>4, <2>1 DEF HandledBy, Paging
  <2>3. \A p, kinds : ~Busy(t, kinds, p)
    BY <2>1 DEF Busy
  <2>4. pc'[t] \notin Before
    BY <2>1 DEF Before
  <2> QED
    BY <1>2, <1>3, <1>4, <2>1, <2>2, <2>3, <2>4, DataMoves
<1>7. CASE FinishWrite(t) /\ writers = 1
  <2>1. /\ pc[t] = "finish_write" /\ pc'[t] = "broadcast_write" /\ Others(t)
        /\ Kind(t) \in {"write", "initialize"}
    BY <1>1, <1>2, <1>7, OthersGoto DEF FinishWrite, PInv, Places
  <2>2. HandledBy(t)'
    BY <1>1, <1>2, <1>3, <1>4, <2>1 DEF HandledBy
  <2>3. \A p, kinds : ~Busy(t, kinds, p)
    BY <1>1, <2>1 DEF Busy, HandledBy, Paging
  <2>4. pc'[t] \notin Before
    BY <2>1 DEF Before
  <2> QED
    BY <1>2, <1>3, <1>4, <2>1, <2>2, <2>3, <2>4, DataMoves
<1> QED
  BY <1>5, <1>6, <1>7

LEMMA NoJobHandled ==
    ASSUME NEW t \in Thread, job'[t] = NoJob, pc'[t] = "idle"
    PROVE  HandledBy(t)' /\ job'[t].todo = {} /\ \A kinds, p : ~Busy(t, kinds, p)'
<1>1. Plain("init") \in Message
  BY PlainType DEF Kinds
<1>2. /\ NoJob.message = Plain("init") /\ NoJob.todo = {} /\ NoJob.message.kind = "init"
  BY DEF NoJob, Handle, Plain
<1>3. Kind(t)' = "init"
  BY <1>2 DEF Kind
<1> QED
  BY <1>1, <1>2, <1>3 DEF HandledBy, Busy, Paging

\* A handler is done.
LEMMA DataDone ==
    ASSUME DInv, PInv, freed = 0, NEW t \in Thread,
           \/ BroadcastSeqno(t) /\ After(t) = "idle"
           \/ FinishRead(t) /\ readers # 1
           \/ FinishWrite(t) /\ writers # 1
           \/ BroadcastRead(t) \/ BroadcastWrite(t) \/ DropRights(t)
    PROVE  DInv'
<1>1. PTypes /\ HandledBy(t) /\ Kind(t) \in Kinds
  BY DEF PInv, DInv, Handled, Places
<1>2. job' = [job EXCEPT ![t] = NoJob]
  BY DEF BroadcastSeqno, FinishRead, FinishWrite, BroadcastRead, BroadcastWrite, DropRights,
               Done
<1>3. \A u \in Thread : job'[u] = IF u = t THEN NoJob ELSE job[u]
  BY <1>1, <1>2 DEF PTypes
<1>4. pc'[t] = "idle" /\ Others(t)
  <2>1. CASE BroadcastSeqno(t) /\ After(t) = "idle"
    BY <1>1, <1>3, <2>1, OthersWake, SMTT(30) DEF BroadcastSeqno
  <2>2. CASE BroadcastRead(t)
    BY <1>1, <1>3, <2>2, OthersWake DEF BroadcastRead
  <2>3. CASE BroadcastWrite(t)
    BY <1>1, <1>3, <2>3, OthersWake DEF BroadcastWrite
  <2>4. CASE Goto(t, "idle")
    BY <1>1, <1>3, <2>4, OthersGoto
  <2> QED
    BY <2>1, <2>2, <2>3, <2>4 DEF FinishRead, FinishWrite, DropRights, Done
<1>5. UNCHANGED <<log, received, content, page, must, store, errors>>
  BY DEF BroadcastSeqno, FinishRead, FinishWrite, BroadcastRead, BroadcastWrite, DropRights,
         kernelVars, pageVars
<1>6. \/ pc[t] = "broadcast" /\ After(t) = "idle"
      \/ pc[t] \in {"finish_read", "broadcast_read", "finish_write", "broadcast_write", "rights"}
  BY DEF BroadcastSeqno, FinishRead, FinishWrite, BroadcastRead, BroadcastWrite, DropRights
<1>7. \A p : ~Busy(t, Paging, p)
  <2>1. CASE pc[t] = "broadcast" /\ After(t) = "idle"
    BY <2>1 DEF After, Busy, Paging
  <2>2. CASE pc[t] \in {"finish_read", "broadcast_read", "finish_write", "broadcast_write", "rights"}
    BY <1>1, <2>2 DEF HandledBy, Busy, Paging, Before, InWrite
  <2> QED
    BY <1>6, <2>1, <2>2
<1>8. HandledBy(t)' /\ job'[t].todo = {} /\ \A kinds, p : ~Busy(t, kinds, p)'
  BY <1>3, <1>4, NoJobHandled
<1>9. \A p : Unwritten(p)' <=> Unwritten(p)
  <2>1. \A u \in Thread : \A p : Busy(u, Paging, p)' <=> Busy(u, Paging, p)
    BY <1>4, <1>7, <1>8, ThreadStays
  <2> QED
    BY <1>5, <2>1 DEF Unwritten, Queued
<1>10. \A p : HeldBy(t, p)' /\ Left(t, p)
  BY <1>5, <1>8, <1>9 DEF HeldBy, Left
<1>11. pc'[t] \notin Before
  BY <1>4 DEF Before
<1> QED
  BY <1>4, <1>5, <1>8, <1>10, <1>11, DataStep DEF DInv, Tables

-----------------------------------------------------------------------------
(* The device                                                              *)

LEMMA MinOf == ASSUME NEW s \in SUBSET Page, s # {} PROVE Min(s) \in s
<1>1. PICK x \in s : \A y \in s : x <= y
  BY Least, PagerPortAssumption
<1> QED
  BY <1>1 DEF Min

LEMMA PagesOf ==
    ASSUME NEW t \in Thread, HandledBy(t)
    PROVE  job[t].todo \subseteq Page
<1>1. PICK m : m = job[t].message
  OBVIOUS
<1>2. m \in Message /\ job[t].todo \subseteq DOMAIN m.data
  BY <1>1 DEF HandledBy
<1>3. m.data \in UNION {[P -> Version] : P \in SUBSET Page}
  BY <1>2 DEF Message
<1> QED
  BY <1>2, <1>3

\* The next page of a write has its turn.
LEMMA DoneOne ==
    ASSUME PTypes, NEW t \in Thread, HandledBy(t), Kind(t) \in Paging, job[t].todo # {},
           NextOne(t), content' = content
    PROVE  /\ NextPage(t) \in job[t].todo /\ SameJob(t) /\ Others(t) /\ HandledBy(t)'
           /\ \A kinds, p : Busy(t, kinds, p)' => Busy(t, kinds, p)
           /\ \A p : Busy(t, Paging, p) => Busy(t, Paging, p)' \/ p = NextPage(t)
           /\ \A p : ~Busy(t, {"initialize"}, p)' /\ ~Busy(t, {"request"}, p)'
           /\ pc'[t] \notin Before
<1>1. NextPage(t) \in job[t].todo
  BY PagesOf, MinOf DEF NextPage
<1>2. PICK left : left = job[t].todo \ {NextPage(t)}
  OBVIOUS
<1>3. PICK label : label = IF left = {} THEN "finish_write"
                           ELSE IF Kind(t) = "write" THEN "write" ELSE "has_page"
  OBVIOUS
<1>4. job' = [job EXCEPT ![t].todo = left] /\ Goto(t, label)
  BY <1>2, <1>3 DEF NextOne
<1>5. SameJob(t)
  BY <1>4, JobSame
<1>6. job'[t].todo = left
  BY <1>4, SMTT(30) DEF PTypes, IsJob
<1>7. pc'[t] = label /\ Others(t) /\ Kind(t)' = Kind(t)
  BY <1>4, <1>5, OthersGoto DEF SameJob, Kind
<1>8. Kind(t) = "initialize" => left = {}
  BY <1>1, <1>2 DEF HandledBy
<1>9. HandledBy(t)'
  BY <1>2, <1>3, <1>5, <1>6, <1>7, <1>8, PagesOf DEF HandledBy, SameJob, Paging, InWrite
<1>10. pc[t] \notin {"finish_read", "broadcast_read"} /\ pc'[t] \notin {"finish_read", "broadcast_read"}
  BY <1>3, <1>7 DEF HandledBy, Before, InWrite
<1>11. /\ \A kinds, p : Busy(t, kinds, p)' => Busy(t, kinds, p)
       /\ \A p : Busy(t, Paging, p) => Busy(t, Paging, p)' \/ p = NextPage(t)
  BY <1>2, <1>6, <1>7, <1>10 DEF Busy
<1>12. \A p : ~Busy(t, {"initialize"}, p)' /\ ~Busy(t, {"request"}, p)'
  BY <1>6, <1>7, <1>8 DEF Busy, Paging
<1>13. pc'[t] \notin Before
  BY <1>3, <1>7 DEF Before
<1> QED
  BY <1>1, <1>5, <1>7, <1>9, <1>11, <1>12, <1>13

LEMMA UnwrittenStays ==
    ASSUME NEW t \in Thread, Others(t), log' = log, NEW p,
           Busy(t, Paging, p) => Busy(t, Paging, p)'
    PROVE  Unwritten(p) => Unwritten(p)'
<1>1. \A u \in Thread : Busy(u, Paging, p) => Busy(u, Paging, p)'
  BY ThreadStays
<1> QED
  BY <1>1 DEF Unwritten, Queued

\* A page has been done: written, found there, or given up.
LEMMA DataDoneOne ==
    ASSUME DInv, PInv, freed = 0, NEW t \in Thread, Kind(t) \in Paging, job[t].todo # {},
           NextOne(t), Tables', UNCHANGED <<log, received, content, page, must>>,
           errors' = errors \/ errors' = 1,
           NEW r, r = NextPage(t), \A p \in Page : p # r => store'[p] = store[p], Sound(r)'
    PROVE  DInv'
<1>1. PTypes /\ HandledBy(t)
  BY DEF PInv, DInv, Handled
<1>2. /\ NextPage(t) \in job[t].todo /\ SameJob(t) /\ Others(t) /\ HandledBy(t)'
      /\ \A kinds, p : Busy(t, kinds, p)' => Busy(t, kinds, p)
      /\ \A p : Busy(t, Paging, p) => Busy(t, Paging, p)' \/ p = NextPage(t)
      /\ \A p : ~Busy(t, {"initialize"}, p)' /\ ~Busy(t, {"request"}, p)'
      /\ pc'[t] \notin Before
  BY <1>1, DoneOne
<1>3. Busy(t, Paging, NextPage(t))
  BY <1>1, <1>2 DEF Busy, HandledBy, Paging, Before, InWrite
<1>4. ASSUME NEW p \in Page PROVE Left(t, p)
  <2>1. CASE p = r
    BY <1>3, <2>1 DEF Left
  <2>2. CASE p # r
    <3>1. Unwritten(p) => Unwritten(p)'
      BY <1>2, <2>2, UnwrittenStays
    <3> QED
      BY <2>2, <3>1 DEF Left
  <2> QED
    BY <2>1, <2>2
<1>5. \A p : HeldBy(t, p)'
  BY <1>2 DEF HeldBy
<1> QED
  BY <1>2, <1>4, <1>5, DataStep DEF SameJob

\* What holds at a step of a read or a write.
LEMMA AtDevice ==
    ASSUME DInv, PInv, NEW t \in Thread, pc[t] \in InRead \cup InWrite
    PROVE  /\ freed = 0 /\ PTypes /\ Tables /\ Handled /\ HandledBy(t) /\ pc[t] \notin Before
           /\ \A p \in Page : HeldBy(t, p)
           /\ pc[t] \in InRead => Kind(t) = "request"
           /\ pc[t] \in InWrite => Kind(t) \in Paging
<1>1. freed = 0
  BY DEF PInv, Freed, FreeIsLast, PTypes, InRead, InWrite
<1> QED
  BY <1>1 DEF PInv, DInv, Handled, Held, Places, InRead, InWrite, Paging, Before

\* default_read
LEMMA DataDefaultRead ==
    ASSUME DInv, PInv, NEW t \in Thread, Read(t)
    PROVE  DInv'
<1>1. pc[t] = "read" /\ Goto(t, "reply")
  BY DEF Read
<1>2. /\ freed = 0 /\ PTypes /\ Tables /\ Handled /\ HandledBy(t) /\ pc[t] \notin Before
      /\ \A p \in Page : HeldBy(t, p)
      /\ Kind(t) = "request"
  BY <1>1, AtDevice DEF InRead
<1>3. PICK p \in Page : job[t].todo = {p}
  BY <1>2 DEF HandledBy
<1>4. ThePage(t) = p
  BY <1>3 DEF ThePage
<1>5. PICK v : job' = [job EXCEPT ![t].value = v]
  BY DEF Read
<1>6. SameJob(t) /\ job'[t].value = v /\ job'[t].todo = job[t].todo
  <2>1. SameJob(t)
    BY <1>2, <1>5, JobSame
  <2>2. job'[t].value = v /\ job'[t].todo = job[t].todo
    BY <1>2, <1>5, SMTT(30) DEF PTypes, IsJob
  <2> QED
    BY <2>1, <2>2
<1>7. pc'[t] = "reply" /\ Others(t) /\ Kind(t)' = Kind(t)
  BY <1>1, <1>2, <1>6, OthersGoto DEF SameJob, Kind
<1>8. UNCHANGED <<log, received, content, page, must, errors>>
  BY DEF Read, kernelVars, pageVars
<1>9. \/ /\ v = store[p]
         /\ store' = [store EXCEPT ![p] = IF job[t].message.write = 1 THEN Absent ELSE @]
      \/ v = DeviceError /\ store' = store
  <2>1. \/ /\ job' = [job EXCEPT ![t].value = store[p]]
           /\ store' = [store EXCEPT ![p] = IF job[t].message.write = 1 THEN Absent ELSE @]
        \/ job' = [job EXCEPT ![t].value = DeviceError] /\ store' = store
    BY <1>4 DEF Read
  <2>2. CASE job' = [job EXCEPT ![t].value = store[p]]
    <3>1. job'[t].value = store[p]
      BY <1>2, <2>2, SMTT(30) DEF PTypes, IsJob
    <3>2. CASE job' = [job EXCEPT ![t].value = DeviceError]
      <4>1. job'[t].value = DeviceError
        BY <1>2, <3>2, SMTT(30) DEF PTypes, IsJob
      <4> QED
        BY <1>6, <2>1, <3>1, <4>1
    <3> QED
      BY <1>6, <2>1, <3>1, <3>2
  <2>3. CASE job' = [job EXCEPT ![t].value = DeviceError]
    <3>1. job'[t].value = DeviceError
      BY <1>2, <2>3, SMTT(30) DEF PTypes, IsJob
    <3> QED
      BY <1>6, <2>1, <2>2, <3>1
  <2> QED
    BY <2>1, <2>2, <2>3
<1>10. /\ Tables' /\ \A q \in Page : q # p => store'[q] = store[q]
       /\ store'[p] = store[p] \/ (v = store[p] /\ store'[p] = Absent /\ job[t].message.write = 1)
  BY <1>2, <1>8, <1>9 DEF Tables
<1>11. Busy(t, {"request"}, p) /\ \A kinds, q : Busy(t, kinds, q)' <=> Busy(t, kinds, q)
  BY <1>1, <1>2, <1>3, <1>6, <1>7 DEF Busy
<1>12. page[p] = "wanted" /\ Fine(p)
  BY <1>1, <1>2, <1>11 DEF HeldBy, Requested
<1>13. content[p] \in Version /\ store[p] \in Version \cup {Absent, Torn}
  BY <1>2 DEF PTypes, Tables
<1>14. /\ \/ v = content[p]
          \/ v = Absent /\ content[p] = 0
          \/ v = DeviceError
       /\ v \in {Absent, DeviceError} \/ job[t].message.write = 0 => Fine(p)'
  BY <1>8, <1>9, <1>10, <1>12, <1>13, SMTT(30) DEF Fine, Absent, Torn, DeviceError, Version
<1>15. Requested(t, p)'
  BY <1>6, <1>7, <1>8, <1>12, <1>14 DEF Requested, Sound, SameJob, Before
<1>16. ASSUME NEW q \in Page PROVE HeldBy(t, q)' /\ (q # p => ~Busy(t, {"request"}, q))
  BY <1>2, <1>3, <1>6, <1>7, <1>15 DEF HeldBy, Busy
<1>17. HandledBy(t)'
  BY <1>2, <1>6, <1>7, <1>8 DEF HandledBy, SameJob, InRead, Paging
<1>18. ASSUME NEW q \in Page PROVE Left(t, q) \/ Answered(t, q)
  <2>1. CASE q = p
    <3>1. HeldPage(p)'
      BY <1>8, <1>12 DEF HeldPage
    <3> QED
      BY <1>2, <1>11, <2>1, <3>1 DEF Answered
  <2>2. CASE q # p
    <3>1. Unwritten(q) => Unwritten(q)'
      BY <1>7, <1>8, <1>11, UnwrittenStays
    <3> QED
      BY <1>8, <1>10, <2>2, <3>1 DEF Left
  <2> QED
    BY <2>1, <2>2
<1>19. ASSUME NEW q \in Page, Busy(t, {"request"}, q) PROVE ~Unwritten(q)
  BY <1>2, <1>19 DEF DInv, Ordered, Unwritten
<1>20. pc'[t] \notin Before
  BY <1>7 DEF Before
<1> QED
  BY <1>2, <1>6, <1>7, <1>8, <1>10, <1>11, <1>16, <1>17, <1>18, <1>19, <1>20, DataStep DEF SameJob

\* memory_object_data_supply, _provided, _unavailable, _error
LEMMA DataReply ==
    ASSUME DInv, PInv, NEW t \in Thread, Reply(t)
    PROVE  DInv'
<1>1. pc[t] \in {"reply", "error"} /\ Goto(t, "finish_read") /\ job' = job
  BY DEF Reply
<1>2. /\ freed = 0 /\ PTypes /\ Tables /\ Handled /\ HandledBy(t) /\ pc[t] \notin Before
      /\ \A p \in Page : HeldBy(t, p)
      /\ Kind(t) = "request"
  BY <1>1, AtDevice DEF InRead
<1>3. PICK p \in Page : job[t].todo = {p}
  BY <1>2 DEF HandledBy
<1>4. ThePage(t) = p
  BY <1>3 DEF ThePage
<1> DEFINE failed == pc[t] = "error" \/ job[t].value = DeviceError
           kept == page[p] = "wanted" /\ object = "active"
<1>5. /\ page' = [page EXCEPT ![p] = IF ~kept THEN @ ELSE IF failed THEN "out" ELSE "in"]
      /\ must' = [must EXCEPT ![p] = IF kept /\ ~failed /\ job[t].value # Absent
                                     THEN job[t].message.write ELSE @]
  BY <1>4 DEF Reply
<1>6. SameJob(t) /\ pc'[t] = "finish_read" /\ Others(t) /\ Kind(t)' = Kind(t)
  <2>1. SameJob(t)
    BY <1>1, <1>2, JobSame
  <2> QED
    BY <1>1, <1>2, <2>1, OthersGoto DEF SameJob, Kind
<1>7. UNCHANGED <<log, received, content, store, errors>>
  BY DEF Reply
<1>8. Busy(t, {"request"}, p) /\ \A kinds, q : ~Busy(t, kinds, q)'
  BY <1>1, <1>2, <1>3, <1>6 DEF Busy
<1>9. Requested(t, p) /\ ~Unwritten(p)
  BY <1>2, <1>8 DEF HeldBy, DInv, Ordered, Unwritten
<1>10. job[t].message.write \in {0, 1}
  BY <1>2 DEF HandledBy, Message
<1>11. Tables' /\ \A q \in Page : q # p => page'[q] = page[q] /\ must'[q] = must[q]
  <2>1. page' \in [Page -> {"in", "out", "wanted"}]
    BY <1>2, <1>5 DEF Tables
  <2>2. must' \in [Page -> {0, 1}]
    BY <1>2, <1>5, <1>10 DEF Tables
  <2> QED
    BY <1>2, <1>5, <1>7, <2>1, <2>2 DEF Tables
<1>12. ~Unwritten(p)'
  <2>1. \A u \in Thread : Busy(u, Paging, p)' => Busy(u, Paging, p)
    BY <1>6, <1>8, ThreadStays
  <2> QED
    BY <1>7, <1>9, <2>1 DEF Unwritten, Queued
<1>13. HeldPage(p)'
  <2>1. page[p] = "wanted"
    BY <1>9 DEF Requested
  <2>2. CASE ~kept
    <3>1. page'[p] = "wanted"
      BY <1>2, <1>5, <2>1, <2>2 DEF Tables
    <3> QED
      BY <3>1 DEF HeldPage
  <2>3. CASE kept /\ failed
    <3>1. page'[p] = "out"
      BY <1>2, <1>5, <2>3 DEF Tables
    <3>2. Sound(p)
      BY <1>1, <1>9, <2>3, SMTT(30) DEF Requested, Sound
    <3> QED
      BY <1>7, <3>1, <3>2, SameStore DEF HeldPage
  <2>4. CASE kept /\ ~failed
    <3>1. page'[p] = "in"
      BY <1>2, <1>5, <2>4 DEF Tables
    <3>2. must'[p] = 0 => job[t].value = Absent \/ job[t].message.write = 0
      BY <1>2, <1>5, <2>4 DEF Tables
    <3>3. must'[p] = 0 => Sound(p)
      BY <1>1, <1>9, <2>4, <3>2 DEF Requested
    <3> QED
      BY <1>7, <1>12, <3>1, <3>3, SameStore DEF HeldPage
  <2> QED
    BY <2>2, <2>3, <2>4
<1> HIDE DEF failed, kept
<1>14. HandledBy(t)'
  BY <1>1, <1>2, <1>6, <1>7 DEF HandledBy, SameJob, InRead, Paging
<1>15. ASSUME NEW q \in Page PROVE HeldBy(t, q)' /\ (Left(t, q) \/ Answered(t, q))
  <2>1. CASE q = p
    BY <1>2, <1>8, <1>13, <2>1 DEF Answered, HeldBy
  <2>2. CASE q # p
    <3>1. Unwritten(q) => Unwritten(q)'
      <4>1. ~Busy(t, Paging, q)
        BY <1>2 DEF Busy, Paging
      <4> QED
        BY <1>6, <1>7, <4>1, UnwrittenStays
    <3> QED
      BY <1>7, <1>8, <1>11, <2>2, <3>1 DEF Left, HeldBy
  <2> QED
    BY <2>1, <2>2
<1>16. pc'[t] \notin Before
  BY <1>6 DEF Before
<1> QED
  BY <1>2, <1>6, <1>7, <1>8, <1>11, <1>14, <1>15, <1>16, DataStep DEF SameJob

\* default_has_page and default_write
LEMMA DataWrite ==
    ASSUME DInv, PInv, NEW t \in Thread,
           HasPage(t) \/ Write(t) \/ Written(t) \/ WriteError(t)
    PROVE  DInv'
<1>1. pc[t] \in {"has_page", "write", "writing", "write_error"}
  BY DEF HasPage, Write, Written, WriteError
<1>2. /\ freed = 0 /\ PTypes /\ Tables /\ Handled /\ HandledBy(t) /\ pc[t] \notin Before
      /\ \A p \in Page : HeldBy(t, p)
      /\ Kind(t) \in Paging
  BY <1>1, AtDevice DEF InWrite
<1>3. job[t].todo # {} /\ job[t].todo \subseteq Page
  BY <1>1, <1>2, PagesOf DEF HandledBy
<1>4. PICK p : p = NextPage(t)
  OBVIOUS
<1>5. p \in job[t].todo /\ p \in Page
  BY <1>3, <1>4, MinOf DEF NextPage
<1>6. UNCHANGED <<log, received, content, page, must>>
  BY DEF HasPage, Write, Written, WriteError, kernelVars, pageVars
<1>7. /\ content[p] \in Version /\ store[p] \in Version \cup {Absent, Torn}
      /\ \A q : ~Busy(t, {"request"}, q)
      /\ Busy(t, Paging, p)
      /\ Kind(t) = "initialize" => job[t].todo = {p} /\ Busy(t, {"initialize"}, p) /\ Pushed(t, p)
  BY <1>1, <1>2, <1>5 DEF PTypes, Tables, Busy, Paging, HandledBy, HeldBy
\* the thread is at the same page
<1>8. ASSUME NEW label \in {"write", "writing", "write_error"}, Goto(t, label), job' = job,
             errors' = errors, Tables', \A q \in Page : q # p => store'[q] = store[q],
             Kind(t) = "initialize" => (errors = 0 => content[p] = 0)
      PROVE  DInv'
  <2>1. SameJob(t)
    BY <1>2, <1>8, JobSame
  <2>2. pc'[t] = label /\ Others(t) /\ Kind(t)' = Kind(t)
    BY <1>2, <1>8, <2>1, OthersGoto DEF SameJob, Kind
  <2>3. HandledBy(t)'
    BY <1>1, <1>2, <1>3, <1>6, <1>8, <2>2 DEF HandledBy, InWrite, Paging
  <2>4. \A kinds, q : Busy(t, kinds, q)' <=> Busy(t, kinds, q)
    BY <1>1, <1>8, <2>2 DEF Busy
  <2>5. ASSUME NEW q \in Page PROVE HeldBy(t, q)' /\ Left(t, q)
    <3>1. Unwritten(q) => Unwritten(q)'
      BY <1>6, <2>2, <2>4, UnwrittenStays
    <3>2. Left(t, q)
      BY <1>6, <1>7, <1>8, <3>1 DEF Left
    <3>3. Busy(t, {"initialize"}, q) => q = p /\ Kind(t) = "initialize"
      BY <1>7 DEF Busy
    <3>4. HeldBy(t, q)'
      BY <1>6, <1>7, <1>8, <2>2, <2>4, <3>3 DEF HeldBy, Pushed
    <3> QED
      BY <3>2, <3>4
  <2>6. pc'[t] \notin Before
    BY <1>8, <2>2 DEF Before
  <2> QED
    BY <1>2, <1>6, <1>7, <1>8, <2>1, <2>2, <2>3, <2>4, <2>5, <2>6, DataStep DEF SameJob
\* the page has been done
<1>9. ASSUME NextOne(t), Tables', errors' = errors \/ errors' = 1,
             \A q \in Page : q # p => store'[q] = store[q], Sound(p)'
      PROVE  DInv'
  BY <1>2, <1>3, <1>4, <1>6, <1>9, DataDoneOne
<1>10. CASE HasPage(t)
  <2>1. Kind(t) = "initialize" /\ UNCHANGED <<store, errors>> /\ pc[t] = "has_page"
    BY <1>2, <1>10 DEF HasPage, HandledBy
  <2>2. Tables' /\ Sound(p)
    BY <1>2, <1>6, <1>7, <2>1 DEF Tables, Pushed
  <2>3. CASE store[p] = Absent /\ Goto(t, "write") /\ job' = job
    <3>1. errors = 0 => content[p] = 0
      BY <1>7, <2>2, <2>3, SMTT(30) DEF Sound, Fine, Version, Absent
    <3> QED
      BY <1>8, <2>1, <2>2, <2>3, <3>1
  <2>4. CASE NextOne(t)
    BY <1>6, <1>9, <2>1, <2>2, <2>4, SameStore
  <2> QED
    BY <1>4, <1>10, <2>3, <2>4 DEF HasPage
<1>11. CASE Write(t)
  <2>1. job' = job /\ errors' = errors /\ pc[t] = "write"
    BY <1>11 DEF Write
  <2>2. Kind(t) = "initialize" => (errors = 0 => content[p] = 0)
    BY <1>7, <2>1 DEF Pushed
  <2>3. CASE store' = [store EXCEPT ![p] = Torn] /\ Goto(t, "writing")
    <3>1. Tables' /\ \A q \in Page : q # p => store'[q] = store[q]
      BY <1>2, <1>6, <2>3 DEF Tables
    <3> QED
      BY <1>8, <2>1, <2>2, <2>3, <3>1
  <2>4. CASE store' = store /\ Goto(t, "write_error")
    <3>1. Tables'
      BY <1>2, <1>6, <2>4 DEF Tables
    <3> QED
      BY <1>8, <2>1, <2>2, <2>4, <3>1
  <2> QED
    BY <1>4, <1>11, <2>3, <2>4 DEF Write
<1>12. CASE Written(t)
  <2>1. errors' = errors /\ pc[t] = "writing"
    BY <1>12 DEF Written
  <2>2. Kind(t) = "initialize" => (errors = 0 => content[p] = 0)
    BY <1>7, <2>1 DEF Pushed
  <2>3. CASE store' = [store EXCEPT ![p] = job[t].message.data[p]] /\ NextOne(t)
    <3>1. /\ Kind(t) = "write" => job[t].message.data[p] = content[p]
          /\ Kind(t) = "initialize" => job[t].message.data[p] = 0
      BY <1>2, <1>5 DEF HandledBy
    <3>2. job[t].message.data[p] \in Version
      BY <1>2, <1>7, <3>1, PagerPortAssumption, SMTT(30) DEF Paging, Version
    <3>3. Tables' /\ \A q \in Page : q # p => store'[q] = store[q]
      BY <1>2, <1>6, <2>3, <3>2 DEF Tables
    <3>4. store'[p] = job[t].message.data[p]
      BY <1>2, <1>5, <2>3 DEF Tables
    <3>5. Sound(p)'
      BY <1>2, <1>6, <2>1, <2>2, <3>1, <3>4 DEF Sound, Fine, Paging
    <3> QED
      BY <1>9, <2>1, <2>3, <3>3, <3>5
  <2>4. CASE store' = store /\ job' = job /\ Goto(t, "write_error")
    <3>1. Tables'
      BY <1>2, <1>6, <2>4 DEF Tables
    <3> QED
      BY <1>8, <2>1, <2>2, <2>4, <3>1
  <2> QED
    BY <1>4, <1>12, <2>3, <2>4 DEF Written
<1>13. CASE WriteError(t)
  <2>1. NextOne(t) /\ errors' = 1 /\ store' = store
    BY <1>13 DEF WriteError
  <2>2. Tables' /\ Sound(p)'
    BY <1>2, <1>6, <2>1, SMTT(30) DEF Tables, Sound
  <2> QED
    BY <1>9, <2>1, <2>2
<1> QED
  BY <1>10, <1>11, <1>12, <1>13

\* kfree: nothing of the object is left.
LEMMA DataDelete == ASSUME NEW t \in Thread, Delete(t) PROVE DInv'
  BY SMTT(30) DEF Delete, DInv

-----------------------------------------------------------------------------
(* The messages                                                            *)

LEMMA DataSame ==
    ASSUME DInv, UNCHANGED <<log, received, content, page, must, store, errors, job, freed>>,
           \A u \in Thread : pc'[u] = pc[u] \/ (pc[u] \in Before /\ pc'[u] \in Before)
    PROVE  DInv'
<1> SUFFICES ASSUME freed = 0 PROVE DInv'
  BY DEF DInv
<1>1. Tables /\ Logged /\ Handled /\ Single /\ Ordered /\ Held
  BY DEF DInv
<1>2. \A i, kinds, p : Queued(i, kinds, p)' <=> Queued(i, kinds, p)
  BY DEF Queued
<1>3. /\ \A u \in Thread : Kind(u)' = Kind(u)
      /\ \A u \in Thread : \A kinds, p : Busy(u, kinds, p)' <=> Busy(u, kinds, p)
  BY DEF Busy, Before, Kind
<1>4. \A u \in Thread : pc'[u] \in Before <=> pc[u] \in Before
  OBVIOUS
<1>5. Tables' /\ Logged'
  BY <1>1 DEF Tables, Logged, Carries
<1>6. Handled'
  <2> SUFFICES ASSUME NEW u \in Thread PROVE HandledBy(u)'
    BY <1>1 DEF Handled
  <2>1. HandledBy(u)
    BY <1>1 DEF Handled
  <2>2. CASE pc'[u] = pc[u]
    BY <1>3, <2>1, <2>2 DEF HandledBy
  <2>3. CASE pc[u] \in Before /\ pc'[u] \in Before
    <3>1. /\ pc'[u] \notin {"idle", "finish_write", "broadcast_write", "has_page"}
          /\ pc[u] \notin {"idle", "finish_write", "broadcast_write"}
      BY <2>3 DEF Before
    <3> QED
      BY <1>3, <2>1, <2>3, <3>1 DEF HandledBy
  <2> QED
    BY <2>2, <2>3
<1>7. Single'
  <2> SUFFICES ASSUME NEW p \in Page, NEW kinds \in {Paging, {"request"}}
               PROVE  /\ \A i, j \in 1 .. Len(log) :
                           Queued(i, kinds, p)' /\ Queued(j, kinds, p)' => i = j
                      /\ \A u, v \in Thread : Busy(u, kinds, p)' /\ Busy(v, kinds, p)' => u = v
                      /\ \A i \in 1 .. Len(log), u \in Thread :
                           ~(Queued(i, kinds, p)' /\ Busy(u, kinds, p)')
    BY DEF Single, Paging
  <2>1. /\ \A i, j \in 1 .. Len(log) : Queued(i, kinds, p) /\ Queued(j, kinds, p) => i = j
        /\ \A u, v \in Thread : Busy(u, kinds, p) /\ Busy(v, kinds, p) => u = v
        /\ \A i \in 1 .. Len(log), u \in Thread : ~(Queued(i, kinds, p) /\ Busy(u, kinds, p))
    BY <1>1 DEF Single
  <2> QED
    BY <1>2, <1>3, <2>1
<1>8. Ordered'
  BY <1>1, <1>2, <1>3, <1>4 DEF Ordered
<1>9. \A p : /\ Unwritten(p)' <=> Unwritten(p)
             /\ Fine(p)' <=> Fine(p)
             /\ Sound(p)' <=> Sound(p)
  BY <1>2, <1>3 DEF Unwritten, Fine, Sound
<1>10. Held'
  <2> SUFFICES ASSUME NEW p \in Page
               PROVE  /\ HeldPage(p)' /\ \A i \in 1 .. Len(log) : HeldLog(i, p)'
                      /\ \A u \in Thread : HeldBy(u, p)'
    BY DEF Held
  <2>1. HeldPage(p)' /\ \A i \in 1 .. Len(log) : HeldLog(i, p)'
    BY <1>1, <1>2, <1>9 DEF Held, HeldPage, HeldLog
  <2>2. ASSUME NEW u \in Thread PROVE HeldBy(u, p)'
    <3>1. HeldBy(u, p)
      BY <1>1 DEF Held
    <3>2. Pushed(u, p) => Pushed(u, p)'
      BY <1>9 DEF Pushed, Before
    <3>3. CASE pc'[u] = pc[u]
      BY <1>3, <1>9, <3>1, <3>2, <3>3 DEF HeldBy, Requested
    <3>4. CASE pc[u] \in Before /\ pc'[u] \in Before
      BY <1>3, <1>9, <3>1, <3>2, <3>4 DEF HeldBy, Requested, Before
    <3> QED
      BY <3>3, <3>4
  <2> QED
    BY <2>1, <2>2
<1> QED
  BY <1>5, <1>6, <1>7, <1>8, <1>10 DEF DInv

\* A message goes from the log to a thread.
LEMMA DataReceive ==
    ASSUME DInv, PInv, NEW t \in Thread, Receive(t)
    PROVE  DInv'
<1>1. /\ PTypes /\ Tables /\ Logged /\ Handled /\ Single /\ Ordered /\ Held /\ freed = 0
      /\ HandledBy(t)
  BY DEF PInv, DInv, Receive, Handled
<1>2. PICK m : m = log[received + 1]
  OBVIOUS
<1>3. /\ pc[t] = "idle" /\ received < Len(log) /\ received' = received + 1
      /\ job' = [job EXCEPT ![t] = Handle(m, received)]
      /\ log' = [log EXCEPT ![received + 1] = Plain(m.kind)] /\ Goto(t, "lock")
      /\ UNCHANGED <<content, page, must, store, errors, freed>>
  BY <1>2 DEF Receive, pageVars
<1>4. /\ received \in Nat /\ Len(log) \in Nat /\ log \in Seq(Message)
      /\ received + 1 \in 1 .. Len(log)
  BY <1>1, <1>3, SMTT(30) DEF PTypes
<1>5. m \in Message /\ Carries(m)
  BY <1>1, <1>2, <1>4, SMTT(30) DEF Logged
<1>6. /\ Len(log') = Len(log)
      /\ \A i \in 1 .. Len(log) : log'[i] = IF i = received + 1 THEN Plain(m.kind) ELSE log[i]
  BY <1>3, <1>4, SMTT(30)
<1>7. /\ job'[t] = Handle(m, received) /\ \A u \in Thread : u # t => job'[u] = job[u]
      /\ job'[t].message = m /\ job'[t].todo = DOMAIN m.data /\ job'[t].number = received
      /\ Kind(t)' = m.kind
  BY <1>1, <1>3 DEF PTypes, Handle, Kind
<1>8. pc'[t] = "lock" /\ Others(t)
  BY <1>1, <1>3, <1>7, OthersGoto
<1>9. ASSUME NEW i \in 1 .. Len(log), NEW kinds, NEW p
      PROVE  Queued(i, kinds, p)' <=> i # received + 1 /\ Queued(i, kinds, p)
  <2>1. DOMAIN Plain(m.kind).data = {}
    BY DEF Plain
  <2> QED
    BY <1>6, <2>1 DEF Queued
<1>10. \A kinds, p : /\ Busy(t, kinds, p)' <=> Queued(received + 1, kinds, p)
                     /\ ~Busy(t, kinds, p)
  <2>1. job[t] = NoJob
    BY <1>1, <1>3 DEF HandledBy
  <2>2. job[t].todo = {}
    BY <2>1, SMTT(30) DEF NoJob, Handle, Plain
  <2> QED
    BY <1>2, <1>7, <1>8, <2>2 DEF Busy, Queued
<1>11. \A u \in Thread : u # t => \A kinds, p : Busy(u, kinds, p)' <=> Busy(u, kinds, p)
  BY <1>8, ThreadStays
<1>12. \A p : /\ Unwritten(p)' <=> Unwritten(p)
              /\ Fine(p)' <=> Fine(p)
              /\ Sound(p)' <=> Sound(p)
  <2>1. \A p : Unwritten(p)' <=> Unwritten(p)
    BY <1>4, <1>6, <1>9, <1>10, <1>11 DEF Unwritten
  <2> QED
    BY <1>3, <2>1 DEF Fine, Sound
<1>13. Tables'
  BY <1>1, <1>3 DEF Tables
<1>14. Logged'
  <2> SUFFICES ASSUME NEW i \in 1 .. Len(log)
               PROVE  /\ i <= received + 1 => DOMAIN log'[i].data = {}
                      /\ i > received + 1 => Carries(log[i])'
    BY <1>3, <1>6 DEF Logged
  <2>1. DOMAIN Plain(m.kind).data = {}
    BY DEF Plain
  <2>2. i # received + 1 => log'[i] = log[i]
    BY <1>6
  <2>3. /\ i <= received => DOMAIN log[i].data = {}
        /\ i > received => Carries(log[i])
    BY <1>1 DEF Logged
  <2>4. i > received + 1 => Carries(log[i])'
    <3> SUFFICES ASSUME i > received + 1 PROVE Carries(log[i])'
      OBVIOUS
    <3>1. log'[i] = log[i] /\ Carries(log[i])
      BY <1>4, <2>2, <2>3, SMTT(30)
    <3> QED
      BY <1>3, <3>1 DEF Carries
  <2> QED
    BY <1>4, <1>6, <2>1, <2>2, <2>3, <2>4, SMTT(30)
<1>15. Handled'
  <2>1. HandledBy(t)'
    <3>1. pc'[t] \in Before /\ pc'[t] \notin {"idle", "has_page", "finish_write", "broadcast_write"}
      BY <1>8 DEF Before
    <3>2. m.kind \in {"request", "initialize"} => \E p \in Page : DOMAIN m.data = {p}
                                                    /\ m.data[p] = 0
      BY <1>5 DEF Carries
    <3>3. m.kind = "write" => DOMAIN m.data # {} /\ \A p \in DOMAIN m.data : m.data[p] = content[p]
      BY <1>5 DEF Carries
    <3> QED
      BY <1>3, <1>5, <1>7, <3>1, <3>2, <3>3 DEF HandledBy, Paging
  <2> QED
    BY <1>1, <1>3, <1>8, <2>1, HandledStays DEF Handled
<1>16. Single'
  <2> SUFFICES ASSUME NEW p \in Page, NEW kinds \in {Paging, {"request"}}
               PROVE  /\ \A i, j \in 1 .. Len(log) :
                           Queued(i, kinds, p)' /\ Queued(j, kinds, p)' => i = j
                      /\ \A u, v \in Thread : Busy(u, kinds, p)' /\ Busy(v, kinds, p)' => u = v
                      /\ \A i \in 1 .. Len(log), u \in Thread :
                           ~(Queued(i, kinds, p)' /\ Busy(u, kinds, p)')
    BY <1>6 DEF Single, Paging
  <2>1. /\ \A i, j \in 1 .. Len(log) : Queued(i, kinds, p) /\ Queued(j, kinds, p) => i = j
        /\ \A u, v \in Thread : Busy(u, kinds, p) /\ Busy(v, kinds, p) => u = v
        /\ \A i \in 1 .. Len(log), u \in Thread : ~(Queued(i, kinds, p) /\ Busy(u, kinds, p))
    BY <1>1 DEF Single
  <2>2. \A u \in Thread : Busy(u, kinds, p)' =>
          IF u = t THEN Queued(received + 1, kinds, p) ELSE Busy(u, kinds, p)
    BY <1>10, <1>11
  <2> QED
    BY <1>4, <1>9, <2>1, <2>2
<1>17. Ordered'
  <2> SUFFICES ASSUME NEW p \in Page
               PROVE  /\ \A i, j \in 1 .. Len(log) :
                           Queued(i, {"request"}, p)' /\ Queued(j, Paging, p)' => j < i
                      /\ \A i \in 1 .. Len(log), u \in Thread :
                           ~(Busy(u, {"request"}, p)' /\ Queued(i, Paging, p)')
                      /\ \A u, v \in Thread : Busy(u, {"request"}, p)' /\ Busy(v, Paging, p)' =>
                           /\ pc'[u] \in Before
                           /\ pc'[v] \in Before => job'[v].number < job'[u].number
    BY <1>6 DEF Ordered
  <2>1. /\ \A i, j \in 1 .. Len(log) : Queued(i, {"request"}, p) /\ Queued(j, Paging, p) => j < i
        /\ \A i \in 1 .. Len(log), u \in Thread : ~(Busy(u, {"request"}, p) /\ Queued(i, Paging, p))
        /\ \A u, v \in Thread : Busy(u, {"request"}, p) /\ Busy(v, Paging, p) =>
             pc[u] \in Before /\ (pc[v] \in Before => job[v].number < job[u].number)
    BY <1>1 DEF Ordered
  <2>2. ASSUME NEW i \in 1 .. Len(log), i <= received PROVE ~Queued(i, Paging, p)
    BY <1>1, <2>2 DEF Logged, Queued
  <2>3. \A i, j \in 1 .. Len(log) : Queued(i, {"request"}, p)' /\ Queued(j, Paging, p)' => j < i
    BY <1>9, <2>1
  <2>4. ASSUME NEW i \in 1 .. Len(log), NEW u \in Thread, Busy(u, {"request"}, p)',
               Queued(i, Paging, p)'
        PROVE  FALSE
    <3>1. Queued(i, Paging, p) /\ i # received + 1
      BY <1>9, <2>4
    <3>2. CASE u = t
      <4>1. Queued(received + 1, {"request"}, p)
        BY <1>10, <2>4, <3>2
      <4>2. i < received + 1
        BY <1>4, <2>1, <3>1, <4>1
      <4> QED
        BY <1>4, <2>2, <3>1, <4>2, SMTT(30)
    <3>3. CASE u # t
      BY <1>11, <2>1, <2>4, <3>1, <3>3
    <3> QED
      BY <3>2, <3>3
  <2>5. ASSUME NEW u \in Thread, NEW v \in Thread, Busy(u, {"request"}, p)', Busy(v, Paging, p)'
        PROVE  pc'[u] \in Before /\ (pc'[v] \in Before => job'[v].number < job'[u].number)
    <3>1. u # v
      BY <2>5 DEF Busy, Paging
    <3>2. v # t
      <4> SUFFICES ASSUME v = t PROVE FALSE
        OBVIOUS
      <4>1. Queued(received + 1, Paging, p) /\ Busy(u, {"request"}, p)
        BY <1>10, <1>11, <2>5, <3>1
      <4> QED
        BY <1>4, <2>1, <4>1
    <3>3. Busy(v, Paging, p) /\ job'[v] = job[v] /\ (pc'[v] \in Before => pc[v] \in Before)
      BY <1>8, <1>11, <2>5, <3>2, ThreadStays
    <3>4. CASE u = t
      <4>1. pc[v] \in Before => job[v].number < received
        BY DEF PInv, Turns
      <4>2. pc'[u] \in Before /\ job'[u].number = received
        BY <1>7, <1>8, <3>4 DEF Before
      <4> QED
        BY <3>3, <4>1, <4>2
    <3>5. CASE u # t
      <4>1. Busy(u, {"request"}, p) /\ job'[u] = job[u] /\ (pc[u] \in Before => pc'[u] \in Before)
        BY <1>8, <1>11, <2>5, <3>5, ThreadStays
      <4> QED
        BY <2>1, <3>3, <4>1
    <3> QED
      BY <3>4, <3>5
  <2> QED
    BY <2>3, <2>4, <2>5
<1>18. Held'
  <2> SUFFICES ASSUME NEW p \in Page
               PROVE  /\ HeldPage(p)' /\ \A i \in 1 .. Len(log) : HeldLog(i, p)'
                      /\ \A u \in Thread : HeldBy(u, p)'
    BY <1>6 DEF Held
  <2>1. /\ HeldPage(p) /\ \A i \in 1 .. Len(log) : HeldLog(i, p)
        /\ \A u \in Thread : HeldBy(u, p)
    BY <1>1 DEF Held
  <2>2. HeldPage(p)' /\ \A i \in 1 .. Len(log) : HeldLog(i, p)'
    BY <1>3, <1>9, <1>12, <2>1 DEF HeldPage, HeldLog
  <2>3. HeldBy(t, p)'
    <3>1. HeldLog(received + 1, p)
      BY <1>4, <2>1
    <3>2. Busy(t, {"initialize"}, p)' => Sound(p)'
      BY <1>10, <1>12, <3>1 DEF HeldLog
    <3>3. Busy(t, {"request"}, p)' => page'[p] = "wanted" /\ (~Unwritten(p)' => Sound(p)')
      BY <1>3, <1>10, <1>12, <3>1 DEF HeldLog
    <3> QED
      BY <1>8, <3>2, <3>3 DEF HeldBy, Pushed, Requested
  <2>4. ASSUME NEW u \in Thread, u # t PROVE HeldBy(u, p)'
    <3>1. /\ HeldBy(u, p) /\ job'[u] = job[u]
          /\ pc'[u] = pc[u] \/ (pc[u] \in Before /\ pc'[u] \in Before)
      BY <1>8, <2>1, <2>4, ThreadStays
    <3>2. Pushed(u, p) => Pushed(u, p)'
      BY <1>3, <1>12, <3>1 DEF Pushed, Before
    <3>3. CASE pc'[u] = pc[u]
      BY <1>3, <1>11, <1>12, <2>4, <3>1, <3>2, <3>3 DEF HeldBy, Requested
    <3>4. CASE pc[u] \in Before /\ pc'[u] \in Before
      BY <1>3, <1>11, <1>12, <2>4, <3>1, <3>2, <3>4 DEF HeldBy, Requested, Before
    <3> QED
      BY <3>1, <3>3, <3>4
  <2> QED
    BY <2>2, <2>3, <2>4
<1> QED
  BY <1>13, <1>14, <1>15, <1>16, <1>17, <1>18 DEF DInv

\* The kernel sends message m: what it changes it has in memory, and it writes
\* or requests no page that is on its way.
LEMMA DataSend ==
    ASSUME DInv, PInv, freed = 0, NEW m, log' = Append(log, m), Tables', Carries(m)',
           UNCHANGED <<received, store, errors, pc, job>>,
           \A p \in Page : /\ content'[p] = content[p] \/ page[p] = "in"
                           /\ page[p] = "wanted" => page'[p] = "wanted"
                           /\ HeldPage(p)',
           \A p \in DOMAIN m.data :
             /\ p \in Page
             /\ m.kind \in Paging => ~Unwritten(p) /\ page[p] # "wanted"
             /\ m.kind = "request" => /\ page[p] = "out" /\ page'[p] = "wanted"
                                      /\ ~Unwritten(p)' => Sound(p)'
             /\ m.kind = "initialize" => Sound(p)'
    PROVE  DInv'
<1>1. PTypes /\ Tables /\ Logged /\ Handled /\ Single /\ Ordered /\ Held
  BY DEF PInv, DInv
<1>2. PICK n : n = Len(log) + 1
  OBVIOUS
<1>3. /\ Len(log) \in Nat /\ n \in Nat /\ Len(log') = n /\ log'[n] = m
      /\ received \in Nat /\ received < n
      /\ \A i \in 1 .. Len(log) : log'[i] = log[i]
      /\ \A i \in 1 .. n : i = n \/ i \in 1 .. Len(log)
  BY <1>1, <1>2, SMTT(30) DEF PTypes
<1>4. /\ \A i \in 1 .. Len(log) : \A kinds, p : Queued(i, kinds, p)' <=> Queued(i, kinds, p)
      /\ \A kinds, p : Queued(n, kinds, p)' <=> m.kind \in kinds /\ p \in DOMAIN m.data
  BY <1>3 DEF Queued
<1>5. \A u \in Thread : /\ Kind(u)' = Kind(u)
                        /\ \A kinds, p : Busy(u, kinds, p)' <=> Busy(u, kinds, p)
  BY DEF Busy, Kind
<1>6. \A p : Unwritten(p) => Unwritten(p)'
  BY <1>3, <1>4, <1>5, SMTT(30) DEF Unwritten
<1>7. \A p \in Page : Unwritten(p) => content'[p] = content[p]
  BY <1>1 DEF Held, HeldPage
<1>8. Logged'
  <2> SUFFICES ASSUME NEW i \in 1 .. n
               PROVE  /\ i <= received => DOMAIN log'[i].data = {}
                      /\ i > received => Carries(log[i])'
    BY <1>3 DEF Logged
  <2>1. CASE i = n
    <3>1. log'[i] = m /\ ~(i <= received)
      BY <1>3, <2>1, SMTT(30)
    <3>2. Carries(log[i])'
      BY <3>1 DEF Carries
    <3> QED
      BY <3>1, <3>2
  <2>2. CASE i # n
    <3>1. i \in 1 .. Len(log) /\ log'[i] = log[i]
      BY <1>3, <2>2
    <3>2. /\ i <= received => DOMAIN log[i].data = {}
          /\ i > received => Carries(log[i])
      BY <1>1, <3>1 DEF Logged
    <3>3. ASSUME NEW p \in DOMAIN log[i].data, log[i].kind = "write" PROVE content'[p] = content[p]
      <4>1. Unwritten(p)
        BY <3>1, <3>3 DEF Unwritten, Queued, Paging
      <4>2. p \in Page
        <5>1. log[i] \in Message
          BY <1>1, <3>1, SMTT(30) DEF PTypes
        <5>2. log[i].data \in UNION {[P -> Version] : P \in SUBSET Page}
          BY <5>1 DEF Message
        <5> QED
          BY <3>3, <5>2
      <4> QED
        BY <1>7, <4>1, <4>2
    <3> QED
      BY <3>1, <3>2, <3>3 DEF Carries
  <2> QED
    BY <2>1, <2>2
<1>9. Handled'
  <2> SUFFICES ASSUME NEW u \in Thread PROVE HandledBy(u)'
    BY <1>1 DEF Handled
  <2>1. HandledBy(u) /\ job[u].todo \subseteq Page
    BY <1>1, PagesOf DEF Handled
  <2>2. ASSUME NEW p \in job[u].todo, Kind(u) = "write" PROVE content'[p] = content[p]
    <3>1. Busy(u, Paging, p)
      BY <2>1, <2>2 DEF Busy, Paging, HandledBy, Before, InWrite
    <3> QED
      BY <1>7, <2>1, <2>2, <3>1 DEF Unwritten
  <2> QED
    BY <1>5, <2>1, <2>2 DEF HandledBy
<1>10. \A p \in Page : /\ (\E i \in 1 .. Len(log) : Queued(i, {"request"}, p)) => page[p] = "wanted"
                       /\ (\E u \in Thread : Busy(u, {"request"}, p)) => page[p] = "wanted"
  BY <1>1 DEF Held, HeldLog, HeldBy, Requested
<1>11. Single'
  <2> SUFFICES ASSUME NEW p \in Page, NEW kinds \in {Paging, {"request"}}
               PROVE  /\ \A i, j \in 1 .. n :
                           Queued(i, kinds, p)' /\ Queued(j, kinds, p)' => i = j
                      /\ \A u, v \in Thread : Busy(u, kinds, p)' /\ Busy(v, kinds, p)' => u = v
                      /\ \A i \in 1 .. n, u \in Thread :
                           ~(Queued(i, kinds, p)' /\ Busy(u, kinds, p)')
    BY <1>3 DEF Single, Paging
  <2>1. /\ \A i, j \in 1 .. Len(log) : Queued(i, kinds, p) /\ Queued(j, kinds, p) => i = j
        /\ \A u, v \in Thread : Busy(u, kinds, p) /\ Busy(v, kinds, p) => u = v
        /\ \A i \in 1 .. Len(log), u \in Thread : ~(Queued(i, kinds, p) /\ Busy(u, kinds, p))
    BY <1>1 DEF Single
  <2>2. ASSUME m.kind \in kinds, p \in DOMAIN m.data
        PROVE  /\ \A i \in 1 .. Len(log) : ~Queued(i, kinds, p)
               /\ \A u \in Thread : ~Busy(u, kinds, p)
    <3>1. CASE kinds = Paging
      BY <2>2, <3>1 DEF Unwritten
    <3>2. CASE kinds = {"request"}
      BY <1>10, <2>2, <3>2
    <3> QED
      BY <3>1, <3>2
  <2> QED
    BY <1>3, <1>4, <1>5, <2>1, <2>2, SMTT(30)
<1>12. Ordered'
  <2> SUFFICES ASSUME NEW p \in Page
               PROVE  /\ \A i, j \in 1 .. n :
                           Queued(i, {"request"}, p)' /\ Queued(j, Paging, p)' => j < i
                      /\ \A i \in 1 .. n, u \in Thread :
                           ~(Busy(u, {"request"}, p)' /\ Queued(i, Paging, p)')
                      /\ \A u, v \in Thread : Busy(u, {"request"}, p)' /\ Busy(v, Paging, p)' =>
                           /\ pc'[u] \in Before
                           /\ pc'[v] \in Before => job'[v].number < job'[u].number
    BY <1>3 DEF Ordered
  <2>1. /\ \A i, j \in 1 .. Len(log) : Queued(i, {"request"}, p) /\ Queued(j, Paging, p) => j < i
        /\ \A i \in 1 .. Len(log), u \in Thread : ~(Busy(u, {"request"}, p) /\ Queued(i, Paging, p))
        /\ \A u, v \in Thread : Busy(u, {"request"}, p) /\ Busy(v, Paging, p) =>
             pc[u] \in Before /\ (pc[v] \in Before => job[v].number < job[u].number)
    BY <1>1 DEF Ordered
  <2>2. ASSUME Queued(n, Paging, p)'
        PROVE  /\ \A i \in 1 .. n : ~Queued(i, {"request"}, p)'
               /\ \A u \in Thread : ~Busy(u, {"request"}, p)'
    <3>1. m.kind \in Paging /\ p \in DOMAIN m.data /\ page[p] # "wanted"
      BY <1>4, <2>2
    <3>2. m.kind \notin {"request"}
      BY <3>1 DEF Paging
    <3> QED
      BY <1>3, <1>4, <1>5, <1>10, <3>1, <3>2, SMTT(30)
  <2>3. ASSUME NEW i \in 1 .. n, NEW j \in 1 .. n, Queued(i, {"request"}, p)', Queued(j, Paging, p)'
        PROVE  j < i
    <3>1. j # n
      BY <2>2, <2>3
    <3>2. j \in 1 .. Len(log) /\ Queued(j, Paging, p)
      BY <1>3, <1>4, <2>3, <3>1
    <3>3. CASE i = n
      BY <1>2, <1>3, <3>2, <3>3, SMTT(30)
    <3>4. CASE i # n
      BY <1>3, <1>4, <2>1, <2>3, <3>2, <3>4
    <3> QED
      BY <3>3, <3>4
  <2>4. \A i \in 1 .. n, u \in Thread : ~(Busy(u, {"request"}, p)' /\ Queued(i, Paging, p)')
    BY <1>3, <1>4, <1>5, <2>1, <2>2
  <2>5. \A u, v \in Thread : Busy(u, {"request"}, p)' /\ Busy(v, Paging, p)' =>
          /\ pc'[u] \in Before
          /\ pc'[v] \in Before => job'[v].number < job'[u].number
    BY <1>5, <2>1
  <2> QED
    BY <2>3, <2>4, <2>5
<1>13. Held'
  <2> SUFFICES ASSUME NEW p \in Page
               PROVE  /\ HeldPage(p)' /\ \A i \in 1 .. n : HeldLog(i, p)'
                      /\ \A u \in Thread : HeldBy(u, p)'
    BY <1>3 DEF Held
  <2>1. /\ HeldPage(p) /\ \A i \in 1 .. Len(log) : HeldLog(i, p)
        /\ \A u \in Thread : HeldBy(u, p)
    BY <1>1 DEF Held
  <2>2. content'[p] = content[p] => (Fine(p)' <=> Fine(p)) /\ (Sound(p)' <=> Sound(p))
    BY DEF Fine, Sound
  <2>3. HeldLog(n, p)'
    BY <1>4, SMTT(30) DEF HeldLog
  <2>4. ASSUME NEW i \in 1 .. Len(log) PROVE HeldLog(i, p)'
    <3>1. Queued(i, {"initialize"}, p) => Unwritten(p)
      BY DEF Unwritten, Queued, Paging
    <3> QED
      BY <1>4, <1>6, <1>7, <2>1, <2>2, <3>1 DEF HeldLog
  <2>5. ASSUME NEW u \in Thread PROVE HeldBy(u, p)'
    <3>1. Busy(u, {"initialize"}, p) => Unwritten(p)
      BY DEF Unwritten, Busy, Paging
    <3>2. HeldBy(u, p)
      BY <2>1
    <3>3. Busy(u, {"initialize"}, p) => Pushed(u, p)'
      BY <1>7, <2>2, <3>1, <3>2 DEF HeldBy, Pushed
    <3>4. Busy(u, {"request"}, p) => Requested(u, p)'
      <4> SUFFICES ASSUME Requested(u, p) PROVE Requested(u, p)'
        BY <3>2 DEF HeldBy
      <4>1. page[p] = "wanted" /\ page'[p] = "wanted" /\ content'[p] = content[p]
        BY DEF Requested
      <4> QED
        BY <1>6, <2>2, <4>1 DEF Requested
    <3> QED
      BY <1>5, <3>3, <3>4 DEF HeldBy
  <2> QED
    BY <1>3, <2>3, <2>4, <2>5
<1> QED
  BY <1>8, <1>9, <1>11, <1>12, <1>13 DEF DInv

LEMMA NewMessage ==
    ASSUME NEW m, NEW p, DOMAIN m.data = {} \/ m.kind \notin Paging,
           PTypes, log' = Append(log, m), UNCHANGED <<pc, job>>
    PROVE  Unwritten(p)' <=> Unwritten(p)
<1>1. /\ Len(log') = Len(log) + 1 /\ log'[Len(log) + 1] = m /\ Len(log) \in Nat
      /\ \A i \in 1 .. Len(log) : log'[i] = log[i]
  BY SMTT(30) DEF PTypes
<1>2. \A u \in Thread : Busy(u, Paging, p)' <=> Busy(u, Paging, p)
  BY DEF Busy, Kind
<1>3. \A i \in 1 .. Len(log') :
        Queued(i, Paging, p)' <=> i \in 1 .. Len(log) /\ Queued(i, Paging, p)
  BY <1>1, SMTT(30) DEF Queued
<1>4. 1 .. Len(log) \subseteq 1 .. Len(log')
  BY <1>1, SMTT(30)
<1> QED
  BY <1>2, <1>3, <1>4 DEF Unwritten

LEMMA DataKernel ==
    ASSUME DInv, PInv, NoWriter, Kernel
    PROVE  DInv'
<1>1. /\ UNCHANGED <<received, store, errors, pc, job, freed>> /\ PTypes
  BY DEF Kernel, threadVars, PInv
<1> SUFFICES ASSUME freed = 0 PROVE DInv'
  BY <1>1 DEF DInv, PTypes, PInv
<1>2. Tables /\ Logged /\ Handled /\ Held
  BY DEF DInv
<1>3. \A q \in Page : content'[q] = content[q] => (Sound(q)' <=> Sound(q))
  BY <1>1 DEF Sound, Fine
<1>4. ASSUME NEW k \in {"terminate", "init", "no_senders"}, Send(Plain(k)),
             UNCHANGED <<pageVars, content>>
      PROVE  DInv'
  <2>1. PICK m : m = Plain(k)
    OBVIOUS
  <2>2. /\ log' = Append(log, m) /\ DOMAIN m.data = {} /\ m.kind = k
        /\ UNCHANGED <<page, must, content>>
    BY <1>4, <2>1 DEF Send, Plain, pageVars
  <2>3. Tables' /\ Carries(m)'
    BY <1>1, <1>2, <2>2 DEF Tables, Carries
  <2>4. \A p \in Page : HeldPage(p)'
    BY <1>1, <1>2, <1>3, <2>2, NewMessage DEF Held, HeldPage
  <2> QED
    BY <1>1, <2>2, <2>3, <2>4, DataSend
<1>5. ASSUME NEW p \in Page, NEW w \in {0, 1}, KernelRequest(p, w) PROVE DInv'
  <2>1. PICK m : m = [kind |-> "request", data |-> [q \in {p} |-> 0], write |-> w]
    OBVIOUS
  <2>2. /\ log' = Append(log, m) /\ DOMAIN m.data = {p} /\ m.kind = "request"
        /\ m.data = [q \in {p} |-> 0]
        /\ page[p] = "out" /\ page' = [page EXCEPT ![p] = "wanted"] /\ UNCHANGED <<must, content>>
    BY <1>5, <2>1 DEF KernelRequest, Send
  <2>3. /\ Tables' /\ page'[p] = "wanted" /\ \A q \in Page : q # p => page'[q] = page[q]
    BY <1>1, <1>2, <2>2 DEF Tables
  <2>4. Carries(m)'
    BY <1>5, <2>2 DEF Carries
  <2>5. \A q : Unwritten(q)' <=> Unwritten(q)
    BY <1>1, <2>2, NewMessage DEF Paging
  <2>6. ASSUME NEW q \in Page PROVE HeldPage(q)'
    <3>1. CASE q = p
      BY <2>3, <3>1 DEF HeldPage
    <3>2. CASE q # p
      BY <1>2, <1>3, <2>2, <2>3, <2>5, <3>2 DEF Held, HeldPage
    <3> QED
      BY <3>1, <3>2
  <2>7. ~Unwritten(p)' => Sound(p)'
    BY <1>2, <1>3, <2>2, <2>5 DEF Held, HeldPage
  <2>8. m.kind \notin Paging /\ m.kind # "initialize"
    BY <2>2 DEF Paging
  <2> QED
    BY <1>1, <2>2, <2>3, <2>4, <2>6, <2>7, <2>8, DataSend
<1>6. ASSUME NEW p \in Page, KernelPush(p) PROVE DInv'
  <2>1. PICK m : m = [kind |-> "initialize", data |-> [q \in {p} |-> 0], write |-> 0]
    OBVIOUS
  <2>2. /\ log' = Append(log, m) /\ DOMAIN m.data = {p} /\ m.kind = "initialize"
        /\ m.data = [q \in {p} |-> 0] /\ page[p] = "out" /\ seqno = Len(log) /\ writers = 0
        /\ UNCHANGED <<page, must, content>>
    BY <1>6, <2>1 DEF KernelPush, Send, pageVars
  <2>3. Tables' /\ Carries(m)'
    BY <1>1, <1>2, <1>6, <2>2 DEF Tables, Carries
  <2>4. ~Unwritten(p)
    <3>1. received = Len(log) /\ seqno = received /\ received \in Nat
      BY <1>1, <2>2, SMTT(30) DEF PTypes
    <3>2. \A i \in 1 .. Len(log) : ~Queued(i, Paging, p)
      BY <1>2, <3>1, SMTT(30) DEF Logged, Queued
    <3>3. ASSUME NEW u \in Thread, Busy(u, Paging, p) PROVE FALSE
      <4>1. pc[u] \notin Before
        BY <1>1, <3>1, SMTT(30) DEF PInv, Turns, PTypes, IsJob
      <4>2. Kind(u) \in Paging /\ job[u].todo # {}
        BY <3>3 DEF Busy
      <4>3. pc[u] \in InWrite \cup {"broadcast"}
        BY <1>2, <4>1, <4>2 DEF Handled, HandledBy
      <4>4. Writing(u)
        BY <4>2, <4>3 DEF Writing, InWrite, Paging
      <4> QED
        BY <2>2, <4>4 DEF NoWriter
    <3> QED
      BY <3>2, <3>3 DEF Unwritten
  <2>5. Sound(p)'
    BY <1>2, <1>3, <2>2, <2>4 DEF Held, HeldPage
  <2>6. ASSUME NEW q \in Page PROVE HeldPage(q)'
    <3>1. CASE q = p
      BY <2>2, <2>5, <3>1 DEF HeldPage
    <3>2. CASE q # p
      <4>1. Unwritten(q)' <=> Unwritten(q)
        <5>1. \A i \in 1 .. Len(log') :
                Queued(i, Paging, q)' <=> i \in 1 .. Len(log) /\ Queued(i, Paging, q)
          BY <1>1, <2>2, <3>2, SMTT(30) DEF Queued, PTypes
        <5>2. 1 .. Len(log) \subseteq 1 .. Len(log')
          BY <1>1, <2>2, SMTT(30) DEF PTypes
        <5>3. \A u \in Thread : Busy(u, Paging, q)' <=> Busy(u, Paging, q)
          BY <1>1 DEF Busy, Kind
        <5> QED
          BY <5>1, <5>2, <5>3 DEF Unwritten
      <4> QED
        BY <1>2, <1>3, <2>2, <4>1 DEF Held, HeldPage
    <3> QED
      BY <3>1, <3>2
  <2> QED
    BY <1>1, <2>2, <2>3, <2>4, <2>5, <2>6, DataSend
<1>7. ASSUME NEW P \in SUBSET Page, NEW M \in SUBSET Page, KernelPageout(P, M) PROVE DInv'
  <2>1. PICK m : m = [kind |-> "write", data |-> [p \in P |-> content'[p]], write |-> 0]
    OBVIOUS
  <2>2. /\ log' = Append(log, m) /\ DOMAIN m.data = P /\ m.kind = "write" /\ P # {} /\ M \subseteq P
        /\ \A p \in P : m.data[p] = content'[p] /\ page[p] = "in"
    BY <1>7, <2>1 DEF KernelPageout, Send
  <2>3. /\ content' = [p \in Page |-> IF p \in M THEN content[p] + 1 ELSE content[p]]
        /\ page' = [p \in Page |-> IF p \in P THEN "out" ELSE page[p]]
        /\ must' = [p \in Page |-> IF p \in P THEN 0 ELSE must[p]]
    BY <1>7 DEF KernelPageout
  <2>4. Tables' /\ \A p \in Page : IF p \in P THEN page'[p] = "out"
                                   ELSE page'[p] = page[p] /\ must'[p] = must[p]
                                        /\ content'[p] = content[p]
    BY <1>1, <1>2, <2>2, <2>3 DEF Tables
  <2>5. Carries(m)'
    BY <2>2 DEF Carries
  <2>6. /\ \A p \in P : Unwritten(p)'
        /\ \A p \in Page \ P : Unwritten(p)' <=> Unwritten(p)
    <3>1. /\ Len(log') = Len(log) + 1 /\ log'[Len(log) + 1] = m /\ Len(log) \in Nat
          /\ \A i \in 1 .. Len(log) : log'[i] = log[i]
      BY <1>1, <2>2, SMTT(30) DEF PTypes
    <3>2. \A p : \A i \in 1 .. Len(log') :
            Queued(i, Paging, p)' <=> \/ i \in 1 .. Len(log) /\ Queued(i, Paging, p)
                                      \/ i = Len(log) + 1 /\ p \in P
      BY <2>2, <3>1, SMTT(30) DEF Queued, Paging
    <3>3. 1 .. Len(log) \subseteq 1 .. Len(log') /\ Len(log) + 1 \in 1 .. Len(log')
      BY <3>1, SMTT(30)
    <3>4. \A p : \A u \in Thread : Busy(u, Paging, p)' <=> Busy(u, Paging, p)
      BY <1>1 DEF Busy, Kind
    <3> QED
      BY <3>2, <3>3, <3>4 DEF Unwritten
  <2>7. ASSUME NEW p \in Page PROVE HeldPage(p)'
    <3>1. CASE p \in P
      BY <2>4, <2>6, <3>1 DEF HeldPage
    <3>2. CASE p \notin P
      <4>1. page'[p] = page[p] /\ must'[p] = must[p] /\ content'[p] = content[p]
        BY <2>4, <3>2
      <4> QED
        BY <1>2, <1>3, <2>6, <3>2, <4>1 DEF Held, HeldPage
    <3> QED
      BY <3>1, <3>2
  <2>8. \A p \in P : ~Unwritten(p) /\ page[p] # "wanted" /\ p \in Page
    BY <1>2, <2>2 DEF Held, HeldPage
  <2>9. \A p \in Page : /\ content'[p] = content[p] \/ page[p] = "in"
                        /\ page[p] = "wanted" => page'[p] = "wanted"
    BY <2>2, <2>4
  <2> QED
    BY <1>1, <2>2, <2>4, <2>5, <2>7, <2>8, <2>9, DataSend
<1>8. ASSUME NEW p \in Page, KernelDiscard(p) PROVE DInv'
  <2>1. /\ page[p] = "in" /\ must[p] = 0 /\ page' = [page EXCEPT ![p] = "out"]
        /\ UNCHANGED <<log, content, must>>
    BY <1>8 DEF KernelDiscard
  <2>2. /\ Tables' /\ page'[p] = "out" /\ \A q \in Page : q # p => page'[q] = page[q]
    BY <1>1, <1>2, <2>1 DEF Tables
  <2>3. \A i, kinds, q : Queued(i, kinds, q)' <=> Queued(i, kinds, q)
    BY <2>1 DEF Queued
  <2>4. \A u \in Thread : \A kinds, q : Busy(u, kinds, q)' <=> Busy(u, kinds, q)
    BY <1>1 DEF Busy, Kind
  <2>5. \A q : /\ Unwritten(q)' <=> Unwritten(q)
               /\ Fine(q)' <=> Fine(q)
               /\ Sound(q)' <=> Sound(q)
    BY <1>1, <2>1, <2>3, <2>4 DEF Unwritten, Fine, Sound
  <2>6. Logged' /\ Handled'
    <3>1. Logged'
      BY <1>1, <1>2, <2>1 DEF Logged, Carries
    <3>2. Handled'
      BY <1>1, <1>2, <2>1, SMTT(30) DEF Handled, HandledBy, Kind
    <3> QED
      BY <3>1, <3>2
  <2>7. Single'
    <3> SUFFICES ASSUME NEW q \in Page, NEW kinds \in {Paging, {"request"}}
                 PROVE  /\ \A i, j \in 1 .. Len(log) :
                             Queued(i, kinds, q)' /\ Queued(j, kinds, q)' => i = j
                        /\ \A u, v \in Thread : Busy(u, kinds, q)' /\ Busy(v, kinds, q)' => u = v
                        /\ \A i \in 1 .. Len(log), u \in Thread :
                             ~(Queued(i, kinds, q)' /\ Busy(u, kinds, q)')
      BY <2>1 DEF Single, Paging
    <3>1. /\ \A i, j \in 1 .. Len(log) : Queued(i, kinds, q) /\ Queued(j, kinds, q) => i = j
          /\ \A u, v \in Thread : Busy(u, kinds, q) /\ Busy(v, kinds, q) => u = v
          /\ \A i \in 1 .. Len(log), u \in Thread : ~(Queued(i, kinds, q) /\ Busy(u, kinds, q))
      BY DEF DInv, Single
    <3> QED
      BY <2>3, <2>4, <3>1
  <2>8. Ordered'
    BY <1>1, <2>1, <2>3, <2>4 DEF DInv, Ordered
  <2>9. Held'
    <3> SUFFICES ASSUME NEW q \in Page
                 PROVE  /\ HeldPage(q)' /\ \A i \in 1 .. Len(log) : HeldLog(i, q)'
                        /\ \A u \in Thread : HeldBy(u, q)'
      BY <2>1 DEF Held
    <3>1. /\ HeldPage(q) /\ \A i \in 1 .. Len(log) : HeldLog(i, q)
          /\ \A u \in Thread : HeldBy(u, q)
      BY <1>2 DEF Held
    <3>2. page[q] = "wanted" => page'[q] = "wanted"
      BY <2>1, <2>2
    <3>3. HeldPage(q)'
      <4>1. CASE q = p
        BY <2>1, <2>2, <2>5, <3>1, <4>1 DEF HeldPage
      <4>2. CASE q # p
        BY <2>1, <2>2, <2>5, <3>1, <4>2 DEF HeldPage
      <4> QED
        BY <4>1, <4>2
    <3>4. \A i \in 1 .. Len(log) : HeldLog(i, q)'
      BY <2>3, <2>5, <3>1, <3>2 DEF HeldLog
    <3>5. ASSUME NEW u \in Thread PROVE HeldBy(u, q)'
      BY <1>1, <2>1, <2>4, <2>5, <3>1, <3>2 DEF HeldBy, Pushed, Requested
    <3> QED
      BY <3>3, <3>4, <3>5
  <2> QED
    BY <2>2, <2>6, <2>7, <2>8, <2>9 DEF DInv
<1> QED
  BY <1>4, <1>5, <1>6, <1>7, <1>8
     DEF Kernel, KernelTerminate, KernelInit, KernelNoSenders

LEMMA DataInit == Init => DInv
<1> SUFFICES ASSUME Init PROVE DInv
  OBVIOUS
<1>1. /\ Len(log) = 0 /\ \A p \in Page : page[p] = "in" /\ content[p] = 0 /\ store[p] = Absent
      /\ errors = 0
      /\ \A t \in Thread : job[t] = NoJob /\ pc[t] = "idle"
  BY DEF Init
<1>2. 1 .. Len(log) = {}
  BY <1>1, SMTT(30)
<1>3. Tables
  BY DEF Init, Tables
<1>4. \A t \in Thread : HandledBy(t) /\ \A kinds, p : ~Busy(t, kinds, p)
  <2>1. Plain("init") \in Message
    BY PlainType DEF Kinds
  <2>2. NoJob.message = Plain("init") /\ NoJob.todo = {} /\ NoJob.message.kind = "init"
    BY DEF NoJob, Handle, Plain
  <2> QED
    BY <1>1, <2>1, <2>2 DEF HandledBy, Busy, Kind, Paging
<1>5. Handled
  BY <1>1, <1>4 DEF Handled
<1>6. Logged /\ Single /\ Ordered
  BY <1>2, <1>4 DEF Logged, Single, Ordered
<1>7. Held
  <2>1. \A p \in Page : ~Unwritten(p) /\ Sound(p)
    BY <1>1, <1>2, <1>4 DEF Unwritten, Sound, Fine
  <2> QED
    BY <1>1, <1>2, <1>4, <2>1 DEF Held, HeldPage, HeldBy
<1> QED
  BY <1>3, <1>5, <1>6, <1>7 DEF DInv

LEMMA DataNext == DInv /\ PInv /\ NoWriter /\ [Next]_vars => DInv'
<1> SUFFICES ASSUME DInv, PInv, NoWriter, [Next]_vars PROVE DInv'
  OBVIOUS
<1>1. CASE Kernel
  BY <1>1, DataKernel
<1>2. CASE default_pager_objects
  <2>1. UNCHANGED <<log, received, content, page, must, store, errors, job, freed>>
    BY <1>2 DEF default_pager_objects, ObjectsScan, ObjectsGrow, ObjectsGrown, ObjectsSend,
                kernelVars, pageVars, threadVars
  <2>2. pc' = pc \/ pc' = Wake("waiting_refs", "refs")
    BY <1>2 DEF default_pager_objects, ObjectsScan, ObjectsGrow, ObjectsGrown, ObjectsSend,
                       threadVars
  <2>3. \A u \in Thread : pc'[u] = pc[u] \/ (pc[u] \in Before /\ pc'[u] \in Before)
    BY <2>2 DEF Wake, Before
  <2> QED
    BY <2>1, <2>3, DataSame
<1>3. ASSUME NEW t \in Thread, Receive(t) PROVE DInv'
  BY <1>3, DataReceive
<1>4. ASSUME NEW t \in Thread, Serve(t) PROVE DInv'
  <2>1. freed \in {0, 1}
    BY DEF PInv, PTypes
  <2>2. CASE freed = 0
    <3>1. CASE StartRead(t)
      BY <3>1, DataBefore, DataRead
    <3>2. CASE BroadcastSeqno(t)
      BY <2>2, <3>2, DataBroadcast, DataDone
    <3>3. CASE FinishRead(t)
      BY <2>2, <3>3, DataBroadcast, DataDone
    <3>4. CASE FinishWrite(t)
      BY <2>2, <3>4, DataBroadcast, DataDone
    <3>5. CASE \/ WaitSeqno(t) \/ CheckRequest(t) \/ ModRefs(t) \/ TerminateWait(t) \/ NoSenders(t)
      BY <3>5, DataBefore
    <3>6. CASE \/ Read(t) \/ Reply(t) \/ HasPage(t) \/ Write(t) \/ Written(t) \/ WriteError(t)
      BY <3>6, DataDefaultRead, DataReply, DataWrite
    <3>7. CASE \/ StartWrite(t) \/ Terminate(t) \/ InitObject(t)
      BY <3>7, DataUnlock
    <3>8. CASE \/ BroadcastRead(t) \/ BroadcastWrite(t) \/ DropRights(t)
      BY <2>2, <3>8, DataDone
    <3>9. CASE Delete(t)
      BY <3>9, DataDelete
    <3> QED
      BY <1>4, <3>1, <3>2, <3>3, <3>4, <3>5, <3>6, <3>7, <3>8, <3>9 DEF Serve
  <2>3. CASE freed = 1
    <3>1. freed' = 1
      BY <1>4, <2>3 DEF Serve, WaitSeqno, CheckRequest, ModRefs, BroadcastSeqno, StartRead, Read,
           Reply, FinishRead, BroadcastRead, StartWrite, HasPage, Write, Written, WriteError,
           FinishWrite, BroadcastWrite, TerminateWait, Terminate, DropRights, InitObject,
           NoSenders, Delete
    <3> QED
      BY <3>1, SMTT(30) DEF DInv
  <2> QED
    BY <2>1, <2>2, <2>3
<1>5. CASE UNCHANGED vars
  BY <1>5, DataSame DEF vars, kernelVars, pageVars, threadVars
<1> QED
  BY <1>1, <1>2, <1>3, <1>4, <1>5 DEF Next
=============================================================================
