----------------------------- MODULE PagerPort -----------------------------
(***************************************************************************)
(* How the threads of Mach's default pager share one paging object         *)
(* (mach/bootstrap/default_pager.c).  The kernel's requests for the object *)
(* arrive at its port and are numbered as they are received; a dstruct     *)
(* orders them by number and counts the reads and the writes in progress.  *)
(*                                                                         *)
(* Everything a thread does between dstruct_lock and dstruct_unlock is one *)
(* step here; condition_wait ends a step, and a broadcast that the code    *)
(* makes after unlocking is a step of its own.  Page contents are version  *)
(* numbers; where they are kept is the subject of PagingSpace.             *)
(***************************************************************************)
EXTENDS Integers, FiniteSets, Sequences, FiniteSetsExt, Functions

CONSTANTS
  Thread,       \* threads that serve the port (default_pager_internal_count)
  Page,         \* pages of the object, as numbers
  MaxUrefs,     \* default_pager_max_urefs
  MaxVersion,   \* bound: how often the kernel changes a page
  MaxMessage    \* bound: messages the kernel sends to the object

ASSUME PagerPortAssumption ==
  /\ IsFiniteSet(Thread) /\ IsFiniteSet(Page) /\ Page \subseteq Nat
  /\ MaxUrefs \in Nat \ {0} /\ MaxVersion \in Nat /\ MaxMessage \in Nat

\* What the pager holds of a page: a version, nothing, or (while the device is
\* written, and after a write that failed) something undefined.
Version == 0..MaxVersion
Absent == -1
Torn == -2
DeviceError == -3

VARIABLES
  \* the kernel and its side of the port
  log,            \* the messages sent to the object, in order; what was received is empty
  object,         \* "active", "terminated", "flushed" (terminated, no page left), "dead"
  page,           \* where a page is: "out", "wanted" (requested) or "in" memory
  content,        \* the version that is the page's right content
  must,           \* 1: the page has to be written back, the pager has no copy
  received,       \* how many messages were received: the number of the next one
  request_urefs,  \* user references the pager task has for the request ports
  name_urefs,     \* and for the name ports
  \* struct dstruct
  seqno, readers, writers, errors,
  pager_request, pager_name,    \* 1 if set, 0 for MACH_PORT_NULL
  request_refs, name_refs,
  freed,          \* 1 after kfree(ds)
  store,          \* the pages the dpager holds
  \* the threads
  pc,             \* where a server thread is
  job,            \* the message it serves, with what its handler keeps in locals
  objects         \* where the thread that runs default_pager_objects is

pageVars == <<page, must>>
kernelVars == <<log, object, content, pageVars>>
rightVars == <<request_urefs, name_urefs>>
countVars == <<seqno, readers, writers>>
portVars == <<pager_request, pager_name, request_refs, name_refs>>
threadVars == <<pc, job>>
vars == <<kernelVars, received, rightVars, countVars, errors, portVars, freed, store,
          threadVars, objects>>

Carrying == {"request", "write", "initialize"}      \* kinds that bring a send right
Message == [kind: Carrying \cup {"terminate", "init", "no_senders"},
            data: UNION {[P -> Version] : P \in SUBSET Page},
            write: {0, 1}]
Plain(k) == [kind |-> k, data |-> [p \in {} |-> 0], write |-> 0]

\* What a handler keeps: the message and its number, the pages still to be done,
\* a copy of errors and later what was read, references about to be released.
Handle(m, n) == [message |-> m, number |-> n, todo |-> DOMAIN m.data, value |-> 0,
                 request_refs |-> 0, name_refs |-> 0]
NoJob == Handle(Plain("init"), 0)

Init ==                            \* seqnos_memory_object_create has returned
  /\ log = <<>> /\ object = "active"
  /\ page = [p \in Page |-> "in"] /\ content = [p \in Page |-> 0]
  /\ must = [p \in Page |-> 0]
  /\ received = 0 /\ request_urefs = 1 /\ name_urefs = 1
  /\ seqno = 0 /\ readers = 0 /\ writers = 0 /\ errors = 0
  /\ pager_request = 1 /\ pager_name = 1 /\ request_refs = 1 /\ name_refs = 1
  /\ freed = 0 /\ store = [p \in Page |-> Absent]
  /\ pc = [t \in Thread |-> "idle"] /\ job = [t \in Thread |-> NoJob]
  /\ objects = "idle"

---------------------------------------------------------------------------
(* The kernel, as far as the pager relies on it.                           *)

Send(m) == /\ Len(log) < MaxMessage
           /\ log' = Append(log, m)

\* A page fault: memory_object_data_request.
KernelRequest(p, w) ==
  /\ object = "active" /\ page[p] = "out"
  /\ Send([kind |-> "request", data |-> [q \in {p} |-> 0], write |-> w])
  /\ page' = [page EXCEPT ![p] = "wanted"]
  /\ UNCHANGED <<object, content, must>>

\* Pageout of the pages P, of which those in M were modified in memory:
\* memory_object_data_write.
KernelPageout(P, M) ==
  /\ object = "active" /\ P # {} /\ M \subseteq P
  /\ \A p \in P : page[p] = "in" /\ (p \in M \/ must[p] = 1)
  /\ \A p \in M : content[p] < MaxVersion
  /\ content' = [p \in Page |-> IF p \in M THEN content[p] + 1 ELSE content[p]]
  /\ Send([kind |-> "write", data |-> [p \in P |-> content'[p]], write |-> 0])
  /\ page' = [p \in Page |-> IF p \in P THEN "out" ELSE page[p]]
  /\ must' = [p \in Page |-> IF p \in P THEN 0 ELSE must[p]]
  /\ UNCHANGED object

\* The original of a page is pushed to the object that is a copy of another one:
\* memory_object_data_initialize.  It counts only if the copy has no content of
\* its own for the page.  The handler "assumes that the default_pager is
\* single-threaded" (default_pager.c:2306): no pageout is in progress.
KernelPush(p) ==
  /\ object = "active" /\ page[p] = "out"
  /\ seqno = Len(log) /\ writers = 0
  /\ Send([kind |-> "initialize", data |-> [q \in {p} |-> 0], write |-> 0])
  /\ UNCHANGED <<object, content, pageVars>>

\* A page the pager can supply again is dropped.
KernelDiscard(p) ==
  /\ object = "active" /\ page[p] = "in" /\ must[p] = 0
  /\ page' = [page EXCEPT ![p] = "out"]
  /\ UNCHANGED <<log, object, content, must>>

KernelTerminate ==
  /\ object = "active"
  /\ Send(Plain("terminate"))
  /\ object' = IF \A p \in Page : page[p] = "out" THEN "flushed" ELSE "terminated"
  /\ UNCHANGED <<pageVars, content>>

\* An object of default_pager_object_create is mapped again.
KernelInit ==
  /\ object = "flushed"
  /\ Send(Plain("init"))
  /\ object' = "active"
  /\ UNCHANGED <<pageVars, content>>

KernelNoSenders ==
  /\ object \in {"flushed", "terminated"}
  /\ Send(Plain("no_senders"))
  /\ object' = "dead"
  /\ UNCHANGED <<pageVars, content>>

Kernel ==
  /\ \/ \E p \in Page, w \in {0, 1} : KernelRequest(p, w)
     \/ \E p \in Page : KernelDiscard(p) \/ KernelPush(p)
     \/ \E P, M \in SUBSET Page : KernelPageout(P, M)
     \/ KernelTerminate \/ KernelInit \/ KernelNoSenders
  /\ UNCHANGED <<received, rightVars, countVars, errors, portVars, freed, store,
                 threadVars, objects>>

---------------------------------------------------------------------------
(* Receiving and ordering the messages.                                    *)

Kind(t) == job[t].message.kind
Goto(t, label) == pc' = [pc EXCEPT ![t] = label]
Done(t) == Goto(t, "idle") /\ job' = [job EXCEPT ![t] = NoJob]

\* mach_msg_server: the next message of the port, with its number.  A message
\* of the kernel brings a send right for the request port along, init also one
\* for the name port.
Receive(t) ==
  /\ pc[t] = "idle" /\ received < Len(log) /\ freed = 0
  /\ received' = received + 1
  /\ job' = [job EXCEPT ![t] = Handle(log[received + 1], received)]
  /\ log' = [log EXCEPT ![received + 1] = Plain(@.kind)]
  /\ Goto(t, "lock")
  /\ request_urefs' = request_urefs
                      + (IF log[received + 1].kind \in Carrying \cup {"init"} THEN 1 ELSE 0)
  /\ name_urefs' = name_urefs + (IF log[received + 1].kind = "init" THEN 1 ELSE 0)
  /\ UNCHANGED <<object, content, pageVars, countVars, errors, portVars, freed, store,
                 objects>>

\* pager_port_lock has the lock and this message is the next one.
InTurn(t) == pc[t] = "lock" /\ seqno = job[t].number

\* pager_port_lock: not this message's turn.
WaitSeqno(t) ==
  /\ pc[t] = "lock" /\ seqno # job[t].number
  /\ Goto(t, "waiting_seqno")
  /\ UNCHANGED <<kernelVars, received, rightVars, countVars, errors, portVars, freed, store,
                 job, objects>>

\* condition_broadcast: everyone who sleeps at one place goes on at another.
Wake(from, to) == [t \in Thread |-> IF pc[t] = from THEN to ELSE pc[t]]

\* pager_port_check_request with too many references: all but one are given
\* back, with the pager unlocked.
\* Fault: the message's own reference is given back too.
CheckRequest_None(t) ==
  /\ InTurn(t) /\ Kind(t) \in Carrying
  /\ request_refs + 1 > MaxUrefs
  /\ job' = [job EXCEPT ![t].request_refs = request_refs]
  /\ request_refs' = 0
  /\ Goto(t, "mod_refs")
  /\ UNCHANGED <<kernelVars, received, rightVars, countVars, errors, pager_request,
                 pager_name, name_refs, freed, store, objects>>

CheckRequest(t) ==
  /\ InTurn(t) /\ Kind(t) \in Carrying
  /\ request_refs + 1 > MaxUrefs
  /\ job' = [job EXCEPT ![t].request_refs = request_refs]
  /\ request_refs' = 1
  /\ Goto(t, "mod_refs")
  /\ UNCHANGED <<kernelVars, received, rightVars, countVars, errors, pager_request,
                 pager_name, name_refs, freed, store, objects>>

ModRefs(t) ==
  /\ pc[t] = "mod_refs"
  /\ request_urefs' = request_urefs - job[t].request_refs
  /\ job' = [job EXCEPT ![t].request_refs = 0]
  /\ Goto(t, "writers")
  /\ UNCHANGED <<kernelVars, received, name_urefs, countVars, errors, portVars, freed,
                 store, objects>>

\* The check is behind the thread: made just now, or before it slept.
Checked(t) ==
  \/ pc[t] = "writers" /\ UNCHANGED request_refs
  \/ InTurn(t) /\ request_refs < MaxUrefs /\ request_refs' = request_refs + 1

\* pager_port_unlock: the number goes up; the broadcast follows.
Unlock(t) == seqno' = seqno + 1 /\ Goto(t, "broadcast")

After(t) == CASE Kind(t) = "request" -> IF job[t].value > 0 THEN "error" ELSE "read"
              [] Kind(t) = "write" -> "write"
              [] Kind(t) = "initialize" -> "has_page"
              [] Kind(t) = "terminate" -> "rights"
              [] OTHER -> "idle"

BroadcastSeqno(t) ==
  /\ pc[t] = "broadcast"
  /\ pc' = [Wake("waiting_seqno", "lock") EXCEPT ![t] = After(t)]
  /\ job' = [job EXCEPT ![t] = IF After(t) = "idle" THEN NoJob ELSE @]
  /\ UNCHANGED <<kernelVars, received, rightVars, countVars, errors, portVars, freed, store,
                 objects>>

---------------------------------------------------------------------------
(* memory_object_data_request                                              *)

\* pager_port_wait_for_writers, and pager_port_start_read once there is none.
\* Fault: the writes are not waited for.
StartRead_NoWait(t) ==
  /\ Kind(t) = "request" /\ Checked(t)
  /\ readers' = readers + 1
  /\ job' = [job EXCEPT ![t].value = errors]
  /\ Unlock(t)
  /\ UNCHANGED <<kernelVars, received, rightVars, writers, errors, pager_request, pager_name,
                 name_refs, freed, store, objects>>

StartRead(t) ==
  /\ Kind(t) = "request" /\ Checked(t)
  /\ \/ /\ writers # 0
        /\ Goto(t, "waiting_write")
        /\ UNCHANGED <<seqno, readers, job>>
     \/ /\ writers = 0
        /\ readers' = readers + 1
        /\ job' = [job EXCEPT ![t].value = errors]
        /\ Unlock(t)
  /\ UNCHANGED <<kernelVars, received, rightVars, writers, errors, pager_request, pager_name,
                 name_refs, freed, store, objects>>

ThePage(t) == CHOOSE p \in job[t].todo : TRUE

\* default_read: the page is read, and its block released if the kernel asks
\* for write access; or it is not there; or the device fails.
Read(t) ==
  /\ pc[t] = "read"
  /\ Goto(t, "reply")
  /\ \/ /\ job' = [job EXCEPT ![t].value = store[ThePage(t)]]
        /\ store' = [store EXCEPT ![ThePage(t)] = IF job[t].message.write = 1 THEN Absent ELSE @]
     \/ /\ store[ThePage(t)] # Absent
        /\ job' = [job EXCEPT ![t].value = DeviceError]
        /\ UNCHANGED store
  /\ UNCHANGED <<kernelVars, received, rightVars, countVars, errors, portVars, freed, objects>>

\* memory_object_data_supply, _provided, _unavailable or _error: the kernel has
\* the page, a page of zeroes, or no page.  A released page is precious.
Reply(t) ==
  LET p == ThePage(t)
      failed == pc[t] = "error" \/ job[t].value = DeviceError
      kept == page[p] = "wanted" /\ object = "active"
  IN /\ pc[t] \in {"reply", "error"}
     /\ page' = [page EXCEPT ![p] = IF ~kept THEN @ ELSE IF failed THEN "out" ELSE "in"]
     /\ must' = [must EXCEPT ![p] = IF kept /\ ~failed /\ job[t].value # Absent
                                    THEN job[t].message.write ELSE @]
     /\ Goto(t, "finish_read")
     /\ UNCHANGED <<log, object, content, received, rightVars, countVars, errors,
                    portVars, freed, store, job, objects>>

\* pager_port_finish_read
FinishRead(t) ==
  /\ pc[t] = "finish_read"
  /\ readers' = readers - 1
  /\ IF readers = 1 THEN Goto(t, "broadcast_read") /\ UNCHANGED job ELSE Done(t)
  /\ UNCHANGED <<kernelVars, received, rightVars, seqno, writers, errors, portVars, freed,
                 store, objects>>

BroadcastRead(t) ==
  /\ pc[t] = "broadcast_read"
  /\ pc' = [Wake("waiting_read", "readers") EXCEPT ![t] = "idle"]
  /\ job' = [job EXCEPT ![t] = NoJob]
  /\ UNCHANGED <<kernelVars, received, rightVars, countVars, errors, portVars, freed, store,
                 objects>>

---------------------------------------------------------------------------
(* memory_object_data_write and memory_object_data_initialize              *)

StartWrite(t) ==
  /\ Kind(t) \in {"write", "initialize"} /\ Checked(t)
  /\ writers' = writers + 1
  /\ Unlock(t)
  /\ UNCHANGED <<kernelVars, received, rightVars, readers, errors, pager_request, pager_name,
                 name_refs, freed, store, job, objects>>

\* The loops take the pages in ascending order.
NextPage(t) == Min(job[t].todo)
NextOne(t) ==
  LET left == job[t].todo \ {NextPage(t)}
  IN /\ job' = [job EXCEPT ![t].todo = left]
     /\ Goto(t, IF left = {} THEN "finish_write"
                ELSE IF Kind(t) = "write" THEN "write" ELSE "has_page")

\* data_initialize: a page that is there is left alone.
HasPage(t) ==
  /\ pc[t] = "has_page"
  /\ \/ store[NextPage(t)] = Absent /\ Goto(t, "write") /\ UNCHANGED job
     \/ store[NextPage(t)] # Absent /\ NextOne(t)
  /\ UNCHANGED <<kernelVars, received, rightVars, countVars, errors, portVars, freed, store,
                 objects>>

\* default_write: there may be no block for the page; otherwise the device is
\* written, which takes a while and may fail.
Write(t) ==
  /\ pc[t] = "write"
  /\ \/ store' = [store EXCEPT ![NextPage(t)] = Torn] /\ Goto(t, "writing")
     \/ UNCHANGED store /\ Goto(t, "write_error")
  /\ UNCHANGED <<kernelVars, received, rightVars, countVars, errors, portVars, freed, job,
                 objects>>

Written(t) ==
  /\ pc[t] = "writing"
  /\ \/ /\ store' = [store EXCEPT ![NextPage(t)] = job[t].message.data[NextPage(t)]]
        /\ NextOne(t)
     \/ UNCHANGED <<store, job>> /\ Goto(t, "write_error")
  /\ UNCHANGED <<kernelVars, received, rightVars, countVars, errors, portVars, freed,
                 objects>>

\* ds->errors++ under the lock; only errors # 0 is ever tested.
WriteError(t) ==
  /\ pc[t] = "write_error"
  /\ errors' = 1
  /\ NextOne(t)
  /\ UNCHANGED <<kernelVars, received, rightVars, countVars, portVars, freed, store, objects>>

\* pager_port_finish_write
\* Fault: the count is tested before it is changed.
FinishWrite_Early(t) ==
  /\ pc[t] = "finish_write"
  /\ writers' = writers - 1
  /\ IF writers = 0 THEN Goto(t, "broadcast_write") /\ UNCHANGED job ELSE Done(t)
  /\ UNCHANGED <<kernelVars, received, rightVars, seqno, readers, errors, portVars, freed,
                 store, objects>>

FinishWrite(t) ==
  /\ pc[t] = "finish_write"
  /\ writers' = writers - 1
  /\ IF writers = 1 THEN Goto(t, "broadcast_write") /\ UNCHANGED job ELSE Done(t)
  /\ UNCHANGED <<kernelVars, received, rightVars, seqno, readers, errors, portVars, freed,
                 store, objects>>

BroadcastWrite(t) ==
  /\ pc[t] = "broadcast_write"
  /\ pc' = [Wake("waiting_write", "writers") EXCEPT ![t] = "idle"]
  /\ job' = [job EXCEPT ![t] = NoJob]
  /\ UNCHANGED <<kernelVars, received, rightVars, countVars, errors, portVars, freed, store,
                 objects>>

---------------------------------------------------------------------------
(* memory_object_terminate, memory_object_init and the no-senders          *)
(* notification                                                            *)

\* The three waits of terminate, in order; one that was passed is not tested
\* again.
AtReaders(t) == InTurn(t) \/ pc[t] = "readers"
AtWriters(t) == pc[t] = "writers" \/ (AtReaders(t) /\ readers = 0)
\* Fault: writes are not waited for.
AtRefs_Hasty(t) == pc[t] = "refs" \/ AtWriters(t)

AtRefs(t) == pc[t] = "refs" \/ (AtWriters(t) /\ writers = 0)

TerminateWait(t) ==
  /\ Kind(t) = "terminate"
  /\ \/ AtReaders(t) /\ readers # 0 /\ Goto(t, "waiting_read")
     \/ AtWriters(t) /\ writers # 0 /\ Goto(t, "waiting_write")
     \/ AtRefs(t) /\ name_refs = 0 /\ Goto(t, "waiting_refs")
  /\ UNCHANGED <<kernelVars, received, rightVars, countVars, errors, portVars, freed, store,
                 job, objects>>

Terminate(t) ==
  /\ Kind(t) = "terminate" /\ AtRefs(t) /\ name_refs # 0
  /\ job' = [job EXCEPT ![t].request_refs = request_refs, ![t].name_refs = name_refs]
  /\ pager_request' = 0 /\ request_refs' = 0
  /\ pager_name' = 0 /\ name_refs' = 0
  /\ Unlock(t)
  /\ UNCHANGED <<kernelVars, received, rightVars, readers, writers, errors, freed, store,
                 objects>>

\* The references that were counted in the dstruct are given back.
DropRights(t) ==
  /\ pc[t] = "rights"
  /\ request_urefs' = request_urefs - job[t].request_refs
  /\ name_urefs' = name_urefs - job[t].name_refs
  /\ Done(t)
  /\ UNCHANGED <<kernelVars, received, countVars, errors, portVars, freed, store, objects>>

InitObject(t) ==
  /\ InTurn(t) /\ Kind(t) = "init"
  /\ IF pager_request # 0 THEN Goto(t, "panic") /\ UNCHANGED <<seqno, portVars>>
     ELSE /\ pager_request' = 1 /\ request_refs' = 1
          /\ pager_name' = 1 /\ name_refs' = 1
          /\ Unlock(t)
  /\ UNCHANGED <<kernelVars, received, rightVars, readers, writers, errors, freed, store, job,
                 objects>>

\* default_pager_no_senders up to dstruct_unlock: the number stays.
\* Fault: dstruct_lock instead of pager_port_lock.
NoSenders_AnyTurn(t) ==
  /\ pc[t] = "lock" /\ Kind(t) = "no_senders"
  /\ Goto(t, IF pager_request # 0 THEN "panic" ELSE "delete")
  /\ UNCHANGED <<kernelVars, received, rightVars, countVars, errors, portVars, freed, store,
                 job, objects>>

NoSenders(t) ==
  /\ InTurn(t) /\ Kind(t) = "no_senders"
  /\ Goto(t, IF pager_request # 0 THEN "panic" ELSE "delete")
  /\ UNCHANGED <<kernelVars, received, rightVars, countVars, errors, portVars, freed, store,
                 job, objects>>

\* pager_port_list_delete waits for the list's lock; then pager_dealloc and
\* kfree, and the port is gone.
Delete(t) ==
  /\ pc[t] = "delete" /\ objects \in {"idle", "send"}
  /\ freed' = 1
  /\ store' = [p \in Page |-> Absent]
  /\ Done(t)
  /\ UNCHANGED <<kernelVars, received, rightVars, countVars, errors, portVars, objects>>

---------------------------------------------------------------------------
(* default_pager_objects, run by the thread of the default port set.  It   *)
(* holds the list's lock from Scan to Grown.                               *)

ObjectsScan ==
  /\ objects = "idle" /\ freed = 0 /\ pager_name # 0
  /\ name_refs' = name_refs - 1
  /\ objects' = IF name_refs = 1 THEN "grow" ELSE "send"
  /\ UNCHANGED <<kernelVars, received, rightVars, countVars, errors, pager_request, pager_name,
                 request_refs, freed, store, threadVars>>

ObjectsGrow ==
  /\ objects = "grow"
  /\ name_urefs' = name_urefs + MaxUrefs
  /\ objects' = "grown"
  /\ UNCHANGED <<kernelVars, received, request_urefs, countVars, errors, portVars, freed, store,
                 threadVars>>

ObjectsGrown ==
  /\ objects = "grown"
  /\ name_refs' = name_refs + MaxUrefs
  /\ pc' = Wake("waiting_refs", "refs")          \* pager_port_finish_refs
  /\ objects' = "send"
  /\ UNCHANGED <<kernelVars, received, rightVars, countVars, errors, pager_request, pager_name,
                 request_refs, freed, store, job>>

\* The reply moves one reference to the caller.
ObjectsSend ==
  /\ objects = "send"
  /\ name_urefs' = name_urefs - 1
  /\ objects' = "idle"
  /\ UNCHANGED <<kernelVars, received, request_urefs, countVars, errors, portVars, freed, store,
                 threadVars>>

default_pager_objects == ObjectsScan \/ ObjectsGrow \/ ObjectsGrown \/ ObjectsSend

---------------------------------------------------------------------------
Serve(t) ==
  \/ WaitSeqno(t) \/ CheckRequest(t) \/ ModRefs(t) \/ BroadcastSeqno(t)
  \/ StartRead(t) \/ Read(t) \/ Reply(t) \/ FinishRead(t) \/ BroadcastRead(t)
  \/ StartWrite(t) \/ HasPage(t) \/ Write(t) \/ Written(t) \/ WriteError(t)
  \/ FinishWrite(t) \/ BroadcastWrite(t)
  \/ TerminateWait(t) \/ Terminate(t) \/ DropRights(t) \/ InitObject(t)
  \/ NoSenders(t) \/ Delete(t)

Next == Kernel \/ default_pager_objects \/ \E t \in Thread : Receive(t) \/ Serve(t)

Spec == Init /\ [][Next]_vars

---------------------------------------------------------------------------
\* default_pager.c:1636-1639, "reads must wait for previous writes to finish
\* ... we must avoid returning stale data": a data_request is answered with the
\* content the kernel paged out last, or with nothing for a page that was never
\* changed, whatever failed before.
NoStaleData ==
  \A t \in Thread :
    pc[t] = "reply" => \/ job[t].value = content[ThePage(t)]
                       \/ job[t].value = Absent /\ content[ThePage(t)] = 0
                       \/ job[t].value = DeviceError

\* default_pager.c:1640, "terminate requests wait for proceeding reads and
\* writes to finish": when the request port is gone no read or write that would
\* still use it is in progress, and readers and writers count the threads.
Reading(t) == Kind(t) = "request"
              /\ pc[t] \in {"broadcast", "read", "reply", "error", "finish_read"}
Writing(t) == Kind(t) \in {"write", "initialize"}
              /\ pc[t] \in {"broadcast", "has_page", "write", "writing", "write_error",
                            "finish_write"}
TerminateWaits ==
  /\ readers = Cardinality({t \in Thread : Reading(t)})
  /\ writers = Cardinality({t \in Thread : Writing(t)})
  /\ pager_request = 0 => readers = 0 /\ writers = 0

\* Every send right the pager was given is counted exactly once: in the
\* dstruct, by a thread that is about to release it, or by a message whose turn
\* has not come; so terminate releases all of them (default_pager.c:2112-2130).
Total(f) == FoldFunction(+, 0, f)
Coming(kinds) == [t \in Thread |-> IF pc[t] \in {"lock", "waiting_seqno"} /\ Kind(t) \in kinds
                                   THEN 1 ELSE 0]
RightsBalance ==
  /\ request_urefs = request_refs + Total([t \in Thread |-> job[t].request_refs])
                     + Total(Coming(Carrying \cup {"init"}))
  /\ name_urefs = name_refs + Total([t \in Thread |-> job[t].name_refs])
                  + Total(Coming({"init"}))
                  + (IF objects = "idle" THEN 0 ELSE 1)
                  + (IF objects = "grown" THEN MaxUrefs ELSE 0)

\* No message makes the pager panic (default_pager.c:2030, 2163), and the
\* dstruct is freed by the last thread that works with it: what may still come
\* after kfree is a broadcast.
FreeIsLast ==
  /\ \A t \in Thread : pc[t] # "panic"
  /\ freed = 1 => /\ objects \in {"idle", "send"}
                  /\ \A t \in Thread : pc[t] \in {"idle", "broadcast", "broadcast_read",
                                                  "broadcast_write", "rights"}

\* No wakeup is lost and the threads do not wait for each other in a circle
\* (default_pager.c:1653-1770): whoever sleeps on a condition has someone who
\* will signal it, the thread whose turn it is, a read or write in progress, or
\* default_pager_objects; and reads and writes in progress never sleep.
WaitersHaveWakers ==
  \A t \in Thread :
    /\ pc[t] = "waiting_seqno" =>
         \E u \in Thread :
           \/ pc[u] = "broadcast"
           \/ /\ job[u].number = seqno
              /\ pc[u] \in {"lock", "mod_refs", "readers", "writers", "refs", "waiting_read",
                            "waiting_write", "waiting_refs"}
    /\ pc[t] = "waiting_read" => \E u \in Thread : Reading(u) \/ pc[u] = "broadcast_read"
    /\ pc[t] = "waiting_write" => \E u \in Thread : Writing(u) \/ pc[u] = "broadcast_write"
    /\ pc[t] = "waiting_refs" => objects \in {"grow", "grown"}
=============================================================================
