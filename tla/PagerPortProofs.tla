-------------------------- MODULE PagerPortProofs --------------------------
(***************************************************************************)
(* What the order of the messages and the counts of reads and writes give, *)
(* for any number of threads, pages and messages: terminate waits, nothing *)
(* panics, the dstruct is freed last, no wakeup is lost, every send right  *)
(* is counted once, and no request gets old data.                          *)
(***************************************************************************)
EXTENDS PagerPortLemmas

\* Most steps follow by logic alone and are left to Zenon.
USE ZenonT(20), SMTT(30)

\* kfree: by the thread of the last message, when nobody reads or writes.
LEMMA DeleteStep ==
    ASSUME PInv, NEW t \in Thread, Delete(t)
    PROVE  PInv'
<1> USE DEF PInv, kernelVars, countVars, portVars
<1>1. pc[t] = "delete" /\ objects \in {"idle", "send"} /\ freed' = 1
  BY DEF Delete
<1> USE <1>1
<1>2. pc[t] \in Before /\ job[t].number = seqno /\ Kind(t) = "no_senders"
  BY DEF Turns, Places, Before
<1>3. /\ seqno + 1 = Len(log) /\ seqno < received /\ log[seqno + 1].kind = "no_senders"
      /\ pager_request = 0
      /\ \A u \in Thread : u # t => pc[u] \notin Before
  BY <1>2, Turn
<1> USE <1>3
<1>4. readers = 0 /\ writers = 0
  BY DEF Counts, TerminateWaits
<1>5. \A u \in Thread : ~Reading(u) /\ ~Writing(u)
  BY <1>4, NobodyReads, NobodyWrites
<1> USE <1>5
<1>6. /\ \A u \in Thread : pc'[u] = IF u = t THEN "idle" ELSE pc[u]
      /\ pc' \in [Thread -> Before \cup Behind]
  BY DEF Delete, Done, Goto, PTypes, Behind
<1> USE <1>6
<1>7. /\ job' = [u \in Thread |-> job'[u]] /\ \A u \in Thread : IsJob(job'[u])
      /\ \A u \in Thread : job'[u] = IF u = t THEN NoJob ELSE job[u]
      /\ Kind(t)' = "init"
  BY JobDone DEF Delete, Done
<1> USE <1>7
<1>8. \A u \in Thread : u # t => Kind(u)' = Kind(u)
  BY DEF Kind
<1>9. UNCHANGED <<log, object, content, received, seqno, readers, writers, pager_request,
                  pager_name, name_refs, objects>>
  BY DEF Delete
<1> USE <1>9
<1>10. \A u \in Thread : pc'[u] \notin Before
  BY DEF Before
<1> USE <1>10
<1>11. \A u \in Thread : ~Reading(u)' /\ ~Writing(u)'
  BY <1>8 DEF Reading, Writing
<1>12. PTypes'
  BY DEF PTypes
<1>13. Protocol'
  BY ProtocolSame
<1>14. Turns'
  BY SMTT(30) DEF Turns
<1>15. Places'
  BY <1>8, SMTT(30) DEF Places, Kinds
<1>16. Ports'
  BY DEF Ports
<1>17. Counts'
  <2>1. \A u \in Thread : Reading(u)' <=> Reading(u)
    BY <1>11
  <2>2. \A u \in Thread : Writing(u)' <=> Writing(u)
    BY <1>11
  <2> QED
    BY <1>4, <2>1, <2>2 DEF Counts, TerminateWaits
<1>18. Wakers'
  BY DEF Wakers, Before
<1>19. Freed'
  <2>1. object = "dead" /\ received = Len(log)
    BY SMTT(30) DEF Protocol, PTypes
  <2>2. \A u \in Thread : pc'[u] \in {"idle", "broadcast", "broadcast_read", "broadcast_write",
                                      "rights"}
    BY DEF Reading, Writing, Places, Before, Behind
  <2>3. seqno = Len(log) - 1
    BY SMTT(30) DEF PTypes
  <2> QED
    BY <2>1, <2>2, <2>3 DEF Freed, FreeIsLast
<1> QED
  BY <1>12, <1>13, <1>14, <1>15, <1>16, <1>17, <1>18, <1>19

-----------------------------------------------------------------------------
(* The end of a read or a write, and of the other handlers                 *)

\* A count goes down; the thread that brings it to 0 has a broadcast to make.
LEMMA FinishStep ==
    ASSUME PInv, NEW t \in Thread, FinishRead(t) \/ FinishWrite(t)
    PROVE  PInv'
<1> USE DEF PInv, kernelVars, portVars
<1>1. PICK l \in {"broadcast_read", "broadcast_write", "idle"} :
        /\ Goto(t, l)
        /\ l = "idle" => job' = [job EXCEPT ![t] = NoJob]
        /\ l # "idle" => job' = job
        /\ FinishRead(t) => (l = "broadcast_read" <=> readers = 1) /\ l # "broadcast_write"
        /\ FinishWrite(t) => (l = "broadcast_write" <=> writers = 1) /\ l # "broadcast_read"
  BY DEF FinishRead, FinishWrite, Done
<1> USE <1>1
<1>2. pc[t] \in {"finish_read", "finish_write"}
  BY DEF FinishRead, FinishWrite
<1> USE <1>2
<1>3. /\ \A u \in Thread : pc'[u] = IF u = t THEN l ELSE pc[u]
      /\ pc' \in [Thread -> Before \cup Behind]
  BY DEF Goto, PTypes, Behind
<1> USE <1>3
<1>4. /\ job' = [u \in Thread |-> job'[u]] /\ \A u \in Thread : IsJob(job'[u])
      /\ \A u \in Thread : u # t => job'[u] = job[u]
      /\ Kind(t)' \in {Kind(t), "init"}
  <2>1. CASE l = "idle"
    BY <2>1, JobDone
  <2>2. CASE l # "idle"
    BY <2>2 DEF PTypes, Kind
  <2> QED
    BY <2>1, <2>2
<1> USE <1>4
<1>5. \A u \in Thread : u # t => Kind(u)' = Kind(u)
  BY DEF Kind
<1> USE <1>5
<1>6. UNCHANGED <<log, object, content, received, seqno, pager_request, pager_name, name_refs,
                  freed, objects>>
  BY DEF FinishRead, FinishWrite
<1> USE <1>6
<1>7. freed = 0
  BY DEF Freed, FreeIsLast, PTypes
<1>8. \A u \in Thread : pc'[u] \in Before <=> u # t /\ pc[u] \in Before
  BY DEF Before
<1>9. pc[t] \notin Before
  BY DEF Before
<1>10. \/ /\ FinishRead(t) /\ t \in Readers /\ Readers' = Readers \ {t} /\ Writers' = Writers
          /\ readers' = readers - 1 /\ writers' = writers
       \/ /\ FinishWrite(t) /\ t \in Writers /\ Writers' = Writers \ {t} /\ Readers' = Readers
          /\ writers' = writers - 1 /\ readers' = readers
  <2>1. CASE FinishRead(t)
    <3>1. pc[t] = "finish_read" /\ Kind(t) = "request"
      BY <2>1 DEF FinishRead, Places
    <3> QED
      BY <2>1, <3>1 DEF FinishRead, Reading, Writing, Readers, Writers
  <2>2. CASE FinishWrite(t)
    <3>1. pc[t] = "finish_write" /\ Kind(t) \in {"write", "initialize"}
      BY <2>2 DEF FinishWrite, Places
    <3> QED
      BY <2>2, <3>1 DEF FinishWrite, Reading, Writing, Readers, Writers
  <2> QED
    BY <2>1, <2>2
<1> USE <1>10
<1>11. /\ readers = Cardinality(Readers) /\ writers = Cardinality(Writers)
       /\ Readers \in SUBSET Thread /\ Writers \in SUBSET Thread
  BY DEF Counts, TerminateWaits, Readers, Writers
<1>12. /\ readers' = Cardinality(Readers') /\ writers' = Cardinality(Writers')
       /\ readers' \in Nat /\ writers' \in Nat
       /\ readers' <= readers /\ writers' <= writers
       /\ Readers' \in SUBSET Thread /\ Writers' \in SUBSET Thread
  <2>1. Readers' \in SUBSET Thread /\ Writers' \in SUBSET Thread
    BY <1>11
  <2>2. readers' = Cardinality(Readers') /\ writers' = Cardinality(Writers')
    BY <1>11, CountDown
  <2>3. readers' \in Nat /\ writers' \in Nat
    BY <2>1, <2>2, CountZero
  <2> QED
    BY <2>1, <2>2, <2>3, SMTT(30) DEF PTypes
<1> USE <1>12
<1>13. PTypes'
  BY DEF PTypes
<1>14. Protocol'
  BY ProtocolSame
<1>15. Turns'
  BY <1>8, <1>9, SMTT(30) DEF Turns
<1>16. Places'
  BY SMTT(30) DEF Places, Kinds
<1>17. Ports'
  BY DEF Ports
<1>18. Counts'
  <2>1. TerminateWaits'
    BY SMTT(30) DEF Counts, TerminateWaits, PTypes, Readers, Writers
  <2>2. (readers = 0 => readers' = 0) /\ (writers = 0 => writers' = 0)
    BY SMTT(30)
  <2> QED
    BY <2>1, <2>2 DEF Counts
<1>19. Wakers'
  <2>1. /\ (\E u \in Thread : Reading(u) \/ pc[u] = "broadcast_read") =>
             \E u \in Thread : Reading(u)' \/ pc'[u] = "broadcast_read"
        /\ (\E u \in Thread : Writing(u) \/ pc[u] = "broadcast_write") =>
             \E u \in Thread : Writing(u)' \/ pc'[u] = "broadcast_write"
    <3>1. readers' # 0 => \E u \in Thread : Reading(u)'
      BY CountZero DEF Readers
    <3>2. writers' # 0 => \E u \in Thread : Writing(u)'
      BY CountZero DEF Writers
    <3>3. FinishRead(t) => readers' # 0 \/ pc'[t] = "broadcast_read"
      BY SMTT(30) DEF FinishRead, PTypes
    <3>4. FinishWrite(t) => writers' # 0 \/ pc'[t] = "broadcast_write"
      BY SMTT(30) DEF FinishWrite, PTypes
    <3>5. CASE FinishRead(t) /\ Writers' = Writers
      BY <3>1, <3>3, <3>5 DEF Writers
    <3>6. CASE FinishWrite(t) /\ Readers' = Readers
      BY <3>2, <3>4, <3>6 DEF Readers
    <3> QED
      BY <3>5, <3>6
  <2>2. \A u \in Thread : pc[u] = "broadcast" => pc'[u] = "broadcast"
    OBVIOUS
  <2>3. \A u \in Thread : pc'[u] \in {"waiting_seqno", "waiting_read", "waiting_write",
                                      "waiting_refs"} => pc'[u] = pc[u] /\ job'[u] = job[u]
    OBVIOUS
  <2> USE <2>3
  <2>4. ASSUME NEW u \in Thread, pc'[u] = "waiting_seqno", job'[u].number = seqno'
        PROVE  \E w \in Thread : pc'[w] = "broadcast"
    BY <2>2, <2>4 DEF Wakers
  <2>5. ASSUME NEW u \in Thread, pc'[u] = "waiting_read"
        PROVE  \E w \in Thread : Reading(w)' \/ pc'[w] = "broadcast_read"
    BY <2>1, <2>5 DEF Wakers
  <2>6. ASSUME NEW u \in Thread, pc'[u] = "waiting_write"
        PROVE  \E w \in Thread : Writing(w)' \/ pc'[w] = "broadcast_write"
    BY <2>1, <2>6 DEF Wakers
  <2>7. ASSUME NEW u \in Thread, pc'[u] = "waiting_refs"
        PROVE  objects' \in {"grow", "grown"}
    BY <2>7, SMTT(30) DEF Wakers
  <2> QED
    BY <2>4, <2>5, <2>6, <2>7 DEF Wakers
<1>20. Freed'
  BY <1>7 DEF Freed, FreeIsLast
<1> QED
  BY <1>13, <1>14, <1>15, <1>16, <1>17, <1>18, <1>19, <1>20

\* The broadcasts of pager_port_finish_read and _write, and the end of terminate.
LEMMA LeaveStep ==
    ASSUME PInv, NEW t \in Thread, BroadcastRead(t) \/ BroadcastWrite(t) \/ DropRights(t)
    PROVE  PInv'
<1> USE DEF PInv, kernelVars, countVars, portVars
<1>1. pc[t] \in {"broadcast_read", "broadcast_write", "rights"}
  BY DEF BroadcastRead, BroadcastWrite, DropRights
<1> USE <1>1
<1>2. /\ \A u \in Thread :
           pc'[u] = IF u = t THEN "idle"
                    ELSE IF pc[t] = "broadcast_read" /\ pc[u] = "waiting_read" THEN "readers"
                    ELSE IF pc[t] = "broadcast_write" /\ pc[u] = "waiting_write" THEN "writers"
                    ELSE pc[u]
      /\ pc' \in [Thread -> Before \cup Behind]
  BY DEF BroadcastRead, BroadcastWrite, DropRights, Wake, Done, Goto, PTypes, Before, Behind
<1> USE <1>2
<1>3. /\ job' = [u \in Thread |-> job'[u]] /\ \A u \in Thread : IsJob(job'[u])
      /\ \A u \in Thread : job'[u] = IF u = t THEN NoJob ELSE job[u]
      /\ Kind(t)' = "init"
  BY JobDone DEF BroadcastRead, BroadcastWrite, DropRights, Done
<1> USE <1>3
<1>4. \A u \in Thread : u # t => Kind(u)' = Kind(u)
  BY DEF Kind
<1> USE <1>4
<1>5. UNCHANGED <<log, object, content, received, seqno, readers, writers, pager_request,
                  pager_name, name_refs, freed, objects>>
  BY DEF BroadcastRead, BroadcastWrite, DropRights
<1> USE <1>5
<1>6. \A u \in Thread : pc'[u] \in Before <=> u # t /\ pc[u] \in Before
  BY DEF Before
<1>7. pc[t] \notin Before
  BY DEF Before
<1>8. \A u \in Thread : (Reading(u)' <=> Reading(u)) /\ (Writing(u)' <=> Writing(u))
  BY DEF Reading, Writing
<1>9. PTypes'
  BY DEF PTypes
<1>10. Protocol'
  BY ProtocolSame
<1>11. Turns'
  BY <1>6, <1>7, SMTT(30) DEF Turns, Before
<1>12. Places'
  BY SMTT(30) DEF Places, Kinds
<1>13. Ports'
  BY DEF Ports
<1>14. Counts'
  BY <1>8, SMTT(30) DEF Counts, TerminateWaits
<1>15. Wakers'
  BY <1>8, SMTT(30) DEF Wakers
<1>16. Freed'
  BY DEF Freed, FreeIsLast
<1> QED
  BY <1>9, <1>10, <1>11, <1>12, <1>13, <1>14, <1>15, <1>16

-----------------------------------------------------------------------------
(* default_pager_objects                                                   *)

LEMMA ObjectsStep ==
    ASSUME PInv, default_pager_objects
    PROVE  PInv'
<1> USE DEF PInv, kernelVars, countVars, portVars, threadVars
<1>1. UNCHANGED <<log, object, content, received, seqno, readers, writers, pager_request,
                  pager_name, freed, job>>
  BY DEF default_pager_objects, ObjectsScan, ObjectsGrow, ObjectsGrown, ObjectsSend
<1> USE <1>1
<1>2. /\ name_refs' \in Nat /\ objects' \in {"idle", "grow", "grown", "send"}
      /\ pager_name = 0 => name_refs' = 0
      /\ objects' \in {"grow", "grown"} <=> pager_name = 1 /\ name_refs' = 0
      /\ freed = 1 => objects' = "idle"
      /\ objects \in {"grow", "grown"} => objects' \in {"grow", "grown"} \/ ObjectsGrown
  <2>1. CASE ObjectsScan
    BY <2>1, SMTT(30) DEF ObjectsScan, PTypes, Ports
  <2>2. CASE ObjectsGrow
    BY <2>2 DEF ObjectsGrow, PTypes, Ports, Freed, FreeIsLast
  <2>3. CASE ObjectsGrown
    BY <2>3, PagerPortAssumption, SMTT(30) DEF ObjectsGrown, PTypes, Ports, Freed, FreeIsLast
  <2>4. CASE ObjectsSend
    BY <2>4 DEF ObjectsSend, PTypes, Ports
  <2> QED
    BY <2>1, <2>2, <2>3, <2>4 DEF default_pager_objects
<1> USE <1>2
<1>3. /\ \A u \in Thread : pc'[u] = IF ObjectsGrown /\ pc[u] = "waiting_refs" THEN "refs"
                                    ELSE pc[u]
      /\ pc' \in [Thread -> Before \cup Behind]
  <2>1. CASE ObjectsGrown
    BY <2>1 DEF ObjectsGrown, Wake, PTypes, Before
  <2>2. CASE ~ObjectsGrown
    BY <2>2 DEF default_pager_objects, ObjectsScan, ObjectsGrow, ObjectsSend, PTypes
  <2> QED
    BY <2>1, <2>2
<1> USE <1>3
<1>4. \A u \in Thread : Kind(u)' = Kind(u)
  BY DEF Kind
<1> USE <1>4
<1>5. \A u \in Thread : (Reading(u)' <=> Reading(u)) /\ (Writing(u)' <=> Writing(u))
  BY DEF Reading, Writing
<1>6. \A u \in Thread : pc'[u] \in Before <=> pc[u] \in Before
  BY DEF Before
<1>7. PTypes'
  BY DEF PTypes
<1>8. Protocol'
  BY ProtocolSame
<1>9. Turns'
  BY <1>6 DEF Turns
<1>10. Places'
  BY DEF Places
<1>11. Ports'
  BY DEF Ports
<1>12. Counts'
  BY <1>5, SMTT(30) DEF Counts, TerminateWaits
<1>13. Wakers'
  BY <1>5 DEF Wakers
<1>14. Freed'
  BY DEF Freed, FreeIsLast
<1> QED
  BY <1>7, <1>8, <1>9, <1>10, <1>11, <1>12, <1>13, <1>14

-----------------------------------------------------------------------------
(* The port: a message is received                                         *)

LEMMA ReceiveStep ==
    ASSUME PInv, NEW t \in Thread, Receive(t)
    PROVE  PInv'
<1> USE DEF PInv
<1> DEFINE m == log[received + 1]
<1>1. /\ pc[t] = "idle" /\ received < Len(log) /\ freed = 0 /\ received' = received + 1
      /\ UNCHANGED <<object, content, seqno, readers, writers, pager_request, pager_name,
                     name_refs, freed, objects>>
  BY DEF Receive, countVars, portVars
<1> USE <1>1
<1>2. /\ received \in Nat /\ seqno \in Nat /\ seqno <= received /\ Len(log) \in Nat
      /\ received + 1 \in 1 .. Len(log) /\ m \in Message
  BY SMTT(30) DEF PTypes
<1> USE <1>2
<1>3. m.kind \in Kinds
  BY LogKinds
<1> USE <1>3
<1>4. Plain(m.kind) \in Message
  BY PlainType
<1>5. /\ log' \in Seq(Message) /\ Len(log') = Len(log)
      /\ \A i \in 1 .. Len(log) : log'[i].kind = log[i].kind
  <2>1. log' = [log EXCEPT ![received + 1] = Plain(m.kind)]
    BY DEF Receive
  <2>2. log' \in Seq(Message) /\ Len(log') = Len(log)
    BY <1>4, <2>1, SMTT(30) DEF PTypes
  <2>3. \A i \in 1 .. Len(log) : log'[i] = IF i = received + 1 THEN Plain(m.kind) ELSE log[i]
    BY <2>1, SMTT(30) DEF PTypes
  <2>4. Plain(m.kind).kind = log[received + 1].kind
    BY PlainType
  <2> QED
    BY <2>2, <2>3, <2>4
<1> USE <1>5
<1>6. /\ \A u \in Thread : pc'[u] = IF u = t THEN "lock" ELSE pc[u]
      /\ pc' \in [Thread -> Before \cup Behind]
  BY DEF Receive, Goto, PTypes, Before
<1> USE <1>6
<1>7. /\ job' = [u \in Thread |-> job'[u]] /\ \A u \in Thread : IsJob(job'[u])
      /\ \A u \in Thread : u # t => job'[u] = job[u]
      /\ job'[t].number = received /\ Kind(t)' = m.kind
  BY DEF Receive, PTypes, IsJob, Handle, Kind
<1> USE <1>7
<1>8. \A u \in Thread : u # t => Kind(u)' = Kind(u)
  BY DEF Kind
<1> USE <1>8
<1>9. \A u \in Thread : (Reading(u)' <=> Reading(u)) /\ (Writing(u)' <=> Writing(u))
  BY DEF Reading, Writing
<1>10. \A u \in Thread : pc'[u] \in Before <=> u = t \/ pc[u] \in Before
  BY DEF Before
<1> USE <1>10
<1> HIDE DEF m
<1>11. PTypes'
  BY SMTT(30) DEF PTypes
<1>12. Protocol'
  <2>1. \A i \in 1 .. Len(log) : i > 1 => i - 1 \in 1 .. Len(log)
    BY SMTT(30)
  <2>2. Len(log) > 0 => Len(log) \in 1 .. Len(log)
    BY SMTT(30)
  <2>3. ASSUME NEW i \in 1 .. Len(log')
        PROVE  /\ log'[i].kind \in {"init", "no_senders"} <=>
                    i > 1 /\ log'[i - 1].kind = "terminate"
               /\ log'[i].kind = "no_senders" => i = Len(log')
    <3>1. /\ i \in 1 .. Len(log) /\ log'[i].kind = log[i].kind
          /\ i > 1 => log'[i - 1].kind = log[i - 1].kind
      BY <2>1, <2>3
    <3> QED
      BY <3>1 DEF Protocol
  <2>4. Len(log') = Len(log) /\ (Len(log) > 0 => log'[Len(log')].kind = log[Len(log)].kind)
    BY <2>2
  <2> QED
    BY <2>3, <2>4, SMTT(30) DEF Protocol
<1>13. Turns'
  <2>1. pc[t] \notin Before
    BY DEF Before
  <2>2. \A u \in Thread : pc[u] \in Before => job[u].number \in Nat /\ job[u].number < received
                            /\ job[u].number + 1 \in 1 .. Len(log)
    BY SMTT(30) DEF Turns, PTypes, IsJob
  <2> USE <2>2
  <2>3. ASSUME NEW u \in Thread, pc'[u] \in Before
        PROVE  /\ seqno' <= job'[u].number /\ job'[u].number < received'
               /\ Kind(u)' = log'[job'[u].number + 1].kind
               /\ pc'[u] \notin {"lock", "waiting_seqno"} => job'[u].number = seqno'
    <3>1. CASE u = t
      BY <3>1, SMTT(30) DEF m
    <3>2. CASE u # t
      <4>1. pc[u] \in Before /\ pc'[u] = pc[u] /\ job'[u] = job[u] /\ Kind(u)' = Kind(u)
        BY <2>3, <3>2
      <4> USE <4>1
      <4>2. log'[job[u].number + 1].kind = log[job[u].number + 1].kind
        OBVIOUS
      <4>3. job[u].number \in Nat /\ job[u].number < received
        OBVIOUS
      <4>4. job[u].number < received + 1
        BY <4>3, SMTT(30)
      <4>5. /\ seqno <= job[u].number /\ Kind(u) = log[job[u].number + 1].kind
            /\ pc[u] \notin {"lock", "waiting_seqno"} => job[u].number = seqno
        BY DEF Turns
      <4> QED
        BY <4>2, <4>4, <4>5
    <3> QED
      BY <3>1, <3>2
  <2>4. ASSUME NEW u \in Thread, NEW w \in Thread, pc'[u] \in Before, pc'[w] \in Before, u # w
        PROVE  job'[u].number # job'[w].number
    BY <2>4, SMTT(30) DEF Turns
  <2>5. ASSUME NEW n \in Nat, seqno' <= n, n < received'
        PROVE  \E u \in Thread : pc'[u] \in Before /\ job'[u].number = n
    <3>1. CASE n = received
      BY <3>1
    <3>2. CASE n # received
      <4>1. seqno <= n /\ n < received
        BY <2>5, <3>2, SMTT(30)
      <4>2. PICK u \in Thread : pc[u] \in Before /\ job[u].number = n
        BY <4>1 DEF Turns
      <4> QED
        BY <2>1, <4>2
    <3> QED
      BY <3>1, <3>2
  <2> QED
    BY <2>3, <2>4, <2>5 DEF Turns
<1>14. Places'
  BY SMTT(30) DEF Places
<1>15. Ports'
  <2>1. seqno > 0 => seqno \in 1 .. Len(log)
    BY SMTT(30)
  <2> QED
    BY <2>1 DEF Ports
<1>16. Counts'
  BY <1>9 DEF Counts, TerminateWaits
<1>17. Wakers'
  BY <1>9, SMTT(30) DEF Wakers
<1>18. Freed'
  BY SMTT(30) DEF Freed, FreeIsLast
<1> QED
  BY <1>11, <1>12, <1>13, <1>14, <1>15, <1>16, <1>17, <1>18

-----------------------------------------------------------------------------
(* The kernel sends                                                        *)

LEMMA SendStep ==
    ASSUME PInv, NEW m \in Message, log' = Append(log, m), content' \in [Page -> Version],
           \/ object = "active" /\ m.kind \in Carrying /\ object' = "active"
           \/ object = "active" /\ m.kind = "terminate" /\ object' \in {"terminated", "flushed"}
           \/ object = "flushed" /\ m.kind = "init" /\ object' = "active"
           \/ object \in {"terminated", "flushed"} /\ m.kind = "no_senders" /\ object' = "dead",
           UNCHANGED <<received, seqno, readers, writers, pager_request, pager_name, name_refs,
                       freed, pc, job, objects>>
    PROVE  PInv'
<1> USE DEF PInv
<1>1. Len(log) \in Nat /\ log \in Seq(Message)
  BY SMTT(30) DEF PTypes
<1> USE <1>1
<1>2. /\ log' \in Seq(Message) /\ Len(log') = Len(log) + 1 /\ log'[Len(log) + 1] = m
      /\ \A i \in 1 .. Len(log) : log'[i] = log[i]
  BY SMTT(30)
<1> USE <1>2
<1>3. freed = 0
  BY DEF Freed, PTypes
<1>4. \A u \in Thread : Kind(u)' = Kind(u)
  BY DEF Kind
<1> USE <1>4
<1>5. \A u \in Thread : (Reading(u)' <=> Reading(u)) /\ (Writing(u)' <=> Writing(u))
  BY DEF Reading, Writing
<1>6. PTypes'
  <2>1. object' \in {"active", "terminated", "flushed", "dead"}
    OBVIOUS
  <2>2. received <= Len(log')
    BY SMTT(30) DEF PTypes
  <2> QED
    BY <2>1, <2>2 DEF PTypes
<1>7. Protocol'
  <2>1. \A i \in 1 .. Len(log) : log[i].kind # "no_senders"
    BY SMTT(30) DEF Protocol
  <2>2. m.kind \in {"init", "no_senders"} <=> Len(log) > 0 /\ log[Len(log)].kind = "terminate"
    BY SMTT(30) DEF Protocol, Carrying
  <2>3. \A i \in 1 .. Len(log') : \/ i \in 1 .. Len(log) /\ (i > 1 => i - 1 \in 1 .. Len(log))
                                  \/ i = Len(log) + 1 /\ (Len(log) > 0 <=> i > 1) /\ i - 1 = Len(log)
    BY SMTT(30)
  <2>4. Len(log) > 0 => Len(log) \in 1 .. Len(log)
    BY SMTT(30)
  <2>5. ASSUME NEW i \in 1 .. Len(log')
        PROVE  /\ log'[i].kind \in {"init", "no_senders"} <=>
                    i > 1 /\ log'[i - 1].kind = "terminate"
               /\ log'[i].kind = "no_senders" => i = Len(log')
    <3>1. CASE i \in 1 .. Len(log) /\ (i > 1 => i - 1 \in 1 .. Len(log))
      BY <2>1, <3>1, SMTT(30) DEF Protocol
    <3>2. CASE i = Len(log) + 1 /\ (Len(log) > 0 <=> i > 1) /\ i - 1 = Len(log)
      BY <2>2, <2>4, <3>2
    <3> QED
      BY <2>3, <3>1, <3>2
  <2>6. Len(log') > 0 /\ log'[Len(log')] = m
    BY SMTT(30)
  <2> QED
    BY <2>5, <2>6, SMTT(30) DEF Protocol, Carrying
<1>8. Turns'
  <2>1. \A u \in Thread : pc[u] \in Before => job[u].number + 1 \in 1 .. Len(log)
    BY SMTT(30) DEF Turns, PTypes, IsJob
  <2> QED
    BY <2>1, SMTT(30) DEF Turns
<1>9. Places'
  BY DEF Places
<1>10. Ports'
  <2>1. seqno > 0 => seqno \in 1 .. Len(log)
    BY SMTT(30) DEF PTypes
  <2> QED
    BY <2>1 DEF Ports
<1>11. Counts'
  BY <1>5 DEF Counts, TerminateWaits
<1>12. Wakers'
  BY <1>5 DEF Wakers
<1>13. Freed'
  BY <1>3 DEF Freed, FreeIsLast
<1> QED
  BY <1>6, <1>7, <1>8, <1>9, <1>10, <1>11, <1>12, <1>13

\* Nothing the invariant speaks of changes.
LEMMA SameStep ==
    ASSUME PInv,
           UNCHANGED <<log, object, content, received, seqno, readers, writers, pager_request,
                       pager_name, name_refs, freed, pc, job, objects>>
    PROVE  PInv'
<1> USE DEF PInv
<1>1. \A u \in Thread : Kind(u)' = Kind(u)
  BY DEF Kind
<1> USE <1>1
<1>2. \A u \in Thread : (Reading(u)' <=> Reading(u)) /\ (Writing(u)' <=> Writing(u))
  BY DEF Reading, Writing
<1>3. PTypes' /\ Protocol' /\ Ports' /\ Freed'
  BY DEF PTypes, Protocol, Ports, Freed, FreeIsLast
<1>4. Turns'
  BY SMTT(30) DEF Turns
<1>5. Places'
  BY DEF Places
<1>6. Counts' /\ Wakers'
  BY <1>2 DEF Counts, TerminateWaits, Wakers
<1> QED
  BY <1>3, <1>4, <1>5, <1>6

LEMMA KernelStep ==
    ASSUME PInv, Kernel
    PROVE  PInv'
<1> USE DEF Send, pageVars, threadVars, countVars, portVars
<1>1. /\ UNCHANGED <<received, seqno, readers, writers, pager_request, pager_name, name_refs,
                     freed, pc, job, objects>>
      /\ content \in [Page -> Version]
  BY DEF Kernel, PInv, PTypes
<1> USE <1>1
<1>2. 0 \in Version
  BY PagerPortAssumption, SMTT(30) DEF Version
<1>3. ASSUME NEW p \in Page, NEW w \in {0, 1}, KernelRequest(p, w)
      PROVE  PInv'
  <2>1. [kind |-> "request", data |-> [q \in {p} |-> 0], write |-> w] \in Message
    BY <1>2, MessageType DEF Kinds, Carrying
  <2> QED
    BY <1>3, <2>1, SendStep DEF KernelRequest, Carrying
<1>4. ASSUME NEW p \in Page, KernelPush(p)
      PROVE  PInv'
  <2>1. [kind |-> "initialize", data |-> [q \in {p} |-> 0], write |-> 0] \in Message
    BY <1>2, MessageType DEF Kinds, Carrying
  <2> QED
    BY <1>4, <2>1, SendStep DEF KernelPush, Carrying
<1>5. ASSUME NEW p \in Page, KernelDiscard(p)
      PROVE  PInv'
  BY <1>5, SameStep DEF KernelDiscard
<1>6. ASSUME NEW P \in SUBSET Page, NEW M \in SUBSET Page, KernelPageout(P, M)
      PROVE  PInv'
  <2>1. content' \in [Page -> Version]
    BY <1>6, PagerPortAssumption, SMTT(30) DEF KernelPageout, Version
  <2>2. [p \in P |-> content'[p]] \in [P -> Version]
    BY <2>1
  <2>3. [kind |-> "write", data |-> [p \in P |-> content'[p]], write |-> 0] \in Message
    BY <2>2, MessageType DEF Kinds, Carrying
  <2> QED
    BY <1>6, <2>1, <2>3, SendStep DEF KernelPageout, Carrying
<1>7. CASE KernelTerminate
  BY <1>7, PlainType, SendStep DEF KernelTerminate, Kinds
<1>8. CASE KernelInit
  BY <1>8, PlainType, SendStep DEF KernelInit, Kinds
<1>9. CASE KernelNoSenders
  BY <1>9, PlainType, SendStep DEF KernelNoSenders, Kinds
<1> QED
  BY <1>3, <1>4, <1>5, <1>6, <1>7, <1>8, <1>9 DEF Kernel

-----------------------------------------------------------------------------
LEMMA Initially == Init => PInv
<1> SUFFICES ASSUME Init PROVE PInv
  OBVIOUS
<1> USE DEF Init
<1>1. \A t \in Thread : pc[t] = "idle" /\ job[t] = NoJob /\ Kind(t) = "init"
  BY DEF Kind, NoJob, Handle, Plain
<1> USE <1>1
<1>2. 0 \in Version /\ Len(log) = 0
  BY PagerPortAssumption, SMTT(30) DEF Version
<1> USE <1>2
<1>3. PTypes
  <2>1. log \in Seq(Message) /\ content \in [Page -> Version]
    BY SMTT(30)
  <2>2. pc \in [Thread -> Before \cup Behind]
    BY DEF Behind
  <2>3. job = [t \in Thread |-> job[t]] /\ \A t \in Thread : IsJob(job[t])
    BY SMTT(30) DEF IsJob, NoJob, Handle, Plain
  <2> QED
    BY <2>1, <2>2, <2>3, SMTT(30) DEF PTypes
<1>4. Protocol
  BY SMTT(30) DEF Protocol
<1>5. Turns
  BY SMTT(30) DEF Turns, Before
<1>6. Places
  BY DEF Places, Kinds
<1>7. Ports
  BY SMTT(30) DEF Ports
<1>8. Counts
  <2>1. Readers = {} /\ Writers = {}
    BY DEF Readers, Writers, Reading, Writing
  <2> QED
    BY <2>1, CountZero DEF Counts, TerminateWaits, Readers, Writers
<1>9. Wakers
  BY DEF Wakers
<1>10. Freed
  BY SMTT(30) DEF Freed, FreeIsLast
<1> QED
  BY <1>3, <1>4, <1>5, <1>6, <1>7, <1>8, <1>9, <1>10 DEF PInv

LEMMA Step == PInv /\ [Next]_vars => PInv'
<1> SUFFICES ASSUME PInv, [Next]_vars PROVE PInv'
  OBVIOUS
<1>1. CASE Kernel
  BY <1>1, KernelStep
<1>2. CASE default_pager_objects
  BY <1>2, ObjectsStep
<1>3. ASSUME NEW t \in Thread, Receive(t) PROVE PInv'
  BY <1>3, ReceiveStep
<1>4. ASSUME NEW t \in Thread, Serve(t) PROVE PInv'
  BY <1>4, QuietStep, WaitSeqnoStep, BroadcastSeqnoStep, StartReadStep, StartWriteStep,
     TerminateWaitStep, TerminateStep, InitObjectStep, NoSendersStep, DeleteStep, FinishStep,
     LeaveStep DEF Serve
<1>5. CASE UNCHANGED vars
  BY <1>5, SameStep DEF vars, kernelVars, countVars, portVars, threadVars
<1> QED
  BY <1>1, <1>2, <1>3, <1>4, <1>5 DEF Next

\* PInv is an invariant: every step of the kernel, of the threads that serve the
\* object's port (default_pager_thread) and of default_pager_objects keeps it.
THEOREM Invariance == Spec => []PInv
  BY Initially, Step, PTL DEF Spec

\* pager_port_wait_for_readers and _writers in memory_object_terminate do what
\* their comment says, for any number of threads, pages and messages: without a
\* request port no read or write is in progress, and readers and writers count
\* the threads that are.
THEOREM TerminationWaits == Spec => []TerminateWaits
<1>1. PInv => TerminateWaits
  BY DEF PInv, Counts
<1> QED
  BY <1>1, Invariance, PTL

\* The panics of memory_object_init and default_pager_no_senders are never
\* reached, and kfree of the dstruct comes after the last use of it under the
\* lock.
THEOREM NoUseAfterFree == Spec => []FreeIsLast
<1>1. PInv => FreeIsLast
  BY DEF PInv, Freed
<1> QED
  BY <1>1, Invariance, PTL

\* Whoever sleeps on waiting_seqno, waiting_read, waiting_write or waiting_refs
\* has a thread that will signal it.
THEOREM NoLostWakeup == Spec => []WaitersHaveWakers
<1>1. ASSUME PInv, NEW t \in Thread, pc[t] = "waiting_seqno"
      PROVE  \E u \in Thread :
               \/ pc[u] = "broadcast"
               \/ /\ job[u].number = seqno
                  /\ pc[u] \in {"lock", "mod_refs", "readers", "writers", "refs",
                                "waiting_read", "waiting_write", "waiting_refs"}
  <2> USE DEF PInv
  <2>1. freed = 0
    BY <1>1 DEF Freed, FreeIsLast, PTypes
  <2>2. /\ job[t].number \in Nat /\ seqno \in Nat /\ received \in Nat
        /\ seqno <= job[t].number /\ job[t].number < received /\ pc[t] \in Before
    BY <1>1, SMTT(30) DEF Turns, PTypes, IsJob, Before
  <2>3. PICK u \in Thread : pc[u] \in Before /\ job[u].number = seqno
    <3>1. seqno <= seqno /\ seqno < received
      BY <2>2, SMTT(30)
    <3> QED
      BY <1>1, <2>1, <2>2, <3>1, SMTT(30) DEF Turns
  <2>4. pc[u] # "delete"
    <3> SUFFICES ASSUME pc[u] = "delete" PROVE FALSE
      OBVIOUS
    <3>1. Kind(u) = "no_senders"
      BY <1>1 DEF Places
    <3> QED
      BY <1>1, <2>2, <2>3, <3>1, Turn
  <2>5. CASE pc[u] = "waiting_seqno"
    BY <1>1, <2>3, <2>5 DEF Wakers
  <2>6. CASE pc[u] # "waiting_seqno"
    BY <2>3, <2>4, <2>6 DEF Before
  <2> QED
    BY <2>5, <2>6
<1>2. PInv => WaitersHaveWakers
  BY <1>1 DEF PInv, Wakers, WaitersHaveWakers
<1> QED
  BY <1>2, Invariance, PTL

-----------------------------------------------------------------------------
(* Every send right is counted once                                        *)

LEMMA RightsStep ==
    ASSUME RInv, PTypes, PTypes', NEW t \in Thread, Others(t),
           request_urefs' \in Int, name_urefs' \in Int, request_refs' \in Nat,
           job'[t].request_refs \in Nat, job'[t].name_refs \in Nat,
           pager_request' = 0 => request_refs' = 0,
           job'[t].request_refs # 0 => \/ pc'[t] = "mod_refs"
                                       \/ Kind(t)' = "terminate" /\ pc'[t] \in {"broadcast", "rights"},
           job'[t].name_refs # 0 => Kind(t)' = "terminate" /\ pc'[t] \in {"broadcast", "rights"},
           request_urefs' - request_refs' - RequestsOf(t)'
             = request_urefs - request_refs - RequestsOf(t),
           name_urefs' - name_refs' - NamesOf(t)' = name_urefs - name_refs - NamesOf(t),
           objects' = objects
    PROVE  RInv'
<1>1. \A u \in Thread : u # t => job'[u] = job[u] /\ (pc'[u] \in Awaiting <=> pc[u] \in Awaiting)
  BY DEF Others, Awaiting
<1>2. RefTypes'
  BY <1>1 DEF RInv, RefTypes
<1>3. RefPlaces'
  <2>1. ASSUME NEW u \in Thread, u # t
        PROVE  /\ job'[u].request_refs # 0 =>
                    \/ pc'[u] = "mod_refs"
                    \/ Kind(u)' = "terminate" /\ pc'[u] \in {"broadcast", "rights"}
               /\ job'[u].name_refs # 0 => Kind(u)' = "terminate" /\ pc'[u] \in {"broadcast", "rights"}
    BY <2>1 DEF RInv, RefPlaces, Others, Kind
  <2> QED
    BY <2>1 DEF RefPlaces
<1>4. name_refs \in Nat /\ name_refs' \in Nat
  BY DEF PTypes
<1>5. RightsBalance'
  BY <1>1, <1>2, <1>4, BalanceStep DEF RInv
<1> QED
  BY <1>2, <1>3, <1>5 DEF RInv

\* The thread goes on, and neither the rights nor what it has change.
LEMMA RightsSame ==
    ASSUME RInv, PTypes, PTypes', NEW t \in Thread, Others(t),
           job'[t].request_refs = job[t].request_refs, job'[t].name_refs = job[t].name_refs,
           pc[t] # "mod_refs",
           Kind(t) = "terminate" /\ pc[t] \in {"broadcast", "rights"}
             => Kind(t)' = "terminate" /\ pc'[t] \in {"broadcast", "rights"},
           \/ pc[t] \in Awaiting /\ Kind(t) \notin Carrying \cup {"init"}
           \/ pc[t] \in Awaiting /\ pc'[t] \in Awaiting
           \/ pc[t] \notin Awaiting,
           pc'[t] \in Awaiting => pc[t] \in Awaiting /\ Kind(t)' = Kind(t),
           UNCHANGED <<rightVars, portVars, objects>>
    PROVE  RInv'
<1> USE DEF rightVars, portVars
<1>1. /\ job[t].request_refs \in Nat /\ job[t].name_refs \in Nat
      /\ request_urefs \in Int /\ name_urefs \in Int /\ request_refs \in Nat
  BY DEF RInv, RefTypes
<1>2. /\ job[t].request_refs # 0 => Kind(t) = "terminate" /\ pc[t] \in {"broadcast", "rights"}
      /\ job[t].name_refs # 0 => Kind(t) = "terminate" /\ pc[t] \in {"broadcast", "rights"}
      /\ pager_request = 0 => request_refs = 0
  BY DEF RInv, RefPlaces
<1>3. /\ One(t, Carrying \cup {"init"})' = One(t, Carrying \cup {"init"})
      /\ One(t, {"init"})' = One(t, {"init"})
  BY DEF One
<1>4. RequestsOf(t)' = RequestsOf(t) /\ NamesOf(t)' = NamesOf(t)
  BY <1>3 DEF RequestsOf, NamesOf
<1> QED
  BY <1>1, <1>2, <1>4, RightsStep

\* A handler that finds no references in its locals.
LEMMA NoRefs ==
    ASSUME RInv, NEW t \in Thread, pc[t] # "mod_refs",
           Kind(t) = "terminate" => pc[t] \notin {"broadcast", "rights"}
    PROVE  job[t].request_refs = 0 /\ job[t].name_refs = 0
  BY DEF RInv, RefPlaces

\* Reads, writes and waits.
LEMMA RightsQuiet ==
    ASSUME RInv, PInv, PTypes', NEW t \in Thread,
           \/ WaitSeqno(t) \/ Read(t) \/ Reply(t) \/ HasPage(t) \/ Write(t) \/ Written(t)
           \/ WriteError(t) \/ TerminateWait(t) \/ NoSenders(t)
    PROVE  RInv'
<1> USE DEF kernelVars
<1>1. PTypes
  BY DEF PInv
<1> USE <1>1
<1>2. /\ SameJob(t)
      /\ job'[t].request_refs = job[t].request_refs /\ job'[t].name_refs = job[t].name_refs
  <2>1. \/ job' = job \/ (\E v : job' = [job EXCEPT ![t].value = v])
        \/ \E v : job' = [job EXCEPT ![t].todo = v]
    BY DEF WaitSeqno, Read, Reply, HasPage, Write, Written, WriteError, NextOne,
                 TerminateWait, NoSenders
  <2>2. CASE job' = job
    BY <2>2, JobSame
  <2>3. CASE \E v : job' = [job EXCEPT ![t].value = v]
    <3>1. PICK v : job' = [job EXCEPT ![t].value = v]
      BY <2>3
    <3> QED
      BY <3>1, SMTT(30) DEF PTypes, IsJob, SameJob
  <2>4. CASE \E v : job' = [job EXCEPT ![t].todo = v]
    <3>1. PICK v : job' = [job EXCEPT ![t].todo = v]
      BY <2>4
    <3> QED
      BY <3>1, SMTT(30) DEF PTypes, IsJob, SameJob
  <2> QED
    BY <2>1, <2>2, <2>3, <2>4
<1>3. Kind(t)' = Kind(t) /\ \A u \in Thread : u # t => job'[u] = job[u]
  BY <1>2 DEF SameJob, Kind
<1>4. PICK label \in {"waiting_seqno", "waiting_read", "waiting_write", "waiting_refs", "panic",
                      "delete"} \cup InRead \cup InWrite : Goto(t, label)
  BY DEF WaitSeqno, Read, Reply, HasPage, Write, Written, WriteError, NextOne,
               TerminateWait, NoSenders, InRead, InWrite
<1>5. pc'[t] = label /\ Others(t)
  BY <1>3, <1>4, OthersGoto
<1> USE <1>5
<1>6. pc[t] \notin {"mod_refs", "broadcast", "rights"}
  BY DEF WaitSeqno, Read, Reply, HasPage, Write, Written, WriteError, TerminateWait, NoSenders,
         AtRefs, AtWriters, AtReaders, InTurn
<1>7. /\ \/ pc[t] \in Awaiting /\ Kind(t) \notin Carrying \cup {"init"}
         \/ pc[t] \in Awaiting /\ label \in Awaiting
         \/ pc[t] \notin Awaiting
      /\ label \in Awaiting => pc[t] \in Awaiting
  <2>1. CASE WaitSeqno(t)
    <3>1. pc'[t] = "waiting_seqno" /\ pc[t] = "lock"
      BY <2>1, OthersGoto DEF WaitSeqno
    <3> QED
      BY <3>1 DEF Awaiting
  <2>2. CASE TerminateWait(t)
    <3>1. pc'[t] \notin Awaiting
      BY <2>2, OthersGoto, SMTT(30) DEF TerminateWait, Awaiting
    <3> QED
      BY <2>2, <3>1 DEF TerminateWait, Carrying
  <2>3. CASE NoSenders(t)
    <3>1. pc'[t] \notin Awaiting
      BY <2>3, OthersGoto, SMTT(30) DEF NoSenders, Awaiting
    <3> QED
      BY <2>3, <3>1 DEF NoSenders, Carrying
  <2>4. CASE Read(t) \/ Reply(t) \/ HasPage(t) \/ Write(t) \/ Written(t) \/ WriteError(t)
    <3>1. pc[t] \in InRead \cup InWrite
      BY <2>4 DEF Read, Reply, HasPage, Write, Written, WriteError, InRead, InWrite
    <3>2. \E l \in InRead \cup InWrite : Goto(t, l)
      BY <2>4 DEF Read, Reply, HasPage, Write, Written, WriteError, NextOne, InRead, InWrite
    <3>3. pc'[t] \in InRead \cup InWrite
      BY <3>2, OthersGoto
    <3> QED
      BY <3>1, <3>3 DEF InRead, InWrite, Awaiting
  <2> QED
    BY <2>1, <2>2, <2>3, <2>4
<1>8. UNCHANGED <<rightVars, portVars, objects>>
  BY DEF WaitSeqno, Read, Reply, HasPage, Write, Written, WriteError, TerminateWait, NoSenders
<1> QED
  BY <1>2, <1>3, <1>6, <1>7, <1>8, RightsSame

\* A handler that goes on behind its broadcast, or is done.
LEMMA RightsLeave ==
    ASSUME RInv, PInv, PTypes', NEW t \in Thread,
           \/ BroadcastSeqno(t) \/ FinishRead(t) \/ FinishWrite(t) \/ BroadcastRead(t)
           \/ BroadcastWrite(t) \/ Delete(t)
    PROVE  RInv'
<1>1. PTypes /\ Kind(t) \in Kinds
  BY DEF PInv, Places
<1> USE <1>1
<1>2. \/ job' = job
      \/ job' = [job EXCEPT ![t] = NoJob] /\ (pc[t] = "broadcast" => Kind(t) # "terminate")
  <2>1. CASE BroadcastSeqno(t)
    <3>1. After(t) = "idle" => Kind(t) # "terminate"
      BY DEF After
    <3>2. CASE After(t) = "idle"
      BY <2>1, <3>1, <3>2 DEF BroadcastSeqno
    <3>3. CASE After(t) # "idle"
      BY <2>1, <3>3 DEF BroadcastSeqno, PTypes
    <3> QED
      BY <3>2, <3>3
  <2> QED
    BY <2>1 DEF FinishRead, FinishWrite, BroadcastRead, BroadcastWrite, Delete, Done
<1> USE <1>2
<1>3. pc[t] \in {"broadcast", "finish_read", "finish_write", "broadcast_read", "broadcast_write",
                 "delete"}
  BY DEF BroadcastSeqno, FinishRead, FinishWrite, BroadcastRead, BroadcastWrite, Delete
<1> USE <1>3
<1>4. \A u \in Thread : u # t => job'[u] = job[u]
  BY DEF PTypes
<1> USE <1>4
<1>5. job'[t].request_refs = job[t].request_refs /\ job'[t].name_refs = job[t].name_refs
  <2>1. CASE job' = job
    BY <2>1
  <2>2. CASE job' # job
    <3>1. job[t].request_refs = 0 /\ job[t].name_refs = 0
      BY <2>2, NoRefs
    <3>2. job'[t] = NoJob
      BY <2>2 DEF PTypes
    <3> QED
      BY <3>1, <3>2, SMTT(30) DEF NoJob, Handle
  <2> QED
    BY <2>1, <2>2
<1>6. /\ Others(t) /\ pc'[t] \notin Awaiting
      /\ pc[t] = "broadcast" => pc'[t] = After(t)
  <2>1. CASE BroadcastSeqno(t)
    <3>1. pc'[t] = After(t) /\ Others(t)
      BY <2>1, OthersWake DEF BroadcastSeqno
    <3> QED
      BY <3>1 DEF After, Awaiting
  <2>2. CASE BroadcastRead(t)
    <3>1. pc'[t] = "idle" /\ Others(t)
      BY <2>2, OthersWake DEF BroadcastRead
    <3> QED
      BY <2>2, <3>1 DEF Awaiting, BroadcastRead
  <2>3. CASE BroadcastWrite(t)
    <3>1. pc'[t] = "idle" /\ Others(t)
      BY <2>3, OthersWake DEF BroadcastWrite
    <3> QED
      BY <2>3, <3>1 DEF Awaiting, BroadcastWrite
  <2>4. CASE FinishRead(t) \/ FinishWrite(t) \/ Delete(t)
    <3>1. \E l \in {"idle", "broadcast_read", "broadcast_write"} : Goto(t, l)
      BY <2>4 DEF FinishRead, FinishWrite, Delete, Done
    <3>2. pc'[t] \in {"idle", "broadcast_read", "broadcast_write"} /\ Others(t)
      BY <3>1, OthersGoto
    <3> QED
      BY <2>4, <3>2 DEF Awaiting, FinishRead, FinishWrite, Delete
  <2> QED
    BY <2>1, <2>2, <2>3, <2>4
<1>7. Kind(t) = "terminate" /\ pc[t] \in {"broadcast", "rights"}
        => Kind(t)' = "terminate" /\ pc'[t] \in {"broadcast", "rights"}
  <2> SUFFICES ASSUME Kind(t) = "terminate", pc[t] \in {"broadcast", "rights"}
               PROVE  Kind(t)' = "terminate" /\ pc'[t] \in {"broadcast", "rights"}
    OBVIOUS
  <2>1. pc[t] = "broadcast"
    OBVIOUS
  <2>2. pc'[t] = "rights"
    BY <1>6, <2>1 DEF After
  <2> QED
    BY <2>1, <2>2 DEF Kind
<1>8. UNCHANGED <<rightVars, portVars, objects>>
  BY DEF BroadcastSeqno, FinishRead, FinishWrite, BroadcastRead, BroadcastWrite, Delete
<1>9. pc[t] \notin Awaiting /\ pc[t] # "mod_refs"
  BY DEF Awaiting
<1> QED
  BY <1>5, <1>6, <1>7, <1>8, <1>9, RightsSame

\* A message brings its rights; their turn comes with it.
LEMMA RightsReceive ==
    ASSUME RInv, PInv, PTypes', NEW t \in Thread, Receive(t)
    PROVE  RInv'
<1>1. PTypes
  BY DEF PInv
<1> USE <1>1
<1>2. PICK m : m = log[received + 1]
  OBVIOUS
<1>3. /\ pc[t] = "idle" /\ Goto(t, "lock")
      /\ job' = [job EXCEPT ![t] = Handle(m, received)]
      /\ request_urefs' = request_urefs + (IF m.kind \in Carrying \cup {"init"} THEN 1 ELSE 0)
      /\ name_urefs' = name_urefs + (IF m.kind = "init" THEN 1 ELSE 0)
      /\ UNCHANGED <<portVars, objects>>
  BY <1>2 DEF Receive
<1> USE <1>3
<1>4. /\ \A u \in Thread : u # t => job'[u] = job[u]
      /\ job'[t].request_refs = 0 /\ job'[t].name_refs = 0 /\ Kind(t)' = m.kind
  BY DEF PTypes, Handle, Kind
<1> USE <1>4
<1>5. pc'[t] = "lock" /\ Others(t)
  BY OthersGoto
<1>6. job[t].request_refs = 0 /\ job[t].name_refs = 0
  BY NoRefs
<1>7. /\ RequestsOf(t) = 0 /\ NamesOf(t) = 0
      /\ RequestsOf(t)' = (IF m.kind \in Carrying \cup {"init"} THEN 1 ELSE 0)
      /\ NamesOf(t)' = (IF m.kind = "init" THEN 1 ELSE 0)
  BY <1>5, <1>6, SMTT(30) DEF RequestsOf, NamesOf, One, Awaiting
<1>8. request_urefs \in Int /\ name_urefs \in Int /\ request_refs \in Nat /\ name_refs \in Nat
      /\ (pager_request = 0 => request_refs = 0)
  BY DEF RInv, RefTypes, RefPlaces, PTypes
<1> QED
  BY <1>5, <1>7, <1>8, RightsStep, SMTT(30) DEF portVars

\* A handler changes its locals.
LEMMA JobRefs ==
    ASSUME PTypes, NEW t \in Thread, NEW v, NEW w
    PROVE  /\ job' = [job EXCEPT ![t].value = v] =>
                /\ job'[t].request_refs = job[t].request_refs
                /\ job'[t].name_refs = job[t].name_refs /\ SameJob(t)
           /\ job' = [job EXCEPT ![t].request_refs = v] =>
                /\ job'[t].request_refs = v /\ job'[t].name_refs = job[t].name_refs /\ SameJob(t)
           /\ job' = [job EXCEPT ![t].request_refs = v, ![t].name_refs = w] =>
                job'[t].request_refs = v /\ job'[t].name_refs = w /\ SameJob(t)
<1>1. PICK j : j = job[t]
  OBVIOUS
<1> USE <1>1
<1>2. /\ j = [message |-> j.message, number |-> j.number, todo |-> j.todo, value |-> j.value,
              request_refs |-> j.request_refs, name_refs |-> j.name_refs]
      /\ job = [u \in Thread |-> job[u]]
  BY DEF PTypes, IsJob
<1> USE <1>2
<1>3. ASSUME job' = [job EXCEPT ![t].value = v]
      PROVE  /\ job'[t].request_refs = job[t].request_refs
             /\ job'[t].name_refs = job[t].name_refs /\ SameJob(t)
  <2>1. job'[t] = [message |-> j.message, number |-> j.number, todo |-> j.todo, value |-> v,
                   request_refs |-> j.request_refs, name_refs |-> j.name_refs]
    BY <1>3
  <2>2. SameJob(t)
    BY <1>3, JobSame
  <2> QED
    BY <2>1, <2>2, SMTT(30)
<1>4. ASSUME job' = [job EXCEPT ![t].request_refs = v]
      PROVE  job'[t].request_refs = v /\ job'[t].name_refs = job[t].name_refs /\ SameJob(t)
  <2>1. job'[t] = [message |-> j.message, number |-> j.number, todo |-> j.todo, value |-> j.value,
                   request_refs |-> v, name_refs |-> j.name_refs]
    BY <1>4
  <2>2. SameJob(t)
    BY <1>4, JobSame
  <2> QED
    BY <2>1, <2>2, SMTT(30)
<1>5. ASSUME job' = [job EXCEPT ![t].request_refs = v, ![t].name_refs = w]
      PROVE  job'[t].request_refs = v /\ job'[t].name_refs = w /\ SameJob(t)
  <2>1. job'[t] = [message |-> j.message, number |-> j.number, todo |-> j.todo, value |-> j.value,
                   request_refs |-> v, name_refs |-> w]
    BY <1>5
  <2>2. SameJob(t)
    BY <1>5, JobSame
  <2> QED
    BY <2>1, <2>2, SMTT(30)
<1> QED
  BY <1>3, <1>4, <1>5
\* pager_port_check_request: the message's own reference is counted, and what is
\* too much is with the thread until it is given back.
LEMMA RightsCheck ==
    ASSUME RInv, PInv, PTypes', NEW t \in Thread, CheckRequest(t) \/ ModRefs(t)
    PROVE  RInv'
<1>1. PTypes
  BY DEF PInv
<1> USE <1>1
<1>2. request_urefs \in Int /\ name_urefs \in Int /\ request_refs \in Nat /\ name_refs \in Nat
      /\ (pager_request = 0 => request_refs = 0) /\ job[t].request_refs \in Nat
  BY DEF RInv, RefTypes, RefPlaces, PTypes
<1> USE <1>2
<1>3. CASE CheckRequest(t)
  <2> USE <1>3
  <2>1. /\ pc[t] = "lock" /\ Kind(t) \in Carrying /\ Goto(t, "mod_refs") /\ request_refs' = 1
        /\ UNCHANGED <<request_urefs, name_urefs, name_refs, pager_request, objects>>
    BY DEF CheckRequest, InTurn, rightVars
  <2> USE <2>1
  <2>2. /\ \A u \in Thread : u # t => job'[u] = job[u]
        /\ job'[t].request_refs = request_refs /\ job'[t].name_refs = job[t].name_refs
        /\ Kind(t)' = Kind(t)
    BY JobRefs DEF CheckRequest, SameJob, Kind
  <2> USE <2>2
  <2>3. pc'[t] = "mod_refs" /\ Others(t)
    BY OthersGoto
  <2>4. job[t].request_refs = 0 /\ job[t].name_refs = 0
    BY NoRefs
  <2>5. /\ RequestsOf(t) = 1 /\ NamesOf(t) = 0
        /\ RequestsOf(t)' = request_refs /\ NamesOf(t)' = 0
    BY <2>3, <2>4, SMTT(30) DEF RequestsOf, NamesOf, One, Awaiting, Carrying
  <2>6. pager_request # 0
    BY Turn, SMTT(30) DEF InTurn, CheckRequest, Before
  <2> QED
    BY <2>3, <2>4, <2>5, <2>6, RightsStep, SMTT(30)
<1>4. CASE ModRefs(t)
  <2>1. /\ pc[t] = "mod_refs" /\ Goto(t, "writers") /\ Kind(t) \in Carrying
        /\ request_urefs' = request_urefs - job[t].request_refs
        /\ UNCHANGED <<name_urefs, request_refs, name_refs, pager_request, objects>>
    BY <1>4 DEF ModRefs, portVars, PInv, Places
  <2> USE <2>1
  <2>2. /\ \A u \in Thread : u # t => job'[u] = job[u]
        /\ job'[t].request_refs = 0 /\ job'[t].name_refs = job[t].name_refs
        /\ Kind(t)' = Kind(t)
    BY <1>4, JobRefs DEF ModRefs, SameJob, Kind
  <2> USE <2>2
  <2>3. pc'[t] = "writers" /\ Others(t)
    BY OthersGoto
  <2>4. job[t].name_refs = 0
    BY DEF RInv, RefPlaces, Carrying
  <2>5. /\ RequestsOf(t) = job[t].request_refs /\ NamesOf(t) = 0
        /\ RequestsOf(t)' = 0 /\ NamesOf(t)' = 0
    BY <2>3, <2>4, SMTT(30) DEF RequestsOf, NamesOf, One, Awaiting
  <2> QED
    BY <2>3, <2>4, <2>5, RightsStep, SMTT(30)
<1> QED
  BY <1>3, <1>4

\* A request or a write whose reference fits is counted as its turn comes.
LEMMA RightsStart ==
    ASSUME RInv, PInv, PTypes', NEW t \in Thread, StartRead(t) \/ StartWrite(t)
    PROVE  RInv'
<1>1. PTypes
  BY DEF PInv
<1> USE <1>1
<1>2. request_urefs \in Int /\ name_urefs \in Int /\ request_refs \in Nat /\ name_refs \in Nat
      /\ (pager_request = 0 => request_refs = 0)
  BY DEF RInv, RefTypes, RefPlaces, PTypes
<1>3. Kind(t) \in Carrying /\ Checked(t)
  BY DEF StartRead, StartWrite, Carrying
<1> USE <1>3
<1>4. UNCHANGED <<request_urefs, name_urefs, name_refs, pager_request, objects>>
  BY DEF StartRead, StartWrite, rightVars
<1>5. job' = job \/ job' = [job EXCEPT ![t].value = errors]
  BY DEF StartRead, StartWrite
<1>6. /\ \A u \in Thread : u # t => job'[u] = job[u]
      /\ job'[t].request_refs = job[t].request_refs /\ job'[t].name_refs = job[t].name_refs
      /\ Kind(t)' = Kind(t)
  BY <1>5, JobRefs DEF SameJob, Kind
<1> USE <1>6
<1>7. \E l \in {"waiting_write", "broadcast"} : Goto(t, l)
  BY DEF StartRead, StartWrite, Unlock
<1>8. pc'[t] \in {"waiting_write", "broadcast"} /\ Others(t)
  BY <1>7, OthersGoto
<1> USE <1>8
<1>9. job[t].request_refs = 0 /\ job[t].name_refs = 0
  BY NoRefs DEF Checked, InTurn
<1> USE <1>9
<1>10. RequestsOf(t)' = 0 /\ NamesOf(t)' = 0 /\ NamesOf(t) = 0
  BY SMTT(30) DEF RequestsOf, NamesOf, One, Awaiting, Carrying
<1>11. CASE pc[t] = "writers" /\ UNCHANGED request_refs
  <2>1. RequestsOf(t) = 0
    BY <1>11, SMTT(30) DEF RequestsOf, One, Awaiting
  <2> QED
    BY <1>2, <1>4, <1>10, <1>11, <2>1, RightsStep, SMTT(30)
<1>12. CASE InTurn(t) /\ request_refs' = request_refs + 1
  <2> USE <1>12
  <2>1. RequestsOf(t) = 1
    BY SMTT(30) DEF RequestsOf, One, Awaiting, InTurn
  <2>2. pager_request # 0
    BY Turn, SMTT(30) DEF InTurn, Before
  <2> QED
    BY <1>2, <1>4, <1>10, <2>1, <2>2, RightsStep, SMTT(30)
<1> QED
  BY <1>11, <1>12 DEF Checked

\* terminate takes the references of the dstruct and gives them back; init brings
\* the first ones again.
LEMMA RightsEnds ==
    ASSUME RInv, PInv, PTypes', NEW t \in Thread,
           Terminate(t) \/ DropRights(t) \/ InitObject(t)
    PROVE  RInv'
<1>1. PTypes
  BY DEF PInv
<1> USE <1>1
<1>2. request_urefs \in Int /\ name_urefs \in Int /\ request_refs \in Nat /\ name_refs \in Nat
      /\ (pager_request = 0 => request_refs = 0)
      /\ job[t].request_refs \in Nat /\ job[t].name_refs \in Nat
  BY DEF RInv, RefTypes, RefPlaces, PTypes
<1> USE <1>2
<1>3. CASE Terminate(t)
  <2>1. /\ Kind(t) = "terminate" /\ AtRefs(t) /\ Goto(t, "broadcast")
        /\ request_refs' = 0 /\ name_refs' = 0 /\ pager_request' = 0
        /\ UNCHANGED <<request_urefs, name_urefs, objects>>
    BY <1>3 DEF Terminate, Unlock, rightVars
  <2> USE <2>1
  <2>2. /\ \A u \in Thread : u # t => job'[u] = job[u]
        /\ job'[t].request_refs = request_refs /\ job'[t].name_refs = name_refs
        /\ Kind(t)' = Kind(t)
    <3>1. job'[t].request_refs = request_refs /\ job'[t].name_refs = name_refs /\ SameJob(t)
      BY <1>3, JobRefs DEF Terminate
    <3> QED
      BY <3>1 DEF SameJob, Kind
  <2> USE <2>2
  <2>3. pc'[t] = "broadcast" /\ Others(t)
    BY OthersGoto
  <2>4. job[t].request_refs = 0 /\ job[t].name_refs = 0
    BY NoRefs DEF AtRefs, AtWriters, AtReaders, InTurn
  <2>5. /\ RequestsOf(t) = 0 /\ NamesOf(t) = 0
        /\ RequestsOf(t)' = request_refs /\ NamesOf(t)' = name_refs
    BY <2>3, <2>4, SMTT(30) DEF RequestsOf, NamesOf, One, Awaiting, Carrying
  <2> QED
    BY <2>3, <2>5, RightsStep, SMTT(30)
<1>4. CASE DropRights(t)
  <2>1. /\ pc[t] = "rights" /\ Goto(t, "idle") /\ job' = [job EXCEPT ![t] = NoJob]
        /\ request_urefs' = request_urefs - job[t].request_refs
        /\ name_urefs' = name_urefs - job[t].name_refs
        /\ UNCHANGED <<request_refs, name_refs, pager_request, objects>>
    BY <1>4 DEF DropRights, Done, portVars
  <2> USE <2>1
  <2>2. /\ \A u \in Thread : u # t => job'[u] = job[u]
        /\ job'[t].request_refs = 0 /\ job'[t].name_refs = 0
    BY DEF PTypes, NoJob, Handle
  <2> USE <2>2
  <2>3. pc'[t] = "idle" /\ Others(t)
    BY OthersGoto
  <2>4. /\ RequestsOf(t) = job[t].request_refs /\ NamesOf(t) = job[t].name_refs
        /\ RequestsOf(t)' = 0 /\ NamesOf(t)' = 0
    BY <2>3, SMTT(30) DEF RequestsOf, NamesOf, One, Awaiting
  <2> QED
    BY <2>3, <2>4, RightsStep, SMTT(30)
<1>5. CASE InitObject(t)
  <2>1. pc[t] = "lock" /\ job[t].number = seqno /\ Kind(t) = "init"
    BY <1>5 DEF InitObject, InTurn
  <2> USE <2>1
  <2>2. pager_request = 0 /\ name_refs = 0
    BY Turn DEF Before, PInv, Ports
  <2>3. /\ Goto(t, "broadcast") /\ request_refs' = 1 /\ name_refs' = 1 /\ pager_request' = 1
        /\ UNCHANGED <<request_urefs, name_urefs, job, objects>>
    BY <1>5, <2>2 DEF InitObject, Unlock, rightVars
  <2> USE <2>3
  <2>4. pc'[t] = "broadcast" /\ Others(t)
    BY OthersGoto
  <2>5. job[t].request_refs = 0 /\ job[t].name_refs = 0
    BY NoRefs
  <2>6. /\ RequestsOf(t) = 1 /\ NamesOf(t) = 1
        /\ RequestsOf(t)' = 0 /\ NamesOf(t)' = 0
    BY <2>4, <2>5, SMTT(30) DEF RequestsOf, NamesOf, One, Awaiting
  <2> QED
    BY <2>2, <2>4, <2>5, <2>6, RightsStep, SMTT(30)
<1> QED
  BY <1>3, <1>4, <1>5

\* The references change, and what the threads have does not.
LEMMA RightsNames ==
    ASSUME RInv, PInv, default_pager_objects
    PROVE  RInv'
<1> DEFINE had == Total([t \in Thread |-> job[t].name_refs]) + Total(Coming({"init"}))
<1>1. PTypes /\ Ports
  BY DEF PInv
<1>2. job' = job /\ UNCHANGED <<request_refs, request_urefs, pager_request>>
  BY DEF default_pager_objects, ObjectsScan, ObjectsGrow, ObjectsGrown, ObjectsSend, rightVars,
         portVars, threadVars
<1> USE <1>2
<1>3. \A t \in Thread : pc'[t] = pc[t] \/ (pc[t] = "waiting_refs" /\ pc'[t] = "refs")
  <2>1. pc' = pc \/ pc' = Wake("waiting_refs", "refs")
    BY DEF default_pager_objects, ObjectsScan, ObjectsGrow, ObjectsGrown, ObjectsSend,
                 threadVars
  <2>2. ASSUME pc' = Wake("waiting_refs", "refs"), NEW t \in Thread
        PROVE  pc'[t] = IF pc[t] = "waiting_refs" THEN "refs" ELSE pc[t]
    BY <2>2 DEF Wake
  <2> QED
    BY <2>1, <2>2
<1>4. \A kinds : Coming(kinds)' = Coming(kinds)
  BY <1>3 DEF Coming, Kind
<1>5. /\ name_urefs \in Int /\ name_refs \in Nat /\ MaxUrefs \in Nat
      /\ (objects \in {"grow", "grown"} <=> pager_name = 1 /\ name_refs = 0)
      /\ pager_name \in {0, 1} /\ (pager_name = 0 => name_refs = 0)
  BY <1>1, PagerPortAssumption DEF RInv, RefTypes, PTypes, Ports
<1> USE <1>5
<1>6. /\ Total([t \in Thread |-> job[t].name_refs]) \in Int
      /\ Total(Coming({"init"})) \in Int
  <2>1. [t \in Thread |-> job[t].name_refs] \in [Thread -> Int]
    BY SMTT(30) DEF RInv, RefTypes
  <2>2. Coming({"init"}) \in [Thread -> Int]
    BY SMTT(30) DEF Coming
  <2> QED
    BY <2>1, <2>2, TotalInt
<1>7. /\ had \in Int
      /\ name_urefs = name_refs + had + (IF objects = "idle" THEN 0 ELSE 1)
                      + (IF objects = "grown" THEN MaxUrefs ELSE 0)
  BY <1>6, SMTT(30) DEF RInv, RightsBalance
<1> USE <1>7
<1> HIDE DEF had
<1>8. /\ name_urefs' \in Int
      /\ name_urefs' = name_refs' + had + (IF objects' = "idle" THEN 0 ELSE 1)
                       + (IF objects' = "grown" THEN MaxUrefs ELSE 0)
      /\ name_refs' \in Int
  <2>1. CASE ObjectsScan
    <3>1. objects = "idle" /\ name_refs' = name_refs - 1 /\ objects' \in {"grow", "send"}
          /\ name_urefs' = name_urefs
      BY <2>1 DEF ObjectsScan, rightVars
    <3> QED
      BY <3>1, SMTT(30)
  <2>2. CASE ObjectsGrow
    BY <2>2, SMTT(30) DEF ObjectsGrow, portVars
  <2>3. CASE ObjectsGrown
    BY <2>3, SMTT(30) DEF ObjectsGrown, rightVars
  <2>4. CASE ObjectsSend
    BY <2>4, SMTT(30) DEF ObjectsSend, portVars
  <2> QED
    BY <2>1, <2>2, <2>3, <2>4 DEF default_pager_objects
<1>9. RefTypes'
  BY <1>8 DEF RInv, RefTypes
<1>10. RefPlaces'
  BY <1>3 DEF RInv, RefPlaces, Kind
<1>11. RightsBalance'
  <2>1. request_urefs' = request_refs' + Total([t \in Thread |-> job'[t].request_refs])
                         + Total(Coming(Carrying \cup {"init"})')
    BY <1>4 DEF RInv, RightsBalance
  <2>2. name_urefs' = name_refs' + Total([t \in Thread |-> job'[t].name_refs])
                      + Total(Coming({"init"})') + (IF objects' = "idle" THEN 0 ELSE 1)
                      + (IF objects' = "grown" THEN MaxUrefs ELSE 0)
    BY <1>4, <1>6, <1>8, SMTT(30) DEF had
  <2> QED
    BY <2>1, <2>2 DEF RightsBalance
<1> QED
  BY <1>9, <1>10, <1>11 DEF RInv

LEMMA RightsKeep ==
    ASSUME RInv, UNCHANGED <<rightVars, portVars, threadVars, objects>>
    PROVE  RInv'
<1> USE DEF rightVars, portVars, threadVars
<1>1. RefTypes'
  BY DEF RInv, RefTypes
<1>2. RefPlaces'
  BY DEF RInv, RefPlaces, Kind
<1>3. \A kinds : Coming(kinds)' = Coming(kinds)
  BY DEF Coming, Kind
<1>4. RightsBalance'
  BY <1>3 DEF RInv, RightsBalance
<1> QED
  BY <1>1, <1>2, <1>4 DEF RInv

LEMMA RightsInit == Init => RInv
<1> SUFFICES ASSUME Init PROVE RInv
  OBVIOUS
<1>1. /\ request_urefs = 1 /\ name_urefs = 1 /\ request_refs = 1 /\ name_refs = 1
      /\ pager_request = 1 /\ objects = "idle"
      /\ \A t \in Thread : /\ pc[t] = "idle" /\ job[t].request_refs = 0 /\ job[t].name_refs = 0
  BY DEF Init, NoJob, Handle
<1> USE <1>1
<1> DEFINE zero == [t \in Thread |-> 0]
<1>2. Total(zero) = 0
  BY TotalZero
<1>3. /\ [t \in Thread |-> job[t].request_refs] = zero
      /\ [t \in Thread |-> job[t].name_refs] = zero
      /\ \A kinds : Coming(kinds) = zero
  BY DEF Coming
<1> HIDE DEF zero
<1>4. RightsBalance
  BY <1>2, <1>3, SMTT(30) DEF RightsBalance
<1> QED
  BY <1>4, SMTT(30) DEF RInv, RefTypes, RefPlaces

LEMMA RightsNext == RInv /\ PInv /\ [Next]_vars => RInv'
<1> SUFFICES ASSUME RInv, PInv, [Next]_vars PROVE RInv'
  OBVIOUS
<1>1. PTypes'
  BY Step DEF PInv
<1>2. CASE Kernel
  BY <1>2, RightsKeep DEF Kernel
<1>3. CASE default_pager_objects
  BY <1>3, RightsNames
<1>4. ASSUME NEW t \in Thread, Receive(t) PROVE RInv'
  BY <1>1, <1>4, RightsReceive
<1>5. ASSUME NEW t \in Thread, Serve(t) PROVE RInv'
  BY <1>1, <1>5, RightsQuiet, RightsLeave, RightsCheck, RightsStart, RightsEnds DEF Serve
<1>6. CASE UNCHANGED vars
  BY <1>6, RightsKeep DEF vars
<1> QED
  BY <1>2, <1>3, <1>4, <1>5, <1>6 DEF Next

\* Every user reference for the request and name ports of an object is counted
\* once, by the dstruct, by a handler that is about to release it or by a message
\* that brought it: pager_port_check_request, memory_object_terminate,
\* memory_object_init and default_pager_objects neither lose nor release one
\* twice, for any number of threads, pages and messages.
THEOREM RightsCounted == Spec => []RightsBalance
<1>1. RInv => RightsBalance
  BY DEF RInv
<1>2. Spec => []RInv
  BY Initially, Step, RightsInit, RightsNext, PTL DEF Spec
<1> QED
  BY <1>1, <1>2, PTL

\* default_pager.c:1636-1639: reads wait for the writes before them, so that a
\* data_request is answered with what the kernel paged out last, with nothing
\* for a page that was never changed, or with an error; also when writes fail,
\* pages are released to the kernel and the object is terminated and mapped again.
\* For any number of threads, pages, versions and messages.
THEOREM ReadsAreRight == Spec => []NoStaleData
<1>1. PInv /\ DInv => NoStaleData
  <2> SUFFICES ASSUME PInv, DInv, NEW t \in Thread, pc[t] = "reply"
               PROVE  \/ job[t].value = content[ThePage(t)]
                      \/ job[t].value = Absent /\ content[ThePage(t)] = 0
                      \/ job[t].value = DeviceError
    BY DEF NoStaleData
  <2>1. /\ HandledBy(t) /\ Kind(t) = "request" /\ \A p \in Page : HeldBy(t, p)
    BY AtDevice DEF InRead
  <2>2. PICK p \in Page : job[t].todo = {p}
    BY <2>1 DEF HandledBy
  <2>3. ThePage(t) = p
    BY <2>2 DEF ThePage
  <2>4. Requested(t, p)
    BY <2>1, <2>2 DEF HeldBy, Busy
  <2> QED
    BY <2>3, <2>4 DEF Requested
<1>2. PInv => NoWriter
  BY NobodyWrites DEF PInv, NoWriter
<1>3. Spec => [](PInv /\ DInv)
  BY <1>2, Initially, Step, DataInit, DataNext, PTL DEF Spec
<1> QED
  BY <1>1, <1>3, PTL
=============================================================================
