-------------------------- MODULE PagerPortLemmas --------------------------
(***************************************************************************)
(* The steps a thread takes from receiving its turn to giving it up keep   *)
(* the invariant PInv of PagerPort.  Sums over the threads, and the change *)
(* that a step makes to the count of the send rights.                      *)
(***************************************************************************)
EXTENDS PagerPortData, FiniteSetTheorems

\* Most steps follow by logic alone and are left to Zenon.
USE ZenonT(20), SMTT(30)

-----------------------------------------------------------------------------
(* Facts about the parts of the state                                      *)

Readers == {t \in Thread : Reading(t)}
Writers == {t \in Thread : Writing(t)}

LEMMA CountUp ==
    ASSUME NEW S \in SUBSET Thread, NEW t \in Thread, t \notin S
    PROVE  Cardinality(S) \in Nat /\ Cardinality(S \cup {t}) = Cardinality(S) + 1
<1>1. IsFiniteSet(S)
  BY PagerPortAssumption, FS_Subset
<1> QED
  BY <1>1, FS_AddElement, FS_CardinalityType

LEMMA CountDown ==
    ASSUME NEW S \in SUBSET Thread, NEW t \in S
    PROVE  Cardinality(S) \in Nat /\ Cardinality(S \ {t}) = Cardinality(S) - 1
<1>1. IsFiniteSet(S)
  BY PagerPortAssumption, FS_Subset
<1> QED
  BY <1>1, FS_RemoveElement, FS_CardinalityType

LEMMA CountZero ==
    ASSUME NEW S \in SUBSET Thread
    PROVE  Cardinality(S) \in Nat /\ (Cardinality(S) = 0 <=> S = {})
<1>1. IsFiniteSet(S)
  BY PagerPortAssumption, FS_Subset
<1> QED
  BY <1>1, FS_EmptySet, FS_CardinalityType

LEMMA JobDone ==
    ASSUME PTypes, NEW t \in Thread, job' = [job EXCEPT ![t] = NoJob]
    PROVE  /\ job' = [u \in Thread |-> job'[u]] /\ \A u \in Thread : IsJob(job'[u])
           /\ \A u \in Thread : job'[u] = IF u = t THEN NoJob ELSE job[u]
           /\ Kind(t)' = "init"
  BY DEF PTypes, IsJob, NoJob, Handle, Plain, Kind

LEMMA LogKinds == ASSUME PTypes, NEW i \in 1 .. Len(log) PROVE log[i].kind \in Kinds
<1>1. log[i] \in Message
  BY SMTT(30) DEF PTypes
<1> QED
  BY <1>1 DEF Message, Kinds

LEMMA ProtocolSame ==
    ASSUME Protocol, object' = object, log' = log
    PROVE  Protocol'
  BY DEF Protocol

-----------------------------------------------------------------------------
(* A thread goes on within a read or a write, or from one place where it   *)
(* has its turn to the next.                                               *)

LEMMA Quiet ==
    ASSUME PInv, NEW t \in Thread, NEW label, SameJob(t), Goto(t, label),
           \/ pc[t] \in InRead /\ label \in InRead
           \/ pc[t] \in InWrite /\ label \in InWrite
           \/ InTurn(t) /\ Kind(t) \in Carrying /\ label = "mod_refs"
           \/ pc[t] = "mod_refs" /\ label = "writers",
           UNCHANGED <<log, object, content, received, seqno, readers, writers, pager_request,
                       pager_name, name_refs, freed, objects>>
    PROVE  PInv'
<1> USE DEF PInv
<1>1. /\ \A u \in Thread : pc'[u] = IF u = t THEN label ELSE pc[u]
      /\ pc' \in [Thread -> Before \cup Behind]
  BY DEF Goto, PTypes, Before, Behind, InRead, InWrite
<1>2. \A u \in Thread : /\ job'[u].message = job[u].message
                       /\ job'[u].number = job[u].number /\ IsJob(job'[u])
  BY DEF SameJob, PTypes
<1>3. \A u \in Thread : Kind(u)' = Kind(u)
  BY <1>2 DEF Kind
<1>4. freed = 0
  BY DEF Freed, FreeIsLast, InRead, InWrite, InTurn, PTypes
<1>5. \A u \in Thread : pc'[u] \in Before <=> pc[u] \in Before
  BY <1>1 DEF Before, InRead, InWrite, InTurn
<1>6. \A u \in Thread : (Reading(u)' <=> Reading(u)) /\ (Writing(u)' <=> Writing(u))
  BY <1>1, <1>3 DEF Reading, Writing, InRead, InWrite, InTurn, Places, Carrying
<1>7. PTypes'
  BY <1>1, <1>2 DEF PTypes, SameJob
<1>8. Protocol'
  BY ProtocolSame
<1>9. Turns'
  BY <1>1, <1>2, <1>3, <1>5, SMTT(30) DEF Turns, InRead, InWrite, InTurn, Before
<1>10. Places'
  BY <1>1, <1>3 DEF Places, InRead, InWrite, InTurn, Carrying
<1>11. Ports'
  BY DEF Ports
<1>12. Counts'
  BY <1>1, <1>3, <1>6 DEF Counts, TerminateWaits, InRead, InWrite, InTurn, Places, Carrying
<1>13. Wakers'
  BY <1>1, <1>2, <1>6, SMTT(30) DEF Wakers, InRead, InWrite, InTurn
<1>14. Freed'
  BY <1>1, <1>4 DEF Freed, FreeIsLast, InRead, InWrite, InTurn
<1> QED
  BY <1>7, <1>8, <1>9, <1>10, <1>11, <1>12, <1>13, <1>14

LEMMA QuietStep ==
    ASSUME PInv, NEW t \in Thread,
           \/ CheckRequest(t) \/ ModRefs(t) \/ Read(t) \/ Reply(t)
           \/ HasPage(t) \/ Write(t) \/ Written(t) \/ WriteError(t)
    PROVE  PInv'
<1> USE DEF kernelVars, countVars, portVars, rightVars, threadVars
<1>1. PTypes
  BY DEF PInv
<1>2. CASE CheckRequest(t)
  BY <1>1, <1>2, Quiet, JobSame DEF CheckRequest
<1>3. CASE ModRefs(t)
  BY <1>1, <1>3, Quiet, JobSame DEF ModRefs
<1>4. CASE Read(t)
  BY <1>1, <1>4, Quiet, JobSame DEF Read, InRead
<1>5. CASE Reply(t)
  BY <1>1, <1>5, Quiet, JobSame DEF Reply, InRead
<1>6. ASSUME NextOne(t)
      PROVE  SameJob(t) /\ \E label \in InWrite : Goto(t, label)
  BY <1>1, <1>6, JobSame DEF NextOne, InWrite
<1>7. CASE HasPage(t)
  BY <1>1, <1>6, <1>7, Quiet, JobSame DEF HasPage, InWrite
<1>8. CASE Write(t)
  BY <1>1, <1>8, Quiet, JobSame DEF Write, InWrite
<1>9. CASE Written(t)
  BY <1>1, <1>6, <1>9, Quiet, JobSame DEF Written, InWrite
<1>10. CASE WriteError(t)
  BY <1>1, <1>6, <1>10, Quiet DEF WriteError, InWrite
<1> QED
  BY <1>2, <1>3, <1>4, <1>5, <1>7, <1>8, <1>9, <1>10

-----------------------------------------------------------------------------
(* Waiting for the turn, and the broadcast that ends it                    *)

LEMMA NobodyReads ==
    ASSUME Counts, readers = 0, NEW t \in Thread PROVE ~Reading(t)
<1>1. Readers = {}
  BY CountZero DEF Counts, TerminateWaits, Readers
<1> QED
  BY <1>1 DEF Readers

LEMMA NobodyWrites ==
    ASSUME Counts, writers = 0, NEW t \in Thread PROVE ~Writing(t)
<1>1. Writers = {}
  BY CountZero DEF Counts, TerminateWaits, Writers
<1> QED
  BY <1>1 DEF Writers

\* After kfree nobody reads or writes: no_senders came after terminate.
LEMMA FreedIsIdle ==
    ASSUME PInv, freed = 1, NEW t \in Thread PROVE ~Reading(t) /\ ~Writing(t)
<1> USE DEF PInv
<1>1. log[Len(log)].kind = "no_senders" /\ Len(log) > 0 /\ seqno = Len(log) - 1 /\ Len(log) \in Nat
  BY DEF Freed, Protocol, PTypes
<1>2. Len(log) > 1 /\ log[Len(log) - 1].kind = "terminate"
  BY <1>1, SMTT(30) DEF Protocol
<1>3. readers = 0 /\ writers = 0
  BY <1>1, <1>2, SMTT(30) DEF Ports, Counts, TerminateWaits
<1> QED
  BY <1>3, NobodyReads, NobodyWrites

LEMMA WaitSeqnoStep ==
    ASSUME PInv, NEW t \in Thread, WaitSeqno(t)
    PROVE  PInv'
<1> USE DEF PInv, WaitSeqno, kernelVars, countVars, portVars
<1>1. /\ \A u \in Thread : pc'[u] = IF u = t THEN "waiting_seqno" ELSE pc[u]
      /\ pc' \in [Thread -> Before \cup Behind]
  BY DEF Goto, PTypes, Before
<1>2. \A u \in Thread : Kind(u)' = Kind(u)
  BY DEF Kind
<1>3. freed = 0
  BY DEF Freed, FreeIsLast, PTypes
<1>4. \A u \in Thread : (Reading(u)' <=> Reading(u)) /\ (Writing(u)' <=> Writing(u))
  BY <1>1, <1>2 DEF Reading, Writing
<1>5. PTypes'
  BY <1>1 DEF PTypes
<1>6. Protocol'
  BY ProtocolSame
<1>7. Turns'
  BY <1>1, <1>2, SMTT(30) DEF Turns, Before
<1>8. Places'
  BY <1>1, <1>2 DEF Places
<1>9. Ports'
  BY DEF Ports
<1>10. Counts'
  BY <1>1, <1>2, <1>4 DEF Counts, TerminateWaits
<1>11. Wakers'
  BY <1>1, <1>4, SMTT(30) DEF Wakers
<1>12. Freed'
  BY <1>1, <1>3, SMTT(30) DEF Freed, FreeIsLast
<1> QED
  BY <1>5, <1>6, <1>7, <1>8, <1>9, <1>10, <1>11, <1>12

LEMMA BroadcastSeqnoStep ==
    ASSUME PInv, NEW t \in Thread, BroadcastSeqno(t)
    PROVE  PInv'
<1> USE DEF PInv, kernelVars, countVars, portVars
<1> DEFINE l == After(t)
<1>1. /\ Kind(t) = "request" => l \in {"error", "read"}
      /\ Kind(t) = "write" => l = "write"
      /\ Kind(t) = "initialize" => l = "has_page"
      /\ Kind(t) = "terminate" => l = "rights"
      /\ Kind(t) \in {"init", "no_senders"} => l = "idle"
  BY DEF After
<1>2. Kind(t) \in Kinds
  BY DEF Places
<1> HIDE DEF l
<1>3. l \in {"error", "read", "write", "has_page", "rights", "idle"}
  BY <1>1, <1>2 DEF Kinds, Carrying
<1>4. /\ \A u \in Thread : pc'[u] = IF u = t THEN l
                                    ELSE IF pc[u] = "waiting_seqno" THEN "lock" ELSE pc[u]
      /\ pc' \in [Thread -> Before \cup Behind]
  BY <1>3 DEF BroadcastSeqno, Wake, PTypes, Before, Behind, l
<1>5. /\ \A u \in Thread : job'[u] = IF u = t /\ l = "idle" THEN NoJob ELSE job[u]
      /\ \A u \in Thread : IsJob(job'[u])
      /\ job' = [u \in Thread |-> job'[u]]
  BY DEF BroadcastSeqno, PTypes, NoJob, Handle, Plain, IsJob, l
<1>6. \A u \in Thread : Kind(u)' = IF u = t /\ l = "idle" THEN "init" ELSE Kind(u)
  BY <1>5, SMTT(30) DEF Kind, NoJob, Handle, Plain
<1>7. pc[t] = "broadcast" /\ UNCHANGED <<log, object, content, received, seqno, readers, writers,
        pager_request, pager_name, name_refs, freed, objects>>
  BY DEF BroadcastSeqno
<1>8. \A u \in Thread : (Reading(u)' <=> Reading(u)) /\ (Writing(u)' <=> Writing(u))
  BY <1>1, <1>2, <1>3, <1>4, <1>6, <1>7 DEF Reading, Writing, Kinds, Carrying
<1>9. PTypes'
  BY <1>4, <1>5, <1>7 DEF PTypes
<1>10. Protocol'
  BY <1>7, ProtocolSame
<1>11. \A u \in Thread : pc'[u] \in Before <=> pc[u] \in Before
  BY <1>3, <1>4, <1>7 DEF Before
<1>12. \A u \in Thread : pc[u] \in Before => job'[u] = job[u] /\ Kind(u)' = Kind(u)
  BY <1>5, <1>6, <1>7 DEF Before
<1>13. Turns'
  BY <1>4, <1>7, <1>11, <1>12, SMTT(30) DEF Turns, Before
<1>14. Places'
  BY <1>1, <1>2, <1>3, <1>4, <1>6, <1>7, SMTT(30) DEF Places, Kinds, Carrying
<1>15. Ports'
  BY <1>7 DEF Ports
<1>16. Counts'
  BY <1>3, <1>4, <1>6, <1>7, <1>8 DEF Counts, TerminateWaits
<1>17. Wakers'
  BY <1>3, <1>4, <1>7, <1>8 DEF Wakers
<1>18. freed = 1 => l \in {"rights", "idle"}
  BY <1>1, <1>2, <1>7, FreedIsIdle DEF Reading, Writing, Kinds, Carrying
<1>19. Freed'
  BY <1>3, <1>4, <1>7, <1>18 DEF Freed, FreeIsLast
<1> QED
  BY <1>9, <1>10, <1>13, <1>14, <1>15, <1>16, <1>17, <1>19

-----------------------------------------------------------------------------
(* The thread whose turn it is                                             *)

\* pager_port_unlock, after what the handler changed under the lock.
LEMMA UnlockStep ==
    ASSUME PInv, NEW t \in Thread, pc[t] \in Before, job[t].number = seqno,
           Unlock(t), SameJob(t), Kind(t) # "no_senders",
           UNCHANGED <<log, object, content, received, freed, objects>>,
           readers' \in Nat, writers' \in Nat, pager_request' \in {0, 1}, name_refs' \in Nat,
           readers' = Cardinality(Readers)', writers' = Cardinality(Writers)',
           pager_request' = 0 <=> Kind(t) = "terminate",
           pager_request' = 0 => readers' = 0 /\ writers' = 0,
           pager_name' = pager_request', pager_name' = 0 => name_refs' = 0,
           objects \in {"grow", "grown"} <=> pager_name' = 1 /\ name_refs' = 0
    PROVE  PInv'
<1> USE DEF PInv
<1>1. /\ freed = 0 /\ seqno < received /\ Kind(t) = log[seqno + 1].kind
      /\ \A u \in Thread : u # t /\ pc[u] \in Before =>
           pc[u] \in {"lock", "waiting_seqno"} /\ job[u].number > seqno
  BY Turn
<1>2. /\ \A u \in Thread : pc'[u] = IF u = t THEN "broadcast" ELSE pc[u]
      /\ pc' \in [Thread -> Before \cup Behind] /\ seqno' = seqno + 1
  BY DEF Unlock, Goto, PTypes, Behind
<1>3. \A u \in Thread : /\ job'[u].message = job[u].message
                        /\ job'[u].number = job[u].number /\ IsJob(job'[u])
  BY DEF SameJob, PTypes
<1>4. \A u \in Thread : Kind(u)' = Kind(u)
  BY <1>3 DEF Kind
<1>5. \A u \in Thread : pc'[u] \in Before <=> u # t /\ pc[u] \in Before
  BY <1>2 DEF Before
<1>6. PTypes'
  BY <1>1, <1>2, <1>3, SMTT(30) DEF PTypes, SameJob
<1>7. Protocol'
  BY ProtocolSame
<1>8. Turns'
  <2>1. ASSUME NEW u \in Thread, pc'[u] \in Before
        PROVE  /\ seqno' <= job'[u].number /\ job'[u].number < received'
               /\ Kind(u)' = log'[job'[u].number + 1].kind
               /\ pc'[u] \in {"lock", "waiting_seqno"}
    <3>1. u # t /\ pc[u] \in Before /\ pc'[u] = pc[u]
      BY <1>2, <1>5, <2>1
    <3>2. job[u].number > seqno /\ pc[u] \in {"lock", "waiting_seqno"}
      BY <1>1, <3>1
    <3>3. job[u].number \in Nat /\ seqno \in Nat
      BY DEF PTypes, IsJob
    <3>4. job[u].number < received /\ Kind(u) = log[job[u].number + 1].kind
      BY <3>1, SMTT(30) DEF Turns
    <3> QED
      BY <1>2, <1>3, <1>4, <3>1, <3>2, <3>3, <3>4, SMTT(30)
  <2>2. ASSUME NEW n \in Nat, seqno' <= n, n < received'
        PROVE  \E u \in Thread : pc'[u] \in Before /\ job'[u].number = n
    <3>1. seqno \in Nat /\ seqno <= n /\ n # seqno /\ n < received
      BY <1>2, <2>2, SMTT(30) DEF PTypes
    <3>2. PICK u \in Thread : pc[u] \in Before /\ job[u].number = n
      BY <1>1, <3>1, SMTT(30) DEF Turns
    <3> QED
      BY <1>3, <1>5, <3>1, <3>2
  <2>3. \A u, w \in Thread : pc'[u] \in Before /\ pc'[w] \in Before /\ u # w =>
          job'[u].number # job'[w].number
    BY <1>3, <1>5, SMTT(30) DEF Turns
  <2> QED
    BY <2>1, <2>2, <2>3, SMTT(30) DEF Turns
<1>9. Places'
  BY <1>2, <1>4 DEF Places
<1>10. Ports'
  BY <1>1, <1>2, SMTT(30) DEF Ports, PTypes
<1>11. Counts'
  BY <1>1, <1>2, <1>4, <1>5, SMTT(30) DEF Counts, TerminateWaits, Readers, Writers, Before
<1>12. Wakers'
  <2>1. \A u \in Thread : pc'[u] \notin {"waiting_read", "waiting_write", "waiting_refs"}
    BY <1>1, <1>2, SMTT(30) DEF Before
  <2> QED
    BY <1>2, <2>1, SMTT(30) DEF Wakers
<1>13. Freed'
  BY <1>1, <1>2 DEF Freed, FreeIsLast
<1> QED
  BY <1>6, <1>7, <1>8, <1>9, <1>10, <1>11, <1>12, <1>13

\* A thread that has its turn sleeps on one of the other conditions, or goes to
\* delete the object.
LEMMA StayStep ==
    ASSUME PInv, NEW t \in Thread, pc[t] \in Before, job[t].number = seqno,
           NEW label, Goto(t, label),
           \/ label = "waiting_read" /\ Kind(t) = "terminate" /\ readers # 0
           \/ /\ label = "waiting_write" /\ Kind(t) \in Carrying \cup {"terminate"}
              /\ writers # 0 /\ (Kind(t) = "terminate" => readers = 0)
           \/ /\ label = "waiting_refs" /\ Kind(t) = "terminate" /\ readers = 0 /\ writers = 0
              /\ objects \in {"grow", "grown"}
           \/ label = "delete" /\ Kind(t) = "no_senders",
           UNCHANGED <<log, object, content, received, seqno, readers, writers, pager_request,
                       pager_name, name_refs, freed, job, objects>>
    PROVE  PInv'
<1> USE DEF PInv
<1>1. freed = 0
  BY Turn
<1>2. /\ \A u \in Thread : pc'[u] = IF u = t THEN label ELSE pc[u]
      /\ pc' \in [Thread -> Before \cup Behind]
      /\ label \in {"waiting_read", "waiting_write", "waiting_refs", "delete"}
  BY DEF Goto, PTypes, Before
<1>3. \A u \in Thread : Kind(u)' = Kind(u)
  BY DEF Kind
<1>4. \A u \in Thread : (Reading(u)' <=> Reading(u)) /\ (Writing(u)' <=> Writing(u))
  BY <1>2, <1>3 DEF Reading, Writing, Before
<1>5. PTypes'
  BY <1>2 DEF PTypes
<1>6. Protocol'
  BY ProtocolSame
<1>7. \A u \in Thread : pc'[u] \in Before <=> pc[u] \in Before
  BY <1>2 DEF Before
<1>8. Turns'
  BY <1>2, <1>3, <1>7, SMTT(30) DEF Turns
<1>9. Places'
  BY <1>2, <1>3, SMTT(30) DEF Places
<1>10. Ports'
  BY DEF Ports
<1>11. Counts'
  BY <1>2, <1>3, <1>4, SMTT(30) DEF Counts, TerminateWaits
<1>12. Wakers'
  <2>1. readers # 0 => \E u \in Thread : Reading(u)
    BY CountZero, SMTT(30) DEF Counts, TerminateWaits, Readers
  <2>2. writers # 0 => \E u \in Thread : Writing(u)
    BY CountZero DEF Counts, TerminateWaits, Writers
  <2>3. \A u \in Thread : pc[u] \in {"broadcast", "broadcast_read", "broadcast_write"} =>
          pc'[u] = pc[u]
    BY <1>2 DEF Before
  <2> QED
    BY <1>2, <1>4, <2>1, <2>2, <2>3, SMTT(30) DEF Wakers
<1>13. Freed'
  BY <1>1, <1>2, SMTT(30) DEF Freed, FreeIsLast
<1> QED
  BY <1>5, <1>6, <1>8, <1>9, <1>10, <1>11, <1>12, <1>13

-----------------------------------------------------------------------------
(* The handlers, while they have their turn                                *)

LEMMA StartReadStep ==
    ASSUME PInv, NEW t \in Thread, StartRead(t)
    PROVE  PInv'
<1> USE DEF kernelVars
<1>1. PTypes /\ Turns /\ Ports /\ Counts
  BY DEF PInv
<1>2. pc[t] \in Before /\ job[t].number = seqno /\ Kind(t) = "request" /\ ~Reading(t)
  BY <1>1 DEF StartRead, Checked, InTurn, Turns, Before, Reading
<1>3. CASE writers # 0
  <2>1. Goto(t, "waiting_write") /\ UNCHANGED <<seqno, readers, job>>
    BY <1>3 DEF StartRead
  <2> QED
    BY <1>2, <1>3, <2>1, StayStep DEF StartRead, Carrying
<1>4. CASE writers = 0
  <2>1. readers' = readers + 1 /\ job' = [job EXCEPT ![t].value = errors] /\ Unlock(t)
    BY <1>4 DEF StartRead
  <2>2. SameJob(t)
    BY <1>1, <2>1, JobSame
  <2>3. \A u \in Thread : Kind(u)' = Kind(u)
    BY <2>2 DEF SameJob, Kind
  <2>4. \A u \in Thread : pc'[u] = IF u = t THEN "broadcast" ELSE pc[u]
    BY <1>1, <2>1 DEF Unlock, Goto, PTypes
  <2>5. Readers' = Readers \cup {t} /\ Writers' = Writers /\ t \notin Readers
    BY <1>2, <2>3, <2>4 DEF Readers, Writers, Reading, Writing
  <2>6. readers' = Cardinality(Readers)' /\ writers' = Cardinality(Writers)'
    BY <1>1, <2>1, <2>5, CountUp DEF Counts, TerminateWaits, Readers, Writers, StartRead
  <2>7. pager_request = 1
    BY <1>2, Turn DEF Carrying
  <2> QED
    BY <1>1, <1>2, <2>1, <2>2, <2>6, <2>7, UnlockStep, SMTT(30) DEF StartRead, PTypes, Ports
<1> QED
  BY <1>3, <1>4

LEMMA StartWriteStep ==
    ASSUME PInv, NEW t \in Thread, StartWrite(t)
    PROVE  PInv'
<1> USE DEF kernelVars
<1>1. PTypes /\ Turns /\ Ports /\ Counts
  BY DEF PInv
<1>2. /\ pc[t] \in Before /\ job[t].number = seqno /\ Kind(t) \in {"write", "initialize"}
      /\ ~Writing(t)
  BY <1>1, SMTT(30) DEF StartWrite, Checked, InTurn, Turns, Before, Writing
<1>3. writers' = writers + 1 /\ job' = job /\ Unlock(t)
  BY DEF StartWrite
<1>4. SameJob(t)
  BY <1>1, <1>3, JobSame
<1>5. \A u \in Thread : Kind(u)' = Kind(u)
  BY <1>3 DEF Kind
<1>6. \A u \in Thread : pc'[u] = IF u = t THEN "broadcast" ELSE pc[u]
  BY <1>1, <1>3 DEF Unlock, Goto, PTypes
<1>7. Writers' = Writers \cup {t} /\ Readers' = Readers /\ t \notin Writers
  BY <1>2, <1>5, <1>6 DEF Readers, Writers, Reading, Writing
<1>8. readers' = Cardinality(Readers)' /\ writers' = Cardinality(Writers)'
  BY <1>1, <1>3, <1>7, CountUp DEF Counts, TerminateWaits, Readers, Writers, StartWrite
<1>9. pager_request = 1
  BY <1>2, Turn DEF Carrying
<1> QED
  BY <1>1, <1>2, <1>3, <1>4, <1>8, <1>9, UnlockStep, SMTT(30) DEF StartWrite, PTypes, Ports

LEMMA TerminateWaitStep ==
    ASSUME PInv, NEW t \in Thread, TerminateWait(t)
    PROVE  PInv'
<1> USE DEF kernelVars, countVars, portVars
<1>1. PTypes /\ Turns /\ Ports /\ Counts
  BY DEF PInv
<1>2. pc[t] \in Before /\ job[t].number = seqno /\ Kind(t) = "terminate"
  BY <1>1, SMTT(30) DEF TerminateWait, AtReaders, AtWriters, AtRefs, InTurn, Turns, Before
<1>3. pager_name = 1
  BY <1>1, <1>2, Turn DEF Ports
<1>4. /\ AtWriters(t) => readers = 0
      /\ AtRefs(t) => readers = 0 /\ writers = 0
  BY <1>1, <1>2 DEF AtReaders, AtWriters, AtRefs, Counts
<1>5. UNCHANGED <<log, object, content, received, seqno, readers, writers, pager_request,
                  pager_name, name_refs, freed, job, objects>>
  BY DEF TerminateWait
<1>6. CASE readers # 0 /\ Goto(t, "waiting_read")
  BY <1>2, <1>5, <1>6, StayStep
<1>7. CASE AtWriters(t) /\ writers # 0 /\ Goto(t, "waiting_write")
  BY <1>2, <1>4, <1>5, <1>7, StayStep
<1>8. CASE AtRefs(t) /\ name_refs = 0 /\ Goto(t, "waiting_refs")
  BY <1>1, <1>2, <1>3, <1>4, <1>5, <1>8, StayStep DEF Ports
<1> QED
  BY <1>6, <1>7, <1>8 DEF TerminateWait

LEMMA TerminateStep ==
    ASSUME PInv, NEW t \in Thread, Terminate(t)
    PROVE  PInv'
<1> USE DEF kernelVars
<1>1. PTypes /\ Turns /\ Ports /\ Counts
  BY DEF PInv
<1>2. pc[t] \in Before /\ job[t].number = seqno /\ Kind(t) = "terminate"
  BY <1>1 DEF Terminate, AtReaders, AtWriters, AtRefs, InTurn, Turns, Before
<1>3. readers = 0 /\ writers = 0
  BY <1>1, <1>2 DEF Terminate, AtReaders, AtWriters, AtRefs, Counts
<1>4. SameJob(t) /\ Unlock(t)
  BY <1>1, JobSame DEF Terminate
<1>5. \A u \in Thread : Kind(u)' = Kind(u)
  BY <1>4 DEF SameJob, Kind
<1>6. \A u \in Thread : pc'[u] = IF u = t THEN "broadcast" ELSE pc[u]
  BY <1>1, <1>4 DEF Unlock, Goto, PTypes
<1>7. Writers' = Writers /\ Readers' = Readers
  BY <1>2, <1>5, <1>6 DEF Readers, Writers, Reading, Writing
<1>8. readers' = Cardinality(Readers)' /\ writers' = Cardinality(Writers)'
  BY <1>1, <1>7 DEF Counts, TerminateWaits, Readers, Writers, Terminate
<1> QED
  BY <1>1, <1>2, <1>3, <1>4, <1>8, UnlockStep DEF Terminate, PTypes, Ports

LEMMA InitObjectStep ==
    ASSUME PInv, NEW t \in Thread, InitObject(t)
    PROVE  PInv'
<1> USE DEF kernelVars
<1>1. PTypes /\ Turns /\ Ports /\ Counts
  BY DEF PInv
<1>2. pc[t] \in Before /\ job[t].number = seqno /\ Kind(t) = "init"
  BY DEF InitObject, InTurn, Before
<1>3. pager_request = 0
  BY <1>2, Turn, SMTT(30)
<1>4. pager_request' = 1 /\ pager_name' = 1 /\ name_refs' = 1 /\ Unlock(t) /\ job' = job
  BY <1>3 DEF InitObject
<1>5. SameJob(t)
  BY <1>1, <1>4, JobSame
<1>6. \A u \in Thread : Kind(u)' = Kind(u)
  BY <1>4 DEF Kind
<1>7. \A u \in Thread : pc'[u] = IF u = t THEN "broadcast" ELSE pc[u]
  BY <1>1, <1>4 DEF Unlock, Goto, PTypes
<1>8. Writers' = Writers /\ Readers' = Readers
  BY <1>2, <1>6, <1>7 DEF Readers, Writers, Reading, Writing
<1>9. readers' = Cardinality(Readers)' /\ writers' = Cardinality(Writers)'
  BY <1>1, <1>8 DEF Counts, TerminateWaits, Readers, Writers, InitObject
<1> QED
  BY <1>1, <1>2, <1>3, <1>4, <1>5, <1>9, UnlockStep, SMTT(30) DEF InitObject, PTypes, Ports

LEMMA NoSendersStep ==
    ASSUME PInv, NEW t \in Thread, NoSenders(t)
    PROVE  PInv'
<1> USE DEF kernelVars, countVars, portVars
<1>1. pc[t] \in Before /\ job[t].number = seqno /\ Kind(t) = "no_senders"
  BY DEF NoSenders, InTurn, Before
<1>2. pager_request = 0
  BY <1>1, Turn, SMTT(30)
<1>3. Goto(t, "delete")
  BY <1>2 DEF NoSenders
<1> QED
  BY <1>1, <1>3, StayStep DEF NoSenders

-----------------------------------------------------------------------------
(* Sums over the threads                                                   *)

\* The sum over a function, as the recursion of the fold: it has a solution when
\* the domain is finite.
Pick(s) == CHOOSE x \in s : TRUE
Added(f, sum, s) == IF s = {} THEN 0 ELSE f[Pick(s)] + sum[s \ {Pick(s)}]
SumIs(f, sum) == sum = [s \in SUBSET (DOMAIN f) |-> Added(f, sum, s)]

LEMMA TotalIs == ASSUME NEW f PROVE Total(f) = (CHOOSE sum : SumIs(f, sum))[DOMAIN f]
  BY DEF Total, FoldFunction, FoldFunctionOnSet, MapThenFoldSet, SumIs, Added, Pick

LEMMA PickOne ==
    ASSUME NEW S, IsFiniteSet(S), NEW s \in SUBSET S
    PROVE  /\ IsFiniteSet(s) /\ Cardinality(s) \in Nat
           /\ Cardinality(s) = 0 <=> s = {}
           /\ s # {} => /\ Pick(s) \in s /\ s \ {Pick(s)} \in SUBSET S
                        /\ Cardinality(s \ {Pick(s)}) = Cardinality(s) - 1
<1>1. IsFiniteSet(s)
  BY FS_Subset
<1>2. s # {} => Pick(s) \in s
  BY DEF Pick
<1> QED
  BY <1>1, <1>2, FS_EmptySet, FS_CardinalityType, FS_RemoveElement

LEMMA SumExists ==
    ASSUME NEW f, IsFiniteSet(DOMAIN f)
    PROVE  \E sum : SumIs(f, sum)
<1> DEFINE S == DOMAIN f
           Sums(n, sum) == \A s \in SUBSET S : Cardinality(s) <= n => sum[s] = Added(f, sum, s)
           Bad == {n \in Nat : ~\E sum : Sums(n, sum)}
<1>1. IsFiniteSet(S) /\ Cardinality(S) \in Nat
  BY FS_CardinalityType
<1>2. Bad = {}
  <2> SUFFICES ASSUME Bad # {} PROVE FALSE
    OBVIOUS
  <2>1. PICK n \in Bad : \A m \in Bad : n <= m
    BY Least
  <2>2. n # 0
    <3> DEFINE zero == [s \in SUBSET S |-> 0]
    <3>1. ASSUME NEW s \in SUBSET S, Cardinality(s) <= 0 PROVE zero[s] = Added(f, zero, s)
      <4>1. s = {}
        <5>1. Cardinality(s) \in Nat /\ (Cardinality(s) = 0 <=> s = {})
          BY <1>1, PickOne
        <5> QED
          BY <3>1, <5>1, SMTT(30)
      <4>2. zero[s] = 0
        OBVIOUS
      <4> QED
        BY <4>1, <4>2 DEF Added
    <3>2. Sums(0, zero)
      BY <3>1
    <3> QED
      BY <3>2
  <2>3. n - 1 \in Nat /\ n - 1 \notin Bad
    BY <2>1, <2>2, SMTT(30)
  <2>4. PICK sum : Sums(n - 1, sum)
    BY <2>3
  <2> DEFINE next == [s \in SUBSET S |-> Added(f, sum, s)]
  <2>5. ASSUME NEW s \in SUBSET S, Cardinality(s) <= n PROVE next[s] = Added(f, next, s)
    <3>1. CASE s = {}
      BY <3>1 DEF Added
    <3>2. CASE s # {}
      <4>1. s \ {Pick(s)} \in SUBSET S /\ Cardinality(s \ {Pick(s)}) <= n - 1
        BY <1>1, <2>5, <3>2, PickOne, SMTT(30)
      <4>2. sum[s \ {Pick(s)}] = next[s \ {Pick(s)}]
        BY <2>4, <4>1
      <4> QED
        BY <3>2, <4>2 DEF Added
    <3> QED
      BY <3>1, <3>2
  <2>6. Sums(n, next)
    BY <2>5
  <2> QED
    BY <2>1, <2>6
<1>3. PICK sum : Sums(Cardinality(S), sum)
  BY <1>1, <1>2
<1> DEFINE all == [s \in SUBSET S |-> sum[s]]
<1>4. ASSUME NEW s \in SUBSET S PROVE sum[s] = Added(f, all, s)
  <2>1. Cardinality(s) <= Cardinality(S)
    BY <1>1, FS_Subset
  <2>2. sum[s] = Added(f, sum, s)
    BY <1>3, <2>1
  <2>3. s # {} => s \ {Pick(s)} \in SUBSET S
    BY <1>1, PickOne
  <2> QED
    BY <2>2, <2>3 DEF Added
<1>5. SumIs(f, all)
  BY <1>4 DEF SumIs
<1> QED
  BY <1>5

\* Two functions that differ in one place: their sums differ by as much.
LEMMA TotalChange ==
    ASSUME NEW T, IsFiniteSet(T), NEW f \in [T -> Int], NEW g \in [T -> Int], NEW t \in T,
           \A u \in T : u # t => g[u] = f[u]
    PROVE  Total(f) \in Int /\ Total(g) \in Int /\ Total(g) - g[t] = Total(f) - f[t]
<1>1. PICK F : F = CHOOSE sum : SumIs(f, sum)
  OBVIOUS
<1>2. PICK G : G = CHOOSE sum : SumIs(g, sum)
  OBVIOUS
<1>3. SumIs(f, F) /\ SumIs(g, G)
  BY <1>1, <1>2, SumExists
<1>4. /\ \A s \in SUBSET T : F[s] = Added(f, F, s)
      /\ \A s \in SUBSET T : G[s] = Added(g, G, s)
  BY <1>3 DEF SumIs
<1> DEFINE Right(s) == /\ F[s] \in Int /\ G[s] \in Int
                       /\ G[s] - F[s] = IF t \in s THEN g[t] - f[t] ELSE 0
           Bad == {n \in Nat : \E s \in SUBSET T : Cardinality(s) = n /\ ~Right(s)}
<1>5. Bad = {}
  <2> SUFFICES ASSUME Bad # {} PROVE FALSE
    OBVIOUS
  <2>1. PICK n \in Bad : \A m \in Bad : n <= m
    BY Least
  <2>2. PICK s \in SUBSET T : Cardinality(s) = n /\ ~Right(s)
    BY <2>1
  <2>3. s # {}
    <3> SUFFICES ASSUME s = {} PROVE FALSE
      OBVIOUS
    <3>1. F[s] = 0 /\ G[s] = 0
      BY <1>4 DEF Added
    <3>2. Right(s)
      BY <3>1, SMTT(30)
    <3> QED
      BY <2>2, <3>2
  <2> DEFINE x == Pick(s)
             r == s \ {x}
  <2>4. x \in s /\ r \in SUBSET T /\ Cardinality(r) = n - 1 /\ n \in Nat
    BY <2>2, <2>3, PickOne
  <2>5. Cardinality(r) \in Nat
    BY <2>4, PickOne, SMTT(30)
  <2>6. Right(r)
    BY <2>1, <2>4, <2>5, SMTT(30)
  <2>7. F[s] = f[x] + F[r] /\ G[s] = g[x] + G[r]
    BY <1>4, <2>3 DEF Added
  <2>8. f[x] \in Int /\ g[x] \in Int /\ f[t] \in Int /\ g[t] \in Int
    BY <2>4
  <2>9. x # t => g[x] = f[x] /\ (t \in r <=> t \in s)
    BY <2>4
  <2>10. x = t => t \in s /\ t \notin r
    BY <2>4
  <2> HIDE DEF x, r
  <2>11. Right(s)
    BY <2>6, <2>7, <2>8, <2>9, <2>10, SMTT(30)
  <2> QED
    BY <2>2, <2>11
<1>6. Right(T)
  <2>1. Cardinality(T) \in Nat
    BY FS_CardinalityType
  <2> QED
    BY <1>5, <2>1
<1>7. Total(f) = F[T] /\ Total(g) = G[T]
  BY <1>1, <1>2, TotalIs
<1>8. f[t] \in Int /\ g[t] \in Int
  OBVIOUS
<1> QED
  BY <1>6, <1>7, <1>8, SMTT(30)

LEMMA ThreadTotal ==
    \A f, g \in [Thread -> Int] : \A t \in Thread :
      (\A u \in Thread : u # t => g[u] = f[u])
        => Total(f) \in Int /\ Total(g) \in Int /\ Total(g) - g[t] = Total(f) - f[t]
<1> TAKE f, g \in [Thread -> Int]
<1> TAKE t \in Thread
<1> HAVE \A u \in Thread : u # t => g[u] = f[u]
<1>1. IsFiniteSet(Thread)
  BY PagerPortAssumption
<1> QED
  BY <1>1, TotalChange, SMTT(30)

LEMMA TotalInt == ASSUME NEW f \in [Thread -> Int] PROVE Total(f) \in Int
<1>1. CASE Thread # {}
  <2>1. PICK t \in Thread : TRUE
    BY <1>1
  <2> QED
    BY <2>1, ThreadTotal
<1>2. CASE Thread = {}
  <2>1. PICK F : F = CHOOSE sum : SumIs(f, sum)
    OBVIOUS
  <2>2. SumIs(f, F)
    BY <2>1, SumExists, PagerPortAssumption
  <2>3. F[{}] = 0 /\ DOMAIN f = {}
    BY <1>2, <2>2 DEF SumIs, Added
  <2>4. Total(f) = F[{}]
    BY <2>1, <2>3, TotalIs
  <2> QED
    BY <2>3, <2>4, SMTT(30)
<1> QED
  BY <1>1, <1>2

LEMMA TotalZero == ASSUME NEW f, f = [t \in Thread |-> 0] PROVE Total(f) = 0
<1>1. PICK F : F = CHOOSE sum : SumIs(f, sum)
  OBVIOUS
<1>2. IsFiniteSet(Thread) /\ DOMAIN f = Thread
  BY PagerPortAssumption
<1>3. SumIs(f, F)
  BY <1>1, <1>2, SumExists
<1>4. \A s \in SUBSET Thread : F[s] = Added(f, F, s)
  BY <1>2, <1>3 DEF SumIs
<1> DEFINE Bad == {n \in Nat : \E s \in SUBSET Thread : Cardinality(s) = n /\ F[s] # 0}
<1>5. Bad = {}
  <2> SUFFICES ASSUME Bad # {} PROVE FALSE
    OBVIOUS
  <2>1. PICK n \in Bad : \A m \in Bad : n <= m
    BY Least
  <2>2. PICK s \in SUBSET Thread : Cardinality(s) = n /\ F[s] # 0
    BY <2>1
  <2>3. s # {}
    BY <1>4, <2>2 DEF Added
  <2> DEFINE x == Pick(s)
             r == s \ {x}
  <2>4. x \in s /\ r \in SUBSET Thread /\ Cardinality(r) = n - 1 /\ n \in Nat
    BY <1>2, <2>2, <2>3, PickOne
  <2>5. Cardinality(r) \in Nat
    BY <1>2, <2>4, PickOne, SMTT(30)
  <2>6. F[r] = 0
    BY <2>1, <2>4, <2>5, SMTT(30)
  <2>7. F[s] = f[x] + F[r] /\ f[x] = 0
    BY <1>4, <2>3, <2>4 DEF Added
  <2> QED
    BY <2>2, <2>6, <2>7, SMTT(30)
<1>6. F[Thread] = 0
  <2>1. Cardinality(Thread) \in Nat
    BY <1>2, FS_CardinalityType
  <2> QED
    BY <1>5, <2>1
<1> QED
  BY <1>1, <1>2, <1>6, TotalIs

-----------------------------------------------------------------------------
(* Send rights                                                             *)

\* References that a handler is about to release are in its locals only then,
\* and an object without its ports has no references.
RefTypes ==
  /\ request_urefs \in Int /\ name_urefs \in Int /\ request_refs \in Nat
  /\ \A t \in Thread : job[t].request_refs \in Nat /\ job[t].name_refs \in Nat

RefPlaces ==
  /\ pager_request = 0 => request_refs = 0
  /\ \A t \in Thread :
       /\ job[t].request_refs # 0 => \/ pc[t] = "mod_refs"
                                     \/ Kind(t) = "terminate" /\ pc[t] \in {"broadcast", "rights"}
       /\ job[t].name_refs # 0 => Kind(t) = "terminate" /\ pc[t] \in {"broadcast", "rights"}

RInv == RefTypes /\ RefPlaces /\ RightsBalance

\* What thread t has: references it is about to release, and the one of a message
\* whose turn has not come.
Awaiting == {"lock", "waiting_seqno"}
One(t, kinds) == IF pc[t] \in Awaiting /\ Kind(t) \in kinds THEN 1 ELSE 0
RequestsOf(t) == job[t].request_refs + One(t, Carrying \cup {"init"})
NamesOf(t) == job[t].name_refs + One(t, {"init"})

LEMMA ComingChange ==
    ASSUME NEW kinds, NEW t \in Thread,
           \A u \in Thread : u # t => job'[u] = job[u] /\ (pc'[u] \in Awaiting <=> pc[u] \in Awaiting)
    PROVE  /\ Total(Coming(kinds)) \in Int /\ Total(Coming(kinds)') \in Int
           /\ Total(Coming(kinds)') - One(t, kinds)' = Total(Coming(kinds)) - One(t, kinds)
           /\ One(t, kinds) \in Int /\ One(t, kinds)' \in Int
<1>1. PICK a : a = Coming(kinds)
  OBVIOUS
<1>2. PICK b : b = Coming(kinds)'
  OBVIOUS
<1>3. \A u \in Thread : u # t => One(u, kinds)' = One(u, kinds)
  BY DEF Kind, One
<1>4. /\ a \in [Thread -> Int] /\ b \in [Thread -> Int]
      /\ \A u \in Thread : a[u] = One(u, kinds) /\ b[u] = One(u, kinds)'
      /\ One(t, kinds) \in Int /\ One(t, kinds)' \in Int
  BY <1>1, <1>2, SMTT(30) DEF Coming, One, Awaiting
<1>5. \A u \in Thread : u # t => b[u] = a[u]
  BY <1>3, <1>4
<1>6. Total(a) \in Int /\ Total(b) \in Int /\ Total(b) - b[t] = Total(a) - a[t]
  BY <1>4, <1>5, ThreadTotal
<1> QED
  BY <1>1, <1>2, <1>4, <1>6

LEMMA Shifted ==
    \A u, v, r, q, f, g, a, b, m, n, x, y, e \in Int :
      u = r + f + a + e /\ g - n = f - m /\ b - y = a - x /\ v - q - (n + y) = u - r - (m + x)
        => v = q + g + b + e
  BY SMTT(30)

\* Thread t alone changes what it has, and the task's references change with it.
LEMMA BalanceStep ==
    ASSUME RefTypes, RefTypes', RightsBalance, name_refs \in Nat, name_refs' \in Nat,
           NEW t \in Thread,
           \A u \in Thread : u # t => job'[u] = job[u] /\ (pc'[u] \in Awaiting <=> pc[u] \in Awaiting),
           request_urefs' - request_refs' - RequestsOf(t)'
             = request_urefs - request_refs - RequestsOf(t),
           name_urefs' - name_refs' - NamesOf(t)' = name_urefs - name_refs - NamesOf(t),
           objects' = objects
    PROVE  RightsBalance'
<1> DEFINE f == [u \in Thread |-> job[u].request_refs]
           g == [u \in Thread |-> job'[u].request_refs]
           h == [u \in Thread |-> job[u].name_refs]
           k == [u \in Thread |-> job'[u].name_refs]
           C == Carrying \cup {"init"}
           I == {"init"}
<1>1. /\ f \in [Thread -> Int] /\ g \in [Thread -> Int] /\ \A u \in Thread : u # t => g[u] = f[u]
      /\ h \in [Thread -> Int] /\ k \in [Thread -> Int] /\ \A u \in Thread : u # t => k[u] = h[u]
      /\ g[t] = job'[t].request_refs /\ f[t] = job[t].request_refs
      /\ k[t] = job'[t].name_refs /\ h[t] = job[t].name_refs
  BY SMTT(30) DEF RefTypes
<1>2. PICK e \in Int : e = (IF objects = "idle" THEN 0 ELSE 1)
                           + (IF objects = "grown" THEN MaxUrefs ELSE 0)
  BY PagerPortAssumption, SMTT(30)
<1>3. /\ request_urefs = request_refs + Total(f) + Total(Coming(C))
      /\ name_urefs = name_refs + Total(h) + Total(Coming(I))
                      + (IF objects = "idle" THEN 0 ELSE 1)
                      + (IF objects = "grown" THEN MaxUrefs ELSE 0)
  BY DEF RightsBalance
<1>4. /\ RequestsOf(t) = job[t].request_refs + One(t, C)
      /\ RequestsOf(t)' = job'[t].request_refs + One(t, C)'
      /\ NamesOf(t) = job[t].name_refs + One(t, I) /\ NamesOf(t)' = job'[t].name_refs + One(t, I)'
  BY DEF RequestsOf, NamesOf
<1>5. /\ job[t].request_refs \in Int /\ job'[t].request_refs \in Int
      /\ job[t].name_refs \in Int /\ job'[t].name_refs \in Int
      /\ request_urefs \in Int /\ request_urefs' \in Int /\ request_refs \in Int
      /\ request_refs' \in Int /\ name_urefs \in Int /\ name_urefs' \in Int
      /\ name_refs \in Int /\ name_refs' \in Int
  BY SMTT(30) DEF RefTypes
<1> HIDE DEF f, g, h, k, C, I
<1>6. /\ Total(f) \in Int /\ Total(g) \in Int
      /\ Total(g) - job'[t].request_refs = Total(f) - job[t].request_refs
  BY <1>1, ThreadTotal, SMTT(30)
<1>7. /\ Total(h) \in Int /\ Total(k) \in Int
      /\ Total(k) - job'[t].name_refs = Total(h) - job[t].name_refs
  BY <1>1, ThreadTotal, SMTT(30)
<1>8. /\ Total(Coming(C)) \in Int /\ Total(Coming(C)') \in Int
      /\ Total(Coming(C)') - One(t, C)' = Total(Coming(C)) - One(t, C)
      /\ One(t, C) \in Int /\ One(t, C)' \in Int
  BY ComingChange DEF C
<1>9. /\ Total(Coming(I)) \in Int /\ Total(Coming(I)') \in Int
      /\ Total(Coming(I)') - One(t, I)' = Total(Coming(I)) - One(t, I)
      /\ One(t, I) \in Int /\ One(t, I)' \in Int
  BY ComingChange DEF I
<1>10. request_urefs' = request_refs' + Total(g) + Total(Coming(C)') + 0
  <2>1. request_urefs = request_refs + Total(f) + Total(Coming(C)) + 0
    BY <1>3, <1>5, <1>6, <1>8, SMTT(30)
  <2>2. request_urefs' - request_refs' - (job'[t].request_refs + One(t, C)')
          = request_urefs - request_refs - (job[t].request_refs + One(t, C))
    BY <1>4
  <2>3. 0 \in Int
    BY SMTT(30)
  <2> QED
    BY <1>5, <1>6, <1>8, <2>1, <2>2, <2>3, Shifted, SMTT(30)
<1>11. name_urefs' = name_refs' + Total(k) + Total(Coming(I)') + e
  <2>1. name_urefs = name_refs + Total(h) + Total(Coming(I)) + e
    BY <1>2, <1>3, <1>5, <1>7, <1>9, PagerPortAssumption, SMTT(30)
  <2>2. name_urefs' - name_refs' - (job'[t].name_refs + One(t, I)')
          = name_urefs - name_refs - (job[t].name_refs + One(t, I))
    BY <1>4
  <2> QED
    BY <1>5, <1>7, <1>9, <2>1, <2>2, Shifted, SMTT(30)
<1>12. request_urefs' = request_refs' + Total(g) + Total(Coming(C)')
  BY <1>5, <1>6, <1>8, <1>10, SMTT(30)
<1>13. name_urefs' = name_refs' + Total(k) + Total(Coming(I)')
                      + (IF objects' = "idle" THEN 0 ELSE 1)
                      + (IF objects' = "grown" THEN MaxUrefs ELSE 0)
  BY <1>2, <1>5, <1>7, <1>9, <1>11, PagerPortAssumption, SMTT(30)
<1> QED
  BY <1>12, <1>13 DEF RightsBalance, g, k, C, I

=============================================================================
