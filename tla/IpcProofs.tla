----------------------------- MODULE IpcProofs ------------------------------
(***************************************************************************)
(* Proofs about Ipc for any number of processes, threads and semaphore     *)
(* objects and rings of any capacity: the semaphore excludes and is given  *)
(* back, and the rings implement the queues of IpcQueue.                   *)
(***************************************************************************)
EXTENDS Ipc, SequenceTheorems, FiniteSetTheorems, WellFoundedInduction, TLAPS

\* Most steps follow by logic alone and are left to Zenon.
USE ZenonT(20), SMTT(30)

USE IpcAssumption

-----------------------------------------------------------------------------
(* The semaphore *)

\* The part of the state that mutual exclusion depends on.
SemTypes ==
    /\ message_sem \in [Process -> Sem \cup {NULL}]
    /\ name \in Sem \cup {NULL}
    /\ value \in [Sem -> {0, 1}]
    /\ pc \in [Caller -> Pc]

\* A process has the semaphore open exactly while it is initialised, and is in a
\* call only then.
OpenOK ==
    /\ \A k \in Process : k \in initialized <=> message_sem[k] # NULL
    /\ \A c \in Caller : pc[c] # "idle" => c[1] \in initialized

\* A semaphore somebody holds is at 0: this makes Exclusive inductive.
HeldIsZero == \A c \in InCriticalSection : value[message_sem[c[1]]] = 0

\* SemaphoreOwned without counting: at 0 it is held or was died with, not both.
Owner ==
    \A s \in Sem : InUse(s) =>
       /\ value[s] = 0 <=> Holders(s) # {} \/ s \in orphaned
       /\ Holders(s) = {} \/ s \notin orphaned

IInv == SemTypes /\ OpenOK /\ HeldIsZero /\ Exclusive /\ Owner


LEMMA Callers == \A c \in Caller : c[1] \in Process
  BY DEF Caller

\* Semaphores of callers that are in a call are real ones.
LEMMA OpenSem ==
    ASSUME IInv, NEW c \in Caller, pc[c] # "idle"
    PROVE  message_sem[c[1]] \in Sem
  BY Callers DEF IInv, SemTypes, OpenOK

\* sem_wait, for a sender or a receiver.
LEMMA WaitStep ==
    ASSUME IInv, NEW c \in Caller, NEW l \in {"sending", "receiving"},
           pc[c] \in {"send", "receive"}, sem_wait(c[1]),
           pc' = [pc EXCEPT ![c] = l], UNCHANGED queueVars
    PROVE  IInv'
<1> DEFINE s == message_sem[c[1]]
<1>1. s \in Sem /\ value[s] = 1 /\ value' = [value EXCEPT ![s] = 0]
  <2>1. s \in Sem
    BY OpenSem
  <2>2. value[s] \in {0, 1} /\ value[s] > 0
    BY <2>1 DEF sem_wait, IInv, SemTypes
  <2>3. value' = [value EXCEPT ![s] = value[s] - 1]
    BY DEF sem_wait
  <2>4. value[s] = 1 /\ value[s] - 1 = 0
    BY <2>2, SMTT(30)
  <2> QED
    BY <2>1, <2>3, <2>4
<1>2. /\ InCriticalSection' = InCriticalSection \cup {c}
      /\ message_sem' = message_sem /\ initialized' = initialized
      /\ name' = name
  BY DEF InCriticalSection, queueVars, sem_wait, IInv, SemTypes
<1>3. \A d \in InCriticalSection : message_sem[d[1]] # s
  BY <1>1, SMTT(30) DEF IInv, HeldIsZero
<1>4. SemTypes' /\ OpenOK'
  BY <1>1, <1>2 DEF IInv, SemTypes, OpenOK, Pc
<1>5. HeldIsZero'
  <2>1. \A d \in InCriticalSection : d \in Caller /\ pc[d] # "idle"
    BY DEF InCriticalSection
  <2>2. \A d \in InCriticalSection : message_sem[d[1]] \in Sem
    BY <2>1, OpenSem
  <2> QED
    BY <1>1, <1>2, <2>2 DEF IInv, HeldIsZero, SemTypes
<1>6. Exclusive'
  BY <1>2, <1>3 DEF IInv, Exclusive
<1>7. Owner'
  <2>0. PICK u : u = s
    OBVIOUS
  <2>1. orphaned' = orphaned /\ \A t \in Sem : InUse(t)' <=> InUse(t)
    BY <1>2 DEF InUse, sem_wait
  <2>2. InUse(u) /\ u \in Sem
    BY <1>1, <2>0, Callers DEF InUse
  <2>3. ASSUME NEW t \in Sem, InUse(t), t # u
        PROVE  Holders(t)' = Holders(t) /\ value'[t] = value[t]
    BY <1>1, <1>2, <2>0, <2>3 DEF Holders, IInv, SemTypes
  <2>4. Holders(u)' # {} /\ value'[u] = 0 /\ u \notin orphaned
    BY <1>1, <1>2, <2>0, <2>2, SMTT(30) DEF Holders, IInv, SemTypes, Owner
  <2> QED
    BY <2>1, <2>3, <2>4 DEF Owner, IInv
<1> QED
  BY <1>4, <1>5, <1>6, <1>7 DEF IInv

\* sem_post, at the end of a send or of a look at the ring.
LEMMA PostStep ==
    ASSUME IInv, NEW c \in InCriticalSection, NEW l \in {"idle", "sleep"},
           sem_post(c[1]), pc' = [pc EXCEPT ![c] = l],
           UNCHANGED <<initialized, message_sem>>
    PROVE  IInv'
<1> DEFINE s == message_sem[c[1]]
<1>0. c \in Caller /\ pc[c] # "idle"
  BY DEF InCriticalSection
<1>1. s \in Sem /\ value[s] = 0 /\ value' = [value EXCEPT ![s] = 1]
  <2>1. s \in Sem
    BY <1>0, OpenSem
  <2>2. value[s] = 0
    BY DEF IInv, HeldIsZero
  <2>3. value' = [value EXCEPT ![s] = value[s] + 1]
    BY DEF sem_post
  <2> QED
    BY <2>1, <2>2, <2>3, SMTT(30)
<1>2. InCriticalSection' = InCriticalSection \ {c} /\ name' = name
  BY <1>0 DEF InCriticalSection, sem_post, IInv, SemTypes
<1>3. \A d \in InCriticalSection' : message_sem[d[1]] # s
  BY <1>2 DEF IInv, Exclusive
<1>4. SemTypes' /\ OpenOK'
  BY <1>0, <1>1, <1>2 DEF IInv, SemTypes, OpenOK, Pc
<1>5. HeldIsZero'
  BY <1>1, <1>2, <1>3, SMTT(30) DEF IInv, HeldIsZero, SemTypes
<1>6. Exclusive'
  BY <1>2 DEF IInv, Exclusive
<1>7. Owner'
  <2>1. orphaned' = orphaned /\ \A t \in Sem : InUse(t)' <=> InUse(t)
    BY <1>2 DEF InUse, sem_post
  <2>2. InUse(s) /\ Holders(s) # {}
    BY <1>0, Callers DEF InUse, Holders
  <2>3. ASSUME NEW t \in Sem, InUse(t), t # s
        PROVE  Holders(t)' = Holders(t) /\ value'[t] = value[t]
    BY <1>1, <1>2, <2>3 DEF Holders, IInv, SemTypes
  <2>4. Holders(s)' = {} /\ value'[s] = 1 /\ s \notin orphaned
    BY <1>1, <1>2, <1>3, <2>2 DEF Holders, IInv, SemTypes, Owner
  <2> QED
    BY <2>1, <2>3, <2>4, SMTT(30) DEF Owner, IInv
<1> QED
  BY <1>4, <1>5, <1>6, <1>7 DEF IInv

\* Steps that neither take nor give a semaphore.
LEMMA LocalStep ==
    ASSUME IInv, NEW c \in Caller, NEW l \in {"send", "receive"},
           pc[c] \in {"idle", "sleep"}, c[1] \in initialized,
           pc' = [pc EXCEPT ![c] = l], UNCHANGED <<queueVars, semVars>>
    PROVE  IInv'
<1>1. InCriticalSection' = InCriticalSection
  BY DEF InCriticalSection, IInv, SemTypes
<1>2. Owner'
  BY <1>1 DEF IInv, Owner, Holders, InUse, queueVars, semVars
<1> QED
  BY <1>1, <1>2 DEF IInv, SemTypes, OpenOK, HeldIsZero, Exclusive, Pc, queueVars,
                    semVars

-----------------------------------------------------------------------------

LEMMA InitStep ==
    ASSUME IInv, NEW k \in Process, ipc_system_init(k)
    PROVE  IInv'
<1>1. /\ k \notin initialized /\ initialized' = initialized \cup {k}
      /\ pc' = pc
  BY DEF ipc_system_init, callVars
<1>2. \A c \in InCriticalSection : c[1] # k /\ c \in Caller
  BY <1>1 DEF IInv, OpenOK, InCriticalSection
<1>3. InCriticalSection' = InCriticalSection
  BY <1>1 DEF InCriticalSection
<1>4. PICK s \in Sem :
         /\ message_sem' = [message_sem EXCEPT ![k] = s]
         /\ \/ s = name /\ UNCHANGED <<name, value, orphaned>>
            \/ /\ ~InUse(s) /\ name = NULL
               /\ name' = s
               /\ value' = [value EXCEPT ![s] = 1]
               /\ orphaned' = orphaned \ {s}
  BY DEF ipc_system_init, sem_open, semVars, IInv, SemTypes
<1>5. \A c \in InCriticalSection : message_sem'[c[1]] = message_sem[c[1]]
  BY <1>2, <1>4, Callers DEF IInv, SemTypes
<1>6. SemTypes' /\ OpenOK'
  BY <1>1, <1>4 DEF IInv, SemTypes, OpenOK
<1>7. HeldIsZero'
  <2>1. \A c \in InCriticalSection : ~InUse(s) => message_sem[c[1]] # s
    BY <1>2, Callers DEF InUse
  <2>2. \A c \in InCriticalSection : message_sem[c[1]] \in Sem
    BY OpenSem DEF InCriticalSection
  <2> QED
    BY <1>3, <1>4, <1>5, <2>1, <2>2 DEF IInv, HeldIsZero, SemTypes
<1>8. Exclusive'
  BY <1>3, <1>5, SMTT(30) DEF IInv, Exclusive
<1>9. Owner'
  <2>1. ASSUME NEW t \in Sem PROVE Holders(t)' = Holders(t)
    BY <1>3, <1>5 DEF Holders
  <2>2. ASSUME NEW t \in Sem, t # s, InUse(t)' PROVE InUse(t)
    BY <1>4, <2>2 DEF InUse, IInv, SemTypes
  <2>3. CASE s = name /\ UNCHANGED <<name, value, orphaned>>
    <3>1. InUse(s)
      BY <2>3 DEF InUse
    <3> QED
      BY <2>1, <2>2, <2>3, <3>1 DEF Owner, IInv
  <2>4. CASE ~InUse(s) /\ value' = [value EXCEPT ![s] = 1] /\ orphaned' = orphaned \ {s}
    <3>1. Holders(s) = {}
      BY <1>2, <2>4, Callers DEF InUse, Holders
    <3>2. value'[s] = 1 /\ \A t \in Sem : t # s => value'[t] = value[t]
      BY <2>4 DEF IInv, SemTypes
    <3> QED
      BY <2>1, <2>2, <2>4, <3>1, <3>2, SMTT(30) DEF Owner, IInv
  <2> QED
    BY <1>4, <2>3, <2>4
<1> QED
  BY <1>6, <1>7, <1>8, <1>9 DEF IInv

LEMMA ForkStep ==
    ASSUME IInv, NEW k \in Process, NEW j \in Process, syscall_fork(k, j)
    PROVE  IInv'
<1>1. /\ j \notin initialized /\ initialized' = initialized \cup {j}
      /\ k \in initialized
      /\ message_sem' = [message_sem EXCEPT ![j] = message_sem[k]]
      /\ UNCHANGED <<name, value, pc, orphaned>>
  BY DEF syscall_fork, semVars, callVars
<1>2. \A c \in InCriticalSection : c[1] # j /\ c[1] \in Process
  BY <1>1, Callers DEF IInv, OpenOK, InCriticalSection
<1>3. InCriticalSection' = InCriticalSection
  BY <1>1 DEF InCriticalSection
<1>4. \A c \in InCriticalSection : message_sem'[c[1]] = message_sem[c[1]]
  BY <1>1, <1>2 DEF IInv, SemTypes
<1>5. SemTypes' /\ OpenOK'
  BY <1>1 DEF IInv, SemTypes, OpenOK
<1>6. Owner'
  <2>1. ASSUME NEW t \in Sem PROVE Holders(t)' = Holders(t)
    BY <1>3, <1>4 DEF Holders
  <2>2. ASSUME NEW t \in Sem, InUse(t)' PROVE InUse(t)
    BY <1>1, <2>2 DEF InUse, IInv, SemTypes
  <2> QED
    BY <1>1, <2>1, <2>2 DEF Owner, IInv
<1>7. HeldIsZero' /\ Exclusive'
  BY <1>1, <1>3, <1>4, SMTT(30) DEF IInv, HeldIsZero, Exclusive
<1> QED
  BY <1>5, <1>6, <1>7 DEF IInv

\* Both ways in which a process ends: none of its callers is in a call then.
LEMMA StopStep ==
    ASSUME IInv, NEW k \in Process, ipc_system_cleanup(k) \/ Crash(k)
    PROVE  IInv'
<1>1. /\ initialized' = initialized \ {k}
      /\ message_sem' = [message_sem EXCEPT ![k] = NULL]
      /\ name' \in {name, NULL} /\ value' = value
  BY DEF ipc_system_cleanup, Crash
<1>2. pc' = [c \in Caller |-> IF c[1] = k THEN "idle" ELSE pc[c]]
  <2>1. CASE ipc_system_cleanup(k)
    <3>1. \A c \in Caller : c[1] = k => pc[c] = "idle"
      BY <2>1, SMTT(30) DEF ipc_system_cleanup, Quiet, Caller
    <3> QED
      BY <2>1, <3>1 DEF ipc_system_cleanup, IInv, SemTypes
  <2>2. CASE Crash(k)
    BY <2>2 DEF Crash
  <2> QED
    BY <2>1, <2>2
<1>3. \A c \in InCriticalSection' :
         c \in InCriticalSection /\ c[1] # k /\ c[1] \in Process
  BY <1>2, Callers DEF InCriticalSection
<1>4. \A c \in InCriticalSection' : message_sem'[c[1]] = message_sem[c[1]]
  BY <1>1, <1>3 DEF IInv, SemTypes
<1>5. SemTypes' /\ OpenOK'
  BY <1>1, <1>2 DEF IInv, SemTypes, OpenOK, Pc
<1>6. HeldIsZero' /\ Exclusive'
  BY <1>1, <1>3, <1>4 DEF IInv, HeldIsZero, Exclusive
<1>7. Owner'
  <2> DEFINE Died == \E c \in InCriticalSection : c[1] = k
  <2>0. PICK s : s = message_sem[k]
    OBVIOUS
  <2>1. orphaned' = IF Died THEN orphaned \cup {s} ELSE orphaned
    <3>1. CASE ipc_system_cleanup(k)
      <4>1. ~ Died
        BY <3>1, SMTT(30) DEF ipc_system_cleanup, Quiet, InCriticalSection, Caller
      <4> QED
        BY <3>1, <4>1 DEF ipc_system_cleanup
    <3>2. CASE Crash(k)
      BY <2>0, <3>2 DEF Crash
    <3> QED
      BY <3>1, <3>2
  <2>2. ASSUME NEW t \in Sem, InUse(t)' PROVE InUse(t)
    BY <1>1, <2>2, SMTT(30) DEF InUse, IInv, SemTypes
  <2>3. \A c \in InCriticalSection : c[1] # k => c \in InCriticalSection'
    BY <1>2 DEF InCriticalSection
  <2>4. ASSUME NEW t \in Sem
        PROVE  Holders(t)' = {c \in Holders(t) : c[1] # k}
    BY <1>3, <1>4, <2>3 DEF Holders
  <2>5. CASE Died
    <3>1. PICK c \in InCriticalSection : c[1] = k
      BY <2>5
    <3>2. \A d \in Holders(s) : d = c
      BY <2>0, <3>1 DEF Holders, IInv, Exclusive
    <3>3. \A t \in Sem : t # s => \A d \in Holders(t) : d[1] # k
      BY <2>0 DEF Holders
    <3>4. \A t \in Sem : t # s => Holders(t)' = Holders(t)
      BY <2>4, <3>3
    <3>5. s \in Sem => Holders(s)' = {}
      BY <2>4, <3>1, <3>2
    <3>6. c \in Holders(s)
      BY <2>0, <3>1 DEF Holders
    <3> QED
      BY <1>1, <2>1, <2>2, <2>5, <3>4, <3>5, <3>6 DEF Owner, IInv
  <2>6. CASE ~ Died
    <3>1. \A t \in Sem : \A d \in Holders(t) : d[1] # k
      BY <2>6 DEF Holders
    <3>2. \A t \in Sem : Holders(t)' = Holders(t)
      BY <2>4, <3>1
    <3> QED
      BY <1>1, <2>1, <2>2, <2>6, <3>2 DEF Owner, IInv
  <2> QED
    BY <2>5, <2>6
<1> QED
  BY <1>5, <1>6, <1>7 DEF IInv

LEMMA CallStep ==
    ASSUME IInv, NEW c \in Caller, Call(c) \/ Step(c) \/ Wait(c)
    PROVE  IInv'
<1>1. ASSUME NEW m, ipc_send_message(c, m) PROVE IInv'
  BY <1>1, LocalStep DEF ipc_send_message, Idle
<1>2. ASSUME NEW p, NEW b, ipc_receive_message(c, p, b) PROVE IInv'
  BY <1>2, LocalStep DEF ipc_receive_message, Idle
<1>3. CASE usleep(c)
  BY <1>3, LocalStep DEF usleep, IInv, OpenOK
<1>4. CASE Wait(c)
  BY <1>4, WaitStep DEF Wait, ipc_send_wait, ipc_receive_wait
<1>5. CASE ipc_send_body(c)
  BY <1>5, PostStep DEF ipc_send_body, InCriticalSection
<1>6. CASE ipc_receive_found(c)
  BY <1>6, PostStep DEF ipc_receive_found, InCriticalSection
<1>7. CASE ipc_receive_none(c)
  BY <1>7, PostStep DEF ipc_receive_none, InCriticalSection, queueVars
<1> QED
  BY <1>1, <1>2, <1>3, <1>4, <1>5, <1>6, <1>7
  DEF Call, Step, syscall_ipc_send, syscall_ipc_recv

LEMMA NextIInv == ASSUME IInv, [Next]_vars PROVE IInv'
<1>1. CASE UNCHANGED vars
  BY <1>1, SMTT(30) DEF vars, queueVars, semVars, callVars, IInv, SemTypes, OpenOK,
              HeldIsZero, Exclusive, InCriticalSection, Owner, InUse, Holders
<1> QED
  BY <1>1, InitStep, ForkStep, StopStep, CallStep DEF Next, Start, Stop

LEMMA InitIInv == Init => IInv
  BY DEF Init, IInv, SemTypes, OpenOK, HeldIsZero, Exclusive, InCriticalSection, Pc, Owner,
         InUse

\* The code between sem_wait and sem_post is executed by one caller at a time,
\* whatever processes start, fork, shut down and die.
THEOREM Exclusion == Spec => []Exclusive
<1>1. IInv => Exclusive
  BY DEF IInv
<1> QED
  BY <1>1, InitIInv, NextIInv, PTL DEF Spec

\* No return path of ipc_send_message and ipc_receive_message forgets sem_post,
\* and the semaphore is lost only with a process that dies holding it.
THEOREM Ownership == Spec => []SemaphoreOwned
<1>1. ASSUME IInv PROVE SemaphoreOwned
  <2> SUFFICES ASSUME NEW s \in Sem, InUse(s)
               PROVE  value[s] = 1 - Cardinality(Holders(s))
                                   - (IF s \in orphaned THEN 1 ELSE 0)
    BY DEF SemaphoreOwned
  <2>0. /\ value[s] \in {0, 1}
        /\ value[s] = 0 <=> Holders(s) # {} \/ s \in orphaned
        /\ Holders(s) = {} \/ s \notin orphaned
    BY <1>1 DEF IInv, SemTypes, Owner
  <2>1. CASE Holders(s) = {}
    <3>1. Cardinality(Holders(s)) = 0
      BY <2>1, FS_EmptySet
    <3> QED
      BY <2>0, <2>1, <3>1, SMTT(30)
  <2>2. CASE Holders(s) # {}
    <3>1. PICK c \in Holders(s) : TRUE
      BY <2>2
    <3>2. Holders(s) = {c}
      BY <1>1, <3>1 DEF Holders, IInv, Exclusive
    <3>3. Cardinality(Holders(s)) = 1
      BY <3>2, FS_Singleton
    <3> QED
      BY <2>0, <2>2, <3>3, SMTT(30)
  <2> QED
    BY <2>1, <2>2
<1> QED
  BY <1>1, InitIInv, NextIInv, PTL DEF Spec

-----------------------------------------------------------------------------
(* The ring *)

\* Sums of two slots, and differences.
Wrap(x) == IF x < CAPACITY THEN x ELSE x - CAPACITY

LEMMA Up == ASSUME NEW x \in Nat, x < 2 * CAPACITY
            PROVE  x % CAPACITY = Wrap(x)
  BY SMTT(30) DEF Wrap

LEMMA Down == ASSUME NEW x \in Int, -CAPACITY <= x, x < CAPACITY
              PROVE  x % CAPACITY = IF 0 <= x THEN x ELSE x + CAPACITY
  BY SMTT(30)

Cell == [sender_pid : Pid \cup {NULL}, receiver_pid : Pid \cup {NULL},
         data_size : DataSize \cup {0}, data : Data \cup {NULL}]

Ring == [messages : [Slot -> Cell], head : Slot, tail : Slot, count : 0 .. CAPACITY]

\* QueueWellFormed of one ring.
WellFormed(q) ==
    /\ q.tail = (q.head + q.count) % CAPACITY
    /\ \A i \in 1 .. q.count : View(q)[i] \in Message /\ Fits(View(q)[i])

\* The slots without %.
LEMMA Places ==
    ASSUME NEW q \in Ring
    PROVE  /\ q.head \in Slot /\ q.tail \in Slot /\ q.count \in 0 .. CAPACITY
           /\ q.messages \in [Slot -> Cell]
           /\ (q.head + q.count) % CAPACITY = Wrap(q.head + q.count)
           /\ \A i \in 0 .. CAPACITY : Index(q, i) = Wrap(q.head + i) /\ Index(q, i) \in Slot
           /\ \A s \in Slot : Distance(q, s) = IF q.head <= s THEN s - q.head
                                               ELSE s - q.head + CAPACITY
<1>1. /\ q.head \in Slot /\ q.tail \in Slot /\ q.count \in 0 .. CAPACITY
      /\ q.messages \in [Slot -> Cell]
  BY DEF Ring
<1>2. ASSUME NEW i \in 0 .. CAPACITY
      PROVE  (q.head + i) % CAPACITY = Wrap(q.head + i) /\ Wrap(q.head + i) \in Slot
  <2>1. q.head + i \in Nat /\ q.head + i < 2 * CAPACITY
    BY <1>1, SMTT(30) DEF Slot
  <2>2. Wrap(q.head + i) \in Slot
    BY <1>1, SMTT(30) DEF Slot, Wrap
  <2> QED
    BY <2>1, <2>2, Up
<1>3. ASSUME NEW s \in Slot
      PROVE  Distance(q, s) = IF q.head <= s THEN s - q.head ELSE s - q.head + CAPACITY
  <2>1. s - q.head \in Int /\ -CAPACITY <= s - q.head /\ s - q.head < CAPACITY
    BY <1>1, SMTT(30) DEF Slot
  <2>2. (s - q.head) % CAPACITY = IF 0 <= s - q.head THEN s - q.head ELSE s - q.head + CAPACITY
    BY <2>1, Down
  <2> QED
    BY <1>1, <2>1, <2>2, SMTT(30) DEF Distance, Slot
<1> QED
  BY <1>1, <1>2, <1>3 DEF Index

LEMMA Prevs == \A s \in Slot : Prev(s) = IF s = 0 THEN CAPACITY - 1 ELSE s - 1
<1> SUFFICES ASSUME NEW s \in Slot PROVE Prev(s) = IF s = 0 THEN CAPACITY - 1 ELSE s - 1
  OBVIOUS
<1>1. s - 1 \in Int /\ -CAPACITY <= s - 1 /\ s - 1 < CAPACITY
  BY SMTT(30) DEF Slot
<1> QED
  BY <1>1, Down, SMTT(30) DEF Prev, Slot

\* The place that is n after h.
LEMMA WrapNext ==
    ASSUME NEW h \in Slot, NEW n \in 1 .. CAPACITY
    PROVE  /\ Wrap(h + 1) + (n - 1) = Wrap(h + 1) + n - 1
           /\ Wrap(Wrap(h + 1) + n - 1) = Wrap(h + n)
           /\ Wrap(h + n) \in Slot
           /\ Prev(Wrap(h + n)) = Wrap(h + n - 1)
<1>1. h \in Nat /\ h < CAPACITY /\ CAPACITY \in Nat /\ n \in Nat /\ 1 <= n /\ n <= CAPACITY
  BY SMTT(30) DEF Slot
<1>2. Wrap(h + 1) = IF h + 1 = CAPACITY THEN 0 ELSE h + 1
  BY <1>1, SMTT(30) DEF Wrap
<1>3. /\ Wrap(h + 1) + (n - 1) = Wrap(h + 1) + n - 1
      /\ Wrap(Wrap(h + 1) + n - 1) = Wrap(h + n)
  BY <1>1, <1>2, SMTT(30) DEF Wrap
<1>4. Wrap(h + n) \in Slot
  BY <1>1, SMTT(30) DEF Wrap, Slot
<1>5. Prev(Wrap(h + n)) = IF Wrap(h + n) = 0 THEN CAPACITY - 1 ELSE Wrap(h + n) - 1
  BY <1>4, Prevs
<1>6. Prev(Wrap(h + n)) = Wrap(h + n - 1)
  BY <1>1, <1>5, SMTT(30) DEF Wrap
<1> QED
  BY <1>3, <1>4, <1>6

\* The view of a well-formed ring is a sequence of messages.
LEMMA ViewSeq ==
    ASSUME NEW q \in Ring, WellFormed(q)
    PROVE  /\ View(q) \in Seq(Message) /\ Len(View(q)) = q.count
           /\ \A i \in 1 .. q.count : View(q)[i] = q.messages[Wrap(q.head + i - 1)]
<1>1. q.count \in Nat /\ q.count <= CAPACITY /\ q.head \in Int
  BY SMTT(30) DEF Ring, Slot
<1>2. View(q) \in [1 .. q.count -> Message]
  BY DEF WellFormed, View
<1>3. View(q) \in Seq(Message) /\ Len(View(q)) = q.count
  BY <1>1, <1>2, SMTT(30)
<1>4. ASSUME NEW i \in 1 .. q.count
      PROVE  View(q)[i] = q.messages[Wrap(q.head + i - 1)]
  <2>1. i - 1 \in 0 .. CAPACITY /\ q.head + (i - 1) = q.head + i - 1
    BY <1>1, SMTT(30)
  <2>2. Index(q, i - 1) = Wrap(q.head + i - 1)
    BY <2>1, Places
  <2> QED
    BY <2>2 DEF View
<1> QED
  BY <1>3, <1>4

\* A ring is well formed, with the view v, when its slots hold v.
LEMMA ViewIs ==
    ASSUME NEW q \in Ring, NEW v \in Seq(Message), Len(v) = q.count,
           q.tail = Wrap(q.head + q.count),
           \A i \in 1 .. q.count : q.messages[Wrap(q.head + i - 1)] = v[i] /\ Fits(v[i])
    PROVE  WellFormed(q) /\ View(q) = v
<1>1. q.count \in Nat /\ q.count <= CAPACITY /\ q.head \in Int
  BY SMTT(30) DEF Ring, Slot
<1>2. ASSUME NEW i \in 1 .. q.count
      PROVE  View(q)[i] = v[i] /\ v[i] \in Message
  <2>1. i - 1 \in 0 .. CAPACITY /\ q.head + (i - 1) = q.head + i - 1
    BY <1>1, SMTT(30)
  <2>2. Index(q, i - 1) = Wrap(q.head + i - 1)
    BY <2>1, Places
  <2> QED
    BY <2>2, ElementOfSeq DEF View
<1>3. WellFormed(q)
  BY <1>2, Places, SMTT(30) DEF WellFormed
<1> QED
  BY <1>2, <1>3, ViewSeq, SeqEqual

\* A send that succeeds appends.
LEMMA PublishView ==
    ASSUME NEW q \in Ring, WellFormed(q), ~ Full(q), NEW m \in Message, Fits(m)
    PROVE  /\ Publish(q, m) \in Ring /\ WellFormed(Publish(q, m))
           /\ View(Publish(q, m)) = Append(View(q), m)
<1> DEFINE r == Publish(q, m)
           v == Append(View(q), m)
<1>1. /\ q.head \in Slot /\ q.tail = Wrap(q.head + q.count) /\ q.tail \in Slot
      /\ q.count \in Nat /\ q.count < CAPACITY /\ q.messages \in [Slot -> Cell]
  BY Places, SMTT(30) DEF Full, WellFormed
<1>2. (q.tail + 1) % CAPACITY = Wrap(q.tail + 1) /\ Wrap(q.tail + 1) \in Slot
  <2>1. q.tail + 1 \in Nat /\ q.tail + 1 < 2 * CAPACITY
    BY <1>1, SMTT(30) DEF Slot
  <2>2. Wrap(q.tail + 1) \in Slot
    BY <1>1, SMTT(30) DEF Wrap, Slot
  <2> QED
    BY <2>1, <2>2, Up
<1>3. /\ r.messages = [q.messages EXCEPT ![q.tail] = m]
      /\ r.head = q.head /\ r.tail = Wrap(q.tail + 1) /\ r.count = q.count + 1
  BY <1>2 DEF Publish, Ring
<1>4. m \in Cell
  BY DEF Message, Cell
<1>5. r \in Ring
  <2>1. [q.messages EXCEPT ![q.tail] = m] \in [Slot -> Cell] /\ q.count + 1 \in 0 .. CAPACITY
    BY <1>1, <1>4, SMTT(30)
  <2>2. ASSUME NEW M \in [Slot -> Cell], NEW t \in Slot, NEW n \in 0 .. CAPACITY
        PROVE  [q EXCEPT !.messages = M, !.tail = t, !.count = n] \in Ring
    BY DEF Ring
  <2>3. r = [q EXCEPT !.messages = [q.messages EXCEPT ![q.tail] = m],
                      !.tail = Wrap(q.tail + 1), !.count = q.count + 1]
    BY <1>2 DEF Publish
  <2>4. [q EXCEPT !.messages = [q.messages EXCEPT ![q.tail] = m],
                  !.tail = Wrap(q.tail + 1), !.count = q.count + 1] \in Ring
    BY <1>2, <2>1, <2>2
  <2> QED
    BY <2>3, <2>4
<1>6. v \in Seq(Message) /\ Len(v) = r.count
  BY <1>3, ViewSeq, SMTT(30)
<1>7. r.tail = Wrap(r.head + r.count)
  BY <1>1, <1>3, SMTT(30) DEF Wrap, Slot
<1>8. ASSUME NEW i \in 1 .. r.count
      PROVE  r.messages[Wrap(r.head + i - 1)] = v[i] /\ Fits(v[i])
  <2>0. View(q) \in Seq(Message) /\ Len(View(q)) = q.count
    BY ViewSeq, SMTT(30)
  <2>1. CASE i = r.count
    <3>1. Wrap(r.head + i - 1) = q.tail
      BY <1>1, <1>3, <2>1, SMTT(30) DEF Slot
    <3>2. v[i] = m
      BY <1>3, <2>0, <2>1, SMTT(30)
    <3> QED
      BY <1>1, <1>3, <3>1, <3>2
  <2>2. CASE i # r.count
    <3>1. i \in 1 .. q.count
      BY <1>1, <1>3, <2>2, SMTT(30)
    <3>2. Wrap(q.head + i - 1) \in Slot /\ Wrap(q.head + i - 1) # q.tail
      BY <1>1, <3>1, SMTT(30) DEF Wrap, Slot
    <3>3. v[i] = View(q)[i]
      BY <2>0, <3>1, SMTT(30)
    <3>4. View(q)[i] = q.messages[Wrap(q.head + i - 1)] /\ Fits(View(q)[i])
      BY <3>1, ViewSeq DEF WellFormed
    <3> QED
      BY <1>1, <1>3, <3>2, <3>3, <3>4, SMTT(30)
  <2> QED
    BY <2>1, <2>2
<1> HIDE DEF r, v
<1>9. WellFormed(r) /\ View(r) = v
  BY <1>5, <1>6, <1>7, <1>8, ViewIs
<1> QED
  BY <1>5, <1>9 DEF r, v

\* A send that is too large changes nothing that is pending.
LEMMA HeaderView ==
    ASSUME NEW q \in Ring, WellFormed(q), ~ Full(q), NEW m \in Message
    PROVE  /\ WithHeader(q, m) \in Ring /\ WellFormed(WithHeader(q, m))
           /\ View(WithHeader(q, m)) = View(q)
<1> DEFINE r == WithHeader(q, m)
           h == [m EXCEPT !.data = q.messages[q.tail].data]
<1>1. /\ q.head \in Slot /\ q.tail = Wrap(q.head + q.count) /\ q.tail \in Slot
      /\ q.count \in Nat /\ q.count < CAPACITY /\ q.messages \in [Slot -> Cell]
  BY Places, SMTT(30) DEF Full, WellFormed
<1>2. h \in Cell
  BY <1>1 DEF Message, Cell
<1>3. /\ r.messages = [q.messages EXCEPT ![q.tail] = h]
      /\ r.head = q.head /\ r.tail = q.tail /\ r.count = q.count
  BY DEF WithHeader, Ring
<1>4. r \in Ring
  BY <1>1, <1>2 DEF WithHeader, Ring
<1>5. View(q) \in Seq(Message) /\ Len(View(q)) = r.count /\ r.tail = Wrap(r.head + r.count)
  BY <1>1, <1>3, ViewSeq
<1>6. ASSUME NEW i \in 1 .. r.count
      PROVE  r.messages[Wrap(r.head + i - 1)] = View(q)[i] /\ Fits(View(q)[i])
  <2>1. i \in 1 .. q.count
    BY <1>3
  <2>2. Wrap(q.head + i - 1) \in Slot /\ Wrap(q.head + i - 1) # q.tail
    BY <1>1, <2>1, SMTT(30) DEF Wrap, Slot
  <2>3. View(q)[i] = q.messages[Wrap(q.head + i - 1)] /\ Fits(View(q)[i])
    BY <2>1, ViewSeq, SMTT(30) DEF WellFormed
  <2> QED
    BY <1>1, <1>3, <2>2, <2>3
<1> HIDE DEF r, h
<1>7. WellFormed(r) /\ View(r) = View(q)
  BY <1>4, <1>5, <1>6, ViewIs, SMTT(30)
<1> QED
  BY <1>4, <1>7 DEF r

\* As IpcQueue takes the i-th message out of a queue.
Without(s, i) == SubSeq(s, 1, i - 1) \o SubSeq(s, i + 1, Len(s))

\* A receive removes the message it found and keeps the others in order.
LEMMA DequeueView ==
    ASSUME NEW q \in Ring, WellFormed(q), NEW i \in 0 .. (q.count - 1)
    PROVE  /\ Dequeue(q, i) \in Ring /\ WellFormed(Dequeue(q, i))
           /\ View(Dequeue(q, i)) = Without(View(q), i + 1)
<1> DEFINE r == Dequeue(q, i)
           v == Without(View(q), i + 1)
<1>1. /\ q.head \in Slot /\ q.tail = Wrap(q.head + q.count) /\ q.tail \in Slot
      /\ q.count \in Nat /\ q.count <= CAPACITY /\ q.messages \in [Slot -> Cell]
      /\ i \in Nat /\ i < q.count /\ CAPACITY \in Nat
  BY Places, SMTT(30) DEF WellFormed
<1>2. (q.head + 1) % CAPACITY = Wrap(q.head + 1) /\ Wrap(q.head + 1) \in Slot
  <2>1. q.head + 1 \in Nat /\ q.head + 1 < 2 * CAPACITY
    BY <1>1, SMTT(30) DEF Slot
  <2>2. Wrap(q.head + 1) \in Slot
    BY <1>1, SMTT(30) DEF Wrap, Slot
  <2> QED
    BY <2>1, <2>2, Up
<1>3. \A s \in Slot : Prev(s) \in Slot
  BY Prevs, SMTT(30) DEF Slot
<1>4. Shift(q, i) \in [Slot -> Cell]
  BY <1>1, <1>3 DEF Shift
<1>5. r = [q EXCEPT !.messages = Shift(q, i), !.head = Wrap(q.head + 1), !.count = q.count - 1]
  BY <1>2 DEF Dequeue
<1>6. /\ r.messages = Shift(q, i) /\ r.head = Wrap(q.head + 1)
      /\ r.tail = q.tail /\ r.count = q.count - 1
  BY <1>5 DEF Ring
<1>7. r \in Ring
  <2>1. ASSUME NEW M \in [Slot -> Cell], NEW h \in Slot, NEW n \in 0 .. CAPACITY
        PROVE  [q EXCEPT !.messages = M, !.head = h, !.count = n] \in Ring
    BY DEF Ring
  <2>2. q.count - 1 \in 0 .. CAPACITY
    BY <1>1, SMTT(30)
  <2>3. [q EXCEPT !.messages = Shift(q, i), !.head = Wrap(q.head + 1), !.count = q.count - 1]
           \in Ring
    BY <1>2, <1>4, <2>1, <2>2
  <2> QED
    BY <1>5, <2>3
<1>8. r.tail = Wrap(r.head + r.count)
  <2>1. q.count \in 1 .. CAPACITY
    BY <1>1, SMTT(30)
  <2> QED
    BY <1>1, <1>6, <2>1, WrapNext, SMTT(30)
<1>9. /\ v \in Seq(Message) /\ Len(v) = r.count
      /\ \A j \in 1 .. r.count : v[j] = IF j <= i THEN View(q)[j] ELSE View(q)[j + 1]
  <2> DEFINE w == View(q)
             a == SubSeq(w, 1, i)
             b == SubSeq(w, i + 2, q.count)
  <2>1. w \in Seq(Message) /\ Len(w) = q.count
    BY ViewSeq
  <2>2. v = a \o b
    <3>1. (i + 1) - 1 = i /\ (i + 1) + 1 = i + 2
      BY <1>1, SMTT(30)
    <3> QED
      BY <2>1, <3>1, SMTT(30) DEF Without
  <2>3. \A j \in 1 .. q.count : w[j] \in Message
    BY <2>1, ElementOfSeq
  <2> HIDE DEF w, v
  <2>4. /\ a \in Seq(Message) /\ Len(a) = i
        /\ \A j \in 1 .. i : a[j] = w[j]
    <3>1. \A j \in 1 .. i : w[j] \in Message
      BY <1>1, <2>3, SMTT(30)
    <3>2. /\ a \in Seq(Message) /\ Len(a) = IF 1 <= i THEN i - 1 + 1 ELSE 0
          /\ \A j \in 1 .. i - 1 + 1 : a[j] = w[1 + j - 1]
      BY <1>1, <3>1, SubSeqProperties, SMTT(30)
    <3>3. (IF 1 <= i THEN i - 1 + 1 ELSE 0) = i /\ i - 1 + 1 = i
      BY <1>1, SMTT(30)
    <3>4. \A j \in 1 .. i : 1 + j - 1 = j
      BY <1>1, SMTT(30)
    <3> HIDE DEF a
    <3> QED
      BY <3>2, <3>3, <3>4
  <2>5. /\ b \in Seq(Message) /\ Len(b) = q.count - 1 - i
        /\ \A j \in 1 .. (q.count - 1 - i) : b[j] = w[j + i + 1]
    <3>1. \A j \in (i + 2) .. q.count : w[j] \in Message
      BY <1>1, <2>3, SMTT(30)
    <3>2. /\ b \in Seq(Message)
          /\ Len(b) = IF i + 2 <= q.count THEN q.count - (i + 2) + 1 ELSE 0
          /\ \A j \in 1 .. q.count - (i + 2) + 1 : b[j] = w[(i + 2) + j - 1]
      <4>1. i + 2 \in Int /\ q.count \in Int
        BY <1>1, SMTT(30)
      <4> QED
        BY <3>1, <4>1, SubSeqProperties, SMTT(30)
    <3> HIDE DEF b
    <3>3. ASSUME NEW j \in 1 .. (q.count - 1 - i) PROVE b[j] = w[j + i + 1]
      <4>1. j \in 1 .. q.count - (i + 2) + 1 /\ (i + 2) + j - 1 = j + i + 1
        BY <1>1, SMTT(30)
      <4> QED
        BY <3>2, <4>1
    <3> QED
      BY <1>1, <3>2, <3>3, SMTT(30)
  <2> HIDE DEF a, b
  <2>6. /\ v \in Seq(Message) /\ Len(v) = Len(a) + Len(b)
        /\ \A j \in 1 .. Len(a) + Len(b) : v[j] = IF j <= Len(a) THEN a[j] ELSE b[j - Len(a)]
    <3>1. a \in Seq(Message) /\ b \in Seq(Message)
      BY <2>4, <2>5
    <3>2. /\ a \o b \in Seq(Message) /\ Len(a \o b) = Len(a) + Len(b)
          /\ \A j \in 1 .. Len(a) + Len(b) :
                (a \o b)[j] = IF j <= Len(a) THEN a[j] ELSE b[j - Len(a)]
      BY ONLY <3>1, ConcatProperties
    <3> QED
      BY <2>2, <3>2
  <2>7. Len(v) = r.count
    BY <1>1, <1>6, <2>4, <2>5, <2>6, SMTT(30)
  <2>8. ASSUME NEW j \in 1 .. r.count
        PROVE  v[j] = IF j <= i THEN w[j] ELSE w[j + 1]
    <3>1. j \in 1 .. Len(a) + Len(b)
      BY <2>6, <2>7
    <3>2. CASE j <= i
      BY <1>1, <2>4, <2>6, <3>1, <3>2, SMTT(30)
    <3>3. CASE ~ (j <= i)
      <4>1. j - i \in 1 .. (q.count - 1 - i) /\ (j - i) + i + 1 = j + 1
        BY <1>1, <1>6, <3>3, SMTT(30)
      <4>2. v[j] = b[j - i]
        BY <2>4, <2>6, <3>1, <3>3
      <4> QED
        BY <2>5, <3>3, <4>1, <4>2
    <3> QED
      BY <3>2, <3>3
  <2> QED
    BY <2>6, <2>7, <2>8 DEF w
<1>10. ASSUME NEW j \in 1 .. r.count
       PROVE  r.messages[Wrap(r.head + j - 1)] = v[j] /\ Fits(v[j])
  <2> DEFINE s == Wrap(q.head + j)
  <2>0. j \in Nat /\ 1 <= j /\ j <= q.count - 1 /\ j < CAPACITY /\ j + 1 \in 1 .. q.count
        /\ j \in 1 .. q.count
    BY <1>1, <1>6, SMTT(30)
  <2>1. Wrap(r.head + j - 1) = s /\ s \in Slot /\ Prev(s) = Wrap(q.head + j - 1)
    <3>1. j \in 1 .. CAPACITY
      BY <2>0, SMTT(30)
    <3> QED
      BY <1>1, <1>6, <3>1, WrapNext, SMTT(30)
  <2>2. Distance(q, s) = j
    <3>1. Distance(q, s) = IF q.head <= s THEN s - q.head ELSE s - q.head + CAPACITY
      BY <2>1, Places, SMTT(30)
    <3> QED
      BY <1>1, <2>0, <3>1, SMTT(30) DEF Wrap, Slot
  <2>3. /\ View(q)[j] = q.messages[Wrap(q.head + j - 1)] /\ Fits(View(q)[j])
        /\ View(q)[j + 1] = q.messages[Wrap(q.head + (j + 1) - 1)] /\ Fits(View(q)[j + 1])
    BY <2>0, ViewSeq, SMTT(30) DEF WellFormed
  <2>4. q.head + (j + 1) - 1 = q.head + j
    BY <1>1, <2>0, SMTT(30) DEF Slot
  <2> HIDE DEF s
  <2>5. Shift(q, i)[s] = IF j \in 1 .. i THEN q.messages[Prev(s)] ELSE q.messages[s]
    BY <2>1, <2>2 DEF Shift
  <2>6. j \in 1 .. i <=> j <= i
    BY <1>1, <2>0, SMTT(30)
  <2>7. r.messages[Wrap(r.head + j - 1)] = Shift(q, i)[s]
    BY <1>6, <2>1
  <2>8. v[j] = IF j <= i THEN View(q)[j] ELSE View(q)[j + 1]
    BY <1>9
  <2>9. q.messages[s] = View(q)[j + 1] /\ q.messages[Prev(s)] = View(q)[j]
    BY <2>1, <2>3, <2>4 DEF s
  <2> HIDE DEF r, v
  <2> QED
    BY <2>3, <2>5, <2>6, <2>7, <2>8, <2>9
<1> HIDE DEF r, v
<1>11. WellFormed(r) /\ View(r) = v
  <2>1. \A j \in 1 .. r.count : r.messages[Wrap(r.head + j - 1)] = v[j] /\ Fits(v[j])
    BY <1>10
  <2> QED
    BY <1>7, <1>8, <1>9, <2>1, ViewIs
<1> QED
  BY <1>7, <1>11 DEF r, v

\* The message found is the oldest for its receiver.
LEMMA FoundOldest ==
    ASSUME NEW q \in Ring, WellFormed(q), NEW p, Candidates(q, p) # {}
    PROVE  /\ Found(q, p) \in 0 .. (q.count - 1)
           /\ Found(q, p) + 1 \in 1 .. q.count
           /\ q.messages[Index(q, Found(q, p))] = View(q)[Found(q, p) + 1]
           /\ \A j \in 1 .. Found(q, p) :
                 View(q)[j].receiver_pid # View(q)[Found(q, p) + 1].receiver_pid
<1> DEFINE C == Candidates(q, p)
<1>1. C \subseteq Nat /\ q.count \in Nat
  BY SMTT(30) DEF Candidates, Ring
<1>2. \E i \in C : \A j \in C : ~ (<<j, i>> \in OpToRel(<, Nat))
  BY <1>1, NatLessThanWellFounded, WFMin
<1>3. \A i, j \in Nat : j < i => <<j, i>> \in OpToRel(<, Nat)
  BY DEF OpToRel
<1> HIDE DEF C
<1>4. \E i \in C : \A j \in C : i <= j
  <2>1. PICK i \in C : \A j \in C : ~ (j < i)
    BY <1>1, <1>2, <1>3
  <2> QED
    BY <1>1, <2>1, SMTT(30)
<1>5. PICK i : i = Found(q, p)
  OBVIOUS
<1>6. i \in C /\ \A j \in C : i <= j
  BY <1>4, <1>5 DEF Found, C
<1>7. i \in 0 .. (q.count - 1) /\ q.messages[Index(q, i)].receiver_pid = p
  BY <1>6 DEF C, Candidates
<1>8. ASSUME NEW n \in 0 .. (q.count - 1)
      PROVE  n + 1 \in 1 .. q.count /\ q.messages[Index(q, n)] = View(q)[n + 1]
  <2>1. n + 1 \in 1 .. q.count /\ (n + 1) - 1 = n
    BY <1>1, SMTT(30)
  <2> QED
    BY <2>1 DEF View
<1>9. ASSUME NEW j \in 1 .. i
      PROVE  View(q)[j].receiver_pid # p
  <2>1. j - 1 \in 0 .. (q.count - 1) /\ (j - 1) + 1 = j /\ ~ (i <= j - 1)
    BY <1>1, <1>7, SMTT(30)
  <2>2. j - 1 \notin C
    BY <1>6, <2>1
  <2>3. q.messages[Index(q, j - 1)].receiver_pid # p
    BY <2>1, <2>2 DEF C, Candidates
  <2> QED
    BY <1>8, <2>1, <2>3
<1> QED
  BY <1>5, <1>7, <1>8, <1>9, SMTT(30)

LEMMA EmptyView == EmptyQueue \in Ring /\ WellFormed(EmptyQueue) /\ View(EmptyQueue) = <<>>
<1>1. Garbage \in Cell /\ 0 \in Slot /\ 0 \in 0 .. CAPACITY
  BY SMTT(30) DEF Garbage, Cell, Slot
<1>2. EmptyQueue \in Ring
  BY <1>1 DEF EmptyQueue, Ring
<1>3. /\ EmptyQueue.count = 0
      /\ EmptyQueue.tail = Wrap(EmptyQueue.head + EmptyQueue.count)
  BY SMTT(30) DEF EmptyQueue, Wrap
<1>4. <<>> \in Seq(Message) /\ Len(<<>>) = 0
  BY SMTT(30)
<1>5. \A i \in 1 .. EmptyQueue.count : FALSE
  BY <1>3, SMTT(30)
<1> QED
  BY <1>2, <1>3, <1>4, <1>5, ViewIs
-----------------------------------------------------------------------------
(* The rings implement the queues *)

RingInv ==
    /\ message_queue \in [Process -> Ring]
    /\ \A k \in Process : WellFormed(message_queue[k])
    /\ pc \in [Caller -> Pc]
    /\ arg \in [Caller -> Message \cup {NULL}]
    /\ msg \in [Caller -> Message \cup {NULL}]
    /\ \A c \in Caller : pc[c] \in {"send", "sending"} => arg[c] \in Message

\* The state of the abstract specification.
queue == [k \in Process |-> View(message_queue[k])]

\* A step that changes the ring of k, if any, to r.
LEMMA RingUpdate ==
    ASSUME RingInv, NEW k \in Process, NEW r \in Ring, WellFormed(r),
           message_queue' = [message_queue EXCEPT ![k] = r]
    PROVE  /\ message_queue' \in [Process -> Ring]
           /\ \A j \in Process : WellFormed(message_queue'[j])
           /\ queue' = [queue EXCEPT ![k] = View(r)]
<1>1. /\ message_queue' \in [Process -> Ring]
      /\ \A j \in Process : message_queue'[j] = IF j = k THEN r ELSE message_queue[j]
  BY DEF RingInv
<1>2. \A j \in Process : WellFormed(message_queue'[j])
  BY <1>1 DEF RingInv
<1>3. queue' = [queue EXCEPT ![k] = View(r)]
  BY <1>1 DEF queue
<1> QED
  BY <1>1, <1>2, <1>3

\* What a step of Ipc is for IpcQueue.
Simulates == RingInv' /\ [Abstract!Next]_<<queue, msg>>

LEMMA Starting ==
    ASSUME RingInv, NEW k \in Process,
           ipc_system_init(k) \/ ipc_system_cleanup(k) \/ Crash(k)
    PROVE  Simulates
<1>1. /\ message_queue' = [message_queue EXCEPT ![k] = EmptyQueue]
      /\ \E S \in SUBSET Caller : msg' = [c \in Caller |-> IF c \in S THEN NULL ELSE msg[c]]
  <2>1. CASE ipc_system_init(k)
    <3>1. msg' = msg
      BY <2>1 DEF ipc_system_init, callVars
    <3>2. msg = [c \in Caller |-> IF c \in {} THEN NULL ELSE msg[c]]
      BY DEF RingInv
    <3>3. {} \in SUBSET Caller
      OBVIOUS
    <3> QED
      BY <2>1, <3>1, <3>2, <3>3 DEF ipc_system_init
  <2>2. CASE ipc_system_cleanup(k) \/ Crash(k)
    <3> DEFINE S == {c \in Caller : c[1] = k}
    <3>1. msg' = [c \in Caller |-> IF c[1] = k THEN NULL ELSE msg[c]]
      BY <2>2, SMTT(30) DEF ipc_system_cleanup, Crash
    <3>2. \A c \in Caller : c[1] = k <=> c \in S
      OBVIOUS
    <3>3. msg' = [c \in Caller |-> IF c \in S THEN NULL ELSE msg[c]]
      BY <3>1, <3>2
    <3>4. S \in SUBSET Caller
      OBVIOUS
    <3> QED
      BY <2>2, <3>3, <3>4 DEF ipc_system_cleanup, Crash
  <2> QED
    BY <2>1, <2>2
<1>2. PICK S \in SUBSET Caller : msg' = [c \in Caller |-> IF c \in S THEN NULL ELSE msg[c]]
  BY <1>1
<1>3. /\ message_queue' \in [Process -> Ring]
      /\ \A j \in Process : WellFormed(message_queue'[j])
      /\ queue' = [queue EXCEPT ![k] = <<>>]
  BY <1>1, EmptyView, RingUpdate
<1>4. Abstract!Reset(k)
  BY <1>2, <1>3 DEF Abstract!Reset, queue
<1>5. /\ pc' \in [Caller -> Pc] /\ arg' \in [Caller -> Message \cup {NULL}]
      /\ \A c \in Caller : pc'[c] \in {"send", "sending"} => arg'[c] \in Message
  BY SMTT(30) DEF RingInv, ipc_system_init, ipc_system_cleanup, Crash, callVars, Pc
<1>6. msg' \in [Caller -> Message \cup {NULL}]
  BY <1>2 DEF RingInv
<1> QED
  BY <1>3, <1>4, <1>5, <1>6 DEF Simulates, RingInv, Abstract!Next

LEMMA Forking ==
    ASSUME RingInv, NEW k \in Process, NEW j \in Process, syscall_fork(k, j)
    PROVE  Simulates
<1>1. message_queue' = [message_queue EXCEPT ![j] = message_queue[k]] /\ UNCHANGED callVars
  BY DEF syscall_fork
<1>2. message_queue[k] \in Ring /\ WellFormed(message_queue[k])
  BY DEF RingInv
<1>3. /\ message_queue' \in [Process -> Ring]
      /\ \A i \in Process : WellFormed(message_queue'[i])
      /\ queue' = [queue EXCEPT ![j] = View(message_queue[k])]
  BY <1>1, <1>2, RingUpdate
<1>4. Abstract!Fork(k, j)
  BY <1>1, <1>3 DEF Abstract!Fork, queue, callVars
<1> QED
  BY <1>1, <1>3, <1>4 DEF Simulates, RingInv, Abstract!Next, callVars

\* Steps inside a call that touch no ring.
LEMMA Stuttering ==
    ASSUME RingInv, NEW c \in Caller, NEW l \in Pc, UNCHANGED <<message_queue, msg, arg>>,
           pc' = [pc EXCEPT ![c] = l],
           l \in {"send", "sending"} => pc[c] \in {"send", "sending"}
    PROVE  Simulates
<1>1. RingInv'
  BY DEF RingInv
<1>2. queue' = queue /\ msg' = msg
  BY DEF queue
<1> QED
  BY <1>1, <1>2 DEF Simulates

LEMMA Calling ==
    ASSUME RingInv, NEW c \in Caller, Call(c)
    PROVE  Simulates
<1>1. /\ message_queue' = message_queue
      /\ msg' = [msg EXCEPT ![c] = NULL]
      /\ \/ /\ \E m \in Message : arg' = [arg EXCEPT ![c] = m]
            /\ pc' = [pc EXCEPT ![c] = "send"]
         \/ arg' = arg /\ pc' = [pc EXCEPT ![c] = "receive"]
  BY DEF Call, syscall_ipc_send, syscall_ipc_recv, ipc_send_message, ipc_receive_message, queueVars
<1>2. RingInv'
  BY <1>1, SMTT(30) DEF RingInv, Pc
<1>3. Abstract!Call(c)
  BY <1>1 DEF Abstract!Call, queue
<1> QED
  BY <1>2, <1>3 DEF Simulates, Abstract!Next

LEMMA Sending ==
    ASSUME RingInv, NEW c \in Caller, ipc_send_body(c)
    PROVE  Simulates
<1> DEFINE k == c[1]
           q == message_queue[k]
           m == arg[c]
<1>1. /\ k \in Process /\ q \in Ring /\ WellFormed(q) /\ m \in Message
      /\ message_queue' = [message_queue EXCEPT ![k] = Enqueue(q, m)]
      /\ pc' = [pc EXCEPT ![c] = "idle"] /\ arg' = [arg EXCEPT ![c] = NULL] /\ msg' = msg
  BY Callers DEF ipc_send_body, RingInv
<1>2. ASSUME NEW r \in Ring, WellFormed(r), Enqueue(q, m) = r
      PROVE  RingInv' /\ queue' = [queue EXCEPT ![k] = View(r)]
  <2>1. /\ message_queue' \in [Process -> Ring]
        /\ \A j \in Process : WellFormed(message_queue'[j])
        /\ queue' = [queue EXCEPT ![k] = View(r)]
    BY <1>1, <1>2, RingUpdate
  <2>2. /\ pc' \in [Caller -> Pc] /\ arg' \in [Caller -> Message \cup {NULL}]
        /\ \A d \in Caller : pc'[d] \in {"send", "sending"} => arg'[d] \in Message
    BY <1>1 DEF RingInv, Pc
  <2> QED
    BY <1>1, <2>1, <2>2, SMTT(30) DEF RingInv
<1>3. [queue EXCEPT ![k] = View(q)] = queue
  BY <1>1 DEF queue
<1>4. CASE Full(q)
  <2>1. RingInv' /\ queue' = queue
    BY <1>1, <1>2, <1>3, <1>4 DEF Enqueue
  <2> QED
    BY <1>1, <2>1 DEF Simulates
<1>5. CASE ~ Full(q) /\ ~ Fits(m)
  <2>1. RingInv' /\ queue' = queue
    BY <1>1, <1>2, <1>3, <1>5, HeaderView, SMTT(30) DEF Enqueue
  <2> QED
    BY <1>1, <2>1 DEF Simulates
<1>6. CASE ~ Full(q) /\ Fits(m)
  <2>1. RingInv' /\ queue' = [queue EXCEPT ![k] = Append(View(q), m)]
    BY <1>1, <1>2, <1>6, PublishView, SMTT(30) DEF Enqueue
  <2>2. queue[k] = View(q)
    BY <1>1 DEF queue
  <2>3. Len(queue[k]) < CAPACITY
    <3>1. Len(queue[k]) = q.count /\ q.count \in Nat
      BY <1>1, <2>2, ViewSeq, SMTT(30) DEF Ring
    <3> QED
      BY <1>6, <3>1, SMTT(30) DEF Full
  <2>4. Abstract!Send(k, m)
    BY <1>1, <2>1, <2>2, <2>3 DEF Abstract!Send, queue
  <2> QED
    BY <1>1, <2>1, <2>4 DEF Simulates, Abstract!Next
<1> QED
  BY <1>4, <1>5, <1>6

LEMMA Receiving ==
    ASSUME RingInv, NEW c \in Caller, ipc_receive_found(c)
    PROVE  Simulates
<1> DEFINE k == c[1]
           q == message_queue[k]
<1>0. PICK i : i = Found(q, receiver_pid[c])
  OBVIOUS
<1>1. /\ k \in Process /\ q \in Ring /\ WellFormed(q)
      /\ Candidates(q, receiver_pid[c]) # {}
      /\ msg' = [msg EXCEPT ![c] = q.messages[Index(q, i)]]
      /\ message_queue' = [message_queue EXCEPT ![k] = Dequeue(q, i)]
      /\ pc' = [pc EXCEPT ![c] = "idle"] /\ arg' = arg
  BY <1>0, Callers DEF ipc_receive_found, RingInv
<1>2. /\ i \in 0 .. (q.count - 1) /\ i + 1 \in 1 .. q.count
      /\ q.messages[Index(q, i)] = View(q)[i + 1]
      /\ \A j \in 1 .. i : View(q)[j].receiver_pid # View(q)[i + 1].receiver_pid
  <2> DEFINE p == receiver_pid[c]
             f == Found(q, p)
  <2>1. q \in Ring /\ WellFormed(q) /\ Candidates(q, p) # {}
    BY <1>1
  <2> HIDE DEF q, p
  <2>2. /\ f \in 0 .. (q.count - 1) /\ f + 1 \in 1 .. q.count
        /\ q.messages[Index(q, f)] = View(q)[f + 1]
        /\ \A j \in 1 .. f : View(q)[j].receiver_pid # View(q)[f + 1].receiver_pid
    BY <2>1, FoundOldest
  <2>3. i = f
    BY <1>0 DEF q, p
  <2> HIDE DEF f
  <2> QED
    BY <2>2, <2>3
<1>3. /\ Dequeue(q, i) \in Ring /\ WellFormed(Dequeue(q, i))
      /\ View(Dequeue(q, i)) = Without(View(q), i + 1)
  <2>1. q \in Ring /\ WellFormed(q) /\ i \in 0 .. (q.count - 1)
    BY <1>1, <1>2
  <2> HIDE DEF q
  <2> QED
    BY <2>1, DequeueView
<1>4. /\ message_queue' \in [Process -> Ring]
      /\ \A j \in Process : WellFormed(message_queue'[j])
      /\ queue' = [queue EXCEPT ![k] = Without(View(q), i + 1)]
  BY <1>1, <1>3, RingUpdate
<1>5. queue[k] = View(q) /\ DOMAIN View(q) = 1 .. q.count /\ View(q)[i + 1] \in Message
  BY <1>1, <1>2 DEF queue, View, WellFormed
<1>6. RingInv'
  BY <1>1, <1>2, <1>4, <1>5 DEF RingInv, Pc
<1>7. (i + 1) - 1 = i
  <2>1. i \in 0 .. (q.count - 1)
    BY <1>2, SMTT(30)
  <2> HIDE DEF q
  <2> QED
    BY <2>1, SMTT(30)
<1>8. Abstract!Receive(k, c, i + 1)
  BY <1>1, <1>2, <1>4, <1>5, <1>7 DEF Abstract!Receive, Abstract!Oldest, queue, Without
<1> QED
  BY <1>1, <1>2, <1>5, <1>6, <1>8 DEF Simulates, Abstract!Next, queue

LEMMA Simulation == ASSUME RingInv, [Next]_vars PROVE Simulates
<1>1. ASSUME NEW c \in Caller, Wait(c) \/ ipc_receive_none(c) \/ usleep(c) PROVE Simulates
  BY <1>1, Stuttering, SMTT(30) DEF Wait, ipc_send_wait, ipc_receive_wait, ipc_receive_none, usleep,
     queueVars, Pc
<1>2. ASSUME NEW c \in Caller, Step(c) PROVE Simulates
  BY <1>1, <1>2, Sending, Receiving DEF Step
<1>3. CASE UNCHANGED vars
  BY <1>3, SMTT(30) DEF vars, queueVars, callVars, Simulates, RingInv, queue
<1> QED
  BY <1>1, <1>2, <1>3, Starting, Forking, Calling DEF Next, Start, Stop

LEMMA InitRing == Init => RingInv
  BY EmptyView, SMTT(30) DEF Init, RingInv, Pc

\* The ring and its refused sends never show a caller a slot that no successful
\* send has written, for any capacity.
THEOREM Rings == Spec => []QueueWellFormed
<1>1. RingInv => QueueWellFormed
  BY DEF RingInv, QueueWellFormed, WellFormed
<1>2. RingInv /\ [Next]_vars => RingInv'
  BY Simulation DEF Simulates
<1> QED
  BY <1>1, <1>2, InitRing, PTL DEF Spec

\* The rings implement the queues of IpcQueue: neither the wrap-around nor the
\* shift of ipc_receive_message loses, duplicates or reorders a message.
THEOREM Refinement == Spec => ImplementsQueue
<1>1. Init => Abstract!Init
  BY EmptyView DEF Init, Abstract!Init
<1>2. RingInv /\ [Next]_vars => RingInv' /\ [Abstract!Next]_<<queue, msg>>
  BY Simulation DEF Simulates
<1> QED
  BY <1>1, <1>2, InitRing, PTL DEF Spec, ImplementsQueue, Abstract!Spec, queue
=============================================================================
