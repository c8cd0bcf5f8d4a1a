-------------------------- MODULE DosThreadLemmas --------------------------
(***************************************************************************)
(* The inductive invariant of DosThread, what the actions do to the state  *)
(* it speaks of, and the first of its conjuncts.                           *)
(***************************************************************************)
EXTENDS DosThread, FiniteSetTheorems, SequenceTheorems, TLAPS

\* Most steps follow by logic alone and are left to Zenon.
USE ZenonT(20), SMTT(30)

USE ConstantsAssumption

\* A thread has a join target exactly while it is inside pthread_join, and a
\* mutex it wants exactly while it is inside pthread_mutex_lock.
CallOK ==
    /\ \A t \in Thread : target[t] \in Thread <=> pc[t] \in JoinPc
    /\ \A t \in Thread : mutex[t] \in Mutex <=> pc[t] \in LockPc

\* The slot's state agrees with where the thread is.  Before the first
\* pthread_create the main thread runs although its slot is FREE.
MainUnborn == state[0] = "FREE" /\ pc[0] # "dead"

PcState ==
    /\ \A t \in Thread : pc[t] = "dead" => state[t] \in {"FREE", "ZOMBIE"}
    /\ \A t \in Thread : pc[t] # "dead" =>
          \/ state[t] \in {"READY", "RUNNING", "BLOCKED"}
          \/ t = 0 /\ MainUnborn
    /\ \A t \in Thread : state[t] = "RUNNING" => t = current_thread
    /\ state[current_thread] # "READY"
    /\ \A t \in Thread : state[t] = "BLOCKED" =>
          pc[t] \in {"join_yield", "join_test", "lock", "lock_yield"}
    /\ MainUnborn =>
          /\ current_thread = 0
          /\ threading_inited = 0
          /\ \A t \in Thread \ {0} : state[t] = "FREE"

\* A thread in the queue of a mutex is blocked in pthread_mutex_lock on it.
QueueOK ==
    \A m \in Mutex : \A w \in Waiting(m) :
       mutex[w] = m /\ state[w] = "BLOCKED"

\* A thread that joins is the only one to join its target, which keeps its
\* slot and, until it exits, the thread as its join_waiter.
JoinOK ==
    /\ \A t, u \in Thread : target[t] \in Thread /\ target[t] = target[u] => t = u
    /\ \A t \in Thread : target[t] \in Thread =>
          /\ state[target[t]] # "FREE"
          /\ pc[t] \in {"join_yield", "join_test"} => join_waiter[target[t]] = t
          /\ pc[t] \in {"join_read", "join_free"} => state[target[t]] = "ZOMBIE"
          /\ pc[t] = "join_free" => collected[t] = retval[target[t]]

\* The join_waiter of a live thread is a thread that waits for it (or the
\* zero of the untouched table, for a main thread that never created one).
JoinWaiterOK ==
    \A x \in Thread : pc[x] # "dead" =>
       \/ join_waiter[x] \in {NoThread, x}
       \/ /\ target[join_waiter[x]] = x
          /\ pc[join_waiter[x]] \in {"join_yield", "join_test"}

\* A thread is blocked for a reason: it is queued, or its target lives.
BlockedOK ==
    \A t \in Thread : state[t] = "BLOCKED" =>
       /\ pc[t] \in LockPc => t \in Waiting(mutex[t])
       /\ pc[t] \in JoinPc => state[target[t]] # "ZOMBIE"

\* A blocked thread gets through pthread_yield only if nobody can run.
SpinOK ==
    /\ pc[current_thread] \in {"lock", "join_test"}
    /\ state[current_thread] = "BLOCKED"
    => Runnable = {}

IInv ==
    /\ TypeOK
    /\ CallOK
    /\ PcState
    /\ QueueOK
    /\ JoinOK
    /\ JoinWaiterOK
    /\ BlockedOK
    /\ SpinOK
    /\ NoLostWakeup
    /\ QueuedOnce

LEMMA ThreadFacts ==
    /\ 0 \in Thread
    /\ \A t \in Thread : t \in Int /\ t # NoThread
    /\ NoThread \notin Thread
  BY SMTT(30) DEF Thread, NoThread

\* The types that most steps need.
LEMMA CoreTypes ==
    ASSUME TypeOK
    PROVE  /\ current_thread \in Thread
           /\ state \in [Thread -> State]
           /\ pc \in [Thread -> Pc]
           /\ target \in [Thread -> Thread \cup {NoThread}]
           /\ mutex \in [Thread -> Mutex \cup {NULL}]
           /\ join_waiter \in [Thread -> Thread \cup {NoThread}]
           /\ locked \in [Mutex -> {0, 1}]
  BY DEF TypeOK

\* What scheduler() does to the table: at most the running thread becomes
\* READY and one READY thread RUNNING; nothing else moves.
LEMMA SchedulerEffect ==
    ASSUME TypeOK, scheduler
    PROVE  /\ current_thread' \in Thread
           /\ IF_' \in {0, 1}
           /\ state' \in [Thread -> State]
           /\ \A t \in Thread :
                 \/ state'[t] = state[t]
                 \/ t = current_thread /\ current_thread' # t
                       /\ state[t] = "RUNNING" /\ state'[t] = "READY"
                 \/ t = current_thread' /\ current_thread # t
                       /\ state[t] \in {"READY", "RUNNING"}
                       /\ state'[t] = "RUNNING"
           /\ \/ /\ current_thread' = current_thread
                 /\ state' = state
                 /\ IF_' = 1
              \/ /\ current_thread' # current_thread
                 /\ state[current_thread'] \in {"READY", "RUNNING"}
                 /\ state'[current_thread'] = "RUNNING"
                 /\ state'[current_thread] # "RUNNING"
                 /\ IF_' = IF pc[current_thread'] = "start" THEN 0 ELSE 1
  BY SMTT(30) DEF scheduler, TypeOK, State, Runnable, sti, FirstInScan

\* Where pthread_yield returns to.
LEMMA AfterYieldCases ==
    ASSUME pthread_yield, TypeOK
    PROVE  \/ /\ pc[current_thread] \in {"start", "user"}
              /\ Goto("user")
           \/ /\ pc[current_thread] = "join_yield"
              /\ Goto("join_test")
           \/ /\ pc[current_thread] = "lock_yield"
              /\ Goto("lock")
           \/ /\ pc[current_thread] = "dead"
              /\ Goto("dead")
  BY SMTT(30) DEF pthread_yield, AfterYield

LEMMA TakeType ==
    ASSUME TypeOK, NEW m \in Mutex, Take(m)
    PROVE  /\ locked' \in [Mutex -> {0, 1}]
           /\ owner' \in [Mutex -> Thread \cup {NoThread}]
           /\ held' \in [Thread -> SUBSET Mutex]
<1>1. held[current_thread] \cup {m} \in SUBSET Mutex
  BY DEF TypeOK
<1> QED
  BY <1>1 DEF Take, TypeOK

LEMMA TypeInit == Init => TypeOK /\ CallOK
  BY ThreadFacts, SMTT(30) DEF Init, TypeOK, CallOK, State, Pc, JoinPc, LockPc

LEMMA TypeStep ==
    ASSUME TypeOK, CallOK, [Next]_vars
    PROVE  TypeOK'
<1> USE ThreadFacts
<1>1. CASE timer_isr
  BY <1>1, SchedulerEffect
  DEF timer_isr, TypeOK, mutexVars, callVars
<1>2. CASE pthread_yield
  <2>1. pc' \in [Thread -> Pc]
    <3>1. PICK l \in Pc : Goto(l)
      BY <1>2, AfterYieldCases DEF Pc
    <3>2. pc \in [Thread -> Pc]
      BY DEF TypeOK
    <3> QED
      BY <3>1, <3>2 DEF Goto
  <2> QED
    BY <1>2, <2>1, SchedulerEffect
    DEF pthread_yield, TypeOK, mutexVars, callVars
<1>3. CASE pthread_create \/ pthread_create_EAGAIN \/ pthread_create_ENOMEM
  <2>1. /\ InitedState \in [Thread -> State]
        /\ InitedRetval \in [Thread -> Value \cup {NULL}]
        /\ InitedJoinWaiter \in [Thread -> Thread \cup {NoThread}]
    BY DEF InitedState, InitedRetval, InitedJoinWaiter, TypeOK, State
  <2>2. CASE pthread_create
    BY <2>1, <2>2 DEF pthread_create, CreateCall, TypeOK, callVars, Pc, State, sti
  <2>3. CASE pthread_create_EAGAIN
    BY <2>1, <2>3
    DEF pthread_create_EAGAIN, CreateCall, TypeOK, callVars, Goto, Pc, sti
  <2>4. CASE pthread_create_ENOMEM
    BY <2>1, <2>4, SMTT(30)
    DEF pthread_create_ENOMEM, CreateCall, TypeOK, callVars, Goto, Pc, sti
  <2> QED
    BY <1>3, <2>2, <2>3, <2>4
<1>4. ASSUME NEW v \in Value, pthread_exit(v)
      PROVE  TypeOK'
  BY <1>4 DEF pthread_exit, TypeOK, callVars, Goto, Pc, State, sti
<1>5. CASE dosthread_shutdown
  BY <1>5 DEF dosthread_shutdown, TypeOK, threadVars, mutexVars, callVars,
              Goto, Pc, sti
<1>6. ASSUME NEW x \in Thread, pthread_join_check(x)
      PROVE  TypeOK'
  BY <1>6 DEF pthread_join_check, TypeOK, threadVars, mutexVars, Goto, Pc
<1>7. CASE pthread_join_enter
  BY <1>7 DEF pthread_join_enter, JoinWhile, TypeOK, mutexVars, callVars, Goto, Pc,
      State, sti
<1>8. CASE pthread_join_retest
  BY <1>8 DEF pthread_join_retest, JoinWhile, TypeOK, mutexVars, callVars, Goto, Pc,
      State, sti
<1>9. CASE pthread_join_read
  <2>1. target[current_thread] \in Thread
    BY <1>9 DEF pthread_join_read, At, CallOK, TypeOK, JoinPc
  <2> QED
    BY <1>9, <2>1
    DEF pthread_join_read, TypeOK, threadVars, mutexVars, Goto, Pc
<1>10. CASE pthread_join_free
  BY <1>10 DEF pthread_join_free, TypeOK, mutexVars, Goto, Pc, State, sti
<1>11. CASE pthread_mutex_lock
  <2>1. mutex[current_thread] \in Mutex
    BY <1>11 DEF pthread_mutex_lock, At, CallOK, TypeOK, LockPc
  <2> DEFINE m == mutex[current_thread]
  <2>2. CASE locked[m] = 0
    <3>1. /\ Take(m)
          /\ mutex' = [mutex EXCEPT ![current_thread] = NULL]
          /\ Goto("user")
          /\ UNCHANGED <<state, waiters>>
      BY <1>11, <2>2, SMTT(30) DEF pthread_mutex_lock
    <3> QED
      BY <1>11, <2>1, <3>1, TakeType
      DEF pthread_mutex_lock, TypeOK, Goto, Pc, sti
  <2>3. CASE locked[m] # 0
    <3>1. /\ waiters' = IF Len(waiters[m]) < MAX_THREADS
                        THEN [waiters EXCEPT ![m] = Append(@, current_thread)]
                        ELSE waiters
          /\ state' = [state EXCEPT ![current_thread] = "BLOCKED"]
          /\ Goto("lock_yield")
          /\ UNCHANGED <<locked, owner, held, mutex>>
      BY <1>11, <2>3 DEF pthread_mutex_lock
    <3>2. waiters' \in [Mutex -> Seq(Thread)]
      <4>1. waiters \in [Mutex -> Seq(Thread)] /\ current_thread \in Thread
        BY DEF TypeOK
      <4>2. Append(waiters[m], current_thread) \in Seq(Thread)
        BY <2>1, <4>1, SMTT(30)
      <4> HIDE DEF m
      <4> QED
        BY <2>1, <3>1, <4>1, <4>2
    <3> QED
      BY <1>11, <3>1, <3>2
      DEF pthread_mutex_lock, TypeOK, Goto, Pc, State, sti
  <2> QED
    BY <2>2, <2>3
<1>12. ASSUME NEW m \in Mutex, pthread_mutex_init(m)
       PROVE  TypeOK'
  BY <1>12, SMTT(30) DEF pthread_mutex_init, TypeOK, threadVars, callVars
<1>13. ASSUME NEW m \in Mutex, pthread_mutex_destroy(m)
       PROVE  TypeOK'
  BY <1>13 DEF pthread_mutex_destroy, TypeOK, threadVars, callVars
<1>14. ASSUME NEW m \in Mutex, pthread_mutex_lock_call(m)
       PROVE  TypeOK'
  BY <1>14
  DEF pthread_mutex_lock_call, TypeOK, threadVars, mutexVars, Goto, Pc
<1>15. ASSUME NEW m \in Mutex, pthread_mutex_trylock(m)
       PROVE  TypeOK'
  <2>1. CASE locked[m] = 1
    BY <1>15, <2>1
    DEF pthread_mutex_trylock, TypeOK, threadVars, callVars, Goto, Pc, sti
  <2>2. CASE locked[m] # 1
    BY <1>15, <2>2, TakeType
    DEF pthread_mutex_trylock, TypeOK, threadVars, callVars, Goto, Pc, sti
  <2> QED
    BY <2>1, <2>2
<1>16. ASSUME NEW m \in Mutex, pthread_mutex_unlock(m)
       PROVE  TypeOK'
  <2>1. waiters[m] \in Seq(Thread)
    BY DEF TypeOK
  <2>2. CASE waiters[m] = <<>>
    BY <1>16, <2>2
    DEF pthread_mutex_unlock, TypeOK, callVars, Goto, Pc, sti
  <2>3. CASE waiters[m] # <<>>
    <3>1. Tail(waiters[m]) \in Seq(Thread)
      BY <2>1, <2>3, SMTT(30)
    <3>2. state' \in [Thread -> State]
      <4>1. Wake(Head(waiters[m]))
        BY <1>16, <2>3 DEF pthread_mutex_unlock
      <4>2. state \in [Thread -> State]
        BY DEF TypeOK
      <4> QED
        BY <4>1, <4>2 DEF Wake, State
    <3>3. held' \in [Thread -> SUBSET Mutex]
      BY <1>16 DEF pthread_mutex_unlock, TypeOK
    <3>4. waiters' = [waiters EXCEPT ![m] = Tail(@)]
      BY <1>16, <2>3 DEF pthread_mutex_unlock
    <3>5. waiters' \in [Mutex -> Seq(Thread)]
      <4>1. waiters \in [Mutex -> Seq(Thread)]
        BY DEF TypeOK
      <4> QED
        BY <3>1, <3>4, <4>1
    <3> QED
      BY <1>16, <3>2, <3>3, <3>5 DEF pthread_mutex_unlock, TypeOK, callVars, Goto, Pc, sti
  <2> QED
    BY <2>2, <2>3
<1>17. ASSUME NEW m \in Mutex, pthread_mutex_unlock_EPERM(m)
       PROVE  TypeOK'
  BY <1>17 DEF pthread_mutex_unlock_EPERM, TypeOK, threadVars, mutexVars,
               callVars, Goto, Pc, sti
<1>18. CASE UNCHANGED vars
  BY <1>18 DEF vars, TypeOK, threadVars, mutexVars, callVars
<1> QED
  BY <1>1, <1>2, <1>3, <1>4, <1>5, <1>6, <1>7, <1>8, <1>9, <1>10, <1>11,
     <1>12, <1>13, <1>14, <1>15, <1>16, <1>17, <1>18
  DEF Next, ThreadCall, MutexCall, LibraryStep

-----------------------------------------------------------------------------
(* Facts about the invariant that several steps use *)

\* A thread in application code is neither blocked nor exited.
LEMMA ClientState ==
    ASSUME TypeOK, PcState, InClient
    PROVE  \/ state[current_thread] = "RUNNING"
           \/ state[current_thread] = "FREE" /\ MainUnborn
  BY DEF InClient, TypeOK, PcState, MainUnborn

LEMMA ClientFacts ==
    ASSUME TypeOK, CallOK, PcState, InClient
    PROVE  /\ current_thread \in Thread
           /\ target[current_thread] = NoThread
           /\ mutex[current_thread] = NULL
           /\ \/ state[current_thread] = "RUNNING"
              \/ state[current_thread] = "FREE" /\ MainUnborn
<1>1. target[current_thread] = NoThread /\ mutex[current_thread] = NULL
  BY ThreadFacts DEF InClient, TypeOK, CallOK, JoinPc, LockPc
<1> QED
  BY <1>1, ClientState DEF TypeOK

\* The slot pthread_create takes has no thread.
LEMMA FreeSlotFacts ==
    ASSUME TypeOK, PcState, InClient, threading_inited = 1 \/ ClientAlone,
           NEW id \in Thread, FreeSlot(id)
    PROVE  /\ id # 0 /\ id # current_thread
           /\ state[id] = "FREE" /\ pc[id] = "dead"
  BY ThreadFacts DEF FreeSlot, InitedState, PcState, InClient, TypeOK, ClientAlone

\* Re-initialising the table changes nothing but the main thread's slot.
LEMMA InitedFacts ==
    ASSUME TypeOK, PcState, InClient, threading_inited = 1 \/ ClientAlone
    PROVE  /\ InitedState = [state EXCEPT ![current_thread] = "RUNNING"]
           /\ threading_inited # 1 => current_thread = 0
<1>1. state \in [Thread -> State] /\ current_thread \in Thread
  BY DEF TypeOK
<1>2. CASE threading_inited = 1
  <2>1. InitedState = state
    BY <1>2 DEF InitedState
  <2>2. state[current_thread] = "RUNNING"
    BY <1>2, ClientState, SMTT(30) DEF PcState
  <2> QED
    BY <1>1, <1>2, <2>1, <2>2
<1>3. CASE threading_inited # 1
  <2>1. current_thread = 0 /\ \A t \in Thread \ {0} : state[t] = "FREE"
    BY <1>3 DEF ClientAlone
  <2>2. InitedState = [t \in Thread |-> IF t = 0 THEN "RUNNING" ELSE "FREE"]
    BY <1>3 DEF InitedState
  <2> QED
    BY <1>1, <2>1, <2>2, ZenonT(30)
<1> QED
  BY <1>2, <1>3

\* A thread that finds its mutex free is not marked blocked.
LEMMA FreeMutexTaker ==
    ASSUME TypeOK, CallOK, BlockedOK, SpinOK, NoLostWakeup,
           pc[current_thread] = "lock", locked[mutex[current_thread]] = 0
    PROVE  state[current_thread] # "BLOCKED"
<1> SUFFICES ASSUME state[current_thread] = "BLOCKED"
             PROVE  FALSE
  OBVIOUS
<1>1. mutex[current_thread] \in Mutex
  BY CoreTypes DEF CallOK, LockPc
<1>2. waiters[mutex[current_thread]] # <<>>
  BY CoreTypes, SMTT(30) DEF BlockedOK, LockPc, Waiting
<1>3. Runnable = {}
  BY DEF SpinOK
<1> QED
  BY <1>1, <1>2, <1>3, SMTT(30) DEF NoLostWakeup, Runnable

-----------------------------------------------------------------------------
(* One lemma per conjunct of the invariant *)

LEMMA CallOKStep ==
    ASSUME TypeOK, CallOK, PcState, [Next]_vars
    PROVE  CallOK'
<1> USE ThreadFacts DEF CallOK, JoinPc, LockPc
<1>1. CASE timer_isr \/ UNCHANGED vars
  BY <1>1 DEF timer_isr, callVars, vars
<1>2. CASE pthread_yield
  BY <1>2, AfterYieldCases, SMTT(30) DEF pthread_yield, callVars, Goto, TypeOK
<1>3. CASE pthread_create
  <2>1. PICK id \in Thread :
           /\ FreeSlot(id)
           /\ pc' = [pc EXCEPT ![current_thread] = "user", ![id] = "start"]
    BY <1>3 DEF pthread_create
  <2>2. InClient /\ pc[id] = "dead"
    BY <1>3, <2>1, FreeSlotFacts DEF pthread_create, CreateCall
  <2> QED
    BY <1>3, <2>1, <2>2, ZenonT(30)
    DEF pthread_create, CreateCall, callVars, TypeOK, InClient
<1>4. CASE pthread_create_EAGAIN \/ pthread_create_ENOMEM \/ dosthread_shutdown
  BY <1>4 DEF pthread_create_EAGAIN, pthread_create_ENOMEM, dosthread_shutdown,
      CreateCall, callVars, TypeOK, InClient, Goto
<1>5. ASSUME NEW v \in Value, pthread_exit(v)
      PROVE  CallOK'
  BY <1>5 DEF pthread_exit, callVars, TypeOK, InClient, Goto
<1>6. ASSUME NEW x \in Thread, pthread_join_check(x)
      PROVE  CallOK'
  BY <1>6 DEF pthread_join_check, TypeOK, InClient, Goto
<1>7. CASE pthread_join_enter \/ pthread_join_retest
  <2>1. /\ pc[current_thread] \in {"join", "join_test"}
        /\ Goto("join_yield") \/ Goto("join_read")
        /\ UNCHANGED callVars
    BY <1>7 DEF pthread_join_enter, pthread_join_retest, JoinWhile, At
  <2> QED
    BY <2>1, ZenonT(30) DEF callVars, TypeOK, Goto
<1>8. CASE pthread_join_read
  BY <1>8 DEF pthread_join_read, TypeOK, At, Goto
<1>9. CASE pthread_join_free
  BY <1>9, SMTT(30) DEF pthread_join_free, TypeOK, At, Goto
<1>10. CASE pthread_mutex_lock
  <2>1. /\ pc[current_thread] = "lock"
        /\ \/ Goto("lock_yield") /\ UNCHANGED mutex
           \/ Goto("user") /\ mutex' = [mutex EXCEPT ![current_thread] = NULL]
        /\ UNCHANGED target
    BY <1>10 DEF pthread_mutex_lock, At
  <2>2. CASE Goto("lock_yield") /\ UNCHANGED mutex
    BY <2>1, <2>2 DEF TypeOK, Goto
  <2>3. CASE /\ Goto("user")
             /\ mutex' = [mutex EXCEPT ![current_thread] = NULL]
    BY <2>1, <2>3, SMTT(30) DEF TypeOK, Goto
  <2> QED
    BY <2>1, <2>2, <2>3
<1>11. ASSUME NEW m \in Mutex, pthread_mutex_lock_call(m)
       PROVE  CallOK'
  BY <1>11 DEF pthread_mutex_lock_call, TypeOK, InClient, Goto
<1>12. ASSUME NEW m \in Mutex,
              pthread_mutex_init(m) \/ pthread_mutex_destroy(m)
       PROVE  CallOK'
  BY <1>12 DEF pthread_mutex_init, pthread_mutex_destroy, callVars
<1>13. ASSUME NEW m \in Mutex,
              \/ pthread_mutex_trylock(m)
              \/ pthread_mutex_unlock(m)
              \/ pthread_mutex_unlock_EPERM(m)
       PROVE  CallOK'
  BY <1>13, ZenonT(30)
  DEF pthread_mutex_trylock, pthread_mutex_unlock, pthread_mutex_unlock_EPERM,
      callVars, TypeOK, InClient, Goto
<1> QED
  BY <1>1, <1>2, <1>3, <1>4, <1>5, <1>6, <1>7, <1>8, <1>9, <1>10, <1>11,
     <1>12, <1>13
  DEF Next, ThreadCall, MutexCall, LibraryStep

LEMMA PcStateStep ==
    ASSUME TypeOK, CallOK, PcState, JoinOK, BlockedOK, SpinOK, NoLostWakeup,
           [Next]_vars
    PROVE  PcState'
<1> USE ThreadFacts DEF MainUnborn
<1>1. CASE timer_isr
  <2>1. pc' = pc /\ threading_inited' = threading_inited
    BY <1>1 DEF timer_isr
  <2>2. scheduler
    BY <1>1 DEF timer_isr
  <2> QED
    BY <2>1, <2>2, SchedulerEffect DEF PcState, TypeOK
<1>2. CASE pthread_yield
  <2>1. /\ threading_inited' = threading_inited
        /\ scheduler
    BY <1>2 DEF pthread_yield
  <2>2. \A t \in Thread :
           /\ pc'[t] = "dead" <=> pc[t] = "dead"
           /\ pc[t] \in {"join_yield", "join_test", "lock", "lock_yield"} =>
                 pc'[t] \in {"join_yield", "join_test", "lock", "lock_yield"}
    BY <1>2, AfterYieldCases DEF Goto, TypeOK
  <2> QED
    BY <2>1, <2>2, SchedulerEffect, ZenonT(30) DEF PcState, TypeOK
<1>3. CASE pthread_create
  <2>1. PICK id \in Thread :
           /\ FreeSlot(id)
           /\ state' = [InitedState EXCEPT ![id] = "READY"]
           /\ pc' = [pc EXCEPT ![current_thread] = "user", ![id] = "start"]
    BY <1>3 DEF pthread_create
  <2>2. /\ InClient
        /\ threading_inited = 1 \/ ClientAlone
        /\ current_thread' = current_thread
    BY <1>3, InitedFacts DEF pthread_create, CreateCall, ClientAlone
  <2>3. InitedState = [state EXCEPT ![current_thread] = "RUNNING"]
    BY <2>2, InitedFacts
  <2>4. /\ id # 0 /\ id # current_thread
        /\ state[id] = "FREE" /\ pc[id] = "dead"
    BY <2>1, <2>2, FreeSlotFacts
  <2>5. state' = [state EXCEPT ![current_thread] = "RUNNING", ![id] = "READY"]
    BY <2>1, <2>3
  <2>6. current_thread # 0 => ~MainUnborn
    BY DEF PcState
  <2>7. ~MainUnborn'
    BY <2>1, <2>4, <2>5, <2>6 DEF TypeOK
  <2>8. \A t \in Thread \ {id, current_thread} :
           state'[t] = state[t] /\ pc'[t] = pc[t]
    BY <2>1, <2>5 DEF TypeOK
  <2>9. /\ state'[id] = "READY" /\ pc'[id] = "start"
        /\ state'[current_thread] = "RUNNING" /\ pc'[current_thread] = "user"
    BY <2>1, <2>4, <2>5 DEF TypeOK
  <2>10. current_thread \in Thread
    BY DEF TypeOK
  <2> HIDE DEF MainUnborn
  <2> QED
    BY <2>2, <2>4, <2>6, <2>7, <2>8, <2>9, <2>10, SMTT(30) DEF PcState
<1>4. CASE pthread_create_EAGAIN \/ pthread_create_ENOMEM
  <2>1. /\ InClient
        /\ threading_inited = 1 \/ ClientAlone
        /\ current_thread' = current_thread
        /\ state' = InitedState
        /\ Goto("user")
    BY <1>4
    DEF pthread_create_EAGAIN, pthread_create_ENOMEM, CreateCall, ClientAlone
  <2>2. state' = [state EXCEPT ![current_thread] = "RUNNING"]
    BY <2>1, InitedFacts
  <2>3. current_thread # 0 => ~MainUnborn
    BY DEF PcState
  <2> QED
    BY <2>1, <2>2, <2>3, SMTT(30) DEF PcState, TypeOK, InClient, Goto
<1>5. ASSUME NEW v \in Value, pthread_exit(v)
      PROVE  PcState'
  BY <1>5, SMTT(30) DEF pthread_exit, PcState, TypeOK, InClient, Goto
<1>6. CASE dosthread_shutdown
  BY <1>6 DEF dosthread_shutdown, threadVars, PcState, TypeOK, InClient, Goto
<1>7. ASSUME NEW x \in Thread, pthread_join_check(x)
      PROVE  PcState'
  BY <1>7, SMTT(30) DEF pthread_join_check, threadVars, PcState, TypeOK, InClient, Goto
<1>8. CASE pthread_join_enter \/ pthread_join_retest
  <2>1. /\ pc[current_thread] \in {"join", "join_test"}
        /\ \/ /\ state' = [state EXCEPT ![current_thread] = "BLOCKED"]
              /\ Goto("join_yield")
           \/ /\ state[target[current_thread]] = "ZOMBIE"
              /\ Goto("join_read")
              /\ UNCHANGED state
        /\ UNCHANGED <<threading_inited, current_thread>>
    BY <1>8 DEF pthread_join_enter, pthread_join_retest, JoinWhile, At
  <2>2. CASE state' = state
    <3>1. state[current_thread] # "BLOCKED" \/ Goto("join_yield")
      BY <2>1, <2>2 DEF BlockedOK, TypeOK, JoinPc
    <3>2. /\ \A t \in Thread \ {current_thread} : pc'[t] = pc[t]
          /\ pc'[current_thread] \in {"join_yield", "join_read"}
          /\ state[current_thread] = "BLOCKED" =>
                pc'[current_thread] = "join_yield"
      BY <2>1, <3>1 DEF TypeOK, Goto
    <3>3. current_thread \in Thread
      BY DEF TypeOK
    <3>4. pc[current_thread] # "dead"
      BY <2>1
    <3> QED
      BY <2>1, <2>2, <3>2, <3>3, <3>4 DEF PcState
  <2>3. CASE /\ state' = [state EXCEPT ![current_thread] = "BLOCKED"]
             /\ Goto("join_yield")
    BY <2>1, <2>3, SMTT(30) DEF PcState, TypeOK, Goto
  <2> QED
    BY <2>1, <2>2, <2>3
<1>9. CASE pthread_join_read
  BY <1>9, SMTT(30) DEF pthread_join_read, threadVars, PcState, TypeOK, At, Goto
<1>10. CASE pthread_join_free
  <2> DEFINE x == target[current_thread]
  <2>1. /\ pc[current_thread] = "join_free"
        /\ state' = [state EXCEPT ![x] = "FREE"]
        /\ Goto("user")
        /\ UNCHANGED <<threading_inited, current_thread>>
    BY <1>10 DEF pthread_join_free, At
  <2>2. x \in Thread /\ state[x] = "ZOMBIE"
    BY <2>1, CoreTypes DEF CallOK, JoinOK, JoinPc
  <2>3. pc[x] = "dead" /\ x # current_thread
    BY <2>1, <2>2, CoreTypes DEF PcState
  <2> HIDE DEF x
  <2> QED
    BY <2>1, <2>2, <2>3, CoreTypes DEF PcState, Goto
<1>11. CASE pthread_mutex_lock
  <2>1. /\ pc[current_thread] = "lock"
        /\ \/ /\ state' = [state EXCEPT ![current_thread] = "BLOCKED"]
              /\ Goto("lock_yield")
           \/ /\ locked[mutex[current_thread]] = 0
              /\ Goto("user")
              /\ UNCHANGED state
        /\ UNCHANGED <<threading_inited, current_thread>>
    BY <1>11 DEF pthread_mutex_lock, At
  <2>2. CASE /\ state' = [state EXCEPT ![current_thread] = "BLOCKED"]
             /\ Goto("lock_yield")
    BY <2>1, <2>2, CoreTypes, SMTT(30) DEF PcState, Goto
  <2>3. CASE /\ locked[mutex[current_thread]] = 0
             /\ Goto("user")
             /\ UNCHANGED state
    <3>1. state[current_thread] # "BLOCKED"
      BY <2>1, <2>3, FreeMutexTaker
    <3> QED
      BY <2>1, <2>3, <3>1, CoreTypes DEF PcState, Goto
  <2> QED
    BY <2>1, <2>2, <2>3
<1>12. ASSUME NEW m \in Mutex, pthread_mutex_lock_call(m)
       PROVE  PcState'
  <2>1. /\ InClient
        /\ Goto("lock")
        /\ UNCHANGED <<threading_inited, current_thread, state>>
    BY <1>12 DEF pthread_mutex_lock_call, threadVars
  <2> QED
    BY <2>1, CoreTypes DEF PcState, InClient, Goto
<1>13. ASSUME NEW m \in Mutex,
              pthread_mutex_init(m) \/ pthread_mutex_destroy(m)
       PROVE  PcState'
  BY <1>13 DEF pthread_mutex_init, pthread_mutex_destroy, threadVars, PcState
<1>14. ASSUME NEW m \in Mutex,
              pthread_mutex_trylock(m) \/ pthread_mutex_unlock_EPERM(m)
       PROVE  PcState'
  <2>1. /\ InClient
        /\ Goto("user")
        /\ UNCHANGED <<threading_inited, current_thread, state>>
    BY <1>14
    DEF pthread_mutex_trylock, pthread_mutex_unlock_EPERM, threadVars
  <2> QED
    BY <2>1, CoreTypes DEF PcState, InClient, Goto
<1>15. ASSUME NEW m \in Mutex, pthread_mutex_unlock(m)
       PROVE  PcState'
  <2>1. /\ InClient
        /\ Goto("user")
        /\ UNCHANGED <<threading_inited, current_thread>>
    BY <1>15 DEF pthread_mutex_unlock
  <2>2. CASE UNCHANGED state
    BY <2>1, <2>2, CoreTypes DEF PcState, InClient, Goto
  <2>3. CASE Wake(Head(waiters[m]))
    <3> DEFINE w == Head(waiters[m])
    <3>1. state' = [state EXCEPT ![w] = IF @ = "BLOCKED" THEN "READY" ELSE @]
      BY <2>3 DEF Wake
    <3> HIDE DEF w
    <3>2. \A t \in Thread :
             \/ state'[t] = state[t]
             \/ state[t] = "BLOCKED" /\ state'[t] = "READY"
      BY <3>1, CoreTypes
    <3> QED
      BY <2>1, <3>2, CoreTypes, SMTT(30) DEF PcState, InClient, Goto
  <2> QED
    BY <1>15, <2>2, <2>3 DEF pthread_mutex_unlock
<1>16. CASE UNCHANGED vars
  BY <1>16 DEF vars, threadVars, PcState
<1> QED
  BY <1>1, <1>2, <1>3, <1>4, <1>5, <1>6, <1>7, <1>8, <1>9, <1>10, <1>11,
     <1>12, <1>13, <1>14, <1>15, <1>16
  DEF Next, ThreadCall, MutexCall, LibraryStep

\* Once nobody can run, no step changes the thread table again.
LEMMA StuckStep ==
    ASSUME IInv, Stuck, [Next]_vars
    PROVE  state' = state /\ current_thread' = current_thread
<1> USE DEF IInv
<1>1. ~InClient
  BY ClientState DEF Stuck
<1>2. ~ThreadCall /\ ~MutexCall
  BY <1>1
  DEF ThreadCall, MutexCall, pthread_create, pthread_create_EAGAIN,
      pthread_create_ENOMEM, CreateCall, pthread_exit, dosthread_shutdown,
      pthread_join_check, pthread_mutex_init, pthread_mutex_destroy,
      pthread_mutex_lock_call, pthread_mutex_trylock, pthread_mutex_unlock,
      pthread_mutex_unlock_EPERM
<1>3. CASE timer_isr \/ pthread_yield
  BY <1>3 DEF timer_isr, pthread_yield, scheduler, Stuck, FirstInScan
<1>4. ASSUME state[current_thread] = "BLOCKED",
             state' = [state EXCEPT ![current_thread] = "BLOCKED"]
      PROVE  state' = state
  BY <1>4, CoreTypes
<1>5. pc[current_thread] # "dead" => state[current_thread] = "BLOCKED"
  BY CoreTypes DEF PcState, Stuck, MainUnborn
<1>6. CASE pthread_join_enter \/ pthread_join_retest
  BY <1>4, <1>5, <1>6 DEF pthread_join_enter, pthread_join_retest, JoinWhile, At
<1>7. CASE pthread_join_read
  BY <1>7 DEF pthread_join_read, threadVars
<1>8. ~pthread_join_free
  BY <1>5, CoreTypes DEF pthread_join_free, At, PcState
<1>9. CASE pthread_mutex_lock
  BY <1>4, <1>5, <1>9 DEF pthread_mutex_lock, At
<1>10. CASE UNCHANGED vars
  BY <1>10, SMTT(30) DEF vars, threadVars
<1> QED
  BY <1>2, <1>3, <1>6, <1>7, <1>8, <1>9, <1>10 DEF Next, LibraryStep

\* Two calls end another thread's wait: pthread_exit and pthread_mutex_unlock.
LEMMA UnblockEffect ==
    ASSUME IInv, [Next]_vars, NEW t \in Thread,
           state[t] = "BLOCKED", state'[t] # "BLOCKED"
    PROVE  \/ /\ \E v \in Value : pthread_exit(v)
              /\ t = join_waiter[current_thread]
              /\ t # current_thread
           \/ \E m \in Mutex : /\ pthread_mutex_unlock(m)
                               /\ waiters[m] # <<>>
                               /\ t = Head(waiters[m])
<1> USE DEF IInv
<1>1. CASE timer_isr \/ pthread_yield
  <2>1. scheduler
    BY <1>1 DEF timer_isr, pthread_yield
  <2> QED
    BY <2>1, SchedulerEffect
<1>2. CASE pthread_create
  <2>1. PICK id \in Thread :
           /\ FreeSlot(id)
           /\ state' = [InitedState EXCEPT ![id] = "READY"]
    BY <1>2 DEF pthread_create
  <2>2. InClient /\ (threading_inited = 1 \/ ClientAlone)
    BY <1>2 DEF pthread_create, CreateCall
  <2> QED
    BY <2>1, <2>2, InitedFacts, FreeSlotFacts, ClientState, CoreTypes
<1>3. CASE pthread_create_EAGAIN \/ pthread_create_ENOMEM
  <2>1. /\ InClient /\ (threading_inited = 1 \/ ClientAlone)
        /\ state' = InitedState
    BY <1>3 DEF pthread_create_EAGAIN, pthread_create_ENOMEM, CreateCall
  <2> QED
    BY <2>1, InitedFacts, ClientState, CoreTypes
<1>4. ASSUME NEW v \in Value, pthread_exit(v)
      PROVE  t = join_waiter[current_thread] /\ t # current_thread
  BY <1>4, ClientState DEF pthread_exit
<1>5. CASE dosthread_shutdown \/ \E x \in Thread : pthread_join_check(x)
  BY <1>5 DEF dosthread_shutdown, pthread_join_check, threadVars
<1>6. CASE pthread_join_enter \/ pthread_join_retest
  BY <1>6, CoreTypes, SMTT(30)
  DEF pthread_join_enter, pthread_join_retest, JoinWhile
<1>7. CASE pthread_join_read
  BY <1>7 DEF pthread_join_read, threadVars
<1>8. CASE pthread_join_free
  BY <1>8, CoreTypes DEF pthread_join_free, JoinOK, CallOK, At, JoinPc
<1>9. CASE pthread_mutex_lock
  BY <1>9, CoreTypes DEF pthread_mutex_lock
<1>10. ASSUME NEW m \in Mutex,
              \/ pthread_mutex_init(m)
              \/ pthread_mutex_destroy(m)
              \/ pthread_mutex_lock_call(m)
              \/ pthread_mutex_trylock(m)
              \/ pthread_mutex_unlock_EPERM(m)
       PROVE  FALSE
  BY <1>10
  DEF pthread_mutex_init, pthread_mutex_destroy, pthread_mutex_lock_call,
      pthread_mutex_trylock, pthread_mutex_unlock_EPERM, threadVars
<1>11. ASSUME NEW m \in Mutex, pthread_mutex_unlock(m)
       PROVE  waiters[m] # <<>> /\ t = Head(waiters[m])
  <2>1. IF waiters[m] # <<>> THEN Wake(Head(waiters[m])) ELSE state' = state
    BY <1>11 DEF pthread_mutex_unlock
  <2> QED
    BY <2>1, CoreTypes DEF Wake
<1>12. CASE UNCHANGED vars
  BY <1>12, SMTT(30) DEF vars, threadVars
<1> QED
  BY <1>1, <1>2, <1>3, <1>4, <1>5, <1>6, <1>7, <1>8, <1>9, <1>10, <1>11, <1>12
  DEF Next, ThreadCall, MutexCall, LibraryStep

\* Only pthread_mutex_lock, _unlock and _init touch a queue.
LEMMA WaitersEffect ==
    ASSUME [Next]_vars
    PROVE  \/ waiters' = waiters
           \/ pthread_mutex_lock
           \/ \E m \in Mutex : pthread_mutex_unlock(m) \/ pthread_mutex_init(m)
  BY ZenonT(30)
  DEF Next, ThreadCall, MutexCall, LibraryStep, vars, mutexVars, timer_isr,
      pthread_yield, pthread_create, pthread_create_EAGAIN,
      pthread_create_ENOMEM, CreateCall, pthread_exit, dosthread_shutdown,
      pthread_join_check, pthread_join_enter, pthread_join_retest, JoinWhile,
      pthread_join_read, pthread_join_free, pthread_mutex_destroy,
      pthread_mutex_lock_call, pthread_mutex_trylock,
      pthread_mutex_unlock_EPERM

\* Only pthread_mutex_lock changes the mutex a thread wants.
LEMMA MutexEffect ==
    ASSUME [Next]_vars
    PROVE  \/ mutex' = mutex
           \/ pthread_mutex_lock
           \/ \E m \in Mutex : pthread_mutex_lock_call(m)
  BY DEF Next, ThreadCall, MutexCall, LibraryStep, vars, callVars, timer_isr,
      pthread_yield, pthread_create, pthread_create_EAGAIN,
      pthread_create_ENOMEM, CreateCall, pthread_exit, dosthread_shutdown,
      pthread_join_check, pthread_join_enter, pthread_join_retest, JoinWhile,
      pthread_join_read, pthread_join_free, pthread_mutex_init,
      pthread_mutex_destroy, pthread_mutex_trylock, pthread_mutex_unlock,
      pthread_mutex_unlock_EPERM

\* Queues hold threads, and a queue longer than the table repeats one.
LEMMA WaitersType ==
    ASSUME TypeOK, NEW m \in Mutex
    PROVE  /\ waiters[m] \in Seq(Thread)
           /\ Len(waiters[m]) \in Nat
           /\ DOMAIN waiters[m] = 1 .. Len(waiters[m])
           /\ \A i \in DOMAIN waiters[m] : waiters[m][i] \in Thread
<1>1. waiters[m] \in Seq(Thread)
  BY DEF TypeOK
<1> QED
  BY <1>1, SMTT(30)

LEMMA QueueFits ==
    ASSUME TypeOK, NEW m \in Mutex, NEW c \in Thread,
           \A i \in DOMAIN waiters[m] : waiters[m][i] # c,
           \A i, j \in DOMAIN waiters[m] : waiters[m][i] = waiters[m][j] => i = j
    PROVE  Len(waiters[m]) < MAX_THREADS
<1> DEFINE q == waiters[m]
           n == Len(waiters[m])
<1>1. /\ q \in [1 .. n -> Thread \ {c}]
      /\ n \in Nat
      /\ \A i, j \in 1 .. n : q[i] = q[j] => i = j
  <2>1. q \in Seq(Thread) /\ n \in Nat /\ DOMAIN q = 1 .. n
    BY WaitersType
  <2>2. \A i \in 1 .. n : q[i] \in Thread \ {c}
    BY <2>1, SMTT(30)
  <2>3. q \in [1 .. n -> Thread]
    BY <2>1, SMTT(30)
  <2> QED
    BY <2>1, <2>2, <2>3
<1> HIDE DEF q, n
<1>2. q \in Injection(1 .. n, Thread \ {c})
  BY <1>1 DEF Injection, IsInjective
<1>3. /\ IsFiniteSet(Thread)
      /\ Cardinality(Thread) = MAX_THREADS
  BY FS_Interval, 0 \in Int, MAX_THREADS - 1 \in Int, SMTT(30) DEF Thread
<1>4. /\ IsFiniteSet(Thread \ {c})
      /\ Cardinality(Thread \ {c}) = MAX_THREADS - 1
  BY <1>3, FS_RemoveElement
<1>5. Cardinality(1 .. n) <= Cardinality(Thread \ {c})
  BY <1>2, <1>4, FS_Injection
<1>6. Cardinality(1 .. n) = n
  BY <1>1, FS_Interval, 1 \in Int, n \in Int, SMTT(30)
<1>7. n < MAX_THREADS
  BY <1>1, <1>4, <1>5, <1>6, SMTT(30)
<1> QED
  BY <1>7 DEF n

\* One turn of the loop of pthread_mutex_lock, with the room in the queue
\* that the invariant guarantees.
LEMMA LockEffect ==
    ASSUME IInv, pthread_mutex_lock
    PROVE  LET m == mutex[current_thread] IN
           /\ m \in Mutex
           /\ pc[current_thread] = "lock"
           /\ UNCHANGED <<current_thread, target, join_waiter, retval>>
           /\ \/ /\ locked[m] = 0
                 /\ Take(m)
                 /\ mutex' = [mutex EXCEPT ![current_thread] = NULL]
                 /\ Goto("user")
                 /\ state' = state
                 /\ waiters' = waiters
                 /\ state[current_thread] # "BLOCKED"
              \/ /\ locked[m] = 1
                 /\ state' = [state EXCEPT ![current_thread] = "BLOCKED"]
                 /\ Goto("lock_yield")
                 /\ UNCHANGED <<locked, owner, held, mutex>>
                 /\ \/ waiters' = [waiters EXCEPT ![m] =
                                      Append(waiters[m], current_thread)]
                    \/ waiters' = waiters /\ current_thread \in Waiting(m)
<1> USE DEF IInv
<1> DEFINE m == mutex[current_thread]
<1>1. /\ pc[current_thread] = "lock"
      /\ UNCHANGED <<current_thread, target, join_waiter, retval>>
  BY DEF pthread_mutex_lock, At
<1>2. m \in Mutex
  BY <1>1, CoreTypes DEF CallOK, LockPc
<1>3. CASE locked[m] = 0
  BY <1>1, <1>2, <1>3, FreeMutexTaker, SMTT(30) DEF pthread_mutex_lock
<1>4. CASE locked[m] = 1
  <2>1. /\ state' = [state EXCEPT ![current_thread] = "BLOCKED"]
        /\ Goto("lock_yield")
        /\ UNCHANGED <<locked, owner, held, mutex>>
        /\ waiters' = IF Len(waiters[m]) < MAX_THREADS
                      THEN [waiters EXCEPT ![m] =
                               Append(waiters[m], current_thread)]
                      ELSE waiters
    BY <1>4, <1>2, CoreTypes, SMTT(30) DEF pthread_mutex_lock
  <2>2. Len(waiters[m]) < MAX_THREADS \/ current_thread \in Waiting(m)
    <3> SUFFICES ASSUME current_thread \notin Waiting(m)
                 PROVE  Len(waiters[m]) < MAX_THREADS
      OBVIOUS
    <3>1. state[current_thread] # "BLOCKED"
      BY <1>1, CoreTypes DEF BlockedOK, LockPc
    <3>2. ~Stuck
      BY <1>1, <3>1, CoreTypes DEF Stuck, PcState, MainUnborn
    <3>3. \A i, j \in DOMAIN waiters[m] :
             waiters[m][i] = waiters[m][j] => i = j
      BY <1>2, <3>2 DEF QueuedOnce
    <3>4. \A i \in DOMAIN waiters[m] : waiters[m][i] # current_thread
      BY DEF Waiting
    <3> QED
      BY <1>2, <3>3, <3>4, QueueFits, CoreTypes
  <2> QED
    BY <1>1, <1>2, <1>4, <2>1, <2>2
<1> QED
  BY <1>1, <1>2, <1>3, <1>4, CoreTypes, ZenonT(30)

\* A waiter is queued in one queue, and never the thread that runs in a call
\* that is not pthread_mutex_lock.
LEMMA QueueMember ==
    ASSUME IInv, NEW m \in Mutex, NEW w \in Waiting(m)
    PROVE  /\ w \in Thread
           /\ mutex[w] = m
           /\ state[w] = "BLOCKED"
           /\ pc[w] \in LockPc
<1> USE DEF IInv
<1>1. w \in Thread
  BY WaitersType DEF Waiting
<1>2. mutex[w] = m /\ state[w] = "BLOCKED"
  BY DEF QueueOK
<1> QED
  BY <1>1, <1>2, CoreTypes DEF CallOK

LEMMA UnlockEffect ==
    ASSUME IInv, NEW m \in Mutex, pthread_mutex_unlock(m), waiters[m] # <<>>
    PROVE  LET w == Head(waiters[m]) IN
           /\ w \in Waiting(m)
           /\ w # current_thread
           /\ state' = [state EXCEPT ![w] = "READY"]
           /\ waiters' = [waiters EXCEPT ![m] = Tail(waiters[m])]
           /\ Waiting(m)' = Waiting(m) \ {w}
           /\ \A i, j \in DOMAIN waiters'[m] :
                 waiters'[m][i] = waiters'[m][j] => i = j
<1> USE DEF IInv
<1> DEFINE q == waiters[m]
           w == Head(waiters[m])
<1>1. /\ InClient
      /\ Wake(w)
      /\ waiters' = [waiters EXCEPT ![m] = Tail(q)]
  BY DEF pthread_mutex_unlock, TypeOK
<1>2. /\ q \in Seq(Thread) /\ q # <<>>
      /\ Len(q) \in Nat /\ DOMAIN q = 1 .. Len(q)
  BY WaitersType
<1>3. /\ Tail(q) \in Seq(Thread)
      /\ Len(Tail(q)) = Len(q) - 1
      /\ \A i \in 1 .. Len(Tail(q)) : Tail(q)[i] = q[i + 1]
  BY <1>2, HeadTailProperties
<1>4. w = q[1] /\ 1 \in DOMAIN q /\ Len(q) > 0
  BY <1>2, SMTT(30)
<1>5. w \in Waiting(m)
  BY <1>4 DEF Waiting
<1>6. waiters'[m] = Tail(q)
  BY <1>1 DEF TypeOK
<1>7. DOMAIN Tail(q) = 1 .. Len(q) - 1
  BY <1>3, SMTT(30)
<1>8. \A i, j \in DOMAIN q : q[i] = q[j] => i = j
  BY <1>1, ClientState DEF QueuedOnce, Stuck
<1> HIDE DEF q, w
<1>9. {Tail(q)[i] : i \in DOMAIN Tail(q)} = {q[i] : i \in DOMAIN q} \ {w}
  <2>1. ASSUME NEW i \in 1 .. Len(q) - 1
        PROVE  Tail(q)[i] \in {q[k] : k \in DOMAIN q} \ {w}
    <3>1. i + 1 \in DOMAIN q /\ Tail(q)[i] = q[i + 1] /\ i + 1 # 1
      BY <1>2, <1>3, SMTT(30)
    <3> QED
      BY <1>4, <1>8, <3>1, SMTT(30)
  <2>2. ASSUME NEW k \in DOMAIN q, q[k] # w
        PROVE  q[k] \in {Tail(q)[i] : i \in DOMAIN Tail(q)}
    <3>1. k - 1 \in 1 .. Len(q) - 1 /\ (k - 1) + 1 = k
      BY <1>2, <1>4, <2>2, SMTT(30)
    <3>2. Tail(q)[k - 1] = q[k]
      BY <1>3, <3>1
    <3> QED
      BY <1>7, <3>1, <3>2
  <2> QED
    BY <1>7, <2>1, <2>2
<1>10. \A i, j \in DOMAIN Tail(q) : Tail(q)[i] = Tail(q)[j] => i = j
  <2> SUFFICES ASSUME NEW i \in DOMAIN Tail(q), NEW j \in DOMAIN Tail(q),
                      Tail(q)[i] = Tail(q)[j]
               PROVE  i = j
    OBVIOUS
  <2>1. i + 1 \in DOMAIN q /\ j + 1 \in DOMAIN q /\ i \in Int /\ j \in Int
    BY <1>2, <1>7, SMTT(30)
  <2>2. q[i + 1] = q[j + 1]
    BY <1>3, <1>7
  <2> QED
    BY <1>8, <2>1, <2>2, SMTT(30)
<1>11. Waiting(m) = {q[i] : i \in DOMAIN q}
  BY DEF Waiting, q
<1>12. Waiting(m)' = {Tail(q)[i] : i \in DOMAIN Tail(q)}
  BY <1>6 DEF Waiting
<1>13. w \in Thread /\ state[w] = "BLOCKED"
  BY <1>5, QueueMember
<1>14. w # current_thread
  BY <1>1, <1>13, ClientState
<1>15. state' = [state EXCEPT ![w] = "READY"]
  BY <1>1, <1>13, CoreTypes DEF Wake
<1> QED
  BY <1>1, <1>5, <1>6, <1>9, <1>10, <1>11, <1>12, <1>14, <1>15 DEF q, w

LEMMA WaitingAppend ==
    ASSUME TypeOK, NEW m \in Mutex, NEW c \in Thread,
           waiters' = [waiters EXCEPT ![m] = Append(waiters[m], c)]
    PROVE  Waiting(m)' = Waiting(m) \cup {c}
<1> DEFINE q == waiters[m]
           r == Append(waiters[m], c)
<1>1. /\ q \in Seq(Thread)
      /\ Len(q) \in Nat /\ DOMAIN q = 1 .. Len(q)
  BY WaitersType
<1>2. /\ r \in Seq(Thread)
      /\ Len(r) = Len(q) + 1
      /\ \A i \in 1 .. Len(q) : r[i] = q[i]
      /\ r[Len(q) + 1] = c
  BY <1>1, AppendProperties, SMTT(30)
<1>3. DOMAIN r = 1 .. Len(q) + 1
  BY <1>2, SMTT(30)
<1>4. waiters'[m] = r
  BY DEF TypeOK
<1> HIDE DEF q, r
<1>5. 1 .. Len(q) + 1 = 1 .. Len(q) \cup {Len(q) + 1}
  BY <1>1, SMTT(30)
<1>6. {r[i] : i \in DOMAIN r} = {q[i] : i \in DOMAIN q} \cup {c}
  BY <1>1, <1>2, <1>3, <1>5, SMTT(30)
<1> QED
  BY <1>4, <1>6 DEF Waiting, q

LEMMA QueueOKStep ==
    ASSUME IInv, [Next]_vars
    PROVE  QueueOK'
<1> USE DEF IInv
<1> SUFFICES ASSUME NEW m \in Mutex, NEW w \in Waiting(m)'
             PROVE  mutex'[w] = m /\ state'[w] = "BLOCKED"
  BY SMTT(30) DEF QueueOK
<1>1. CASE pthread_mutex_lock
  <2>1. PICK l \in Mutex : l = mutex[current_thread]
    BY <1>1, LockEffect
  <2>2. CASE /\ waiters' = waiters /\ state' = state
             /\ state[current_thread] # "BLOCKED"
             /\ mutex' = [mutex EXCEPT ![current_thread] = NULL]
    <3>1. w \in Waiting(m)
      BY <2>2 DEF Waiting
    <3> QED
      BY <2>2, <3>1, QueueMember, CoreTypes
  <2>3. CASE /\ state' = [state EXCEPT ![current_thread] = "BLOCKED"]
             /\ mutex' = mutex
             /\ waiters' = waiters
    <3>1. w \in Waiting(m)
      BY <2>3 DEF Waiting
    <3> QED
      BY <2>3, <3>1, QueueMember, CoreTypes
  <2>4. CASE /\ state' = [state EXCEPT ![current_thread] = "BLOCKED"]
             /\ mutex' = mutex
             /\ waiters' = [waiters EXCEPT ![l] =
                               Append(waiters[l], current_thread)]
    <3>1. w \in Waiting(m) \/ (w = current_thread /\ m = l)
      <4>1. CASE m = l
        <5>1. PICK c \in Thread : c = current_thread
          BY CoreTypes
        <5>2. waiters' = [waiters EXCEPT ![m] = Append(waiters[m], c)]
          BY <2>4, <4>1, <5>1
        <5>3. Waiting(m)' = Waiting(m) \cup {c}
          BY <5>2, WaitingAppend
        <5> QED
          BY <4>1, <5>1, <5>3
      <4>2. CASE m # l
        <5>1. waiters'[m] = waiters[m]
          BY <2>4, <4>2 DEF TypeOK
        <5> QED
          BY <5>1 DEF Waiting
      <4> QED
        BY <4>1, <4>2
    <3> QED
      BY <2>1, <2>4, <3>1, QueueMember, CoreTypes, SMTT(30)
  <2> QED
    BY <1>1, <2>1, <2>2, <2>3, <2>4, LockEffect, SMTT(30)
<1>2. ASSUME NEW l \in Mutex, pthread_mutex_unlock(l)
      PROVE  mutex'[w] = m /\ state'[w] = "BLOCKED"
  <2>1. mutex' = mutex
    BY <1>2 DEF pthread_mutex_unlock, callVars
  <2>2. CASE waiters[l] # <<>>
    <3> DEFINE h == Head(waiters[l])
    <3>1. /\ h \in Waiting(l)
          /\ state' = [state EXCEPT ![h] = "READY"]
          /\ waiters' = [waiters EXCEPT ![l] = Tail(waiters[l])]
          /\ Waiting(l)' = Waiting(l) \ {h}
      BY <1>2, <2>2, UnlockEffect
    <3> HIDE DEF h
    <3>2. w \in Waiting(m) /\ (m = l => w # h)
      <4>1. CASE m = l
        BY <3>1, <4>1
      <4>2. CASE m # l
        <5>1. waiters'[m] = waiters[m]
          BY <3>1, <4>2, SMTT(30) DEF TypeOK
        <5> QED
          BY <4>2, <5>1 DEF Waiting
      <4> QED
        BY <4>1, <4>2
    <3>3. h \in Thread /\ mutex[h] = l
      BY <3>1, QueueMember
    <3>4. w \in Thread /\ mutex[w] = m /\ state[w] = "BLOCKED"
      BY <3>2, QueueMember
    <3>5. w # h
      BY <3>2, <3>3, <3>4
    <3> QED
      BY <2>1, <3>1, <3>3, <3>4, <3>5, CoreTypes
  <2>3. CASE waiters[l] = <<>>
    <3>1. waiters' = waiters /\ state' = state
      BY <1>2, <2>3 DEF pthread_mutex_unlock
    <3>2. w \in Waiting(m)
      BY <3>1 DEF Waiting
    <3>3. mutex[w] = m /\ state[w] = "BLOCKED"
      BY <3>2, QueueMember
    <3> QED
      BY <2>1, <3>1, <3>3
  <2> QED
    BY <2>2, <2>3
<1>3. ASSUME NEW l \in Mutex, pthread_mutex_init(l)
      PROVE  mutex'[w] = m /\ state'[w] = "BLOCKED"
  <2>1. /\ mutex' = mutex /\ state' = state
        /\ waiters' = [waiters EXCEPT ![l] = <<>>]
    BY <1>3 DEF pthread_mutex_init, callVars, threadVars
  <2>2. w \in Waiting(m)
    BY <2>1, SMTT(30) DEF Waiting, TypeOK
  <2> QED
    BY <2>1, <2>2, QueueMember
<1>4. CASE waiters' = waiters /\ ~pthread_mutex_lock
           /\ ~(\E l \in Mutex : pthread_mutex_unlock(l))
  <2>1. /\ w \in Thread /\ mutex[w] = m /\ state[w] = "BLOCKED"
        /\ pc[w] \in LockPc
    BY <1>4, QueueMember, SMTT(30) DEF Waiting
  <2>2. mutex'[w] = m
    <3>1. CASE mutex' = mutex
      BY <2>1, <3>1, SMTT(30)
    <3>2. ASSUME NEW l \in Mutex, pthread_mutex_lock_call(l)
          PROVE  mutex'[w] = mutex[w]
      BY <2>1, <3>2, ClientState, CoreTypes DEF pthread_mutex_lock_call
    <3> QED
      BY <1>4, <2>1, <3>1, <3>2, MutexEffect, ZenonT(30)
  <2>3. state'[w] = "BLOCKED"
    <3> SUFFICES ASSUME state'[w] # "BLOCKED"
                 PROVE  FALSE
      BY SMTT(30)
    <3>1. /\ InClient
          /\ w = join_waiter[current_thread]
          /\ w # current_thread
      BY <1>4, <2>1, UnblockEffect DEF pthread_exit
    <3>2. pc[w] \in {"join_yield", "join_test"}
      BY <2>1, <3>1, ThreadFacts, CoreTypes DEF JoinWaiterOK, InClient
    <3> QED
      BY <2>1, <3>2 DEF LockPc
  <2> QED
    BY <2>2, <2>3, SMTT(30)
<1> QED
  BY <1>1, <1>2, <1>3, <1>4, WaitersEffect

LEMMA QueuedOnceStep ==
    ASSUME IInv, [Next]_vars
    PROVE  QueuedOnce'
<1> USE DEF IInv
<1>1. CASE Stuck
  <2>1. Stuck'
    BY <1>1, StuckStep DEF Stuck, Runnable
  <2> QED
    BY <2>1 DEF QueuedOnce
<1>2. CASE ~Stuck
  <2>0. \A m \in Mutex : \A i, j \in DOMAIN waiters[m] :
           waiters[m][i] = waiters[m][j] => i = j
    BY <1>2 DEF QueuedOnce
  <2>1. CASE waiters' = waiters
    BY <2>0, <2>1 DEF QueuedOnce
  <2>2. CASE pthread_mutex_lock /\ waiters' # waiters
    <3> DEFINE l == mutex[current_thread]
               q == waiters[l]
               r == Append(waiters[l], current_thread)
    <3>1. /\ l \in Mutex
          /\ pc[current_thread] = "lock"
          /\ waiters' = [waiters EXCEPT ![l] = r]
      BY <2>2, LockEffect
    <3>2. state[current_thread] # "BLOCKED"
      BY <1>2, <3>1 DEF SpinOK, Stuck
    <3>3. current_thread \notin Waiting(l)
      BY <3>1, <3>2, QueueMember, SMTT(30)
    <3>4. /\ q \in Seq(Thread)
          /\ Len(q) \in Nat /\ DOMAIN q = 1 .. Len(q)
          /\ \A i \in DOMAIN q : q[i] # current_thread
      BY <3>1, <3>3, WaitersType, SMTT(30) DEF Waiting
    <3>5. /\ DOMAIN r = 1 .. Len(q) + 1
          /\ \A i \in 1 .. Len(q) : r[i] = q[i]
          /\ r[Len(q) + 1] = current_thread
      <4>1. current_thread \in Thread
        BY CoreTypes
      <4>2. r = Append(q, current_thread)
        OBVIOUS
      <4> HIDE DEF q, r
      <4>3. /\ r \in Seq(Thread)
            /\ Len(r) = Len(q) + 1
            /\ \A i \in 1 .. Len(q) : r[i] = q[i]
            /\ r[Len(q) + 1] = current_thread
        BY <3>4, <4>1, <4>2, AppendProperties, SMTT(30)
      <4> QED
        BY <4>3, SMTT(30)
    <3>6. \A i, j \in DOMAIN q : q[i] = q[j] => i = j
      BY <2>0, <3>1
    <3> HIDE DEF q, r, l
    <3>7. \A i, j \in DOMAIN r : r[i] = r[j] => i = j
      <4>1. DOMAIN r = DOMAIN q \cup {Len(q) + 1}
        BY <3>4, <3>5, SMTT(30)
      <4> QED
        BY <3>4, <3>5, <3>6, <4>1
    <3>8. \A m \in Mutex : \/ waiters'[m] = waiters[m]
                           \/ waiters'[m] = r
      BY <3>1 DEF TypeOK
    <3> QED
      BY <2>0, <3>7, <3>8, SMTT(30) DEF QueuedOnce
  <2>3. ASSUME NEW l \in Mutex, pthread_mutex_unlock(l)
        PROVE  QueuedOnce'
    <3>1. CASE waiters[l] = <<>>
      BY <2>1, <2>3, <3>1 DEF pthread_mutex_unlock
    <3>2. CASE waiters[l] # <<>>
      <4>1. /\ waiters' = [waiters EXCEPT ![l] = Tail(waiters[l])]
            /\ \A i, j \in DOMAIN waiters'[l] :
                  waiters'[l][i] = waiters'[l][j] => i = j
        BY <2>3, <3>2, UnlockEffect
      <4>2. \A m \in Mutex \ {l} : waiters'[m] = waiters[m]
        BY <4>1 DEF TypeOK
      <4> QED
        BY <2>0, <4>1, <4>2, SMTT(30) DEF QueuedOnce
    <3> QED
      BY <3>1, <3>2
  <2>4. ASSUME NEW l \in Mutex, pthread_mutex_init(l)
        PROVE  QueuedOnce'
    <3>1. \A m \in Mutex : waiters'[m] \in {waiters[m], <<>>}
      BY <2>4, SMTT(30) DEF pthread_mutex_init, TypeOK
    <3> QED
      BY <2>0, <3>1, SMTT(30) DEF QueuedOnce
  <2> QED
    BY <2>1, <2>2, <2>3, <2>4, WaitersEffect
<1> QED
  BY <1>1, <1>2, SMTT(30)

\* How the state of a slot may change, and which operation changes it.
LEMMA StateEffect ==
    ASSUME IInv, [Next]_vars, NEW t \in Thread, state'[t] # state[t]
    PROVE  \/ /\ state[t] \in {"READY", "RUNNING"}
              /\ state'[t] \in {"READY", "RUNNING"}
           \/ /\ pthread_create \/ pthread_create_EAGAIN \/ pthread_create_ENOMEM
              /\ state[t] = "FREE"
              /\ state'[t] \in {"READY", "RUNNING"}
           \/ /\ \E v \in Value : pthread_exit(v)
              /\ t = current_thread /\ state'[t] = "ZOMBIE"
           \/ /\ pthread_join_enter \/ pthread_join_retest
              /\ t = current_thread /\ state'[t] = "BLOCKED"
              /\ state[target[t]] # "ZOMBIE"
           \/ /\ pthread_join_free
              /\ t = target[current_thread]
              /\ state[t] = "ZOMBIE" /\ state'[t] = "FREE"
           \/ /\ pthread_mutex_lock
              /\ t = current_thread /\ state'[t] = "BLOCKED"
           \/ state[t] = "BLOCKED" /\ state'[t] = "READY"
<1> USE DEF IInv
<1>1. CASE timer_isr \/ pthread_yield
  <2>1. scheduler
    BY <1>1, SMTT(30) DEF timer_isr, pthread_yield
  <2> QED
    BY <2>1, SchedulerEffect, ZenonT(30)
<1>2. CASE pthread_create
  <2>1. PICK id \in Thread :
           /\ FreeSlot(id)
           /\ state' = [InitedState EXCEPT ![id] = "READY"]
    BY <1>2, ZenonT(30) DEF pthread_create
  <2>2. InClient /\ (threading_inited = 1 \/ ClientAlone)
    BY <1>2 DEF pthread_create, CreateCall
  <2> QED
    BY <1>2, <2>1, <2>2, InitedFacts, FreeSlotFacts, ClientState, CoreTypes,
       SMTT(30)
<1>3. CASE pthread_create_EAGAIN \/ pthread_create_ENOMEM
  <2>1. /\ InClient /\ (threading_inited = 1 \/ ClientAlone)
        /\ state' = InitedState
    BY <1>3, SMTT(30)
    DEF pthread_create_EAGAIN, pthread_create_ENOMEM, CreateCall
  <2> QED
    BY <1>3, <2>1, InitedFacts, ClientState, CoreTypes
<1>4. ASSUME NEW v \in Value, pthread_exit(v)
      PROVE  \/ t = current_thread /\ state'[t] = "ZOMBIE"
             \/ state[t] = "BLOCKED" /\ state'[t] = "READY"
  BY <1>4, ZenonT(30) DEF pthread_exit
<1>5. CASE dosthread_shutdown \/ \E x \in Thread : pthread_join_check(x)
  BY <1>5, SMTT(30) DEF dosthread_shutdown, pthread_join_check, threadVars
<1>6. CASE pthread_join_enter \/ pthread_join_retest
  <2>1. /\ state[target[current_thread]] # "ZOMBIE"
        /\ state' = [state EXCEPT ![current_thread] = "BLOCKED"]
    BY <1>6, SMTT(30) DEF pthread_join_enter, pthread_join_retest, JoinWhile
  <2> QED
    BY <1>6, <2>1, CoreTypes
<1>7. CASE pthread_join_read
  BY <1>7, ZenonT(30) DEF pthread_join_read, threadVars
<1>8. CASE pthread_join_free
  BY <1>8, CoreTypes, SMTT(30)
  DEF pthread_join_free, JoinOK, CallOK, At, JoinPc
<1>9. CASE pthread_mutex_lock
  BY <1>9, CoreTypes, ZenonT(30) DEF pthread_mutex_lock
<1>10. ASSUME NEW m \in Mutex,
              \/ pthread_mutex_init(m)
              \/ pthread_mutex_destroy(m)
              \/ pthread_mutex_lock_call(m)
              \/ pthread_mutex_trylock(m)
              \/ pthread_mutex_unlock_EPERM(m)
       PROVE  FALSE
  BY <1>10
  DEF pthread_mutex_init, pthread_mutex_destroy, pthread_mutex_lock_call,
      pthread_mutex_trylock, pthread_mutex_unlock_EPERM, threadVars
<1>11. ASSUME NEW m \in Mutex, pthread_mutex_unlock(m)
       PROVE  state[t] = "BLOCKED" /\ state'[t] = "READY"
  <2>1. IF waiters[m] # <<>> THEN Wake(Head(waiters[m])) ELSE state' = state
    BY <1>11 DEF pthread_mutex_unlock
  <2> QED
    BY <2>1, CoreTypes DEF Wake
<1>12. CASE UNCHANGED vars
  BY <1>12, SMTT(30) DEF vars, threadVars
<1> QED
  BY <1>1, <1>2, <1>3, <1>4, <1>5, <1>6, <1>7, <1>8, <1>9, <1>10, <1>11,
     <1>12, ZenonT(30)
  DEF Next, ThreadCall, MutexCall, LibraryStep

\* Only pthread_join changes the thread that is joined.
LEMMA TargetEffect ==
    ASSUME [Next]_vars
    PROVE  \/ target' = target
           \/ pthread_join_free
           \/ \E x \in Thread : pthread_join_check(x)
  BY ZenonT(30)
  DEF Next, ThreadCall, MutexCall, LibraryStep, vars, callVars, timer_isr,
      pthread_yield, pthread_create, pthread_create_EAGAIN,
      pthread_create_ENOMEM, CreateCall, pthread_exit, dosthread_shutdown,
      pthread_join_enter, pthread_join_retest, JoinWhile, pthread_join_read,
      pthread_mutex_init, pthread_mutex_lock, pthread_mutex_destroy,
      pthread_mutex_lock_call, pthread_mutex_trylock, pthread_mutex_unlock,
      pthread_mutex_unlock_EPERM

\* Only pthread_mutex_unlock frees a mutex.
LEMMA LockedEffect ==
    ASSUME IInv, [Next]_vars, NEW m \in Mutex, locked[m] = 1, locked'[m] # 1
    PROVE  pthread_mutex_unlock(m)
<1> USE DEF IInv
<1>1. ASSUME locked' = locked
      PROVE  FALSE
  BY <1>1
<1>2. CASE pthread_mutex_lock
  BY <1>2, LockEffect, CoreTypes, SMTT(30) DEF Take
<1>3. ASSUME NEW l \in Mutex, pthread_mutex_trylock(l)
      PROVE  FALSE
  BY <1>3, CoreTypes DEF pthread_mutex_trylock, Take
<1>4. ASSUME NEW l \in Mutex, pthread_mutex_init(l)
      PROVE  FALSE
  BY <1>4, CoreTypes DEF pthread_mutex_init, ClientDoesNotUse
<1>5. ASSUME NEW l \in Mutex, pthread_mutex_unlock(l)
      PROVE  l = m
  BY <1>5, CoreTypes DEF pthread_mutex_unlock
<1> QED
  BY <1>1, <1>2, <1>3, <1>4, <1>5, ZenonT(30)
  DEF Next, ThreadCall, MutexCall, LibraryStep, vars, mutexVars, timer_isr,
      pthread_yield, pthread_create, pthread_create_EAGAIN,
      pthread_create_ENOMEM, CreateCall, pthread_exit, dosthread_shutdown,
      pthread_join_check, pthread_join_enter, pthread_join_retest, JoinWhile,
      pthread_join_read, pthread_join_free, pthread_mutex_destroy,
      pthread_mutex_lock_call, pthread_mutex_unlock_EPERM
=============================================================================
