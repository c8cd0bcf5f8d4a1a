-------------------------- MODULE DosThreadProofs --------------------------
(***************************************************************************)
(* Proofs about DosThread for any number of slots, mutexes and values: the *)
(* other conjuncts of the inductive invariant, and the theorems.           *)
(***************************************************************************)
EXTENDS DosThreadLemmas

\* Most steps follow by logic alone and are left to Zenon.
USE ZenonT(20), SMTT(30)

USE ConstantsAssumption

LEMMA NoLostWakeupStep ==
    ASSUME IInv, [Next]_vars
    PROVE  NoLostWakeup'
<1> USE DEF IInv
<1> SUFFICES ASSUME NEW m \in Mutex, waiters'[m] # <<>>, locked'[m] # 1
             PROVE  \E t \in Thread : /\ mutex'[t] = m
                                      /\ state'[t] \in {"READY", "RUNNING"}
  BY DEF NoLostWakeup
<1>1. CASE locked[m] = 1
  <2>1. pthread_mutex_unlock(m)
    BY <1>1, LockedEffect, SMTT(30)
  <2>2. waiters[m] # <<>>
    BY <2>1, SMTT(30) DEF pthread_mutex_unlock
  <2> DEFINE w == Head(waiters[m])
  <2>3. w \in Waiting(m) /\ state' = [state EXCEPT ![w] = "READY"]
    BY <2>1, <2>2, UnlockEffect, SMTT(30)
  <2>4. w \in Thread /\ mutex[w] = m
    BY <2>3, QueueMember
  <2>5. mutex' = mutex
    BY <2>1, SMTT(30) DEF pthread_mutex_unlock, callVars
  <2> HIDE DEF w
  <2>6. state'[w] = "READY" /\ mutex'[w] = m
    BY <2>3, <2>4, <2>5, CoreTypes
  <2> QED
    BY <2>4, <2>6
<1>2. CASE locked[m] # 1
  <2>1. waiters[m] # <<>>
    <3>1. CASE pthread_mutex_lock
      BY <1>2, <3>1, LockEffect, ZenonT(30) DEF TypeOK
    <3>2. ASSUME NEW l \in Mutex, pthread_mutex_unlock(l)
          PROVE  waiters'[m] = waiters[m]
      BY <1>2, <3>2 DEF pthread_mutex_unlock, TypeOK
    <3>3. ASSUME NEW l \in Mutex, pthread_mutex_init(l)
          PROVE  waiters'[m] \in {waiters[m], <<>>}
      BY <3>3 DEF pthread_mutex_init, TypeOK
    <3> QED
      BY <3>1, <3>2, <3>3, WaitersEffect, SMTT(30)
  <2>2. PICK t \in Thread : /\ mutex[t] = m
                            /\ state[t] \in {"READY", "RUNNING"}
    BY <1>2, <2>1 DEF NoLostWakeup
  <2>3. t = current_thread => ~InClient
    BY <2>2, ClientFacts, SMTT(30)
  <2>4. ~(pthread_mutex_lock /\ t = current_thread)
    BY <1>2, <2>2, LockEffect, CoreTypes, SMTT(30) DEF Take
  <2>5. mutex'[t] = m
    <3>1. ASSUME NEW l \in Mutex, pthread_mutex_lock_call(l)
          PROVE  mutex'[t] = m
      BY <2>2, <2>3, <3>1, CoreTypes, ZenonT(30) DEF pthread_mutex_lock_call
    <3>2. CASE pthread_mutex_lock
      BY <2>2, <2>4, <3>2, LockEffect, CoreTypes, ZenonT(30)
    <3> QED
      BY <2>2, <3>1, <3>2, MutexEffect, SMTT(30)
  <2>6. state'[t] \in {"READY", "RUNNING"}
    <3> SUFFICES ASSUME state'[t] \notin {"READY", "RUNNING"}
                 PROVE  FALSE
      BY SMTT(30)
    <3>1. t = current_thread
          /\ ((\E v \in Value : pthread_exit(v))
              \/ pthread_join_enter \/ pthread_join_retest)
      BY <2>2, <2>4, StateEffect, ZenonT(30)
    <3>2. pc[t] \in LockPc
      BY <2>2, ZenonT(30) DEF CallOK
    <3> QED
      BY <2>3, <3>1, <3>2, ZenonT(30)
      DEF pthread_exit, pthread_join_enter, pthread_join_retest, At, LockPc
  <2> QED
    BY <2>5, <2>6, SMTT(30)
<1> QED
  BY <1>1, <1>2, SMTT(30)

LEMMA SpinOKStep ==
    ASSUME IInv, [Next]_vars
    PROVE  SpinOK'
<1> USE DEF IInv
<1> SUFFICES ASSUME pc'[current_thread'] \in {"lock", "join_test"},
                    state'[current_thread'] = "BLOCKED"
             PROVE  Runnable' = {}
  BY DEF SpinOK
<1>1. CASE timer_isr \/ pthread_yield
  <2>1. scheduler
    BY <1>1 DEF timer_isr, pthread_yield
  <2>2. state' = state /\ current_thread' = current_thread
    BY <2>1, SchedulerEffect
  <2>3. Runnable = {}
    BY <2>1, <2>2, SMTT(30) DEF scheduler, FirstInScan, Runnable
  <2> QED
    BY <2>2, <2>3 DEF Runnable
<1>2. CASE \/ pthread_join_enter \/ pthread_join_retest \/ pthread_join_read
           \/ pthread_join_free \/ pthread_mutex_lock
  BY <1>2, CoreTypes DEF pthread_join_enter, pthread_join_retest, JoinWhile, pthread_join_read,
      pthread_join_free, pthread_mutex_lock, Goto
<1>3. CASE ThreadCall
  <2>1. InClient
    BY <1>3, SMTT(30)
    DEF ThreadCall, pthread_create, pthread_create_EAGAIN,
        pthread_create_ENOMEM, CreateCall, pthread_exit, dosthread_shutdown,
        pthread_join_check
  <2>2. current_thread' = current_thread
    BY <1>3
    DEF ThreadCall, pthread_create, pthread_create_EAGAIN,
        pthread_create_ENOMEM, CreateCall, ClientAlone, pthread_exit,
        dosthread_shutdown, pthread_join_check
  <2>3. state[current_thread] # "BLOCKED"
    BY <2>1, ClientState
  <2>4. state'[current_thread] # state[current_thread]
    BY <2>2, <2>3, SMTT(30)
  <2>5. pthread_join_enter \/ pthread_join_retest \/ pthread_mutex_lock
    BY <2>2, <2>4, StateEffect, CoreTypes, ZenonT(30)
  <2> QED
    BY <1>2, <2>5
<1>4. CASE MutexCall
  <2>1. InClient /\ current_thread' = current_thread
    BY <1>4 DEF MutexCall, pthread_mutex_init, pthread_mutex_destroy,
        pthread_mutex_lock_call, pthread_mutex_trylock, pthread_mutex_unlock,
        pthread_mutex_unlock_EPERM
  <2>2. state'[current_thread] # state[current_thread]
    BY <2>1, ClientState, SMTT(30)
  <2>3. pthread_join_enter \/ pthread_join_retest \/ pthread_mutex_lock
    BY <2>1, <2>2, StateEffect, CoreTypes, ZenonT(30)
  <2> QED
    BY <1>2, <2>3
<1>5. CASE UNCHANGED vars
  BY <1>5, ZenonT(30) DEF vars, threadVars, SpinOK, Runnable
<1> QED
  BY <1>1, <1>2, <1>3, <1>4, <1>5, ZenonT(30) DEF Next, LibraryStep

LEMMA BlockedOKStep ==
    ASSUME IInv, [Next]_vars
    PROVE  BlockedOK'
<1> USE DEF IInv
<1> SUFFICES ASSUME NEW t \in Thread, state'[t] = "BLOCKED"
             PROVE  /\ pc'[t] \in LockPc => t \in Waiting(mutex[t])'
                    /\ pc'[t] \in JoinPc => state'[target'[t]] # "ZOMBIE"
  BY DEF BlockedOK
<1>0. CallOK' /\ TypeOK'
  BY CallOKStep, TypeStep, SMTT(30)
<1>1. CASE pthread_mutex_lock
  <2>1. PICK l \in Mutex : l = mutex[current_thread]
    BY <1>1, LockEffect, SMTT(30)
  <2>2. \A m \in Mutex : Waiting(m) \subseteq Waiting(m)'
    <3>1. CASE waiters' = waiters
      BY <3>1 DEF Waiting
    <3>2. CASE waiters' = [waiters EXCEPT ![l] =
                              Append(waiters[l], current_thread)]
      <4> SUFFICES ASSUME NEW m \in Mutex
                   PROVE  Waiting(m) \subseteq Waiting(m)'
        OBVIOUS
      <4>1. CASE m = l
        <5>1. PICK c \in Thread : c = current_thread
          BY CoreTypes
        <5> QED
          BY <3>2, <4>1, <5>1, WaitingAppend, ZenonT(30)
      <4>2. CASE m # l
        <5>1. waiters'[m] = waiters[m]
          BY <3>2, <4>2 DEF TypeOK
        <5> QED
          BY <5>1 DEF Waiting
      <4> QED
        BY <4>1, <4>2
    <3> QED
      BY <1>1, <2>1, <3>1, <3>2, LockEffect, ZenonT(30)
  <2>3. CASE t = current_thread
    <3>1. /\ pc'[t] = "lock_yield" /\ mutex' = mutex
          /\ \/ waiters' = [waiters EXCEPT ![l] =
                              Append(waiters[l], current_thread)]
             \/ waiters' = waiters /\ current_thread \in Waiting(l)
      BY <1>1, <2>1, <2>3, LockEffect, CoreTypes, SMTT(30) DEF Goto
    <3>2. t \in Waiting(l)'
      <4>1. CASE waiters' = waiters /\ current_thread \in Waiting(l)
        BY <2>3, <4>1 DEF Waiting
      <4>2. CASE waiters' = [waiters EXCEPT ![l] =
                                Append(waiters[l], current_thread)]
        <5>1. waiters' = [waiters EXCEPT ![l] = Append(waiters[l], t)]
          BY <2>3, <4>2
        <5>2. Waiting(l)' = Waiting(l) \cup {t}
          BY <5>1, WaitingAppend, ZenonT(30)
        <5> QED
          BY <5>2
      <4> QED
        BY <3>1, <4>1, <4>2, SMTT(30)
    <3>3. mutex'[t] = l
      BY <2>1, <2>3, <3>1
    <3> QED
      BY <3>1, <3>2, <3>3, SMTT(30) DEF JoinPc, Waiting
  <2>4. CASE t # current_thread
    <3>1. /\ state[t] = "BLOCKED" /\ mutex'[t] = mutex[t]
          /\ pc'[t] = pc[t] /\ target'[t] = target[t]
      BY <1>1, <2>4, LockEffect, CoreTypes, SMTT(30) DEF Goto
    <3>2. ASSUME pc'[t] \in LockPc
          PROVE  t \in Waiting(mutex[t])'
      <4>1. PICK m \in Mutex : m = mutex[t]
        BY <3>1, <3>2, ZenonT(30) DEF CallOK
      <4>2. t \in Waiting(m)'
        BY <2>2, <3>1, <3>2, <4>1, SMTT(30) DEF BlockedOK
      <4> QED
        BY <3>1, <4>1, <4>2, SMTT(30) DEF Waiting
    <3>3. ASSUME pc'[t] \in JoinPc
          PROVE  state'[target'[t]] # "ZOMBIE"
      <4>1. target[t] \in Thread /\ state[target[t]] # "ZOMBIE"
        BY <3>1, <3>3 DEF BlockedOK, CallOK
      <4> QED
        BY <1>1, <3>1, <4>1, LockEffect, CoreTypes, SMTT(30)
    <3> QED
      BY <3>2, <3>3
  <2> QED
    BY <2>3, <2>4, ZenonT(30)
<1>2. CASE state[t] # "BLOCKED" /\ ~pthread_mutex_lock
  <2>1. /\ pthread_join_enter \/ pthread_join_retest
        /\ t = current_thread
        /\ state[target[t]] # "ZOMBIE"
    BY <1>2, StateEffect
  <2>2. /\ state' = [state EXCEPT ![t] = "BLOCKED"]
        /\ pc' = [pc EXCEPT ![t] = "join_yield"]
        /\ target' = target
        /\ pc[t] \in {"join", "join_test"}
    BY <2>1
    DEF pthread_join_enter, pthread_join_retest, JoinWhile, Goto, callVars, At
  <2>3. target[t] \in Thread
    BY <2>2 DEF CallOK, JoinPc
  <2> QED
    BY <2>1, <2>2, <2>3, CoreTypes DEF LockPc
<1>3. CASE state[t] = "BLOCKED" /\ ~pthread_mutex_lock
  <2>1. ~(InClient /\ t = current_thread)
    BY <1>3, ClientState
  <2>2. mutex'[t] = mutex[t]
    <3>1. ASSUME NEW l \in Mutex, pthread_mutex_lock_call(l)
          PROVE  mutex'[t] = mutex[t]
      BY <2>1, <3>1, CoreTypes DEF pthread_mutex_lock_call
    <3> QED
      BY <1>3, <3>1, MutexEffect
  <2>3. target'[t] = target[t]
    <3>1. ASSUME NEW x \in Thread, pthread_join_check(x)
          PROVE  target'[t] = target[t]
      BY <2>1, <3>1, CoreTypes DEF pthread_join_check
    <3>2. CASE pthread_join_free
      BY <1>3, <3>2, CoreTypes DEF pthread_join_free, At, PcState
    <3> QED
      BY <3>1, <3>2, TargetEffect
  <2>4. ASSUME pc'[t] \in LockPc
        PROVE  t \in Waiting(mutex[t])'
    <3>1. PICK m \in Mutex : m = mutex[t]
      BY <1>0, <2>2, <2>4, ZenonT(30) DEF CallOK
    <3>2. t \in Waiting(m)
      BY <1>3, <3>1, ZenonT(30) DEF BlockedOK, CallOK
    <3>3. t \in Waiting(m)'
      <4>1. CASE waiters' = waiters
        BY <3>2, <4>1, SMTT(30) DEF Waiting
      <4>2. ASSUME NEW l \in Mutex, pthread_mutex_init(l)
            PROVE  waiters'[m] = waiters[m]
        BY <3>1, <4>2 DEF pthread_mutex_init, ClientDoesNotUse, TypeOK
      <4>3. ASSUME NEW l \in Mutex, pthread_mutex_unlock(l), waiters' # waiters
            PROVE  t \in Waiting(m)'
        <5> DEFINE w == Head(waiters[l])
        <5>1. /\ state' = [state EXCEPT ![w] = "READY"]
              /\ waiters' = [waiters EXCEPT ![l] = Tail(waiters[l])]
              /\ Waiting(l)' = Waiting(l) \ {w}
          BY <4>3, UnlockEffect DEF pthread_mutex_unlock
        <5> HIDE DEF w
        <5>2. t # w
          BY <5>1, CoreTypes
        <5>3. CASE m = l
          BY <3>2, <5>1, <5>2, <5>3, SMTT(30)
        <5>4. CASE m # l
          <6>1. waiters'[m] = waiters[m]
            BY <5>1, <5>4, SMTT(30) DEF TypeOK
          <6> QED
            BY <3>2, <6>1, SMTT(30) DEF Waiting
        <5> QED
          BY <5>3, <5>4, SMTT(30)
      <4>4. ASSUME waiters'[m] = waiters[m]
            PROVE  t \in Waiting(m)'
        BY <3>2, <4>4, SMTT(30) DEF Waiting
      <4> QED
        BY <1>3, <4>1, <4>2, <4>3, <4>4, WaitersEffect
    <3> QED
      BY <2>2, <3>1, <3>3, SMTT(30) DEF Waiting
  <2>5. ASSUME pc'[t] \in JoinPc
        PROVE  state'[target'[t]] # "ZOMBIE"
    <3>1. PICK x \in Thread : x = target[t]
      BY <1>0, <2>3, <2>5, ZenonT(30) DEF CallOK
    <3>2. pc[t] \in {"join_yield", "join_test"} /\ state[x] # "ZOMBIE"
      BY <1>3, <3>1, SMTT(30) DEF BlockedOK, CallOK, PcState, JoinPc, LockPc
    <3>3. join_waiter[x] = t
      BY <3>1, <3>2 DEF JoinOK
    <3>4. ASSUME state'[x] = "ZOMBIE"
          PROVE  FALSE
      <4>1. PICK v \in Value : pthread_exit(v) /\ x = current_thread
        BY <3>2, <3>4, StateEffect, SMTT(30)
      <4>2. state'[t] # "BLOCKED"
        BY <1>3, <2>1, <3>3, <4>1, ZenonT(30) DEF pthread_exit
      <4> QED
        BY <4>2, SMTT(30)
    <3> QED
      BY <2>3, <3>1, <3>4, SMTT(30)
  <2> QED
    BY <2>4, <2>5
<1> QED
  BY <1>1, <1>2, <1>3, SMTT(30)

\* What pthread_create, whatever it returns, leaves alone: a live thread keeps
\* its join_waiter, a zombie its result.
LEMMA CreateEffect ==
    ASSUME IInv,
           pthread_create \/ pthread_create_EAGAIN \/ pthread_create_ENOMEM
    PROVE  /\ InClient
           /\ current_thread' = current_thread
           /\ UNCHANGED callVars
           /\ \A t \in Thread : target[t] \in Thread =>
                 /\ pc'[t] = pc[t]
                 /\ join_waiter'[target[t]] = join_waiter[target[t]]
                 /\ retval'[target[t]] = retval[target[t]]
           /\ \A x \in Thread : pc[x] # "dead" =>
                 join_waiter'[x] \in {NoThread, join_waiter[x]}
           /\ \A x \in Thread : pc[x] = "dead" /\ pc'[x] # "dead" =>
                 join_waiter'[x] = NoThread
<1> USE DEF IInv
<1>1. CreateCall
  BY DEF pthread_create, pthread_create_EAGAIN, pthread_create_ENOMEM
<1>2. /\ InClient
      /\ threading_inited = 1 \/ ClientAlone
      /\ current_thread' = current_thread
      /\ UNCHANGED callVars
  BY <1>1 DEF CreateCall, ClientAlone
<1>3. InitedState = [state EXCEPT ![current_thread] = "RUNNING"]
  BY <1>2, InitedFacts
<1>4. target[current_thread] = NoThread /\ current_thread \in Thread
  BY <1>2, ClientFacts, SMTT(30)
<1>5. CASE threading_inited = 1
  <2>1. InitedRetval = retval /\ InitedJoinWaiter = join_waiter
    BY <1>5 DEF InitedRetval, InitedJoinWaiter
  <2>2. CASE pthread_create_EAGAIN
    BY <1>2, <1>4, <2>1, <2>2, ThreadFacts, CoreTypes, SMTT(30)
    DEF pthread_create_EAGAIN, Goto, InClient
  <2>3. CASE pthread_create \/ pthread_create_ENOMEM
    <3>1. PICK id \in Thread :
             /\ FreeSlot(id)
             /\ retval' = [retval EXCEPT ![id] = NULL]
             /\ \/ /\ join_waiter' = [join_waiter EXCEPT ![id] = 0]
                   /\ pc' = [pc EXCEPT ![current_thread] = "user"]
                \/ /\ join_waiter' = [join_waiter EXCEPT ![id] = NoThread]
                   /\ pc' = [pc EXCEPT ![current_thread] = "user",
                                       ![id] = "start"]
      BY <2>1, <2>3 DEF pthread_create, pthread_create_ENOMEM, Goto
    <3>2. /\ id # current_thread
          /\ state[id] = "FREE" /\ pc[id] = "dead"
      BY <1>2, <3>1, FreeSlotFacts, SMTT(30)
    <3>3. \A t \in Thread : target[t] \in Thread =>
             target[t] # id /\ t # id /\ t # current_thread
      BY <1>4, <3>2, ThreadFacts DEF JoinOK, CallOK, JoinPc
    <3>4. retval \in [Thread -> Value \cup {NULL}]
      BY DEF TypeOK
    <3>5. \A t \in Thread : target[t] \in Thread =>
             /\ pc'[t] = pc[t]
             /\ join_waiter'[target[t]] = join_waiter[target[t]]
             /\ retval'[target[t]] = retval[target[t]]
      BY <3>1, <3>3, <3>4, CoreTypes
    <3>6. /\ \A x \in Thread : pc[x] # "dead" =>
                join_waiter'[x] = join_waiter[x]
          /\ \A x \in Thread : pc[x] = "dead" /\ pc'[x] # "dead" =>
                join_waiter'[x] = NoThread
      BY <1>2, <3>1, <3>2, CoreTypes, SMTT(30) DEF InClient
    <3> QED
      BY <1>2, <3>5, <3>6, ZenonT(30)
  <2> QED
    BY <2>2, <2>3
<1>6. CASE threading_inited # 1
  <2>1. current_thread = 0 /\ \A t \in Thread \ {0} : state[t] = "FREE"
    BY <1>2, <1>6 DEF ClientAlone
  <2>2. \A t \in Thread \ {0} : pc[t] = "dead"
    BY <2>1 DEF PcState
  <2>3. \A t \in Thread : target[t] \notin Thread
    BY <1>4, <2>1, <2>2, ThreadFacts DEF CallOK, JoinPc
  <2>4. InitedJoinWaiter = [t \in Thread |-> IF t = 0 THEN NoThread ELSE 0]
    BY <1>6 DEF InitedJoinWaiter
  <2>5. pc[0] # "dead"
    BY <1>2, <2>1, SMTT(30) DEF InClient
  <2>6. CASE pthread_create_EAGAIN
    BY <1>2, <2>1, <2>2, <2>3, <2>4, <2>5, <2>6, CoreTypes, SMTT(30)
    DEF pthread_create_EAGAIN, Goto
  <2>7. CASE pthread_create
    <3>1. PICK id \in Thread :
             /\ FreeSlot(id)
             /\ join_waiter' = [InitedJoinWaiter EXCEPT ![id] = NoThread]
             /\ pc' = [pc EXCEPT ![current_thread] = "user", ![id] = "start"]
      BY <2>7 DEF pthread_create
    <3> QED
      BY <1>2, <2>1, <2>2, <2>3, <2>4, <2>5, <3>1, CoreTypes
  <2>8. CASE pthread_create_ENOMEM
    <3>1. PICK id \in Thread :
             /\ FreeSlot(id)
             /\ join_waiter' = [InitedJoinWaiter EXCEPT ![id] = 0]
      BY <2>8, ZenonT(30) DEF pthread_create_ENOMEM
    <3>2. id # 0 /\ Goto("user")
      BY <2>8, <3>1 DEF FreeSlot, pthread_create_ENOMEM
    <3> QED
      BY <1>2, <2>1, <2>2, <2>3, <2>4, <2>5, <3>1, <3>2, CoreTypes DEF Goto
  <2> QED
    BY <2>6, <2>7, <2>8
<1> QED
  BY <1>5, <1>6
\* The calls that leave every join alone: pc of another thread, the targets,
\* the join_waiters and the results do not change.
LEMMA OtherCallEffect ==
    ASSUME IInv,
           \/ dosthread_shutdown
           \/ MutexCall
           \/ pthread_mutex_lock
    PROVE  /\ UNCHANGED <<current_thread, target, join_waiter, retval, collected>>
           /\ target[current_thread] = NoThread
           /\ \A t \in Thread \ {current_thread} : pc'[t] = pc[t]
<1> USE DEF IInv
<1>1. CASE dosthread_shutdown \/ MutexCall
  <2>1. InClient
    BY <1>1, ZenonT(30)
    DEF dosthread_shutdown, MutexCall, pthread_mutex_init,
        pthread_mutex_destroy, pthread_mutex_lock_call, pthread_mutex_trylock,
        pthread_mutex_unlock, pthread_mutex_unlock_EPERM
  <2>2. UNCHANGED <<current_thread, target, join_waiter, retval, collected>>
    BY <1>1, ZenonT(30)
    DEF dosthread_shutdown, MutexCall, pthread_mutex_init,
        pthread_mutex_destroy, pthread_mutex_lock_call, pthread_mutex_trylock,
        pthread_mutex_unlock, pthread_mutex_unlock_EPERM, threadVars, callVars
  <2>3. \/ pc' = pc
        \/ Goto("user")
        \/ Goto("lock")
    BY <1>1, ZenonT(30)
    DEF dosthread_shutdown, MutexCall, pthread_mutex_init,
        pthread_mutex_destroy, pthread_mutex_lock_call, pthread_mutex_trylock,
        pthread_mutex_unlock, pthread_mutex_unlock_EPERM
  <2> QED
    BY <2>1, <2>2, <2>3, ClientFacts, CoreTypes, SMTT(30) DEF Goto
<1>2. CASE pthread_mutex_lock
  <2>1. /\ pc[current_thread] = "lock"
        /\ Goto("user") \/ Goto("lock_yield")
        /\ UNCHANGED <<current_thread, target, join_waiter, retval, collected>>
    BY <1>2 DEF pthread_mutex_lock, At
  <2>2. target[current_thread] = NoThread
    BY <2>1, CoreTypes, SMTT(30) DEF CallOK, JoinPc
  <2> QED
    BY <2>1, <2>2, CoreTypes, ZenonT(30) DEF Goto
<1> QED
  BY <1>1, <1>2

LEMMA JoinOKStep ==
    ASSUME IInv, [Next]_vars
    PROVE  JoinOK'
<1> USE ThreadFacts DEF IInv
<1>1. ASSUME NEW t \in Thread, NEW u \in Thread,
             target'[t] \in Thread, target'[t] = target'[u]
      PROVE  t = u
  <2>1. ASSUME NEW x \in Thread, pthread_join_check(x)
        PROVE  t = u
    BY <1>1, <2>1, CoreTypes, ZenonT(30)
    DEF pthread_join_check, ClientJoinsOnce, JoinOK
  <2>2. CASE pthread_join_free
    BY <1>1, <2>2, CoreTypes, SMTT(30) DEF pthread_join_free, JoinOK
  <2>3. CASE target' = target
    BY <1>1, <2>3 DEF JoinOK
  <2> QED
    BY <2>1, <2>2, <2>3, TargetEffect, SMTT(30)
<1>2. ASSUME NEW x \in Thread, state[x] # "FREE", ~pthread_join_free
      PROVE  /\ state'[x] # "FREE"
             /\ state[x] = "ZOMBIE" => state'[x] = "ZOMBIE"
  <2>1. state'[x] # "FREE"
    BY <1>2, StateEffect, SMTT(30)
  <2>2. ASSUME state[x] = "ZOMBIE", state'[x] # "ZOMBIE"
        PROVE  FALSE
    <3>1. /\ x = current_thread
          /\ \/ pthread_join_enter
             \/ pthread_join_retest
             \/ pthread_mutex_lock
      BY <1>2, <2>2, StateEffect
    <3>2. pc[current_thread] = "dead"
      BY <2>2, <3>1, CoreTypes, SMTT(30) DEF PcState, MainUnborn
    <3> QED
      BY <3>1, <3>2
      DEF pthread_join_enter, pthread_join_retest, pthread_mutex_lock, At
  <2> QED
    BY <2>1, <2>2
<1>3. ASSUME NEW t \in Thread, target'[t] \in Thread
      PROVE  /\ state'[target'[t]] # "FREE"
             /\ pc'[t] \in {"join_yield", "join_test"} =>
                   join_waiter'[target'[t]] = t
             /\ pc'[t] \in {"join_read", "join_free"} =>
                   state'[target'[t]] = "ZOMBIE"
             /\ pc'[t] = "join_free" => collected'[t] = retval'[target'[t]]
  <2>1. PICK x \in Thread : x = target'[t]
    BY <1>3, SMTT(30)
  <2>2. ASSUME target[t] = x
        PROVE  /\ state[x] # "FREE"
               /\ pc[t] \in {"join_yield", "join_test"} => join_waiter[x] = t
               /\ pc[t] \in {"join_read", "join_free"} => state[x] = "ZOMBIE"
               /\ pc[t] = "join_free" => collected[t] = retval[x]
    BY <2>2, ZenonT(30) DEF JoinOK
  <2>3. ASSUME target[t] = x, ~pthread_join_free, pc'[t] = pc[t],
               join_waiter'[x] = join_waiter[x], retval'[x] = retval[x],
               collected'[t] = collected[t]
        PROVE  /\ state'[x] # "FREE"
               /\ pc'[t] \in {"join_yield", "join_test"} => join_waiter'[x] = t
               /\ pc'[t] \in {"join_read", "join_free"} => state'[x] = "ZOMBIE"
               /\ pc'[t] = "join_free" => collected'[t] = retval'[x]
    BY <1>2, <2>2, <2>3, SMTT(30)
  <2>4. CASE pthread_join_free
    <3>1. /\ target' = [target EXCEPT ![current_thread] = NoThread]
          /\ state' = [state EXCEPT ![target[current_thread]] = "FREE"]
          /\ collected' = [collected EXCEPT ![current_thread] = NULL]
          /\ Goto("user")
          /\ UNCHANGED <<retval, join_waiter>>
      BY <2>4 DEF pthread_join_free
    <3>2. t # current_thread /\ target[t] = x
      BY <2>1, <3>1, CoreTypes, SMTT(30)
    <3>3. target[current_thread] # x
      BY <3>2, CoreTypes, ZenonT(30) DEF JoinOK
    <3>4. /\ state'[x] = state[x] /\ pc'[t] = pc[t]
          /\ collected'[t] = collected[t]
      BY <3>1, <3>2, <3>3, CoreTypes, ZenonT(30) DEF Goto, TypeOK
    <3> QED
      BY <2>1, <2>2, <3>1, <3>2, <3>4, ZenonT(30)
  <2>5. ASSUME NEW y \in Thread, pthread_join_check(y), t = current_thread
        PROVE  y = x /\ state'[x] # "FREE" /\ pc'[t] = "join"
    BY <2>1, <2>5, CoreTypes, SMTT(30)
    DEF pthread_join_check, Goto, threadVars
  <2>6. CASE \E y \in Thread : pthread_join_check(y)
    <3>1. CASE t = current_thread
      BY <2>1, <2>5, <2>6, <3>1, ZenonT(30)
    <3>2. CASE t # current_thread
      <4>1. /\ target[t] = x /\ pc'[t] = pc[t]
            /\ UNCHANGED <<join_waiter, retval, collected>>
            /\ ~pthread_join_free
        BY <2>1, <2>6, <3>2, CoreTypes, SMTT(30)
        DEF pthread_join_check, Goto, threadVars, pthread_join_free, At,
            InClient
      <4> QED
        BY <2>1, <2>3, <4>1, ZenonT(30)
    <3> QED
      BY <3>1, <3>2, ZenonT(30)
  <2>7. CASE target' = target /\ ~pthread_join_free
    <3>0. target[t] = x
      BY <2>1, <2>7, SMTT(30)
    <3>1. CASE timer_isr \/ UNCHANGED vars
      BY <2>1, <2>3, <2>7, <3>0, <3>1, SMTT(30)
      DEF timer_isr, vars, threadVars, callVars
    <3>2. CASE pthread_yield
      <4>1. UNCHANGED <<join_waiter, retval, collected>>
        BY <3>2 DEF pthread_yield, callVars
      <4>2. \/ pc'[t] = pc[t]
            \/ pc[t] = "join_yield" /\ pc'[t] = "join_test"
            \/ pc'[t] \in {"user", "lock", "dead"}
        BY <3>2, AfterYieldCases, CoreTypes, SMTT(30) DEF Goto
      <4> QED
        BY <1>2, <2>1, <2>2, <2>7, <3>0, <4>1, <4>2, ZenonT(30)
    <3>3. CASE pthread_create \/ pthread_create_EAGAIN \/ pthread_create_ENOMEM
      BY <2>1, <2>3, <2>7, <3>0, <3>3, CreateEffect, ZenonT(30) DEF callVars
    <3>4. ASSUME NEW v \in Value, pthread_exit(v)
          PROVE  /\ pc'[t] = pc[t]
                 /\ join_waiter' = join_waiter /\ collected' = collected
                 /\ retval'[x] = retval[x] \/ state[x] # "ZOMBIE"
      <4>1. InClient /\ target[current_thread] = NoThread
        BY <3>4, ClientFacts DEF pthread_exit
      <4>2. t # current_thread
        BY <3>0, <4>1
      <4>3. state[current_thread] # "ZOMBIE"
        BY <4>1, ClientState, SMTT(30)
      <4> QED
        BY <3>4, <4>2, <4>3, CoreTypes, ZenonT(30)
        DEF pthread_exit, Goto, callVars, TypeOK
    <3>5. CASE \E v \in Value : pthread_exit(v)
      BY <1>2, <2>1, <2>2, <2>7, <3>0, <3>4, <3>5, ZenonT(30)
    <3>6. CASE dosthread_shutdown \/ MutexCall \/ pthread_mutex_lock
      BY <2>1, <2>3, <2>7, <3>0, <3>6, OtherCallEffect, ZenonT(30)
    <3>7. CASE pthread_join_enter \/ pthread_join_retest
      <4>1. /\ pc[current_thread] \in {"join", "join_test"}
            /\ \/ Goto("join_yield")
               \/ Goto("join_read") /\ state[target[current_thread]] = "ZOMBIE"
            /\ \/ join_waiter' = [join_waiter EXCEPT
                                     ![target[current_thread]] = current_thread]
               \/ pc[current_thread] = "join_test" /\ join_waiter' = join_waiter
            /\ UNCHANGED <<retval, collected>>
        BY <3>7, ZenonT(30)
        DEF pthread_join_enter, pthread_join_retest, JoinWhile, At, callVars
      <4>2. CASE t = current_thread
        <5>1. join_waiter'[x] = t
          BY <2>2, <3>0, <4>1, <4>2, CoreTypes, SMTT(30)
        <5>2. \/ pc'[t] = "join_yield"
              \/ pc'[t] = "join_read" /\ state[x] = "ZOMBIE"
          BY <3>0, <4>1, <4>2, CoreTypes, SMTT(30) DEF Goto
        <5> QED
          BY <1>2, <2>1, <2>2, <2>7, <3>0, <5>1, <5>2, ZenonT(30)
      <4>3. CASE t # current_thread
        <5>1. target[current_thread] # x
          BY <3>0, <4>3, CoreTypes, SMTT(30) DEF JoinOK
        <5>2. join_waiter'[x] = join_waiter[x] /\ pc'[t] = pc[t]
          BY <4>1, <4>3, <5>1, CoreTypes, SMTT(30) DEF Goto
        <5> QED
          BY <2>1, <2>3, <2>7, <3>0, <4>1, <5>2, ZenonT(30)
      <4> QED
        BY <4>2, <4>3
    <3>8. CASE pthread_join_read
      <4>1. /\ pc[current_thread] = "join_read"
            /\ Goto("join_free")
            /\ collected' = [collected EXCEPT ![current_thread] =
                                retval[target[current_thread]]]
            /\ UNCHANGED <<state, retval, join_waiter>>
        BY <3>8, ZenonT(30) DEF pthread_join_read, At, threadVars
      <4>2. CASE t = current_thread
        <5>1. pc'[t] = "join_free" /\ collected'[t] = retval[x]
          BY <3>0, <4>1, <4>2, CoreTypes, ZenonT(30) DEF Goto, TypeOK
        <5> QED
          BY <2>1, <2>2, <3>0, <4>1, <4>2, <5>1, SMTT(30)
      <4>3. CASE t # current_thread
        BY <2>1, <2>3, <2>7, <3>0, <4>1, <4>3, CoreTypes DEF Goto, TypeOK
      <4> QED
        BY <4>2, <4>3, SMTT(30)
    <3> QED
      BY <2>7, <3>1, <3>2, <3>3, <3>5, <3>6, <3>7, <3>8, <2>6, ZenonT(30)
      DEF Next, ThreadCall, LibraryStep
  <2> QED
    BY <2>4, <2>6, <2>7, TargetEffect
<1> QED
  BY <1>1, <1>3 DEF JoinOK

\* Only pthread_create starts a thread.
LEMMA DeadEffect ==
    ASSUME IInv, [Next]_vars, NEW x \in Thread,
           pc[x] = "dead", pc'[x] # "dead"
    PROVE  join_waiter'[x] = NoThread
<1> USE DEF IInv
<1>1. CASE pthread_create \/ pthread_create_EAGAIN \/ pthread_create_ENOMEM
  BY <1>1, CreateEffect, SMTT(30)
<1>2. CASE pthread_yield
  BY <1>2, AfterYieldCases, CoreTypes DEF Goto
<1>3. ASSUME pc[current_thread] # "dead",
             \A t \in Thread \ {current_thread} : pc'[t] = pc[t]
      PROVE  FALSE
  BY <1>3, SMTT(30)
<1>4. CASE LibraryStep /\ ~pthread_yield
  BY <1>3, <1>4, CoreTypes, ZenonT(30)
  DEF LibraryStep, pthread_join_enter, pthread_join_retest, JoinWhile,
      pthread_join_read, pthread_join_free, pthread_mutex_lock, At, Goto
<1>5. CASE dosthread_shutdown \/ \E y \in Thread : pthread_join_check(y)
  BY <1>3, <1>5, CoreTypes, SMTT(30)
  DEF dosthread_shutdown, pthread_join_check, InClient, Goto
<1>6. CASE \E v \in Value : pthread_exit(v)
  BY <1>3, <1>6, CoreTypes, SMTT(30) DEF pthread_exit, InClient, Goto
<1>7. CASE MutexCall
  <2>1. pc[current_thread] # "dead"
    BY <1>7, ZenonT(30)
    DEF MutexCall, pthread_mutex_init, pthread_mutex_destroy,
        pthread_mutex_lock_call, pthread_mutex_trylock, pthread_mutex_unlock,
        pthread_mutex_unlock_EPERM, InClient
  <2> QED
    BY <1>3, <1>7, <2>1, OtherCallEffect, ZenonT(30)
<1>8. CASE timer_isr \/ UNCHANGED vars
  BY <1>8, SMTT(30) DEF timer_isr, vars
<1> QED
  BY <1>1, <1>2, <1>4, <1>5, <1>6, <1>7, <1>8, ZenonT(30) DEF Next, ThreadCall

LEMMA JoinWaiterOKStep ==
    ASSUME IInv, [Next]_vars
    PROVE  JoinWaiterOK'
<1> USE ThreadFacts DEF IInv
<1> SUFFICES ASSUME NEW x \in Thread, pc'[x] # "dead",
                    join_waiter'[x] \notin {NoThread, x}
             PROVE  /\ target'[join_waiter'[x]] = x
                    /\ pc'[join_waiter'[x]] \in {"join_yield", "join_test"}
  BY SMTT(30) DEF JoinWaiterOK
<1>0. join_waiter' \in [Thread -> Thread \cup {NoThread}]
  BY TypeStep DEF TypeOK
<1>1. PICK w \in Thread : w = join_waiter'[x]
  BY <1>0, SMTT(30)
<1>2. pc[x] # "dead" /\ state[x] # "ZOMBIE"
  BY <1>1, DeadEffect, SMTT(30) DEF PcState, MainUnborn
<1>3. ASSUME join_waiter[x] = w
      PROVE  target[w] = x /\ pc[w] \in {"join_yield", "join_test"}
  BY <1>1, <1>2, <1>3 DEF JoinWaiterOK
<1>4. ASSUME join_waiter[x] = w, InClient
      PROVE  w # current_thread
  BY <1>3, <1>4, SMTT(30) DEF InClient
<1>5. CASE timer_isr \/ UNCHANGED vars
  BY <1>1, <1>3, <1>5, SMTT(30) DEF timer_isr, vars, threadVars, callVars
<1>6. CASE pthread_yield
  <2>1. UNCHANGED <<join_waiter, target>>
    BY <1>6 DEF pthread_yield, callVars
  <2>2. \/ pc'[w] = pc[w]
        \/ pc[w] = "join_yield" /\ pc'[w] = "join_test"
        \/ pc[w] \in {"start", "user", "lock_yield", "dead"}
    BY <1>6, AfterYieldCases, CoreTypes, SMTT(30) DEF Goto
  <2> QED
    BY <1>1, <1>3, <2>1, <2>2, SMTT(30)
<1>7. CASE pthread_create \/ pthread_create_EAGAIN \/ pthread_create_ENOMEM
  <2>1. join_waiter[x] = w
    BY <1>1, <1>2, <1>7, CreateEffect, ZenonT(30)
  <2> QED
    BY <1>1, <1>3, <1>7, <2>1, CreateEffect, ZenonT(30) DEF callVars
<1>8. ASSUME NEW v \in Value, pthread_exit(v)
      PROVE  target'[w] = x /\ pc'[w] \in {"join_yield", "join_test"}
  BY <1>1, <1>3, <1>4, <1>8, CoreTypes, SMTT(30)
  DEF pthread_exit, callVars, Goto
<1>9. ASSUME NEW y \in Thread, pthread_join_check(y)
      PROVE  target'[w] = x /\ pc'[w] \in {"join_yield", "join_test"}
  BY <1>1, <1>3, <1>4, <1>9, CoreTypes, SMTT(30)
  DEF pthread_join_check, threadVars, Goto
<1>10. CASE dosthread_shutdown \/ MutexCall \/ pthread_mutex_lock
  BY <1>1, <1>3, <1>10, OtherCallEffect, SMTT(30)
<1>11. CASE pthread_join_enter \/ pthread_join_retest
  <2>1. /\ pc[current_thread] \in {"join", "join_test"}
        /\ \/ Goto("join_yield")
           \/ Goto("join_read") /\ state[target[current_thread]] = "ZOMBIE"
        /\ \/ join_waiter' = [join_waiter EXCEPT
                                 ![target[current_thread]] = current_thread]
           \/ join_waiter' = join_waiter
        /\ target' = target
    BY <1>11
    DEF pthread_join_enter, pthread_join_retest, JoinWhile, At, callVars
  <2>2. target[w] = x
    <3>1. CASE join_waiter[x] = w
      BY <1>3, <3>1, SMTT(30)
    <3>2. CASE join_waiter[x] # w
      BY <1>1, <2>1, <3>2, CoreTypes, SMTT(30)
    <3> QED
      BY <3>1, <3>2
  <2>3. CASE w = current_thread
    BY <1>1, <1>2, <2>1, <2>2, <2>3, CoreTypes, SMTT(30) DEF Goto
  <2>4. CASE w # current_thread
    <3>1. join_waiter[x] = w
      BY <1>1, <2>1, <2>4, CoreTypes, SMTT(30)
    <3> QED
      BY <1>1, <1>3, <2>1, <2>2, <2>4, <3>1, CoreTypes, SMTT(30) DEF Goto
  <2> QED
    BY <2>3, <2>4, SMTT(30)
<1>12. CASE pthread_join_read
  BY <1>1, <1>3, <1>12, CoreTypes, SMTT(30)
  DEF pthread_join_read, threadVars, Goto, At
<1>13. CASE pthread_join_free
  BY <1>1, <1>3, <1>13, CoreTypes DEF pthread_join_free, Goto, At
<1> QED
  BY <1>1, <1>5, <1>6, <1>7, <1>8, <1>9, <1>10, <1>11, <1>12, <1>13
  DEF Next, ThreadCall, LibraryStep

-----------------------------------------------------------------------------
(* The theorems *)

LEMMA IInvInit == Init => IInv
<1> SUFFICES ASSUME Init PROVE IInv
  OBVIOUS
<1>1. TypeOK /\ CallOK
  BY TypeInit, SMTT(30)
<1>2. PcState /\ JoinWaiterOK
  BY ThreadFacts, SMTT(30) DEF Init, PcState, MainUnborn, JoinWaiterOK
<1>3. QueueOK /\ NoLostWakeup /\ QueuedOnce
  BY SMTT(30) DEF Init, QueueOK, NoLostWakeup, QueuedOnce, Waiting
<1>4. JoinOK /\ BlockedOK /\ SpinOK
  BY ThreadFacts DEF Init, JoinOK, BlockedOK, SpinOK
<1> QED
  BY <1>1, <1>2, <1>3, <1>4 DEF IInv

LEMMA IInvStep == IInv /\ [Next]_vars => IInv'
<1> SUFFICES ASSUME IInv, [Next]_vars PROVE IInv'
  OBVIOUS
<1>1. TypeOK' /\ CallOK' /\ PcState'
  BY TypeStep, CallOKStep, PcStateStep DEF IInv
<1>2. QueueOK' /\ JoinOK' /\ JoinWaiterOK' /\ BlockedOK'
  BY QueueOKStep, JoinOKStep, JoinWaiterOKStep, BlockedOKStep
<1>3. SpinOK' /\ NoLostWakeup' /\ QueuedOnce'
  BY SpinOKStep, NoLostWakeupStep, QueuedOnceStep
<1> QED
  BY <1>1, <1>2, <1>3 DEF IInv

LEMMA IInvAlways == Spec => []IInv
  BY IInvInit, IInvStep, PTL DEF Spec

\* Every variable keeps the type its C declaration intends: in particular a
\* thread that dereferences its join target or its mutex has one.
THEOREM TypeCorrect == Spec => [](TypeOK /\ CallOK)
<1>1. IInv => TypeOK /\ CallOK
  BY DEF IInv
<1> QED
  BY <1>1, IInvAlways, PTL

\* Application code runs only in threads that are neither blocked nor exited,
\* and at most one thread is RUNNING, whatever the timer interrupts.
THEOREM Dispatch == Spec => []DispatchedIsRunning
<1>1. IInv => DispatchedIsRunning
  BY CoreTypes DEF IInv, PcState, MainUnborn, DispatchedIsRunning
<1> QED
  BY <1>1, IInvAlways, PTL

\* No thread is left BLOCKED with nobody to wake it: it is queued on the mutex
\* it wants, or it is the join_waiter of a thread that has yet to exit.
THEOREM Wakers == Spec => []BlockedHasWaker
<1>1. ASSUME IInv PROVE BlockedHasWaker
  <2> SUFFICES ASSUME NEW t \in Thread, state[t] = "BLOCKED"
               PROVE  \/ pc[t] \in LockPc /\ t \in Waiting(mutex[t])
                      \/ /\ pc[t] \in {"join_yield", "join_test"}
                         /\ join_waiter[target[t]] = t
                         /\ state[target[t]] \notin {"FREE", "ZOMBIE"}
    BY DEF BlockedHasWaker
  <2>1. CASE pc[t] \in {"lock", "lock_yield"}
    BY <1>1, <2>1 DEF IInv, BlockedOK, LockPc
  <2>2. CASE pc[t] \in {"join_yield", "join_test"}
    BY <1>1, <2>2 DEF IInv, BlockedOK, JoinOK, CallOK, JoinPc
  <2> QED
    BY <1>1, <2>1, <2>2, SMTT(30) DEF IInv, PcState
<1> QED
  BY <1>1, IInvAlways, PTL

\* While threads wait on a mutex nobody holds, a woken one is on its way.
THEOREM Wakeups == Spec => []NoLostWakeup
<1>1. IInv => NoLostWakeup
  BY DEF IInv
<1> QED
  BY <1>1, IInvAlways, PTL

\* The target of a pthread_join keeps its slot until the join returns, and the
\* value returned is the one the target gave to pthread_exit.
THEOREM Joins == Spec => []JoinSound
<1>1. ASSUME IInv PROVE JoinSound
  BY <1>1, CoreTypes, SMTT(30) DEF IInv, JoinOK, JoinSound
<1> QED
  BY <1>1, IInvAlways, PTL

\* The waiters[] array never overflows while some thread can run, because no
\* thread is queued twice before every thread is blocked or gone.
THEOREM Queues == Spec => []QueuedOnce
<1>1. IInv => QueuedOnce
  BY DEF IInv
<1> QED
  BY <1>1, IInvAlways, PTL

\* A total deadlock is permanent: no interrupt or yield ends it.
THEOREM Deadlocks == Spec => StuckForever
<1>1. ASSUME IInv, [Next]_vars PROVE [Stuck => Stuck']_vars
  BY <1>1, StuckStep DEF Stuck, Runnable
<1> QED
  BY <1>1, IInvAlways, PTL DEF Spec, StuckForever

\* A held mutex is locked and owned by its holder; the first half of
\* MutualExclusion follows.
HeldOK == \A t \in Thread : \A m \in held[t] : locked[m] = 1 /\ owner[m] = t

LEMMA TakeHeld ==
    ASSUME TypeOK, HeldOK, NEW l \in Mutex, locked[l] = 0, Take(l),
           current_thread' = current_thread
    PROVE  HeldOK'
<1>1. /\ held \in [Thread -> SUBSET Mutex] /\ current_thread \in Thread
      /\ locked \in [Mutex -> {0, 1}]
      /\ owner \in [Mutex -> Thread \cup {NoThread}]
  BY DEF TypeOK
<1>2. \A t \in Thread : l \notin held[t]
  <2> SUFFICES ASSUME NEW t \in Thread, l \in held[t]
               PROVE  FALSE
    OBVIOUS
  <2>1. locked[l] = 1
    BY DEF HeldOK
  <2> QED
    BY <2>1, SMTT(30)
<1>3. /\ locked' = [locked EXCEPT ![l] = 1]
      /\ owner' = [owner EXCEPT ![l] = current_thread]
      /\ held' = [held EXCEPT ![current_thread] = held[current_thread] \cup {l}]
  BY <1>1 DEF Take
<1> SUFFICES ASSUME NEW t \in Thread, NEW m \in held'[t]
             PROVE  locked'[m] = 1 /\ owner'[m] = t
  BY DEF HeldOK
<1>4. CASE m = l
  BY <1>1, <1>2, <1>3, <1>4
<1>5. CASE m # l
  <2>1. m \in held[t] /\ m \in Mutex
    BY <1>1, <1>3, <1>5
  <2> QED
    BY <1>1, <1>3, <1>5, <2>1 DEF HeldOK
<1> QED
  BY <1>4, <1>5

LEMMA HeldStep ==
    ASSUME TypeOK, CallOK, HeldOK, [Next]_vars
    PROVE  HeldOK'
<1>0. /\ held \in [Thread -> SUBSET Mutex] /\ current_thread \in Thread
      /\ locked \in [Mutex -> {0, 1}]
      /\ owner \in [Mutex -> Thread \cup {NoThread}]
  BY DEF TypeOK
<1>1. CASE UNCHANGED <<locked, owner, held>>
  BY <1>1 DEF HeldOK
<1>2. ASSUME NEW v \in Value, pthread_exit(v)
      PROVE  HeldOK'
  BY <1>0, <1>2 DEF pthread_exit, HeldOK
<1>3. ASSUME NEW l \in Mutex, pthread_mutex_init(l)
      PROVE  HeldOK'
  <2>1. \A t \in Thread : l \notin held[t]
    BY <1>3, SMTT(30) DEF pthread_mutex_init, ClientDoesNotUse, HeldOK
  <2> QED
    BY <1>0, <1>3, <2>1, SMTT(30) DEF pthread_mutex_init, HeldOK
<1>4. CASE pthread_mutex_lock
  <2>1. PICK l \in Mutex : l = mutex[current_thread]
    BY <1>4, CoreTypes DEF pthread_mutex_lock, At, CallOK, LockPc
  <2>2. current_thread' = current_thread
    BY <1>4 DEF pthread_mutex_lock
  <2> QED
    BY <1>1, <1>4, <2>1, <2>2, TakeHeld DEF pthread_mutex_lock
<1>5. ASSUME NEW l \in Mutex, pthread_mutex_trylock(l)
      PROVE  HeldOK'
  <2>1. CASE locked[l] = 1
    BY <1>1, <1>5, <2>1 DEF pthread_mutex_trylock
  <2>2. CASE locked[l] # 1
    <3>1. Take(l) /\ current_thread' = current_thread
      BY <1>5, <2>2 DEF pthread_mutex_trylock
    <3> QED
      BY <1>0, <2>2, <3>1, TakeHeld
  <2> QED
    BY <2>1, <2>2
<1>6. ASSUME NEW l \in Mutex, pthread_mutex_unlock(l)
      PROVE  HeldOK'
  <2>1. /\ owner[l] = current_thread
        /\ locked' = [locked EXCEPT ![l] = 0]
        /\ owner' = [owner EXCEPT ![l] = NoThread]
        /\ held' = [held EXCEPT ![current_thread] = held[current_thread] \ {l}]
    BY <1>0, <1>6 DEF pthread_mutex_unlock
  <2> SUFFICES ASSUME NEW t \in Thread, NEW m \in held'[t]
               PROVE  locked'[m] = 1 /\ owner'[m] = t
    BY DEF HeldOK
  <2>2. m \in held[t] /\ m # l
    BY <1>0, <2>1 DEF HeldOK
  <2> QED
    BY <1>0, <2>1, <2>2 DEF HeldOK
<1> QED
  BY <1>1, <1>2, <1>3, <1>4, <1>5, <1>6
  DEF Next, ThreadCall, MutexCall, LibraryStep, vars, mutexVars, timer_isr,
      pthread_yield, pthread_create, pthread_create_EAGAIN,
      pthread_create_ENOMEM, CreateCall, dosthread_shutdown,
      pthread_join_check, pthread_join_enter, pthread_join_retest, JoinWhile,
      pthread_join_read, pthread_join_free, pthread_mutex_destroy,
      pthread_mutex_lock_call, pthread_mutex_unlock_EPERM

\* Two threads never both have a mutex, for any number of threads and mutexes.
THEOREM Exclusion == Spec => []MutualExclusion
<1>1. Init => HeldOK
  BY DEF Init, HeldOK
<1>2. TypeOK /\ CallOK /\ HeldOK /\ [Next]_vars => HeldOK'
  BY HeldStep
<1>3. TypeOK /\ HeldOK => MutualExclusion
  BY ThreadFacts, SMTT(30) DEF TypeOK, HeldOK, MutualExclusion
<1> QED
  BY <1>1, <1>2, <1>3, TypeCorrect, PTL DEF Spec
=============================================================================
