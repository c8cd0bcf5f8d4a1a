----------------------------- MODULE DosThread -----------------------------
(***************************************************************************)
(* The DOS thread library, src/host/dos/aed/pthread/dosthread.c: threads   *)
(* multiplexed on one CPU by setjmp/longjmp, preempted by the timer        *)
(* interrupt (INT 08h), with join and blocking mutexes.                    *)
(*                                                                         *)
(* One CPU executes: every step is a step of current_thread.  The code     *)
(* between a cli() and the next sti() cannot be interrupted and is one     *)
(* step; wherever the code runs with interrupts enabled, the timer         *)
(* interrupt may come between two steps.  scheduler_lock is set and        *)
(* cleared within one such step, so it is 0 in every state of the model.   *)
(*                                                                         *)
(* What the client program does is unconstrained (any thread calls any     *)
(* operation at any time, relocks what it holds, exits with a mutex held)  *)
(* but for four rules, each a conjunct named Client...: one thread at a    *)
(* time joins a given thread and never itself, a mutex is initialised and  *)
(* destroyed only while no thread uses it, dosthread_shutdown is called by *)
(* the main thread, and a thread created after it, with interrupts         *)
(* unhooked, is created by a main thread that is alone.                    *)
(***************************************************************************)
EXTENDS Integers, Sequences, FiniteSets

CONSTANTS MAX_THREADS,  \* slots in threads[]
          Mutex,        \* the program's mutex handles
          Value,        \* values given to pthread_exit
          NULL          \* no value, no mutex

ASSUME ConstantsAssumption ==
    /\ MAX_THREADS \in Nat \ {0}
    /\ NULL \notin Value
    /\ NULL \notin Mutex

VARIABLES
    threading_inited,  \* INT 08h is hooked
    current_thread,
    IF_,               \* the CPU's interrupt flag
    state,             \* threads[t].state
    retval,            \* threads[t].retval
    join_waiter,       \* threads[t].join_waiter
    locked,            \* m->locked
    owner,             \* m->owner
    waiters,           \* m->waiters[0 .. nwaiters-1]
    handles,           \* the mutexes whose *mutex is not NULL
    pc,                \* where each thread is in the library
    target,            \* the thread it joins, NoThread outside pthread_join
    mutex,             \* the mutex it wants, NULL outside pthread_mutex_lock
    collected,         \* *retval of its pthread_join
    held               \* history: mutexes its successful locks gave it

threadVars == <<state, retval, join_waiter>>
mutexVars  == <<locked, owner, waiters, handles, held>>
callVars   == <<target, mutex, collected>>
vars == <<threading_inited, current_thread, IF_, threadVars, mutexVars, pc,
          callVars>>

Thread   == 0 .. MAX_THREADS - 1
NoThread == -1

State == {"FREE", "RUNNING", "READY", "BLOCKED", "ZOMBIE"}

\* "start": client code of a thread not yet back from its first library
\* call; "user": client code; "join": before the cli() of pthread_join;
\* "join_yield", "lock_yield": blocked, before the pthread_yield(); "join_test",
\* "lock": at the cli() of the loop; "join_read", "join_free": the target was
\* a zombie; "dead": in the final loop of pthread_exit, or no thread at all.
Pc == {"start", "user", "join", "join_yield", "join_test", "join_read",
       "join_free", "lock", "lock_yield", "dead"}

JoinPc == {"join", "join_yield", "join_test", "join_read", "join_free"}
LockPc == {"lock", "lock_yield"}

InClient == pc[current_thread] \in {"start", "user"}
At(l)    == pc[current_thread] = l
Goto(l)  == pc' = [pc EXCEPT ![current_thread] = l]
sti      == IF_' = 1

Init ==
    /\ threading_inited = 0
    /\ current_thread = 0
    /\ IF_ = 1
    /\ state = [t \in Thread |-> "FREE"]
    /\ retval = [t \in Thread |-> NULL]
    /\ join_waiter = [t \in Thread |-> 0]
    /\ locked = [m \in Mutex |-> 0]
    /\ owner = [m \in Mutex |-> NoThread]
    /\ waiters = [m \in Mutex |-> <<>>]
    /\ handles = {}
    /\ pc = [t \in Thread |-> IF t = 0 THEN "user" ELSE "dead"]
    /\ target = [t \in Thread |-> NoThread]
    /\ mutex = [t \in Thread |-> NULL]
    /\ collected = [t \in Thread |-> NULL]
    /\ held = [t \in Thread |-> {}]

-----------------------------------------------------------------------------
(* The scheduler *)

Runnable == {t \in Thread : state[t] \in {"READY", "RUNNING"}}

\* Fault: the scan starts at slot 0 every time.
ScanFromZero(t) == t

\* How many slots the scan from current_thread + 1 passes before slot t.
ScanIndex(t) == (t - current_thread - 1) % MAX_THREADS

FirstInScan(t) ==
    /\ t \in Runnable
    /\ \A u \in Runnable : ScanIndex(t) <= ScanIndex(u)

\* Faults of scheduler(): the thread switched away from stays RUNNING; the main
\* thread is resumed when nothing can run.
SwitchTo(next) ==
    /\ current_thread' = next
    /\ IF_' = IF pc[next] = "start" THEN 0 ELSE 1

scheduler_PrevStays ==
    \/ /\ Runnable = {} \/ FirstInScan(current_thread)
       /\ sti /\ UNCHANGED <<current_thread, state>>
    \/ \E next \in Runnable \ {current_thread} :
       /\ FirstInScan(next) /\ SwitchTo(next)
       /\ state' = [state EXCEPT ![next] = "RUNNING"]

scheduler_FallsBack ==
    \/ FirstInScan(current_thread) /\ sti /\ UNCHANGED <<current_thread, state>>
    \/ /\ Runnable = {} /\ SwitchTo(0)
       /\ state' = [state EXCEPT ![0] = "RUNNING"]
    \/ \E next \in Runnable \ {current_thread} :
       /\ FirstInScan(next) /\ SwitchTo(next)
       /\ state' = [state EXCEPT ![next] = "RUNNING", ![current_thread] =
                       IF @ = "RUNNING" THEN "READY" ELSE @]

\* scheduler(), followed by the sti() of pthread_yield or the iret of the
\* interrupt.  A new thread's context resumes in thread_wrapper instead, where
\* nothing enables interrupts.
scheduler ==
    \/ /\ Runnable = {} \/ FirstInScan(current_thread)
       /\ sti
       /\ UNCHANGED <<current_thread, state>>
    \/ \E next \in Runnable \ {current_thread} :
       /\ FirstInScan(next)
       /\ current_thread' = next
       /\ state' = [t \in Thread |->
                       IF t = next THEN "RUNNING"
                       ELSE IF t = current_thread /\ state[t] = "RUNNING"
                            THEN "READY" ELSE state[t]]
       /\ IF_' = IF pc[next] = "start" THEN 0 ELSE 1

timer_isr ==
    /\ threading_inited = 1
    /\ IF_ = 1
    /\ scheduler
    /\ UNCHANGED <<threading_inited, retval, join_waiter, mutexVars, pc,
                   callVars>>

\* The caller's next label after it is switched back in.
AfterYield ==
    [start |-> "user", user |-> "user", join_yield |-> "join_test",
     lock_yield |-> "lock", dead |-> "dead"]

pthread_yield ==
    /\ pc[current_thread] \in DOMAIN AfterYield
    /\ scheduler
    /\ Goto(AfterYield[pc[current_thread]])
    /\ UNCHANGED <<threading_inited, retval, join_waiter, mutexVars, callVars>>

-----------------------------------------------------------------------------
(* Start and end of threads *)

ClientAlone == current_thread = 0 /\ \A t \in Thread \ {0} : state[t] = "FREE"

\* The thread table as dosthread_init leaves it, if it is called.
InitedState ==
    IF threading_inited = 1 THEN state
    ELSE [t \in Thread |-> IF t = 0 THEN "RUNNING" ELSE "FREE"]
InitedRetval ==
    IF threading_inited = 1 THEN retval ELSE [t \in Thread |-> NULL]
InitedJoinWaiter ==
    IF threading_inited = 1 THEN join_waiter
    ELSE [t \in Thread |-> IF t = 0 THEN NoThread ELSE 0]

FreeSlot(id) ==
    /\ id \in Thread \ {0}
    /\ InitedState[id] = "FREE"
    /\ \A t \in 1 .. id - 1 : InitedState[t] # "FREE"

CreateCall ==
    /\ InClient
    /\ threading_inited = 1 \/ ClientAlone
    /\ threading_inited' = 1
    /\ current_thread' = (IF threading_inited = 1 THEN current_thread ELSE 0)
    /\ sti
    /\ UNCHANGED <<locked, owner, waiters, handles, callVars>>

pthread_create ==
    /\ CreateCall
    /\ \E id \in Thread :
       /\ FreeSlot(id)
       /\ state' = [InitedState EXCEPT ![id] = "READY"]
       /\ retval' = [InitedRetval EXCEPT ![id] = NULL]
       /\ join_waiter' = [InitedJoinWaiter EXCEPT ![id] = NoThread]
       /\ pc' = [pc EXCEPT ![current_thread] = "user", ![id] = "start"]
    /\ UNCHANGED held

pthread_create_EAGAIN ==
    /\ CreateCall
    /\ \A id \in Thread : ~FreeSlot(id)
    /\ state' = InitedState
    /\ retval' = InitedRetval
    /\ join_waiter' = InitedJoinWaiter
    /\ Goto("user")
    /\ UNCHANGED held

\* malloc fails after the slot was zeroed.
pthread_create_ENOMEM ==
    /\ CreateCall
    /\ \E id \in Thread :
       /\ FreeSlot(id)
       /\ state' = InitedState
       /\ retval' = [InitedRetval EXCEPT ![id] = NULL]
       /\ join_waiter' = [InitedJoinWaiter EXCEPT ![id] = 0]
    /\ Goto("user")
    /\ UNCHANGED held

\* Fault: the thread in pthread_join is not made READY.
pthread_exit_NoWake(v) ==
    /\ InClient
    /\ retval' = [retval EXCEPT ![current_thread] = v]
    /\ state' = [state EXCEPT ![current_thread] = "ZOMBIE"]
    /\ held' = [held EXCEPT ![current_thread] = {}]
    /\ Goto("dead")
    /\ sti
    /\ UNCHANGED <<threading_inited, current_thread, join_waiter, locked,
                   owner, waiters, handles, callVars>>

\* pthread_exit up to its loop of pthread_yield.  thread_wrapper calls it with
\* what the start routine returns.
pthread_exit(v) ==
    /\ InClient
    /\ retval' = [retval EXCEPT ![current_thread] = v]
    /\ LET jw == join_waiter[current_thread] IN
       state' = [t \in Thread |->
                    IF t = current_thread THEN "ZOMBIE"
                    ELSE IF t = jw /\ state[t] = "BLOCKED" THEN "READY"
                    ELSE state[t]]
    /\ held' = [held EXCEPT ![current_thread] = {}]
    /\ Goto("dead")
    /\ sti
    /\ UNCHANGED <<threading_inited, current_thread, join_waiter, locked,
                   owner, waiters, handles, callVars>>

\* Called once the program is about to end; threads go on without preemption.
dosthread_shutdown ==
    /\ InClient
    /\ current_thread = 0       \* ClientShutsDownInMain
    /\ threading_inited = 1
    /\ threading_inited' = 0
    /\ sti
    /\ Goto("user")
    /\ UNCHANGED <<current_thread, threadVars, mutexVars, callVars>>

-----------------------------------------------------------------------------
(* pthread_join *)

ClientJoinsOnce(x) == x # current_thread /\ \A t \in Thread : target[t] # x

\* The test before the cli(); an invalid id returns ESRCH and changes nothing.
pthread_join_check(x) ==
    /\ InClient
    /\ ClientJoinsOnce(x)
    /\ state[x] # "FREE"
    /\ target' = [target EXCEPT ![current_thread] = x]
    /\ Goto("join")
    /\ UNCHANGED <<threading_inited, current_thread, IF_, threadVars,
                   mutexVars, mutex, collected>>

\* The test of the while loop, and the body up to its sti().
JoinWhile ==
    /\ IF state[target[current_thread]] # "ZOMBIE"
       THEN /\ state' = [state EXCEPT ![current_thread] = "BLOCKED"]
            /\ Goto("join_yield")
       ELSE /\ Goto("join_read")
            /\ UNCHANGED state
    /\ sti
    /\ UNCHANGED <<threading_inited, current_thread, retval, mutexVars,
                   callVars>>

\* Fault: join_waiter is not set.
pthread_join_enter_NoWaiter == At("join") /\ JoinWhile /\ UNCHANGED join_waiter

pthread_join_enter ==
    /\ At("join")
    /\ join_waiter' =
          [join_waiter EXCEPT ![target[current_thread]] = current_thread]
    /\ JoinWhile

pthread_join_retest ==
    /\ At("join_test")
    /\ JoinWhile
    /\ UNCHANGED join_waiter

\* Fault: the slot is released before its retval is read.
pthread_join_read_FreesFirst ==
    /\ At("join_read")
    /\ state' = [state EXCEPT ![target[current_thread]] = "FREE"]
    /\ Goto("join_free")
    /\ UNCHANGED <<threading_inited, current_thread, IF_, retval, join_waiter,
                   mutexVars, callVars>>

pthread_join_read ==
    /\ At("join_read")
    /\ collected' =
          [collected EXCEPT ![current_thread] = retval[target[current_thread]]]
    /\ Goto("join_free")
    /\ UNCHANGED <<threading_inited, current_thread, IF_, threadVars,
                   mutexVars, target, mutex>>

pthread_join_free ==
    /\ At("join_free")
    /\ state' = [state EXCEPT ![target[current_thread]] = "FREE"]
    /\ target' = [target EXCEPT ![current_thread] = NoThread]
    /\ collected' = [collected EXCEPT ![current_thread] = NULL]
    /\ Goto("user")
    /\ sti
    /\ UNCHANGED <<threading_inited, current_thread, retval, join_waiter,
                   mutexVars, mutex>>

-----------------------------------------------------------------------------
(* Mutexes *)

ClientDoesNotUse(m) ==
    /\ locked[m] = 0
    /\ \A t \in Thread : mutex[t] # m

pthread_mutex_init(m) ==
    /\ InClient
    /\ m \notin handles /\ ClientDoesNotUse(m)
    /\ handles' = handles \cup {m}
    /\ locked' = [locked EXCEPT ![m] = 0]
    /\ owner' = [owner EXCEPT ![m] = NoThread]
    /\ waiters' = [waiters EXCEPT ![m] = <<>>]
    /\ UNCHANGED <<threading_inited, current_thread, IF_, threadVars, held, pc,
                   callVars>>

pthread_mutex_destroy(m) ==
    /\ InClient
    /\ m \in handles /\ ClientDoesNotUse(m)
    /\ handles' = handles \ {m}
    /\ UNCHANGED <<threading_inited, current_thread, IF_, threadVars, locked,
                   owner, waiters, held, pc, callVars>>

\* m->locked = 1, m->owner = current_thread
Take(m) ==
    /\ locked' = [locked EXCEPT ![m] = 1]
    /\ owner' = [owner EXCEPT ![m] = current_thread]
    /\ held' = [held EXCEPT ![current_thread] = @ \cup {m}]

\* The EINVAL test of pthread_mutex_lock.
pthread_mutex_lock_call(m) ==
    /\ InClient
    /\ m \in handles
    /\ mutex' = [mutex EXCEPT ![current_thread] = m]
    /\ Goto("lock")
    /\ UNCHANGED <<threading_inited, current_thread, IF_, threadVars,
                   mutexVars, target, collected>>

\* Fault: the thread queues but stays runnable.
pthread_mutex_lock_NotBlocked ==
    /\ At("lock")
    /\ LET m == mutex[current_thread] IN
       \/ /\ locked[m] = 0
          /\ Take(m)
          /\ mutex' = [mutex EXCEPT ![current_thread] = NULL]
          /\ Goto("user")
          /\ UNCHANGED waiters
       \/ /\ locked[m] = 1
          /\ waiters' = IF Len(waiters[m]) < MAX_THREADS
                        THEN [waiters EXCEPT ![m] = Append(@, current_thread)]
                        ELSE waiters
          /\ Goto("lock_yield")
          /\ UNCHANGED <<locked, owner, held, mutex>>
    /\ sti
    /\ UNCHANGED <<threading_inited, current_thread, threadVars, handles, target,
                   collected>>

\* One turn of the for (;;) loop, up to its sti().
pthread_mutex_lock ==
    /\ At("lock")
    /\ LET m == mutex[current_thread] IN
       \/ /\ locked[m] = 0
          /\ Take(m)
          /\ mutex' = [mutex EXCEPT ![current_thread] = NULL]
          /\ Goto("user")
          /\ UNCHANGED <<state, waiters>>
       \/ /\ locked[m] = 1
          /\ waiters' = IF Len(waiters[m]) < MAX_THREADS
                        THEN [waiters EXCEPT ![m] = Append(@, current_thread)]
                        ELSE waiters
          /\ state' = [state EXCEPT ![current_thread] = "BLOCKED"]
          /\ Goto("lock_yield")
          /\ UNCHANGED <<locked, owner, held, mutex>>
    /\ sti
    /\ UNCHANGED <<threading_inited, current_thread, retval, join_waiter,
                   handles, target, collected>>

\* EBUSY leaves the mutex alone; both outcomes enable interrupts.
pthread_mutex_trylock(m) ==
    /\ InClient
    /\ m \in handles
    /\ IF locked[m] = 1 THEN UNCHANGED <<locked, owner, held>> ELSE Take(m)
    /\ sti
    /\ Goto("user")
    /\ UNCHANGED <<threading_inited, current_thread, threadVars, waiters,
                   handles, callVars>>

\* threads[w] becomes READY if it is blocked.
Wake(w) ==
    state' = [state EXCEPT ![w] = IF @ = "BLOCKED" THEN "READY" ELSE @]

\* Faults: no owner test; nwaiters > 1 for nwaiters > 0.
pthread_mutex_unlock_AnyThread(m) ==
    /\ InClient
    /\ m \in handles
    /\ locked[m] = 1
    /\ locked' = [locked EXCEPT ![m] = 0]
    /\ owner' = [owner EXCEPT ![m] = NoThread]
    /\ held' = [held EXCEPT ![current_thread] = @ \ {m}]
    /\ IF waiters[m] # <<>>
       THEN /\ waiters' = [waiters EXCEPT ![m] = Tail(@)]
            /\ Wake(Head(waiters[m]))
       ELSE UNCHANGED <<waiters, state>>
    /\ sti
    /\ Goto("user")
    /\ UNCHANGED <<threading_inited, current_thread, retval, join_waiter,
                   handles, callVars>>

pthread_mutex_unlock_OffByOne(m) ==
    /\ InClient
    /\ m \in handles
    /\ locked[m] = 1 /\ owner[m] = current_thread
    /\ locked' = [locked EXCEPT ![m] = 0]
    /\ owner' = [owner EXCEPT ![m] = NoThread]
    /\ held' = [held EXCEPT ![current_thread] = @ \ {m}]
    /\ IF Len(waiters[m]) > 1
       THEN /\ waiters' = [waiters EXCEPT ![m] = Tail(@)]
            /\ Wake(Head(waiters[m]))
       ELSE UNCHANGED <<waiters, state>>
    /\ sti
    /\ Goto("user")
    /\ UNCHANGED <<threading_inited, current_thread, retval, join_waiter,
                   handles, callVars>>

pthread_mutex_unlock(m) ==
    /\ InClient
    /\ m \in handles
    /\ locked[m] = 1 /\ owner[m] = current_thread
    /\ locked' = [locked EXCEPT ![m] = 0]
    /\ owner' = [owner EXCEPT ![m] = NoThread]
    /\ held' = [held EXCEPT ![current_thread] = @ \ {m}]
    /\ IF waiters[m] # <<>>
       THEN /\ waiters' = [waiters EXCEPT ![m] = Tail(@)]
            /\ Wake(Head(waiters[m]))
       ELSE UNCHANGED <<waiters, state>>
    /\ sti
    /\ Goto("user")
    /\ UNCHANGED <<threading_inited, current_thread, retval, join_waiter,
                   handles, callVars>>

pthread_mutex_unlock_EPERM(m) ==
    /\ InClient
    /\ m \in handles
    /\ locked[m] = 0 \/ owner[m] # current_thread
    /\ sti
    /\ Goto("user")
    /\ UNCHANGED <<threading_inited, current_thread, threadVars, mutexVars,
                   callVars>>

-----------------------------------------------------------------------------

ThreadCall ==
    \/ pthread_create
    \/ pthread_create_EAGAIN
    \/ pthread_create_ENOMEM
    \/ \E v \in Value : pthread_exit(v)
    \/ dosthread_shutdown
    \/ \E x \in Thread : pthread_join_check(x)

MutexCall ==
    \E m \in Mutex :
       \/ pthread_mutex_init(m)
       \/ pthread_mutex_destroy(m)
       \/ pthread_mutex_lock_call(m)
       \/ pthread_mutex_trylock(m)
       \/ pthread_mutex_unlock(m)
       \/ pthread_mutex_unlock_EPERM(m)

\* Steps inside a library call that has begun.
LibraryStep ==
    \/ pthread_yield
    \/ pthread_join_enter
    \/ pthread_join_retest
    \/ pthread_join_read
    \/ pthread_join_free
    \/ pthread_mutex_lock

Next == timer_isr \/ ThreadCall \/ MutexCall \/ LibraryStep

Spec == Init /\ [][Next]_vars

-----------------------------------------------------------------------------
(* Safety *)

\* The types of the state.
TypeOK ==
    /\ threading_inited \in {0, 1}
    /\ current_thread \in Thread
    /\ IF_ \in {0, 1}
    /\ state \in [Thread -> State]
    /\ retval \in [Thread -> Value \cup {NULL}]
    /\ join_waiter \in [Thread -> Thread \cup {NoThread}]
    /\ locked \in [Mutex -> {0, 1}]
    /\ owner \in [Mutex -> Thread \cup {NoThread}]
    /\ waiters \in [Mutex -> Seq(Thread)]
    /\ handles \in SUBSET Mutex
    /\ pc \in [Thread -> Pc]
    /\ target \in [Thread -> Thread \cup {NoThread}]
    /\ mutex \in [Thread -> Mutex \cup {NULL}]
    /\ collected \in [Thread -> Value \cup {NULL}]
    /\ held \in [Thread -> SUBSET Mutex]

Waiting(m) == {waiters[m][i] : i \in DOMAIN waiters[m]}

\* Only current_thread is RUNNING, and application code (code outside the
\* library) is only ever executed, or left to be resumed, by threads that are
\* neither blocked nor exited: blocking calls do not return early.
DispatchedIsRunning ==
    /\ \A t \in Thread : state[t] = "RUNNING" => t = current_thread
    /\ \A t \in Thread :
          pc[t] \in {"start", "user"} =>
             \/ state[t] = IF t = current_thread THEN "RUNNING" ELSE "READY"
             \/ t = 0 /\ t = current_thread /\ threading_inited = 0

\* Two threads never both have a mutex their lock or trylock gave them, and
\* the owner recorded in the mutex is the thread that has it.
MutualExclusion ==
    /\ \A t, u \in Thread : t # u => held[t] \cap held[u] = {}
    /\ \A t \in Thread : \A m \in held[t] : locked[m] = 1 /\ owner[m] = t

\* Whoever is BLOCKED can be woken: a thread in pthread_mutex_lock is in the
\* queue of its mutex, a thread in pthread_join is the join_waiter of a
\* thread that has yet to exit.
BlockedHasWaker ==
    \A t \in Thread : state[t] = "BLOCKED" =>
       \/ pc[t] \in LockPc /\ t \in Waiting(mutex[t])
       \/ /\ pc[t] \in {"join_yield", "join_test"}
          /\ join_waiter[target[t]] = t
          /\ state[target[t]] \notin {"FREE", "ZOMBIE"}

\* An unlock never loses the queue: while threads wait on a mutex nobody
\* holds, one thread already woken is on its way to take it.
NoLostWakeup ==
    \A m \in Mutex : waiters[m] # <<>> =>
       \/ locked[m] = 1
       \/ \E t \in Thread : /\ mutex[t] = m
                            /\ state[t] \in {"READY", "RUNNING"}

\* The test of the target made before the cli() of pthread_join still holds
\* when it is used, and what pthread_join returns is what the target gave to
\* pthread_exit: its slot is not released or reused on the way.
JoinSound ==
    \A t \in Thread : target[t] # NoThread =>
       /\ state[target[t]] # "FREE"
       /\ pc[t] \in {"join_read", "join_free"} => state[target[t]] = "ZOMBIE"
       /\ pc[t] = "join_free" => collected[t] = retval[target[t]]

\* No thread can run: the CPU spins in the last caller's wait loop.
Stuck == Runnable = {} /\ state[current_thread] \in {"BLOCKED", "ZOMBIE"}

\* A thread queues twice on a mutex only when every thread is blocked or gone.
QueuedOnce ==
    \A m \in Mutex : \A i, j \in DOMAIN waiters[m] :
       waiters[m][i] = waiters[m][j] => i = j \/ Stuck

\* A total deadlock is permanent.
StuckForever == [][Stuck => Stuck']_vars

-----------------------------------------------------------------------------
(* Liveness *)

\* What the hardware guarantees: an enabled timer interrupt comes, and a thread
\* dispatched again and again inside a library call gets on with it: the time
\* between two ticks is long enough for the next step of the call.
HardwareFairness ==
    /\ WF_vars(timer_isr)
    /\ \A t \in Thread :
          SF_vars(current_thread = t /\ ~InClient /\ LibraryStep)

\* What the client must add: a new thread returns from its start routine or
\* calls an operation that enables interrupts.
ClientFairness == WF_vars(At("start") /\ Next /\ IF_' = 1)

HardwareSpec == Spec /\ HardwareFairness
FairSpec == Spec /\ HardwareFairness /\ ClientFairness

\* While the timer is hooked, a thread that is READY gets the CPU.
ReadyIsDispatched ==
    \A t \in Thread :
       state[t] = "READY" ~> (current_thread = t \/ threading_inited = 0)

\* A thread in pthread_join on a thread that has exited returns.
JoinReturns ==
    \A t \in Thread :
       (target[t] # NoThread /\ state[target[t]] = "ZOMBIE")
          ~> (target[t] = NoThread \/ threading_inited = 0)

\* A mutex that is free and wanted is taken.
FreeMutexIsTaken ==
    \A m \in Mutex :
       (locked[m] = 0 /\ waiters[m] # <<>>)
          ~> (locked[m] = 1 \/ threading_inited = 0)
=============================================================================
