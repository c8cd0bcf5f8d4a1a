-------------------------------- MODULE Ipc --------------------------------
(***************************************************************************)
(* The message queue of src/mirix/ipc/ipc.c and the system calls on it in  *)
(* src/mirix/syscall/syscall.c.                                            *)
(*                                                                         *)
(* Every process that has called ipc_system_init has a ring of messages in *)
(* memory of its own (malloc, copied by fork); what the processes of the   *)
(* machine share is the named semaphore "/mirix_ipc_sem" that every        *)
(* operation holds while it works on its ring.  A caller is a thread of a  *)
(* process.  sem_wait is a step, and the code up to sem_post another: the  *)
(* invariant Exclusive says that nobody else is in that code.              *)
(*                                                                         *)
(* A process may die at any step, and its semaphore stays as it was; a new *)
(* process then starts under the same number.  Client rules: cleanup and   *)
(* fork are called while no other thread of the process is in a call.      *)
(***************************************************************************)
EXTENDS Integers, Sequences, FiniteSets

CONSTANTS Process,   \* host processes that run the kernel
          Thread,    \* threads of a process
          Pid,       \* receivers a message can name
          Data,      \* contents of a message
          DataSize,  \* its length
          MIRIX_IPC_MAX_DATA_SIZE,
          CAPACITY,  \* slots in the ring
          Sem,       \* semaphore objects of the host
          NULL

ASSUME IpcAssumption ==
    /\ CAPACITY \in Nat \ {0}
    /\ MIRIX_IPC_MAX_DATA_SIZE \in Nat
    /\ DataSize \subseteq Nat
    /\ Process \subseteq Pid
    /\ NULL \notin Pid \cup Data \cup Sem

VARIABLES
    initialized,    \* the processes with ipc_state.initialized
    message_queue,  \* ipc_state.message_queue of each process
    message_sem,    \* the semaphore it opened
    name,           \* what "/mirix_ipc_sem" names, NULL if nothing
    value,          \* the value of each semaphore
    pc,             \* where each caller is
    arg,            \* the message it sends
    receiver_pid,   \* the receiver it receives for
    block,          \* 1 when it receives with block = true
    msg,            \* *msg of its last receive
    orphaned        \* history: semaphores a process died with

queueVars == <<initialized, message_queue, message_sem>>
semVars   == <<name, value, orphaned>>
callVars  == <<pc, arg, receiver_pid, block, msg>>
vars == <<queueVars, semVars, callVars>>

Caller  == Process \X Thread
Slot    == 0 .. CAPACITY - 1
Message == [sender_pid : Pid, receiver_pid : Pid, data_size : DataSize,
            data : Data]

\* Memory from malloc: no field of it is a value the code has written.
Garbage == [sender_pid |-> NULL, receiver_pid |-> NULL, data_size |-> 0,
            data |-> NULL]

EmptyQueue == [messages |-> [i \in Slot |-> Garbage],
               head |-> 0, tail |-> 0, count |-> 0]

InCriticalSection == {c \in Caller : pc[c] \in {"sending", "receiving"}}
Holders(s) == {c \in InCriticalSection : message_sem[c[1]] = s}
Quiet(k)   == \A t \in Thread : pc[<<k, t>>] = "idle"

Init ==
    /\ initialized = {}
    /\ message_queue = [k \in Process |-> EmptyQueue]
    /\ message_sem = [k \in Process |-> NULL]
    /\ name = NULL
    /\ value = [s \in Sem |-> 0]
    /\ pc = [c \in Caller |-> "idle"]
    /\ arg = [c \in Caller |-> NULL]
    /\ receiver_pid = [c \in Caller |-> NULL]
    /\ block = [c \in Caller |-> 0]
    /\ msg = [c \in Caller |-> NULL]
    /\ orphaned = {}

-----------------------------------------------------------------------------
(* The named semaphore (host libc) *)

InUse(s) == s = name \/ \E k \in Process : message_sem[k] = s

\* O_CREAT without O_EXCL: an existing semaphore is opened as it is.
sem_open(k) ==
    \/ /\ name # NULL
       /\ message_sem' = [message_sem EXCEPT ![k] = name]
       /\ UNCHANGED semVars
    \/ /\ name = NULL
       /\ \E s \in Sem :
          /\ ~InUse(s)
          /\ name' = s
          /\ value' = [value EXCEPT ![s] = 1]
          /\ orphaned' = orphaned \ {s}
          /\ message_sem' = [message_sem EXCEPT ![k] = s]

sem_wait(k) ==
    /\ value[message_sem[k]] > 0
    /\ value' = [value EXCEPT ![message_sem[k]] = @ - 1]
    /\ UNCHANGED <<name, orphaned>>

sem_post(k) ==
    /\ value' = [value EXCEPT ![message_sem[k]] = @ + 1]
    /\ UNCHANGED <<name, orphaned>>

-----------------------------------------------------------------------------
(* Processes *)

ipc_system_init(k) ==
    /\ k \notin initialized
    /\ initialized' = initialized \cup {k}
    /\ message_queue' = [message_queue EXCEPT ![k] = EmptyQueue]
    /\ sem_open(k)
    /\ UNCHANGED callVars

\* The name goes, whoever else has the semaphore open.
ipc_system_cleanup(k) ==
    /\ k \in initialized
    /\ Quiet(k)
    /\ initialized' = initialized \ {k}
    /\ message_queue' = [message_queue EXCEPT ![k] = EmptyQueue]
    /\ message_sem' = [message_sem EXCEPT ![k] = NULL]
    /\ name' = NULL
    /\ msg' = [c \in Caller |-> IF c[1] = k THEN NULL ELSE msg[c]]
    /\ UNCHANGED <<value, orphaned, pc, arg, receiver_pid, block>>

\* The child j has the parent's ring and its open semaphore.
syscall_fork(k, j) ==
    /\ k \in initialized
    /\ j \notin initialized
    /\ Quiet(k)
    /\ initialized' = initialized \cup {j}
    /\ message_queue' = [message_queue EXCEPT ![j] = message_queue[k]]
    /\ message_sem' = [message_sem EXCEPT ![j] = message_sem[k]]
    /\ UNCHANGED <<semVars, callVars>>

\* Process k dies: its memory goes, the semaphore keeps its value.
Crash(k) ==
    LET Cleared(f, v) == [c \in Caller |-> IF c[1] = k THEN v ELSE f[c]]
    IN /\ k \in initialized
       /\ orphaned' = IF \E c \in InCriticalSection : c[1] = k
                      THEN orphaned \cup {message_sem[k]} ELSE orphaned
       /\ initialized' = initialized \ {k}
       /\ message_queue' = [message_queue EXCEPT ![k] = EmptyQueue]
       /\ message_sem' = [message_sem EXCEPT ![k] = NULL]
       /\ pc' = Cleared(pc, "idle")
       /\ arg' = Cleared(arg, NULL)
       /\ receiver_pid' = Cleared(receiver_pid, NULL)
       /\ block' = Cleared(block, 0)
       /\ msg' = Cleared(msg, NULL)
       /\ UNCHANGED <<name, value>>

-----------------------------------------------------------------------------
(* ipc_send_message *)

Idle(c) == pc[c] = "idle" /\ c[1] \in initialized

ipc_send_message(c, m) ==
    /\ Idle(c)
    /\ pc' = [pc EXCEPT ![c] = "send"]
    /\ arg' = [arg EXCEPT ![c] = m]
    /\ msg' = [msg EXCEPT ![c] = NULL]
    /\ UNCHANGED <<queueVars, semVars, receiver_pid, block>>

ipc_send_wait(c) ==
    /\ pc[c] = "send"
    /\ sem_wait(c[1])
    /\ pc' = [pc EXCEPT ![c] = "sending"]
    /\ UNCHANGED <<queueVars, arg, receiver_pid, block, msg>>

Full(q) == q.count >= CAPACITY
Fits(m) == m.data_size <= MIRIX_IPC_MAX_DATA_SIZE

\* The header is written before the size is looked at: a message that is too
\* large changes the free slot at tail, and is not published.
WithHeader(q, m) ==
    [q EXCEPT !.messages[q.tail] = [m EXCEPT !.data = q.messages[q.tail].data]]

Publish(q, m) ==
    [q EXCEPT !.messages[q.tail] = m,
              !.tail = (q.tail + 1) % CAPACITY,
              !.count = @ + 1]

\* Fault: the queue is updated before the size is tested.
Enqueue_Publishes(q, m) == IF Full(q) THEN q ELSE Publish(q, m)

Enqueue(q, m) ==
    IF Full(q) THEN q
    ELSE IF Fits(m) THEN Publish(q, m) ELSE WithHeader(q, m)

\* Fault: the return for a full queue without sem_post.
ipc_send_body_KeepsSem(c) ==
    LET k == c[1] IN
    /\ pc[c] = "sending"
    /\ message_queue' = [message_queue EXCEPT ![k] = Enqueue(@, arg[c])]
    /\ IF Full(message_queue[k]) THEN UNCHANGED semVars ELSE sem_post(k)
    /\ pc' = [pc EXCEPT ![c] = "idle"]
    /\ arg' = [arg EXCEPT ![c] = NULL]
    /\ UNCHANGED <<initialized, message_sem, receiver_pid, block, msg>>

ipc_send_body(c) ==
    LET k == c[1] IN
    /\ pc[c] = "sending"
    /\ message_queue' = [message_queue EXCEPT ![k] = Enqueue(@, arg[c])]
    /\ sem_post(k)
    /\ pc' = [pc EXCEPT ![c] = "idle"]
    /\ arg' = [arg EXCEPT ![c] = NULL]
    /\ UNCHANGED <<initialized, message_sem, receiver_pid, block, msg>>

-----------------------------------------------------------------------------
(* ipc_receive_message *)

ipc_receive_message(c, p, b) ==
    /\ Idle(c)
    /\ pc' = [pc EXCEPT ![c] = "receive"]
    /\ receiver_pid' = [receiver_pid EXCEPT ![c] = p]
    /\ block' = [block EXCEPT ![c] = b]
    /\ msg' = [msg EXCEPT ![c] = NULL]
    /\ UNCHANGED <<queueVars, semVars, arg>>

\* Fault: no sem_wait.
ipc_receive_wait_NoSem(c) ==
    /\ pc[c] = "receive"
    /\ pc' = [pc EXCEPT ![c] = "receiving"]
    /\ UNCHANGED <<queueVars, semVars, arg, receiver_pid, block, msg>>

ipc_receive_wait(c) ==
    /\ pc[c] = "receive"
    /\ sem_wait(c[1])
    /\ pc' = [pc EXCEPT ![c] = "receiving"]
    /\ UNCHANGED <<queueVars, arg, receiver_pid, block, msg>>

\* The slot of the i-th pending message, counted from 0.
Index(q, i) == (q.head + i) % CAPACITY

\* Fault: the scan starts at the second message.
Candidates_SkipHead(q, p) ==
    {i \in 1 .. q.count - 1 : q.messages[Index(q, i)].receiver_pid = p}

Candidates(q, p) ==
    {i \in 0 .. q.count - 1 : q.messages[Index(q, i)].receiver_pid = p}

\* The i at which the scan breaks: the oldest message for p.
Found(q, p) ==
    CHOOSE i \in Candidates(q, p) : \A j \in Candidates(q, p) : i <= j

\* How far slot s is from the head.
Distance(q, s) == (s - q.head) % CAPACITY
Prev(s) == (s - 1) % CAPACITY

\* The messages older than the i-th move up one slot, over the i-th.  The
\* loop goes down from the i-th, so that it reads a slot before it writes it.
Shift(q, i) ==
    [s \in Slot |-> IF Distance(q, s) \in 1 .. i
                    THEN q.messages[Prev(s)] ELSE q.messages[s]]

\* Fault: the slot is given back, but nothing is shifted.
Dequeue_NoShift(q, i) ==
    [q EXCEPT !.head = (@ + 1) % CAPACITY, !.count = @ - 1]

Dequeue(q, i) ==
    [q EXCEPT !.messages = Shift(q, i),
              !.head = (@ + 1) % CAPACITY,
              !.count = @ - 1]

ipc_receive_found(c) ==
    LET k == c[1]
        q == message_queue[k]
        i == Found(q, receiver_pid[c])
    IN /\ pc[c] = "receiving"
       /\ Candidates(q, receiver_pid[c]) # {}
       /\ msg' = [msg EXCEPT ![c] = q.messages[Index(q, i)]]
       /\ message_queue' = [message_queue EXCEPT ![k] = Dequeue(q, i)]
       /\ sem_post(k)
       /\ pc' = [pc EXCEPT ![c] = "idle"]
       /\ receiver_pid' = [receiver_pid EXCEPT ![c] = NULL]
       /\ block' = [block EXCEPT ![c] = 0]
       /\ UNCHANGED <<initialized, message_sem, arg>>

\* No message: the call returns -1 or sleeps for a millisecond.
ipc_receive_none(c) ==
    /\ pc[c] = "receiving"
    /\ Candidates(message_queue[c[1]], receiver_pid[c]) = {}
    /\ sem_post(c[1])
    /\ \/ /\ block[c] = 0
          /\ pc' = [pc EXCEPT ![c] = "idle"]
          /\ receiver_pid' = [receiver_pid EXCEPT ![c] = NULL]
       \/ /\ block[c] = 1
          /\ pc' = [pc EXCEPT ![c] = "sleep"]
          /\ UNCHANGED receiver_pid
    /\ UNCHANGED <<queueVars, arg, block, msg>>

usleep(c) ==
    /\ pc[c] = "sleep"
    /\ pc' = [pc EXCEPT ![c] = "receive"]
    /\ UNCHANGED <<queueVars, semVars, arg, receiver_pid, block, msg>>

-----------------------------------------------------------------------------
(* System calls: sender and receiver are getpid(), a receive blocks *)

syscall_ipc_send(c) ==
    \E m \in Message : m.sender_pid = c[1] /\ ipc_send_message(c, m)

syscall_ipc_recv(c) == ipc_receive_message(c, c[1], 1)

Call(c) ==
    \/ syscall_ipc_send(c)
    \/ syscall_ipc_recv(c)
    \/ \E p \in Pid, b \in {0, 1} : ipc_receive_message(c, p, b)

\* Steps inside a call, apart from sem_wait.
Step(c) ==
    \/ ipc_send_body(c)
    \/ ipc_receive_found(c)
    \/ ipc_receive_none(c)
    \/ usleep(c)

Wait(c) == ipc_send_wait(c) \/ ipc_receive_wait(c)

Start ==
    \/ \E k \in Process : ipc_system_init(k)
    \/ \E k, j \in Process : syscall_fork(k, j)

Stop == \E k \in Process : ipc_system_cleanup(k) \/ Crash(k)

Next == Start \/ Stop \/ \E c \in Caller : Call(c) \/ Step(c) \/ Wait(c)

Spec == Init /\ [][Next]_vars

\* The kernel's own use: system calls and forks, nobody dies.
SyscallNext ==
    \/ Start
    \/ \E c \in Caller :
          syscall_ipc_send(c) \/ syscall_ipc_recv(c) \/ Step(c) \/ Wait(c)

-----------------------------------------------------------------------------
(* Safety *)

Pc == {"idle", "send", "sending", "receive", "receiving", "sleep"}

\* The pending messages of a ring, oldest first.
View(q) == [i \in 1 .. q.count |-> q.messages[Index(q, i - 1)]]

\* tail is count slots after head, and every pending message was written by
\* a send that succeeded: the header that a refused send leaves in the slot
\* at tail, and memory that was never written, are not read.
QueueWellFormed ==
    \A k \in Process :
       LET q == message_queue[k] IN
       /\ q.tail = (q.head + q.count) % CAPACITY
       /\ \A i \in 1 .. q.count : View(q)[i] \in Message /\ Fits(View(q)[i])

\* One caller at a time works on a ring: the code between sem_wait and
\* sem_post is never executed by two callers with one semaphore.
Exclusive ==
    \A c, d \in InCriticalSection :
       message_sem[c[1]] = message_sem[d[1]] => c = d

\* A semaphore in use is at 0 exactly while somebody is in the code it
\* protects, or after a process died there: no return path forgets sem_post.
SemaphoreOwned ==
    \A s \in Sem : InUse(s) =>
       value[s] = 1 - Cardinality(Holders(s)) - (IF s \in orphaned THEN 1 ELSE 0)

\* The rings implement the queues of IpcQueue: messages are neither lost nor
\* duplicated nor reordered by the wrap-around and the shift.
Abstract == INSTANCE IpcQueue
               WITH queue <- [k \in Process |-> View(message_queue[k])],
                    inbox <- msg
ImplementsQueue == Abstract!Spec

-----------------------------------------------------------------------------
(* Liveness *)

\* The host runs every thread.  sem_wait is strongly fair: a waiter is woken
\* by sem_post, and whoever polls sleeps between two tries.
Fairness == \A c \in Caller : WF_vars(Step(c)) /\ SF_vars(Wait(c))

FairSpec == Spec /\ Fairness
SyscallSpec == Init /\ [][SyscallNext]_vars /\ Fairness

Orphaned(c) == message_sem[c[1]] \in orphaned

\* A send returns, unless a process died between sem_wait and sem_post.
SendReturns ==
    \A c \in Caller : pc[c] = "send" ~> (pc[c] = "idle" \/ Orphaned(c))

HasMessage(k, p) ==
    \E i \in 1 .. message_queue[k].count :
       View(message_queue[k])[i].receiver_pid = p

\* A receive returns when its process has a message for it, with that message
\* or after another receive for the same receiver took it.
PendingIsReceived ==
    \A c \in Caller, p \in Pid :
       (receiver_pid[c] = p /\ HasMessage(c[1], p))
          ~> (pc[c] = "idle" \/ ~HasMessage(c[1], p) \/ Orphaned(c))

\* IPC between processes: while a message sent to process p is pending, a
\* syscall_ipc_recv of p returns.
SentIsReceived ==
    \A k, p \in Process, t \in Thread :
       (HasMessage(k, p) /\ receiver_pid[<<p, t>>] = p)
          ~> receiver_pid[<<p, t>>] = NULL
=============================================================================
