------------------------------ MODULE IpcQueue ------------------------------
(***************************************************************************)
(* What src/mirix/ipc/ipc.c promises its callers, without slots, indices   *)
(* or a semaphore: each process has one bounded queue; a send appends to   *)
(* it or is refused; a receive takes the OLDEST message addressed to the   *)
(* receiver and leaves the others in their order.                          *)
(***************************************************************************)
EXTENDS Naturals, Sequences

CONSTANTS Process, Caller, Message, CAPACITY, NULL

VARIABLES queue,  \* queue[k]: the messages pending in process k, oldest first
          inbox   \* inbox[c]: the message the last receive of c gave it

Init ==
    /\ queue = [k \in Process |-> <<>>]
    /\ inbox = [c \in Caller |-> NULL]

Send(k, m) ==
    /\ Len(queue[k]) < CAPACITY
    /\ queue' = [queue EXCEPT ![k] = Append(@, m)]
    /\ UNCHANGED inbox

Oldest(k, i) ==
    \A j \in 1 .. i - 1 :
       queue[k][j].receiver_pid # queue[k][i].receiver_pid

Receive(k, c, i) ==
    /\ Oldest(k, i)
    /\ inbox' = [inbox EXCEPT ![c] = queue[k][i]]
    /\ queue' = [queue EXCEPT ![k] = SubSeq(@, 1, i - 1) \o SubSeq(@, i + 1, Len(@))]

\* A new call forgets the result of the last one.
Call(c) ==
    /\ inbox' = [inbox EXCEPT ![c] = NULL]
    /\ UNCHANGED queue

\* The process ends or starts: its messages are gone.
Reset(k) ==
    /\ queue' = [queue EXCEPT ![k] = <<>>]
    /\ inbox' \in {[c \in Caller |-> IF c \in S THEN NULL ELSE inbox[c]] :
                      S \in SUBSET Caller}

\* A forked process has a copy of its parent's queue.
Fork(k, j) ==
    /\ queue' = [queue EXCEPT ![j] = queue[k]]
    /\ UNCHANGED inbox

Next ==
    \/ \E k \in Process, m \in Message : Send(k, m)
    \/ \E k \in Process, c \in Caller :
          \E i \in DOMAIN queue[k] : Receive(k, c, i)
    \/ \E c \in Caller : Call(c)
    \/ \E k \in Process : Reset(k)
    \/ \E k, j \in Process : Fork(k, j)

Spec == Init /\ [][Next]_<<queue, inbox>>
=============================================================================
