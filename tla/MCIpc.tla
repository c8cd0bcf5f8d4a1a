------------------------------- MODULE MCIpc -------------------------------
(* Ipc on small rings, and the shift of ipc_receive_message as its loop.     *)
EXTENDS Ipc, SequencesExt

\* Processes, threads and semaphores are interchangeable.
Symmetry == Permutations(Process) \cup Permutations(Thread) \cup Permutations(Sem)

\* Fault: the loop goes up from the head.
ShiftLoop_Upwards(q, i) ==
    FoldLeft(LAMBDA m, s : [m EXCEPT ![s] = m[Prev(s)]], q.messages,
             [n \in 1 .. i |-> Index(q, n)])

\* Slot by slot, down from the message that was found to the one after head.
ShiftLoop(q, i) ==
    FoldLeft(LAMBDA m, s : [m EXCEPT ![s] = m[Prev(s)]], q.messages,
             [n \in 1 .. i |-> Index(q, i + 1 - n)])

\* The loop of ipc_receive_message moves the messages as Shift says.
ShiftIsLoop ==
    \A k \in Process : \A i \in 0 .. message_queue[k].count - 1 :
       Shift(message_queue[k], i) = ShiftLoop(message_queue[k], i)
=============================================================================
