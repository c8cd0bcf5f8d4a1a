----------------------------- MODULE Scheduler ------------------------------
(***************************************************************************)
(* The kernel's round-robin scheduler, src/mirix/scheduler.c.              *)
(*                                                                         *)
(* A slot of the table holds a pid and a status; the status is RUNNING, or *)
(* anything else, which the scheduler treats alike.  tick_count matters    *)
(* only modulo the quantum.  No code in the tree but the main loop calls   *)
(* the scheduler yet: its clients, who add and remove processes and change *)
(* the status of the current one through scheduler_get_current_process,    *)
(* are modelled as any that give processes pids other than 0, which is how *)
(* the table marks an empty slot.                                          *)
(***************************************************************************)
EXTENDS Integers, FiniteSets

CONSTANTS max_processes,  \* 256
          quantum_ticks,  \* 1000
          Pid             \* of the clients' processes

ASSUME SchedulerAssumption ==
    /\ max_processes \in Nat \ {0}
    /\ quantum_ticks \in Nat \ {0}
    /\ Pid \subseteq Nat \ {0}

VARIABLES pid,              \* of processes[], 0 when the slot is empty
          process_status,   \* of processes[]
          current_process,
          tick_count,       \* modulo quantum_ticks
          waited            \* history: switches since a runnable slot was current

schedVars == <<pid, process_status, current_process, tick_count, waited>>

Slot   == 0 .. (max_processes - 1)
Status == {"RUNNING", "other"}

\* calloc: every slot is empty and has status 0.
scheduler_init ==
    /\ pid = [i \in Slot |-> 0]
    /\ process_status = [i \in Slot |-> "other"]
    /\ current_process = 0
    /\ tick_count = 0
    /\ waited = [i \in Slot |-> 0]

-----------------------------------------------------------------------------

RunningSlots == {i \in Slot : process_status[i] = "RUNNING"}

\* (i + 1) % max_processes
After(i) == IF i + 1 = max_processes THEN 0 ELSE i + 1

\* Where the search ends that begins in slot s: the first runnable slot from s
\* upwards, or slot 0 when the search comes to it, runnable or not.
\* Faults: the search begins again from the table's start; it gives up one slot
\* early, when it comes to the last.
FoundFrom_Start(s) ==
    IF RunningSlots = {} THEN 0
    ELSE CHOOSE i \in RunningSlots : \A j \in RunningSlots : i <= j

FoundFrom_Last(s) ==
    LET Ahead == {i \in RunningSlots : s <= i /\ i < max_processes - 1}
    IN IF Ahead = {} THEN 0 ELSE CHOOSE i \in Ahead : \A j \in Ahead : i <= j

FoundFrom(s) ==
    LET Ahead == {i \in RunningSlots : s <= i}
    IN IF Ahead = {} THEN 0 ELSE CHOOSE i \in Ahead : \A j \in Ahead : i <= j

\* Counted up to max_processes, which would already be too much.
Waited(next) ==
    [i \in Slot |->
        IF process_status[i] # "RUNNING" \/ i = next THEN 0
        ELSE IF waited[i] < max_processes THEN waited[i] + 1 ELSE waited[i]]

scheduler_tick ==
    /\ tick_count' = IF tick_count + 1 = quantum_ticks THEN 0 ELSE tick_count + 1
    /\ IF tick_count + 1 = quantum_ticks
       THEN /\ current_process' = FoundFrom(After(current_process))
            /\ waited' = Waited(current_process')
       ELSE UNCHANGED <<current_process, waited>>
    /\ UNCHANGED <<pid, process_status>>

\* Slots from 0 up to the first empty one.
Empty(i) == pid[i] = 0 /\ \A j \in 0 .. (i - 1) : pid[j] # 0

scheduler_add_process(p, st) ==
    \E i \in Slot :
       /\ Empty(i)
       /\ pid' = [pid EXCEPT ![i] = p]
       /\ process_status' = [process_status EXCEPT ![i] = st]
       /\ UNCHANGED <<current_process, tick_count, waited>>

\* The first slot with that pid is cleared, its status too.
\* Fault: only the pid is cleared.
scheduler_remove_process_PidOnly(p) ==
    \E i \in Slot :
       /\ pid[i] = p
       /\ \A j \in 0 .. (i - 1) : pid[j] # p
       /\ pid' = [pid EXCEPT ![i] = 0]
       /\ UNCHANGED <<process_status, current_process, tick_count, waited>>

scheduler_remove_process(p) ==
    \E i \in Slot :
       /\ pid[i] = p
       /\ \A j \in 0 .. (i - 1) : pid[j] # p
       /\ pid' = [pid EXCEPT ![i] = 0]
       /\ process_status' = [process_status EXCEPT ![i] = "other"]
       /\ waited' = [waited EXCEPT ![i] = 0]
       /\ UNCHANGED <<current_process, tick_count>>

\* A client changes the status of the current process.
SetStatus(st) ==
    /\ pid[current_process] # 0
    /\ process_status[current_process] # st
    /\ process_status' = [process_status EXCEPT ![current_process] = st]
    /\ waited' = [waited EXCEPT ![current_process] = 0]
    /\ UNCHANGED <<pid, current_process, tick_count>>

-----------------------------------------------------------------------------

SchedNext ==
    \/ scheduler_tick
    \/ \E p \in Pid, st \in Status : scheduler_add_process(p, st)
    \/ \E p \in Pid : scheduler_remove_process(p)
    \/ \E st \in Status : SetStatus(st)

SchedSpec == scheduler_init /\ [][SchedNext]_schedVars

\* The main loop ticks forever.
FairSchedSpec == SchedSpec /\ WF_schedVars(scheduler_tick)

-----------------------------------------------------------------------------

\* The types of the state.
SchedTypeOK ==
    /\ pid \in [Slot -> Pid \cup {0}]
    /\ process_status \in [Slot -> Status]
    /\ current_process \in Slot
    /\ tick_count \in 0 .. (quantum_ticks - 1)
    /\ waited \in [Slot -> Nat]

\* scheduler_tick never takes an empty slot for a runnable process, whatever
\* was added and removed before.
RunnableIsProcess == \A i \in RunningSlots : pid[i] # 0

\* How far a cyclic walk upwards from i has come when it is at c.
Distance(i, c) == IF i <= c THEN c - i ELSE c - i + max_processes

\* A runnable process was passed over by no more switches than there are slots
\* between it and the current one, although a search that comes to slot 0 stops
\* there even when slot 0 is not runnable.
WaitedOK == \A i \in Slot : waited[i] <= Distance(i, current_process)

\* Hence the wait of a runnable process is bounded by the size of the table.
BoundedWait == \A i \in Slot : waited[i] < max_processes

\* A process that stays runnable becomes the current one.
RunnableIsScheduled ==
    \A i \in Slot :
       process_status[i] = "RUNNING"
          ~> (current_process = i \/ process_status[i] # "RUNNING")
=============================================================================
