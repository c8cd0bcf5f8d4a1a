----------------------------- MODULE PosixFiles -----------------------------
(***************************************************************************)
(* The file table of the POSIX layer, src/mirix/posix/posix.c, used by the *)
(* threads of one process.                                                 *)
(*                                                                         *)
(* posix_open fills a slot under file_table_mutex; posix_close, posix_read *)
(* and posix_write take no lock, so each of their accesses is a step.  The *)
(* two stores of posix_close race with posix_open: the compiler may order  *)
(* them either way.  A thread uses only the descriptors that posix_open    *)
(* returned to it, once each to close.  Flags and mode are not modelled.   *)
(*                                                                         *)
(* A host descriptor is identified with the thread that opened it.  The    *)
(* host's close fails only for a descriptor that is not open.              *)
(***************************************************************************)
EXTENDS Integers, FiniteSets

CONSTANTS Thread,
          MAX_FILES,   \* slots, 256 in the code
          MAX_HOST     \* host descriptors

ASSUME PosixAssumption ==
    /\ MAX_FILES \in Nat \ {0}
    /\ MAX_HOST \in Nat \ {0}
    /\ "closed" \notin Thread

VARIABLES host,     \* who opened each host descriptor, or "closed"
          in_use,   \* of file_table[]
          fd,       \* of file_table[]
          pc,       \* per thread
          slot,     \* per thread: the descriptor of its call
          real_fd,  \* per thread: the local variable of its call
          own,      \* per thread: the descriptors it may use
          leaked,   \* history: host descriptors of opens that found no slot
          overlap   \* 1 in behaviours where calls of threads may overlap

vars == <<host, in_use, fd, pc, slot, real_fd, own, leaked, overlap>>

Slot == 0 .. (MAX_FILES - 1)
Host == 0 .. (MAX_HOST - 1)
Pc   == {"idle", "opened", "close", "closed", "closed_in_use", "closed_fd",
         "use"}

\* After posix_init.
Init ==
    /\ host = [n \in Host |-> "closed"]
    /\ in_use = [s \in Slot |-> 0]
    /\ fd = [s \in Slot |-> -1]
    /\ pc = [t \in Thread |-> "idle"]
    /\ slot = [t \in Thread |-> 0]
    /\ real_fd = [t \in Thread |-> -1]
    /\ own = [t \in Thread |-> {}]
    /\ leaked = {}
    /\ overlap \in {0, 1}

\* Thread t may begin a call.
Calls(t) ==
    /\ pc[t] = "idle"
    /\ overlap = 1 \/ \A u \in Thread : pc[u] = "idle"

Goto(t, label) == pc' = [pc EXCEPT ![t] = label]

-----------------------------------------------------------------------------
(* posix_open *)

\* open(2) gives the lowest free descriptor.  When there is none the call fails
\* and nothing changes.
posix_open(t) ==
    /\ Calls(t)
    /\ \E n \in Host :
          /\ host[n] = "closed"
          /\ \A m \in 0 .. (n - 1) : host[m] # "closed"
          /\ host' = [host EXCEPT ![n] = t]
          /\ real_fd' = [real_fd EXCEPT ![t] = n]
    /\ Goto(t, "opened")
    /\ UNCHANGED <<in_use, fd, slot, own, leaked>>

\* Under the mutex: the first slot not in use.
\* Fault: the slot is not marked.
posix_open_slot_Unmarked(t) ==
    /\ pc[t] = "opened"
    /\ \E s \in Slot :
          /\ in_use[s] = 0
          /\ \A r \in 0 .. (s - 1) : in_use[r] = 1
          /\ fd' = [fd EXCEPT ![s] = real_fd[t]]
          /\ own' = [own EXCEPT ![t] = @ \cup {s}]
    /\ Goto(t, "idle")
    /\ UNCHANGED <<host, in_use, slot, real_fd, leaked>>

posix_open_slot(t) ==
    /\ pc[t] = "opened"
    /\ \E s \in Slot :
          /\ in_use[s] = 0
          /\ \A r \in 0 .. (s - 1) : in_use[r] = 1
          /\ fd' = [fd EXCEPT ![s] = real_fd[t]]
          /\ in_use' = [in_use EXCEPT ![s] = 1]
          /\ own' = [own EXCEPT ![t] = @ \cup {s}]
    /\ Goto(t, "idle")
    /\ UNCHANGED <<host, slot, real_fd, leaked>>

\* No slot is free: the host descriptor stays open.
posix_open_EMFILE(t) ==
    /\ pc[t] = "opened"
    /\ \A s \in Slot : in_use[s] = 1
    /\ leaked' = leaked \cup {real_fd[t]}
    /\ Goto(t, "idle")
    /\ UNCHANGED <<host, in_use, fd, slot, real_fd, own>>

-----------------------------------------------------------------------------
(* posix_close, posix_read and posix_write *)

\* The test and the read of the slot's descriptor.  The client does not use s
\* again, whatever the call returns.
posix_close(t, s) ==
    /\ Calls(t)
    /\ s \in own[t]
    /\ own' = [own EXCEPT ![t] = @ \ {s}]
    /\ IF in_use[s] = 1
       THEN /\ slot' = [slot EXCEPT ![t] = s]
            /\ real_fd' = [real_fd EXCEPT ![t] = fd[s]]
            /\ Goto(t, "close")
       ELSE UNCHANGED <<slot, real_fd, pc>>
    /\ UNCHANGED <<host, in_use, fd, leaked>>

\* Faults: the host's close is forgotten; it is tried again after it succeeded.
posix_close_host_Forgotten(t) ==
    /\ pc[t] = "close"
    /\ Goto(t, "closed")
    /\ UNCHANGED <<host, in_use, fd, slot, real_fd, own, leaked>>

posix_close_host_Again(t) ==
    /\ pc[t] = "close"
    /\ IF real_fd[t] \in Host /\ host[real_fd[t]] # "closed"
       THEN /\ host' = [host EXCEPT ![real_fd[t]] = "closed"]
            /\ UNCHANGED pc
       ELSE /\ Goto(t, "closed")
            /\ UNCHANGED host
    /\ UNCHANGED <<in_use, fd, slot, real_fd, own, leaked>>

posix_close_host(t) ==
    /\ pc[t] = "close"
    /\ IF real_fd[t] \in Host /\ host[real_fd[t]] # "closed"
       THEN /\ host' = [host EXCEPT ![real_fd[t]] = "closed"]
            /\ Goto(t, "closed")
       ELSE /\ Goto(t, "idle")
            /\ UNCHANGED host
    /\ UNCHANGED <<in_use, fd, slot, real_fd, own, leaked>>

\* The two stores, in either order.
posix_close_in_use(t) ==
    /\ \/ pc[t] = "closed" /\ Goto(t, "closed_in_use")
       \/ pc[t] = "closed_fd" /\ Goto(t, "idle")
    /\ in_use' = [in_use EXCEPT ![slot[t]] = 0]
    /\ UNCHANGED <<host, fd, slot, real_fd, own, leaked>>

posix_close_fd(t) ==
    /\ \/ pc[t] = "closed" /\ Goto(t, "closed_fd")
       \/ pc[t] = "closed_in_use" /\ Goto(t, "idle")
    /\ fd' = [fd EXCEPT ![slot[t]] = -1]
    /\ UNCHANGED <<host, in_use, slot, real_fd, own, leaked>>

\* posix_read or posix_write: the test and the read of the slot's descriptor ...
posix_rw(t, s) ==
    /\ Calls(t)
    /\ s \in own[t]
    /\ in_use[s] = 1
    /\ slot' = [slot EXCEPT ![t] = s]
    /\ real_fd' = [real_fd EXCEPT ![t] = fd[s]]
    /\ Goto(t, "use")
    /\ UNCHANGED <<host, in_use, fd, own, leaked>>

\* ... and its use by syscall_read or syscall_write.
posix_rw_syscall(t) ==
    /\ pc[t] = "use"
    /\ Goto(t, "idle")
    /\ UNCHANGED <<host, in_use, fd, slot, real_fd, own, leaked>>

-----------------------------------------------------------------------------

Next ==
    /\ \E t \in Thread :
          \/ posix_open(t) \/ posix_open_slot(t) \/ posix_open_EMFILE(t)
          \/ \E s \in Slot : posix_close(t, s) \/ posix_rw(t, s)
          \/ posix_close_host(t) \/ posix_close_in_use(t) \/ posix_close_fd(t)
          \/ posix_rw_syscall(t)
    /\ UNCHANGED overlap

Spec == Init /\ [][Next]_vars

-----------------------------------------------------------------------------

\* The types of the state.
TypeOK ==
    /\ host \in [Host -> Thread \cup {"closed"}]
    /\ in_use \in [Slot -> {0, 1}]
    /\ fd \in [Slot -> Host \cup {-1}]
    /\ pc \in [Thread -> Pc]
    /\ slot \in [Thread -> Slot]
    /\ real_fd \in [Thread -> Host \cup {-1}]
    /\ own \in [Thread -> SUBSET Slot]
    /\ leaked \subseteq Host
    /\ overlap \in {0, 1}

\* A slot that a close has still to release.
Closing(t, s) == pc[t] \in {"close", "closed", "closed_fd"} /\ slot[t] = s

\* A descriptor belongs to one thread only and its slot is in use: posix_open
\* never returns one that another thread has, or whose close is not yet at its
\* store to in_use.
ExclusiveSlots ==
    /\ \A t, u \in Thread : t # u => own[t] \cap own[u] = {}
    /\ \A t, u \in Thread, s \in Slot : Closing(t, s) => s \notin own[u]
    /\ \A t \in Thread : \A s \in own[t] : in_use[s] = 1

\* However the calls overlap, the host descriptor that posix_close closes, or
\* that posix_read and posix_write use, is one this thread opened, or none (-1).
OwnFilesOnly ==
    \A t \in Thread :
       pc[t] \in {"close", "use"} /\ real_fd[t] # -1 => host[real_fd[t]] = t

\* SUS-compliant file operations (README.md:19) with threads (README.md:13): a
\* descriptor that a thread has refers to a file that this thread opened.
DescriptorKeepsFile ==
    \A t \in Thread : \A s \in own[t] : fd[s] # -1 /\ host[fd[s]] = t

\* It does when calls do not overlap.
SerialKeepsFile == overlap = 0 => DescriptorKeepsFile

\* When calls do not overlap, between them each open host descriptor is in
\* exactly one slot in use, and each slot in use holds one, except those of
\* posix_open calls that found the table full.
Accounted ==
    overlap = 0 /\ (\A t \in Thread : pc[t] = "idle") =>
       /\ \A n \in Host : host[n] # "closed" /\ n \notin leaked =>
             \E s \in Slot : in_use[s] = 1 /\ fd[s] = n
       /\ \A s \in Slot : in_use[s] = 1 =>
             /\ fd[s] # -1 /\ host[fd[s]] # "closed"
             /\ \A r \in Slot : r # s => fd[r] # fd[s]
       /\ \A s \in Slot : in_use[s] = 0 => fd[s] = -1
=============================================================================
