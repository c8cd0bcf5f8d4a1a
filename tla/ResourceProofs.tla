-------------------------- MODULE ResourceProofs --------------------------
(***************************************************************************)
(* What is given out from a shared table or area is given to one, and      *)
(* nothing of it is lost: the file table of the POSIX layer (PosixFiles)   *)
(* and the memory of the default pager (Kalloc), for any number of         *)
(* threads, slots, host descriptors, page sizes and requests.              *)
(***************************************************************************)
EXTENDS PosixFiles, Kalloc, FiniteSetTheorems, TLAPS

\* Most steps follow by logic alone and are left to Zenon.
USE ZenonT(20), SMTT(30)

-----------------------------------------------------------------------------
(* The file table                                                          *)

USE PosixAssumption

\* A slot that is being closed is in use until the store that releases it, and
\* only one thread closes it.
ClosingOK ==
    \A t \in Thread, s \in Slot : Closing(t, s) =>
       /\ in_use[s] = 1
       /\ \A u \in Thread : Closing(u, s) => u = t

\* What thread t refers to: its descriptors refer to different host descriptors
\* that it opened, or to none, and so does the call it is in.
RefsOf(t) ==
    /\ \A s \in own[t] : fd[s] # -1 => host[fd[s]] = t
    /\ \A s, r \in own[t] : s # r /\ fd[s] # -1 => fd[s] # fd[r]
    /\ pc[t] \in {"opened", "close"} /\ real_fd[t] # -1 =>
          \A s \in own[t] : fd[s] # real_fd[t]
    /\ pc[t] \in {"opened", "close", "use"} /\ real_fd[t] # -1 =>
          host[real_fd[t]] = t

Refs == \A t \in Thread : RefsOf(t)

\* A call that is looking for a slot has opened a host descriptor.
OpenedOK == \A t \in Thread : pc[t] = "opened" => real_fd[t] \in Host

IInv == TypeOK /\ OpenedOK /\ ExclusiveSlots /\ ClosingOK /\ Refs

LEMMA Step_posix_open ==
    ASSUME IInv, UNCHANGED overlap, NEW t \in Thread, posix_open(t)
    PROVE  IInv'
<1> USE DEF IInv, posix_open, Goto, Calls
<1>1. TypeOK' /\ OpenedOK'
  BY SMTT(30) DEF TypeOK, OpenedOK, Pc
<1>2. ExclusiveSlots'
  BY DEF TypeOK, ExclusiveSlots, ClosingOK, Closing
<1>3. ClosingOK'
  BY SMTT(30) DEF TypeOK, ExclusiveSlots, ClosingOK, Closing
<1>4. Refs'
  BY SMTT(30) DEF TypeOK, OpenedOK, ExclusiveSlots, Refs, RefsOf
<1> QED
  BY <1>1, <1>2, <1>3, <1>4

LEMMA Step_posix_open_slot ==
    ASSUME IInv, UNCHANGED overlap, NEW t \in Thread, posix_open_slot(t)
    PROVE  IInv'
<1> USE DEF IInv, posix_open_slot, Goto, Calls
<1>1. TypeOK' /\ OpenedOK'
  BY SMTT(30) DEF TypeOK, OpenedOK, Pc
<1>2. ExclusiveSlots'
  BY SMTT(30) DEF TypeOK, ExclusiveSlots, ClosingOK, Closing
<1>3. ClosingOK'
  BY SMTT(30) DEF TypeOK, ExclusiveSlots, ClosingOK, Closing
<1>4. Refs'
  BY SMTT(30) DEF TypeOK, OpenedOK, ExclusiveSlots, Refs, RefsOf
<1> QED
  BY <1>1, <1>2, <1>3, <1>4

LEMMA Step_posix_open_EMFILE ==
    ASSUME IInv, UNCHANGED overlap, NEW t \in Thread, posix_open_EMFILE(t)
    PROVE  IInv'
<1> USE DEF IInv, posix_open_EMFILE, Goto, Calls
<1>1. TypeOK' /\ OpenedOK'
  BY DEF TypeOK, OpenedOK, Pc
<1>2. ExclusiveSlots'
  BY DEF TypeOK, ExclusiveSlots, ClosingOK, Closing
<1>3. ClosingOK'
  BY SMTT(30) DEF TypeOK, ExclusiveSlots, ClosingOK, Closing
<1>4. Refs'
  BY SMTT(30) DEF TypeOK, OpenedOK, ExclusiveSlots, Refs, RefsOf
<1> QED
  BY <1>1, <1>2, <1>3, <1>4

LEMMA Step_posix_close ==
    ASSUME IInv, UNCHANGED overlap, NEW t \in Thread, NEW s \in Slot, posix_close(t, s)
    PROVE  IInv'
<1> USE DEF IInv, posix_close, Goto, Calls
<1>1. TypeOK' /\ OpenedOK'
  BY SMTT(30) DEF TypeOK, OpenedOK, Pc
<1>2. ExclusiveSlots'
  BY SMTT(30) DEF TypeOK, ExclusiveSlots, ClosingOK, Closing
<1>3. ClosingOK'
  BY SMTT(30) DEF TypeOK, ExclusiveSlots, ClosingOK, Closing
<1>4. Refs'
  BY SMTT(30) DEF TypeOK, OpenedOK, ExclusiveSlots, Refs, RefsOf
<1> QED
  BY <1>1, <1>2, <1>3, <1>4

LEMMA Step_posix_close_host ==
    ASSUME IInv, UNCHANGED overlap, NEW t \in Thread, posix_close_host(t)
    PROVE  IInv'
<1> USE DEF IInv, posix_close_host, Goto, Calls
<1>1. TypeOK' /\ OpenedOK'
  BY DEF TypeOK, OpenedOK, Pc
<1>2. ExclusiveSlots'
  BY SMTT(30) DEF TypeOK, ExclusiveSlots, ClosingOK, Closing
<1>3. ClosingOK'
  BY SMTT(30) DEF TypeOK, ExclusiveSlots, ClosingOK, Closing
<1>4. Refs'
  BY SMTT(30) DEF TypeOK, OpenedOK, ExclusiveSlots, Refs, RefsOf
<1> QED
  BY <1>1, <1>2, <1>3, <1>4

LEMMA Step_posix_close_in_use ==
    ASSUME IInv, UNCHANGED overlap, NEW t \in Thread, posix_close_in_use(t)
    PROVE  IInv'
<1> USE DEF IInv, posix_close_in_use, Goto, Calls
<1>1. TypeOK' /\ OpenedOK'
  BY DEF TypeOK, OpenedOK, Pc
<1>2. ExclusiveSlots'
  BY SMTT(30) DEF TypeOK, ExclusiveSlots, ClosingOK, Closing
<1>3. ClosingOK'
  BY SMTT(30) DEF TypeOK, ExclusiveSlots, ClosingOK, Closing
<1>4. Refs'
  BY SMTT(30) DEF TypeOK, OpenedOK, ExclusiveSlots, Refs, RefsOf
<1> QED
  BY <1>1, <1>2, <1>3, <1>4

LEMMA Step_posix_close_fd ==
    ASSUME IInv, UNCHANGED overlap, NEW t \in Thread, posix_close_fd(t)
    PROVE  IInv'
<1> USE DEF IInv, posix_close_fd, Goto, Calls
<1>1. TypeOK' /\ OpenedOK'
  BY DEF TypeOK, OpenedOK, Pc
<1>2. ExclusiveSlots'
  BY SMTT(30) DEF TypeOK, ExclusiveSlots, ClosingOK, Closing
<1>3. ClosingOK'
  BY SMTT(30) DEF TypeOK, ExclusiveSlots, ClosingOK, Closing
<1>4. Refs'
  BY SMTT(30) DEF TypeOK, OpenedOK, ExclusiveSlots, Refs, RefsOf
<1> QED
  BY <1>1, <1>2, <1>3, <1>4

LEMMA Step_posix_rw ==
    ASSUME IInv, UNCHANGED overlap, NEW t \in Thread, NEW s \in Slot, posix_rw(t, s)
    PROVE  IInv'
<1> USE DEF IInv, posix_rw, Goto, Calls
<1>1. TypeOK' /\ OpenedOK'
  BY DEF TypeOK, OpenedOK, Pc
<1>2. ExclusiveSlots'
  BY DEF TypeOK, ExclusiveSlots, ClosingOK, Closing
<1>3. ClosingOK'
  BY SMTT(30) DEF TypeOK, ExclusiveSlots, ClosingOK, Closing
<1>4. Refs'
  BY SMTT(30) DEF TypeOK, OpenedOK, ExclusiveSlots, Refs, RefsOf
<1> QED
  BY <1>1, <1>2, <1>3, <1>4

LEMMA Step_posix_rw_syscall ==
    ASSUME IInv, UNCHANGED overlap, NEW t \in Thread, posix_rw_syscall(t)
    PROVE  IInv'
<1> USE DEF IInv, posix_rw_syscall, Goto, Calls
<1>1. TypeOK' /\ OpenedOK'
  BY DEF TypeOK, OpenedOK, Pc
<1>2. ExclusiveSlots'
  BY DEF TypeOK, ExclusiveSlots, ClosingOK, Closing
<1>3. ClosingOK'
  BY SMTT(30) DEF TypeOK, ExclusiveSlots, ClosingOK, Closing
<1>4. Refs'
  BY SMTT(30) DEF TypeOK, OpenedOK, ExclusiveSlots, Refs, RefsOf
<1> QED
  BY <1>1, <1>2, <1>3, <1>4

LEMMA NextIInv == ASSUME IInv, [Next]_vars PROVE IInv'
<1>1. CASE UNCHANGED vars
  BY <1>1, SMTT(30) DEF IInv, vars, TypeOK, OpenedOK, ExclusiveSlots, ClosingOK, Closing,
              Refs, RefsOf
<1> QED
  BY <1>1, Step_posix_open, Step_posix_open_slot, Step_posix_open_EMFILE,
     Step_posix_close, Step_posix_close_host, Step_posix_close_in_use,
     Step_posix_close_fd, Step_posix_rw, Step_posix_rw_syscall DEF Next

LEMMA InitIInv == Init => IInv
  BY SMTT(30) DEF Init, IInv, TypeOK, OpenedOK, ExclusiveSlots, ClosingOK, Closing, Refs,
         RefsOf, Slot, Host, Pc

\* The invariant behind the next two theorems: types, exclusive slots, one close
\* per slot and distinct references to files of the thread's own.
THEOREM Invariance == Spec => []IInv
  BY InitIInv, NextIInv, PTL DEF Spec

\* No slot is given to two threads, or to one while another is closing it.
THEOREM Slots == Spec => []ExclusiveSlots
  BY Invariance, PTL DEF IInv

\* No call closes or uses a host file that another thread opened.
THEOREM Files == Spec => []OwnFilesOnly
<1>1. IInv => OwnFilesOnly
  BY DEF IInv, Refs, RefsOf, OwnFilesOnly
<1> QED
  BY <1>1, Invariance, PTL

-----------------------------------------------------------------------------
(* Calls that do not overlap                                               *)

\* Only one thread is in a call.  A slot in use holds an open host descriptor
\* except during a close of it, a free one holds none but at the end of a close;
\* different slots hold different ones, and every open host descriptor is in a
\* slot in use, lost by a posix_open that found no slot, or with a call that is
\* looking for one.
OneCall == \A t, u \in Thread : pc[t] # "idle" /\ pc[u] # "idle" => t = u

SlotsHold ==
    /\ \A s \in Slot : in_use[s] = 1 =>
          \/ fd[s] # -1 /\ host[fd[s]] # "closed"
          \/ \E t \in Thread : pc[t] \in {"closed", "closed_fd"} /\ slot[t] = s
    /\ \A s \in Slot : in_use[s] = 0 =>
          fd[s] = -1 \/ \E t \in Thread : pc[t] = "closed_in_use" /\ slot[t] = s
    /\ \A s, r \in Slot : s # r /\ fd[s] # -1 => fd[s] # fd[r]

HostHeld ==
    /\ \A n \in Host : host[n] # "closed" /\ n \notin leaked =>
          \/ \E s \in Slot : in_use[s] = 1 /\ fd[s] = n
          \/ \E t \in Thread : pc[t] = "opened" /\ real_fd[t] = n
    /\ \A n \in leaked : host[n] # "closed" /\ \A s \in Slot : fd[s] # n

CallHolds(t) ==
    /\ pc[t] = "opened" => real_fd[t] \notin leaked /\ \A s \in Slot : fd[s] # real_fd[t]
    /\ pc[t] \in {"close", "closed", "closed_in_use"} => fd[slot[t]] = real_fd[t]
    /\ pc[t] \in {"close", "closed", "closed_in_use"} => real_fd[t] # -1
    /\ pc[t] \in {"closed", "closed_in_use"} => host[real_fd[t]] = "closed"
    /\ pc[t] = "closed_fd" => fd[slot[t]] = -1

Serial ==
    overlap = 0 => OneCall /\ SlotsHold /\ HostHeld /\ \A t \in Thread : CallHolds(t)

LEMMA Serial_posix_open ==
    ASSUME IInv, Serial, overlap = 0, NEW t \in Thread, posix_open(t)
    PROVE  OneCall' /\ SlotsHold' /\ HostHeld' /\ \A u \in Thread : CallHolds(u)'
<1> USE DEF IInv, TypeOK, Serial, posix_open, Goto, Calls
<1>1. OneCall'
  BY SMTT(30) DEF OneCall
<1>2. SlotsHold'
  BY SMTT(30) DEF OneCall, SlotsHold, HostHeld, CallHolds, OpenedOK, Closing, ExclusiveSlots, Refs, RefsOf
<1>3. HostHeld'
  BY SMTT(30) DEF OneCall, SlotsHold, HostHeld, CallHolds, OpenedOK, Closing, ExclusiveSlots, Refs, RefsOf
<1>4. \A u \in Thread : CallHolds(u)'
  <2>1. \A u \in Thread : pc[u] = "idle"
    BY SMTT(30)
  <2>2. PICK n \in Host : host[n] = "closed" /\ real_fd' = [real_fd EXCEPT ![t] = n]
    OBVIOUS
  <2>3. n \notin leaked
    BY <2>2 DEF HostHeld
  <2>4. ASSUME NEW s \in Slot
        PROVE  fd[s] # n
    <3>1. fd[s] = -1 \/ host[fd[s]] # "closed"
      BY <2>1, SMTT(30) DEF SlotsHold
    <3> QED
      BY <2>2, <3>1, SMTT(30) DEF Host
  <2> QED
    BY <2>1, <2>2, <2>3, <2>4 DEF CallHolds
<1> QED
  BY <1>1, <1>2, <1>3, <1>4

LEMMA Serial_posix_open_slot ==
    ASSUME IInv, Serial, overlap = 0, NEW t \in Thread, posix_open_slot(t)
    PROVE  OneCall' /\ SlotsHold' /\ HostHeld' /\ \A u \in Thread : CallHolds(u)'
<1> USE DEF IInv, TypeOK, Serial, posix_open_slot, Goto, Calls
<1>1. OneCall'
  BY DEF OneCall
<1>2. SlotsHold'
  BY SMTT(30) DEF OneCall, SlotsHold, HostHeld, CallHolds, OpenedOK, Closing, ExclusiveSlots, Refs, RefsOf
<1>3. HostHeld'
  <2>1. PICK r \in Slot : /\ in_use[r] = 0 /\ fd' = [fd EXCEPT ![r] = real_fd[t]]
                          /\ in_use' = [in_use EXCEPT ![r] = 1]
    OBVIOUS
  <2>2. ASSUME NEW n \in Host, host[n] # "closed", n \notin leaked
        PROVE  \E s \in Slot : in_use'[s] = 1 /\ fd'[s] = n
    <3>1. CASE n = real_fd[t]
      BY <2>1, <3>1
    <3>2. CASE n # real_fd[t]
      <4>1. PICK s \in Slot : in_use[s] = 1 /\ fd[s] = n
        BY <2>2, <3>2, SMTT(30) DEF HostHeld, OneCall
      <4> QED
        BY <2>1, <4>1, SMTT(30)
    <3> QED
      BY <3>1, <3>2
  <2>3. \A n \in leaked : host[n] # "closed" /\ \A s \in Slot : fd'[s] # n
    BY <2>1, SMTT(30) DEF HostHeld, CallHolds
  <2> QED
    BY <2>2, <2>3 DEF HostHeld
<1>4. \A u \in Thread : CallHolds(u)'
  BY SMTT(30) DEF OneCall, SlotsHold, HostHeld, CallHolds, OpenedOK, Closing, ExclusiveSlots, Refs, RefsOf
<1> QED
  BY <1>1, <1>2, <1>3, <1>4

LEMMA Serial_posix_open_EMFILE ==
    ASSUME IInv, Serial, overlap = 0, NEW t \in Thread, posix_open_EMFILE(t)
    PROVE  OneCall' /\ SlotsHold' /\ HostHeld' /\ \A u \in Thread : CallHolds(u)'
<1> USE DEF IInv, TypeOK, Serial, posix_open_EMFILE, Goto, Calls
<1>1. OneCall'
  BY DEF OneCall
<1>2. SlotsHold'
  BY SMTT(30) DEF OneCall, SlotsHold, HostHeld, CallHolds, OpenedOK, Closing, ExclusiveSlots, Refs, RefsOf
<1>3. HostHeld'
  <2>1. real_fd[t] \in Host /\ host[real_fd[t]] # "closed" /\ \A s \in Slot : fd[s] # real_fd[t]
    <3>1. real_fd[t] \in Host /\ real_fd[t] # -1
      BY SMTT(30) DEF OpenedOK, Host
    <3>2. host[real_fd[t]] = t
      BY <3>1 DEF Refs, RefsOf
    <3> QED
      BY <3>1, <3>2 DEF CallHolds
  <2>2. ASSUME NEW n \in Host, host[n] # "closed", n \notin leaked, n # real_fd[t]
        PROVE  \E s \in Slot : in_use[s] = 1 /\ fd[s] = n
    BY <2>2, SMTT(30) DEF HostHeld, OneCall
  <2> QED
    BY <2>1, <2>2 DEF HostHeld
<1>4. \A u \in Thread : CallHolds(u)'
  BY SMTT(30) DEF OneCall, SlotsHold, HostHeld, CallHolds, OpenedOK, Closing, ExclusiveSlots, Refs, RefsOf
<1> QED
  BY <1>1, <1>2, <1>3, <1>4

LEMMA Serial_posix_close ==
    ASSUME IInv, Serial, overlap = 0, NEW t \in Thread, NEW s \in Slot, posix_close(t, s)
    PROVE  OneCall' /\ SlotsHold' /\ HostHeld' /\ \A u \in Thread : CallHolds(u)'
<1> USE DEF IInv, TypeOK, Serial, posix_close, Goto, Calls
<1>1. OneCall'
  BY SMTT(30) DEF OneCall
<1>2. SlotsHold'
  BY SMTT(30) DEF OneCall, SlotsHold, HostHeld, CallHolds, OpenedOK, Closing, ExclusiveSlots, Refs, RefsOf
<1>3. HostHeld'
  BY SMTT(30) DEF OneCall, SlotsHold, HostHeld, CallHolds, OpenedOK, Closing, ExclusiveSlots, Refs, RefsOf
<1>4. \A u \in Thread : CallHolds(u)'
  BY SMTT(30) DEF OneCall, SlotsHold, HostHeld, CallHolds, OpenedOK, Closing, ExclusiveSlots, Refs, RefsOf
<1> QED
  BY <1>1, <1>2, <1>3, <1>4

LEMMA Serial_posix_close_host ==
    ASSUME IInv, Serial, overlap = 0, NEW t \in Thread, posix_close_host(t)
    PROVE  OneCall' /\ SlotsHold' /\ HostHeld' /\ \A u \in Thread : CallHolds(u)'
<1> USE DEF IInv, TypeOK, Serial, posix_close_host, Goto, Calls
<1>1. OneCall'
  BY SMTT(30) DEF OneCall
<1>2. SlotsHold'
  BY SMTT(30) DEF OneCall, SlotsHold, HostHeld, CallHolds, OpenedOK, Closing, ExclusiveSlots, Refs, RefsOf
<1>3. HostHeld'
  BY SMTT(30) DEF OneCall, SlotsHold, HostHeld, CallHolds, OpenedOK, Closing, ExclusiveSlots, Refs, RefsOf
<1>4. \A u \in Thread : CallHolds(u)'
  BY SMTT(30) DEF OneCall, SlotsHold, HostHeld, CallHolds, OpenedOK, Closing, ExclusiveSlots, Refs, RefsOf
<1> QED
  BY <1>1, <1>2, <1>3, <1>4

LEMMA Serial_posix_close_in_use ==
    ASSUME IInv, Serial, overlap = 0, NEW t \in Thread, posix_close_in_use(t)
    PROVE  OneCall' /\ SlotsHold' /\ HostHeld' /\ \A u \in Thread : CallHolds(u)'
<1> USE DEF IInv, TypeOK, Serial, posix_close_in_use, Goto, Calls
<1>1. OneCall'
  BY DEF OneCall
<1>2. SlotsHold'
  BY SMTT(30) DEF OneCall, SlotsHold, HostHeld, CallHolds, OpenedOK, Closing, ExclusiveSlots, Refs, RefsOf
<1>3. HostHeld'
  <2>1. fd[slot[t]] = -1 \/ host[fd[slot[t]]] = "closed"
    BY DEF CallHolds
  <2>2. ASSUME NEW n \in Host, host[n] # "closed", n \notin leaked
        PROVE  \E s \in Slot : in_use'[s] = 1 /\ fd[s] = n
    <3>1. PICK s \in Slot : in_use[s] = 1 /\ fd[s] = n
      BY <2>2, SMTT(30) DEF HostHeld, OneCall
    <3>2. s # slot[t]
      BY <2>1, <2>2, <3>1, SMTT(30) DEF Host
    <3> QED
      BY <3>1, <3>2
  <2> QED
    BY <2>2 DEF HostHeld
<1>4. \A u \in Thread : CallHolds(u)'
  BY SMTT(30) DEF OneCall, SlotsHold, HostHeld, CallHolds, OpenedOK, Closing, ExclusiveSlots, Refs, RefsOf
<1> QED
  BY <1>1, <1>2, <1>3, <1>4

LEMMA Serial_posix_close_fd ==
    ASSUME IInv, Serial, overlap = 0, NEW t \in Thread, posix_close_fd(t)
    PROVE  OneCall' /\ SlotsHold' /\ HostHeld' /\ \A u \in Thread : CallHolds(u)'
<1> USE DEF IInv, TypeOK, Serial, posix_close_fd, Goto, Calls
<1>1. OneCall'
  BY DEF OneCall
<1>2. SlotsHold'
  BY SMTT(30) DEF OneCall, SlotsHold, HostHeld, CallHolds, OpenedOK, Closing, ExclusiveSlots, Refs, RefsOf
<1>3. HostHeld'
  <2>1. host[fd[slot[t]]] = "closed" /\ -1 \notin Host
    BY SMTT(30) DEF CallHolds, Host
  <2>2. ASSUME NEW n \in Host, host[n] # "closed", n \notin leaked
        PROVE  \E s \in Slot : in_use[s] = 1 /\ fd'[s] = n
    <3>1. PICK s \in Slot : in_use[s] = 1 /\ fd[s] = n
      BY <2>2, SMTT(30) DEF HostHeld, OneCall
    <3>2. s # slot[t]
      BY <2>1, <2>2, <3>1
    <3> QED
      BY <3>1, <3>2
  <2>3. \A n \in leaked : host[n] # "closed" /\ \A s \in Slot : fd'[s] # n
    BY <2>1, SMTT(30) DEF HostHeld
  <2> QED
    BY <2>2, <2>3 DEF HostHeld
<1>4. \A u \in Thread : CallHolds(u)'
  BY SMTT(30) DEF OneCall, SlotsHold, HostHeld, CallHolds, OpenedOK, Closing, ExclusiveSlots, Refs, RefsOf
<1> QED
  BY <1>1, <1>2, <1>3, <1>4

LEMMA Serial_posix_rw ==
    ASSUME IInv, Serial, overlap = 0, NEW t \in Thread, NEW s \in Slot, posix_rw(t, s)
    PROVE  OneCall' /\ SlotsHold' /\ HostHeld' /\ \A u \in Thread : CallHolds(u)'
<1> USE DEF IInv, TypeOK, Serial, posix_rw, Goto, Calls
<1>1. OneCall'
  BY SMTT(30) DEF OneCall
<1>2. SlotsHold'
  BY SMTT(30) DEF OneCall, SlotsHold, HostHeld, CallHolds, OpenedOK, Closing, ExclusiveSlots, Refs, RefsOf
<1>3. HostHeld'
  BY SMTT(30) DEF OneCall, SlotsHold, HostHeld, CallHolds, OpenedOK, Closing, ExclusiveSlots, Refs, RefsOf
<1>4. \A u \in Thread : CallHolds(u)'
  BY SMTT(30) DEF OneCall, SlotsHold, HostHeld, CallHolds, OpenedOK, Closing, ExclusiveSlots, Refs, RefsOf
<1> QED
  BY <1>1, <1>2, <1>3, <1>4

LEMMA Serial_posix_rw_syscall ==
    ASSUME IInv, Serial, overlap = 0, NEW t \in Thread, posix_rw_syscall(t)
    PROVE  OneCall' /\ SlotsHold' /\ HostHeld' /\ \A u \in Thread : CallHolds(u)'
<1> USE DEF IInv, TypeOK, Serial, posix_rw_syscall, Goto, Calls
<1>1. OneCall'
  BY DEF OneCall
<1>2. SlotsHold'
  BY SMTT(30) DEF OneCall, SlotsHold, HostHeld, CallHolds, OpenedOK, Closing, ExclusiveSlots, Refs, RefsOf
<1>3. HostHeld'
  BY SMTT(30) DEF OneCall, SlotsHold, HostHeld, CallHolds, OpenedOK, Closing, ExclusiveSlots, Refs, RefsOf
<1>4. \A u \in Thread : CallHolds(u)'
  BY SMTT(30) DEF OneCall, SlotsHold, HostHeld, CallHolds, OpenedOK, Closing, ExclusiveSlots, Refs, RefsOf
<1> QED
  BY <1>1, <1>2, <1>3, <1>4

LEMMA NextSerial == ASSUME IInv, Serial, [Next]_vars PROVE Serial'
<1>1. CASE UNCHANGED vars
  BY <1>1, SMTT(30) DEF vars, Serial, OneCall, SlotsHold, HostHeld, CallHolds
<1>2. CASE Next /\ overlap = 0
  <2>1. OneCall' /\ SlotsHold' /\ HostHeld' /\ \A u \in Thread : CallHolds(u)'
    BY <1>2, Serial_posix_open, Serial_posix_open_slot, Serial_posix_open_EMFILE,
       Serial_posix_close, Serial_posix_close_host, Serial_posix_close_in_use,
       Serial_posix_close_fd, Serial_posix_rw, Serial_posix_rw_syscall DEF Next
  <2> QED
    BY <2>1 DEF Serial
<1>3. CASE Next /\ overlap # 0
  BY <1>3 DEF Next, Serial
<1> QED
  BY <1>1, <1>2, <1>3

LEMMA InitSerial == Init => Serial
  BY SMTT(30) DEF Init, Serial, OneCall, SlotsHold, HostHeld, CallHolds, Slot, Host

\* While the threads' calls do not overlap, the table and the host's descriptors
\* agree up to the call that is under way.
THEOREM SerialInvariance == Spec => []Serial
  BY Invariance, InitSerial, NextSerial, PTL DEF Spec

\* When calls do not overlap, a descriptor that posix_open returned to a thread
\* refers to a file this thread opened, until it is closed.
THEOREM KeepsFile == Spec => []SerialKeepsFile
<1>1. IInv /\ Serial => SerialKeepsFile
  BY SMTT(30) DEF IInv, TypeOK, ExclusiveSlots, Closing, Refs, RefsOf, Serial, OneCall, SlotsHold,
         CallHolds, SerialKeepsFile, DescriptorKeepsFile
<1> QED
  BY <1>1, Invariance, SerialInvariance, PTL

\* Between calls that do not overlap, the open host descriptors are those of the
\* slots in use, one each, and those that posix_open lost to a full table.
THEOREM NothingElseLost == Spec => []Accounted
<1>1. IInv /\ Serial => Accounted
  BY DEF IInv, TypeOK, Serial, SlotsHold, HostHeld, Accounted
<1> QED
  BY <1>1, Invariance, SerialInvariance, PTL

HIDE PosixAssumption

-----------------------------------------------------------------------------
(* The memory of the default pager                                         *)

Region == [addr : Nat, size : Nat]

\* What BlocksDisjoint needs to be inductive: the blocks are not empty, the area
\* is not negative, and a thread that comes back to kget_space with pages has
\* enough of them for its block.
KTypes ==
  /\ mapped \subseteq Nat
  /\ live \subseteq Region /\ kfree_list \subseteq Region
  /\ \A b \in live \cup kfree_list : b.size > 0
  /\ kalloc_next_space \in Nat /\ kalloc_end_of_space \in Nat
  /\ kalloc_next_space <= kalloc_end_of_space /\ kalloc_wasted_space \in Nat
  /\ where \in [Caller -> {"idle", "get", "map", "unmap"}]
  /\ want \in [Caller -> Nat] /\ new_space \in [Caller -> Region]

KThreads ==
  \A t \in Caller :
    /\ where[t] # "idle" => want[t] > 0
    /\ where[t] \in {"idle", "map"} => new_space[t] = Nothing
    /\ where[t] = "get" /\ new_space[t] # Nothing => want[t] <= new_space[t].size

KInv == KTypes /\ KThreads /\ BlocksDisjoint

-----------------------------------------------------------------------------

\* round_page gives enough pages.
LEMMA Rounding == \A n \in Nat : round_page(n) \in Nat /\ n <= round_page(n)
<1> SUFFICES ASSUME NEW n \in Nat PROVE round_page(n) \in Nat /\ n <= round_page(n)
  OBVIOUS
<1> DEFINE m == n + PageSize - 1
<1> DEFINE q == m \div PageSize
<1>1. PageSize \in Nat \ {0} /\ m \in Nat
  BY KallocAssumption, SMTT(30)
<1>2. q \in Nat /\ m < PageSize * q + PageSize
  BY <1>1, SMTT(30)
<1> HIDE DEF q
<1>3. PageSize * q \in Nat
  BY <1>1, <1>2, SMTT(30)
<1>4. n <= PageSize * q
  BY <1>1, <1>2, <1>3, SMTT(30)
<1> QED
  BY <1>3, <1>4 DEF round_page, q

LEMMA RequestSizes == \A n \in Requests : /\ Allocsize(n) \in Nat /\ Allocsize(n) > 0
                                   /\ BlockSize(n) \in Nat /\ BlockSize(n) > 0
  BY Rounding, KallocAssumption, AllocsizeAssumption, SMTT(30) DEF BlockSize

LEMMA InitKInv == kalloc_init => KInv
<1> SUFFICES ASSUME kalloc_init PROVE KInv
  OBVIOUS
<1>1. Nothing \in Region /\ Cells(Nothing) = {} /\ Area = {}
  BY KallocAssumption, SMTT(30) DEF kalloc_init, Nothing, Block, Region, Cells, Area
<1>2. KTypes
  BY <1>1, KallocAssumption, SMTT(30) DEF kalloc_init, KTypes
<1>3. KThreads
  BY DEF kalloc_init, KThreads
<1>4. BlocksDisjoint
  BY <1>1 DEF kalloc_init, BlocksDisjoint, Apart
<1> QED
  BY <1>2, <1>3, <1>4 DEF KInv

\* A thread gets a block from a free list, or goes to kget_space.
LEMMA KallocKInv ==
    ASSUME KInv, NEW t \in Caller, NEW n \in Requests, kalloc(t, n) PROVE KInv'
<1> USE DEF KInv
<1>0. Allocsize(n) \in Nat /\ Allocsize(n) > 0
  BY RequestSizes
<1>1. Area' = Area /\ UNCHANGED <<mapped, areaVars, new_space>>
  BY DEF kalloc, Area, areaVars
<1>2. live' \cup kfree_list' = live \cup kfree_list /\ Apart(live', kfree_list')
  BY DEF kalloc, BlocksDisjoint, Apart
<1>3. KTypes'
  BY <1>0, <1>1, <1>2 DEF kalloc, KTypes, Continue, areaVars
<1>4. KThreads'
  BY <1>0, <1>1 DEF kalloc, KTypes, KThreads, Continue
<1>5. BlocksDisjoint'
  BY <1>1, <1>2 DEF BlocksDisjoint
<1> QED
  BY <1>3, <1>4, <1>5

\* A block that lies apart from all others joins the blocks in use.
LEMMA AddBlock ==
    ASSUME KInv, NEW b \in Region, b.size > 0,
           \A c \in live \cup kfree_list : Apart(Cells(b), Cells(c))
    PROVE  /\ b \notin live \cup kfree_list
           /\ Apart(live \cup {b}, kfree_list)
           /\ \A c, d \in live \cup {b} \cup kfree_list : c # d => Apart(Cells(c), Cells(d))
<1>1. b.addr \in Cells(b)
  BY SMTT(30) DEF Region, Cells
<1>2. b \notin live \cup kfree_list
  BY <1>1 DEF Apart
<1> QED
  BY <1>2 DEF KInv, BlocksDisjoint, Apart

\* Memory that vm_map has just mapped.
LEMMA FreshMemory ==
    ASSUME KInv, NEW b \in Region, vm_map(b)
    PROVE  /\ Cells(b) \subseteq mapped' /\ mapped \subseteq mapped' /\ mapped' \subseteq Nat
           /\ Apart(Cells(b), Area)
           /\ \A c \in live \cup kfree_list : Apart(Cells(b), Cells(c))
           /\ \A t \in Caller : Apart(Cells(b), Cells(new_space[t]))
<1>1. mapped' = mapped \cup Cells(b) /\ Cells(b) \cap mapped = {}
  BY DEF vm_map
<1>2. Cells(b) \subseteq Nat
  BY SMTT(30) DEF Cells, Region
<1>3. Cells(b) \subseteq mapped' /\ mapped \subseteq mapped' /\ mapped' \subseteq Nat
  BY <1>1, <1>2 DEF KInv, KTypes
<1>4. \A S : S \subseteq mapped => Apart(Cells(b), S)
  BY <1>1 DEF Apart
<1> QED
  BY <1>3, <1>4 DEF KInv, BlocksDisjoint

LEMMA LargeKInv ==
    ASSUME KInv, NEW t \in Caller, NEW n \in Requests, kalloc_large(t, n) PROVE KInv'
<1> USE DEF KInv
<1>1. PICK a \in PageSize .. Top : /\ vm_map(Block(a, BlockSize(n)))
                                  /\ live' = live \cup {Block(a, BlockSize(n))}
  BY DEF kalloc_large
<1> DEFINE b == Block(a, BlockSize(n))
<1>2. b \in Region /\ b.size > 0
  BY RequestSizes, KallocAssumption, SMTT(30) DEF Block, Region
<1>3. Area' = Area /\ UNCHANGED <<kfree_list, areaVars, where, want, new_space>>
  BY DEF kalloc_large, Area, areaVars
<1> HIDE DEF b
<1>4. vm_map(b) /\ live' = live \cup {b}
  BY <1>1 DEF b
<1>5. KTypes'
  BY <1>2, <1>3, <1>4, FreshMemory DEF KTypes, areaVars
<1>6. KThreads'
  BY <1>3 DEF KThreads
<1>7. BlocksDisjoint'
  <2>1. /\ Apart(live', kfree_list')
        /\ \A c, d \in live' \cup kfree_list' : c # d => Apart(Cells(c), Cells(d))
    BY <1>2, <1>3, <1>4, FreshMemory, AddBlock
  <2>2. \A c \in live' \cup kfree_list' :
          /\ Cells(c) \subseteq mapped' /\ Apart(Cells(c), Area')
          /\ \A u \in Caller : Apart(Cells(c), Cells(new_space'[u]))
    BY <1>2, <1>3, <1>4, FreshMemory DEF BlocksDisjoint
  <2>3. Area' \subseteq mapped' /\ \A u \in Caller : Cells(new_space'[u]) \subseteq mapped'
    BY <1>2, <1>3, <1>4, FreshMemory DEF BlocksDisjoint
  <2> QED
    BY <1>3, <2>1, <2>2, <2>3 DEF BlocksDisjoint
<1> QED
  BY <1>5, <1>6, <1>7

LEMMA NoSpaceKInv == ASSUME KInv, NEW t \in Caller, NoSpace(t) PROVE KInv'
<1> USE DEF KInv
<1>1. Area' = Area /\ UNCHANGED <<mapped, live, kfree_list, areaVars, want, new_space>>
  BY DEF NoSpace, Area, areaVars
<1>2. KTypes' /\ KThreads'
  BY <1>1 DEF NoSpace, KTypes, KThreads, Continue, areaVars
<1>3. BlocksDisjoint'
  BY <1>1 DEF BlocksDisjoint
<1> QED
  BY <1>2, <1>3

\* The thread's new pages lie apart from everything.
LEMMA MapSpaceKInv == ASSUME KInv, NEW t \in Caller, MapSpace(t) PROVE KInv'
<1> USE DEF KInv
<1>1. Area' = Area /\ UNCHANGED <<live, kfree_list, areaVars>>
  BY DEF MapSpace, Area, areaVars
<1>2. Nothing \in Region /\ Cells(Nothing) = {}
  BY SMTT(30) DEF Nothing, Block, Region, Cells
<1>3. CASE Return(t) /\ UNCHANGED mapped
  <2>1. new_space' = new_space
    BY <1>3 DEF MapSpace, Return, KTypes, KThreads
  <2>2. KTypes' /\ KThreads'
    BY <1>1, <1>2, <1>3, <2>1 DEF Return, Continue, KTypes, KThreads, areaVars
  <2>3. BlocksDisjoint'
    BY <1>1, <1>3, <2>1 DEF BlocksDisjoint
  <2> QED
    BY <2>2, <2>3
<1>4. ASSUME NEW a \in PageSize .. Top, vm_map(Block(a, round_page(want[t]))),
             new_space' = [new_space EXCEPT ![t] = Block(a, round_page(want[t]))],
             Continue(t, "get"), UNCHANGED want
      PROVE  KInv'
  <2> DEFINE b == Block(a, round_page(want[t]))
  <2>1. b \in Region /\ want[t] <= b.size
    BY Rounding, KallocAssumption, SMTT(30) DEF KTypes, Block, Region
  <2> HIDE DEF b
  <2>2. vm_map(b) /\ new_space' = [new_space EXCEPT ![t] = b]
    BY <1>4 DEF b
  <2>3. KTypes'
    BY <1>1, <1>4, <2>1, <2>2, FreshMemory DEF KTypes, Continue, areaVars
  <2>4. KThreads'
    BY <1>4, <2>1, <2>2 DEF KTypes, KThreads, Continue, MapSpace
  <2>5. BlocksDisjoint'
    <3>1. \A u \in Caller : new_space'[u] = IF u = t THEN b ELSE new_space[u]
      BY <2>2 DEF KTypes
    <3>2. \A u \in Caller :
            /\ Cells(new_space'[u]) \subseteq mapped' /\ Apart(Cells(new_space'[u]), Area')
            /\ \A v \in Caller : u # v => Apart(Cells(new_space'[u]), Cells(new_space'[v]))
      BY <1>1, <2>1, <2>2, <3>1, FreshMemory, SMTT(30) DEF BlocksDisjoint, Apart
    <3>3. \A c \in live' \cup kfree_list' :
            /\ Cells(c) \subseteq mapped' /\ Apart(Cells(c), Area')
            /\ \A u \in Caller : Apart(Cells(c), Cells(new_space'[u]))
      BY <1>1, <2>1, <2>2, <3>1, FreshMemory, SMTT(30) DEF BlocksDisjoint, Apart
    <3>4. Area' \subseteq mapped'
      BY <1>1, <2>1, <2>2, FreshMemory DEF BlocksDisjoint
    <3> QED
      BY <1>1, <3>2, <3>3, <3>4 DEF BlocksDisjoint
  <2> QED
    BY <2>3, <2>4, <2>5
<1> QED
  BY <1>3, <1>4 DEF MapSpace

\* A block is cut from the area.
LEMMA CutSpaceKInv == ASSUME KInv, NEW t \in Caller, CutSpace(t) PROVE KInv'
<1> USE DEF KInv
<1> DEFINE b == Block(kalloc_next_space, want[t])
<1>1. /\ live' = live \cup {b} /\ kalloc_next_space' = kalloc_next_space + want[t]
      /\ UNCHANGED <<mapped, kfree_list, kalloc_end_of_space>>
      /\ where[t] = "get" /\ Fits(t)
  BY DEF CutSpace
<1>2. /\ b \in Region /\ b.size > 0 /\ Cells(b) \subseteq Area /\ Area' \subseteq Area
      /\ Apart(Cells(b), Area')
  BY <1>1, SMTT(30) DEF KTypes, KThreads, Block, Region, Cells, Area, Fits, Apart
<1>3. new_space' = new_space
  BY DEF CutSpace, Return, KTypes
<1> HIDE DEF b
<1>4. \A c \in live \cup kfree_list : Apart(Cells(b), Cells(c))
  BY <1>2 DEF BlocksDisjoint, Apart
<1>5. KTypes'
  BY <1>1, <1>2, <1>3, SMTT(30) DEF CutSpace, KTypes, KThreads, Fits, Return, Continue
<1>6. KThreads'
  BY <1>1, <1>3 DEF CutSpace, KTypes, KThreads, Return, Continue
<1>7. BlocksDisjoint'
  <2>1. /\ Apart(live', kfree_list')
        /\ \A c, d \in live' \cup kfree_list' : c # d => Apart(Cells(c), Cells(d))
    BY <1>1, <1>2, <1>4, AddBlock
  <2>2. \A c \in live' \cup kfree_list' :
          /\ Cells(c) \subseteq mapped' /\ Apart(Cells(c), Area')
          /\ \A u \in Caller : Apart(Cells(c), Cells(new_space'[u]))
    BY <1>1, <1>2, <1>3 DEF BlocksDisjoint, Apart
  <2>3. /\ Area' \subseteq mapped'
        /\ \A u \in Caller : Apart(Cells(new_space'[u]), Area')
    BY <1>1, <1>2, <1>3 DEF BlocksDisjoint, Apart
  <2> QED
    BY <1>1, <1>3, <2>1, <2>2, <2>3 DEF BlocksDisjoint
<1> QED
  BY <1>5, <1>6, <1>7

\* A thread's pages become part of the area, or the area; the block it cuts and
\* the new area lie in what was the area or the thread's own.
LEMMA AddSpaceKInv == ASSUME KInv, NEW t \in Caller, AddSpace(t) PROVE KInv'
<1> USE DEF KInv
<1> DEFINE new == new_space[t]
           joined == new.addr = kalloc_end_of_space
           from == IF joined THEN kalloc_next_space ELSE new.addr
           b == Block(from, want[t])
<1>1. /\ live' = live \cup {b} /\ kalloc_next_space' = from + want[t]
      /\ kalloc_end_of_space' = new.addr + new.size
      /\ UNCHANGED <<mapped, kfree_list>> /\ Return(t)
      /\ where[t] = "get" /\ ~Fits(t) /\ new # Nothing
  BY DEF AddSpace
<1>2. new \in Region /\ want[t] \in Nat /\ want[t] > 0 /\ want[t] <= new.size
  BY <1>1 DEF KTypes, KThreads
<1>3. b \in Region /\ b.size > 0 /\ from \in Nat
  BY <1>2 DEF KTypes, Block, Region
<1>4. /\ Cells(b) \subseteq Area \cup Cells(new) /\ Area' \subseteq Area \cup Cells(new)
      /\ Apart(Cells(b), Area')
  BY <1>1, <1>2, SMTT(30) DEF KTypes, Block, Region, Cells, Area, Apart
<1>5. kalloc_next_space' \in Nat /\ kalloc_end_of_space' \in Nat
      /\ kalloc_next_space' <= kalloc_end_of_space' /\ kalloc_wasted_space' \in Nat
  BY <1>1, <1>2, SMTT(30) DEF KTypes, Region, AddSpace
<1>6. Nothing \in Region /\ Cells(Nothing) = {}
  BY SMTT(30) DEF Nothing, Block, Region, Cells
<1>7. \A u \in Caller : new_space'[u] = IF u = t THEN Nothing ELSE new_space[u]
  BY <1>1 DEF Return, KTypes
<1>8. KThreads'
  BY <1>1, <1>7 DEF KTypes, KThreads, Return, Continue
<1> HIDE DEF new, joined, from, b
<1>9. KTypes'
  BY <1>1, <1>3, <1>5, <1>6 DEF KTypes, Return, Continue
<1>10. \A c \in live \cup kfree_list : Apart(Cells(b), Cells(c)) /\ Apart(Cells(c), Area')
  BY <1>4 DEF BlocksDisjoint, Apart, new
<1>11. Area' \subseteq mapped /\ Cells(b) \subseteq mapped
  BY <1>4 DEF BlocksDisjoint, new
<1>12. \A u \in Caller : u # t => /\ Apart(Cells(b), Cells(new_space[u]))
                                  /\ Apart(Cells(new_space[u]), Area')
  BY <1>4 DEF BlocksDisjoint, Apart, new
<1>13. BlocksDisjoint'
  <2>1. /\ Apart(live', kfree_list')
        /\ \A c, d \in live' \cup kfree_list' : c # d => Apart(Cells(c), Cells(d))
    BY <1>1, <1>3, <1>10, AddBlock
  <2>2. \A c \in live' \cup kfree_list' : Cells(c) \subseteq mapped' /\ Apart(Cells(c), Area')
    BY <1>1, <1>4, <1>10, <1>11 DEF BlocksDisjoint
  <2>3. \A c \in live' \cup kfree_list', u \in Caller : Apart(Cells(c), Cells(new_space'[u]))
    BY <1>1, <1>6, <1>7, <1>12 DEF BlocksDisjoint, Apart
  <2>4. \A u \in Caller :
          /\ Cells(new_space'[u]) \subseteq mapped' /\ Apart(Cells(new_space'[u]), Area')
          /\ \A v \in Caller : u # v => Apart(Cells(new_space'[u]), Cells(new_space'[v]))
    BY <1>1, <1>6, <1>7, <1>12 DEF BlocksDisjoint, Apart
  <2> QED
    BY <1>1, <1>11, <2>1, <2>2, <2>3, <2>4 DEF BlocksDisjoint
<1> QED
  BY <1>8, <1>9, <1>13

\* Memory goes back to the system: what lies apart from it stays mapped.
LEMMA UnmapKInv == ASSUME KInv, NEW t \in Caller, Unmap(t) PROVE KInv'
<1> USE DEF KInv
<1> DEFINE new == new_space[t]
<1>1. /\ mapped' = mapped \ Cells(new) /\ Return(t) /\ Area' = Area
      /\ UNCHANGED <<live, kfree_list, areaVars>>
  BY DEF Unmap, Area, areaVars
<1>2. Nothing \in Region /\ Cells(Nothing) = {}
  BY SMTT(30) DEF Nothing, Block, Region, Cells
<1>3. \A u \in Caller : new_space'[u] = IF u = t THEN Nothing ELSE new_space[u]
  BY <1>1 DEF Return, KTypes
<1>4. KTypes' /\ KThreads'
  BY <1>1, <1>2, <1>3 DEF KTypes, KThreads, Return, Continue, areaVars
<1> HIDE DEF new
<1>5. \A c \in live \cup kfree_list : Cells(c) \subseteq mapped'
  BY <1>1 DEF BlocksDisjoint, Apart, new
<1>6. Area' \subseteq mapped' /\ \A u \in Caller : Cells(new_space'[u]) \subseteq mapped'
  BY <1>1, <1>2, <1>3 DEF BlocksDisjoint, Apart, new
<1>7. BlocksDisjoint'
  BY <1>1, <1>2, <1>3, <1>5, <1>6 DEF BlocksDisjoint, Apart
<1> QED
  BY <1>4, <1>7

LEMMA KfreeKInv == ASSUME KInv, NEW b \in live, kfree(b) PROVE KInv'
<1> USE DEF KInv
<1>1. Area' = Area /\ UNCHANGED <<areaVars, where, want, new_space>>
  BY DEF kfree, Area, areaVars
<1>2. KThreads'
  BY <1>1 DEF KThreads
<1>3. CASE b.size < PageSize
  <2>1. /\ live' \cup kfree_list' = live \cup kfree_list /\ Apart(live', kfree_list')
        /\ mapped' = mapped
    BY <1>3 DEF kfree, BlocksDisjoint, Apart
  <2>2. KTypes'
    BY <1>1, <2>1 DEF KTypes, areaVars
  <2>3. BlocksDisjoint'
    BY <1>1, <2>1 DEF BlocksDisjoint
  <2> QED
    BY <1>2, <2>2, <2>3
<1>4. CASE ~(b.size < PageSize)
  <2>1. live' = live \ {b} /\ kfree_list' = kfree_list /\ mapped' = mapped \ Cells(b)
    BY <1>4 DEF kfree
  <2>2. KTypes'
    BY <1>1, <2>1 DEF KTypes, areaVars
  <2>3. \A c \in live' \cup kfree_list' : c # b /\ Cells(c) \subseteq mapped'
    BY <2>1 DEF BlocksDisjoint, Apart
  <2>4. Area' \subseteq mapped' /\ \A u \in Caller : Cells(new_space'[u]) \subseteq mapped'
    BY <1>1, <2>1 DEF BlocksDisjoint, Apart
  <2>5. BlocksDisjoint'
    BY <1>1, <2>1, <2>3, <2>4 DEF BlocksDisjoint, Apart
  <2> QED
    BY <1>2, <2>2, <2>5
<1> QED
  BY <1>3, <1>4

LEMMA NextKInv == ASSUME KInv, [KallocNext]_kallocVars PROVE KInv'
<1>1. CASE UNCHANGED kallocVars
  <2>1. Area' = Area
    BY <1>1 DEF kallocVars, areaVars, Area
  <2> QED
    BY <1>1, <2>1 DEF kallocVars, areaVars, KInv, KTypes, KThreads, BlocksDisjoint
<1>2. CASE KallocNext
  BY <1>2, KallocKInv, LargeKInv, NoSpaceKInv, MapSpaceKInv, AddSpaceKInv, CutSpaceKInv,
     UnmapKInv, KfreeKInv DEF KallocNext
<1> QED
  BY <1>1, <1>2

-----------------------------------------------------------------------------

\* No memory is given out twice and none that is not mapped, whatever the number
\* of threads in kget_space at once (kalloc.c:109-170).
THEOREM Disjointness == KallocSpec => []BlocksDisjoint
<1>1. KInv => BlocksDisjoint
  BY DEF KInv
<1> QED
  BY <1>1, InitKInv, NextKInv, PTL DEF KallocSpec

-----------------------------------------------------------------------------
(* The memory that is mapped and not kept for anything                     *)

KeptIn(x) ==
  \/ \E b \in live \cup kfree_list : x \in Cells(b)
  \/ x \in Area
  \/ \E t \in Caller : x \in Cells(new_space[t])

Lost == {x \in mapped : ~KeptIn(x)}

LEMMA LostIs == mapped \ Kept = Lost
<1> DEFINE B == UNION {Cells(b) : b \in live \cup kfree_list}
           N == UNION {Cells(new_space[t]) : t \in Caller}
<1>1. ASSUME NEW x PROVE x \in Kept <=> KeptIn(x)
  <2>1. x \in B <=> \E b \in live \cup kfree_list : x \in Cells(b)
    OBVIOUS
  <2>2. x \in N <=> \E t \in Caller : x \in Cells(new_space[t])
    OBVIOUS
  <2>3. Kept = (B \cup Area) \cup N
    BY DEF Kept
  <2> HIDE DEF B, N
  <2> QED
    BY <2>1, <2>2, <2>3 DEF KeptIn
<1> QED
  BY <1>1 DEF Lost

\* A set of addresses is mapped and kept, or given up and no longer kept.
LEMMA SameLost ==
    ASSUME NEW C, C \cap mapped = {}, mapped' = mapped \cup C,
           \A x : KeptIn(x)' <=> KeptIn(x) \/ x \in C
    PROVE  Lost' = Lost
  BY DEF Lost

LEMMA SameLostLess ==
    ASSUME NEW C, mapped' = mapped \ C,
           \A x : KeptIn(x) <=> KeptIn(x)' \/ x \in C
    PROVE  Lost' = Lost
  BY DEF Lost

LEMMA SameLostSame ==
    ASSUME mapped' = mapped, \A x : KeptIn(x)' <=> KeptIn(x)
    PROVE  Lost' = Lost
  BY DEF Lost

\* kget_space: what is left of an area that new pages do not continue is lost,
\* and it is as large as kalloc_wasted_space grows.
LEMMA AddSpaceLost ==
    ASSUME KInv, NEW t \in Caller, AddSpace(t)
    PROVE  \/ Lost' = Lost /\ kalloc_wasted_space' = kalloc_wasted_space
           \/ /\ Lost' = Lost \cup Area /\ Lost \cap Area = {}
              /\ kalloc_wasted_space' = kalloc_wasted_space
                                         + (kalloc_end_of_space - kalloc_next_space)
<1> USE DEF KInv
<1> DEFINE new == new_space[t]
           joined == new.addr = kalloc_end_of_space
           from == IF joined THEN kalloc_next_space ELSE new.addr
           b == Block(from, want[t])
<1>1. /\ live' = live \cup {b} /\ kalloc_next_space' = from + want[t]
      /\ kalloc_end_of_space' = new.addr + new.size
      /\ UNCHANGED <<mapped, kfree_list>> /\ Return(t)
      /\ where[t] = "get" /\ ~Fits(t) /\ new # Nothing
      /\ kalloc_wasted_space' = kalloc_wasted_space
           + (IF joined THEN 0 ELSE kalloc_end_of_space - kalloc_next_space)
  BY DEF AddSpace
<1>2. new \in Region /\ want[t] \in Nat /\ want[t] > 0 /\ want[t] <= new.size
  BY <1>1 DEF KTypes, KThreads
<1>3. Cells(Nothing) = {} /\ \A u \in Caller : new_space'[u] = IF u = t THEN Nothing ELSE new_space[u]
  BY <1>1, SMTT(30) DEF Return, KTypes, Nothing, Block, Cells
<1>4. \A x : x \in Cells(b) \cup Area' <=> x \in Cells(new) \/ (joined /\ x \in Area)
  BY <1>1, <1>2, SMTT(30) DEF KTypes, Block, Region, Cells, Area
<1> HIDE DEF b, from
<1>5. ASSUME NEW x
      PROVE  KeptIn(x)' <=> \/ \E c \in live \cup kfree_list : x \in Cells(c)
                            \/ joined /\ x \in Area
                            \/ \E u \in Caller : x \in Cells(new_space[u])
  <2>1. KeptIn(x)' <=> \/ \E c \in live \cup kfree_list : x \in Cells(c)
                       \/ x \in Cells(b) \cup Area'
                       \/ \E u \in Caller : x \in Cells(new_space'[u])
    BY <1>1 DEF KeptIn
  <2>2. (\E u \in Caller : x \in Cells(new_space[u])) <=>
          x \in Cells(new) \/ \E u \in Caller : x \in Cells(new_space'[u])
    BY <1>3
  <2> QED
    BY <1>4, <2>1, <2>2
<1>6. CASE joined
  <2>1. \A x : KeptIn(x)' <=> KeptIn(x)
    BY <1>5, <1>6 DEF KeptIn
  <2>2. Lost' = Lost
    BY <1>1, <2>1, SameLostSame
  <2>3. kalloc_wasted_space' = kalloc_wasted_space + 0
    BY <1>1, <1>6
  <2> QED
    BY <2>2, <2>3, SMTT(30) DEF KTypes
<1>7. CASE ~joined
  <2>1. ASSUME NEW x PROVE x \in Area => x \in mapped /\ ~KeptIn(x)' /\ KeptIn(x)
    BY <1>5, <1>7 DEF BlocksDisjoint, Apart, KeptIn
  <2>2. ASSUME NEW x PROVE KeptIn(x) <=> KeptIn(x)' \/ x \in Area
    BY <1>5, <1>7 DEF KeptIn
  <2>3. Lost' = Lost \cup Area /\ Lost \cap Area = {}
    BY <1>1, <2>1, <2>2 DEF Lost
  <2> QED
    BY <1>1, <1>7, <2>3
<1> QED
  BY <1>6, <1>7

\* No other step loses memory.
LEMMA NothingLost ==
    ASSUME KInv, [KallocNext]_kallocVars, ~\E t \in Caller : AddSpace(t)
    PROVE  Lost' = Lost /\ kalloc_wasted_space' = kalloc_wasted_space
<1> USE DEF KInv
<1>1. CASE UNCHANGED kallocVars
  BY <1>1 DEF kallocVars, areaVars, Lost, KeptIn, Area
<1>2. ASSUME NEW t \in Caller, NEW n \in Requests, kalloc(t, n)
      PROVE  Lost' = Lost /\ UNCHANGED areaVars
  <2>1. Area' = Area /\ UNCHANGED <<mapped, areaVars, new_space>>
    BY <1>2 DEF kalloc, Area, areaVars
  <2>2. live' \cup kfree_list' = live \cup kfree_list
    BY <1>2 DEF kalloc
  <2>3. \A x : KeptIn(x)' <=> KeptIn(x)
    BY <2>1, <2>2 DEF KeptIn
  <2> QED
    BY <2>1, <2>3, SameLostSame
<1>3. ASSUME NEW t \in Caller, NEW n \in Requests, kalloc_large(t, n)
      PROVE  Lost' = Lost /\ UNCHANGED areaVars
  <2>1. PICK b : vm_map(b) /\ live' = live \cup {b}
    BY <1>3 DEF kalloc_large
  <2>2. Area' = Area /\ UNCHANGED <<kfree_list, areaVars, new_space>>
    BY <1>3 DEF kalloc_large, Area, areaVars
  <2>3. \A x : KeptIn(x)' <=> KeptIn(x) \/ x \in Cells(b)
    BY <2>1, <2>2 DEF KeptIn
  <2> QED
    BY <2>1, <2>2, <2>3, SameLost DEF vm_map
<1>4. ASSUME NEW t \in Caller, NoSpace(t)
      PROVE  Lost' = Lost /\ UNCHANGED areaVars
  BY <1>4 DEF NoSpace, Lost, KeptIn, Area, areaVars
<1>5. ASSUME NEW t \in Caller, MapSpace(t)
      PROVE  Lost' = Lost /\ UNCHANGED areaVars
  <2>1. Area' = Area /\ UNCHANGED <<live, kfree_list, areaVars>>
    BY <1>5 DEF MapSpace, Area, areaVars
  <2>2. new_space[t] = Nothing /\ Cells(Nothing) = {}
    BY <1>5, SMTT(30) DEF MapSpace, KThreads, Nothing, Block, Cells
  <2>3. CASE Return(t) /\ UNCHANGED mapped
    <3>1. new_space' = new_space
      BY <2>2, <2>3 DEF Return, KTypes
    <3> QED
      BY <2>1, <2>3, <3>1 DEF Lost, KeptIn
  <2>4. ASSUME NEW b, vm_map(b), new_space' = [new_space EXCEPT ![t] = b] PROVE Lost' = Lost
    <3>1. \A u \in Caller : new_space'[u] = IF u = t THEN b ELSE new_space[u]
      BY <2>4 DEF KTypes
    <3>2. \A x : KeptIn(x)' <=> KeptIn(x) \/ x \in Cells(b)
      BY <2>1, <2>2, <3>1 DEF KeptIn
    <3> QED
      BY <2>4, <3>2, SameLost DEF vm_map
  <2> QED
    BY <1>5, <2>1, <2>3, <2>4 DEF MapSpace
<1>6. ASSUME NEW t \in Caller, CutSpace(t)
      PROVE  Lost' = Lost /\ kalloc_wasted_space' = kalloc_wasted_space
  <2> DEFINE b == Block(kalloc_next_space, want[t])
  <2>1. /\ live' = live \cup {b} /\ kalloc_next_space' = kalloc_next_space + want[t]
        /\ UNCHANGED <<mapped, kfree_list, kalloc_end_of_space, kalloc_wasted_space>>
        /\ where[t] = "get" /\ Fits(t)
    BY <1>6 DEF CutSpace
  <2>2. \A x : x \in Area <=> x \in Area' \/ x \in Cells(b)
    BY <2>1, SMTT(30) DEF KTypes, KThreads, Block, Cells, Area, Fits
  <2>3. new_space' = new_space
    BY <1>6 DEF CutSpace, Return, KTypes
  <2> HIDE DEF b
  <2>4. \A x : KeptIn(x)' <=> KeptIn(x)
    BY <2>1, <2>2, <2>3 DEF KeptIn
  <2> QED
    BY <2>1, <2>4, SameLostSame
<1>7. ASSUME NEW t \in Caller, Unmap(t)
      PROVE  Lost' = Lost /\ UNCHANGED areaVars
  <2>1. /\ mapped' = mapped \ Cells(new_space[t]) /\ Return(t) /\ Area' = Area
        /\ UNCHANGED <<live, kfree_list, areaVars>>
    BY <1>7 DEF Unmap, Area, areaVars
  <2>2. /\ \A u \in Caller : new_space'[u] = IF u = t THEN Nothing ELSE new_space[u]
        /\ Cells(Nothing) = {}
    BY <2>1, SMTT(30) DEF Return, KTypes, Nothing, Block, Cells
  <2>3. \A x : KeptIn(x) <=> KeptIn(x)' \/ x \in Cells(new_space[t])
    BY <2>1, <2>2 DEF KeptIn
  <2> QED
    BY <2>1, <2>3, SameLostLess
<1>8. ASSUME NEW b \in live, kfree(b)
      PROVE  Lost' = Lost /\ UNCHANGED areaVars
  <2>1. Area' = Area /\ UNCHANGED <<areaVars, new_space>> /\ live' = live \ {b}
    BY <1>8 DEF kfree, Area, areaVars
  <2>2. CASE b.size < PageSize
    <3>1. live' \cup kfree_list' = live \cup kfree_list /\ mapped' = mapped
      BY <1>8, <2>2 DEF kfree
    <3>2. \A x : KeptIn(x)' <=> KeptIn(x)
      BY <2>1, <3>1 DEF KeptIn
    <3> QED
      BY <2>1, <3>1, <3>2, SameLostSame
  <2>3. CASE ~(b.size < PageSize)
    <3>1. kfree_list' = kfree_list /\ mapped' = mapped \ Cells(b)
      BY <1>8, <2>3 DEF kfree
    <3>2. \A x : KeptIn(x) <=> KeptIn(x)' \/ x \in Cells(b)
      BY <2>1, <3>1 DEF KeptIn
    <3> QED
      BY <2>1, <3>1, <3>2, SameLostLess
  <2> QED
    BY <2>2, <2>3
<1> QED
  BY <1>1, <1>2, <1>3, <1>4, <1>5, <1>6, <1>7, <1>8 DEF KallocNext, areaVars

Wasted == IsFiniteSet(Lost) /\ Cardinality(Lost) = kalloc_wasted_space

LEMMA NextWasted == ASSUME KInv, Wasted, [KallocNext]_kallocVars PROVE Wasted'
<1>1. CASE Lost' = Lost /\ kalloc_wasted_space' = kalloc_wasted_space
  BY <1>1 DEF Wasted
<1>2. ASSUME NEW t \in Caller, AddSpace(t), Lost' = Lost \cup Area, Lost \cap Area = {},
             kalloc_wasted_space' = kalloc_wasted_space
                                    + (kalloc_end_of_space - kalloc_next_space)
      PROVE  Wasted'
  <2>1. /\ kalloc_next_space \in Nat /\ kalloc_end_of_space \in Nat
        /\ kalloc_next_space <= kalloc_end_of_space
    BY DEF KInv, KTypes
  <2>2. IsFiniteSet(Area) /\ Cardinality(Area) = kalloc_end_of_space - kalloc_next_space
    <3>1. kalloc_next_space \in Int /\ kalloc_end_of_space - 1 \in Int
      BY <2>1, SMTT(30)
    <3>2. /\ IsFiniteSet(Area)
          /\ Cardinality(Area) = IF kalloc_next_space > kalloc_end_of_space - 1 THEN 0
                                 ELSE kalloc_end_of_space - 1 - kalloc_next_space + 1
      BY <3>1, FS_Interval DEF Area
    <3> QED
      BY <2>1, <3>2, SMTT(30)
  <2>3. Cardinality(Lost \cap Area) = 0
    BY <1>2, FS_EmptySet
  <2>4. /\ IsFiniteSet(Lost \cup Area)
        /\ Cardinality(Lost \cup Area) = Cardinality(Lost) + Cardinality(Area) - 0
    BY <2>2, <2>3, FS_Union DEF Wasted
  <2>5. Cardinality(Lost) \in Nat /\ Cardinality(Area) \in Nat
    BY <2>2, FS_CardinalityType DEF Wasted
  <2> QED
    BY <1>2, <2>1, <2>2, <2>4, <2>5, SMTT(30) DEF Wasted
<1> QED
  BY <1>1, <1>2, AddSpaceLost, NothingLost

LEMMA InitWasted == kalloc_init => Wasted
  BY FS_EmptySet DEF kalloc_init, Wasted, Lost

\* kalloc_wasted_space is exactly the mapped memory that no block, no area and no
\* thread has: kget_space loses none when several threads bring pages at once.
THEOREM Accounting == KallocSpec => []SpaceAccounted
<1>1. Wasted => SpaceAccounted
  BY LostIs DEF Wasted, SpaceAccounted
<1> QED
  BY <1>1, InitKInv, NextKInv, InitWasted, NextWasted, PTL DEF KallocSpec

=============================================================================
