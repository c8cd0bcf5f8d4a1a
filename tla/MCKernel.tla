------------------------------ MODULE MCKernel ------------------------------
(***************************************************************************)
(* The kernel's life cycle, LazyFS by itself and the scheduler for TLC.    *)
(* They share no state: a behaviour is one of Kernel, of LazyFs or of      *)
(* Scheduler, and leaves the others as they begin.                         *)
(*                                                                         *)
(* Every launch leaves the same two lowest descriptors free, for the event *)
(* queue and the backing file: LazyFs_moved.cfg shows what happens         *)
(* otherwise.                                                              *)
(***************************************************************************)
EXTENDS Kernel, Scheduler

SameLowest == {{0, 1, 2} \cup S : S \in SUBSET (5 .. MaxFd)}

VARIABLE part

allVars == <<vars, schedVars, part>>

\* Where nothing of the kernel runs, how it would be started does not matter.
Quiet == entry = "main" /\ (part = "scheduler" => \A n \in Fd : n > 2 => fd[n] = "closed")

AllInit ==
    /\ Init /\ scheduler_init
    /\ part \in {"kernel", "lazyfs", "scheduler"}
    /\ part # "kernel" => Quiet

Of(p, A) == part = p /\ A /\ UNCHANGED part
KernelPart == Of("kernel", Next) /\ UNCHANGED schedVars
LazyFsPart == Of("lazyfs", FsNext) /\ UNCHANGED <<kernelVars, schedVars>>
SchedulerPart == Of("scheduler", SchedNext) /\ UNCHANGED vars

AllNext == KernelPart \/ LazyFsPart \/ SchedulerPart

\* The fairness of Kernel's and Scheduler's own specifications.
AllSpec ==
    /\ AllInit /\ [][AllNext]_allVars
    /\ WF_allVars(Of("kernel", KernelStep) /\ UNCHANGED schedVars)
    /\ WF_allVars(Of("scheduler", scheduler_tick) /\ UNCHANGED vars)

-----------------------------------------------------------------------------
\* The while loop of scheduler_tick, from slot s.
\* Fault: the loop ends where it began instead of at slot 0.
SearchLoop_BackToStart(s) ==
    LET f[n \in 0 .. max_processes] ==
          LET i == (s + n) % max_processes
          IN IF process_status[i] = "RUNNING" \/ n = max_processes THEN i ELSE f[n + 1]
    IN f[0]

SearchLoop(s) ==
    LET f[i \in Slot] ==
          IF process_status[i] = "RUNNING" THEN i
          ELSE IF (i + 1) % max_processes = 0 THEN 0
          ELSE f[(i + 1) % max_processes]
    IN f[s]

\* FoundFrom, which scheduler_tick uses, is what the code's loop computes.
SearchIsLoop ==
    \A i \in Slot : LET s == (i + 1) % max_processes
                    IN FoundFrom(After(i)) = SearchLoop(s)
=============================================================================
