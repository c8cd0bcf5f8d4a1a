------------------------------- MODULE Kernel -------------------------------
(***************************************************************************)
(* The life of a kernel process, src/mirix/kernel.c with main.c,           *)
(* kernel_args.c, modules/registry.c and the init and cleanup of the       *)
(* services: boot, the program or debug shell it runs, shutdown, panic.    *)
(* It composes LazyFs with the host interface, which share the descriptor  *)
(* table.  A kernel may be killed at any step; then another is launched on *)
(* the same host, where the backing file and the semaphore's name remain.  *)
(*                                                                         *)
(* Each kernel_panic ends the process with exit(0), so the two statements  *)
(* that follow every call of it in mirix_kernel_main_with_args never run.  *)
(* Every path of kernel_main_loop returns before its event loop, which     *)
(* therefore has no action.  The Mach integrations are not built.          *)
(***************************************************************************)
EXTENDS LazyFs

CONSTANTS N_MODULES,  \* entries of kernel_modules
          Entries     \* which entry points are used: "main", "legacy"

ASSUME KernelAssumption ==
    /\ N_MODULES \in Nat
    /\ Entries \subseteq {"main", "legacy"}

VARIABLES pc,           \* where the kernel process is
          entry,        \* its entry point
          outcome,      \* how it ended
          status,       \* kernel_state.status
          initialized,  \* the services whose initialized flag is set
          kqueue_fd,    \* of host_state
          sem_name,     \* 1 while "/mirix_ipc_sem" exists on the host
          modules,      \* how many kernel modules are initialised
          args,         \* the arguments' memory: none, live, freed, twice
          child         \* the program started as init

kernelVars == <<pc, entry, outcome, status, initialized, kqueue_fd, sem_name,
                modules, args, child>>
vars == <<fsVars, kernelVars>>

Service == {"host", "ipc", "syscall", "posix"}

\* A new process, in main or mirix_kernel_main, on a host that ran none before.
Init ==
    /\ FsInit
    /\ sem_name = 0
    /\ pc = "parse"
    /\ entry \in Entries
    /\ outcome = "none"
    /\ status = "UNINITIALIZED"
    /\ initialized = {}
    /\ kqueue_fd = 0
    /\ modules = 0
    /\ args = "none"
    /\ child = "none"

\* The process ends.
Ends(how) == pc' = "ended" /\ outcome' = how

kernel_panic ==
    /\ Ends("panicked")
    /\ status' = "STOPPED"
    /\ UNCHANGED <<fsVars, entry, initialized, kqueue_fd, sem_name, modules,
                   args, child>>

-----------------------------------------------------------------------------
(* Boot *)

\* NULL, for --help, a bad option or no memory, ends the process.
parse_kernel_args ==
    /\ pc = "parse"
    /\ \/ /\ args' = "live"
          /\ status' = "INITIALIZING"
          /\ pc' = "host"
          /\ UNCHANGED outcome
       \/ Ends("refused") /\ UNCHANGED <<args, status>>
    /\ UNCHANGED <<fsVars, entry, initialized, kqueue_fd, sem_name, modules,
                   child>>

host_interface_init ==
    /\ pc = "host"
    /\ \/ \E n \in Fd :
             /\ LowestFree(n)
             /\ fd' = [fd EXCEPT ![n] = "kqueue"]
             /\ kqueue_fd' = n
             /\ initialized' = initialized \cup {"host"}
             /\ pc' = "ipc"
             /\ UNCHANGED <<backing_file_fd, saved, whole, mounted, clobbered,
                            entry, outcome, status, sem_name, modules, args,
                            child>>
       \/ kernel_panic

ipc_system_init ==
    /\ pc = "ipc"
    /\ \/ /\ sem_name' = 1
          /\ initialized' = initialized \cup {"ipc"}
          /\ pc' = "syscall"
          /\ UNCHANGED <<fsVars, entry, outcome, status, kqueue_fd, modules,
                         args, child>>
       \/ kernel_panic

\* Neither of these two can fail.
syscall_init ==
    /\ pc = "syscall"
    /\ initialized' = initialized \cup {"syscall"}
    /\ pc' = "posix"
    /\ UNCHANGED <<fsVars, entry, outcome, status, kqueue_fd, sem_name,
                   modules, args, child>>

posix_init ==
    /\ pc = "posix"
    /\ initialized' = initialized \cup {"posix"}
    /\ pc' = "modules"
    /\ UNCHANGED <<fsVars, entry, outcome, status, kqueue_fd, sem_name,
                   modules, args, child>>

\* The modules in order, up to the first that fails.
\* Fault: a failure is not noticed.
initialize_kernel_modules_Ignored ==
    /\ pc = "modules"
    /\ modules' \in 0 .. N_MODULES
    /\ pc' = "rootfs"
    /\ UNCHANGED <<fsVars, entry, outcome, status, initialized, kqueue_fd,
                   sem_name, args, child>>

initialize_kernel_modules ==
    /\ pc = "modules"
    /\ modules' \in 0 .. N_MODULES
    /\ IF modules' = N_MODULES
       THEN pc' = "rootfs" /\ UNCHANGED <<outcome, status>>
       ELSE Ends("panicked") /\ status' = "STOPPED"
    /\ UNCHANGED <<fsVars, entry, initialized, kqueue_fd, sem_name, args,
                   child>>

\* stat finds the root filesystem's directories, or it does not; then LazyFS is
\* mounted.  The backing file's name is never NULL: it has a default.
mount_root ==
    /\ pc = "rootfs"
    /\ \/ /\ \E n \in Fd : /\ LowestFree(n)
                           /\ lazyfs_init_load(n) \/ lazyfs_init_new(n)
          /\ pc' = "main"
          /\ status' = "RUNNING"
          /\ UNCHANGED outcome
       \/ /\ \/ \E n \in Fd : LowestFree(n) /\ lazyfs_init_not_saved(n)
             \/ lazyfs_init_not_opened
          /\ Ends("panicked")
          /\ status' = "STOPPED"
       \/ /\ Ends("panicked")
          /\ status' = "STOPPED"
          /\ UNCHANGED fsVars
    /\ UNCHANGED <<entry, initialized, kqueue_fd, sem_name, modules, args,
                   child>>

-----------------------------------------------------------------------------
(* The program or the shell *)

\* The entry program is there and is started, there is none, or fork fails.
kernel_main_loop ==
    /\ pc = "main"
    /\ \/ /\ \/ pc' = "wait" /\ child' = "running"
             \/ pc' = "shell" /\ UNCHANGED child
          /\ UNCHANGED <<fsVars, entry, outcome, status, initialized,
                         kqueue_fd, sem_name, modules, args>>
       \/ kernel_panic

\* The program exits, or cannot be executed: the child then panics, which ends
\* it and changes nothing of the kernel process.
ChildExits ==
    /\ child = "running"
    /\ child' = "exited"
    /\ UNCHANGED <<fsVars, pc, entry, outcome, status, initialized, kqueue_fd,
                   sem_name, modules, args>>

\* waitpid returns.
\* Fault: the kernel goes back to its main loop.
kernel_run_program_and_wait_Again ==
    /\ pc = "wait"
    /\ child = "exited"
    /\ pc' = "main"
    /\ UNCHANGED <<fsVars, entry, outcome, status, initialized, kqueue_fd,
                   sem_name, modules, args, child>>

kernel_run_program_and_wait ==
    /\ pc = "wait"
    /\ child = "exited"
    /\ status' = "SHUTTING_DOWN"
    /\ pc' = "shutdown"
    /\ UNCHANGED <<fsVars, entry, outcome, initialized, kqueue_fd, sem_name,
                   modules, args, child>>

\* The user types "exit" or closes the input.
mirix_debug_shell ==
    /\ pc = "shell"
    /\ pc' = "shutdown"
    /\ UNCHANGED <<fsVars, entry, outcome, status, initialized, kqueue_fd,
                   sem_name, modules, args, child>>

-----------------------------------------------------------------------------
(* Shutdown *)

\* lazyfs_cleanup, posix_cleanup and syscall_cleanup.
mirix_kernel_shutdown ==
    /\ pc = "shutdown"
    /\ status' = "SHUTTING_DOWN"
    /\ lazyfs_cleanup
    /\ initialized' = initialized \ {"posix", "syscall"}
    /\ pc' = "ipc_cleanup"
    /\ UNCHANGED <<entry, outcome, kqueue_fd, sem_name, modules, args, child>>

\* Fault: the semaphore's name is not unlinked.
ipc_system_cleanup_NoUnlink ==
    /\ pc = "ipc_cleanup"
    /\ initialized' = initialized \ {"ipc"}
    /\ pc' = "host_cleanup"
    /\ UNCHANGED <<fsVars, entry, outcome, status, kqueue_fd, sem_name,
                   modules, args, child>>

ipc_system_cleanup ==
    /\ pc = "ipc_cleanup"
    /\ sem_name' = 0
    /\ initialized' = initialized \ {"ipc"}
    /\ pc' = "host_cleanup"
    /\ UNCHANGED <<fsVars, entry, outcome, status, kqueue_fd, modules, args,
                   child>>

host_interface_cleanup ==
    /\ pc = "host_cleanup"
    /\ fd' = Closed(fd, kqueue_fd)
    /\ kqueue_fd' = -1
    /\ initialized' = initialized \ {"host"}
    /\ pc' = "modules_shutdown"
    /\ UNCHANGED <<backing_file_fd, saved, whole, mounted, clobbered, entry,
                   outcome, status, sem_name, modules, args, child>>

shutdown_kernel_modules ==
    /\ pc = "modules_shutdown"
    /\ modules' = 0
    /\ status' = "STOPPED"
    /\ pc' = "free"
    /\ UNCHANGED <<fsVars, entry, outcome, initialized, kqueue_fd, sem_name,
                   args, child>>

\* By mirix_kernel_main_with_args, and once more by mirix_kernel_main.
free_kernel_args ==
    /\ pc \in {"free", "free_again"}
    /\ args' = IF args = "live" THEN "freed" ELSE "twice"
    /\ IF pc = "free" /\ entry = "legacy"
       THEN pc' = "free_again" /\ UNCHANGED outcome
       ELSE Ends("returned")
    /\ UNCHANGED <<fsVars, entry, status, initialized, kqueue_fd, sem_name,
                   modules, child>>

-----------------------------------------------------------------------------

Boot == \/ parse_kernel_args         \/ host_interface_init
        \/ ipc_system_init           \/ syscall_init
        \/ posix_init                \/ initialize_kernel_modules
        \/ mount_root

Shutdown == \/ mirix_kernel_shutdown  \/ ipc_system_cleanup
            \/ host_interface_cleanup \/ shutdown_kernel_modules
            \/ free_kernel_args

\* The steps the kernel process takes by itself.
KernelStep == Boot \/ kernel_main_loop \/ kernel_run_program_and_wait \/ Shutdown

\* The host kills the kernel.
Killed ==
    /\ pc # "ended"
    /\ Ends("killed")
    /\ UNCHANGED <<fsVars, entry, status, initialized, kqueue_fd, sem_name,
                   modules, args, child>>

\* Another kernel is launched.
Launch ==
    /\ pc = "ended"
    /\ Relaunch
    /\ pc' = "parse"
    /\ entry' \in Entries
    /\ outcome' = "none"
    /\ status' = "UNINITIALIZED"
    /\ initialized' = {}
    /\ kqueue_fd' = 0
    /\ modules' = 0
    /\ args' = "none"
    /\ child' = "none"
    /\ UNCHANGED sem_name

Next == KernelStep \/ mirix_debug_shell \/ ChildExits \/ Killed \/ Launch

Spec == Init /\ [][Next]_vars

\* A process that can take a step takes it.
FairSpec == Spec /\ WF_vars(KernelStep)

-----------------------------------------------------------------------------

\* A kernel that says it is running has every service, every module, its root
\* filesystem and its arguments, and the descriptors of the event queue and of
\* the backing file are what they were opened as.
RunningIsReady ==
    status = "RUNNING" =>
       /\ initialized = Service
       /\ modules = N_MODULES
       /\ mounted = "image"
       /\ sem_name = 1
       /\ args = "live"
       /\ fd[kqueue_fd] = "kqueue"
       /\ fd[backing_file_fd] = "image"

\* Whatever kernels that panicked or were killed left behind on the host, a
\* kernel that returns from mirix_kernel_main_with_args leaves nothing: no
\* descriptor, no semaphore name, no service or module running, a saved
\* superblock and, when main called it, its arguments freed exactly once.
CleanStop ==
    outcome = "returned" =>
       /\ \A n \in Fd : fd[n] \in {"inherited", "closed"}
       /\ sem_name = 0
       /\ initialized = {} /\ modules = 0
       /\ whole = 1
       /\ entry = "main" => args = "freed"

\* A kernel whose program has exited shuts down to the end.
ExitShutsDown == (pc = "wait" /\ child = "exited") ~> (pc = "ended")
=============================================================================
