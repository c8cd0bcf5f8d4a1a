---------------------------- MODULE KernelProofs ----------------------------
(***************************************************************************)
(* Proofs about the kernel's life cycle and LazyFS, for any number of      *)
(* descriptors, modules, launches and kills, and about the scheduler, for  *)
(* any table size, quantum and pids.                                       *)
(*                                                                         *)
(* What is proved of the backing file needs every launch to leave the same *)
(* lowest descriptors free; LazyFs_moved.cfg shows what happens otherwise. *)
(***************************************************************************)
EXTENDS Kernel, Scheduler, WellFoundedInduction, TLAPS

\* Most steps follow by logic alone and are left to Zenon.
USE ZenonT(20), SMTT(30)

-----------------------------------------------------------------------------
(* LazyFS *)

\* Whatever a kernel inherits, the descriptors K are free, b is the next one
\* that is, and the standard descriptors are not among them.
Steady(K, b) ==
    /\ b \in Fd /\ 2 < b /\ K \subseteq 3 .. (b - 1)
    /\ \A L \in Launches :
          /\ b \notin L /\ K \cap L = {}
          /\ \A n \in 0 .. (b - 1) : n \in L \/ n \in K

\* Only K and b ever hold what the kernel opens, no lower one is free, and the
\* file never holds a descriptor other than b.
Table(K, b) ==
    /\ fd \in [Fd -> Object]
    /\ \A n \in Fd : n \notin K /\ n # b => fd[n] \in {"inherited", "closed"}
    /\ \A n \in 0 .. (b - 1) : n \notin K => fd[n] = "inherited"
    /\ saved \in {NoFd, b} /\ whole \in {0, 1}
    /\ whole = 1 => saved = b
    /\ clobbered = {}

\* The table with which a kernel is launched.
LEMMA LaunchTable ==
    ASSUME NEW K, NEW b, Steady(K, b), NEW L \in Launches
    PROVE  /\ Inherited(L) \in [Fd -> Object]
           /\ \A n \in Fd : Inherited(L)[n] \in {"inherited", "closed"}
           /\ \A n \in 0 .. (b - 1) : n \notin K => Inherited(L)[n] = "inherited"
           /\ Inherited(L)[b] = "closed"
           /\ \A n \in K : Inherited(L)[n] = "closed"
  BY LazyFsAssumption, SMTT(30) DEF Steady, Inherited, Object, Fd

\* While K is in use, what is opened next is b.
LEMMA NextFree ==
    ASSUME NEW K, NEW b, Steady(K, b), Table(K, b), fd[b] = "closed",
           \A k \in K : fd[k] = "kqueue", NEW n \in Fd, LowestFree(n)
    PROVE  n = b
  BY LazyFsAssumption, SMTT(30) DEF Steady, Table, LowestFree, Fd

\* A mount that succeeds.
LEMMA MountStep ==
    ASSUME NEW K, NEW b, Steady(K, b), Table(K, b), fd[b] = "closed",
           \A k \in K : fd[k] = "kqueue", NEW n \in Fd, LowestFree(n),
           lazyfs_init_load(n) \/ lazyfs_init_new(n)
    PROVE  /\ Table(K, b)' /\ fd' = [fd EXCEPT ![b] = "image"]
           /\ backing_file_fd' = b /\ mounted' = "image" /\ whole' = 1
<1>1. n = b /\ b \in Fd /\ AfterRead(n) = b
  BY NextFree DEF Steady, Table, AfterRead, NoFd
<1>2. fd' = [fd EXCEPT ![b] = "image"] /\ backing_file_fd' = b /\ mounted' = "image"
  BY <1>1 DEF lazyfs_init_load, lazyfs_init_new
<1>3. fd' \in [Fd -> Object] /\ fd'[b] = "image"
  BY <1>1, <1>2 DEF Table, Object
<1>4. saved' = b /\ whole' = 1 /\ clobbered' = {}
  BY <1>1, <1>2, <1>3 DEF lazyfs_init_load, lazyfs_init_new, lazyfs_save_superblock, Table
<1>5. \A m \in Fd : m \notin K /\ m # b => fd'[m] \in {"inherited", "closed"}
  BY <1>2 DEF Table
<1>6. \A m \in 0 .. (b - 1) : m \notin K => fd'[m] = "inherited"
  BY <1>1, <1>2, LazyFsAssumption, SMTT(30) DEF Table, Fd
<1> QED
  BY <1>2, <1>3, <1>4, <1>5, <1>6 DEF Table

\* A mount whose save fails.
LEMMA NotSavedStep ==
    ASSUME NEW K, NEW b, Steady(K, b), Table(K, b), fd[b] = "closed",
           \A k \in K : fd[k] = "kqueue", NEW n \in Fd, LowestFree(n),
           lazyfs_init_not_saved(n)
    PROVE  Table(K, b)' /\ fd' = fd /\ backing_file_fd' = -1 /\ mounted' = mounted
<1>1. n = b /\ b \in Fd /\ AfterRead(n) = b
  BY NextFree DEF Steady, Table, AfterRead, NoFd
<1> DEFINE table == [fd EXCEPT ![b] = "image"]
<1>2. /\ lazyfs_save_superblock_fails(b, table)
      /\ fd' = Closed(table, b)
      /\ backing_file_fd' = -1 /\ mounted' = mounted /\ whole = 0
  BY <1>1 DEF lazyfs_init_not_saved
<1>3. fd' = fd
  BY <1>1, <1>2 DEF Closed, Table
<1>4. table[b] = "image"
  BY <1>1 DEF Table
<1>5. saved' \in {saved, b} /\ clobbered' = clobbered /\ whole' = whole
  BY <1>2, <1>4 DEF lazyfs_save_superblock_fails
<1> QED
  BY <1>2, <1>3, <1>5 DEF Table

\* An unmount.
LEMMA UnmountStep ==
    ASSUME NEW K, NEW b, Steady(K, b), Table(K, b), backing_file_fd = b,
           fd[b] = "image", lazyfs_cleanup
    PROVE  /\ Table(K, b)' /\ fd' = [fd EXCEPT ![b] = "closed"]
           /\ backing_file_fd' = 0 /\ mounted' = "no"
           /\ whole = 1 => whole' = 1
<1>1. b \in Fd /\ b # -1
  BY LazyFsAssumption, SMTT(30) DEF Steady, Fd
<1>2. fd' = [fd EXCEPT ![b] = "closed"] /\ backing_file_fd' = 0 /\ mounted' = "no"
  BY <1>1 DEF lazyfs_cleanup, Closed, Table
<1>3. /\ saved' \in {saved, b} /\ whole' \in {whole, 1} /\ clobbered' = clobbered
      /\ whole' # whole => saved' = b
  BY <1>1 DEF lazyfs_cleanup, lazyfs_save_superblock, lazyfs_save_superblock_fails
<1>4. fd' \in [Fd -> Object]
  BY <1>2 DEF Table, Object
<1>5. \A m \in Fd : m \notin K /\ m # b => fd'[m] \in {"inherited", "closed"}
  BY <1>2 DEF Table
<1>6. \A m \in 0 .. (b - 1) : m \notin K => fd'[m] = "inherited"
  BY <1>1, <1>2, LazyFsAssumption, SMTT(30) DEF Table, Fd
<1>7. saved' \in {NoFd, b} /\ whole' \in {0, 1} /\ clobbered' = {} /\ (whole' = 1 => saved' = b)
  BY <1>3 DEF Table
<1> QED
  BY <1>2, <1>3, <1>4, <1>5, <1>6, <1>7 DEF Table

\* The standard descriptors are the ones the kernel was launched with.
LEMMA TableOnlyBacking ==
    ASSUME NEW K, NEW b, Steady(K, b), Table(K, b)
    PROVE  OnlyBackingFile
<1>1. \A n \in {0, 1, 2} : n \in 0 .. (b - 1) /\ n \notin K
  BY LazyFsAssumption, SMTT(30) DEF Steady, Fd
<1> QED
  BY <1>1 DEF Table, OnlyBackingFile

\* LazyFS by itself, opening b.
FsInv(b) ==
    /\ Table({}, b)
    /\ mounted \in {"no", "memory", "image"}
    /\ mounted = "image" => backing_file_fd = b /\ fd[b] = "image"
    /\ mounted = "memory" => backing_file_fd = -1
    /\ mounted = "no" /\ backing_file_fd = -1 => fd[b] = "closed"

LEMMA FsInitially == ASSUME NEW b, Steady({}, b), FsInit PROVE FsInv(b)
<1>1. PICK L \in Launches : fd = Inherited(L)
  BY DEF FsInit
<1>2. /\ fd \in [Fd -> Object] /\ fd[b] = "closed"
      /\ \A n \in Fd : fd[n] \in {"inherited", "closed"}
      /\ \A n \in 0 .. (b - 1) : fd[n] = "inherited"
  BY <1>1, LaunchTable
<1> QED
  BY <1>2, SMTT(30) DEF FsInv, Table, FsInit, NoFd

LEMMA FsStep == ASSUME NEW b, Steady({}, b), FsInv(b), [FsNext]_fsVars PROVE FsInv(b)'
<1>0. b \in Fd /\ b # -1
  BY LazyFsAssumption, SMTT(30) DEF Steady, Fd
<1>1. CASE mounted = "no" /\ backing_file_fd = -1 /\ lazyfs_init
  <2>0. fd[b] = "closed" /\ Table({}, b)
    BY <1>1 DEF FsInv
  <2>1. CASE lazyfs_init_memory
    BY <2>0, <2>1 DEF lazyfs_init_memory, FsInv, Table
  <2>2. ASSUME NEW n \in Fd, LowestFree(n), lazyfs_init_load(n) \/ lazyfs_init_new(n)
        PROVE  FsInv(b)'
    <3>1. /\ Table({}, b)' /\ fd' = [fd EXCEPT ![b] = "image"]
          /\ backing_file_fd' = b /\ mounted' = "image"
      BY <2>0, <2>2, MountStep, SMTT(30)
    <3>2. fd'[b] = "image"
      BY <1>0, <2>0, <3>1 DEF Table
    <3> QED
      BY <1>0, <3>1, <3>2 DEF FsInv
  <2>3. ASSUME NEW n \in Fd, LowestFree(n), lazyfs_init_not_saved(n)
        PROVE  FsInv(b)'
    <3>1. Table({}, b)' /\ fd' = fd /\ backing_file_fd' = -1 /\ mounted' = mounted
      BY <2>0, <2>3, NotSavedStep, SMTT(30)
    <3> QED
      BY <1>1, <2>0, <3>1 DEF FsInv
  <2>4. CASE lazyfs_init_not_opened
    BY <1>1, <2>0, <2>4 DEF lazyfs_init_not_opened, FsInv, Table
  <2> QED
    BY <1>1, <2>1, <2>2, <2>3, <2>4 DEF lazyfs_init
<1>2. CASE mounted # "no" /\ lazyfs_cleanup
  <2>1. CASE mounted = "image"
    <3>1. Table({}, b)' /\ backing_file_fd' = 0 /\ mounted' = "no"
      BY <1>2, <2>1, UnmountStep DEF FsInv
    <3> QED
      BY <3>1, SMTT(30) DEF FsInv
  <2>2. CASE mounted = "memory"
    <3>1. /\ backing_file_fd' = 0 /\ mounted' = "no"
          /\ saved' = saved /\ whole' = whole /\ clobbered' = clobbered
      BY <1>2, <2>2 DEF lazyfs_cleanup, FsInv
    <3>2. fd' = fd
      BY <1>2, <2>2, LazyFsAssumption, SMTT(30) DEF lazyfs_cleanup, FsInv, Closed, Table, Fd
    <3> QED
      BY <3>1, <3>2, SMTT(30) DEF FsInv, Table
  <2> QED
    BY <1>2, <2>1, <2>2 DEF FsInv
<1>3. CASE Relaunch
  <2>1. PICK L \in Launches : fd' = Inherited(L)
    BY <1>3 DEF Relaunch
  <2>2. /\ fd' \in [Fd -> Object] /\ fd'[b] = "closed"
        /\ \A n \in Fd : fd'[n] \in {"inherited", "closed"}
        /\ \A n \in 0 .. (b - 1) : fd'[n] = "inherited"
    BY <2>1, LaunchTable
  <2> QED
    BY <1>3, <2>2 DEF FsInv, Table, Relaunch
<1>4. CASE UNCHANGED fsVars
  BY <1>4 DEF fsVars, FsInv, Table
<1> QED
  BY <1>1, <1>2, <1>3, <1>4 DEF FsNext

LEMMA FsInvariant ==
    ASSUME NEW b, Steady({}, b)
    PROVE  FsSpec => []FsInv(b)
<1>1. FsInit => FsInv(b)
  BY FsInitially
<1>2. FsInv(b) /\ [FsNext]_fsVars => FsInv(b)'
  BY FsStep
<1> QED
  BY <1>1, <1>2, PTL DEF FsSpec

\* Over any number of mounts, unmounts and kernels that just end, backing_file_fd
\* is the backing file's descriptor, when every launch has the same lowest free
\* descriptor.
THEOREM BackingFile ==
    ASSUME NEW b, Steady({}, b)
    PROVE  FsSpec => []BackingFdIsBackingFile
<1>1. FsInv(b) => BackingFdIsBackingFile
  BY DEF FsInv, BackingFdIsBackingFile, Steady
<1> QED
  BY <1>1, FsInvariant, PTL

\* LazyFS then writes its superblock to no other file and leaves the standard
\* descriptors alone.
THEOREM OtherFiles ==
    ASSUME NEW b, Steady({}, b)
    PROVE  FsSpec => []OnlyBackingFile
<1>1. FsInv(b) => OnlyBackingFile
  BY TableOnlyBacking DEF FsInv
<1> QED
  BY <1>1, FsInvariant, PTL

-----------------------------------------------------------------------------
(* The kernel's life *)

\* How far the kernel is, by where it is.
HostUp    == {"ipc", "syscall", "posix", "modules", "rootfs", "main", "wait", "shell",
              "shutdown", "ipc_cleanup", "host_cleanup"}
IpcUp     == HostUp \ {"ipc", "host_cleanup"}
SyscallUp == IpcUp \ {"syscall", "ipc_cleanup"}
PosixUp   == SyscallUp \ {"posix"}
Mounted   == {"main", "wait", "shell", "shutdown"}
ModulesUp == Mounted \cup {"rootfs", "ipc_cleanup", "host_cleanup", "modules_shutdown"}
Stopping  == {"ipc_cleanup", "host_cleanup", "modules_shutdown", "free", "free_again"}
Place     == HostUp \cup Stopping \cup {"parse", "host", "ended"}

\* The event queue is a, the backing file b, each while it is open.
Files(a, b) ==
    /\ fd[a] = IF pc \in HostUp THEN "kqueue" ELSE "closed"
    /\ fd[b] = IF pc \in Mounted THEN "image" ELSE "closed"
    /\ pc \in HostUp => kqueue_fd = a
    /\ pc \in Mounted => backing_file_fd = b
    /\ mounted = IF pc \in Mounted THEN "image" ELSE "no"
    /\ pc \in Mounted \cup Stopping => whole = 1

\* The services, the semaphore's name, the modules and the arguments.
Services ==
    /\ initialized \subseteq Service
    /\ "host" \in initialized <=> pc \in HostUp
    /\ "ipc" \in initialized <=> pc \in IpcUp
    /\ "syscall" \in initialized <=> pc \in SyscallUp
    /\ "posix" \in initialized <=> pc \in PosixUp
    /\ modules = IF pc \in ModulesUp THEN N_MODULES ELSE 0
    /\ pc \in IpcUp => sem_name = 1
    /\ pc \in Stopping \ {"ipc_cleanup"} => sem_name = 0
    /\ args = IF pc = "parse" THEN "none"
              ELSE IF pc = "free_again" THEN "freed" ELSE "live"
    /\ pc = "free_again" => entry = "legacy"
    /\ status = "RUNNING" => pc \in Mounted
    /\ outcome = "none"

\* A kernel that has ended keeps only what the properties say of it.
LifeInv(a, b) ==
    /\ pc \in Place
    /\ Table({a}, b)
    /\ pc # "ended" => Files(a, b) /\ Services
    /\ pc = "ended" => RunningIsReady /\ CleanStop /\ BackingFdIsBackingFile

\* What LifeInv says of a kernel that lives makes the properties true.
LEMMA LifeIsGood ==
    ASSUME NEW a, NEW b, Steady({a}, b), LifeInv(a, b)
    PROVE  RunningIsReady /\ CleanStop /\ BackingFdIsBackingFile /\ OnlyBackingFile
<1>1. OnlyBackingFile
  BY TableOnlyBacking DEF LifeInv
<1>2. CASE pc = "ended"
  BY <1>1, <1>2 DEF LifeInv
<1>3. CASE pc # "ended"
  <2>0. Files(a, b) /\ Services /\ b \in Fd
    BY <1>3 DEF LifeInv, Steady
  <2>1. RunningIsReady
    <3>1. SUFFICES ASSUME status = "RUNNING" PROVE RunningIsReady
      BY DEF RunningIsReady
    <3>2. pc \in Mounted
      BY <2>0, <3>1 DEF Services
    <3>3. /\ pc \in HostUp /\ pc \in IpcUp /\ pc \in SyscallUp /\ pc \in PosixUp
          /\ pc \in ModulesUp /\ pc # "parse" /\ pc # "free_again"
      BY <3>2 DEF Mounted, HostUp, IpcUp, SyscallUp, PosixUp, ModulesUp
    <3>4. initialized = Service
      BY <2>0, <3>3 DEF Services, Service
    <3> QED
      BY <2>0, <3>2, <3>3, <3>4 DEF RunningIsReady, Files, Services
  <2>2. CleanStop
    BY <2>0 DEF Services, CleanStop
  <2>3. BackingFdIsBackingFile
    BY <2>0 DEF Files, BackingFdIsBackingFile
  <2> QED
    BY <1>1, <2>1, <2>2, <2>3
<1> QED
  BY <1>2, <1>3

LEMMA LifeInitially == ASSUME NEW a, NEW b, Steady({a}, b), Init PROVE LifeInv(a, b)
<1>1. PICK L \in Launches : fd = Inherited(L)
  BY DEF Init, FsInit
<1>2. /\ fd \in [Fd -> Object] /\ fd[b] = "closed" /\ fd[a] = "closed"
      /\ \A n \in Fd : fd[n] \in {"inherited", "closed"}
      /\ \A n \in 0 .. (b - 1) : n \notin {a} => fd[n] = "inherited"
  BY <1>1, LaunchTable, SMTT(30)
<1>3. Table({a}, b)
  BY <1>2, SMTT(30) DEF Table, Init, FsInit, NoFd
<1>4. pc = "parse" /\ pc \in Place
  BY DEF Init, Place
<1>5. Files(a, b)
  BY <1>2, <1>4 DEF Files, Init, FsInit, HostUp, Mounted, Stopping
<1>6. Services
  BY <1>4 DEF Services, Init, HostUp, IpcUp, SyscallUp, PosixUp, Mounted, ModulesUp, Stopping
<1> QED
  BY <1>3, <1>4, <1>5, <1>6 DEF LifeInv

\* A kernel that ends where it stands, not having returned.
LEMMA EndStep ==
    ASSUME NEW a, NEW b, Steady({a}, b), LifeInv(a, b),
           pc' = "ended", outcome' # "returned", Table({a}, b)',
           BackingFdIsBackingFile', RunningIsReady'
    PROVE  LifeInv(a, b)'
  BY DEF LifeInv, Place, CleanStop

\* The same when nothing of the files changed.
LEMMA EndStepSame ==
    ASSUME NEW a, NEW b, Steady({a}, b), LifeInv(a, b),
           pc' = "ended", outcome' # "returned", UNCHANGED fsVars,
           \/ status' # "RUNNING"
           \/ UNCHANGED <<status, initialized, kqueue_fd, sem_name, modules, args>>
    PROVE  LifeInv(a, b)'
<1>1. Table({a}, b)'
  BY DEF LifeInv, Table, fsVars
<1>2. BackingFdIsBackingFile'
  BY LifeIsGood DEF BackingFdIsBackingFile, fsVars
<1>3. RunningIsReady'
  BY LifeIsGood DEF RunningIsReady, fsVars
<1> QED
  BY <1>1, <1>2, <1>3, EndStep

\* A step of a kernel that lives on.
LEMMA LiveStep ==
    ASSUME NEW a, NEW b, Table({a}, b)', pc' \in Place, pc' # "ended",
           Files(a, b)', Services'
    PROVE  LifeInv(a, b)'
  BY DEF LifeInv

LEMMA LifeStep ==
    ASSUME NEW a, NEW b, Steady({a}, b), LifeInv(a, b), [Next]_vars
    PROVE  LifeInv(a, b)'
<1>0. a \in Fd /\ b \in Fd /\ a # b
  BY LazyFsAssumption, SMTT(30) DEF Steady, Fd
<1>T. Table({a}, b) /\ (UNCHANGED fsVars => Table({a}, b)')
  BY DEF LifeInv, Table, fsVars
<1>L. pc # "ended" => Files(a, b) /\ Services
  BY DEF LifeInv
<1>P. kernel_panic => LifeInv(a, b)'
  BY EndStepSame DEF kernel_panic, Ends
<1>1. CASE parse_kernel_args
  <2>1. CASE Ends("refused") /\ UNCHANGED <<args, status>>
    BY <1>1, <2>1, EndStepSame DEF parse_kernel_args, Ends
  <2>2. CASE args' = "live" /\ status' = "INITIALIZING" /\ pc' = "host" /\ UNCHANGED outcome
    <3>1. pc' \in Place /\ UNCHANGED fsVars
      BY <1>1, <2>2 DEF parse_kernel_args, Place
    <3>2. Files(a, b)'
      BY <1>1, <1>L, <2>2 DEF parse_kernel_args, Files, fsVars, HostUp, Mounted, Stopping
    <3>3. Services'
      BY <1>1, <1>L, <2>2 DEF parse_kernel_args, Services, HostUp, IpcUp, SyscallUp, PosixUp,
         Mounted, ModulesUp, Stopping
    <3> QED
      BY <1>T, <2>2, <3>1, <3>2, <3>3, LiveStep
  <2> QED
    BY <1>1, <2>1, <2>2 DEF parse_kernel_args
<1>2. CASE host_interface_init /\ ~ kernel_panic
  <2>1. PICK n \in Fd :
             /\ LowestFree(n)
             /\ fd' = [fd EXCEPT ![n] = "kqueue"]
             /\ kqueue_fd' = n
             /\ initialized' = initialized \cup {"host"}
             /\ pc' = "ipc"
             /\ UNCHANGED <<backing_file_fd, saved, whole, mounted, clobbered,
                            entry, outcome, status, sem_name, modules, args,
                            child>>
    BY <1>2 DEF host_interface_init
  <2>2. pc = "host" /\ Files(a, b) /\ Services
    BY <1>2, <1>L DEF host_interface_init
  <2>3. fd[a] = "closed" /\ fd[b] = "closed"
    BY <2>2 DEF Files, HostUp, Mounted
  <2>4. n = a
    BY <1>0, <1>T, <2>1, <2>3, LazyFsAssumption, SMTT(30) DEF LowestFree, Table, Steady, Fd
  <2>5. fd' = [fd EXCEPT ![a] = "kqueue"] /\ fd \in [Fd -> Object]
    BY <1>T, <2>1, <2>4 DEF Table
  <2>6. Table({a}, b)'
    BY <1>0, <1>T, <2>1, <2>5, SMTT(30) DEF Table, Object, Fd
  <2>7. Files(a, b)'
    BY <1>0, <2>1, <2>2, <2>3, <2>4, <2>5 DEF Files, HostUp, Mounted, Stopping
  <2>8. Services'
    BY <2>1, <2>2 DEF Services, Service, HostUp, IpcUp, SyscallUp, PosixUp, Mounted, ModulesUp,
       Stopping
  <2>9. pc' \in Place
    BY <2>1 DEF Place, HostUp
  <2> QED
    BY <2>1, <2>6, <2>7, <2>8, <2>9, LiveStep
<1>3. CASE ipc_system_init /\ ~ kernel_panic
  <2>1. Files(a, b)' /\ UNCHANGED fsVars /\ pc' \in Place /\ pc' # "ended"
    BY <1>3, <1>L DEF ipc_system_init, Files, fsVars, Place, HostUp, Mounted, Stopping
  <2>2. Services'
    BY <1>3, <1>L DEF ipc_system_init, Services, Service, HostUp, IpcUp, SyscallUp, PosixUp,
       Mounted, ModulesUp, Stopping
  <2> QED
    BY <1>T, <2>1, <2>2, LiveStep
<1>4. CASE syscall_init
  <2>1. Files(a, b)' /\ UNCHANGED fsVars /\ pc' \in Place /\ pc' # "ended"
    BY <1>4, <1>L DEF syscall_init, Files, fsVars, Place, HostUp, Mounted, Stopping
  <2>2. Services'
    BY <1>4, <1>L DEF syscall_init, Services, Service, HostUp, IpcUp, SyscallUp, PosixUp,
       Mounted, ModulesUp, Stopping
  <2> QED
    BY <1>T, <2>1, <2>2, LiveStep
<1>5. CASE posix_init
  <2>1. Files(a, b)' /\ UNCHANGED fsVars /\ pc' \in Place /\ pc' # "ended"
    BY <1>5, <1>L DEF posix_init, Files, fsVars, Place, HostUp, Mounted, Stopping
  <2>2. Services'
    BY <1>5, <1>L DEF posix_init, Services, Service, HostUp, IpcUp, SyscallUp, PosixUp,
       Mounted, ModulesUp, Stopping
  <2> QED
    BY <1>T, <2>1, <2>2, LiveStep
<1>6. CASE initialize_kernel_modules
  <2>1. CASE modules' = N_MODULES
    <3>1. Files(a, b)' /\ UNCHANGED fsVars /\ pc' \in Place /\ pc' # "ended"
      BY <1>6, <1>L, <2>1 DEF initialize_kernel_modules, Files, fsVars, Place, HostUp,
         Mounted, Stopping
    <3>2. Services'
      BY <1>6, <1>L, <2>1 DEF initialize_kernel_modules, Services, HostUp, IpcUp, SyscallUp,
         PosixUp, Mounted, ModulesUp, Stopping
    <3> QED
      BY <1>T, <3>1, <3>2, LiveStep
  <2>2. CASE modules' # N_MODULES
    BY <1>6, <2>2, EndStepSame DEF initialize_kernel_modules, Ends
  <2> QED
    BY <2>1, <2>2
<1>7. CASE mount_root
  <2>0. /\ pc = "rootfs" /\ Files(a, b) /\ Services
        /\ UNCHANGED <<entry, initialized, kqueue_fd, sem_name, modules, args, child>>
    BY <1>7, <1>L DEF mount_root
  <2>1. fd[a] = "kqueue" /\ fd[b] = "closed" /\ mounted = "no" /\ kqueue_fd = a
    BY <2>0 DEF Files, HostUp, Mounted
  <2>2. ASSUME NEW n \in Fd, LowestFree(n), lazyfs_init_load(n) \/ lazyfs_init_new(n),
               pc' = "main", status' = "RUNNING", outcome' = outcome
        PROVE  LifeInv(a, b)'
    <3>1. /\ Table({a}, b)' /\ fd' = [fd EXCEPT ![b] = "image"]
          /\ backing_file_fd' = b /\ mounted' = "image" /\ whole' = 1
      BY <1>T, <2>1, <2>2, MountStep, SMTT(30)
    <3>2. fd'[a] = "kqueue" /\ fd'[b] = "image"
      BY <1>0, <1>T, <2>1, <3>1 DEF Table
    <3>3. Files(a, b)' /\ pc' \in Place /\ pc' # "ended"
      BY <2>0, <2>1, <2>2, <3>1, <3>2 DEF Files, HostUp, Mounted, Stopping, Place
    <3>4. Services'
      BY <2>0, <2>2 DEF Services, HostUp, IpcUp, SyscallUp, PosixUp, Mounted, ModulesUp, Stopping
    <3> QED
      BY <3>1, <3>3, <3>4, LiveStep
  <2>3. ASSUME NEW n \in Fd, LowestFree(n), lazyfs_init_not_saved(n),
               Ends("panicked"), status' = "STOPPED"
        PROVE  LifeInv(a, b)'
    <3>1. Table({a}, b)' /\ mounted' = mounted
      BY <1>T, <2>1, <2>3, NotSavedStep, SMTT(30)
    <3> QED
      BY <2>1, <2>3, <3>1, EndStep DEF Ends, BackingFdIsBackingFile, RunningIsReady
  <2>4. CASE lazyfs_init_not_opened /\ Ends("panicked") /\ status' = "STOPPED"
    <3>1. Table({a}, b)' /\ mounted' = mounted
      BY <1>T, <2>4 DEF lazyfs_init_not_opened, Table
    <3> QED
      BY <2>1, <2>4, <3>1, EndStep DEF Ends, BackingFdIsBackingFile, RunningIsReady
  <2>5. CASE Ends("panicked") /\ status' = "STOPPED" /\ UNCHANGED fsVars
    BY <2>5, EndStepSame DEF Ends
  <2> QED
    BY <1>7, <2>2, <2>3, <2>4, <2>5 DEF mount_root
<1>8. CASE kernel_main_loop /\ ~ kernel_panic
  <2>1. Files(a, b)' /\ UNCHANGED fsVars /\ pc' \in Place /\ pc' # "ended"
    BY <1>8, <1>L DEF kernel_main_loop, Files, fsVars, Place, HostUp, Mounted, Stopping
  <2>2. Services'
    BY <1>8, <1>L DEF kernel_main_loop, Services, HostUp, IpcUp, SyscallUp, PosixUp,
       Mounted, ModulesUp, Stopping
  <2> QED
    BY <1>T, <2>1, <2>2, LiveStep
<1>9. CASE ChildExits
  <2>1. UNCHANGED <<fsVars, pc, entry, outcome, status, initialized, kqueue_fd, sem_name,
                    modules, args>>
    BY <1>9 DEF ChildExits
  <2>2. Files(a, b)' = Files(a, b)
    BY <2>1 DEF Files, fsVars
  <2>3. Services' = Services
    BY <2>1 DEF Services
  <2>4. CASE pc = "ended"
    <3>1. RunningIsReady' /\ CleanStop' /\ BackingFdIsBackingFile'
      BY <2>1, <2>4 DEF LifeInv, RunningIsReady, CleanStop, BackingFdIsBackingFile, fsVars
    <3> QED
      BY <1>T, <2>1, <2>4, <3>1 DEF LifeInv
  <2>5. CASE pc # "ended"
    BY <1>T, <1>L, <2>1, <2>2, <2>3, <2>5 DEF LifeInv
  <2> QED
    BY <2>4, <2>5
<1>10. CASE kernel_run_program_and_wait
  <2>1. Files(a, b)' /\ UNCHANGED fsVars /\ pc' \in Place /\ pc' # "ended"
    BY <1>10, <1>L DEF kernel_run_program_and_wait, Files, fsVars, Place, HostUp, Mounted,
       Stopping
  <2>2. Services'
    BY <1>10, <1>L DEF kernel_run_program_and_wait, Services, HostUp, IpcUp, SyscallUp,
       PosixUp, Mounted, ModulesUp, Stopping
  <2> QED
    BY <1>T, <2>1, <2>2, LiveStep
<1>11. CASE mirix_debug_shell
  <2>1. Files(a, b)' /\ UNCHANGED fsVars /\ pc' \in Place /\ pc' # "ended"
    BY <1>11, <1>L DEF mirix_debug_shell, Files, fsVars, Place, HostUp, Mounted, Stopping
  <2>2. Services'
    BY <1>11, <1>L DEF mirix_debug_shell, Services, HostUp, IpcUp, SyscallUp, PosixUp,
       Mounted, ModulesUp, Stopping
  <2> QED
    BY <1>T, <2>1, <2>2, LiveStep
<1>12. CASE mirix_kernel_shutdown
  <2>0. pc = "shutdown" /\ pc' = "ipc_cleanup" /\ Files(a, b) /\ Services /\ lazyfs_cleanup
    BY <1>12, <1>L DEF mirix_kernel_shutdown
  <2>1. /\ fd[a] = "kqueue" /\ fd[b] = "image" /\ backing_file_fd = b /\ kqueue_fd = a
        /\ whole = 1
    BY <2>0 DEF Files, HostUp, Mounted
  <2>2. /\ Table({a}, b)' /\ fd' = [fd EXCEPT ![b] = "closed"]
        /\ mounted' = "no" /\ whole' = 1
    BY <1>T, <2>0, <2>1, UnmountStep
  <2>3. fd'[a] = "kqueue" /\ fd'[b] = "closed" /\ kqueue_fd' = a
    BY <1>0, <1>12, <1>T, <2>1, <2>2 DEF Table, mirix_kernel_shutdown
  <2>4. Files(a, b)' /\ pc' \in Place /\ pc' # "ended"
    BY <2>0, <2>2, <2>3 DEF Files, HostUp, Mounted, Stopping, Place
  <2>5. Services'
    BY <1>12, <2>0 DEF mirix_kernel_shutdown, Services, HostUp, IpcUp, SyscallUp, PosixUp,
       Mounted, ModulesUp, Stopping
  <2> QED
    BY <2>2, <2>4, <2>5, LiveStep
<1>13. CASE ipc_system_cleanup
  <2>1. Files(a, b)' /\ UNCHANGED fsVars /\ pc' \in Place /\ pc' # "ended"
    BY <1>13, <1>L DEF ipc_system_cleanup, Files, fsVars, Place, HostUp, Mounted, Stopping
  <2>2. Services'
    BY <1>13, <1>L DEF ipc_system_cleanup, Services, HostUp, IpcUp, SyscallUp, PosixUp,
       Mounted, ModulesUp, Stopping
  <2> QED
    BY <1>T, <2>1, <2>2, LiveStep
<1>14. CASE host_interface_cleanup
  <2>0. /\ pc = "host_cleanup" /\ pc' = "modules_shutdown" /\ Files(a, b) /\ Services
        /\ fd' = Closed(fd, kqueue_fd)
        /\ UNCHANGED <<backing_file_fd, saved, whole, mounted, clobbered>>
    BY <1>14, <1>L DEF host_interface_cleanup
  <2>1. kqueue_fd = a /\ fd[b] = "closed"
    BY <2>0 DEF Files, HostUp, Mounted
  <2>2. /\ fd' \in [Fd -> Object] /\ fd'[a] = "closed" /\ fd'[b] = "closed"
        /\ \A n \in Fd : n # a => fd'[n] = fd[n]
    BY <1>0, <1>T, <2>0, <2>1 DEF Closed, Table, Object
  <2>3. Table({a}, b)'
    BY <1>0, <1>T, <2>0, <2>2, LazyFsAssumption, SMTT(30) DEF Table, Fd
  <2>4. Files(a, b)' /\ pc' \in Place /\ pc' # "ended"
    BY <2>0, <2>2 DEF Files, HostUp, Mounted, Stopping, Place
  <2>5. Services'
    BY <1>14, <2>0 DEF host_interface_cleanup, Services, HostUp, IpcUp, SyscallUp, PosixUp,
       Mounted, ModulesUp, Stopping
  <2> QED
    BY <2>3, <2>4, <2>5, LiveStep
<1>15. CASE shutdown_kernel_modules
  <2>1. Files(a, b)' /\ UNCHANGED fsVars /\ pc' \in Place /\ pc' # "ended"
    BY <1>15, <1>L DEF shutdown_kernel_modules, Files, fsVars, Place, HostUp, Mounted, Stopping
  <2>2. Services'
    BY <1>15, <1>L DEF shutdown_kernel_modules, Services, HostUp, IpcUp, SyscallUp, PosixUp,
       Mounted, ModulesUp, Stopping
  <2> QED
    BY <1>T, <2>1, <2>2, LiveStep
<1>16. CASE free_kernel_args
  <2>0. /\ pc \in {"free", "free_again"} /\ Files(a, b) /\ Services
        /\ UNCHANGED <<fsVars, entry, status, initialized, kqueue_fd, sem_name, modules, child>>
    BY <1>16, <1>L DEF free_kernel_args
  <2>1. CASE pc = "free" /\ entry = "legacy"
    <3>0. pc' = "free_again" /\ outcome' = outcome /\ args' = "freed"
      BY <1>16, <2>0, <2>1 DEF free_kernel_args, Services
    <3>1. Files(a, b)' /\ pc' \in Place /\ pc' # "ended"
      BY <2>0, <2>1, <3>0 DEF Files, fsVars, HostUp, Mounted, Stopping, Place
    <3>2. Services'
      BY <2>0, <2>1, <3>0 DEF Services, HostUp, IpcUp, SyscallUp, PosixUp, Mounted, ModulesUp,
         Stopping
    <3> QED
      BY <1>T, <2>0, <3>1, <3>2, LiveStep
  <2>2. CASE ~ (pc = "free" /\ entry = "legacy")
    <3>0. pc' = "ended" /\ (pc = "free" => args' = "freed")
      BY <1>16, <2>0, <2>2 DEF free_kernel_args, Ends, Services
    <3>1. /\ status # "RUNNING" /\ fd[a] = "closed" /\ fd[b] = "closed" /\ mounted = "no"
          /\ whole = 1 /\ sem_name = 0 /\ modules = 0
          /\ pc = "free_again" => entry = "legacy"
      BY <2>0 DEF Files, Services, HostUp, Mounted, ModulesUp, Stopping
    <3>2. initialized = {}
      BY <2>0 DEF Services, Service, HostUp, IpcUp, SyscallUp, PosixUp
    <3>3. \A n \in Fd : fd'[n] \in {"inherited", "closed"}
      BY <1>T, <2>0, <3>1 DEF Table, fsVars
    <3>4. CleanStop'
      BY <2>0, <2>2, <3>0, <3>1, <3>2, <3>3 DEF CleanStop, fsVars
    <3>5. RunningIsReady' /\ BackingFdIsBackingFile'
      BY <2>0, <3>1 DEF RunningIsReady, BackingFdIsBackingFile, fsVars
    <3> QED
      BY <1>T, <2>0, <3>0, <3>4, <3>5 DEF LifeInv, Place
  <2> QED
    BY <2>1, <2>2
<1>17. CASE Killed
  BY <1>17, EndStepSame DEF Killed, Ends
<1>18. CASE Launch
  <2>1. PICK L \in Launches : fd' = Inherited(L)
    BY <1>18 DEF Launch, Relaunch
  <2>2. /\ fd' \in [Fd -> Object] /\ fd'[b] = "closed" /\ fd'[a] = "closed"
        /\ \A n \in Fd : fd'[n] \in {"inherited", "closed"}
        /\ \A n \in 0 .. (b - 1) : n \notin {a} => fd'[n] = "inherited"
    BY <2>1, LaunchTable, SMTT(30)
  <2>3. Table({a}, b)'
    BY <1>18, <1>T, <2>2 DEF Table, Launch, Relaunch
  <2>4. Files(a, b)' /\ pc' \in Place /\ pc' # "ended"
    BY <1>18, <2>2 DEF Launch, Relaunch, Files, HostUp, Mounted, Stopping, Place
  <2>5. Services'
    BY <1>18 DEF Launch, Services, HostUp, IpcUp, SyscallUp, PosixUp, Mounted, ModulesUp, Stopping
  <2> QED
    BY <2>3, <2>4, <2>5, LiveStep
<1>19. CASE UNCHANGED vars
  <2>1. Files(a, b)' = Files(a, b) /\ Services' = Services
    BY <1>19 DEF Files, Services, vars, fsVars, kernelVars
  <2>2. /\ RunningIsReady' = RunningIsReady /\ CleanStop' = CleanStop
        /\ BackingFdIsBackingFile' = BackingFdIsBackingFile
    BY <1>19 DEF RunningIsReady, CleanStop, BackingFdIsBackingFile, vars, fsVars, kernelVars
  <2> QED
    BY <1>19, <1>T, <2>1, <2>2 DEF LifeInv, vars, kernelVars
<1> QED
  BY <1>1, <1>2, <1>3, <1>4, <1>5, <1>6, <1>7, <1>8, <1>9, <1>10, <1>11, <1>12, <1>13, <1>14,
     <1>15, <1>16, <1>17, <1>18, <1>19, <1>P DEF Next, KernelStep, Boot, Shutdown

LEMMA LifeInvariant ==
    ASSUME NEW a, NEW b, Steady({a}, b)
    PROVE  Spec => []LifeInv(a, b)
<1>1. Init => LifeInv(a, b)
  BY LifeInitially
<1>2. LifeInv(a, b) /\ [Next]_vars => LifeInv(a, b)'
  BY LifeStep
<1> QED
  BY <1>1, <1>2, PTL DEF Spec

\* A kernel that says it is running has every service, module and descriptor it
\* needs, whatever kernels before it left on the host.
THEOREM Ready ==
    ASSUME NEW a, NEW b, Steady({a}, b)
    PROVE  Spec => []RunningIsReady
<1>1. LifeInv(a, b) => RunningIsReady
  BY LifeIsGood
<1> QED
  BY <1>1, LifeInvariant, PTL

\* A kernel that returns leaves nothing behind, whatever the kernels before it
\* left when they panicked or were killed.
THEOREM Clean ==
    ASSUME NEW a, NEW b, Steady({a}, b)
    PROVE  Spec => []CleanStop
<1>1. LifeInv(a, b) => CleanStop
  BY LifeIsGood
<1> QED
  BY <1>1, LifeInvariant, PTL

\* Nor does a whole kernel, whose host interface takes a descriptor first, move
\* the backing file's descriptor or write to another file.
THEOREM KernelFiles ==
    ASSUME NEW a, NEW b, Steady({a}, b)
    PROVE  Spec => [](BackingFdIsBackingFile /\ OnlyBackingFile)
<1>1. LifeInv(a, b) => BackingFdIsBackingFile /\ OnlyBackingFile
  BY LifeIsGood
<1> QED
  BY <1>1, LifeInvariant, PTL

-----------------------------------------------------------------------------
(* The scheduler *)

USE SchedulerAssumption

\* What a step of the scheduler preserves.
SchedInv == SchedTypeOK /\ RunnableIsProcess /\ WaitedOK

\* A non-empty set of naturals has a least member.
LEMMA Least ==
    ASSUME NEW S, S \subseteq Nat, S # {}
    PROVE  \E i \in S : \A j \in S : i <= j
<1>1. \E i \in S : \A j \in S : ~ (<<j, i>> \in OpToRel(<, Nat))
  BY NatLessThanWellFounded, WFMin
<1>2. \A i, j \in Nat : j < i => <<j, i>> \in OpToRel(<, Nat)
  BY DEF OpToRel
<1>3. PICK i \in S : \A j \in S : ~ (j < i)
  BY <1>1, <1>2
<1> QED
  BY <1>3, SMTT(30)

\* What the search of scheduler_tick returns: a slot that is not behind where it
\* began and not beyond any runnable slot ahead, or slot 0 when there is none.
LEMMA Found ==
    ASSUME NEW s \in Slot
    PROVE  /\ FoundFrom(s) \in Slot
           /\ \/ s <= FoundFrom(s)
              \/ FoundFrom(s) = 0 /\ \A i \in RunningSlots : ~ (s <= i)
           /\ \A i \in RunningSlots : s <= i => FoundFrom(s) <= i
<1> DEFINE Ahead == {i \in RunningSlots : s <= i}
<1>1. Ahead \subseteq Slot /\ Slot \subseteq Nat /\ 0 \in Slot
  BY SMTT(30) DEF RunningSlots, Slot
<1>2. CASE Ahead = {}
  <2>1. FoundFrom(s) = 0
    BY <1>2 DEF FoundFrom
  <2> QED
    BY <1>1, <1>2, <2>1
<1>3. CASE Ahead # {}
  <2>1. FoundFrom(s) = CHOOSE i \in Ahead : \A j \in Ahead : i <= j
    BY <1>3 DEF FoundFrom
  <2>2. \E i \in Ahead : \A j \in Ahead : i <= j
    <3>1. Ahead \subseteq Nat
      BY <1>1
    <3> HIDE DEF Ahead
    <3> QED
      BY <1>3, <3>1, Least
  <2>3. FoundFrom(s) \in Ahead /\ \A j \in Ahead : FoundFrom(s) <= j
    <3> HIDE DEF Ahead
    <3> QED
      BY <2>1, <2>2
  <2> QED
    BY <1>1, <2>3
<1> QED
  BY <1>2, <1>3

\* A switch moves the current slot away from every runnable slot it passes over.
LEMMA Advance ==
    ASSUME NEW c \in Slot, NEW i \in RunningSlots, i # FoundFrom(After(c))
    PROVE  Distance(i, c) + 1 <= Distance(i, FoundFrom(After(c)))
<1>1. i \in Slot /\ After(c) \in Slot
  BY SMTT(30) DEF RunningSlots, Slot, After
<1> DEFINE n == FoundFrom(After(c))
<1>2. /\ n \in Slot
      /\ \/ After(c) <= n
         \/ n = 0 /\ ~ (After(c) <= i)
      /\ After(c) <= i => n <= i
  BY <1>1, Found
<1> HIDE DEF n
<1>3. Distance(i, c) + 1 <= Distance(i, n)
  <2> USE DEF Slot, Distance
  <2>1. CASE c + 1 = max_processes
    <3>1. After(c) = 0
      BY <2>1 DEF After
    <3> QED
      BY <1>1, <1>2, <2>1, <3>1, SMTT(30) DEF n
  <2>2. CASE c + 1 # max_processes
    <3>1. After(c) = c + 1
      BY <2>2 DEF After
    <3> QED
      BY <1>1, <1>2, <2>2, <3>1, SMTT(30) DEF n
  <2> QED
    BY <2>1, <2>2
<1> QED
  BY <1>3 DEF n

-----------------------------------------------------------------------------

LEMMA SchedInitially == scheduler_init => SchedInv
  BY SMTT(30) DEF scheduler_init, SchedInv, SchedTypeOK, RunnableIsProcess, WaitedOK, Slot,
         Status, RunningSlots, Distance

\* The switch, the only step that makes a process wait.
LEMMA TickStep == ASSUME SchedInv, scheduler_tick PROVE SchedInv'
<1> USE DEF SchedInv
<1> DEFINE n == FoundFrom(After(current_process))
<1>0. current_process \in Slot /\ After(current_process) \in Slot
  BY SMTT(30) DEF SchedTypeOK, Slot, After
<1>1. n \in Slot
  BY <1>0, Found
<1> HIDE DEF n
<1>2. RunnableIsProcess'
  BY DEF scheduler_tick, RunnableIsProcess, RunningSlots
<1>3. CASE tick_count + 1 = quantum_ticks
  <2>1. /\ tick_count' = 0
        /\ current_process' = n
        /\ waited' = Waited(n)
        /\ pid' = pid /\ process_status' = process_status
    BY <1>3 DEF scheduler_tick, n
  <2>2. waited' \in [Slot -> Nat]
    BY <2>1, SMTT(30) DEF Waited, SchedTypeOK
  <2>3. SchedTypeOK'
    BY <1>1, <2>1, <2>2, SMTT(30) DEF SchedTypeOK
  <2>4. ASSUME NEW i \in Slot
        PROVE  waited'[i] <= Distance(i, n)
    <3>1. CASE i \in RunningSlots /\ i # n
      <4>1. waited'[i] \in {waited[i], waited[i] + 1}
        BY <2>1, <3>1 DEF Waited, RunningSlots
      <4>2. Distance(i, current_process) + 1 <= Distance(i, n)
        BY <1>0, <3>1, Advance DEF n
      <4>3. waited[i] <= Distance(i, current_process) /\ waited[i] \in Nat
        BY DEF WaitedOK, SchedTypeOK
      <4>4. Distance(i, current_process) \in Int /\ Distance(i, n) \in Int
        BY <1>0, <1>1, SMTT(30) DEF Distance, Slot
      <4> QED
        BY <4>1, <4>2, <4>3, <4>4, SMTT(30)
    <3>2. CASE ~ (i \in RunningSlots /\ i # n)
      <4>1. waited'[i] = 0
        BY <2>1, <3>2 DEF Waited, RunningSlots
      <4> QED
        BY <1>1, <4>1, SMTT(30) DEF Distance, Slot
    <3> QED
      BY <3>1, <3>2
  <2> QED
    BY <1>2, <2>1, <2>3, <2>4 DEF WaitedOK
<1>4. CASE tick_count + 1 # quantum_ticks
  <2>1. SchedTypeOK'
    BY <1>4, SMTT(30) DEF scheduler_tick, SchedTypeOK
  <2>2. WaitedOK'
    BY <1>4 DEF scheduler_tick, WaitedOK
  <2> QED
    BY <1>2, <2>1, <2>2
<1> QED
  BY <1>3, <1>4

LEMMA SchedStep == ASSUME SchedInv, [SchedNext]_schedVars PROVE SchedInv'
<1> USE DEF SchedInv, RunningSlots, RunnableIsProcess
<1>0. 0 \in Nat /\ \A i \in Slot : 0 <= Distance(i, current_process)
  BY SMTT(30) DEF SchedTypeOK, Distance, Slot
<1>1. CASE scheduler_tick
  BY <1>1, TickStep
<1>2. ASSUME NEW p \in Pid, NEW st \in Status, scheduler_add_process(p, st)
      PROVE  SchedInv'
  BY <1>2 DEF scheduler_add_process, SchedTypeOK, WaitedOK, Status
<1>3. ASSUME NEW p \in Pid, scheduler_remove_process(p)
      PROVE  SchedInv'
  BY <1>0, <1>3, SMTT(30) DEF scheduler_remove_process, SchedTypeOK, WaitedOK, Status
<1>4. ASSUME NEW st \in Status, SetStatus(st)
      PROVE  SchedInv'
  BY <1>0, <1>4 DEF SetStatus, SchedTypeOK, WaitedOK, Status
<1>5. CASE UNCHANGED schedVars
  BY <1>5 DEF schedVars, SchedTypeOK, WaitedOK
<1> QED
  BY <1>1, <1>2, <1>3, <1>4, <1>5, SMTT(30) DEF SchedNext

\* The state keeps its types, an empty slot is never runnable and a process is
\* passed over no more often than the slots between it and the current one.
THEOREM Scheduling == SchedSpec => [](SchedTypeOK /\ RunnableIsProcess /\ WaitedOK)
  BY SchedInitially, SchedStep, PTL DEF SchedSpec, SchedInv

\* A runnable process waits for fewer switches than the table has slots.
THEOREM WaitIsBounded == SchedSpec => []BoundedWait
<1>1. SchedTypeOK /\ WaitedOK => BoundedWait
  BY SMTT(30) DEF SchedTypeOK, WaitedOK, BoundedWait, Distance, Slot
<1> QED
  BY <1>1, Scheduling, PTL
=============================================================================
