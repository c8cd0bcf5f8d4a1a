------------------------------- MODULE LazyFs -------------------------------
(***************************************************************************)
(* Mounting and unmounting LazyFS, src/mirix/drivers/lazyfs.c, with the    *)
(* host's descriptor table and the backing file that outlives the kernel.  *)
(*                                                                         *)
(* The superblock is read from and written to the backing file as it is in *)
(* memory, field backing_file_fd included: that field, and whether the     *)
(* file is as long as a superblock, is all the model keeps of it.  The     *)
(* file operations of lazyfs.c are placeholders without effect.  A kernel  *)
(* is launched with some descriptors open, mounts, and unmounts or just    *)
(* ends; then another one is launched.                                     *)
(***************************************************************************)
EXTENDS Integers, FiniteSets

CONSTANTS MaxFd,    \* descriptors are 0 .. MaxFd
          Launches  \* what a kernel may inherit: sets of open descriptors

ASSUME LazyFsAssumption ==
    /\ MaxFd \in Nat
    /\ \A L \in Launches : {0, 1, 2} \subseteq L /\ L \subseteq 0 .. MaxFd

VARIABLES fd,               \* what each descriptor refers to
          backing_file_fd,  \* of fs_superblock
          saved,            \* the backing_file_fd in the file, or NoFd
          whole,            \* 1 when the file is as long as a superblock
          mounted,          \* "no", "memory" or "image"
          clobbered         \* history: other files a superblock was written to

fsVars == <<fd, backing_file_fd, saved, whole, mounted, clobbered>>

Fd     == 0 .. MaxFd
Object == {"closed", "inherited", "kqueue", "image"}

\* The backing file does not exist or ends before the field.
NoFd == -2

LowestFree(n) == /\ fd[n] = "closed"
                 /\ \A m \in 0 .. (n - 1) : fd[m] # "closed"

Inherited(L)     == [n \in Fd |-> IF n \in L THEN "inherited" ELSE "closed"]
Closed(table, n) == [m \in Fd |-> IF m = n THEN "closed" ELSE table[m]]

FsInit ==
    /\ \E L \in Launches : fd = Inherited(L)
    /\ backing_file_fd = -1
    /\ saved = NoFd
    /\ whole = 0
    /\ mounted = "no"
    /\ clobbered = {}

-----------------------------------------------------------------------------

\* A write of the whole superblock, holding backing_file_fd = n, to n.
lazyfs_save_superblock(n, table) ==
    /\ table[n] # "closed"
    /\ saved' = IF table[n] = "image" THEN n ELSE saved
    /\ whole' = IF table[n] = "image" THEN 1 ELSE whole
    /\ clobbered' = IF table[n] = "image" THEN clobbered
                                          ELSE clobbered \cup {n}

\* The write fails, or ends early, before or after the field.
lazyfs_save_superblock_fails(n, table) ==
    /\ saved' \in IF table[n] = "image" THEN {saved, n} ELSE {saved}
    /\ clobbered' \in IF table[n] \in {"closed", "image"} THEN {clobbered}
                      ELSE {clobbered, clobbered \cup {n}}
    /\ UNCHANGED whole

\* In-memory mode: no path was given.
\* Fault: backing_file_fd is left 0 by the memset.
lazyfs_init_memory_Zero ==
    /\ mounted' = "memory"
    /\ backing_file_fd' = 0
    /\ UNCHANGED <<fd, saved, whole, clobbered>>

lazyfs_init_memory ==
    /\ mounted' = "memory"
    /\ backing_file_fd' = -1
    /\ UNCHANGED <<fd, saved, whole, clobbered>>

\* backing_file_fd once the file is open as n and has been read: what was read
\* replaces n, also when the file ended before the superblock did.
AfterRead(n) == IF saved = NoFd THEN n ELSE saved

\* The file holds a superblock.
lazyfs_init_load(n) ==
    /\ whole = 1
    /\ fd' = [fd EXCEPT ![n] = "image"]
    /\ backing_file_fd' = AfterRead(n)
    /\ mounted' = "image"
    /\ UNCHANGED <<saved, whole, clobbered>>

\* A new or short file: the superblock is saved at once.
lazyfs_init_new(n) ==
    /\ whole = 0
    /\ fd' = [fd EXCEPT ![n] = "image"]
    /\ lazyfs_save_superblock(AfterRead(n), fd')
    /\ backing_file_fd' = AfterRead(n)
    /\ mounted' = "image"

\* The same when the save fails.
lazyfs_init_not_saved(n) ==
    /\ whole = 0
    /\ LET table == [fd EXCEPT ![n] = "image"]
       IN /\ lazyfs_save_superblock_fails(AfterRead(n), table)
          /\ fd' = Closed(table, AfterRead(n))
    /\ backing_file_fd' = -1
    /\ UNCHANGED mounted

\* The file cannot be opened.
lazyfs_init_not_opened ==
    /\ backing_file_fd' = -1
    /\ UNCHANGED <<fd, saved, whole, mounted, clobbered>>

\* Save, close, and clear the superblock: backing_file_fd is 0 afterwards.
\* Fault: the descriptor is marked invalid before the superblock is saved.
lazyfs_cleanup_Invalidated ==
    /\ mounted' = "no"
    /\ backing_file_fd' = 0
    /\ fd' = Closed(fd, backing_file_fd)
    /\ saved' = IF backing_file_fd = -1 \/ fd[backing_file_fd] # "image"
                THEN saved ELSE -1
    /\ UNCHANGED <<whole, clobbered>>

lazyfs_cleanup ==
    /\ mounted' = "no"
    /\ backing_file_fd' = 0
    /\ fd' = Closed(fd, backing_file_fd)
    /\ \/ /\ backing_file_fd # -1
          /\ \/ lazyfs_save_superblock(backing_file_fd, fd)
             \/ lazyfs_save_superblock_fails(backing_file_fd, fd)
       \/ /\ backing_file_fd = -1
          /\ UNCHANGED <<saved, whole, clobbered>>

-----------------------------------------------------------------------------
(* LazyFS by itself *)

lazyfs_init ==
    \/ lazyfs_init_memory
    \/ \E n \in Fd : /\ LowestFree(n)
                     /\ \/ lazyfs_init_load(n)
                        \/ lazyfs_init_new(n)
                        \/ lazyfs_init_not_saved(n)
    \/ lazyfs_init_not_opened

\* The kernel ends, in any state of LazyFS, and another one is launched.
Relaunch ==
    /\ \E L \in Launches : fd' = Inherited(L)
    /\ backing_file_fd' = -1
    /\ mounted' = "no"
    /\ UNCHANGED <<saved, whole, clobbered>>

FsNext ==
    \/ mounted = "no" /\ backing_file_fd = -1 /\ lazyfs_init
    \/ mounted # "no" /\ lazyfs_cleanup
    \/ Relaunch

FsSpec == FsInit /\ [][FsNext]_fsVars

-----------------------------------------------------------------------------

\* While a backing file is mounted, backing_file_fd is "File descriptor for the
\* backing file" (lazyfs.h:70).
BackingFdIsBackingFile ==
    mounted = "image" => backing_file_fd \in Fd /\ fd[backing_file_fd] = "image"

\* Over any number of mounts, unmounts and kernels that just end, LazyFS writes
\* a superblock to no file but its own and closes nothing it did not open.
OnlyBackingFile ==
    /\ clobbered = {}
    /\ \A n \in {0, 1, 2} : fd[n] = "inherited"
=============================================================================
