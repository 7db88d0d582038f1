------------------------------- MODULE Linux --------------------------------
(***************************************************************************)
(* src/arch/linux/entry.c: the misc device through which bfm drives        *)
(* common.c on Linux, the reboot notifier and the module's init and exit.  *)
(* An ioctl copies what user space passes, calls into common.c (the steps  *)
(* of module Common) and acts on the result.  The copies of the module     *)
(* files live in pmodules; common.c keeps pointers into them.              *)
(***************************************************************************)
EXTENDS Common

CONSTANT Lengths      \* what user space may pass to IOCTL_ADD_MODULE_LENGTH

\* The file of a module is a block that ioctl_add_module has allocated.
ASSUME LinuxAssumption == Blocks \subseteq Files /\ Lengths \subseteq Nat

VARIABLES
  dev,                \* "out" before dev_init, then "in"; "gone" after dev_exit,
                      \* "failed" when misc_register has failed
  g_module_length,
  g_num_pmodules,
  pmodules,           \* pmodules[i].data
  lpc,                \* per thread: where it is in entry.c
  buf                 \* per thread: ioctl_add_module's buffer

pmods == <<g_num_pmodules, pmodules>>
lvars == <<dev, g_module_length, pmods, lpc, buf>>

LinuxLabels == {"user", "init", "add_copy", "add", "load", "unload",
                "start", "rollback", "stop", "dump", "reboot", "exit"}

LinuxInit ==
  /\ Init
  /\ dev = "out"
  /\ g_module_length = 0
  /\ g_num_pmodules = 0
  /\ pmodules = [i \in ModIdx |-> NULL]
  /\ lpc = [t \in Threads |-> "user"]
  /\ buf = [t \in Threads |-> NULL]

LGoto(t, l) == lpc' = [lpc EXCEPT ![t] = l]

\* t calls the common function o and waits for it at l.
CallCommon(t, o, a, l) == Call(t, o, a) /\ LGoto(t, l)

\* The common function t called at l has returned.
Returned(t, l) == lpc[t] = l /\ pc[t] = "idle"

\* A request from user space: the device must be there.
Ioctl(t) == lpc[t] = "user" /\ dev = "in"

platform_free_rw(b) == heap' = heap \ b

-----------------------------------------------------------------------------
(* dev_init, dev_reboot, dev_exit *)

\* misc_register makes the device reachable before common_init has run.  When
\* it fails the module is discarded (its reboot notifier stays registered).
DevInit(t) ==
  /\ lpc[t] = "user" /\ dev = "out"
  /\ \/ dev' = "in" /\ LGoto(t, "init")
     \/ dev' = "failed" /\ UNCHANGED lpc
  /\ UNCHANGED <<vars, g_module_length, pmods, buf>>

CommonInit(t) ==
  /\ lpc[t] = "init"
  /\ common_reset
  /\ LGoto(t, "user")
  /\ UNCHANGED <<frames, dev, g_module_length, pmods, buf>>

DevReboot(t) ==
  /\ lpc[t] = "user" /\ dev = "in"
  /\ CallCommon(t, "fini", NULL, "reboot")
  /\ UNCHANGED <<dev, g_module_length, pmods, buf>>

DevExit(t) ==
  /\ lpc[t] = "user" /\ dev = "in"
  /\ CallCommon(t, "fini", NULL, "exit")
  /\ UNCHANGED <<dev, g_module_length, pmods, buf>>

DevExited(t) ==
  /\ Returned(t, "exit")
  /\ dev' = "gone"
  /\ LGoto(t, "user")
  /\ UNCHANGED <<vars, g_module_length, pmods, buf>>

-----------------------------------------------------------------------------
(* ioctl_add_module_length, ioctl_add_module *)

\* A failing copy_from_user may have written part of the length already.
AddModuleLength(t) ==
  /\ Ioctl(t)
  /\ g_module_length' \in Lengths
  /\ UNCHANGED <<vars, dev, pmods, lpc, buf>>

\* Mutant: one module too many is let through.
PmodulesOverfull == g_num_pmodules > MAX_NUM_MODULES

PmodulesFull == g_num_pmodules >= MAX_NUM_MODULES

AddModule(t) ==
  /\ Ioctl(t) /\ ~PmodulesFull
  /\ \E p \in Blocks :
       /\ platform_alloc_rw(p, g_module_length)
       /\ buf' = [buf EXCEPT ![t] = p]
  /\ LGoto(t, "add_copy")
  /\ UNCHANGED <<globals, vmm_inited, mapped, vcpu, frames,
                 dev, g_module_length, pmods>>

\* failed: the buffer is given back.
AddModuleFailed(t) ==
  /\ platform_free_rw({buf[t]})
  /\ LGoto(t, "user")
  /\ UNCHANGED <<globals, vmm_inited, mapped, vcpu, frames,
                 dev, g_module_length, pmods, buf>>

AddModuleCopy(t) ==
  /\ lpc[t] = "add_copy"
  /\ \/ AddModuleFailed(t)
     \/ /\ CallCommon(t, "add", buf[t], "add")
        /\ UNCHANGED <<dev, g_module_length, pmods, buf>>

\* Mutant: a successful ioctl falls through to the label failed.
AddModuleStoreFreed(t) ==
  /\ pmodules' = [pmodules EXCEPT ![g_num_pmodules] = buf[t]]
  /\ g_num_pmodules' = g_num_pmodules + 1
  /\ platform_free_rw({buf[t]})
  /\ LGoto(t, "user")
  /\ UNCHANGED <<globals, vmm_inited, mapped, vcpu, frames,
                 dev, g_module_length, buf>>

AddModuleStore(t) ==
  /\ pmodules' = [pmodules EXCEPT ![g_num_pmodules] = buf[t]]
  /\ g_num_pmodules' = g_num_pmodules + 1
  /\ LGoto(t, "user")
  /\ UNCHANGED <<vars, dev, g_module_length, buf>>

AddModuleDone(t) ==
  /\ Returned(t, "add")
  /\ IF ret[t] = "SUCCESS" THEN AddModuleStore(t) ELSE AddModuleFailed(t)

-----------------------------------------------------------------------------
(* ioctl_load_vmm, ioctl_unload_vmm *)

LoadVmm(t) ==
  /\ Ioctl(t)
  /\ CallCommon(t, "load", NULL, "load")
  /\ UNCHANGED <<dev, g_module_length, pmods, buf>>

\* Mutant: a failed load is reported and nothing else.
LoadVmmKeeps(t) ==
  /\ Returned(t, "load")
  /\ LGoto(t, "user")
  /\ UNCHANGED <<vars, dev, g_module_length, pmods, buf>>

LoadVmmDone(t) ==
  /\ Returned(t, "load")
  /\ IF ret[t] = "SUCCESS"
     THEN LGoto(t, "user") /\ UNCHANGED vars
     ELSE CallCommon(t, "unload", NULL, "unload")
  /\ UNCHANGED <<dev, g_module_length, pmods, buf>>

UnloadVmm(t) ==
  /\ Ioctl(t)
  /\ CallCommon(t, "unload", NULL, "unload")
  /\ UNCHANGED <<dev, g_module_length, pmods, buf>>

FreePmodules ==
  /\ platform_free_rw({pmodules[i] : i \in 0 .. g_num_pmodules - 1})
  /\ g_num_pmodules' = 0
  /\ pmodules' = [i \in ModIdx |-> NULL]

\* The copies of the files go, whatever common_unload_vmm has answered.
UnloadVmmDone(t) ==
  /\ Returned(t, "unload")
  /\ FreePmodules
  /\ LGoto(t, "user")
  /\ UNCHANGED <<globals, vmm_inited, mapped, vcpu, frames,
                 dev, g_module_length, buf>>

-----------------------------------------------------------------------------
(* ioctl_start_vmm, ioctl_stop_vmm, ioctl_dump_vmm *)

StartVmm(t) ==
  /\ Ioctl(t)
  /\ CallCommon(t, "start", NULL, "start")
  /\ UNCHANGED <<dev, g_module_length, pmods, buf>>

\* Mutant: a failed start relies on common_start_vmm's own clean-up.
StartVmmKeeps(t) ==
  /\ Returned(t, "start")
  /\ LGoto(t, IF ret[t] = "SUCCESS" THEN "user" ELSE "rollback")
  /\ UNCHANGED <<vars, dev, g_module_length, pmods, buf>>

StartVmmDone(t) ==
  /\ Returned(t, "start")
  /\ IF ret[t] = "SUCCESS"
     THEN LGoto(t, "user") /\ UNCHANGED vars
     ELSE CallCommon(t, "stop", NULL, "rollback")
  /\ UNCHANGED <<dev, g_module_length, pmods, buf>>

StopVmm(t) ==
  /\ Ioctl(t)
  /\ CallCommon(t, "stop", NULL, "stop")
  /\ UNCHANGED <<dev, g_module_length, pmods, buf>>

DumpVmm(t) ==
  /\ Ioctl(t)
  /\ \E f \in Files : CallCommon(t, "dump", f, "dump")
  /\ UNCHANGED <<dev, g_module_length, pmods, buf>>

\* Mutant: a roll-back that failed is tried again.
ReportedRetries(t) ==
  /\ \E l \in {"rollback", "stop", "dump", "reboot"} : Returned(t, l)
  /\ IF lpc[t] = "rollback" /\ ret[t] # "SUCCESS"
     THEN CallCommon(t, "stop", NULL, "rollback")
     ELSE LGoto(t, "user") /\ UNCHANGED vars
  /\ UNCHANGED <<dev, g_module_length, pmods, buf>>

\* These only report common.c's answer to user space.
Reported(t) ==
  /\ \E l \in {"rollback", "stop", "dump", "reboot"} : Returned(t, l)
  /\ LGoto(t, "user")
  /\ UNCHANGED <<vars, dev, g_module_length, pmods, buf>>

-----------------------------------------------------------------------------
(* The specification. *)

Request(t) ==
  \/ DevInit(t) \/ DevReboot(t) \/ DevExit(t)
  \/ AddModuleLength(t) \/ AddModule(t)
  \/ LoadVmm(t) \/ UnloadVmm(t) \/ StartVmm(t) \/ StopVmm(t) \/ DumpVmm(t)

Continue(t) ==
  \/ Step(t) /\ UNCHANGED lvars
  \/ CommonInit(t) \/ DevExited(t)
  \/ AddModuleCopy(t) \/ AddModuleDone(t)
  \/ LoadVmmDone(t) \/ UnloadVmmDone(t) \/ StartVmmDone(t) \/ Reported(t)

\* unlocked_ioctl: the kernel serialises nothing.
LinuxNext == \E t \in Threads : Request(t) \/ Continue(t)

\* bfm's use: the next request is made when the last has returned.
LinuxQuiet == \A u \in Threads : lpc[u] = "user"
LinuxSerialNext == \E t \in Threads : (LinuxQuiet /\ Request(t)) \/ Continue(t)

LinuxSpec       == LinuxInit /\ [][LinuxNext]_<<vars, lvars>>
LinuxSerialSpec == LinuxInit /\ [][LinuxSerialNext]_<<vars, lvars>>

-----------------------------------------------------------------------------
(* Correctness. *)

\* The device's variables have their types; pmodules is never overrun.
LinuxTypeOK ==
  /\ TypeOK
  /\ dev \in {"out", "in", "gone", "failed"}
  /\ g_module_length \in Lengths \cup {0}
  /\ g_num_pmodules \in 0 .. MAX_NUM_MODULES
  /\ pmodules \in [ModIdx -> Blocks \cup {NULL}]
  /\ lpc \in [Threads -> LinuxLabels]
  /\ buf \in [Threads -> Blocks \cup {NULL}]

FileCopies == {pmodules[i] : i \in ModIdx} \ {NULL}

\* Between two ioctls, while the device is there, every allocated block is the
\* VMM's or a copy of a module file, no block is both, and every copy is
\* allocated: whatever failed inside an ioctl, nothing has leaked and nothing
\* will be freed twice.
HeapAccounted ==
  LinuxQuiet /\ dev = "in" =>
    /\ heap = (Pointers \ {NULL}) \cup FileCopies
    /\ Pointers \cap FileCopies = {}
    /\ \A i \in ModIdx : pmodules[i] # NULL <=> i < g_num_pmodules
    /\ \A i, j \in 0 .. g_num_pmodules - 1 : pmodules[i] = pmodules[j] => i = j

\* bfelf_load reads every module's file: none of the copies has been freed.
LoadReadsLiveFiles ==
  \A t \in Threads : pc[t] = "ld_elf" =>
    \A i \in LoadedIdx : mod_file[i] \in heap

\* A failed IOCTL_START_VMM leaves no CPU in the VMM, unless the VMM refused to
\* stop (or was found corrupt while stopping).
FailedStartRolledBack ==
  [][\A t \in Threads : lpc[t] = "rollback" /\ lpc'[t] = "user" =>
       \/ \A c \in Cpu : vcpu[c] # "on"
       \/ ret[t] = "STOP_FAILED" /\ op[t] = "stop"
       \/ g_vmm_status = "CORRUPT"]_<<vars, lvars>>

\* An upper bound of the steps an ioctl still takes: those of the function it has
\* called, and those of the clean-up it may call after it.
IoctlStepsLeft(t) ==
  CASE lpc[t] = "user"     -> 0
    [] lpc[t] = "init"     -> 1
    [] lpc[t] = "add_copy" -> Rank["add"] + 2
    [] lpc[t] = "load"     -> StepsLeft(t) + Rank["unload"] + 2
    [] lpc[t] = "start"    -> StepsLeft(t) + Rank["stop"] + 3 * NumCpus + 2
    [] OTHER               -> StepsLeft(t) + 1

\* Every step of the driver brings the ioctl (or the notifier, or the exit) that
\* it serves nearer to its end: a clean-up that fails is not repeated, and bfm
\* gets an answer after a number of steps known when it calls.
IoctlsGetShorter ==
  [][\A t \in Threads : lpc[t] # "user" =>
       0 <= IoctlStepsLeft(t)' /\ IoctlStepsLeft(t)' < IoctlStepsLeft(t)]_<<vars, lvars>>

\* include/common.h on common_add_module: the file must stay in memory until
\* stop_vmm has run.
FilesKeptWhileRunning ==
  g_vmm_status = "RUNNING" =>
    \A i \in LoadedIdx : mod_file[i] \in heap

=============================================================================
