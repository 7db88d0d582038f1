------------------------------ MODULE Windows -------------------------------
(***************************************************************************)
(* src/arch/windows: the KMDF driver around common.c.  The framework       *)
(* hands requests to bareflankEvtIoDeviceControl from a parallel queue and *)
(* each must be completed once.  When the device leaves its working state  *)
(* D0 the framework stops the queue, calls EvtIoStop for every request     *)
(* that is still pending, and EvtDeviceD0Exit once none is.                *)
(***************************************************************************)
EXTENDS Common

\* The file of a module is a block that ioctl_add_module has allocated.
ASSUME WindowsAssumption == Blocks \subseteq Files

VARIABLES
  power,              \* the device's power state, see PowerStates
  g_num_pmodules,
  pmodules,           \* pmodules[i].data
  wpc,                \* per thread: where it is in queue.c or driver.c
  buf,                \* per thread: ioctl_add_module's buffer
  req                 \* per thread: the request it was given

pmods == <<g_num_pmodules, pmodules>>
wvars == <<power, pmods, wpc, buf, req>>

\* "leaving": on the way from D0 to Dx, the queue is stopped; "unloading" and
\* "gone": the driver object is cleaned up.
PowerStates == {"out", "failed", "Dx", "D0", "leaving", "unloading", "gone"}

ReqStates == {"none", "pending", "completed", "twice"}

WindowsLabels == {"idle", "copy", "add", "load", "unload", "start", "rollback",
                  "stop", "dump", "d0exit", "cleanup"}

WindowsInit ==
  /\ Init
  /\ power = "out"
  /\ g_num_pmodules = 0
  /\ pmodules = [i \in ModIdx |-> NULL]
  /\ wpc = [t \in Threads |-> "idle"]
  /\ buf = [t \in Threads |-> NULL]
  /\ req = [t \in Threads |-> "none"]

WGoto(t, l) == wpc' = [wpc EXCEPT ![t] = l]
CallCommon(t, o, a, l) == Call(t, o, a) /\ WGoto(t, l)
Returned(t, l) == wpc[t] = l /\ pc[t] = "idle"

platform_free(b) == heap' = heap \ b

WdfRequestComplete(t) ==
  req' = [req EXCEPT ![t] = IF @ = "pending" THEN "completed" ELSE "twice"]

\* Mutant: the return after the first WdfRequestComplete is missing.
FinishTwice(t) == req' = [req EXCEPT ![t] = "twice"] /\ WGoto(t, "idle")

\* The end of bareflankEvtIoDeviceControl.
Finish(t) == WdfRequestComplete(t) /\ WGoto(t, "idle")

-----------------------------------------------------------------------------
(* driver.c, device.c: the life of the device *)

\* EvtDeviceAdd: the queue is created, then common_init runs.
DeviceAdd(t) ==
  /\ power = "out" /\ wpc[t] = "idle"
  /\ \/ power' = "Dx" /\ common_reset
     \/ power' = "failed" /\ UNCHANGED <<globals, world>>
  /\ UNCHANGED <<frames, pmods, wpc, buf, req>>

D0Entry ==
  /\ power = "Dx" /\ power' = "D0"
  /\ UNCHANGED <<vars, pmods, wpc, buf, req>>

LeaveD0 ==
  /\ power = "D0" /\ power' = "leaving"
  /\ UNCHANGED <<vars, pmods, wpc, buf, req>>

\* EvtIoStop completes the request, whatever its handler is doing.
EvtIoStop(t) ==
  /\ power = "leaving" /\ req[t] = "pending"
  /\ WdfRequestComplete(t)
  /\ UNCHANGED <<vars, power, pmods, wpc, buf>>

D0Exit(t) ==
  /\ power = "leaving" /\ wpc[t] = "idle"
  /\ \A u \in Threads : req[u] # "pending" /\ wpc[u] # "d0exit"
  /\ CallCommon(t, "fini", NULL, "d0exit")
  /\ UNCHANGED <<power, pmods, buf, req>>

D0Exited(t) ==
  /\ Returned(t, "d0exit")
  /\ power' = "Dx" /\ WGoto(t, "idle")
  /\ UNCHANGED <<vars, pmods, buf, req>>

DriverContextCleanup(t) ==
  /\ power \in {"Dx", "failed"} /\ wpc[t] = "idle"
  /\ power' = "unloading"
  /\ CallCommon(t, "fini", NULL, "cleanup")
  /\ UNCHANGED <<pmods, buf, req>>

CleanedUp(t) ==
  /\ Returned(t, "cleanup")
  /\ power' = "gone" /\ WGoto(t, "idle")
  /\ UNCHANGED <<vars, pmods, buf, req>>

-----------------------------------------------------------------------------
(* queue.c: the requests *)

\* The queue delivers a request to thread t.
Deliver(t) ==
  /\ power = "D0" /\ wpc[t] = "idle"
  /\ req' = [req EXCEPT ![t] = "pending"]

\* A request that changes nothing here: a buffer cannot be retrieved, the code
\* is unknown, the module is empty, one too many or does not fit into memory,
\* the status is read, the vcpu number (which is only passed on) is set.
Answered(t) ==
  /\ power = "D0" /\ wpc[t] = "idle"
  /\ req' = [req EXCEPT ![t] = "completed"]
  /\ UNCHANGED <<vars, power, pmods, wpc, buf>>

\* Mutant: one module too many is let through.
PmodulesOverfull == g_num_pmodules > MAX_NUM_MODULES

PmodulesFull == g_num_pmodules >= MAX_NUM_MODULES

AddModule(t) ==
  /\ Deliver(t) /\ ~PmodulesFull
  /\ \E p \in Blocks :
       /\ platform_alloc_rw(p, 1)
       /\ buf' = [buf EXCEPT ![t] = p]
  /\ WGoto(t, "copy")
  /\ UNCHANGED <<globals, vmm_inited, mapped, vcpu, frames, power, pmods>>

AddModuleCopied(t) ==
  /\ wpc[t] = "copy"
  /\ CallCommon(t, "add", buf[t], "add")
  /\ UNCHANGED <<power, pmods, buf, req>>

AddModuleDone(t) ==
  /\ Returned(t, "add")
  /\ IF ret[t] = "SUCCESS"
     THEN /\ pmodules' = [pmodules EXCEPT ![g_num_pmodules] = buf[t]]
          /\ g_num_pmodules' = g_num_pmodules + 1
          /\ UNCHANGED heap
     ELSE platform_free({buf[t]}) /\ UNCHANGED pmods
  /\ Finish(t)
  /\ UNCHANGED <<globals, vmm_inited, mapped, vcpu, frames, power, buf>>

\* The requests that call common.c at once.
CallRequest(t) ==
  /\ Deliver(t)
  /\ \/ \E o \in {"load", "unload", "start", "stop"} : CallCommon(t, o, NULL, o)
     \/ \E f \in Files : CallCommon(t, "dump", f, "dump")
  /\ UNCHANGED <<power, pmods, buf>>

\* Mutant: a failed load is reported and nothing else.
LoadVmmKeeps(t) ==
  /\ Returned(t, "load")
  /\ Finish(t)
  /\ UNCHANGED <<vars, power, pmods, buf>>

LoadVmmDone(t) ==
  /\ Returned(t, "load")
  /\ IF ret[t] = "SUCCESS"
     THEN Finish(t) /\ UNCHANGED vars
     ELSE CallCommon(t, "unload", NULL, "unload") /\ UNCHANGED req
  /\ UNCHANGED <<power, pmods, buf>>

\* The copies of the files go, whatever common_unload_vmm has answered.
UnloadVmmDone(t) ==
  /\ Returned(t, "unload")
  /\ platform_free({pmodules[i] : i \in 0 .. g_num_pmodules - 1})
  /\ g_num_pmodules' = 0
  /\ pmodules' = [i \in ModIdx |-> NULL]
  /\ Finish(t)
  /\ UNCHANGED <<globals, vmm_inited, mapped, vcpu, frames, power, buf>>

StartVmmDone(t) ==
  /\ Returned(t, "start")
  /\ IF ret[t] = "SUCCESS"
     THEN Finish(t) /\ UNCHANGED vars
     ELSE CallCommon(t, "stop", NULL, "rollback") /\ UNCHANGED req
  /\ UNCHANGED <<power, pmods, buf>>

\* Mutant: a roll-back that failed is tried again.
ReportedRetries(t) ==
  /\ \E l \in {"rollback", "stop", "dump"} : Returned(t, l)
  /\ IF wpc[t] = "rollback" /\ ret[t] # "SUCCESS"
     THEN CallCommon(t, "stop", NULL, "rollback") /\ UNCHANGED req
     ELSE Finish(t) /\ UNCHANGED vars
  /\ UNCHANGED <<power, pmods, buf>>

\* ioctl_stop_vmm and ioctl_dump_vmm only pass on common.c's answer.
Reported(t) ==
  /\ \E l \in {"rollback", "stop", "dump"} : Returned(t, l)
  /\ Finish(t)
  /\ UNCHANGED <<vars, power, pmods, buf>>

-----------------------------------------------------------------------------
(* The specification. *)

Request(t) == Answered(t) \/ AddModule(t) \/ CallRequest(t)

\* What the power manager starts, and what it goes on with.
PowerEvent ==
  \/ D0Entry \/ LeaveD0
  \/ \E t \in Threads : DeviceAdd(t) \/ DriverContextCleanup(t)

Continue(t) ==
  \/ Step(t) /\ UNCHANGED wvars
  \/ AddModuleCopied(t) \/ AddModuleDone(t) \/ LoadVmmDone(t) \/ UnloadVmmDone(t)
  \/ StartVmmDone(t) \/ Reported(t)
  \/ D0Exit(t) \/ D0Exited(t) \/ CleanedUp(t)

WindowsQuiet == \A u \in Threads : wpc[u] = "idle"

\* One client, which waits for its request to end; power events at any time.
WindowsNext ==
  \/ PowerEvent
  \/ \E t \in Threads : (WindowsQuiet /\ Request(t)) \/ EvtIoStop(t) \/ Continue(t)

\* The same without power events while a request is being served.
WindowsSerialNext ==
  \/ WindowsQuiet /\ PowerEvent
  \/ \E t \in Threads : (WindowsQuiet /\ Request(t)) \/ Continue(t)

allvars == <<vars, wvars>>

WindowsSpec       == WindowsInit /\ [][WindowsNext]_allvars
WindowsSerialSpec == WindowsInit /\ [][WindowsSerialNext]_allvars

\* The kernel schedules every thread that is inside the driver, and the
\* framework finishes a power transition that it has begun.
FairWindowsSerialSpec ==
  WindowsSerialSpec /\ \A t \in Threads : WF_allvars(Continue(t))

-----------------------------------------------------------------------------
(* Correctness. *)

\* The device's variables have their types; pmodules is never overrun.
WindowsTypeOK ==
  /\ TypeOK
  /\ power \in PowerStates
  /\ g_num_pmodules \in 0 .. MAX_NUM_MODULES
  /\ pmodules \in [ModIdx -> Blocks \cup {NULL}]
  /\ wpc \in [Threads -> WindowsLabels]
  /\ buf \in [Threads -> Blocks \cup {NULL}]
  /\ req \in [Threads -> ReqStates]

\* Whichever path a handler takes, its request is completed exactly once, and
\* not before the handler has returned.
CompletedOnce ==
  \A t \in Threads :
    /\ req[t] # "twice"
    /\ req[t] = "pending" <=> wpc[t] \notin {"idle", "d0exit", "cleanup"}

FileCopies == {pmodules[i] : i \in ModIdx} \ {NULL}

\* Between two requests, and across any number of sleeps, every allocated
\* block is the VMM's or a file copy that pmodules still knows, and never both.
FilesAccounted ==
  WindowsQuiet =>
    /\ heap = (Pointers \ {NULL}) \cup FileCopies
    /\ Pointers \cap FileCopies = {}
    /\ \A i \in ModIdx : pmodules[i] # NULL <=> i < g_num_pmodules
    /\ g_vmm_status = "UNLOADED" => \A i \in LoadedIdx : mod_file[i] \in FileCopies

\* A device that sleeps has left nothing behind in common.c: no module, no
\* memory and no CPU in the VMM, unless the VMM refused to stop or is corrupt.
SleepsUnloaded ==
  power = "Dx" =>
    \/ g_vmm_status \in {"RUNNING", "CORRUPT"}
    \/ /\ g_vmm_status = "UNLOADED" /\ g_num_modules = 0
       /\ Pointers = {NULL}
       /\ \A c \in Cpu : vcpu[c] # "on"

\* An upper bound of the steps a callback still takes: those of the function it
\* has called, and those of the clean-up it may call after it.
CallbackStepsLeft(t) ==
  CASE wpc[t] = "idle"  -> 0
    [] wpc[t] = "copy"  -> Rank["add"] + 2
    [] wpc[t] = "load"  -> StepsLeft(t) + Rank["unload"] + 2
    [] wpc[t] = "start" -> StepsLeft(t) + Rank["stop"] + 3 * NumCpus + 2
    [] OTHER            -> StepsLeft(t) + 1

\* Every step of the driver brings the callback that it serves nearer to its end,
\* whatever clean-up it goes through: a request is completed, and D0Exit lets the
\* device sleep, after a number of steps known when the framework calls.
CallbacksGetShorter ==
  [][\A t \in Threads : wpc[t] # "idle" =>
       0 <= CallbackStepsLeft(t)' /\ CallbackStepsLeft(t)' < CallbackStepsLeft(t)]_allvars

\* Every request is completed and every power transition comes to its end.
RequestsComplete ==
  /\ \A t \in Threads : req[t] = "pending" ~> req[t] = "completed"
  /\ power = "leaving" ~> power = "Dx"
  /\ power = "unloading" ~> power = "gone"

\* include/common.h on common_start_vmm: before the VMM can be started it must
\* be loaded.
StartNeedsLoadedVmm ==
  \A t \in Threads : pc[t] = "st_vmcall" => g_vmm_status # "UNLOADED"

=============================================================================
