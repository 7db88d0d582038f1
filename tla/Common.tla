------------------------------- MODULE Common -------------------------------
(***************************************************************************)
(* src/common.c: the part of the Bareflank driver entry that every host OS *)
(* shares.  It loads the modules of a VMM, starts and stops the VMM on     *)
(* every CPU and unloads it again.  All its state is global and it takes   *)
(* no lock: each kernel thread that enters it (an ioctl, the reboot        *)
(* notifier, the driver's exit routine) walks through the C code one       *)
(* platform, ELF-loader or VMM call at a time.                             *)
(*                                                                         *)
(* A thread's position is its pc; op is the API function it called.        *)
(* common_unload_vmm is also called by a failing common_load_vmm and by    *)
(* common_fini, common_stop_vmm by a failing common_start_vmm and by       *)
(* common_fini, so op tells where an inner function returns to.            *)
(***************************************************************************)
EXTENDS Integers, FiniteSets

CONSTANTS
  Threads,          \* kernel threads that may be inside the driver
  Files,            \* module images (and debug-ring pointers) callers pass in
  Blocks,           \* the memory platform_alloc_rw / _rwe can hand out
  NULL,             \* the null pointer
  MAX_NUM_MODULES,  \* capacity of g_modules
  NumCpus,          \* CPUs are numbered 0 .. NumCpus - 1
  CpuCounts,        \* what platform_num_cpus() may answer, call by call
  RestoreOutcomes,  \* does platform_restore_affinity move the thread back:
                    \* always on Windows, never on Linux, where it ignores
                    \* its argument, and in UEFI if the firmware agrees
  AllocatesZero     \* an allocation of zero bytes: a page in UEFI, NULL in
                    \* the kernels

ASSUME ConstantsAssumption ==
  /\ NULL \notin Files /\ NULL \notin Blocks
  /\ MAX_NUM_MODULES \in Nat \ {0}
  /\ NumCpus \in Nat \ {0}
  /\ CpuCounts \subseteq 0 .. NumCpus
  /\ RestoreOutcomes \subseteq BOOLEAN /\ RestoreOutcomes # {}
  /\ AllocatesZero \in BOOLEAN

Cpu == 0 .. NumCpus - 1
ModIdx == 0 .. MAX_NUM_MODULES - 1
AnyCpu == -1                        \* affinity of a thread that is not pinned

VARIABLES
  \* globals of common.c
  g_vmm_status,
  g_num_modules,
  mod_file,            \* g_modules[i].file
  mod_exec,            \* g_modules[i].exec
  start_sym,           \* is _start set?
  g_num_cpus_started,
  g_stack,
  g_tls,
  g_tls_size,          \* in units of THREAD_LOCAL_STORAGE_SIZE
  \* the outside world
  heap,                \* blocks handed out and not yet freed
  vmm_inited,          \* BF_REQUEST_INIT answered, BF_REQUEST_FINI not yet
  mapped,              \* blocks described to the VMM's memory manager
  vcpu,                \* per CPU: how far its VMM instance is
  \* one frame per thread
  op, pc, arg, ret,
  affinity,            \* the CPU the thread is pinned to
  caller_affinity,     \* where platform_set_affinity found it
  cpuid                \* loop counter: cpuid in start and stop, i in load

globals == <<g_vmm_status, g_num_modules, mod_file, mod_exec, start_sym,
             g_num_cpus_started, g_stack, g_tls, g_tls_size>>
world   == <<heap, vmm_inited, mapped, vcpu>>
pinning == <<affinity, caller_affinity>>
frames  == <<op, pc, arg, cpuid, ret, pinning>>
vars    == <<globals, world, frames>>

Statuses == {"UNLOADED", "LOADED", "RUNNING", "CORRUPT"}

\* "init": BF_REQUEST_VMM_INIT done; "on": VMCALL_START acknowledged;
\* "stopped": VMCALL_STOP acknowledged, BF_REQUEST_VMM_FINI outstanding.
VcpuStates == {"off", "init", "on", "stopped"}

Ops == {"add", "load", "unload", "start", "stop", "fini", "dump"}

\* An API function's first label has its name.
Labels == Ops \cup
  {"idle", "add_store",
   "ld_stack", "ld_tls", "ld_elf", "ld_init", "ld_md",
   "un_fini", "un_reset",
   "st_loop", "st_init", "st_vmcall",
   "sp_loop", "sp_vmcall", "sp_fini",
   "fi_loaded", "fi_check", "du_call"}

Codes == {"SUCCESS", "INVALID_ARG", "INVALID_STATE", "VMM_CORRUPTED",
          "MAX_MODULES_REACHED", "NO_MODULES_ADDED", "OUT_OF_MEMORY",
          "ELF_ERROR", "VMM_ERROR", "VMM_POSITIVE", "AFFINITY_ERROR",
          "START_FAILED", "STOP_FAILED"}

\* The driver and its threads before the first call.
InitDriver ==
  /\ g_vmm_status = "UNLOADED"
  /\ g_num_modules = 0
  /\ mod_file = [i \in ModIdx |-> NULL]
  /\ mod_exec = [i \in ModIdx |-> NULL]
  /\ start_sym = FALSE
  /\ g_num_cpus_started = 0
  /\ g_stack = NULL
  /\ g_tls = NULL
  /\ g_tls_size = 0
  /\ heap = {}
  /\ vmm_inited = FALSE
  /\ mapped = {}
  /\ vcpu = [c \in Cpu |-> "off"]
  /\ op = [t \in Threads |-> "fini"]
  /\ pc = [t \in Threads |-> "idle"]
  /\ arg = [t \in Threads |-> NULL]
  /\ cpuid = [t \in Threads |-> 0]
  /\ ret = [t \in Threads |-> "SUCCESS"]
  /\ caller_affinity = [t \in Threads |-> AnyCpu]

Init == InitDriver /\ affinity = [t \in Threads |-> AnyCpu]

-----------------------------------------------------------------------------
(* Control. *)

At(t, l)     == pc[t] = l
Goto(t, l)   == pc' = [pc EXCEPT ![t] = l]
SetRet(t, r) == ret' = [ret EXCEPT ![t] = r]
Keep(t)      == UNCHANGED <<op, arg>>

\* The function t called returns r to its caller outside common.c.
Return(t, r) == Goto(t, "idle") /\ SetRet(t, r)

\* An error inside common_load_vmm or common_start_vmm: goto failure.
Failure(t, cleanup, r) == Goto(t, cleanup) /\ SetRet(t, r)

\* common_unload_vmm returns r: common_load_vmm ignores it and returns the
\* error it already has, common_fini looks at the status again.
UnloadReturns(t, r) ==
  /\ Goto(t, IF op[t] = "fini" THEN "fi_check" ELSE "idle")
  /\ SetRet(t, IF op[t] = "unload" THEN r ELSE ret[t])

\* Mutant: common_fini's tests chained with else.
StopReturnsToCheck(t, r) ==
  /\ Goto(t, IF op[t] = "fini" THEN "fi_check" ELSE "idle")
  /\ SetRet(t, IF op[t] = "stop" THEN r ELSE ret[t])

\* Mutant: the result of the roll-back replaces the error of the start.
StopReturnsOverwrites(t, r) ==
  /\ Goto(t, IF op[t] = "fini" THEN "fi_loaded" ELSE "idle")
  /\ SetRet(t, IF op[t] = "fini" THEN ret[t] ELSE r)

\* common_stop_vmm returns r: likewise for common_start_vmm and common_fini.
StopReturns(t, r) ==
  /\ Goto(t, IF op[t] = "fini" THEN "fi_loaded" ELSE "idle")
  /\ SetRet(t, IF op[t] = "stop" THEN r ELSE ret[t])

-----------------------------------------------------------------------------
(* The platform and the VMM, as common.c uses them. *)

\* platform_alloc_rw(len): a fresh block, or NULL when memory has run out
\* and, in the kernels, whenever len is zero.
platform_alloc_rw(p, len) ==
  \/ p \in Blocks \ heap /\ (len > 0 \/ AllocatesZero) /\ heap' = heap \cup {p}
  \/ p = NULL /\ UNCHANGED heap

\* Mutant: the caller is asked where it runs, and left there.
PinNowhere(t) ==
  /\ UNCHANGED affinity
  /\ caller_affinity' = [caller_affinity EXCEPT ![t] = affinity[t]]

Pin(t) ==
  /\ affinity' = [affinity EXCEPT ![t] = cpuid[t]]
  /\ caller_affinity' = [caller_affinity EXCEPT ![t] = affinity[t]]

Restore(t) ==
  /\ \E restored \in RestoreOutcomes :
       affinity' = IF restored THEN [affinity EXCEPT ![t] = caller_affinity[t]]
                   ELSE affinity
  /\ UNCHANGED caller_affinity

\* The CPUs platform_get_current_cpu_num() can return to t inside call_vmm.
CurrentCpus(t) == IF affinity[t] = AnyCpu THEN Cpu ELSE {affinity[t]}

\* call_vmm: without an entry point it fails with BF_ERROR_UNKNOWN, with one the
\* VMM answers freely.  Its answer is passed on as it is: nothing makes an
\* error negative, and common.c itself only tests for BF_SUCCESS.
call_vmm(r) ==
  /\ r \in {"SUCCESS", "VMM_ERROR", "VMM_POSITIVE"}
  /\ r # "VMM_ERROR" => start_sym

-----------------------------------------------------------------------------
(* common_reset *)

LoadedIdx == {i \in ModIdx : i < g_num_modules}

ResetFrees == {mod_exec[i] : i \in LoadedIdx} \cup {g_tls, g_stack}

\* Mutant: the stack is freed and its pointer kept.
ResetKeepsStack ==
  /\ mod_file' = [i \in ModIdx |-> NULL]
  /\ mod_exec' = [i \in ModIdx |-> NULL]
  /\ start_sym' = FALSE /\ g_tls' = NULL /\ UNCHANGED g_stack

ResetPointers ==
  /\ mod_file' = [i \in ModIdx |-> NULL]
  /\ mod_exec' = [i \in ModIdx |-> NULL]
  /\ start_sym' = FALSE
  /\ g_tls' = NULL
  /\ g_stack' = NULL

common_reset ==
  /\ heap' = heap \ ResetFrees
  /\ ResetPointers
  /\ g_num_modules' = 0
  /\ g_num_cpus_started' = 0
  /\ g_vmm_status' = "UNLOADED"
  /\ vmm_inited' = FALSE            \* the VMM's image is gone
  /\ mapped' = {}
  /\ UNCHANGED <<g_tls_size, vcpu>>

-----------------------------------------------------------------------------
(* Entry of every API function. *)

Enter(t, o, a) ==
  /\ At(t, "idle")
  /\ op' = [op EXCEPT ![t] = o]
  /\ arg' = [arg EXCEPT ![t] = a]
  /\ Goto(t, o)
  /\ UNCHANGED <<globals, world, cpuid, ret>>

\* Whoever calls into a kernel may run on any CPU.
Call(t, o, a) ==
  /\ Enter(t, o, a)
  /\ affinity' = [affinity EXCEPT ![t] = AnyCpu]
  /\ caller_affinity' = [caller_affinity EXCEPT ![t] = AnyCpu]

-----------------------------------------------------------------------------
(* common_add_module *)

\* Mutants: the capacity test and the status test dropped.
AddUnbounded(t, r) ==
  \/ arg[t] = NULL /\ r = "INVALID_ARG"
  \/ arg[t] # NULL /\ g_vmm_status = "CORRUPT" /\ r = "VMM_CORRUPTED"
  \/ arg[t] # NULL /\ g_vmm_status \in {"LOADED", "RUNNING"} /\ r = "INVALID_STATE"
AddAnytime(t, r) ==
  \/ arg[t] = NULL /\ r = "INVALID_ARG"
  \/ arg[t] # NULL /\ g_num_modules >= MAX_NUM_MODULES /\ r = "MAX_MODULES_REACHED"

\* The checks before the store refuse the module with r.
AddRefuses(t, r) ==
  \/ arg[t] = NULL /\ r = "INVALID_ARG"
  \/ arg[t] # NULL /\ g_vmm_status = "CORRUPT" /\ r = "VMM_CORRUPTED"
  \/ arg[t] # NULL /\ g_vmm_status \in {"LOADED", "RUNNING"} /\ r = "INVALID_STATE"
  \/ /\ arg[t] # NULL /\ g_vmm_status = "UNLOADED"
     /\ g_num_modules >= MAX_NUM_MODULES /\ r = "MAX_MODULES_REACHED"

AddEnter(t) ==
  /\ At(t, "add")
  /\ \/ \E r \in Codes : AddRefuses(t, r) /\ Return(t, r)
     \/ /\ \A r \in Codes : ~AddRefuses(t, r)
        /\ Goto(t, "add_store") /\ UNCHANGED ret
  /\ UNCHANGED <<globals, world, cpuid, pinning>> /\ Keep(t)

AddStore(t) ==
  /\ At(t, "add_store")
  /\ mod_file' = [mod_file EXCEPT ![g_num_modules] = arg[t]]
  /\ g_num_modules' = g_num_modules + 1
  /\ Return(t, "SUCCESS")
  /\ UNCHANGED <<g_vmm_status, mod_exec, start_sym, g_num_cpus_started,
                 g_stack, g_tls, g_tls_size, world, cpuid, pinning>>
  /\ Keep(t)

-----------------------------------------------------------------------------
(* common_load_vmm *)

LoadEnter(t) ==
  /\ At(t, "load")
  /\ \/ g_vmm_status = "CORRUPT" /\ Return(t, "VMM_CORRUPTED")
     \/ g_vmm_status = "LOADED"  /\ Return(t, "SUCCESS")
     \/ g_vmm_status = "RUNNING" /\ Return(t, "INVALID_STATE")
     \/ /\ g_vmm_status = "UNLOADED" /\ g_num_modules = 0
        /\ Return(t, "NO_MODULES_ADDED")
     \/ /\ g_vmm_status = "UNLOADED" /\ g_num_modules # 0
        /\ Goto(t, "ld_stack") /\ UNCHANGED ret
  /\ UNCHANGED <<globals, world, cpuid, pinning>> /\ Keep(t)

\* setup_stack: a failed allocation still overwrites g_stack.
LoadStack(t) ==
  /\ At(t, "ld_stack")
  /\ \E p \in Blocks \cup {NULL} :
       /\ platform_alloc_rw(p, 1)
       /\ g_stack' = p
       /\ IF p = NULL THEN Failure(t, "unload", "OUT_OF_MEMORY")
          ELSE Goto(t, "ld_tls") /\ UNCHANGED ret
  /\ UNCHANGED <<g_vmm_status, g_num_modules, mod_file, mod_exec, start_sym,
                 g_num_cpus_started, g_tls, g_tls_size,
                 vmm_inited, mapped, vcpu, cpuid, pinning>>
  /\ Keep(t)

\* Mutant: the number of the last CPU taken for the number of CPUs.
TlsSlotsShort == {n - 1 : n \in CpuCounts \ {0}}

TlsSlots == CpuCounts

\* setup_tls: one slot for each CPU the platform counts at this moment.
LoadTls(t) ==
  /\ At(t, "ld_tls")
  /\ g_tls_size' \in TlsSlots
  /\ \E p \in Blocks \cup {NULL} :
       /\ platform_alloc_rw(p, g_tls_size')
       /\ g_tls' = p
       /\ IF p = NULL THEN Failure(t, "unload", "OUT_OF_MEMORY")
          ELSE Goto(t, "ld_elf") /\ UNCHANGED ret
  /\ UNCHANGED <<g_vmm_status, g_num_modules, mod_file, mod_exec, start_sym,
                 g_num_cpus_started, g_stack,
                 vmm_inited, mapped, vcpu, cpuid, pinning>>
  /\ Keep(t)

\* bfelf_load gives the modules their executable memory one after the other
\* and resolves _start last; it fails with any number of them done.
bfelf_load(n, ok) ==
  \E b \in [0 .. n - 1 -> Blocks \ heap] :
    /\ \A i, j \in 0 .. n - 1 : b[i] = b[j] => i = j
    /\ heap' = heap \cup {b[i] : i \in 0 .. n - 1}
    /\ mod_exec' = [i \in ModIdx |-> IF i < n THEN b[i] ELSE mod_exec[i]]
    /\ start_sym' = IF ok THEN TRUE ELSE start_sym

LoadElf(t) ==
  /\ At(t, "ld_elf")
  /\ \/ /\ bfelf_load(g_num_modules, TRUE)
        /\ Goto(t, "ld_init") /\ UNCHANGED ret
     \/ /\ \E n \in 0 .. g_num_modules : bfelf_load(n, FALSE)
        /\ Failure(t, "unload", "ELF_ERROR")
  /\ UNCHANGED <<g_vmm_status, g_num_modules, mod_file, g_num_cpus_started,
                 g_stack, g_tls, g_tls_size,
                 vmm_inited, mapped, vcpu, cpuid, pinning>>
  /\ Keep(t)

LoadInit(t) ==
  /\ At(t, "ld_init")
  /\ \E r \in Codes :
       /\ call_vmm(r)
       /\ IF r = "SUCCESS"
          THEN /\ vmm_inited' = TRUE
               /\ cpuid' = [cpuid EXCEPT ![t] = 0]
               /\ Goto(t, "ld_md") /\ UNCHANGED ret
          ELSE Failure(t, "unload", r) /\ UNCHANGED <<vmm_inited, cpuid>>
  /\ UNCHANGED <<globals, heap, mapped, vcpu, pinning>> /\ Keep(t)

\* Mutant: the last module is left out of the loop.
LastModuleSkipped(t) == cpuid[t] < g_num_modules - 1

ModulesLeft(t) == cpuid[t] < g_num_modules

\* add_md_to_memory_manager for module number cpuid[t] (the loop's i).
LoadMapModule(t) ==
  /\ At(t, "ld_md") /\ ModulesLeft(t)
  /\ \E r \in Codes :
       /\ call_vmm(r)
       /\ IF r = "SUCCESS"
          THEN /\ mapped' = mapped \cup {mod_exec[cpuid[t]]}
               /\ cpuid' = [cpuid EXCEPT ![t] = @ + 1]
               /\ UNCHANGED <<pc, ret>>
          ELSE Failure(t, "unload", r) /\ UNCHANGED <<mapped, cpuid>>
  /\ UNCHANGED <<globals, heap, vmm_inited, vcpu, pinning>> /\ Keep(t)

\* The TLS pages come last; their failure returns without goto failure.
LoadMapTls(t) ==
  /\ At(t, "ld_md") /\ ~ModulesLeft(t)
  /\ \E r \in Codes :
       /\ call_vmm(r)
       /\ Return(t, r)
       /\ IF r = "SUCCESS"
          THEN mapped' = mapped \cup {g_tls} /\ g_vmm_status' = "LOADED"
          ELSE UNCHANGED <<mapped, g_vmm_status>>
  /\ UNCHANGED <<g_num_modules, mod_file, mod_exec, start_sym,
                 g_num_cpus_started, g_stack, g_tls, g_tls_size,
                 heap, vmm_inited, vcpu, cpuid, pinning>>
  /\ Keep(t)

-----------------------------------------------------------------------------
(* common_unload_vmm *)

\* Mutants: a running, or a corrupt, VMM is unloaded all the same.
UnloadRunning(t) ==
  /\ At(t, "unload")
  /\ \/ g_vmm_status = "CORRUPT"  /\ UnloadReturns(t, "VMM_CORRUPTED")
     \/ g_vmm_status = "UNLOADED" /\ Goto(t, "un_reset") /\ UNCHANGED ret
     \/ /\ g_vmm_status \in {"LOADED", "RUNNING"}
        /\ Goto(t, "un_fini") /\ UNCHANGED ret
  /\ UNCHANGED <<globals, world, cpuid, pinning>> /\ Keep(t)
UnloadCorrupt(t) ==
  /\ At(t, "unload")
  /\ \/ g_vmm_status = "RUNNING"  /\ UnloadReturns(t, "INVALID_STATE")
     \/ g_vmm_status = "LOADED"   /\ Goto(t, "un_fini") /\ UNCHANGED ret
     \/ /\ g_vmm_status \in {"UNLOADED", "CORRUPT"}
        /\ Goto(t, "un_reset") /\ UNCHANGED ret
  /\ UNCHANGED <<globals, world, cpuid, pinning>> /\ Keep(t)

UnloadEnter(t) ==
  /\ At(t, "unload")
  /\ \/ g_vmm_status = "CORRUPT"  /\ UnloadReturns(t, "VMM_CORRUPTED")
     \/ g_vmm_status = "RUNNING"  /\ UnloadReturns(t, "INVALID_STATE")
     \/ g_vmm_status = "UNLOADED" /\ Goto(t, "un_reset") /\ UNCHANGED ret
     \/ g_vmm_status = "LOADED"   /\ Goto(t, "un_fini") /\ UNCHANGED ret
  /\ UNCHANGED <<globals, world, cpuid, pinning>> /\ Keep(t)

UnloadFini(t) ==
  /\ At(t, "un_fini")
  /\ \E r \in Codes :
       /\ call_vmm(r)
       /\ IF r = "SUCCESS"
          THEN /\ vmm_inited' = FALSE
               /\ Goto(t, "un_reset") /\ UNCHANGED <<ret, g_vmm_status>>
          ELSE /\ g_vmm_status' = "CORRUPT"
               /\ UnloadReturns(t, "VMM_CORRUPTED") /\ UNCHANGED vmm_inited
  /\ UNCHANGED <<g_num_modules, mod_file, mod_exec, start_sym,
                 g_num_cpus_started, g_stack, g_tls, g_tls_size,
                 heap, mapped, vcpu, cpuid, pinning>>
  /\ Keep(t)

UnloadReset(t) ==
  /\ At(t, "un_reset")
  /\ common_reset
  /\ UnloadReturns(t, "SUCCESS")
  /\ UNCHANGED <<cpuid, pinning>> /\ Keep(t)

-----------------------------------------------------------------------------
(* common_start_vmm *)

StartEnter(t) ==
  /\ At(t, "start")
  /\ \/ /\ g_vmm_status = "LOADED"
        /\ cpuid' = [cpuid EXCEPT ![t] = 0]
        /\ g_num_cpus_started' = 0
        /\ Goto(t, "st_loop") /\ UNCHANGED ret
     \/ /\ \/ g_vmm_status = "CORRUPT"  /\ Return(t, "VMM_CORRUPTED")
           \/ g_vmm_status = "RUNNING"  /\ Return(t, "SUCCESS")
           \/ g_vmm_status = "UNLOADED" /\ Return(t, "INVALID_STATE")
        /\ UNCHANGED <<cpuid, g_num_cpus_started>>
  /\ UNCHANGED <<g_vmm_status, g_num_modules, mod_file, mod_exec, start_sym,
                 g_stack, g_tls, g_tls_size, world, pinning>>
  /\ Keep(t)

\* The loop test asks platform_num_cpus() again in every round.
StartLoop(t) ==
  /\ At(t, "st_loop")
  /\ \/ /\ \E n \in CpuCounts : cpuid[t] >= n
        /\ Return(t, "SUCCESS") /\ UNCHANGED pinning
     \/ /\ \E n \in CpuCounts : cpuid[t] < n
        /\ \/ Pin(t) /\ Goto(t, "st_init") /\ UNCHANGED ret
           \/ Failure(t, "stop", "AFFINITY_ERROR") /\ UNCHANGED pinning
  /\ UNCHANGED <<globals, world, cpuid>> /\ Keep(t)

StartInit(t) ==
  /\ At(t, "st_init")
  /\ \E r \in Codes :
       /\ call_vmm(r)
       /\ IF r = "SUCCESS"
          THEN /\ vcpu' = [vcpu EXCEPT ![cpuid[t]] = "init"]
               /\ g_num_cpus_started' = g_num_cpus_started + 1
               /\ Goto(t, "st_vmcall") /\ UNCHANGED ret
          ELSE /\ Failure(t, "stop", r)
               /\ UNCHANGED <<vcpu, g_num_cpus_started>>
  /\ UNCHANGED <<g_vmm_status, g_num_modules, mod_file, mod_exec, start_sym,
                 g_stack, g_tls, g_tls_size,
                 heap, vmm_inited, mapped, cpuid, pinning>>
  /\ Keep(t)

\* vmcall(VMCALL_START) reaches the VMM of the CPU the thread runs on.
StartVmcall(t) ==
  /\ At(t, "st_vmcall")
  /\ \/ /\ vcpu' = [vcpu EXCEPT ![affinity[t]] = "on"]
        /\ Restore(t)
        /\ g_vmm_status' = "RUNNING"
        /\ cpuid' = [cpuid EXCEPT ![t] = @ + 1]
        /\ Goto(t, "st_loop") /\ UNCHANGED ret
     \/ /\ Return(t, "START_FAILED")
        /\ UNCHANGED <<vcpu, pinning, g_vmm_status, cpuid>>
  /\ UNCHANGED <<g_num_modules, mod_file, mod_exec, start_sym,
                 g_num_cpus_started, g_stack, g_tls, g_tls_size,
                 heap, vmm_inited, mapped>>
  /\ Keep(t)

-----------------------------------------------------------------------------
(* common_stop_vmm *)

StopEnter(t) ==
  /\ At(t, "stop")
  /\ \/ /\ g_vmm_status = "RUNNING"
        /\ cpuid' = [cpuid EXCEPT ![t] = g_num_cpus_started - 1]
        /\ Goto(t, "sp_loop") /\ UNCHANGED ret
     \/ /\ \/ g_vmm_status = "CORRUPT"  /\ StopReturns(t, "VMM_CORRUPTED")
           \/ g_vmm_status = "LOADED"   /\ StopReturns(t, "SUCCESS")
           \/ g_vmm_status = "UNLOADED" /\ StopReturns(t, "INVALID_STATE")
        /\ UNCHANGED cpuid
  /\ UNCHANGED <<globals, world, pinning>> /\ Keep(t)

StopLoop(t) ==
  /\ At(t, "sp_loop")
  /\ \/ /\ cpuid[t] < 0
        /\ g_vmm_status' = "LOADED"
        /\ StopReturns(t, "SUCCESS") /\ UNCHANGED pinning
     \/ /\ cpuid[t] >= 0
        /\ \/ /\ Pin(t)
              /\ Goto(t, "sp_vmcall") /\ UNCHANGED <<ret, g_vmm_status>>
           \/ /\ g_vmm_status' = "CORRUPT"
              /\ StopReturns(t, "AFFINITY_ERROR") /\ UNCHANGED pinning
  /\ UNCHANGED <<g_num_modules, mod_file, mod_exec, start_sym,
                 g_num_cpus_started, g_stack, g_tls, g_tls_size,
                 world, cpuid>>
  /\ Keep(t)

\* Mutant: a refused VMCALL_STOP is tried again for ever.
StopRetries(t) ==
  /\ At(t, "sp_vmcall")
  /\ \/ /\ vcpu' = [vcpu EXCEPT ![affinity[t]] = "stopped"]
        /\ Goto(t, "sp_fini")
     \/ Goto(t, "sp_loop") /\ UNCHANGED vcpu
  /\ UNCHANGED <<globals, heap, vmm_inited, mapped, cpuid, ret, pinning>>
  /\ Keep(t)

\* vmcall(VMCALL_STOP); if the VMM refuses, the status stays RUNNING.
StopVmcall(t) ==
  /\ At(t, "sp_vmcall")
  /\ \/ /\ vcpu' = [vcpu EXCEPT ![affinity[t]] = "stopped"]
        /\ Goto(t, "sp_fini") /\ UNCHANGED ret
     \/ StopReturns(t, "STOP_FAILED") /\ UNCHANGED vcpu
  /\ UNCHANGED <<globals, heap, vmm_inited, mapped, cpuid, pinning>>
  /\ Keep(t)

\* Mutant: g_num_cpus_started-- forgotten.
CpuStoppedUncounted(t) ==
  /\ vcpu' = [vcpu EXCEPT ![cpuid[t]] = "off"]
  /\ UNCHANGED g_num_cpus_started

CpuStopped(t) ==
  /\ vcpu' = [vcpu EXCEPT ![cpuid[t]] = "off"]
  /\ g_num_cpus_started' = g_num_cpus_started - 1

StopFini(t) ==
  /\ At(t, "sp_fini")
  /\ \E r \in Codes :
       /\ call_vmm(r)
       /\ IF r = "SUCCESS"
          THEN /\ CpuStopped(t)
               /\ Restore(t)
               /\ cpuid' = [cpuid EXCEPT ![t] = @ - 1]
               /\ Goto(t, "sp_loop") /\ UNCHANGED <<ret, g_vmm_status>>
          ELSE /\ g_vmm_status' = "CORRUPT"
               /\ StopReturns(t, r)
               /\ UNCHANGED <<vcpu, g_num_cpus_started, pinning, cpuid>>
  /\ UNCHANGED <<g_num_modules, mod_file, mod_exec, start_sym,
                 g_stack, g_tls, g_tls_size, heap, vmm_inited, mapped>>
  /\ Keep(t)

-----------------------------------------------------------------------------
(* common_fini *)

FiniEnter(t) ==
  /\ At(t, "fini")
  /\ Goto(t, IF g_vmm_status = "RUNNING" THEN "stop" ELSE "fi_loaded")
  /\ UNCHANGED <<globals, world, cpuid, ret, pinning>> /\ Keep(t)

FiniLoaded(t) ==
  /\ At(t, "fi_loaded")
  /\ Goto(t, IF g_vmm_status = "LOADED" THEN "unload" ELSE "fi_check")
  /\ UNCHANGED <<globals, world, cpuid, ret, pinning>> /\ Keep(t)

FiniCheck(t) ==
  /\ At(t, "fi_check")
  /\ Return(t, IF g_vmm_status = "CORRUPT" THEN "VMM_CORRUPTED" ELSE "SUCCESS")
  /\ IF g_vmm_status = "UNLOADED" /\ g_num_modules > 0
     THEN common_reset ELSE UNCHANGED <<globals, world>>
  /\ UNCHANGED <<cpuid, pinning>> /\ Keep(t)

-----------------------------------------------------------------------------
(* common_dump_vmm *)

DumpEnter(t) ==
  /\ At(t, "dump")
  /\ \/ arg[t] = NULL /\ Return(t, "INVALID_ARG")
     \/ arg[t] # NULL /\ g_vmm_status = "UNLOADED" /\ Return(t, "INVALID_STATE")
     \/ /\ arg[t] # NULL /\ g_vmm_status # "UNLOADED"
        /\ Goto(t, "du_call") /\ UNCHANGED ret
  /\ UNCHANGED <<globals, world, cpuid, pinning>> /\ Keep(t)

DumpCall(t) ==
  /\ At(t, "du_call")
  /\ \E r \in Codes : call_vmm(r) /\ Return(t, r)
  /\ UNCHANGED <<globals, world, cpuid, pinning>> /\ Keep(t)

-----------------------------------------------------------------------------
(* The specification. *)

Step(t) ==
  \/ AddEnter(t) \/ AddStore(t)
  \/ LoadEnter(t) \/ LoadStack(t) \/ LoadTls(t) \/ LoadElf(t)
  \/ LoadInit(t) \/ LoadMapModule(t) \/ LoadMapTls(t)
  \/ UnloadEnter(t) \/ UnloadFini(t) \/ UnloadReset(t)
  \/ StartEnter(t) \/ StartLoop(t) \/ StartInit(t) \/ StartVmcall(t)
  \/ StopEnter(t) \/ StopLoop(t) \/ StopVmcall(t) \/ StopFini(t)
  \/ FiniEnter(t) \/ FiniLoaded(t) \/ FiniCheck(t)
  \/ DumpEnter(t) \/ DumpCall(t)

CallAny(t) == \E o \in Ops, a \in Files \cup {NULL} : Call(t, o, a)

\* The code as it is: nothing keeps a second thread out.
Next == \E t \in Threads : CallAny(t) \/ Step(t)

\* The driver as it is meant to be used: one bfm command at a time.
Quiet == \A u \in Threads : pc[u] = "idle"
SerialNext == \E t \in Threads : (Quiet /\ CallAny(t)) \/ Step(t)

Spec       == Init /\ [][Next]_vars
SerialSpec == Init /\ [][SerialNext]_vars

\* The platform and the VMM answer every call, so a thread inside the driver
\* keeps going; nobody is obliged to make a call.
FairSerialSpec == SerialSpec /\ \A t \in Threads : WF_vars(Step(t))

-----------------------------------------------------------------------------
(* Correctness. *)

Pointers == {g_stack, g_tls} \cup {mod_exec[i] : i \in ModIdx}
Started  == {c \in Cpu : vcpu[c] # "off"}

\* Labels at which call_vmm is about to run.
CallLabels == {"ld_init", "ld_md", "un_fini", "st_init", "sp_fini", "du_call"}

\* Labels at which a thread is about to enter the VMM, through call_vmm or vmcall.
EntryLabels == CallLabels \cup {"st_vmcall", "sp_vmcall"}

\* Every variable has its type: the counters that index g_modules and the CPUs
\* stay inside their arrays.
TypeOK ==
  /\ g_vmm_status \in Statuses
  /\ g_num_modules \in 0 .. MAX_NUM_MODULES
  /\ mod_file \in [ModIdx -> Files \cup {NULL}]
  /\ mod_exec \in [ModIdx -> Blocks \cup {NULL}]
  /\ start_sym \in BOOLEAN
  /\ g_num_cpus_started \in 0 .. NumCpus
  /\ g_stack \in Blocks \cup {NULL}
  /\ g_tls \in Blocks \cup {NULL}
  /\ g_tls_size \in 0 .. NumCpus
  /\ heap \in SUBSET Blocks
  /\ vmm_inited \in BOOLEAN
  /\ mapped \in SUBSET (Blocks \cup {NULL})
  /\ vcpu \in [Cpu -> VcpuStates]
  /\ op \in [Threads -> Ops]
  /\ pc \in [Threads -> Labels]
  /\ arg \in [Threads -> Files \cup {NULL}]
  /\ ret \in [Threads -> Codes]
  /\ affinity \in [Threads -> Cpu \cup {AnyCpu}]
  /\ caller_affinity \in [Threads -> Cpu \cup {AnyCpu}]
  /\ cpuid \in [Threads -> Int]

\* No pointer common.c keeps is dangling and no two share a block, whichever
\* calls failed half-way before: common_reset frees each block once and a
\* reload never runs on freed memory.
PointersLive ==
  /\ Pointers \ {NULL} \subseteq heap
  /\ g_stack # NULL => g_stack # g_tls
  /\ \A i \in ModIdx : mod_exec[i] # NULL =>
       /\ i < g_num_modules
       /\ mod_exec[i] \notin {g_stack, g_tls}
       /\ \A j \in ModIdx : mod_exec[j] = mod_exec[i] => i = j

\* When common_load_vmm has reported LOADED, and for as long as the VMM exists,
\* it has a stack, thread-local storage, an entry point, and every module and
\* the TLS is known to its memory manager; call_vmm never runs without them.
VmmComplete ==
  /\ g_vmm_status # "UNLOADED" =>
       /\ {mod_exec[i] : i \in LoadedIdx} \cup {g_tls} \subseteq mapped
       /\ g_num_modules > 0
  /\ g_vmm_status # "UNLOADED" \/ (\E t \in Threads : pc[t] \in CallLabels) =>
       start_sym /\ NULL \notin {g_stack, g_tls, mod_exec[0]}

\* g_num_cpus_started counts the CPUs that common_stop_vmm has to take down:
\* they are a prefix of the CPUs, all but the last of them really run the VMM,
\* and none runs it when the status is not RUNNING (or CORRUPT).  The one
\* exception is CPU 0 after a refused VMCALL_START: initialised, not counted.
CpuAccounting ==
  /\ \/ Started = 0 .. g_num_cpus_started - 1
     \/ g_num_cpus_started = 0 /\ Started = {0} /\ vcpu[0] = "init"
  /\ \A c \in Cpu : c < g_num_cpus_started - 1 => vcpu[c] = "on"
  /\ g_vmm_status \in {"UNLOADED", "LOADED"} =>
       Started \subseteq {0} /\ vcpu[0] \in {"off", "init"}
  /\ g_vmm_status = "RUNNING" /\ Quiet =>
       g_num_cpus_started > 0 /\ vcpu[g_num_cpus_started - 1] # "stopped"

\* VMCALL_START and VMCALL_STOP are issued on the CPU they are meant for, and
\* only where BF_REQUEST_VMM_INIT has put a VMM that can take the exit;
\* BF_REQUEST_VMM_FINI only reaches a CPU whose VMM has been stopped.
VmcallHasVmm ==
  \A t \in Threads :
    /\ pc[t] \in {"st_init", "st_vmcall", "sp_vmcall", "sp_fini"} =>
         affinity[t] = cpuid[t]
    /\ pc[t] = "st_vmcall" => vcpu[cpuid[t]] = "init"
    /\ pc[t] = "sp_vmcall" => vcpu[cpuid[t]] \in {"init", "on"}
    /\ pc[t] = "sp_fini"   => vcpu[cpuid[t]] = "stopped"

\* Nobody enters common.c while somebody else is inside.
OneAtATime == \A t, u \in Threads : pc[t] # "idle" /\ pc[u] # "idle" => t = u

\* What a thread may rely on at each label: the status the switch statements
\* have let through, and how the loop counter and g_num_cpus_started agree.
FlowOf(t) ==
  /\ pc[t] = "add_store" => g_num_modules < MAX_NUM_MODULES
  /\ pc[t] \in {"add_store", "ld_stack", "ld_tls", "ld_elf", "ld_init", "ld_md"} =>
       g_vmm_status = "UNLOADED"
  /\ pc[t] = "ld_md" => cpuid[t] \in 0 .. g_num_modules
  /\ pc[t] = "un_fini" => g_vmm_status = "LOADED"
  /\ pc[t] = "un_reset" =>
       g_vmm_status = "UNLOADED" \/ (g_vmm_status = "LOADED" /\ ~vmm_inited)
  /\ pc[t] \in {"st_loop", "st_init"} =>
       /\ cpuid[t] = g_num_cpus_started
       /\ \A c \in Cpu : c < cpuid[t] => vcpu[c] = "on"
       /\ g_vmm_status = IF cpuid[t] = 0 THEN "LOADED" ELSE "RUNNING"
  /\ pc[t] \in {"st_init", "st_vmcall", "sp_vmcall", "sp_fini"} =>
       cpuid[t] \in Cpu /\ affinity[t] = cpuid[t]
  /\ pc[t] = "st_vmcall" =>
       /\ cpuid[t] = g_num_cpus_started - 1
       /\ g_vmm_status = IF cpuid[t] = 0 THEN "LOADED" ELSE "RUNNING"
       /\ vcpu[cpuid[t]] = "init"
  /\ pc[t] \in {"sp_loop", "sp_vmcall", "sp_fini"} =>
       g_vmm_status = "RUNNING" /\ cpuid[t] = g_num_cpus_started - 1
  /\ pc[t] = "sp_fini" => vcpu[cpuid[t]] = "stopped"

\* CpuAccounting, CPU by CPU and in the middle of an operation too.
CpuInv ==
  /\ \A c \in Cpu : c < g_num_cpus_started - 1 => vcpu[c] = "on"
  /\ \A c \in Cpu : c = g_num_cpus_started - 1 =>
       /\ vcpu[c] # "off"
       /\ g_vmm_status \in {"UNLOADED", "LOADED"} => vcpu[c] = "init"
       /\ g_vmm_status = "RUNNING" /\ (\A t \in Threads : pc[t] # "sp_fini") =>
            vcpu[c] # "stopped"
  /\ \A c \in Cpu : c >= g_num_cpus_started =>
       \/ vcpu[c] = "off"
       \/ g_num_cpus_started = 0 /\ c = 0 /\ vcpu[c] = "init" /\ g_vmm_status # "RUNNING"
  /\ g_vmm_status \in {"UNLOADED", "LOADED"} => g_num_cpus_started <= 1
  /\ g_vmm_status = "RUNNING" /\ (\A t \in Threads : pc[t] # "sp_loop") =>
       g_num_cpus_started > 0

\* The inductive invariant of SerialSpec: CpuAccounting and VmcallHasVmm follow
\* from it.
SerialInv == TypeOK /\ OneAtATime /\ (\A t \in Threads : FlowOf(t)) /\ CpuInv

\* The tlsptr that call_vmm computes from the current CPU stays inside the
\* block setup_tls allocated (for a CPU count that does not change).
TlsInBounds ==
  \A t \in Threads : pc[t] \in CallLabels =>
    \A c \in CurrentCpus(t) : c < g_tls_size

\* What common_load_vmm has set up by the time it reaches a label.
LoadLabels == {"ld_stack", "ld_tls", "ld_elf", "ld_init", "ld_md"}
FixedCpus  == CpuCounts = {NumCpus}

LoadedSoFar(t) ==
  /\ pc[t] \in LoadLabels => g_num_modules > 0
  /\ pc[t] \in LoadLabels \ {"ld_stack"} => g_stack # NULL
  /\ pc[t] \in {"ld_elf", "ld_init", "ld_md"} =>
       g_tls # NULL /\ (FixedCpus => g_tls_size = NumCpus)
  /\ pc[t] \in {"ld_init", "ld_md"} =>
       start_sym /\ \A i \in LoadedIdx : mod_exec[i] # NULL
  /\ pc[t] = "ld_md" => \A i \in LoadedIdx : i < cpuid[t] => mod_exec[i] \in mapped
  /\ pc[t] = "du_call" => g_vmm_status # "UNLOADED"

\* What a VMM consists of, from LOADED on.
VmmInv ==
  g_vmm_status # "UNLOADED" =>
    /\ g_num_modules > 0 /\ start_sym
    /\ g_stack # NULL /\ g_tls # NULL /\ g_tls \in mapped
    /\ \A i \in LoadedIdx : mod_exec[i] # NULL /\ mod_exec[i] \in mapped
    /\ FixedCpus => g_tls_size = NumCpus

\* The inductive invariant of the memory, on top of SerialInv: PointersLive,
\* VmmComplete and TlsInBounds follow from the two.
MemoryInv == PointersLive /\ (\A t \in Threads : LoadedSoFar(t)) /\ VmmInv

\* Memory is given back only when no CPU runs the VMM that lives in it, and a
\* VMM that was loaded has acknowledged BF_REQUEST_FINI first.
FreedOnlyWhenDown ==
  [][heap \ heap' # {} =>
       /\ \A c \in Cpu : vcpu[c] \notin {"on", "stopped"}
       /\ g_vmm_status = "UNLOADED" \/ ~vmm_inited]_vars

\* One call at a time, a corrupt driver stays as it is: no call changes the
\* status, the modules, the memory, the count of CPUs or any CPU's VMM again,
\* and no clean-up still under way enters the VMM.  Only common_dump_vmm does:
\* it asks a corrupt VMM for its debug ring, through g_info and the thread
\* context, which are not among the variables here (module CallVmm has them).
CorruptIsFinal ==
  [][g_vmm_status = "CORRUPT" =>
       /\ UNCHANGED <<globals, world>>
       /\ \A t \in Threads : pc[t] \in EntryLabels => pc[t] = "du_call"]_vars

\* From LOADED to UNLOADED the set of modules and the memory of the VMM are fixed.
VmmFrozen ==
  [][g_vmm_status # "UNLOADED" /\ g_vmm_status' # "UNLOADED" =>
       UNCHANGED <<g_num_modules, mod_file, mod_exec, g_stack, g_tls, heap>>]_vars

\* Every call returns, whichever of its calls to the platform and the VMM fail.
EveryCallReturns == \A t \in Threads : pc[t] # "idle" ~> pc[t] = "idle"

\* An upper bound of the steps a call still takes: what is left of the code after
\* its label, with three steps for each CPU in the loops of start and stop and
\* one for each module in the loop of load.
Rank ==
  [idle |-> 0, add_store |-> 1, du_call |-> 1, fi_check |-> 1, add |-> 2, dump |-> 2,
   un_reset |-> 2, un_fini |-> 3, unload |-> 4, fi_loaded |-> 5,
   sp_fini |-> 7, sp_vmcall |-> 8, sp_loop |-> 9, stop |-> 7, fini |-> 8,
   st_vmcall |-> 6, st_init |-> 7, st_loop |-> 8, start |-> 9,
   ld_md |-> 5, ld_init |-> 6, ld_elf |-> 7, ld_tls |-> 8, ld_stack |-> 9, load |-> 10]

RoundsLeft(t) ==
  CASE pc[t] \in {"sp_fini", "sp_vmcall", "sp_loop"}    -> 3 * cpuid[t]
    [] pc[t] \in {"stop", "fini"}                       -> 3 * g_num_cpus_started
    [] pc[t] \in {"st_vmcall", "st_init", "st_loop"}    -> 6 * NumCpus - 3 * cpuid[t]
    [] pc[t] = "start"                                  -> 6 * NumCpus
    [] pc[t] = "ld_md"                                  -> MAX_NUM_MODULES - cpuid[t]
    [] pc[t] \in {"ld_init", "ld_elf", "ld_tls", "ld_stack", "load"} -> MAX_NUM_MODULES
    [] OTHER                                            -> 0

StepsLeft(t) == Rank[pc[t]] + RoundsLeft(t)

\* Every step a call takes brings it nearer to its end, also when the number of
\* CPUs changes under its loops and whichever clean-up a failure leads to: no
\* call takes more than StepsLeft at its entry.
CallsGetShorter ==
  [][\A t \in Threads : pc[t] # "idle" =>
       0 <= StepsLeft(t)' /\ StepsLeft(t)' < StepsLeft(t)]_vars

Empty == g_num_modules = 0 /\ Pointers = {NULL}

\* What common_<o> has brought about when it returns r.  A start that finds the
\* VMM running, if only on some CPUs after a refused stop, is a success too, and
\* so is a fini that could not stop it.
Outcome(o, r) ==
  /\ r = "SUCCESS" =>
       /\ o \in {"load", "stop"} => g_vmm_status = "LOADED"
       /\ o = "start" /\ FixedCpus => g_vmm_status = "RUNNING"
       /\ o = "unload" => g_vmm_status = "UNLOADED" /\ Empty
       /\ o = "fini" => g_vmm_status = "RUNNING" \/ (g_vmm_status = "UNLOADED" /\ Empty)
  /\ r # "SUCCESS" =>
       /\ o = "stop" => g_vmm_status # "LOADED"
       /\ o = "unload" => g_vmm_status \in {"RUNNING", "CORRUPT"}
       /\ o = "fini" => g_vmm_status = "CORRUPT"
       /\ o = "load" => g_vmm_status # "LOADED"
       /\ o = "load" /\ r \in {"OUT_OF_MEMORY", "ELF_ERROR"} => Empty
  /\ g_vmm_status = "CORRUPT" /\ o # "dump" => r # "SUCCESS"

\* A call that returns an error code has done what the code says, through all
\* the clean-ups whose own results are ignored; a start that went through its
\* loop to the end has the VMM on every CPU.
ResultsTrue ==
  [][\A t \in Threads : pc[t] # "idle" /\ pc'[t] = "idle" =>
       /\ Outcome(op[t], ret[t])'
       /\ pc[t] = "st_loop" /\ ret'[t] = "SUCCESS" /\ FixedCpus =>
            \A c \in Cpu : vcpu[c] = "on"]_vars

\* What callers see of the driver: VmmLifecycle, where a CPU is up from the
\* VMCALL_START it acknowledges to the VMCALL_STOP it acknowledges.
Lifecycle == INSTANCE VmmLifecycle
  WITH status <- g_vmm_status, up <- {c \in Cpu : vcpu[c] = "on"}
ImplementsLifecycle == Lifecycle!Spec

-----------------------------------------------------------------------------
(* What the documentation, the tests and the code's interface comments say *)
(* and the code does not do.                                               *)

\* test/test.cpp ends with verify_no_mem_leaks(): when nothing is loaded and no
\* module is registered, every allocation has been given back.
NoLeakWhenUnloaded ==
  Quiet /\ g_vmm_status = "UNLOADED" /\ g_num_modules = 0 => heap = {}

\* include/common.h on common_unload_vmm: the VMM cannot be unloaded unless it
\* is loaded but not running, so no CPU holds an initialised VMM when its
\* memory goes away.
UnloadedOnlyWhenStopped == [][heap \ heap' # {} => Started = {}]_vars

\* test/test_common_add_module.cpp: the module after the last that fits is
\* refused, so the array is never overrun.
ModulesFit == g_num_modules <= MAX_NUM_MODULES

=============================================================================
