-------------------------------- MODULE Uefi --------------------------------
(***************************************************************************)
(* arch/uefi: the driver entry as a UEFI application.  UefiMain prepares   *)
(* every processor, adds the modules that were linked into it, loads and   *)
(* starts the VMM with module Common and boots the operating system above  *)
(* it.  One thread, no unload: what is hard is that every firmware call    *)
(* may fail, that UefiMain looks at some results only, and that moving to  *)
(* another CPU (SwitchBSP) changes that CPU's registers.                   *)
(*                                                                         *)
(* Of a CPU the model keeps the two registers PrepareProcessor writes: the *)
(* global descriptor table (GDTR) and the task register (TR).  What        *)
(* SwitchBSP does to them is taken from arch/uefi/README.md: it exchanges  *)
(* the GDT of the two processors and TR is reset.                          *)
(***************************************************************************)
EXTENDS Common

CONSTANTS
  App,              \* the only thread
  BuiltIns,         \* how many modules modules.list may name
  Tables,           \* the pool AllocateRuntimeZeroPool takes tables from
  FW,               \* the GDT the firmware has set up
  FirmwareLimits,   \* the limits it may have
  TSS_END,          \* KGDT64_SYS_TSS + sizeof(KGDTENTRY64)
  TSS_SIZE          \* sizeof(KTSS64) * 2

ASSUME UefiAssumption ==
  /\ Threads = {App}
  /\ BuiltIns \subseteq Nat
  /\ FW \notin Tables /\ NULL \notin Tables
  /\ FirmwareLimits \subseteq Nat
  /\ TSS_END \in Nat \ {0} /\ TSS_SIZE \in Nat \ {0}

VARIABLES
  stage,       \* where UefiMain is
  i,           \* its loop counter
  status,      \* the status it will return
  built_in,    \* the number of modules linked in, never changes
  pool,        \* per table: its size (0: free) and the TSS its entry describes
  gdtr, tr,    \* per CPU
  new,         \* NewGdt, inside PrepareProcessor
  back,        \* where PrepareProcessor returns to
  \* history
  ignored,     \* the return to CPU 0 or the last PrepareProcessor failed
  miscounted   \* platform_num_cpus has answered 0

cpus    == <<gdtr, tr>>
tables  == <<pool, new, back>>
history == <<ignored, miscounted>>
main    == <<stage, i, status, built_in, tables, history>>
uvars   == <<vars, main, cpus>>

Free == [size |-> 0, tss |-> NULL]

UefiInit ==
  /\ InitDriver /\ affinity = [t \in Threads |-> 0]
  /\ stage = "locate" /\ i = 0 /\ status = "SUCCESS"
  /\ built_in \in BuiltIns
  /\ pool = [b \in Tables |-> Free]
  /\ \E l \in FirmwareLimits : gdtr = [c \in Cpu |-> [base |-> FW, limit |-> l]]
  /\ tr = [c \in Cpu |-> NULL]
  /\ new = NULL /\ back = "prepare"
  /\ ignored = FALSE /\ miscounted = FALSE

-----------------------------------------------------------------------------
(* The platform layer. *)

OnCpu == affinity[App]

\* SwitchBSP, whenever the thread has changed its CPU in this step.
SwitchTables ==
  LET old == affinity[App]
      cpu == affinity'[App]
  IN  /\ gdtr' = [gdtr EXCEPT ![cpu] = gdtr[old], ![old] = gdtr[cpu]]
      /\ tr' = IF cpu = old THEN tr ELSE [tr EXCEPT ![cpu] = NULL]

\* platform_set_affinity: nothing to do on the right CPU, otherwise WhoAmI,
\* EnableDisableAP and SwitchBSP may each fail and leave the thread where it is.
platform_set_affinity(c) ==
  /\ affinity' \in {affinity, [affinity EXCEPT ![App] = c]}
  /\ SwitchTables
  /\ UNCHANGED caller_affinity

\* SASSERT: goto Abort.
Abort(s) == stage' = "abort" /\ status' = s

-----------------------------------------------------------------------------
(* PrepareProcessor *)

\* AllocateRuntimeZeroPool: one free table is as good as another.
AllocatePool ==
  LET free == {b \in Tables : pool[b] = Free}
  IN  IF free = {} THEN {} ELSE {CHOOSE b \in free : TRUE}

Prepare(return) == stage' = "gdt" /\ back' = return

Larger(m, n) == IF m > n THEN m ELSE n

\* Mutant: the size of the firmware's table is not looked at.
NewGdtSizeFixed == TSS_END

NewGdtSize == Larger(gdtr[OnCpu].limit + 1, TSS_END)

\* Mutant: the loop over the CPUs does not advance.
PrepareReturnsHere(ok) ==
  /\ stage' = back /\ UNCHANGED i
  /\ ignored' = (ignored \/ (back = "start" /\ ~ok))
  /\ new' = NULL

\* PrepareProcessor returns; neither call in UefiMain looks at its status.
PrepareReturns(ok) ==
  /\ stage' = back
  /\ i' = IF back = "prepare" THEN i + 1 ELSE i
  /\ ignored' = (ignored \/ (back = "start" /\ ~ok))
  /\ new' = NULL

\* NewGdt is allocated and the current table copied into it, or there is no
\* memory for it.
AllocGdt ==
  /\ stage = "gdt"
  /\ \/ \E b \in AllocatePool :
          /\ pool' = [pool EXCEPT ![b] = [size |-> NewGdtSize, tss |-> NULL]]
          /\ new' = b
          /\ stage' = "tss" /\ UNCHANGED <<i, ignored>>
     \/ PrepareReturns(FALSE) /\ UNCHANGED pool
  /\ UNCHANGED <<vars, status, built_in, back, miscounted, cpus>>

\* The entry is filled in, lgdt and ltr.
LoadTable(t) ==
  /\ pool' = [pool EXCEPT ![t] = [size |-> TSS_SIZE, tss |-> NULL], ![new].tss = t]
  /\ gdtr' = [gdtr EXCEPT ![OnCpu] = [base |-> new, limit |-> TSS_END]]
  /\ tr' = [tr EXCEPT ![OnCpu] = t]

\* The TSS; without memory for it, NewGdt is given back.
AllocTss ==
  /\ stage = "tss"
  /\ \/ \E t \in AllocatePool :
          /\ LoadTable(t)
          /\ PrepareReturns(TRUE)
     \/ /\ pool' = [pool EXCEPT ![new] = Free]
        /\ PrepareReturns(FALSE) /\ UNCHANGED cpus
  /\ UNCHANGED <<vars, status, built_in, back, miscounted>>

-----------------------------------------------------------------------------
(* UefiMain *)

LocateProtocol ==
  /\ stage = "locate"
  /\ \/ stage' = "count" /\ UNCHANGED status
     \/ Abort("ERROR")
  /\ UNCHANGED <<vars, i, built_in, tables, history, cpus>>

CountProcessors ==
  /\ stage = "count"
  /\ \/ stage' = "prepare" /\ UNCHANGED status
     \/ Abort("ERROR")
  /\ UNCHANGED <<vars, i, built_in, tables, history, cpus>>

\* for each CPU: set_affinity, whose result is ignored, GetProcessorInfo,
\* PrepareProcessor.
PrepareLoop ==
  /\ stage = "prepare"
  /\ \/ /\ i < NumCpus
        /\ platform_set_affinity(i)
        /\ \/ Prepare("prepare") /\ UNCHANGED status
           \/ Abort("ERROR") /\ UNCHANGED back
        /\ UNCHANGED i
     \/ /\ i = NumCpus
        /\ stage' = "check" /\ i' = 0
        /\ UNCHANGED <<pinning, cpus, status, back>>
  /\ UNCHANGED <<globals, world, op, pc, arg, cpuid, ret, built_in, pool, new, history>>

\* The second loop only looks; then back to CPU 0, which may fail unnoticed.
CheckLoop ==
  /\ stage = "check"
  /\ \/ /\ i < NumCpus
        /\ platform_set_affinity(i)
        /\ \/ i' = i + 1 /\ UNCHANGED <<stage, status>>
           \/ Abort("ERROR") /\ UNCHANGED i
        /\ UNCHANGED ignored
     \/ /\ i = NumCpus
        /\ platform_set_affinity(0)
        /\ ignored' = (affinity'[App] # 0)
        /\ stage' = "key_add" /\ i' = 0 /\ UNCHANGED status
  /\ UNCHANGED <<globals, world, op, pc, arg, cpuid, ret, built_in, tables, miscounted>>

\* The operator presses a key.
GetKeystroke ==
  /\ \/ stage = "key_add"  /\ stage' = "add"
     \/ stage = "key_load" /\ stage' = "load"
     \/ stage = "key_boot" /\ stage' = "boot"
     \/ stage = "abort"    /\ stage' = "done"
  /\ UNCHANGED <<vars, i, status, built_in, tables, history, cpus>>

\* UefiMain calls common.c on the CPU it is on.
CallCommon(o, a, returns) ==
  /\ Enter(App, o, a)
  /\ stage' = returns
  /\ UNCHANGED <<pinning, i, status, built_in, tables, history, cpus>>

\* What the application takes for an error: ret < 0.  The codes of common.c and
\* of the ELF loader are negative; an error of the VMM, which common.c passes on
\* as it is, may be positive.
Negative(r) == r \notin {"SUCCESS", "VMM_POSITIVE"}

\* add_hypervisor_modules: up to the first error, which nobody looks at.
AddModules ==
  /\ At(App, "idle")
  /\ \/ /\ stage = "add" /\ i < built_in
        /\ \E f \in Files : CallCommon("add", f, "add_returns")
     \/ /\ \/ stage = "add" /\ i = built_in /\ stage' = "key_load" /\ UNCHANGED i
           \/ stage = "add_returns" /\ ~Negative(ret[App]) /\ stage' = "add" /\ i' = i + 1
           \/ stage = "add_returns" /\ Negative(ret[App]) /\ stage' = "key_load" /\ UNCHANGED i
        /\ UNCHANGED <<vars, status, built_in, tables, history, cpus>>

\* Mutant: the processor is not prepared again before the start.
LoadUnprepared ==
  /\ At(App, "idle")
  /\ \/ stage = "load" /\ CallCommon("load", NULL, "load_returns")
     \/ /\ stage = "load_returns"
        /\ stage' = IF Negative(ret[App]) THEN "abort" ELSE "start"
        /\ UNCHANGED <<vars, i, status, built_in, tables, history, cpus>>

\* common_load_vmm, then PrepareProcessor; an error does not reach status, and
\* one that is not negative goes on to the start of a VMM that is not loaded.
LoadVmm ==
  /\ At(App, "idle")
  /\ \/ stage = "load" /\ CallCommon("load", NULL, "load_returns")
     \/ /\ stage = "load_returns"
        /\ \/ ~Negative(ret[App]) /\ Prepare("start") /\ UNCHANGED status
           \/ Negative(ret[App]) /\ Abort(status) /\ UNCHANGED back
        /\ UNCHANGED <<vars, i, built_in, pool, new, history, cpus>>

StartVmm == At(App, "idle") /\ stage = "start" /\ CallCommon("start", NULL, "start_returns")

\* Mutant: a failed start is not an obstacle.
StartRegardless ==
  /\ At(App, "idle") /\ stage = "start_returns" /\ stage' = "key_boot"
  /\ UNCHANGED <<vars, i, status, built_in, tables, history, cpus>>

\* common_start_vmm has returned: an error that is not negative goes on to boot.
StartVmmReturns ==
  /\ At(App, "idle") /\ stage = "start_returns"
  /\ \/ ~Negative(ret[App]) /\ stage' = "key_boot" /\ UNCHANGED status
     \/ Negative(ret[App]) /\ Abort(status)
  /\ UNCHANGED <<vars, i, built_in, tables, history, cpus>>

\* GenerateFileDP finds the loader's path, or fails.  When LocateProtocol fails
\* inside it, the status tested is an older one and the call goes through an
\* uninitialised pointer: anything may follow.
GenerateFileDP(found) ==
  \/ found
  \/ Abort("ERROR")
  \/ stage' = "wild" /\ UNCHANGED status

\* LoadImage and StartImage of the operating system's loader.
BootOs ==
  /\ stage = "boot"
  /\ GenerateFileDP(\/ stage' = "os" /\ UNCHANGED status
                    \/ Abort("ERROR"))
  /\ UNCHANGED <<vars, i, built_in, tables, history, cpus>>

\* The operating system's loader gives up and StartImage returns.
OsReturns ==
  /\ stage = "os"
  /\ \E s \in {"SUCCESS", "ERROR"} : Abort(s)
  /\ UNCHANGED <<vars, i, built_in, tables, history, cpus>>

\* platform_num_cpus has answered 0 in this step.
Miscount ==
  \/ At(App, "ld_tls") /\ g_tls_size' = 0
  \/ At(App, "st_loop") /\ cpuid[App] < NumCpus /\ pc'[App] = "idle"

CommonStep ==
  /\ Step(App)
  /\ SwitchTables
  /\ miscounted' = (miscounted \/ Miscount)
  /\ UNCHANGED <<stage, i, status, built_in, tables, ignored>>

MainStep ==
  \/ AllocGdt \/ AllocTss
  \/ LocateProtocol \/ CountProcessors \/ PrepareLoop \/ CheckLoop
  \/ AddModules \/ LoadVmm \/ StartVmm \/ StartVmmReturns \/ BootOs

UefiNext == MainStep \/ CommonStep \/ GetKeystroke \/ OsReturns

\* The processor keeps executing; neither the operator nor the operating
\* system has to do anything.
UefiSpec == UefiInit /\ [][UefiNext]_uvars
FairUefiSpec == UefiSpec /\ WF_uvars(MainStep \/ CommonStep)

-----------------------------------------------------------------------------
(* Correctness. *)

Keys == {"key_add", "key_load", "key_boot", "abort"}

\* Every variable has its type; the application is always on some CPU.
UefiTypeOK ==
  /\ TypeOK /\ OnCpu \in Cpu
  /\ stage \in Keys \cup
       {"locate", "count", "prepare", "check", "gdt", "tss", "add", "load", "start",
        "add_returns", "load_returns", "start_returns", "boot", "os", "wild", "done"}
  /\ i \in Nat /\ status \in {"SUCCESS", "ERROR"}
  /\ pool \in [Tables -> [size : Nat, tss : Tables \cup {NULL}]]
  /\ gdtr \in [Cpu -> [base : Tables \cup {FW}, limit : Nat]]
  /\ tr \in [Cpu -> Tables \cup {NULL}]
  /\ new \in Tables \cup {NULL} /\ back \in {"prepare", "start"}

\* The operating system runs above a VMM on every CPU, whatever failed on the
\* way, with two exceptions: platform_num_cpus could not count the CPUs, or the
\* VMM answered common_start_vmm with a positive error, which UefiMain takes
\* for a success (ret still holds the result of common_start_vmm).  A positive
\* answer to common_load_vmm is no exception: it goes on to the start, which
\* refuses.
OsOnlyAboveVmm ==
  stage = "os" /\ ~miscounted /\ ret[App] # "VMM_POSITIVE" =>
    g_vmm_status = "RUNNING" /\ \A c \in Cpu : vcpu[c] = "on"

\* The VMM finds a valid task register on the first CPU it is started on,
\* although every change of CPU in between resets it: the tables UefiMain set
\* up last are those of CPU 0.
FirstCpuHasTask ==
  pc[App] \in {"st_init", "st_vmcall"} /\ cpuid[App] = 0 /\ ~ignored =>
    /\ tr[0] # NULL
    /\ pool[gdtr[0].base].tss = tr[0]

\* No CPU runs on a descriptor table or a task segment that was given back, no
\* two CPUs share one, the task register belongs to the table in use, copying
\* a table never overflows the new one, and its limit is at most one byte
\* beyond its memory.
TablesSound ==
  /\ \A c \in Cpu :
       /\ gdtr[c].base # FW =>
            /\ 0 < gdtr[c].limit /\ gdtr[c].limit <= pool[gdtr[c].base].size
            /\ \A d \in Cpu : gdtr[d].base = gdtr[c].base => c = d
       /\ tr[c] # NULL => pool[tr[c]].size = TSS_SIZE
  /\ tr[OnCpu] # NULL => gdtr[OnCpu].base # FW /\ pool[gdtr[OnCpu].base].tss = tr[OnCpu]
  /\ stage = "tss" => pool[new].size >= gdtr[OnCpu].limit + 1

\* Unless the CPUs could not be counted when the TLS was allocated, call_vmm
\* finds the slot of the CPU it runs on inside the TLS, wherever a failed
\* SwitchBSP has left the application.
TlsHasSlot ==
  pc[App] \in CallLabels /\ g_tls_size # 0 => OnCpu < g_tls_size

\* The application waits for the operator or has handed over the machine.
AtRest == stage \in Keys \cup {"os", "wild", "done"}

\* The application never hangs between two keystrokes: whatever fails, it gets
\* to the next one, to the operating system or to its end.
BootProceeds == ~AtRest ~> AtRest

\* An upper bound of the steps to the next rest: what a function of common.c
\* still takes, and what UefiMain does after it.  Preparing a CPU takes three
\* steps and a turn of the loop, adding a module up to five.
StartSteps == Rank["start"] + 6 * NumCpus + 1
PrepareSteps(n) == 4 * n + NumCpus + 2

BootStepsLeft ==
  CASE AtRest                                -> 0
    [] stage = "locate"                      -> PrepareSteps(NumCpus) + 2
    [] stage = "count"                       -> PrepareSteps(NumCpus) + 1
    [] stage = "prepare"                     -> PrepareSteps(NumCpus - i)
    [] stage = "gdt" /\ back = "prepare"     -> PrepareSteps(NumCpus - i) - 1
    [] stage = "tss" /\ back = "prepare"     -> PrepareSteps(NumCpus - i) - 2
    [] stage = "check"                       -> NumCpus - i + 1
    [] stage = "add"                         -> 5 * (built_in - i) + 1
    [] stage = "add_returns"                 -> 5 * (built_in - i) - 2 + StepsLeft(App)
    [] stage = "load"                        -> Rank["load"] + MAX_NUM_MODULES + StartSteps + 5
    [] stage = "load_returns"                -> StepsLeft(App) + StartSteps + 4
    [] stage = "gdt" /\ back = "start"       -> StartSteps + 3
    [] stage = "tss" /\ back = "start"       -> StartSteps + 2
    [] stage = "start"                       -> StartSteps + 1
    [] stage = "start_returns"               -> StepsLeft(App) + 1
    [] stage = "boot"                        -> 1

\* Every step brings the application nearer to the next rest, whatever the
\* firmware, the loader and the VMM answer: neither a failed change of CPU nor a
\* failed PrepareProcessor, whose results nobody looks at, repeats a turn.
BootGetsShorter ==
  [][~AtRest => 0 <= BootStepsLeft' /\ BootStepsLeft' < BootStepsLeft]_uvars

=============================================================================
