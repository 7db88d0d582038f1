----------------------------- MODULE UefiProofs -----------------------------
(***************************************************************************)
(* Proofs about Uefi.tla.  UefiMain is one thread, so a step inside        *)
(* common.c is a step of SerialSpec.  What is new is where UefiMain is     *)
(* when it calls common.c, and what the changes of CPU that common.c makes *)
(* do to the tables that PrepareProcessor has set up.                      *)
(***************************************************************************)
EXTENDS Uefi, CommonCallProofs

Preparing(b) == stage \in {"gdt", "tss"} /\ back = b

\* UefiMain has not yet called common_load_vmm.
BeforeLoad ==
  \/ stage \in {"locate", "count", "prepare", "check", "key_add", "add", "add_returns",
                "key_load", "load"}
  \/ Preparing("prepare")

AllOn == g_vmm_status = "RUNNING" /\ \A c \in Cpu : vcpu[c] = "on"

\* Which function of common.c UefiMain is in, and what it has left behind.
ControlInv ==
  /\ pc[App] # "idle" => stage \in {"add_returns", "load_returns", "start_returns"}
  /\ stage = "add_returns" => pc[App] \in {"add", "add_store", "idle"}
  /\ BeforeLoad => g_vmm_status = "UNLOADED"
  /\ stage = "load_returns" =>
       /\ op[App] = "load"
       /\ pc[App] \in LoadLabels \cup {"load", "unload", "un_reset", "idle"}
       /\ pc[App] # "idle" => g_vmm_status = "UNLOADED"
       /\ pc[App] \in {"unload", "un_reset"} => ret[App] # "SUCCESS"
       /\ pc[App] = "idle" => g_vmm_status \in {"UNLOADED", "LOADED"}
  /\ Preparing("start") \/ stage = "start" => g_vmm_status \in {"UNLOADED", "LOADED"}
  /\ stage = "start_returns" =>
       /\ op[App] = "start"
       /\ pc[App] \in {"start", "st_loop", "st_init", "st_vmcall",
                       "stop", "sp_loop", "sp_vmcall", "sp_fini", "idle"}
       /\ pc[App] = "start" => g_vmm_status \in {"UNLOADED", "LOADED"}
       /\ pc[App] \in {"stop", "sp_loop", "sp_vmcall", "sp_fini"} => ret[App] # "SUCCESS"
       /\ pc[App] = "idle" /\ ret[App] = "SUCCESS" => miscounted \/ AllOn
  /\ stage \in {"key_boot", "boot", "os"} =>
       miscounted \/ AllOn \/ ret[App] = "VMM_POSITIVE"

\* UefiMain has moved back to CPU 0 for good.
OnFirst ==
  \/ stage \in {"key_add", "add", "add_returns", "key_load", "load", "load_returns"}
  \/ Preparing("start")

\* CPU 0 is prepared and common_start_vmm has not left it yet.
FirstReady ==
  \/ stage = "start"
  \/ stage = "start_returns" /\ pc[App] = "start"
  \/ pc[App] = "st_loop" /\ cpuid[App] = 0

PinnedLabels == {"st_init", "st_vmcall", "sp_vmcall", "sp_fini"}

\* Where the application runs, and that the first CPU has its task register.
CpuOfApp ==
  /\ OnCpu \in Cpu
  /\ pc[App] \in PinnedLabels => caller_affinity[App] \in Cpu
  /\ ~ignored /\ OnFirst => OnCpu = 0
  /\ ~ignored /\ FirstReady => OnCpu = 0 /\ tr[0] # NULL
  /\ ~ignored /\ pc[App] \in {"st_init", "st_vmcall"} /\ cpuid[App] = 0 => tr[0] # NULL

\* TablesSound, CPU by CPU; the table in the making is nobody's yet.
TablesInv ==
  /\ \A c \in Cpu :
       /\ gdtr[c].base # FW =>
            /\ 0 < gdtr[c].limit /\ gdtr[c].limit <= pool[gdtr[c].base].size
            /\ \A d \in Cpu : gdtr[d].base = gdtr[c].base => c = d
       /\ tr[c] # NULL => pool[tr[c]].size = TSS_SIZE
  /\ tr[OnCpu] # NULL => gdtr[OnCpu].base # FW /\ pool[gdtr[OnCpu].base].tss = tr[OnCpu]
  /\ stage = "tss" =>
       /\ new \in Tables
       /\ pool[new].size >= gdtr[OnCpu].limit + 1 /\ pool[new].size >= TSS_END
       /\ \A c \in Cpu : gdtr[c].base # new /\ tr[c] # new

TlsSizeInv == g_tls_size \in CpuCounts \cup {0}

\* The inductive invariant of UefiSpec.
UefiInv ==
  /\ SerialInv /\ UefiTypeOK
  /\ ControlInv /\ CpuOfApp /\ TablesInv /\ TlsSizeInv

-----------------------------------------------------------------------------
(* The only thread and its CPU. *)

\* The driver's invariant survives what UefiMain does outside common.c: a move
\* to another CPU and the entry of a function.
LEMMA MovedKeeps ==
  ASSUME SerialInv, UNCHANGED <<globals, world, op, pc, arg, cpuid, ret>>, pc[App] = "idle",
         (affinity \in [Threads -> Cpu \cup {AnyCpu}])',
         (caller_affinity \in [Threads -> Cpu \cup {AnyCpu}])'
  PROVE  SerialInv'
  <1>1. \A u \in Threads : pc'[u] = "idle"
    BY UefiAssumption
  <1>2. TypeOK'
    BY DEF SerialInv, TypeOK, globals, world
  <1>3. OneAtATime' /\ \A u \in Threads : FlowOf(u)'
    BY <1>1 DEF OneAtATime, FlowOf
  <1>4. CpuInv'
    BY DEF SerialInv, CpuInv, globals, world
  <1> QED BY <1>2, <1>3, <1>4 DEF SerialInv

\* A step of common.c is a step of its serial specification.
LEMMA StepSerial ==
  ASSUME UefiInv, Step(App)
  PROVE  SerialInv'
  <1>1. App \in Threads
    BY UefiAssumption
  <1> QED BY <1>1, NextInv DEF UefiInv, SerialNext

\* The switch of the boot processor exchanges two tables and resets one TR.
LEMMA SwitchKeeps ==
  ASSUME UefiInv, SwitchTables, UNCHANGED pool, OnCpu' \in Cpu, stage' # "tss"
  PROVE  /\ TablesInv'
         /\ (gdtr \in [Cpu -> [base : Tables \cup {FW}, limit : Nat]])'
         /\ (tr \in [Cpu -> Tables \cup {NULL}])'
  <1>t. /\ gdtr \in [Cpu -> [base : Tables \cup {FW}, limit : Nat]]
        /\ tr \in [Cpu -> Tables \cup {NULL}] /\ TablesInv
        /\ affinity[App] \in Cpu /\ affinity'[App] \in Cpu
    BY DEF UefiInv, UefiTypeOK, CpuOfApp, OnCpu
  <1>1. CASE affinity'[App] = affinity[App]
    <2>1. gdtr' = gdtr /\ tr' = tr
      BY <1>t, <1>1 DEF SwitchTables
    <2> QED BY <1>t, <1>1, <2>1 DEF TablesInv, OnCpu
  <1>2. CASE affinity'[App] # affinity[App]
    <2>1. /\ gdtr'[affinity'[App]] = gdtr[affinity[App]]
          /\ gdtr'[affinity[App]] = gdtr[affinity'[App]]
          /\ \A c \in Cpu \ {affinity[App], affinity'[App]} : gdtr'[c] = gdtr[c]
          /\ gdtr' \in [Cpu -> [base : Tables \cup {FW}, limit : Nat]]
      BY <1>t, <1>2 DEF SwitchTables
    <2>2. /\ tr'[affinity'[App]] = NULL
          /\ \A c \in Cpu \ {affinity'[App]} : tr'[c] = tr[c]
          /\ tr' \in [Cpu -> Tables \cup {NULL}]
      BY <1>t, <1>2 DEF SwitchTables
    <2> DEFINE from(c) == IF c = affinity[App] THEN affinity'[App]
                          ELSE IF c = affinity'[App] THEN affinity[App] ELSE c
    <2>3. \A c \in Cpu : from(c) \in Cpu /\ gdtr'[c] = gdtr[from(c)]
      BY <1>t, <2>1
    <2>4. \A c, d \in Cpu : from(c) = from(d) => c = d
      BY <1>t
    <2>5. \A c \in Cpu :
            /\ gdtr'[c].base # FW =>
                 /\ 0 < gdtr'[c].limit /\ gdtr'[c].limit <= pool[gdtr'[c].base].size
                 /\ \A d \in Cpu : gdtr'[d].base = gdtr'[c].base => c = d
      <3> HIDE DEF from
      <3> QED BY <1>t, <2>3, <2>4 DEF TablesInv
    <2>6. \A c \in Cpu : tr'[c] # NULL => pool[tr'[c]].size = TSS_SIZE
      BY <1>t, <2>2 DEF TablesInv
    <2> QED BY <1>t, <2>1, <2>2, <2>5, <2>6 DEF TablesInv, OnCpu
  <1> QED BY <1>1, <1>2

-----------------------------------------------------------------------------
(* The steps of UefiMain outside common.c. *)

\* The application before LocateProtocol.
LEMMA UefiInitInv == UefiInit => UefiInv
  <1> SUFFICES ASSUME UefiInit PROVE UefiInv
    OBVIOUS
  <1> USE UefiAssumption, ConstantsAssumption
  <1>0. 0 \in Cpu /\ App \in Threads
    BY DEF Cpu
  <1>1. SerialInv
    BY <1>0, DriverInv DEF UefiInit
  <1>2. UefiTypeOK
    <2>1. OnCpu \in Cpu /\ TypeOK
      BY <1>0, <1>1 DEF UefiInit, OnCpu, SerialInv
    <2>2. PICK l \in FirmwareLimits : gdtr = [c \in Cpu |-> [base |-> FW, limit |-> l]]
      BY DEF UefiInit
    <2>3. gdtr \in [Cpu -> [base : Tables \cup {FW}, limit : Nat]]
      BY <2>2
    <2>4. /\ pool \in [Tables -> [size : Nat, tss : Tables \cup {NULL}]]
          /\ tr \in [Cpu -> Tables \cup {NULL}]
      BY DEF UefiInit, Free
    <2> QED BY <2>1, <2>3, <2>4 DEF UefiInit, UefiTypeOK
  <1>3. ControlInv
    BY <1>0 DEF UefiInit, InitDriver, ControlInv, BeforeLoad, Preparing
  <1>4. CpuOfApp
    BY <1>0, <1>2 DEF UefiInit, UefiTypeOK, InitDriver, CpuOfApp, OnFirst, FirstReady, Preparing,
                      PinnedLabels
  <1>5. TablesInv
    BY <1>0 DEF UefiInit, TablesInv, OnCpu
  <1>6. TlsSizeInv
    BY DEF UefiInit, InitDriver, TlsSizeInv
  <1> QED BY <1>1, <1>2, <1>3, <1>4, <1>5, <1>6 DEF UefiInv

UefiStages == Keys \cup
  {"locate", "count", "prepare", "check", "gdt", "tss", "add", "load", "start",
   "add_returns", "load_returns", "start_returns", "boot", "os", "wild", "done"}

\* common.c, the tables and the CPUs stay as they are: what is left to show is
\* that the new stage suits them.
LEMMA StageKeeps ==
  ASSUME UefiInv, UNCHANGED <<vars, pool, cpus>>, stage' \in UefiStages \ {"tss"},
         i' \in Nat, status' \in {"SUCCESS", "ERROR"},
         new' \in Tables \cup {NULL}, back' \in {"prepare", "start"},
         ControlInv', ignored => ignored',
         (~ignored /\ OnFirst)' => OnCpu = 0,
         (~ignored /\ FirstReady)' => OnCpu = 0 /\ tr[0] # NULL
  PROVE  UefiInv'
  <1>u. UNCHANGED <<globals, world, frames, op, pc, arg, cpuid, ret, affinity, caller_affinity>>
    BY DEF vars, frames, pinning
  <1>1. SerialInv'
    BY <1>u, NextInv DEF UefiInv
  <1>2. UefiTypeOK'
    BY <1>u, <1>1 DEF UefiInv, UefiTypeOK, SerialInv, OnCpu, cpus, UefiStages
  <1>3. CpuOfApp'
    BY <1>u DEF UefiInv, CpuOfApp, OnCpu, cpus
  <1>4. TablesInv'
    BY <1>u DEF UefiInv, TablesInv, OnCpu, cpus
  <1>5. TlsSizeInv'
    BY <1>u DEF UefiInv, TlsSizeInv, globals
  <1> QED BY <1>1, <1>2, <1>3, <1>4, <1>5 DEF UefiInv

\* Firmware calls, keystrokes and the operating system: the stage moves on or
\* the application aborts.
LEMMA FirmwareStep ==
  ASSUME UefiInv,
         LocateProtocol \/ CountProcessors \/ GetKeystroke \/ BootOs \/ OsReturns
  PROVE  UefiInv'
  <1>t. /\ ControlInv /\ CpuOfApp /\ i \in Nat /\ status \in {"SUCCESS", "ERROR"}
        /\ new \in Tables \cup {NULL} /\ back \in {"prepare", "start"}
    BY DEF UefiInv, UefiTypeOK
  <1>u. /\ UNCHANGED <<vars, pool, new, back, cpus, ignored, miscounted, i>>
        /\ status' \in {"SUCCESS", "ERROR"}
        /\ <<stage, stage'>> \in {<<"locate", "count">>, <<"count", "prepare">>,
             <<"key_add", "add">>, <<"key_load", "load">>, <<"key_boot", "boot">>,
             <<"boot", "os">>, <<"boot", "wild">>, <<"abort", "done">>}
           \/ (stage' = "abort" /\ stage \in {"locate", "count", "boot", "os"})
    BY <1>t DEF LocateProtocol, CountProcessors, GetKeystroke, BootOs, GenerateFileDP, OsReturns,
           Abort, main, tables, history
  <1>v. UNCHANGED <<globals, pc, op, ret, cpuid, vcpu, tr, affinity>> /\ pc[App] = "idle"
    BY <1>t, <1>u DEF vars, frames, world, cpus, ControlInv, pinning
  <1>1. stage' \in UefiStages \ {"tss"}
    BY <1>u DEF UefiStages, Keys
  <1>2. ControlInv'
    BY <1>t, <1>u, <1>v DEF ControlInv, BeforeLoad, Preparing, AllOn, globals
  <1>3. (~ignored /\ OnFirst)' => OnCpu = 0
    BY <1>t, <1>u, <1>v DEF CpuOfApp, OnFirst, Preparing
  <1>4. ~FirstReady'
    BY <1>t, <1>u, <1>v DEF FirstReady
  <1> QED BY <1>t, <1>u, <1>1, <1>2, <1>3, <1>4, StageKeeps

\* common_load_vmm and common_start_vmm have returned, or a module was added.
LEMMA ReturnStep ==
  ASSUME UefiInv, pc[App] = "idle", UNCHANGED <<vars, pool, new, cpus, ignored, miscounted>>,
         i' \in Nat, status' = status, back' \in {"prepare", "start"},
         \/ stage \in {"add", "add_returns"} /\ stage' \in {"add", "key_load"}
         \/ stage = "load_returns" /\ stage' = "gdt" /\ back' = "start"
         \/ stage = "load_returns" /\ stage' = "abort"
         \/ stage = "start_returns" /\ stage' = "abort"
         \/ stage = "start_returns" /\ ~Negative(ret[App]) /\ stage' = "key_boot"
  PROVE  UefiInv'
  <1>t. /\ ControlInv /\ CpuOfApp /\ status \in {"SUCCESS", "ERROR"}
        /\ new \in Tables \cup {NULL}
    BY DEF UefiInv, UefiTypeOK
  <1>v. UNCHANGED <<globals, pc, op, ret, cpuid, vcpu, tr, affinity>>
    BY DEF vars, frames, world, cpus, pinning
  <1>1. stage' \in UefiStages \ {"tss"}
    BY DEF UefiStages, Keys
  <1>2. ControlInv'
    BY <1>t, <1>v DEF ControlInv, BeforeLoad, Preparing, AllOn, Negative, globals
  <1>3. (~ignored /\ OnFirst)' => OnCpu = 0
    BY <1>t, <1>v DEF CpuOfApp, OnFirst, Preparing
  <1>4. ~FirstReady'
    BY <1>t, <1>v DEF FirstReady
  <1> QED BY <1>t, <1>1, <1>2, <1>3, <1>4, StageKeeps

\* UefiMain calls common.c.
LEMMA CallStepKeeps ==
  ASSUME UefiInv, NEW o \in Ops, NEW a \in Files \cup {NULL}, NEW returns \in UefiStages \ {"tss"},
         CallCommon(o, a, returns),
         \/ o = "add" /\ stage = "add" /\ returns = "add_returns"
         \/ o = "load" /\ stage = "load" /\ returns = "load_returns"
         \/ o = "start" /\ stage = "start" /\ returns = "start_returns"
  PROVE  UefiInv'
  <1>t. /\ SerialInv /\ UefiTypeOK /\ ControlInv /\ CpuOfApp /\ TypeOK /\ TablesInv /\ TlsSizeInv
        /\ App \in Threads
    BY UefiAssumption DEF UefiInv, SerialInv
  <1>u. /\ UNCHANGED <<globals, world, cpuid, ret, affinity, caller_affinity>>
        /\ pc[App] = "idle" /\ pc' = [pc EXCEPT ![App] = o] /\ op' = [op EXCEPT ![App] = o]
        /\ arg' = [arg EXCEPT ![App] = a] /\ stage' = returns
        /\ UNCHANGED <<i, status, built_in, tables, history, cpus>>
    BY DEF CallCommon, Enter, At, Goto, pinning
  <1>1. pc'[App] = o /\ op'[App] = o
    BY <1>t, <1>u DEF TypeOK
  <1>2. SerialInv'
    <2>1. \A u \in Threads : u = App
      BY UefiAssumption
    <2>2. TypeOK'
      BY <1>t, <1>u DEF TypeOK, Labels, globals, world
    <2>3. OneAtATime' /\ FlowOf(App)'
      BY <1>1, <2>1 DEF OneAtATime, FlowOf, Ops
    <2>4. CpuInv'
      BY <1>t, <1>u, <1>1, <2>1 DEF SerialInv, CpuInv, globals, world
    <2> QED BY <2>1, <2>2, <2>3, <2>4 DEF SerialInv
  <1>3. UefiTypeOK'
    BY <1>t, <1>u, <1>2 DEF UefiTypeOK, SerialInv, OnCpu, tables, cpus, UefiStages
  <1>4. ControlInv'
    BY <1>t, <1>u, <1>1 DEF ControlInv, BeforeLoad, Preparing, LoadLabels, globals
  <1>5. CpuOfApp'
    BY <1>t, <1>u, <1>1 DEF CpuOfApp, OnCpu, OnFirst, FirstReady, Preparing, PinnedLabels, Ops,
                            history, cpus
  <1>6. TablesInv' /\ TlsSizeInv'
    BY <1>t, <1>u DEF TablesInv, TlsSizeInv, OnCpu, tables, cpus, globals
  <1> QED BY <1>2, <1>3, <1>4, <1>5, <1>6 DEF UefiInv

\* add_hypervisor_modules, and the calls of UefiMain with what follows them.
LEMMA CallerStep ==
  ASSUME UefiInv, AddModules \/ LoadVmm \/ StartVmm \/ StartVmmReturns
  PROVE  UefiInv'
  <1>t. /\ i \in Nat /\ back \in {"prepare", "start"}
    BY DEF UefiInv, UefiTypeOK
  <1> USE DEF At, UefiStages, Ops, tables, history
  <1>1. CASE AddModules
    <2>1. CASE \E f \in Files : stage = "add" /\ CallCommon("add", f, "add_returns")
      BY <2>1, CallStepKeeps
    <2>2. CASE ~ \E f \in Files : stage = "add" /\ CallCommon("add", f, "add_returns")
      BY <1>t, <1>1, <2>2, ReturnStep DEF AddModules
    <2> QED BY <2>1, <2>2
  <1>2. CASE LoadVmm
    <2>1. CASE stage = "load" /\ CallCommon("load", NULL, "load_returns")
      BY <2>1, CallStepKeeps
    <2>2. CASE ~(stage = "load" /\ CallCommon("load", NULL, "load_returns"))
      BY <1>t, <1>2, <2>2, ReturnStep DEF LoadVmm, Prepare, Abort
    <2> QED BY <2>1, <2>2
  <1>3. CASE StartVmm
    BY <1>3, CallStepKeeps DEF StartVmm
  <1>4. CASE StartVmmReturns
    BY <1>t, <1>4, ReturnStep DEF StartVmmReturns, Abort
  <1> QED BY <1>1, <1>2, <1>3, <1>4

-----------------------------------------------------------------------------
(* PrepareProcessor and the changes of CPU. *)

\* PrepareProcessor returns to one of its two callers.
LEMMA PrepareReturnsKeeps ==
  ASSUME UefiInv, stage \in {"gdt", "tss"}, NEW ok \in BOOLEAN, PrepareReturns(ok),
         UNCHANGED <<vars, status, back, miscounted>>,
         ok => tr'[OnCpu] # NULL
  PROVE  /\ stage' \in UefiStages \ {"tss"} /\ i' \in Nat /\ new' = NULL
         /\ ControlInv'
         /\ (~ignored /\ OnFirst)' => OnCpu = 0
         /\ (~ignored /\ FirstReady)' => OnCpu = 0 /\ tr'[0] # NULL
         /\ ignored => ignored'
         /\ pc[App] = "idle" /\ pc'[App] = "idle"
  <1>t. ControlInv /\ CpuOfApp /\ i \in Nat /\ back \in {"prepare", "start"}
    BY DEF UefiInv, UefiTypeOK
  <1>u. /\ stage' = back /\ new' = NULL /\ i' = (IF back = "prepare" THEN i + 1 ELSE i)
        /\ ignored' = (ignored \/ (back = "start" /\ ~ok))
        /\ UNCHANGED <<globals, pc, op, ret, cpuid, vcpu, affinity>>
    BY DEF PrepareReturns, vars, frames, world, pinning
  <1>1. stage' \in UefiStages \ {"tss"} /\ i' \in Nat
    BY <1>t, <1>u DEF UefiStages
  <1>2. pc[App] = "idle" /\ pc'[App] = "idle"
    BY <1>t, <1>u DEF ControlInv
  <1>3. ControlInv'
    BY <1>t, <1>u, <1>2 DEF ControlInv, BeforeLoad, Preparing, AllOn, globals
  <1>4. (~ignored /\ OnFirst)' => OnCpu = 0
    BY <1>t, <1>u DEF OnFirst, Preparing
  <1>5. (~ignored /\ FirstReady)' => OnCpu = 0 /\ tr'[0] # NULL
    <2> SUFFICES ASSUME ~ignored', FirstReady' PROVE OnCpu = 0 /\ tr'[0] # NULL
      OBVIOUS
    <2>1. back = "start" /\ ok /\ ~ignored
      BY <1>t, <1>u, <1>2 DEF FirstReady
    <2>2. OnCpu = 0
      BY <1>t, <2>1 DEF CpuOfApp, OnFirst, Preparing
    <2> QED BY <2>1, <2>2
  <1> QED BY <1>u, <1>1, <1>2, <1>3, <1>4, <1>5

\* A new table is nobody's, is as large as the one it is copied from and has
\* room for the entry of the TSS.
LEMMA AllocGdtKeeps ==
  ASSUME UefiInv, AllocGdt
  PROVE  UefiInv'
  <1>t. /\ UefiTypeOK /\ SerialInv /\ ControlInv /\ CpuOfApp /\ TablesInv /\ TlsSizeInv
        /\ pool \in [Tables -> [size : Nat, tss : Tables \cup {NULL}]]
        /\ gdtr \in [Cpu -> [base : Tables \cup {FW}, limit : Nat]] /\ OnCpu \in Cpu
    BY DEF UefiInv, UefiTypeOK
  <1>u. UNCHANGED <<vars, status, built_in, back, miscounted, gdtr, tr>> /\ stage = "gdt"
    BY DEF AllocGdt, cpus
  <1>1. CASE PrepareReturns(FALSE) /\ UNCHANGED pool
    <2>1. /\ stage' \in UefiStages \ {"tss"} /\ i' \in Nat /\ new' = NULL
          /\ ControlInv'
          /\ (~ignored /\ OnFirst)' => OnCpu = 0
          /\ (~ignored /\ FirstReady)' => OnCpu = 0 /\ tr'[0] # NULL
          /\ ignored => ignored'
      BY <1>u, <1>1, PrepareReturnsKeeps
    <2>2. tr' = tr /\ UNCHANGED cpus
      BY <1>u DEF cpus
    <2>3. status' \in {"SUCCESS", "ERROR"} /\ back' \in {"prepare", "start"}
      BY <1>t, <1>u DEF UefiTypeOK
    <2> QED BY <1>u, <1>1, <2>1, <2>2, <2>3, StageKeeps
  <1>2. ASSUME NEW b \in AllocatePool, stage' = "tss", UNCHANGED <<i, ignored>>, new' = b,
               pool' = [pool EXCEPT ![b] = [size |-> NewGdtSize, tss |-> NULL]]
        PROVE  UefiInv'
    <2>1. b \in Tables /\ pool[b] = Free
      BY <1>2 DEF AllocatePool
    <2>2. /\ NewGdtSize \in Nat /\ NewGdtSize >= gdtr[OnCpu].limit + 1
          /\ NewGdtSize >= TSS_END
      BY <1>t, UefiAssumption DEF NewGdtSize, Larger
    <2>3. /\ pool'[b] = [size |-> NewGdtSize, tss |-> NULL]
          /\ \A d \in Tables \ {b} : pool'[d] = pool[d]
          /\ pool' \in [Tables -> [size : Nat, tss : Tables \cup {NULL}]]
      BY <1>t, <1>2, <2>1, <2>2
    <2>4. \A c \in Cpu : gdtr[c].base # b /\ tr[c] # b
      BY <1>t, <2>1, UefiAssumption DEF Free, TablesInv
    <2>5. SerialInv'
      BY <1>t, <1>u, NextInv
    <2>6. UefiTypeOK'
      BY <1>t, <1>u, <1>2, <2>1, <2>3, <2>5 DEF UefiTypeOK, SerialInv, OnCpu, vars, frames, pinning
    <2>7. ControlInv' /\ CpuOfApp'
      BY <1>t, <1>u, <1>2 DEF ControlInv, CpuOfApp, BeforeLoad, Preparing, OnFirst, FirstReady,
                   OnCpu, AllOn, vars, globals, world, frames, pinning
    <2>8. TablesInv'
      <3>1. \A c \in Cpu : gdtr[c].base # FW =>
              gdtr[c].base \in Tables \ {b} /\ pool'[gdtr[c].base] = pool[gdtr[c].base]
        BY <1>t, <2>3, <2>4
      <3>2. \A c \in Cpu : tr[c] # NULL =>
              tr[c] \in Tables \ {b} /\ pool'[tr[c]] = pool[tr[c]]
        BY <1>t, <2>3, <2>4 DEF UefiTypeOK
      <3>3. OnCpu' = OnCpu
        BY <1>u DEF OnCpu, vars, frames, pinning
      <3> QED BY <1>t, <1>u, <1>2, <2>1, <2>2, <2>3, <2>4, <3>1, <3>2, <3>3 DEF TablesInv
    <2>9. TlsSizeInv'
      BY <1>t, <1>u DEF TlsSizeInv, vars, globals
    <2> QED BY <2>5, <2>6, <2>7, <2>8, <2>9 DEF UefiInv
  <1> QED BY <1>1, <1>2 DEF AllocGdt

\* The new table and the TSS become this CPU's, or the table is given back.
LEMMA AllocTssKeeps ==
  ASSUME UefiInv, AllocTss
  PROVE  UefiInv'
  <1>t. /\ UefiTypeOK /\ SerialInv /\ ControlInv /\ CpuOfApp /\ TablesInv /\ TlsSizeInv
        /\ pool \in [Tables -> [size : Nat, tss : Tables \cup {NULL}]]
        /\ gdtr \in [Cpu -> [base : Tables \cup {FW}, limit : Nat]] /\ OnCpu \in Cpu
        /\ tr \in [Cpu -> Tables \cup {NULL}]
    BY DEF UefiInv, UefiTypeOK
  <1>u. UNCHANGED <<vars, status, built_in, back, miscounted>> /\ stage = "tss"
    BY DEF AllocTss
  <1>n. /\ new \in Tables
        /\ pool[new].size >= gdtr[OnCpu].limit + 1 /\ pool[new].size >= TSS_END
        /\ \A c \in Cpu : gdtr[c].base # new /\ tr[c] # new
    BY <1>t, <1>u DEF TablesInv
  <1>o. OnCpu' = OnCpu /\ SerialInv' /\ TlsSizeInv'
    BY <1>t, <1>u, NextInv DEF OnCpu, TlsSizeInv, vars, globals, frames, pinning
  <1>f. ASSUME NEW ok \in BOOLEAN, PrepareReturns(ok), ok => tr'[OnCpu] # NULL,
               \A c \in Cpu \ {OnCpu} : tr'[c] = tr[c], ~ok => tr' = tr,
               pool' \in [Tables -> [size : Nat, tss : Tables \cup {NULL}]],
               gdtr' \in [Cpu -> [base : Tables \cup {FW}, limit : Nat]],
               tr' \in [Cpu -> Tables \cup {NULL}], TablesInv'
        PROVE  UefiInv'
    <2>1. /\ stage' \in UefiStages \ {"tss"} /\ i' \in Nat /\ new' = NULL
          /\ ControlInv'
          /\ (~ignored /\ OnFirst)' => OnCpu = 0
          /\ (~ignored /\ FirstReady)' => OnCpu = 0 /\ tr'[0] # NULL
          /\ ignored => ignored'
          /\ pc[App] = "idle" /\ pc'[App] = "idle"
      BY <1>u, <1>f, PrepareReturnsKeeps
    <2>2. CpuOfApp'
      BY <1>t, <1>o, <2>1 DEF CpuOfApp, PinnedLabels
    <2>3. UefiTypeOK'
      BY <1>t, <1>u, <1>o, <1>f, <2>1 DEF UefiTypeOK, SerialInv, UefiStages
    <2> QED BY <1>o, <1>f, <2>1, <2>2, <2>3 DEF UefiInv
  <1>1. ASSUME pool' = [pool EXCEPT ![new] = Free], PrepareReturns(FALSE), UNCHANGED <<gdtr, tr>>
        PROVE  UefiInv'
    <2>1. pool' \in [Tables -> [size : Nat, tss : Tables \cup {NULL}]]
      BY <1>t, <1>1 DEF Free
    <2>2. \A d \in Tables \ {new} : pool'[d] = pool[d]
      BY <1>t, <1>1
    <2>3. TablesInv'
      <3>1. \A c \in Cpu : gdtr[c].base # FW => pool'[gdtr[c].base] = pool[gdtr[c].base]
        BY <1>t, <1>n, <2>2
      <3>2. \A c \in Cpu : tr[c] # NULL => pool'[tr[c]] = pool[tr[c]]
        BY <1>t, <1>n, <2>2
      <3>3. stage' # "tss"
        BY <1>t, <1>1 DEF PrepareReturns, UefiTypeOK
      <3> QED BY <1>t, <1>o, <1>1, <3>1, <3>2, <3>3 DEF TablesInv
    <2> QED BY <1>t, <1>1, <1>f, <2>1, <2>3
  <1>2. ASSUME NEW t \in AllocatePool, LoadTable(t), PrepareReturns(TRUE)
        PROVE  UefiInv'
    <2>1. t \in Tables /\ pool[t] = Free /\ t # new
      BY <1>t, <1>n, <1>2, UefiAssumption DEF AllocatePool, Free
    <2>2. \A c \in Cpu : gdtr[c].base # t /\ tr[c] # t
      BY <1>t, <2>1, UefiAssumption DEF Free, TablesInv
    <2>3. /\ pool'[t] = [size |-> TSS_SIZE, tss |-> NULL]
          /\ pool'[new].size = pool[new].size /\ pool'[new].tss = t
          /\ \A d \in Tables \ {t, new} : pool'[d] = pool[d]
          /\ pool' \in [Tables -> [size : Nat, tss : Tables \cup {NULL}]]
      BY <1>t, <1>n, <1>2, <2>1, UefiAssumption DEF LoadTable
    <2>4. /\ gdtr'[OnCpu] = [base |-> new, limit |-> TSS_END]
          /\ \A c \in Cpu \ {OnCpu} : gdtr'[c] = gdtr[c]
          /\ gdtr' \in [Cpu -> [base : Tables \cup {FW}, limit : Nat]]
      BY <1>t, <1>n, <1>2, UefiAssumption DEF LoadTable
    <2>5. /\ tr'[OnCpu] = t
          /\ \A c \in Cpu \ {OnCpu} : tr'[c] = tr[c]
          /\ tr' \in [Cpu -> Tables \cup {NULL}]
      BY <1>t, <1>2, <2>1 DEF LoadTable
    <2>6. TablesInv'
      <3>1. \A c \in Cpu : gdtr'[c].base # FW =>
              /\ 0 < gdtr'[c].limit /\ gdtr'[c].limit <= pool'[gdtr'[c].base].size
              /\ \A d \in Cpu : gdtr'[d].base = gdtr'[c].base => c = d
        <4> SUFFICES ASSUME NEW c \in Cpu, gdtr'[c].base # FW
                     PROVE  /\ 0 < gdtr'[c].limit /\ gdtr'[c].limit <= pool'[gdtr'[c].base].size
                            /\ \A d \in Cpu : gdtr'[d].base = gdtr'[c].base => c = d
          OBVIOUS
        <4>1. CASE c = OnCpu
          BY <1>n, <2>3, <2>4, <4>1, UefiAssumption
        <4>2. CASE c # OnCpu
          <5>1. gdtr[c].base \in Tables \ {t, new} /\ gdtr'[c] = gdtr[c]
            BY <1>t, <1>n, <2>2, <2>4, <4>2
          <5> QED BY <1>t, <1>n, <2>3, <2>4, <4>2, <5>1 DEF TablesInv
        <4> QED BY <4>1, <4>2
      <3>2. \A c \in Cpu : tr'[c] # NULL => pool'[tr'[c]].size = TSS_SIZE
        <4>1. \A c \in Cpu \ {OnCpu} : tr[c] # NULL => tr[c] \in Tables \ {t, new}
          BY <1>t, <1>n, <2>2
        <4> QED BY <1>t, <2>3, <2>5, <4>1 DEF TablesInv
      <3>3. gdtr'[OnCpu].base # FW /\ pool'[gdtr'[OnCpu].base].tss = tr'[OnCpu]
        BY <1>n, <2>3, <2>4, <2>5, UefiAssumption
      <3>4. stage' # "tss"
        BY <1>t, <1>2 DEF PrepareReturns, UefiTypeOK
      <3> QED BY <1>o, <3>1, <3>2, <3>3, <3>4 DEF TablesInv
    <2>7. tr'[OnCpu] # NULL
      BY <2>1, <2>5, UefiAssumption
    <2> QED BY <1>2, <1>f, <2>3, <2>4, <2>5, <2>6, <2>7
  <1> QED BY <1>1, <1>2 DEF AllocTss, cpus

\* UefiMain moves to a CPU, or fails to; common.c is idle.
LEMMA MoveKeeps ==
  ASSUME UefiInv, NEW c \in Cpu, platform_set_affinity(c), pc[App] = "idle",
         UNCHANGED <<globals, world, op, pc, arg, cpuid, ret, pool, new>>,
         stage' \in UefiStages \ {"tss"}, i' \in Nat, status' \in {"SUCCESS", "ERROR"},
         back' \in {"prepare", "start"}, ControlInv',
         (~ignored /\ OnFirst)' => OnCpu' = 0, ~FirstReady'
  PROVE  UefiInv'
  <1>t. /\ SerialInv /\ UefiTypeOK /\ CpuOfApp /\ TypeOK /\ OnCpu \in Cpu
        /\ affinity \in [Threads -> Cpu \cup {AnyCpu}] /\ App \in Threads
    BY UefiAssumption DEF UefiInv, UefiTypeOK, SerialInv, TypeOK
  <1>1. /\ affinity' \in [Threads -> Cpu \cup {AnyCpu}] /\ OnCpu' \in Cpu
        /\ caller_affinity' = caller_affinity
    BY <1>t DEF platform_set_affinity, OnCpu
  <1>2. SerialInv'
    BY <1>t, <1>1, MovedKeeps DEF TypeOK
  <1>3. /\ TablesInv'
        /\ (gdtr \in [Cpu -> [base : Tables \cup {FW}, limit : Nat]])'
        /\ (tr \in [Cpu -> Tables \cup {NULL}])'
    BY <1>1, SwitchKeeps DEF platform_set_affinity
  <1>4. UefiTypeOK'
    BY <1>t, <1>1, <1>2, <1>3 DEF UefiTypeOK, SerialInv, UefiStages
  <1>5. CpuOfApp'
    BY <1>1 DEF CpuOfApp, PinnedLabels
  <1>6. TlsSizeInv'
    BY DEF UefiInv, TlsSizeInv, globals
  <1> QED BY <1>2, <1>3, <1>4, <1>5, <1>6 DEF UefiInv

\* The two loops over the CPUs and the return to CPU 0.
LEMMA LoopStep ==
  ASSUME UefiInv, PrepareLoop \/ CheckLoop
  PROVE  UefiInv'
  <1>t. /\ ControlInv /\ CpuOfApp /\ i \in Nat /\ status \in {"SUCCESS", "ERROR"}
        /\ new \in Tables \cup {NULL} /\ back \in {"prepare", "start"}
        /\ stage \in {"prepare", "check"} /\ pc[App] = "idle"
    BY DEF UefiInv, UefiTypeOK, PrepareLoop, CheckLoop, ControlInv
  <1>u. /\ UNCHANGED <<globals, world, op, pc, arg, cpuid, ret, pool, new, miscounted>>
        /\ status' \in {"SUCCESS", "ERROR"} /\ i' \in Nat /\ back' \in {"prepare", "start"}
        /\ \/ stage' \in {"prepare", "check", "abort"}
           \/ stage' = "gdt" /\ back' = "prepare"
           \/ stage' = "key_add" /\ (~ignored' => OnCpu' = 0)
    <2>1. CASE PrepareLoop
      BY <1>t, <2>1 DEF PrepareLoop, Prepare, Abort, history
    <2>2. CASE CheckLoop
      <3>1. /\ UNCHANGED <<globals, world, op, pc, arg, cpuid, ret, pool, new, back, miscounted>>
            /\ status' \in {"SUCCESS", "ERROR"} /\ i' \in Nat
            /\ stage' \in {"check", "abort", "key_add"}
        BY <1>t, <2>2 DEF CheckLoop, Abort, tables
      <3>2. stage' = "key_add" => ignored' = (OnCpu' # 0)
        BY <2>2 DEF CheckLoop, Abort, OnCpu
      <3> QED BY <1>t, <3>1, <3>2
    <2> QED BY <2>1, <2>2
  <1>1. stage' \in UefiStages \ {"tss"}
    BY <1>u DEF UefiStages, Keys
  <1>2. ControlInv'
    BY <1>t, <1>u DEF ControlInv, BeforeLoad, Preparing, AllOn, globals
  <1>3. ((~ignored /\ OnFirst)' => OnCpu' = 0) /\ ~FirstReady'
    BY <1>t, <1>u DEF OnFirst, FirstReady, Preparing
  <1>4. CASE \E c \in Cpu : platform_set_affinity(c)
    BY <1>t, <1>u, <1>1, <1>2, <1>3, <1>4, MoveKeeps
  <1>5. CASE PrepareLoop /\ i = NumCpus /\ UNCHANGED <<pinning, cpus>>
    <2>1. UNCHANGED <<vars, pool, cpus, ignored>> /\ OnCpu' = OnCpu
      BY <1>u, <1>5 DEF PrepareLoop, vars, frames, pinning, OnCpu, history
    <2> QED BY <1>t, <1>u, <1>1, <1>2, <1>3, <2>1, StageKeeps
  <1>6. i \in Cpu \/ ~(i < NumCpus)
    BY <1>t, ConstantsAssumption DEF Cpu
  <1>7. 0 \in Cpu
    BY ConstantsAssumption DEF Cpu
  <1> QED BY <1>4, <1>5, <1>6, <1>7 DEF PrepareLoop, CheckLoop

-----------------------------------------------------------------------------
(* Inside common.c. *)

\* What a step of common.c leaves behind in the function UefiMain has called.
LEMMA ControlStep ==
  ASSUME UefiInv, CommonStep
  PROVE  ControlInv'
  <1>t. /\ ControlInv /\ SerialInv /\ TypeOK /\ FlowOf(App) /\ App \in Threads
        /\ pc \in [Threads -> Labels] /\ ret \in [Threads -> Codes] /\ op \in [Threads -> Ops]
    BY UefiAssumption DEF UefiInv, SerialInv, TypeOK
  <1>u. Step(App) /\ UNCHANGED <<stage, back>> /\ miscounted' = (miscounted \/ Miscount)
    BY DEF CommonStep, tables
  <1>0. pc[App] # "idle"
    BY <1>t, <1>u, OnlyOne
  <1>s. stage \in {"add_returns", "load_returns", "start_returns"}
    BY <1>t, <1>0 DEF ControlInv
  <1> USE DEF At, Goto, SetRet, Return, Failure, UnloadReturns, StopReturns, Keep
  <1>1. CASE stage = "add_returns"
    <2>1. pc[App] \in {"add", "add_store"} /\ g_vmm_status = "UNLOADED"
      BY <1>t, <1>0, <1>1 DEF ControlInv, BeforeLoad
    <2>2. CASE AddEnter(App) \/ AddStore(App)
      <3>1. pc'[App] \in {"add_store", "idle"} /\ g_vmm_status' = "UNLOADED"
        BY <1>t, <2>1, <2>2 DEF AddEnter, AddStore, globals
      <3> QED BY <1>1, <1>u, <3>1 DEF ControlInv, BeforeLoad, Preparing
    <2>3. AddEnter(App) \/ AddStore(App)
      BY <1>u, <2>1 DEF Step, LoadEnter, LoadStack, LoadTls, LoadElf, LoadInit, LoadMapModule,
           LoadMapTls, UnloadEnter, UnloadFini, UnloadReset, StartEnter, StartLoop, StartInit,
           StartVmcall, StopEnter, StopLoop, StopVmcall, StopFini, FiniEnter, FiniLoaded,
           FiniCheck, DumpEnter, DumpCall
    <2> QED BY <2>2, <2>3
  <1>2. CASE stage = "load_returns"
    <2> DEFINE After ==
          /\ op'[App] = "load"
          /\ pc'[App] \in LoadLabels \cup {"load", "unload", "un_reset", "idle"}
          /\ pc'[App] # "idle" => g_vmm_status' = "UNLOADED"
          /\ pc'[App] \in {"unload", "un_reset"} => ret'[App] # "SUCCESS"
          /\ pc'[App] = "idle" => g_vmm_status' \in {"UNLOADED", "LOADED"}
    <2> SUFFICES After
      BY <1>2, <1>u DEF ControlInv, BeforeLoad, Preparing
    <2>t. /\ op[App] = "load" /\ g_vmm_status = "UNLOADED"
          /\ pc[App] \in LoadLabels \cup {"load", "unload", "un_reset"}
          /\ pc[App] \in {"unload", "un_reset"} => ret[App] # "SUCCESS"
      BY <1>t, <1>0, <1>2 DEF ControlInv
    <2>1. CASE LoadEnter(App)
      BY <1>t, <2>t, <2>1 DEF LoadEnter, LoadLabels, globals
    <2>2. CASE LoadStack(App) \/ LoadTls(App) \/ LoadElf(App)
      BY <1>t, <2>t, <2>2 DEF LoadStack, LoadTls, LoadElf, LoadLabels
    <2>3. CASE LoadInit(App) \/ LoadMapModule(App)
      BY <1>t, <2>t, <2>3 DEF LoadInit, LoadMapModule, LoadLabels, globals
    <2>4. CASE LoadMapTls(App)
      BY <1>t, <2>t, <2>4 DEF LoadMapTls, LoadLabels
    <2>5. CASE UnloadEnter(App) \/ UnloadReset(App)
      BY <1>t, <2>t, <2>5 DEF UnloadEnter, UnloadReset, LoadLabels, globals, common_reset
    <2>6. \/ LoadEnter(App) \/ LoadStack(App) \/ LoadTls(App) \/ LoadElf(App) \/ LoadInit(App)
          \/ LoadMapModule(App) \/ LoadMapTls(App) \/ UnloadEnter(App) \/ UnloadReset(App)
      BY <1>u, <2>t DEF Step, LoadLabels, AddEnter, AddStore, UnloadFini, StartEnter, StartLoop,
           StartInit, StartVmcall, StopEnter, StopLoop, StopVmcall, StopFini, FiniEnter,
           FiniLoaded, FiniCheck, DumpEnter, DumpCall
    <2> QED BY <2>1, <2>2, <2>3, <2>4, <2>5, <2>6
  <1>3. CASE stage = "start_returns"
    <2> DEFINE After ==
          /\ op'[App] = "start"
          /\ pc'[App] \in {"st_loop", "st_init", "st_vmcall",
                           "stop", "sp_loop", "sp_vmcall", "sp_fini", "idle"}
          /\ pc'[App] \in {"stop", "sp_loop", "sp_vmcall", "sp_fini"} => ret'[App] # "SUCCESS"
          /\ pc'[App] = "idle" /\ ret'[App] = "SUCCESS" => miscounted' \/ AllOn'
    <2> SUFFICES After
      BY <1>3, <1>u DEF ControlInv, BeforeLoad, Preparing
    <2>t. /\ op[App] = "start"
          /\ pc[App] \in {"start", "st_loop", "st_init", "st_vmcall",
                          "stop", "sp_loop", "sp_vmcall", "sp_fini"}
          /\ pc[App] = "start" => g_vmm_status \in {"UNLOADED", "LOADED"}
          /\ pc[App] \in {"stop", "sp_loop", "sp_vmcall", "sp_fini"} => ret[App] # "SUCCESS"
      BY <1>t, <1>0, <1>3 DEF ControlInv
    <2>1. CASE StartEnter(App)
      BY <1>t, <2>t, <2>1 DEF StartEnter
    <2>2. CASE StartLoop(App)
      <3>1. CASE pc'[App] = "idle"
        <4>1. Return(App, "SUCCESS") /\ UNCHANGED <<g_vmm_status, vcpu>> /\ op'[App] = "start"
          BY <1>t, <2>t, <2>2, <3>1 DEF StartLoop, globals, world
        <4>2. CASE cpuid[App] < NumCpus
          <5>1. miscounted'
            BY <1>u, <2>2, <3>1, <4>2 DEF Miscount, StartLoop
          <5> QED BY <3>1, <4>1, <5>1
        <4>3. CASE ~(cpuid[App] < NumCpus)
          <5>1. cpuid[App] = g_num_cpus_started /\ \A c \in Cpu : c < cpuid[App] => vcpu[c] = "on"
            BY <1>t, <2>2 DEF StartLoop, FlowOf
          <5>2. cpuid[App] = NumCpus
            BY <1>t, <4>3, <5>1, ConstantsAssumption DEF TypeOK
          <5>3. g_vmm_status = "RUNNING"
            BY <1>t, <2>2, <5>2, ConstantsAssumption DEF StartLoop, FlowOf
          <5>4. AllOn'
            BY <4>1, <5>1, <5>2, <5>3, ConstantsAssumption DEF AllOn, Cpu
          <5> QED BY <3>1, <4>1, <5>4
        <4> QED BY <4>2, <4>3
      <3>2. CASE pc'[App] # "idle"
        BY <1>t, <2>t, <2>2, <3>2 DEF StartLoop
      <3> QED BY <3>1, <3>2
    <2>3. CASE StartInit(App) \/ StartVmcall(App)
      BY <1>t, <2>t, <2>3 DEF StartInit, StartVmcall
    <2>4. CASE StopEnter(App) \/ StopLoop(App)
      BY <1>t, <2>t, <2>4 DEF StopEnter, StopLoop
    <2>5. CASE StopVmcall(App) \/ StopFini(App)
      BY <1>t, <2>t, <2>5 DEF StopVmcall, StopFini
    <2>6. \/ StartEnter(App) \/ StartLoop(App) \/ StartInit(App) \/ StartVmcall(App)
          \/ StopEnter(App) \/ StopLoop(App) \/ StopVmcall(App) \/ StopFini(App)
      BY <1>u, <2>t DEF Step, AddEnter, AddStore, LoadEnter, LoadStack, LoadTls, LoadElf, LoadInit,
           LoadMapModule, LoadMapTls, UnloadEnter, UnloadFini, UnloadReset, FiniEnter,
           FiniLoaded, FiniCheck, DumpEnter, DumpCall
    <2> QED BY <2>1, <2>2, <2>3, <2>4, <2>5, <2>6
  <1> QED BY <1>s, <1>1, <1>2, <1>3

\* Only the loops of start and stop change the CPU, and where they come back to
\* is a CPU; what happens before the first call on CPU 0 does not leave it.
LEMMA CpuOfStep ==
  ASSUME UefiInv, CommonStep
  PROVE  CpuOfApp'
  <1>t. /\ ControlInv /\ SerialInv /\ CpuOfApp /\ FlowOf(App) /\ App \in Threads
        /\ pc \in [Threads -> Labels] /\ cpuid \in [Threads -> Int]
        /\ affinity \in [Threads -> Cpu \cup {AnyCpu}]
        /\ caller_affinity \in [Threads -> Cpu \cup {AnyCpu}]
        /\ affinity[App] \in Cpu
    BY UefiAssumption DEF UefiInv, SerialInv, TypeOK, CpuOfApp, OnCpu
  <1>u. Step(App) /\ SwitchTables /\ UNCHANGED <<stage, back, ignored>>
    BY DEF CommonStep, tables
  <1>f. FlowOf(App)'
    BY <1>t, <1>u, StepSerial DEF SerialInv
  <1>tr. OnCpu' = OnCpu => tr' = tr
    BY <1>u DEF SwitchTables, OnCpu
  <1> USE DEF At, Goto, SetRet, Return, Failure, UnloadReturns, StopReturns, Keep
  <1>1. \/ UNCHANGED pinning
        \/ StartLoop(App) \/ StartVmcall(App) \/ StopLoop(App) \/ StopFini(App)
    BY <1>u DEF Step, AddEnter, AddStore, LoadEnter, LoadStack, LoadTls, LoadElf, LoadInit,
         LoadMapModule, LoadMapTls, UnloadEnter, UnloadFini, UnloadReset, StartEnter, StartInit,
         StopEnter, StopVmcall, FiniEnter, FiniLoaded, FiniCheck, DumpEnter, DumpCall
  <1>2. pc'[App] \in PinnedLabels =>
          \/ StartLoop(App) \/ StopLoop(App)
          \/ (StartInit(App) \/ StopVmcall(App)) /\ UNCHANGED pinning /\ pc[App] \in PinnedLabels
             /\ cpuid' = cpuid /\ (pc'[App] = "st_vmcall" => pc[App] = "st_init")
    BY <1>t, <1>u DEF Step, PinnedLabels, AddEnter, AddStore, LoadEnter, LoadStack, LoadTls,
         LoadElf, LoadInit, LoadMapModule, LoadMapTls, UnloadEnter, UnloadFini, UnloadReset,
         StartEnter, StartInit, StartVmcall, StopEnter, StopVmcall, StopFini, FiniEnter, FiniLoaded,
         FiniCheck, DumpEnter, DumpCall
  <1>3. pc'[App] # "start"
    BY <1>t, <1>u DEF Step, AddEnter, AddStore, LoadEnter, LoadStack, LoadTls, LoadElf, LoadInit,
         LoadMapModule, LoadMapTls, UnloadEnter, UnloadFini, UnloadReset, StartEnter, StartLoop,
         StartInit, StartVmcall, StopEnter, StopLoop, StopVmcall, StopFini, FiniEnter, FiniLoaded,
         FiniCheck, DumpEnter, DumpCall
  <1>4. pc'[App] = "st_loop" => StartEnter(App) \/ StartVmcall(App)
    BY <1>t, <1>u DEF Step, AddEnter, AddStore, LoadEnter, LoadStack, LoadTls, LoadElf, LoadInit,
         LoadMapModule, LoadMapTls, UnloadEnter, UnloadFini, UnloadReset, StartLoop,
         StartInit, StopEnter, StopLoop, StopVmcall, StopFini, FiniEnter, FiniLoaded,
         FiniCheck, DumpEnter, DumpCall
  <1>5. ASSUME StartLoop(App) \/ StopLoop(App)
        PROVE  \/ UNCHANGED pinning /\ pc'[App] \notin PinnedLabels
               \/ /\ affinity'[App] = cpuid[App] /\ affinity'[App] \in Cpu
                  /\ caller_affinity'[App] = affinity[App] /\ cpuid'[App] = cpuid[App]
    <2>1. CASE pc'[App] \in {"st_init", "sp_vmcall"}
      BY <1>t, <1>f, <1>5, <2>1 DEF StartLoop, StopLoop, Pin, FlowOf
    <2>2. CASE pc'[App] \notin {"st_init", "sp_vmcall"}
      BY <1>t, <1>5, <2>2 DEF StartLoop, StopLoop, PinnedLabels
    <2> QED BY <2>1, <2>2
  <1>6. ASSUME StartVmcall(App) \/ StopFini(App)
        PROVE  affinity'[App] \in Cpu /\ pc'[App] \notin PinnedLabels
    <2>1. pc[App] \in PinnedLabels /\ pc'[App] \notin PinnedLabels
      BY <1>t, <1>6 DEF StartVmcall, StopFini, PinnedLabels
    <2>2. caller_affinity[App] \in Cpu
      BY <1>t, <2>1 DEF CpuOfApp
    <2>3. UNCHANGED pinning \/ Restore(App)
      BY <1>6 DEF StartVmcall, StopFini
    <2> QED BY <1>t, <2>1, <2>2, <2>3 DEF Restore, pinning
  <1>7. OnCpu' \in Cpu
    BY <1>t, <1>1, <1>5, <1>6 DEF OnCpu, pinning
  <1>8. pc'[App] \in PinnedLabels => caller_affinity'[App] \in Cpu
    BY <1>t, <1>2, <1>5 DEF CpuOfApp, pinning
  <1>9. (~ignored /\ OnFirst)' => OnCpu' = 0
    <2> SUFFICES ASSUME ~ignored, OnFirst' PROVE OnCpu' = 0
      BY <1>u
    <2>1. OnCpu = 0 /\ stage \notin {"start_returns"}
      BY <1>t, <1>u DEF CpuOfApp, OnFirst, Preparing
    <2>2. pc[App] \notin {"st_loop", "st_vmcall", "sp_loop", "sp_fini"}
      BY <1>t, <2>1 DEF ControlInv, LoadLabels
    <2>3. UNCHANGED pinning
      BY <1>1, <2>2 DEF StartLoop, StartVmcall, StopLoop, StopFini
    <2> QED BY <2>1, <2>3 DEF OnCpu, pinning
  <1>10. (~ignored /\ FirstReady)' => OnCpu' = 0 /\ tr'[0] # NULL
    <2> SUFFICES ASSUME ~ignored, FirstReady' PROVE OnCpu' = 0 /\ tr'[0] # NULL
      BY <1>u
    <2>1. pc[App] # "idle" /\ stage # "start"
      BY <1>t, <1>u, OnlyOne DEF ControlInv
    <2>2. pc'[App] = "st_loop" /\ cpuid'[App] = 0
      BY <1>u, <1>3, <2>1 DEF FirstReady
    <2>3. ~StartVmcall(App)
      BY <1>t, <2>2, ConstantsAssumption DEF StartVmcall, FlowOf, Cpu
    <2>4. StartEnter(App) /\ pc[App] = "start" /\ UNCHANGED pinning
      BY <1>4, <2>2, <2>3 DEF StartEnter
    <2>5. stage = "start_returns"
      BY <1>t, <2>4 DEF ControlInv, LoadLabels
    <2> QED BY <1>t, <1>tr, <2>4, <2>5 DEF CpuOfApp, FirstReady, OnCpu, pinning
  <1>11. (~ignored)' /\ pc'[App] \in {"st_init", "st_vmcall"} /\ cpuid'[App] = 0 => tr'[0] # NULL
    <2> SUFFICES ASSUME ~ignored, pc'[App] \in {"st_init", "st_vmcall"}, cpuid'[App] = 0
                 PROVE  tr'[0] # NULL
      BY <1>u
    <2>1. CASE StartLoop(App)
      <3>1. FirstReady /\ affinity'[App] = 0
        BY <1>5, <2>1 DEF PinnedLabels, FirstReady, StartLoop
      <3> QED BY <1>t, <1>tr, <3>1 DEF CpuOfApp, OnCpu
    <2>2. CASE ~StartLoop(App)
      <3>1. UNCHANGED pinning /\ pc[App] = "st_init" /\ cpuid[App] = 0
        BY <1>t, <1>2, <2>2 DEF PinnedLabels, StopLoop, StopVmcall, StartInit, StopReturns
      <3> QED BY <1>t, <1>tr, <3>1 DEF CpuOfApp, OnCpu, pinning
    <2> QED BY <2>1, <2>2
  <1> QED BY <1>7, <1>8, <1>9, <1>10, <1>11 DEF CpuOfApp

\* A step of common.c, with what its change of CPU does to the tables.
LEMMA CommonKeeps ==
  ASSUME UefiInv, CommonStep
  PROVE  UefiInv'
  <1>u. Step(App) /\ SwitchTables /\ UNCHANGED <<stage, i, status, pool, new, back>>
    BY DEF CommonStep, tables
  <1>1. SerialInv' /\ ControlInv' /\ CpuOfApp'
    BY <1>u, StepSerial, ControlStep, CpuOfStep
  <1>2. stage # "tss"
    BY <1>u, OnlyOne, UefiAssumption DEF UefiInv, ControlInv
  <1>3. /\ TablesInv'
        /\ (gdtr \in [Cpu -> [base : Tables \cup {FW}, limit : Nat]])'
        /\ (tr \in [Cpu -> Tables \cup {NULL}])'
    BY <1>u, <1>1, <1>2, SwitchKeeps DEF CpuOfApp
  <1>4. UefiTypeOK'
    BY <1>u, <1>1, <1>3 DEF UefiInv, UefiTypeOK, SerialInv, CpuOfApp
  <1>5. TlsSizeInv'
    <2>1. g_tls_size' = g_tls_size \/ LoadTls(App)
      BY <1>u DEF Step, AddEnter, AddStore, LoadEnter, LoadStack, LoadElf, LoadInit,
         LoadMapModule, LoadMapTls, UnloadEnter, UnloadFini, UnloadReset, StartEnter, StartLoop,
         StartInit, StartVmcall, StopEnter, StopLoop, StopVmcall, StopFini, CpuStopped, FiniEnter,
         FiniLoaded, FiniCheck, DumpEnter, DumpCall, globals, common_reset
    <2> QED BY <2>1 DEF UefiInv, TlsSizeInv, LoadTls, TlsSlots
  <1> QED BY <1>1, <1>3, <1>4, <1>5 DEF UefiInv

-----------------------------------------------------------------------------
(* The theorems. *)

\* Every step of the application keeps the invariant.
LEMMA UefiNextInv == UefiInv /\ [UefiNext]_uvars => UefiInv'
  <1> SUFFICES ASSUME UefiInv, [UefiNext]_uvars PROVE UefiInv'
    OBVIOUS
  <1>1. CASE UNCHANGED uvars
    <2>1. UNCHANGED <<vars, stage, i, status, pool, new, back, ignored, miscounted, gdtr, tr>>
      BY <1>1 DEF uvars, main, tables, history, cpus
    <2>2. UNCHANGED <<globals, pc, op, ret, cpuid, affinity, caller_affinity, vcpu>>
      BY <2>1 DEF vars, frames, world, pinning
    <2>3. SerialInv'
      BY <2>1, NextInv DEF UefiInv
    <2>4. UefiTypeOK'
      BY <2>1, <2>2, <2>3 DEF UefiInv, UefiTypeOK, SerialInv, OnCpu
    <2>5. ControlInv'
      BY <2>1, <2>2 DEF UefiInv, ControlInv, BeforeLoad, Preparing, AllOn, globals
    <2>6. CpuOfApp'
      BY <2>1, <2>2 DEF UefiInv, CpuOfApp, OnCpu, OnFirst, FirstReady, Preparing
    <2>7. TablesInv' /\ TlsSizeInv'
      BY <2>1, <2>2 DEF UefiInv, TablesInv, TlsSizeInv, OnCpu, globals
    <2> QED BY <2>3, <2>4, <2>5, <2>6, <2>7 DEF UefiInv
  <1>2. CASE UefiNext
    BY <1>2, FirmwareStep, CallerStep, AllocGdtKeeps, AllocTssKeeps, LoopStep, CommonKeeps
       DEF UefiNext, MainStep
  <1> QED BY <1>1, <1>2

\* Whatever fails on the way from LocateProtocol to the operating system,
\* UefiMain, common.c and the tables agree about where they are.
THEOREM UefiInvariant == UefiSpec => []UefiInv
  BY UefiInitInv, UefiNextInv, PTL DEF UefiSpec

\* Every variable has its type; the application is always on some CPU.
THEOREM UefiTypeCorrect == UefiSpec => []UefiTypeOK
  <1>1. UefiInv => UefiTypeOK
    BY DEF UefiInv
  <1> QED BY <1>1, UefiInvariant, PTL

\* UefiMain boots the operating system only above a VMM that runs on every CPU,
\* although it ignores some of the results on its way: a CPU count of 0 and a
\* positive error of the VMM from common_start_vmm are the only ones it takes
\* for more than they are.
THEOREM OsAlwaysAboveVmm == UefiSpec => []OsOnlyAboveVmm
  <1>1. UefiInv => OsOnlyAboveVmm
    BY DEF UefiInv, ControlInv, OsOnlyAboveVmm, AllOn
  <1> QED BY <1>1, UefiInvariant, PTL

\* The VMM finds the task register of CPU 0 that PrepareProcessor has set up.
THEOREM FirstCpuAlwaysHasTask == UefiSpec => []FirstCpuHasTask
  <1>1. UefiInv => FirstCpuHasTask
    <2> SUFFICES ASSUME UefiInv, pc[App] \in {"st_init", "st_vmcall"}, cpuid[App] = 0, ~ignored
                 PROVE  tr[0] # NULL /\ pool[gdtr[0].base].tss = tr[0]
      BY DEF FirstCpuHasTask
    <2>1. OnCpu = 0
      BY UefiAssumption DEF UefiInv, SerialInv, FlowOf, OnCpu
    <2>2. tr[0] # NULL
      BY DEF UefiInv, CpuOfApp
    <2> QED BY <2>1, <2>2 DEF UefiInv, TablesInv
  <1> QED BY <1>1, UefiInvariant, PTL

\* However often SwitchBSP exchanges the tables, no CPU runs on a table that
\* PrepareProcessor has given back, and no two CPUs share one.
THEOREM TablesAlwaysSound == UefiSpec => []TablesSound
  <1>1. UefiInv => TablesSound
    BY DEF UefiInv, TablesInv, TablesSound
  <1> QED BY <1>1, UefiInvariant, PTL

\* call_vmm finds the slot of its CPU in the TLS, if platform_num_cpus counts
\* all CPUs or none.
THEOREM TlsAlwaysHasSlot == UefiSpec => [](CpuCounts \subseteq {0, NumCpus} => TlsHasSlot)
  <1>1. UefiInv => (CpuCounts \subseteq {0, NumCpus} => TlsHasSlot)
    BY ConstantsAssumption DEF UefiInv, TlsSizeInv, TlsHasSlot, CpuOfApp, Cpu
  <1> QED BY <1>1, UefiInvariant, PTL

-----------------------------------------------------------------------------
(* The application implements VmmLifecycle.tla. *)

\* Above the application too, common.c shows the life of a VMM: UefiMain only
\* calls its functions one after the other.
THEOREM UefiLifecycle == UefiSpec => ImplementsLifecycle
  <1>1. UefiInit => Lifecycle!Init
    BY DEF UefiInit, InitDriver, Lifecycle!Init
  <1>2. UefiInv /\ [UefiNext]_uvars => [Lifecycle!Next]_(Lifecycle!lvars)
    <2> SUFFICES ASSUME UefiInv, [UefiNext]_uvars
                 PROVE  Lifecycle!Next \/ UNCHANGED <<g_vmm_status, Up>>
      BY DEF Lifecycle!lvars, Up
    <2>1. CASE CommonStep
      <3>1. SerialInv /\ App \in Threads /\ Step(App)
        BY <2>1, UefiAssumption DEF UefiInv, CommonStep
      <3> QED BY <3>1, LifecycleStep
    <2>2. CASE MainStep \/ GetKeystroke \/ OsReturns \/ UNCHANGED uvars
      <3>1. UNCHANGED <<g_vmm_status, vcpu>>
        BY <2>2 DEF MainStep, AllocGdt, AllocTss, LocateProtocol, CountProcessors, PrepareLoop,
                    CheckLoop, AddModules, CallCommon, Enter, LoadVmm, StartVmm, StartVmmReturns,
                    BootOs, GetKeystroke, OsReturns, uvars, vars, globals, world
      <3> QED BY <3>1 DEF Up
    <2> QED BY <2>1, <2>2 DEF UefiNext
  <1> QED BY <1>1, <1>2, UefiInvariant, PTL DEF UefiSpec, ImplementsLifecycle, Lifecycle!Spec

-----------------------------------------------------------------------------
(* The boot goes on. *)

\* The loop counter of UefiMain is inside the loop the stage belongs to.
LoopInv ==
  /\ built_in \in Nat /\ i \in Nat
  /\ stage \in {"locate", "count", "key_add"} => i = 0
  /\ stage \in {"prepare", "check"} => i <= NumCpus
  /\ Preparing("prepare") => i < NumCpus
  /\ stage = "add" => i <= built_in
  /\ stage = "add_returns" => i < built_in

\* UefiMain starts with its first loop ahead.
LEMMA LoopInit == UefiInit => LoopInv
  BY UefiAssumption DEF UefiInit, LoopInv, Preparing

\* Each loop ends at its bound, and adding modules at the first error.
LEMMA LoopNext == UefiInv /\ LoopInv /\ [UefiNext]_uvars => LoopInv'
  <1> SUFFICES ASSUME UefiInv, LoopInv, [UefiNext]_uvars PROVE LoopInv'
    OBVIOUS
  <1>c. NumCpus \in Nat \ {0} /\ back \in {"prepare", "start"}
    BY ConstantsAssumption DEF UefiInv, UefiTypeOK
  <1> USE <1>c DEF LoopInv, Preparing, Abort, Prepare
  <1>1. CASE CommonStep
    BY <1>1 DEF CommonStep, tables
  <1>2. CASE UNCHANGED uvars
    BY <1>2 DEF uvars, main, tables
  <1>3. CASE LocateProtocol \/ CountProcessors \/ GetKeystroke \/ OsReturns
    BY <1>3 DEF LocateProtocol, CountProcessors, GetKeystroke, OsReturns, tables
  <1>4. CASE BootOs
    BY <1>4 DEF BootOs, GenerateFileDP, tables
  <1>5. CASE AllocGdt
    BY <1>5 DEF AllocGdt, PrepareReturns
  <1>6. CASE AllocTss
    BY <1>6 DEF AllocTss, PrepareReturns
  <1>7. CASE PrepareLoop
    BY <1>7 DEF PrepareLoop
  <1>8. CASE CheckLoop
    BY <1>8 DEF CheckLoop, tables
  <1>9. CASE AddModules
    BY <1>9 DEF AddModules, CallCommon, tables
  <1>10. CASE LoadVmm
    BY <1>10 DEF LoadVmm, CallCommon, tables
  <1>11. CASE StartVmm \/ StartVmmReturns
    BY <1>11 DEF StartVmm, StartVmmReturns, CallCommon, tables
  <1> QED BY <1>1, <1>2, <1>3, <1>4, <1>5, <1>6, <1>7, <1>8, <1>9, <1>10, <1>11
          DEF UefiNext, MainStep

\* What UefiMain has to do after its preparations is positive in every loop.
LEMMA StageSteps ==
  ASSUME UefiInv, LoopInv
  PROVE  /\ StartSteps \in Nat \ {0} /\ Rank["load"] + MAX_NUM_MODULES \in Nat
         /\ StepsLeft(App) \in Nat /\ (pc[App] = "idle" => StepsLeft(App) = 0)
         /\ BootStepsLeft \in Nat /\ (~AtRest => BootStepsLeft > 0)
  <1>1. /\ StartSteps \in Nat \ {0} /\ Rank["load"] + MAX_NUM_MODULES \in Nat
        /\ NumCpus \in Nat \ {0}
    BY ConstantsAssumption DEF StartSteps, Rank
  <1>2. StepsLeft(App) \in Nat /\ (pc[App] = "idle" => StepsLeft(App) = 0)
    BY StepsNat, UefiAssumption DEF UefiInv
  <1>3. stage \in UefiStages /\ back \in {"prepare", "start"}
    BY DEF UefiInv, UefiTypeOK, UefiStages
  <1>4. BootStepsLeft \in Nat /\ (~AtRest => BootStepsLeft > 0)
    BY <1>1, <1>2, <1>3 DEF BootStepsLeft, AtRest, PrepareSteps, LoopInv, Preparing, UefiStages,
                           Keys
  <1> QED BY <1>1, <1>2, <1>4

\* Every step leads to a stage, or to a turn of a loop, with less ahead.
LEMMA BootStep ==
  ASSUME UefiInv, LoopInv, UefiNext, ~AtRest
  PROVE  BootStepsLeft' < BootStepsLeft
  <1>c. /\ NumCpus \in Nat \ {0} /\ MAX_NUM_MODULES \in Nat
        /\ back \in {"prepare", "start"} /\ App \in Threads
    BY ConstantsAssumption, UefiAssumption DEF UefiInv, UefiTypeOK
  <1>s. /\ StepsLeft(App) \in Nat /\ (pc[App] = "idle" => StepsLeft(App) = 0)
        /\ BootStepsLeft \in Nat /\ BootStepsLeft > 0
    BY StageSteps
  <1>p. StepsLeft(App)' \in Nat /\ (pc'[App] = "idle" => StepsLeft(App)' = 0)
    <2>1. SerialInv'
      BY UefiNextInv DEF UefiInv
    <2> QED BY <1>c, <2>1, StepsNatNext
  <1>i. pc[App] # "idle" => stage \in {"add_returns", "load_returns", "start_returns"}
    BY DEF UefiInv, ControlInv
  <1> USE <1>c, <1>s, <1>p DEF LoopInv, Preparing, PrepareSteps, StartSteps, Rank, Keys, AtRest,
             Abort, Prepare, At
  <1>1. CASE CommonStep
    <2>1. Step(App) /\ UNCHANGED <<stage, i, built_in>>
      BY <1>1 DEF CommonStep
    <2>2. pc[App] # "idle" /\ StepsLeft(App)' < StepsLeft(App)
      BY <2>1, OnlyOne, ShorterStep DEF UefiInv
    <2> QED BY <1>i, <2>1, <2>2 DEF BootStepsLeft
  <1>2. ASSUME NEW o \in {"add", "load", "start"}, NEW a \in Files \cup {NULL}, NEW returns,
               CallCommon(o, a, returns)
        PROVE  /\ stage' = returns /\ UNCHANGED <<i, built_in>>
               /\ StepsLeft(App)' = CASE o = "add" -> 2
                                      [] o = "load" -> 10 + MAX_NUM_MODULES
                                      [] o = "start" -> 9 + 6 * NumCpus
    <2>1. stage' = returns /\ UNCHANGED <<i, built_in>> /\ pc' = [pc EXCEPT ![App] = o]
      BY <1>2 DEF CallCommon, Enter, Goto
    <2>2. pc'[App] = o
      BY <2>1 DEF UefiInv, SerialInv, TypeOK
    <2> QED BY <2>1, <2>2 DEF StepsLeft, RoundsLeft
  <1>3. CASE LocateProtocol
    BY <1>3 DEF LocateProtocol, BootStepsLeft
  <1>4. CASE CountProcessors
    BY <1>4 DEF CountProcessors, BootStepsLeft
  <1>5. CASE GetKeystroke \/ OsReturns
    BY <1>5 DEF GetKeystroke, OsReturns
  <1>6. CASE BootOs
    BY <1>6 DEF BootOs, GenerateFileDP, BootStepsLeft
  <1>7. CASE AllocGdt
    BY <1>7 DEF AllocGdt, PrepareReturns, BootStepsLeft
  <1>8. CASE AllocTss
    BY <1>8 DEF AllocTss, PrepareReturns, BootStepsLeft
  <1>9. CASE PrepareLoop
    BY <1>9 DEF PrepareLoop, BootStepsLeft
  <1>10. CASE CheckLoop
    BY <1>10 DEF CheckLoop, BootStepsLeft
  <1>11. CASE AddModules
    <2>1. CASE \E f \in Files : stage = "add" /\ i < built_in /\ CallCommon("add", f, "add_returns")
      BY <1>2, <2>1 DEF BootStepsLeft
    <2>2. CASE /\ UNCHANGED built_in
               /\ \/ stage = "add" /\ i = built_in /\ stage' = "key_load"
                  \/ stage = "add_returns" /\ stage' = "add" /\ i' = i + 1
                  \/ stage = "add_returns" /\ stage' = "key_load"
      BY <2>2 DEF BootStepsLeft
    <2> QED BY <1>11, <2>1, <2>2 DEF AddModules
  <1>12. CASE LoadVmm
    <2>1. CASE stage = "load" /\ CallCommon("load", NULL, "load_returns")
      BY <1>2, <2>1 DEF BootStepsLeft
    <2>2. CASE /\ stage = "load_returns"
               /\ (stage' = "gdt" /\ back' = "start") \/ stage' = "abort"
      BY <2>2 DEF BootStepsLeft
    <2> QED BY <1>12, <2>1, <2>2 DEF LoadVmm
  <1>13. CASE StartVmm \/ StartVmmReturns
    <2>1. CASE stage = "start" /\ CallCommon("start", NULL, "start_returns")
      BY <1>2, <2>1 DEF BootStepsLeft
    <2>2. CASE stage = "start_returns" /\ stage' \in {"key_boot", "abort"}
      BY <2>2 DEF BootStepsLeft
    <2> QED BY <1>13, <2>1, <2>2 DEF StartVmm, StartVmmReturns
  <1> QED BY <1>1, <1>3, <1>4, <1>5, <1>6, <1>7, <1>8, <1>9, <1>10, <1>11, <1>12, <1>13
          DEF UefiNext, MainStep

\* Between two rests the application takes a bounded number of steps, for every
\* number of CPUs, modules and linked-in images.
THEOREM BootAlwaysProceeds == UefiSpec => BootGetsShorter
  <1>0. UefiInv /\ LoopInv => BootStepsLeft \in Nat
    BY StageSteps
  <1>1. LoopInv /\ UefiInv /\ (BootStepsLeft \in Nat)' /\ [UefiNext]_uvars =>
          [~AtRest => 0 <= BootStepsLeft' /\ BootStepsLeft' < BootStepsLeft]_uvars
    BY BootStep
  <1>2. UefiSpec => []LoopInv
    BY LoopInit, LoopNext, UefiInvariant, PTL DEF UefiSpec
  <1> QED BY <1>0, <1>1, <1>2, UefiInvariant, PTL DEF UefiSpec, BootGetsShorter

-----------------------------------------------------------------------------
(* What is proved of common.c holds of it inside the application.          *)

\* UefiMain is an entry layer that has no business with the heap of common.c.
LEMMA UefiEntry ==
  ASSUME UefiInv, UefiNext, ~CommonStep
  PROVE  EntryLayer /\ UNCHANGED <<globals, world>>
  <1> DEFINE Alone  == UNCHANGED <<globals, world, op, pc, cpuid, ret>>
             Enters == \E u \in Threads, o \in Ops, a \in Files \cup {NULL} : Enter(u, o, a)
  <1>1. pc[App] = "idle" /\ (Alone \/ Enters)
    <2>1. CASE \/ AllocGdt \/ AllocTss \/ LocateProtocol \/ CountProcessors \/ PrepareLoop
               \/ CheckLoop \/ BootOs \/ GetKeystroke \/ OsReturns
      <3>1. stage \notin {"add_returns", "load_returns", "start_returns"}
        BY <2>1 DEF AllocGdt, AllocTss, LocateProtocol, CountProcessors, PrepareLoop, CheckLoop,
                    BootOs, GetKeystroke, OsReturns
      <3>2. Alone
        BY <2>1 DEF AllocGdt, AllocTss, LocateProtocol, CountProcessors, PrepareLoop, CheckLoop,
                    BootOs, GetKeystroke, OsReturns, vars, frames
      <3> QED BY <3>1, <3>2 DEF UefiInv, ControlInv
    <2>2. CASE AddModules \/ LoadVmm \/ StartVmm \/ StartVmmReturns
      BY <2>2, UefiAssumption DEF AddModules, LoadVmm, StartVmm, StartVmmReturns, CallCommon, Ops,
                                  At, vars, frames
    <2> QED BY <2>1, <2>2 DEF UefiNext, MainStep
  <1>2. UNCHANGED <<globals, world>>
    BY <1>1 DEF Enter
  <1>3. Quiet /\ UNCHANGED mapped
    BY <1>1, <1>2, UefiAssumption DEF Quiet, world
  <1> QED BY <1>1, <1>2, <1>3 DEF EntryLayer

\* common.c's memory, to which UefiMain adds nothing.
HeldMemory == PointersLive /\ Held

LEMMA UefiMemory == UefiSpec => []HeldMemory
  <1>1. UefiInit => HeldMemory
    <2>1. InitDriver => PointersLive
      BY ConstantsAssumption DEF InitDriver, PointersLive, Pointers, ModIdx
    <2> QED BY <2>1, HeldInit DEF UefiInit, HeldMemory
  <1>2. UefiInv /\ HeldMemory /\ [UefiNext]_uvars => HeldMemory'
    <2> SUFFICES ASSUME UefiInv, PointersLive, Held, [UefiNext]_uvars
                 PROVE  PointersLive' /\ Held'
      BY DEF HeldMemory
    <2>1. CASE CommonStep
      BY <2>1, UefiAssumption, PointersStep, HeldStep DEF UefiInv, CommonStep
    <2>2. ASSUME UNCHANGED <<globals, world>> PROVE PointersLive'
      BY <2>2 DEF PointersLive, Pointers, globals, world
    <2>3. CASE UefiNext /\ ~CommonStep
      BY <2>2, <2>3, UefiEntry, HeldEntry DEF UefiInv
    <2>4. CASE UNCHANGED uvars
      <3>1. UNCHANGED <<globals, world, op, pc, cpuid, ret>>
        BY <2>4 DEF uvars, vars, frames
      <3> QED BY <2>2, <3>1 DEF Held, ResultInv, LoadedSoFar, OnBehalf, LoadedIdx, VmmInv,
                                NothingLoaded, globals, world
    <2> QED BY <2>1, <2>3, <2>4
  <1> QED BY <1>1, <1>2, UefiInvariant, PTL DEF UefiSpec

\* What UefiMain has loaded is complete and in memory, whatever has failed before.
THEOREM UefiVmmComplete == UefiSpec => [](VmmComplete /\ PointersLive)
  <1>1. UefiInv /\ HeldMemory => VmmComplete /\ PointersLive
    BY CompleteFollows DEF UefiInv, HeldMemory, Held, MemoryInv
  <1> QED BY <1>1, UefiInvariant, UefiMemory, PTL

\* However the application changes its CPU, the books of the CPUs are right, and
\* every vmcall reaches a CPU whose VMM expects it.
THEOREM UefiCpusAccounted == UefiSpec => [](CpuAccounting /\ VmcallHasVmm)
  <1>1. UefiInv => CpuAccounting /\ VmcallHasVmm
    BY AccountingFollows, VmcallsFollow DEF UefiInv
  <1> QED BY <1>1, UefiInvariant, PTL

\* What common.c answers UefiMain is true: UefiMain errs only where it does not ask.
THEOREM UefiResultsTrue == UefiSpec => ResultsTrue
  <1>1. UefiInv /\ HeldMemory /\ [UefiNext]_uvars =>
          [\A t \in Threads : pc[t] # "idle" /\ pc'[t] = "idle" =>
             /\ Outcome(op[t], ret[t])'
             /\ pc[t] = "st_loop" /\ ret'[t] = "SUCCESS" /\ FixedCpus =>
                  \A c \in Cpu : vcpu[c] = "on"]_vars
    <2> SUFFICES ASSUME UefiInv, PointersLive, Held, [UefiNext]_uvars, vars' # vars,
                        NEW t \in Threads, pc[t] # "idle", pc'[t] = "idle"
                 PROVE  /\ Outcome(op[t], ret[t])'
                        /\ pc[t] = "st_loop" /\ ret'[t] = "SUCCESS" /\ FixedCpus =>
                             \A c \in Cpu : vcpu[c] = "on"
      BY DEF HeldMemory
    <2>1. UefiNext
      BY DEF uvars
    <2>2. EntryLayer \/ \E u \in Threads : Step(u)
      BY <2>1, UefiEntry, UefiAssumption DEF CommonStep
    <2> QED BY <2>2, ResultsFollow DEF UefiInv
  <1> QED BY <1>1, UefiInvariant, UefiMemory, PTL DEF UefiSpec, ResultsTrue

=============================================================================
