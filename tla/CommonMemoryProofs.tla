------------------------- MODULE CommonMemoryProofs -------------------------
(***************************************************************************)
(* Proofs about the memory of Common.tla for a serial use of the driver,   *)
(* for every number of threads, modules, blocks and CPUs.                  *)
(*                                                                         *)
(* MemoryInv is inductive relative to SerialInv: what common_load_vmm has  *)
(* allocated is recorded label by label (LoadedSoFar) and handed over to   *)
(* VmmInv in the step that sets VMM_LOADED.                                *)
(***************************************************************************)
EXTENDS CommonProofs

memory == <<g_num_modules, mod_exec, start_sym, g_stack, g_tls, g_tls_size, heap, mapped>>

\* The steps that leave the memory of the VMM alone.
Elsewhere(t) ==
  \/ AddEnter(t) \/ LoadEnter(t) \/ LoadInit(t)
  \/ UnloadEnter(t) \/ UnloadFini(t)
  \/ StartEnter(t) \/ StartLoop(t) \/ StartInit(t) \/ StartVmcall(t)
  \/ StopEnter(t) \/ StopLoop(t) \/ StopVmcall(t) \/ StopFini(t)
  \/ FiniEnter(t) \/ FiniLoaded(t) \/ DumpEnter(t) \/ DumpCall(t)

\* They do leave it alone.
LEMMA ElsewhereFrame ==
  ASSUME NEW t \in Threads, Elsewhere(t)
  PROVE  UNCHANGED memory
  BY DEF Elsewhere, AddEnter, LoadEnter, LoadInit, UnloadEnter, UnloadFini, StartEnter,
         StartLoop, StartInit, StartVmcall, StopEnter, StopLoop, StopVmcall,
         StopFini, CpuStopped, FiniEnter, FiniLoaded, DumpEnter, DumpCall,
         globals, world, memory

\* common_reset leaves no pointer behind.
LEMMA ResetPointersLive ==
  ASSUME TypeOK, common_reset
  PROVE  PointersLive'
  BY DEF common_reset, ResetPointers, PointersLive, Pointers, TypeOK

\* A fresh block is none of the blocks a pointer refers to; a failed allocation
\* leaves NULL.
LEMMA PointersStep ==
  ASSUME SerialInv, PointersLive, NEW t \in Threads, Step(t)
  PROVE  PointersLive'
  <1>t. TypeOK
    BY DEF SerialInv
  <1>h. /\ g_stack \in heap \cup {NULL} /\ g_tls \in heap \cup {NULL}
        /\ \A i \in ModIdx : mod_exec[i] \in heap \cup {NULL}
    BY DEF PointersLive, Pointers
  <1>1. CASE Elsewhere(t) \/ LoadMapModule(t) \/ LoadMapTls(t)
    <2>1. UNCHANGED <<g_num_modules, mod_exec, g_stack, g_tls, heap>>
      BY <1>1, ElsewhereFrame DEF memory, LoadMapModule, LoadMapTls, globals
    <2> QED BY <2>1 DEF PointersLive, Pointers
  <1>2. CASE AddStore(t)
    <2>1. /\ UNCHANGED <<mod_exec, g_stack, g_tls, heap>>
          /\ g_num_modules' = g_num_modules + 1 /\ g_num_modules \in Int
      BY <1>2, <1>t DEF AddStore, TypeOK, world
    <2>2. \A i \in ModIdx : i < g_num_modules => i < g_num_modules'
      BY <2>1, ConstantsAssumption DEF ModIdx
    <2> QED BY <2>1, <2>2 DEF PointersLive, Pointers
  <1>3. CASE LoadStack(t)
    <2>1. PICK p \in Blocks \cup {NULL} : platform_alloc_rw(p, 1) /\ g_stack' = p
      BY <1>3 DEF LoadStack
    <2>2. UNCHANGED <<g_num_modules, mod_exec, g_tls>>
      BY <1>3 DEF LoadStack
    <2>3. CASE p = NULL /\ heap' = heap
      BY <2>1, <2>2, <2>3 DEF PointersLive, Pointers
    <2>4. CASE p \notin heap /\ p # NULL /\ heap' = heap \cup {p}
      BY <1>h, <2>1, <2>2, <2>4 DEF PointersLive, Pointers
    <2> QED BY <2>1, <2>3, <2>4, ConstantsAssumption DEF platform_alloc_rw
  <1>4. CASE LoadTls(t)
    <2>1. PICK p \in Blocks \cup {NULL} : platform_alloc_rw(p, g_tls_size') /\ g_tls' = p
      BY <1>4 DEF LoadTls
    <2>2. UNCHANGED <<g_num_modules, mod_exec, g_stack>>
      BY <1>4 DEF LoadTls
    <2>3. CASE p = NULL /\ heap' = heap
      BY <2>1, <2>2, <2>3 DEF PointersLive, Pointers
    <2>4. CASE p \notin heap /\ p # NULL /\ heap' = heap \cup {p}
      BY <1>h, <2>1, <2>2, <2>4 DEF PointersLive, Pointers
    <2> QED BY <2>1, <2>3, <2>4, ConstantsAssumption DEF platform_alloc_rw
  <1>5. CASE LoadElf(t)
    <2>0. UNCHANGED <<g_num_modules, g_stack, g_tls>> /\ g_num_modules \in Nat
      BY <1>5, <1>t, ConstantsAssumption DEF LoadElf, TypeOK
    <2>1. PICK n \in 0 .. g_num_modules : bfelf_load(n, TRUE) \/ bfelf_load(n, FALSE)
      <3>1. g_num_modules \in 0 .. g_num_modules
        BY <2>0
      <3>2. CASE bfelf_load(g_num_modules, TRUE)
        BY <3>1, <3>2
      <3>3. CASE \E n \in 0 .. g_num_modules : bfelf_load(n, FALSE)
        BY <3>3
      <3> QED BY <1>5, <3>2, <3>3 DEF LoadElf
    <2>2. PICK b \in [0 .. n - 1 -> Blocks \ heap] :
            /\ \A i, j \in 0 .. n - 1 : b[i] = b[j] => i = j
            /\ heap' = heap \cup {b[i] : i \in 0 .. n - 1}
            /\ mod_exec' = [i \in ModIdx |-> IF i < n THEN b[i] ELSE mod_exec[i]]
      BY <2>1 DEF bfelf_load
    <2>3. \A i \in ModIdx :
            /\ i < n => /\ mod_exec'[i] = b[i] /\ i \in 0 .. n - 1
                        /\ b[i] \in heap' /\ b[i] \notin heap /\ b[i] # NULL
            /\ ~(i < n) => mod_exec'[i] = mod_exec[i] /\ mod_exec[i] \in heap \cup {NULL}
      BY <1>h, <2>1, <2>2, ConstantsAssumption DEF ModIdx
    <2>4. Pointers' \ {NULL} \subseteq heap'
      BY <1>h, <2>0, <2>2, <2>3 DEF Pointers
    <2>5. ASSUME NEW i \in ModIdx, mod_exec'[i] # NULL
          PROVE  /\ i < g_num_modules'
                 /\ mod_exec'[i] \notin {g_stack', g_tls'}
                 /\ \A j \in ModIdx : mod_exec'[j] = mod_exec'[i] => i = j
      <3>1. CASE i < n
        <4>1. i < g_num_modules
          BY <2>0, <2>1, <3>1, ConstantsAssumption DEF ModIdx
        <4> QED BY <1>h, <2>0, <2>2, <2>3, <2>5, <3>1, <4>1
      <3>2. CASE ~(i < n)
        BY <1>h, <2>0, <2>3, <2>5, <3>2 DEF PointersLive
      <3> QED BY <3>1, <3>2
    <2> QED BY <2>0, <2>4, <2>5 DEF PointersLive
  <1>6. CASE UnloadReset(t)
    BY <1>6, <1>t, ResetPointersLive DEF UnloadReset
  <1>7. CASE FiniCheck(t)
    <2>1. CASE common_reset
      BY <1>t, <2>1, ResetPointersLive
    <2>2. CASE UNCHANGED <<globals, world>>
      BY <2>2 DEF PointersLive, Pointers, globals, world
    <2> QED BY <1>7, <2>1, <2>2 DEF FiniCheck
  <1> QED BY <1>1, <1>2, <1>3, <1>4, <1>5, <1>6, <1>7 DEF Step, Elsewhere

\* A load that goes on has what the code before its label allocated.
LEMMA LoadedStep ==
  ASSUME SerialInv, MemoryInv, NEW t \in Threads, Step(t)
  PROVE  LoadedSoFar(t)'
  <1>t. TypeOK /\ FlowOf(t) /\ LoadedSoFar(t) /\ PointersLive
    BY DEF SerialInv, MemoryInv
  <1>p. pc \in [Threads -> Labels]
    BY <1>t DEF TypeOK
  <1> USE DEF At, Goto, SetRet, Return, Failure, LoadLabels
  <1>1. CASE LoadEnter(t)
    <2>1. g_num_modules # 0 => g_num_modules > 0
      BY <1>t, ConstantsAssumption DEF TypeOK
    <2>2. UNCHANGED g_num_modules
      BY <1>1 DEF LoadEnter, globals
    <2>3. \/ pc'[t] = "idle"
          \/ pc'[t] = "ld_stack" /\ g_num_modules # 0
      BY <1>1, <1>p DEF LoadEnter
    <2> QED BY <2>1, <2>2, <2>3 DEF LoadedSoFar
  <1>2. CASE LoadStack(t)
    <2>1. /\ pc[t] = "ld_stack" /\ UNCHANGED g_num_modules
          /\ \/ pc'[t] = "unload"
             \/ pc'[t] = "ld_tls" /\ g_stack' # NULL
      BY <1>2, <1>p DEF LoadStack
    <2> QED BY <1>t, <2>1 DEF LoadedSoFar
  <1>3. CASE LoadTls(t)
    <2>1. /\ pc[t] = "ld_tls" /\ UNCHANGED <<g_num_modules, g_stack>>
          /\ g_tls_size' \in CpuCounts
          /\ \/ pc'[t] = "unload"
             \/ pc'[t] = "ld_elf" /\ g_tls' # NULL
      BY <1>3, <1>p DEF LoadTls, TlsSlots
    <2> QED BY <1>t, <2>1 DEF LoadedSoFar, FixedCpus
  <1>4. CASE LoadElf(t)
    <2>1. /\ pc[t] = "ld_elf" /\ UNCHANGED <<g_num_modules, g_stack, g_tls, g_tls_size>>
          /\ \/ pc'[t] = "unload"
             \/ pc'[t] = "ld_init" /\ bfelf_load(g_num_modules, TRUE)
      BY <1>4, <1>p DEF LoadElf
    <2>2. CASE pc'[t] = "unload"
      BY <2>2 DEF LoadedSoFar
    <2>3. CASE pc'[t] = "ld_init" /\ bfelf_load(g_num_modules, TRUE)
      <3>0. g_num_modules \in 0 .. MAX_NUM_MODULES
        BY <1>t DEF TypeOK
      <3>1. PICK b \in [0 .. g_num_modules - 1 -> Blocks \ heap] :
              /\ mod_exec' = [i \in ModIdx |-> IF i < g_num_modules THEN b[i] ELSE mod_exec[i]]
              /\ start_sym'
        BY <2>3 DEF bfelf_load
      <3>2. \A i \in ModIdx : i < g_num_modules => mod_exec'[i] # NULL
        <4> SUFFICES ASSUME NEW i \in ModIdx, i < g_num_modules PROVE mod_exec'[i] # NULL
          OBVIOUS
        <4>1. i \in 0 .. g_num_modules - 1
          BY <3>0, ConstantsAssumption DEF ModIdx
        <4> QED BY <3>1, <4>1, ConstantsAssumption
      <3>3. \A i \in LoadedIdx' : mod_exec'[i] # NULL
        BY <2>1, <3>2 DEF LoadedIdx
      <3> QED BY <1>t, <2>1, <2>3, <3>1, <3>3 DEF LoadedSoFar
    <2> QED BY <2>1, <2>2, <2>3
  <1>5. CASE LoadInit(t)
    <2>1. /\ pc[t] = "ld_init" /\ UNCHANGED memory
          /\ \/ pc'[t] = "unload"
             \/ pc'[t] = "ld_md" /\ cpuid'[t] = 0
      BY <1>5, <1>p, <1>t DEF LoadInit, globals, memory, TypeOK
    <2>2. \A i \in LoadedIdx' : ~(i < 0)
      BY ConstantsAssumption DEF LoadedIdx, ModIdx
    <2> QED BY <1>t, <2>1, <2>2 DEF LoadedSoFar, LoadedIdx, memory
  <1>6. CASE LoadMapModule(t)
    <2>1. /\ pc[t] = "ld_md" /\ UNCHANGED globals /\ cpuid[t] < g_num_modules
          /\ \/ pc'[t] = "unload"
             \/ /\ pc'[t] = "ld_md" /\ cpuid'[t] = cpuid[t] + 1
                /\ mapped' = mapped \cup {mod_exec[cpuid[t]]}
      BY <1>6, <1>p, <1>t DEF LoadMapModule, ModulesLeft, TypeOK
    <2>2. CASE pc'[t] = "unload"
      BY <2>2 DEF LoadedSoFar
    <2>3. CASE /\ pc'[t] = "ld_md" /\ cpuid'[t] = cpuid[t] + 1
               /\ mapped' = mapped \cup {mod_exec[cpuid[t]]}
      <3>1. \A i \in LoadedIdx : i < cpuid'[t] => i < cpuid[t] \/ i = cpuid[t]
        BY <1>t, <2>3, ConstantsAssumption DEF LoadedIdx, ModIdx, TypeOK
      <3>2. \A i \in LoadedIdx : i < cpuid'[t] => mod_exec[i] \in mapped'
        BY <1>t, <2>1, <2>3, <3>1 DEF LoadedSoFar
      <3> QED BY <1>t, <2>1, <2>3, <3>2 DEF LoadedSoFar, LoadedIdx, globals
    <2> QED BY <2>1, <2>2, <2>3
  <1>7. CASE DumpEnter(t)
    <2>1. pc'[t] = "idle" \/ (pc'[t] = "du_call" /\ g_vmm_status' # "UNLOADED")
      BY <1>7, <1>p DEF DumpEnter, globals
    <2> QED BY <2>1 DEF LoadedSoFar
  <1>8. ASSUME pc'[t] \notin LoadLabels \cup {"du_call"}
        PROVE  LoadedSoFar(t)'
    BY <1>8 DEF LoadedSoFar
  <1>9. CASE AddEnter(t) \/ AddStore(t) \/ LoadMapTls(t) \/ DumpCall(t)
             \/ UnloadEnter(t) \/ UnloadFini(t) \/ UnloadReset(t)
    <2>1. pc'[t] \notin LoadLabels \cup {"du_call"}
      BY <1>9, <1>p DEF AddEnter, AddStore, LoadMapTls, DumpCall, UnloadEnter, UnloadFini,
                        UnloadReset, UnloadReturns
    <2> QED BY <1>8, <2>1
  <1>10. CASE StartEnter(t) \/ StartLoop(t) \/ StartInit(t) \/ StartVmcall(t)
              \/ StopEnter(t) \/ StopLoop(t) \/ StopVmcall(t) \/ StopFini(t)
              \/ FiniEnter(t) \/ FiniLoaded(t) \/ FiniCheck(t)
    <2>1. pc'[t] \notin LoadLabels \cup {"du_call"}
      BY <1>10, <1>p DEF StartEnter, StartLoop, StartInit, StartVmcall, StopEnter, StopLoop,
                         StopVmcall, StopFini, StopReturns, FiniEnter, FiniLoaded, FiniCheck
    <2> QED BY <1>8, <2>1
  <1> QED BY <1>1, <1>2, <1>3, <1>4, <1>5, <1>6, <1>7, <1>9, <1>10 DEF Step

\* The step that sets VMM_LOADED has a complete VMM; after it, nothing touches
\* the VMM's memory before VMM_UNLOADED.
LEMMA VmmStep ==
  ASSUME SerialInv, MemoryInv, NEW t \in Threads, Step(t)
  PROVE  VmmInv'
  <1>t. TypeOK /\ FlowOf(t) /\ LoadedSoFar(t) /\ VmmInv
    BY DEF SerialInv, MemoryInv
  <1>s. (UNCHANGED memory /\ (g_vmm_status = "UNLOADED" => g_vmm_status' = "UNLOADED")) => VmmInv'
    BY <1>t DEF VmmInv, LoadedIdx, memory
  <1>1. CASE Elsewhere(t)
    <2>1. g_vmm_status = "UNLOADED" => g_vmm_status' = "UNLOADED"
      <3>1. CASE \/ AddEnter(t) \/ LoadEnter(t) \/ LoadInit(t) \/ UnloadEnter(t)
                 \/ StartEnter(t) \/ StartLoop(t) \/ StartInit(t) \/ StopEnter(t)
                 \/ StopVmcall(t) \/ FiniEnter(t) \/ FiniLoaded(t) \/ DumpEnter(t) \/ DumpCall(t)
        BY <3>1 DEF AddEnter, LoadEnter, LoadInit, UnloadEnter, StartEnter, StartLoop, StartInit,
                    StopEnter, StopVmcall, FiniEnter, FiniLoaded, DumpEnter, DumpCall, globals
      <3>2. CASE UnloadFini(t) \/ StartVmcall(t) \/ StopLoop(t) \/ StopFini(t)
        BY <1>t, <3>2 DEF FlowOf, At, UnloadFini, StartVmcall, StopLoop, StopFini
      <3> QED BY <1>1, <3>1, <3>2 DEF Elsewhere
    <2> QED BY <1>1, <1>s, <2>1, ElsewhereFrame
  <1>2. CASE AddStore(t) \/ LoadStack(t) \/ LoadTls(t) \/ LoadElf(t)
    <2>1. g_vmm_status' = "UNLOADED"
      BY <1>2, <1>t DEF FlowOf, At, AddStore, LoadStack, LoadTls, LoadElf
    <2> QED BY <2>1 DEF VmmInv
  <1>3. CASE LoadMapModule(t)
    <2>1. g_vmm_status' = "UNLOADED"
      BY <1>3, <1>t DEF FlowOf, At, LoadMapModule, globals
    <2> QED BY <2>1 DEF VmmInv
  <1>4. CASE LoadMapTls(t)
    <2>1. /\ pc[t] = "ld_md" /\ ~(cpuid[t] < g_num_modules)
          /\ UNCHANGED <<g_num_modules, mod_exec, start_sym, g_stack, g_tls, g_tls_size>>
          /\ g_vmm_status = "UNLOADED"
      BY <1>4, <1>t DEF LoadMapTls, At, ModulesLeft, FlowOf
    <2>2. CASE UNCHANGED g_vmm_status
      BY <2>1, <2>2 DEF VmmInv
    <2>3. CASE mapped' = mapped \cup {g_tls}
      <3>1. \A i \in LoadedIdx : i < cpuid[t]
        <4>1. cpuid[t] \in Int /\ g_num_modules \in Int
          BY <1>t DEF TypeOK
        <4> QED BY <2>1, <4>1, ConstantsAssumption DEF LoadedIdx, ModIdx
      <3>2. \A i \in LoadedIdx : mod_exec[i] # NULL /\ mod_exec[i] \in mapped'
        BY <1>t, <2>1, <2>3, <3>1 DEF LoadedSoFar
      <3> QED BY <1>t, <2>1, <2>3, <3>2 DEF VmmInv, LoadedSoFar, LoadLabels, LoadedIdx
    <2> QED BY <1>4, <2>2, <2>3 DEF LoadMapTls
  <1>5. CASE UnloadReset(t)
    BY <1>5 DEF UnloadReset, common_reset, VmmInv
  <1>6. CASE FiniCheck(t)
    <2>1. CASE common_reset
      BY <2>1 DEF common_reset, VmmInv
    <2>2. CASE UNCHANGED <<globals, world>>
      BY <1>s, <2>2 DEF globals, world, memory
    <2> QED BY <1>6, <2>1, <2>2 DEF FiniCheck
  <1> QED BY <1>1, <1>2, <1>3, <1>4, <1>5, <1>6 DEF Step, Elsewhere

\* A fresh driver has no memory; MemoryInv holds of it.
LEMMA MemoryInit ==
  Init => MemoryInv
  <1> SUFFICES ASSUME Init PROVE MemoryInv
    OBVIOUS
  <1> USE DEF Init, InitDriver
  <1>1. PointersLive
    BY DEF PointersLive, Pointers
  <1>2. \A t \in Threads : LoadedSoFar(t)
    BY DEF LoadedSoFar, LoadLabels
  <1>3. VmmInv
    BY DEF VmmInv
  <1> QED BY <1>1, <1>2, <1>3 DEF MemoryInv

\* Every step of a serial use of the driver keeps the memory in order.
LEMMA MemoryStep ==
  SerialInv /\ MemoryInv /\ [SerialNext]_vars => MemoryInv'
  <1> SUFFICES ASSUME SerialInv, MemoryInv, [SerialNext]_vars PROVE MemoryInv'
    OBVIOUS
  <1>1. CASE UNCHANGED vars
    BY <1>1 DEF MemoryInv, PointersLive, Pointers, LoadedSoFar, VmmInv, LoadedIdx,
                vars, globals, world, frames
  <1>2. CASE \E t \in Threads : Step(t)
    <2>1. PICK t \in Threads : Step(t)
      BY <1>2
    <2>2. PointersLive' /\ LoadedSoFar(t)' /\ VmmInv'
      BY <2>1, PointersStep, LoadedStep, VmmStep DEF MemoryInv
    <2>3. \A u \in Threads \ {t} : LoadedSoFar(u)'
      <3>1. \A u \in Threads \ {t} : pc'[u] = "idle"
        BY <2>1, OnlyOne
      <3> QED BY <3>1 DEF LoadedSoFar, LoadLabels
    <2> QED BY <2>2, <2>3 DEF MemoryInv
  <1>3. CASE \E t \in Threads : Quiet /\ CallAny(t)
    <2>1. PICK t \in Threads, o \in Ops, a \in Files \cup {NULL} : Quiet /\ Call(t, o, a)
      BY <1>3 DEF CallAny
    <2>2. UNCHANGED <<globals, world>> /\ pc' = [pc EXCEPT ![t] = o]
      BY <2>1 DEF Call, Enter, Goto
    <2>3. \A u \in Threads : pc'[u] \in Ops \cup {"idle"}
      BY <2>1, <2>2 DEF Quiet, SerialInv, TypeOK
    <2>4. \A u \in Threads : LoadedSoFar(u)'
      BY <2>3 DEF LoadedSoFar, LoadLabels, Ops
    <2>5. PointersLive' /\ VmmInv'
      BY <2>2 DEF MemoryInv, PointersLive, Pointers, VmmInv, LoadedIdx, globals, world
    <2> QED BY <2>4, <2>5 DEF MemoryInv
  <1> QED BY <1>1, <1>2, <1>3 DEF SerialNext

\* The memory of the driver and of the VMM is in order in every serial use.
THEOREM MemoryInvariant == SerialSpec => []MemoryInv
  <1>1. SerialInv /\ SerialInv' /\ MemoryInv /\ [SerialNext]_vars => MemoryInv'
    BY MemoryStep
  <1> QED BY <1>1, MemoryInit, SerialInvariant, PTL DEF SerialSpec

\* No pointer of common.c ever dangles and no two share a block, whichever of
\* its allocations failed before.
THEOREM PointersAlwaysLive == SerialSpec => []PointersLive
  <1>1. MemoryInv => PointersLive
    BY DEF MemoryInv
  <1> QED BY <1>1, MemoryInvariant, PTL

\* VmmComplete is what LoadedSoFar says before, and VmmInv after LOADED.
LEMMA CompleteFollows == SerialInv /\ MemoryInv => VmmComplete
  <1> SUFFICES ASSUME SerialInv, MemoryInv PROVE VmmComplete
    OBVIOUS
  <1>0. 0 \in ModIdx
    BY ConstantsAssumption DEF ModIdx
  <1>1. g_vmm_status # "UNLOADED" => start_sym /\ NULL \notin {g_stack, g_tls, mod_exec[0]}
    <2> SUFFICES ASSUME g_vmm_status # "UNLOADED"
                 PROVE  start_sym /\ NULL \notin {g_stack, g_tls, mod_exec[0]}
      OBVIOUS
    <2>1. VmmInv
      BY DEF MemoryInv
    <2>2. 0 \in LoadedIdx
      BY <1>0, <2>1 DEF VmmInv, LoadedIdx
    <2> QED BY <2>1, <2>2 DEF VmmInv
  <1>2. ASSUME NEW t \in Threads, pc[t] \in CallLabels
        PROVE  start_sym /\ NULL \notin {g_stack, g_tls, mod_exec[0]}
    <2>1. FlowOf(t) /\ LoadedSoFar(t) /\ TypeOK
      BY DEF SerialInv, MemoryInv
    <2>2. CASE pc[t] \in {"ld_init", "ld_md"}
      <3>1. 0 \in LoadedIdx
        BY <1>0, <2>1, <2>2 DEF LoadedSoFar, LoadedIdx, LoadLabels
      <3> QED BY <2>1, <2>2, <3>1 DEF LoadedSoFar, LoadLabels
    <2>3. CASE pc[t] \notin {"ld_init", "ld_md"}
      <3>1. g_vmm_status # "UNLOADED"
        BY <1>2, <2>1, <2>3 DEF CallLabels, FlowOf, LoadedSoFar
      <3> QED BY <1>1, <3>1
    <2> QED BY <2>2, <2>3
  <1>3. g_vmm_status # "UNLOADED" =>
          /\ {mod_exec[i] : i \in LoadedIdx} \cup {g_tls} \subseteq mapped
          /\ g_num_modules > 0
    BY DEF MemoryInv, VmmInv
  <1> QED BY <1>1, <1>2, <1>3 DEF VmmComplete

\* A VMM that is not unloaded is complete, and call_vmm never runs without
\* stack, TLS, entry point and first module.
THEOREM VmmAlwaysComplete == SerialSpec => []VmmComplete
  BY CompleteFollows, SerialInvariant, MemoryInvariant, PTL

\* TlsInBounds is what they say of the size of the TLS.
LEMMA TlsFollows == SerialInv /\ MemoryInv => (FixedCpus => TlsInBounds)
  <1> SUFFICES ASSUME SerialInv, MemoryInv, FixedCpus,
                      NEW t \in Threads, pc[t] \in CallLabels, NEW c \in CurrentCpus(t)
               PROVE  c < g_tls_size
    BY DEF TlsInBounds
  <1>1. c \in Cpu
    BY DEF CurrentCpus, SerialInv, TypeOK
  <1>2. g_tls_size = NumCpus
    <2>1. FlowOf(t) /\ LoadedSoFar(t) /\ VmmInv
      BY DEF SerialInv, MemoryInv
    <2>2. CASE pc[t] \in {"ld_init", "ld_md"}
      BY <2>1, <2>2 DEF LoadedSoFar
    <2>3. CASE pc[t] \notin {"ld_init", "ld_md"}
      <3>1. g_vmm_status # "UNLOADED"
        BY <2>1, <2>3 DEF CallLabels, FlowOf, LoadedSoFar
      <3> QED BY <2>1, <3>1 DEF VmmInv
    <2> QED BY <2>2, <2>3
  <1> QED BY <1>1, <1>2, ConstantsAssumption DEF Cpu

\* While the number of CPUs does not change, call_vmm finds the slot of every
\* CPU it may run on inside the TLS block.
THEOREM TlsAlwaysInBounds == SerialSpec => [](FixedCpus => TlsInBounds)
  BY TlsFollows, SerialInvariant, MemoryInvariant, PTL

=============================================================================
