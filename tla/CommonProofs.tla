---------------------------- MODULE CommonProofs ----------------------------
(***************************************************************************)
(* Proofs about Common.tla for every number of threads, modules, CPUs and  *)
(* blocks, when one thread at a time is inside common.c (SerialSpec).      *)
(*                                                                         *)
(* SerialInv is the inductive invariant.  A step of thread t leaves every  *)
(* other thread idle (OnlyOne), so only t's own label facts (FlowOf) and   *)
(* the bookkeeping of the CPUs (CpuInv) have to be re-established.         *)
(***************************************************************************)
EXTENDS Common, TLAPS

\* common_reset gives all its variables well-typed values.
LEMMA ResetType ==
  ASSUME TypeOK, common_reset,
         (op \in [Threads -> Ops])', (pc \in [Threads -> Labels])',
         (arg \in [Threads -> Files \cup {NULL}])', (ret \in [Threads -> Codes])',
         (affinity \in [Threads -> Cpu \cup {AnyCpu}])',
         (caller_affinity \in [Threads -> Cpu \cup {AnyCpu}])',
         (cpuid \in [Threads -> Int])'
  PROVE  TypeOK'
  <1>1. /\ (heap \in SUBSET Blocks)'
        /\ (mod_file \in [ModIdx -> Files \cup {NULL}])'
        /\ (mod_exec \in [ModIdx -> Blocks \cup {NULL}])'
        /\ (mapped \in SUBSET (Blocks \cup {NULL}))'
    BY DEF TypeOK, common_reset, ResetPointers
  <1>2. /\ g_num_modules' = 0 /\ g_num_cpus_started' = 0
        /\ g_vmm_status' = "UNLOADED"
        /\ start_sym' = FALSE /\ vmm_inited' = FALSE
        /\ g_stack' = NULL /\ g_tls' = NULL
        /\ UNCHANGED <<g_tls_size, vcpu>>
    BY DEF common_reset, ResetPointers
  <1>3. /\ (g_num_modules \in 0 .. MAX_NUM_MODULES)'
        /\ (g_num_cpus_started \in 0 .. NumCpus)'
    BY <1>2, ConstantsAssumption
  <1> QED BY <1>1, <1>2, <1>3 DEF TypeOK, Statuses

\* Every step of a thread keeps every variable in its type: in particular the
\* module counter, which only common_add_module's two separate tests bound.
LEMMA TypeStep ==
  ASSUME SerialInv, NEW t \in Threads, Step(t)
  PROVE  TypeOK'
  <1> USE DEF SerialInv, TypeOK, At, Goto, SetRet, Keep, Return, Failure,
          UnloadReturns, StopReturns, globals, world, pinning, Labels, Codes, Statuses,
          VcpuStates, Ops
  <1>f. FlowOf(t)
    OBVIOUS
  <1>1. CASE AddEnter(t)
    BY <1>1 DEF AddEnter, AddRefuses
  <1>2. CASE AddStore(t)
    BY <1>2, ConstantsAssumption DEF AddStore, FlowOf, ModIdx
  <1>3. CASE LoadEnter(t)
    BY <1>3 DEF LoadEnter
  <1>4. CASE LoadStack(t)
    BY <1>4 DEF LoadStack, platform_alloc_rw
  <1>5. CASE LoadTls(t)
    BY <1>5, ConstantsAssumption DEF LoadTls, TlsSlots, platform_alloc_rw
  <1>6. CASE LoadElf(t)
    <2>1. PICK n \in 0 .. g_num_modules : bfelf_load(n, TRUE) \/ bfelf_load(n, FALSE)
      <3>1. g_num_modules \in 0 .. g_num_modules
        OBVIOUS
      <3> QED BY <1>6, <3>1 DEF LoadElf
    <2>2. PICK b \in [0 .. n - 1 -> Blocks \ heap] :
            /\ heap' = heap \cup {b[i] : i \in 0 .. n - 1}
            /\ mod_exec' = [i \in ModIdx |-> IF i < n THEN b[i] ELSE mod_exec[i]]
            /\ start_sym' \in {TRUE, start_sym}
      BY <2>1 DEF bfelf_load
    <2>3. (heap \in SUBSET Blocks)'
      BY <2>2
    <2>4. (mod_exec \in [ModIdx -> Blocks \cup {NULL}])'
      BY <2>2, ConstantsAssumption DEF ModIdx
    <2>5. (start_sym \in BOOLEAN)'
      BY <2>2
    <2>6. /\ (pc \in [Threads -> Labels])'
          /\ (ret \in [Threads -> Codes])'
      BY <1>6 DEF LoadElf
    <2>7. UNCHANGED <<g_vmm_status, g_num_modules, mod_file, g_num_cpus_started,
                      g_stack, g_tls, g_tls_size, vmm_inited, mapped, vcpu,
                      cpuid, pinning, op, arg>>
      BY <1>6 DEF LoadElf
    <2> QED BY <2>3, <2>4, <2>5, <2>6, <2>7
  <1>7. CASE LoadInit(t)
    <2>0. (vmm_inited \in BOOLEAN)'
      BY <1>7 DEF LoadInit
    <2>1. (cpuid \in [Threads -> Int])'
      BY <1>7 DEF LoadInit
    <2>2. (pc \in [Threads -> Labels])' /\ (ret \in [Threads -> Codes])'
      BY <1>7 DEF LoadInit
    <2>3. UNCHANGED <<globals, heap, mapped, vcpu, pinning, op, arg>>
      BY <1>7 DEF LoadInit
    <2> QED BY <2>0, <2>1, <2>2, <2>3
  <1>8. CASE LoadMapModule(t)
    <2>1. cpuid[t] \in ModIdx
      BY <1>8, <1>f, ConstantsAssumption DEF LoadMapModule, ModulesLeft, FlowOf, ModIdx
    <2>2. (mapped \in SUBSET (Blocks \cup {NULL}))'
      BY <1>8, <2>1 DEF LoadMapModule
    <2>3. (cpuid \in [Threads -> Int])'
      BY <1>8 DEF LoadMapModule
    <2>4. /\ (pc \in [Threads -> Labels])'
          /\ (ret \in [Threads -> Codes])'
      BY <1>8 DEF LoadMapModule, call_vmm
    <2>5. UNCHANGED <<globals, heap, vmm_inited, vcpu, pinning, op, arg>>
      BY <1>8 DEF LoadMapModule
    <2> QED BY <2>2, <2>3, <2>4, <2>5
  <1>9. CASE LoadMapTls(t)
    BY <1>9 DEF LoadMapTls, call_vmm
  <1>10. CASE UnloadEnter(t)
    BY <1>10 DEF UnloadEnter
  <1>11. CASE UnloadFini(t)
    BY <1>11 DEF UnloadFini, call_vmm
  <1>12. CASE UnloadReset(t)
    <2>1. (pc \in [Threads -> Labels])' /\ (ret \in [Threads -> Codes])'
      BY <1>12 DEF UnloadReset
    <2>2. UNCHANGED <<cpuid, pinning, op, arg>>
      BY <1>12 DEF UnloadReset
    <2> QED BY <1>12, <2>1, <2>2, ResetType DEF UnloadReset
  <1>13. CASE StartEnter(t)
    BY <1>13, ConstantsAssumption DEF StartEnter
  <1>14. CASE StartLoop(t)
    <2>1. /\ (affinity \in [Threads -> Cpu \cup {AnyCpu}])'
          /\ (caller_affinity \in [Threads -> Cpu \cup {AnyCpu}])'
      <3>1. CASE UNCHANGED pinning
        BY <3>1
      <3>2. CASE Pin(t) /\ \E n \in CpuCounts : cpuid[t] < n
        <4>1. cpuid[t] \in Cpu
          BY <1>14, <1>f, <3>2, ConstantsAssumption DEF StartLoop, FlowOf, Cpu
        <4> QED BY <3>2, <4>1 DEF Pin
      <3> QED BY <1>14, <3>1, <3>2 DEF StartLoop
    <2>2. /\ (pc \in [Threads -> Labels])'
          /\ (ret \in [Threads -> Codes])'
      BY <1>14 DEF StartLoop
    <2>3. UNCHANGED <<globals, world, cpuid, op, arg>>
      BY <1>14 DEF StartLoop
    <2> QED BY <2>1, <2>2, <2>3
  <1>15. CASE StartInit(t)
    <2>0. cpuid[t] \in Cpu /\ cpuid[t] = g_num_cpus_started
      BY <1>15, <1>f DEF StartInit, FlowOf
    <2>1. /\ (vcpu \in [Cpu -> VcpuStates])'
          /\ (g_num_cpus_started \in 0 .. NumCpus)'
      BY <1>15, <2>0, ConstantsAssumption DEF StartInit, Cpu
    <2>2. /\ (pc \in [Threads -> Labels])'
          /\ (ret \in [Threads -> Codes])'
      BY <1>15 DEF StartInit
    <2>3. UNCHANGED <<g_vmm_status, g_num_modules, mod_file, mod_exec, start_sym,
                 g_stack, g_tls, g_tls_size,
                 heap, vmm_inited, mapped, cpuid, pinning, op, arg>>
      BY <1>15 DEF StartInit
    <2> QED BY <2>1, <2>2, <2>3
  <1>16. CASE StartVmcall(t)
    BY <1>16 DEF StartVmcall, Restore, FlowOf, AnyCpu
  <1>17. CASE StopEnter(t)
    BY <1>17 DEF StopEnter
  <1>18. CASE StopLoop(t)
    <2>1. /\ (affinity \in [Threads -> Cpu \cup {AnyCpu}])'
          /\ (caller_affinity \in [Threads -> Cpu \cup {AnyCpu}])'
      <3>1. CASE UNCHANGED pinning
        BY <3>1
      <3>2. CASE Pin(t) /\ cpuid[t] >= 0
        <4>1. cpuid[t] \in Cpu
          BY <1>18, <1>f, <3>2, ConstantsAssumption DEF StopLoop, FlowOf, Cpu
        <4> QED BY <3>2, <4>1 DEF Pin
      <3> QED BY <1>18, <3>1, <3>2 DEF StopLoop
    <2>2. /\ (pc \in [Threads -> Labels])'
          /\ (ret \in [Threads -> Codes])'
          /\ (g_vmm_status \in Statuses)'
      BY <1>18 DEF StopLoop
    <2>3. UNCHANGED <<g_num_modules, mod_file, mod_exec, start_sym,
                 g_num_cpus_started, g_stack, g_tls, g_tls_size,
                 world, cpuid, op, arg>>
      BY <1>18 DEF StopLoop
    <2> QED BY <2>1, <2>2, <2>3
  <1>19. CASE StopVmcall(t)
    BY <1>19 DEF StopVmcall
  <1>20. CASE StopFini(t)
    <2>0. cpuid[t] \in Cpu /\ cpuid[t] = g_num_cpus_started - 1
      BY <1>20, <1>f DEF StopFini, FlowOf
    <2>1. /\ (vcpu \in [Cpu -> VcpuStates])'
      BY <1>20 DEF StopFini, CpuStopped
    <2>6. (g_num_cpus_started \in 0 .. NumCpus)'
      BY <1>20, <2>0, ConstantsAssumption DEF StopFini, Cpu, CpuStopped
    <2>4. /\ (affinity \in [Threads -> Cpu \cup {AnyCpu}])'
          /\ (caller_affinity \in [Threads -> Cpu \cup {AnyCpu}])'
      BY <1>20 DEF StopFini, Restore
    <2>5. (cpuid \in [Threads -> Int])'
      BY <1>20 DEF StopFini
    <2>2. /\ (pc \in [Threads -> Labels])'
          /\ (ret \in [Threads -> Codes])'
          /\ (g_vmm_status \in Statuses)'
      BY <1>20 DEF StopFini
    <2>3. UNCHANGED <<g_num_modules, mod_file, mod_exec, start_sym,
                 g_stack, g_tls, g_tls_size, heap, vmm_inited, mapped, op, arg>>
      BY <1>20 DEF StopFini
    <2> QED BY <2>1, <2>2, <2>3, <2>4, <2>5, <2>6
  <1>21. CASE FiniEnter(t)
    BY <1>21 DEF FiniEnter
  <1>22. CASE FiniLoaded(t)
    BY <1>22 DEF FiniLoaded
  <1>23. CASE FiniCheck(t)
    <2>1. (pc \in [Threads -> Labels])' /\ (ret \in [Threads -> Codes])'
      BY <1>23 DEF FiniCheck
    <2>2. UNCHANGED <<cpuid, pinning, op, arg>>
      BY <1>23 DEF FiniCheck
    <2>3. CASE UNCHANGED <<globals, world>>
      BY <2>1, <2>2, <2>3
    <2>4. CASE common_reset
      BY <2>1, <2>2, <2>4, ResetType
    <2> QED BY <1>23, <2>3, <2>4 DEF FiniCheck
  <1>24. CASE DumpEnter(t)
    BY <1>24 DEF DumpEnter
  <1>25. CASE DumpCall(t)
    BY <1>25 DEF DumpCall, call_vmm
  <1> QED BY <1>1, <1>2, <1>3, <1>4, <1>5, <1>6, <1>7, <1>8, <1>9, <1>10, <1>11, <1>12,
             <1>13, <1>14, <1>15, <1>16, <1>17, <1>18, <1>19, <1>20, <1>21, <1>22, <1>23, <1>24, <1>25 DEF Step

\* While t is inside common.c, every other thread is and stays outside.
LEMMA OnlyOne ==
  ASSUME SerialInv, NEW t \in Threads, Step(t)
  PROVE  /\ pc[t] # "idle"
         /\ \A u \in Threads \ {t} : pc[u] = "idle" /\ pc'[u] = "idle"
  <1>1. pc[t] # "idle" /\ \A u \in Threads \ {t} : pc'[u] = pc[u]
    <2> USE DEF SerialInv, TypeOK, At, Goto, Return, Failure, UnloadReturns, StopReturns
    <2>1. CASE AddEnter(t)
      BY <2>1 DEF AddEnter
    <2>2. CASE AddStore(t)
      BY <2>2 DEF AddStore
    <2>3. CASE LoadEnter(t)
      BY <2>3 DEF LoadEnter
    <2>4. CASE LoadStack(t)
      BY <2>4 DEF LoadStack
    <2>5. CASE LoadTls(t)
      BY <2>5 DEF LoadTls
    <2>6. CASE LoadElf(t)
      BY <2>6 DEF LoadElf
    <2>7. CASE LoadInit(t)
      BY <2>7 DEF LoadInit
    <2>8. CASE LoadMapModule(t)
      BY <2>8 DEF LoadMapModule
    <2>9. CASE LoadMapTls(t)
      BY <2>9 DEF LoadMapTls
    <2>10. CASE UnloadEnter(t)
      BY <2>10 DEF UnloadEnter
    <2>11. CASE UnloadFini(t)
      BY <2>11 DEF UnloadFini
    <2>12. CASE UnloadReset(t)
      BY <2>12 DEF UnloadReset
    <2>13. CASE StartEnter(t)
      BY <2>13 DEF StartEnter
    <2>14. CASE StartLoop(t)
      BY <2>14 DEF StartLoop
    <2>15. CASE StartInit(t)
      BY <2>15 DEF StartInit
    <2>16. CASE StartVmcall(t)
      BY <2>16 DEF StartVmcall
    <2>17. CASE StopEnter(t)
      BY <2>17 DEF StopEnter
    <2>18. CASE StopLoop(t)
      BY <2>18 DEF StopLoop
    <2>19. CASE StopVmcall(t)
      BY <2>19 DEF StopVmcall
    <2>20. CASE StopFini(t)
      BY <2>20 DEF StopFini
    <2>21. CASE FiniEnter(t)
      BY <2>21 DEF FiniEnter
    <2>22. CASE FiniLoaded(t)
      BY <2>22 DEF FiniLoaded
    <2>23. CASE FiniCheck(t)
      BY <2>23 DEF FiniCheck
    <2>24. CASE DumpEnter(t)
      BY <2>24 DEF DumpEnter
    <2>25. CASE DumpCall(t)
      BY <2>25 DEF DumpCall
    <2> QED BY <2>1, <2>2, <2>3, <2>4, <2>5, <2>6, <2>7, <2>8, <2>9, <2>10, <2>11, <2>12,
               <2>13, <2>14, <2>15, <2>16, <2>17, <2>18, <2>19, <2>20, <2>21, <2>22, <2>23, <2>24, <2>25 DEF Step
  <1> QED BY <1>1 DEF SerialInv, OneAtATime

\* A step of t leaves it at a label whose facts hold.
LEMMA FlowStep ==
  ASSUME SerialInv, NEW t \in Threads, Step(t)
  PROVE  FlowOf(t)'
  <1> USE DEF SerialInv, TypeOK, At, Goto, SetRet, Return, Failure,
          UnloadReturns, StopReturns, globals, world, pinning, FlowOf
  <1>1. CASE AddEnter(t)
    <2>1. CASE pc'[t] = "add_store"
      <3>1. \A r \in Codes : ~AddRefuses(t, r)
        BY <1>1, <2>1 DEF AddEnter
      <3>2. ~AddRefuses(t, "INVALID_ARG") /\ ~AddRefuses(t, "VMM_CORRUPTED")
        BY <3>1 DEF Codes
      <3>3. ~AddRefuses(t, "INVALID_STATE") /\ ~AddRefuses(t, "MAX_MODULES_REACHED")
        BY <3>1 DEF Codes
      <3>4. g_vmm_status = "UNLOADED" /\ g_num_modules < MAX_NUM_MODULES
        BY <3>2, <3>3, ConstantsAssumption DEF AddRefuses, Statuses
      <3> QED BY <1>1, <2>1, <3>4 DEF AddEnter
    <2>2. CASE pc'[t] # "add_store"
      BY <1>1, <2>2 DEF AddEnter
    <2> QED BY <2>1, <2>2
  <1>2. CASE AddStore(t)
    BY <1>2, ConstantsAssumption DEF AddStore
  <1>3. CASE LoadEnter(t)
    BY <1>3, ConstantsAssumption DEF LoadEnter
  <1>4. CASE LoadStack(t)
    BY <1>4, ConstantsAssumption DEF LoadStack
  <1>5. CASE LoadTls(t)
    BY <1>5, ConstantsAssumption DEF LoadTls
  <1>6. CASE LoadElf(t)
    BY <1>6, ConstantsAssumption DEF LoadElf
  <1>7. CASE LoadInit(t)
    BY <1>7, ConstantsAssumption DEF LoadInit
  <1>8. CASE LoadMapModule(t)
    <2>1. /\ pc[t] = "ld_md" /\ cpuid[t] \in 0 .. g_num_modules
          /\ cpuid[t] < g_num_modules /\ UNCHANGED globals
      BY <1>8 DEF LoadMapModule, ModulesLeft
    <2>2. \/ pc'[t] = "ld_md" /\ cpuid'[t] = cpuid[t] + 1
          \/ pc'[t] = "unload"
      BY <1>8, <2>1 DEF LoadMapModule
    <2> QED BY <2>1, <2>2
  <1>9. CASE LoadMapTls(t)
    BY <1>9, ConstantsAssumption DEF LoadMapTls
  <1>10. CASE UnloadEnter(t)
    BY <1>10, ConstantsAssumption DEF UnloadEnter
  <1>11. CASE UnloadFini(t)
    BY <1>11, ConstantsAssumption DEF UnloadFini, call_vmm
  <1>12. CASE UnloadReset(t)
    BY <1>12, ConstantsAssumption DEF UnloadReset, common_reset
  <1>13. CASE StartEnter(t)
    BY <1>13, ConstantsAssumption DEF StartEnter, Cpu
  <1>14. CASE StartLoop(t)
    BY <1>14, ConstantsAssumption DEF StartLoop, Pin, Cpu
  <1>15. CASE StartInit(t)
    BY <1>15, ConstantsAssumption DEF StartInit, Cpu
  <1>16. CASE StartVmcall(t)
    <2>1. /\ cpuid[t] \in Cpu /\ cpuid[t] = g_num_cpus_started - 1
          /\ affinity[t] = cpuid[t]
          /\ pc[t] = "st_vmcall"
      BY <1>16 DEF StartVmcall
    <2>2. CASE /\ vcpu' = [vcpu EXCEPT ![affinity[t]] = "on"]
               /\ g_vmm_status' = "RUNNING"
               /\ cpuid' = [cpuid EXCEPT ![t] = @ + 1]
               /\ pc' = [pc EXCEPT ![t] = "st_loop"]
               /\ UNCHANGED g_num_cpus_started
      <3>1. \A c \in Cpu : c < cpuid'[t] => vcpu'[c] = "on"
        BY <2>1, <2>2, ConstantsAssumption DEF CpuInv, Cpu
      <3> QED BY <2>1, <2>2, <3>1 DEF Cpu
    <2>3. CASE pc' = [pc EXCEPT ![t] = "idle"]
      BY <2>3
    <2> QED BY <1>16, <2>2, <2>3 DEF StartVmcall
  <1>17. CASE StopEnter(t)
    BY <1>17, ConstantsAssumption DEF StopEnter
  <1>18. CASE StopLoop(t)
    BY <1>18, ConstantsAssumption DEF StopLoop, Pin, Cpu
  <1>19. CASE StopVmcall(t)
    BY <1>19, ConstantsAssumption DEF StopVmcall
  <1>20. CASE StopFini(t)
    BY <1>20, ConstantsAssumption DEF StopFini, CpuStopped, Restore
  <1>21. CASE FiniEnter(t)
    BY <1>21, ConstantsAssumption DEF FiniEnter
  <1>22. CASE FiniLoaded(t)
    BY <1>22, ConstantsAssumption DEF FiniLoaded
  <1>23. CASE FiniCheck(t)
    BY <1>23, ConstantsAssumption DEF FiniCheck, common_reset
  <1>24. CASE DumpEnter(t)
    BY <1>24, ConstantsAssumption DEF DumpEnter
  <1>25. CASE DumpCall(t)
    BY <1>25, ConstantsAssumption DEF DumpCall
  <1> QED BY <1>1, <1>2, <1>3, <1>4, <1>5, <1>6, <1>7, <1>8, <1>9, <1>10, <1>11, <1>12,
             <1>13, <1>14, <1>15, <1>16, <1>17, <1>18, <1>19, <1>20, <1>21, <1>22, <1>23, <1>24, <1>25 DEF Step

\* A step of t keeps the started CPUs and their count in agreement.
LEMMA CpuStep ==
  ASSUME SerialInv, NEW t \in Threads, Step(t)
  PROVE  CpuInv'
  <1> USE DEF SerialInv, TypeOK, At, Goto, SetRet, Return, Failure,
          UnloadReturns, StopReturns, globals, world, pinning, CpuInv
  <1>o. \A u \in Threads \ {t} : pc[u] = "idle" /\ pc'[u] = "idle"
    BY OnlyOne
  <1>1. CASE AddEnter(t)
    BY <1>1, <1>o, ConstantsAssumption DEF AddEnter, AddRefuses
  <1>2. CASE AddStore(t)
    BY <1>2, <1>o, ConstantsAssumption DEF AddStore
  <1>3. CASE LoadEnter(t)
    BY <1>3, <1>o, ConstantsAssumption DEF LoadEnter
  <1>4. CASE LoadStack(t)
    BY <1>4, <1>o, ConstantsAssumption DEF LoadStack
  <1>5. CASE LoadTls(t)
    BY <1>5, <1>o, ConstantsAssumption DEF LoadTls
  <1>6. CASE LoadElf(t)
    BY <1>6, <1>o, ConstantsAssumption DEF LoadElf
  <1>7. CASE LoadInit(t)
    BY <1>7, <1>o, ConstantsAssumption DEF LoadInit
  <1>8. CASE LoadMapModule(t)
    BY <1>8, <1>o, ConstantsAssumption DEF LoadMapModule
  <1>9. CASE LoadMapTls(t)
    BY <1>9, <1>o, ConstantsAssumption DEF LoadMapTls, FlowOf
  <1>10. CASE UnloadEnter(t)
    BY <1>10, <1>o, ConstantsAssumption DEF UnloadEnter
  <1>11. CASE UnloadFini(t)
    BY <1>11, <1>o, ConstantsAssumption DEF UnloadFini, call_vmm
  <1>12. CASE UnloadReset(t)
    BY <1>12, <1>o, ConstantsAssumption DEF UnloadReset, common_reset, FlowOf, Cpu
  <1>13. CASE StartEnter(t)
    BY <1>13, <1>o, ConstantsAssumption DEF StartEnter, FlowOf, Cpu
  <1>14. CASE StartLoop(t)
    BY <1>14, <1>o, ConstantsAssumption DEF StartLoop
  <1>15. CASE StartInit(t)
    <2>1. CASE UNCHANGED <<vcpu, g_num_cpus_started>>
      BY <1>15, <1>o, <2>1 DEF StartInit
    <2>2. CASE /\ vcpu' = [vcpu EXCEPT ![cpuid[t]] = "init"]
               /\ g_num_cpus_started' = g_num_cpus_started + 1
               /\ pc' = [pc EXCEPT ![t] = "st_vmcall"]
      <3>1. /\ cpuid[t] \in Cpu /\ cpuid[t] = g_num_cpus_started
            /\ g_vmm_status = IF cpuid[t] = 0 THEN "LOADED" ELSE "RUNNING"
            /\ UNCHANGED g_vmm_status
        BY <1>15 DEF StartInit, FlowOf
      <3>2. \A c \in Cpu : c < g_num_cpus_started => vcpu[c] = "on"
        BY <1>15, <3>1 DEF StartInit, FlowOf
      <3> QED BY <1>o, <2>2, <3>1, <3>2, ConstantsAssumption DEF Cpu
    <2> QED BY <1>15, <2>1, <2>2 DEF StartInit
  <1>16. CASE StartVmcall(t)
    BY <1>16, <1>o, ConstantsAssumption DEF StartVmcall, FlowOf, Cpu
  <1>17. CASE StopEnter(t)
    BY <1>17, <1>o, ConstantsAssumption DEF StopEnter, FlowOf
  <1>18. CASE StopLoop(t)
    BY <1>18, <1>o, ConstantsAssumption DEF StopLoop, FlowOf, Cpu
  <1>19. CASE StopVmcall(t)
    BY <1>19, <1>o, ConstantsAssumption DEF StopVmcall, FlowOf, Cpu
  <1>20. CASE StopFini(t)
    <2>1. /\ cpuid[t] \in Cpu /\ cpuid[t] = g_num_cpus_started - 1
          /\ g_vmm_status = "RUNNING" /\ pc[t] = "sp_fini"
      BY <1>20 DEF StopFini, FlowOf
    <2>2. CASE CpuStopped(t) /\ pc' = [pc EXCEPT ![t] = "sp_loop"] /\ UNCHANGED g_vmm_status
      BY <1>o, <2>1, <2>2, ConstantsAssumption DEF CpuStopped, Cpu
    <2>3. CASE g_vmm_status' = "CORRUPT" /\ UNCHANGED <<vcpu, g_num_cpus_started>>
      BY <2>1, <2>3 DEF Cpu
    <2> QED BY <1>20, <2>2, <2>3 DEF StopFini
  <1>21. CASE FiniEnter(t)
    BY <1>21, <1>o, ConstantsAssumption DEF FiniEnter
  <1>22. CASE FiniLoaded(t)
    BY <1>22, <1>o, ConstantsAssumption DEF FiniLoaded
  <1>23. CASE FiniCheck(t)
    BY <1>23, <1>o, ConstantsAssumption DEF FiniCheck, common_reset, Cpu
  <1>24. CASE DumpEnter(t)
    BY <1>24, <1>o, ConstantsAssumption DEF DumpEnter
  <1>25. CASE DumpCall(t)
    BY <1>25, <1>o, ConstantsAssumption DEF DumpCall
  <1> QED BY <1>1, <1>2, <1>3, <1>4, <1>5, <1>6, <1>7, <1>8, <1>9, <1>10, <1>11, <1>12,
             <1>13, <1>14, <1>15, <1>16, <1>17, <1>18, <1>19, <1>20, <1>21, <1>22, <1>23, <1>24, <1>25 DEF Step

\* Entering an API function from outside touches only the thread's own frame.
LEMMA CallStep ==
  ASSUME SerialInv, NEW t \in Threads, Quiet, CallAny(t)
  PROVE  SerialInv'
  <1>1. PICK o \in Ops, a \in Files \cup {NULL} : Call(t, o, a)
    BY DEF CallAny
  <1>2. /\ UNCHANGED <<globals, world, cpuid, ret>>
        /\ op' = [op EXCEPT ![t] = o]
        /\ arg' = [arg EXCEPT ![t] = a]
        /\ pc' = [pc EXCEPT ![t] = o]
        /\ affinity' = [affinity EXCEPT ![t] = AnyCpu]
        /\ caller_affinity' = [caller_affinity EXCEPT ![t] = AnyCpu]
    BY <1>1 DEF Call, Enter, Goto
  <1>3. TypeOK'
    BY <1>2 DEF SerialInv, TypeOK, Labels, globals, world
  <1>4. \A u \in Threads : pc'[u] = IF u = t THEN o ELSE "idle"
    BY <1>2 DEF SerialInv, TypeOK, Quiet
  <1>5. OneAtATime'
    BY <1>4 DEF OneAtATime
  <1>6. \A u \in Threads : FlowOf(u)'
    BY <1>4 DEF FlowOf, Ops
  <1>7. CpuInv'
    BY <1>2, <1>4 DEF SerialInv, CpuInv, Quiet, globals, world
  <1> QED BY <1>3, <1>5, <1>6, <1>7 DEF SerialInv

\* The zeroed globals of a fresh driver satisfy the invariant,
\* wherever its threads run.
LEMMA DriverInv ==
  ASSUME InitDriver, affinity \in [Threads -> Cpu \cup {AnyCpu}]
  PROVE  SerialInv
  <1>1. TypeOK
    <2>1. /\ g_num_modules \in 0 .. MAX_NUM_MODULES
          /\ g_num_cpus_started \in 0 .. NumCpus /\ g_tls_size \in 0 .. NumCpus
          /\ cpuid \in [Threads -> Int]
      BY ConstantsAssumption DEF InitDriver
    <2>0. start_sym \in BOOLEAN /\ vmm_inited \in BOOLEAN
      BY DEF InitDriver
    <2>2. /\ g_vmm_status \in Statuses
          /\ mod_file \in [ModIdx -> Files \cup {NULL}]
          /\ mod_exec \in [ModIdx -> Blocks \cup {NULL}]
          /\ g_stack \in Blocks \cup {NULL} /\ g_tls \in Blocks \cup {NULL}
          /\ heap \in SUBSET Blocks /\ mapped \in SUBSET (Blocks \cup {NULL})
          /\ vcpu \in [Cpu -> VcpuStates]
      BY DEF InitDriver, Statuses, VcpuStates
    <2>3. /\ op \in [Threads -> Ops] /\ pc \in [Threads -> Labels]
          /\ arg \in [Threads -> Files \cup {NULL}] /\ ret \in [Threads -> Codes]
          /\ affinity \in [Threads -> Cpu \cup {AnyCpu}]
          /\ caller_affinity \in [Threads -> Cpu \cup {AnyCpu}]
      BY DEF InitDriver, Ops, Labels, Codes
    <2> QED BY <2>0, <2>1, <2>2, <2>3 DEF TypeOK
  <1>2. OneAtATime /\ \A t \in Threads : FlowOf(t)
    BY DEF InitDriver, OneAtATime, FlowOf
  <1>3. CpuInv
    BY ConstantsAssumption DEF InitDriver, CpuInv, Cpu
  <1> QED BY <1>1, <1>2, <1>3 DEF SerialInv

\* No thread is pinned before the first call.
LEMMA InitInv == Init => SerialInv
  BY DriverInv DEF Init

\* Every step of a serial use of the driver preserves the invariant.
LEMMA NextInv == SerialInv /\ [SerialNext]_vars => SerialInv'
  <1> SUFFICES ASSUME SerialInv, [SerialNext]_vars PROVE SerialInv'
    OBVIOUS
  <1>1. CASE UNCHANGED vars
    BY <1>1 DEF SerialInv, TypeOK, OneAtATime, FlowOf, CpuInv,
                vars, globals, world, frames, pinning
  <1>2. ASSUME NEW t \in Threads, Quiet, CallAny(t) PROVE SerialInv'
    BY <1>2, CallStep
  <1>3. ASSUME NEW t \in Threads, Step(t) PROVE SerialInv'
    <2>1. \A u \in Threads \ {t} : pc'[u] = "idle"
      BY <1>3, OnlyOne
    <2>2. OneAtATime'
      BY <2>1 DEF OneAtATime
    <2>3. \A u \in Threads : FlowOf(u)'
      BY <1>3, <2>1, FlowStep DEF FlowOf
    <2> QED BY <1>3, <2>2, <2>3, TypeStep, CpuStep DEF SerialInv
  <1> QED BY <1>1, <1>2, <1>3 DEF SerialNext

\* SerialInv holds in every state common.c can reach when its API is used by
\* one thread at a time.
THEOREM SerialInvariant == SerialSpec => []SerialInv
  BY InitInv, NextInv, PTL DEF SerialSpec

\* Every variable of common.c keeps its type and every counter its range.
THEOREM TypeCorrect == SerialSpec => []TypeOK
  <1>1. SerialInv => TypeOK
    BY DEF SerialInv
  <1> QED BY <1>1, SerialInvariant, PTL

\* CpuAccounting is SerialInv, read off for all CPUs at once.
LEMMA AccountingFollows == SerialInv => CpuAccounting
  <1> SUFFICES ASSUME SerialInv PROVE CpuAccounting
    OBVIOUS
  <1> USE ConstantsAssumption DEF SerialInv, TypeOK, CpuInv, Cpu
  <1>1. \/ Started = 0 .. g_num_cpus_started - 1
        \/ g_num_cpus_started = 0 /\ Started = {0} /\ vcpu[0] = "init"
    <2>1. CASE g_num_cpus_started > 0
      BY <2>1 DEF Started
    <2>2. CASE g_num_cpus_started = 0 /\ vcpu[0] = "off"
      BY <2>2 DEF Started
    <2>3. CASE g_num_cpus_started = 0 /\ vcpu[0] # "off"
      BY <2>3 DEF Started
    <2> QED BY <2>1, <2>2, <2>3
  <1>2. \A c \in Cpu : c < g_num_cpus_started - 1 => vcpu[c] = "on"
    OBVIOUS
  <1>3. g_vmm_status \in {"UNLOADED", "LOADED"} =>
          Started \subseteq {0} /\ vcpu[0] \in {"off", "init"}
    BY DEF Started
  <1>4. g_vmm_status = "RUNNING" /\ Quiet =>
          g_num_cpus_started > 0 /\ vcpu[g_num_cpus_started - 1] # "stopped"
    BY DEF Quiet
  <1> QED BY <1>1, <1>2, <1>3, <1>4 DEF CpuAccounting

\* g_num_cpus_started counts the CPUs common_stop_vmm must take down, after
\* any sequence of starts and stops that fail at any point.
THEOREM CpusAccounted == SerialSpec => []CpuAccounting
  BY AccountingFollows, SerialInvariant, PTL

\* VmcallHasVmm is what FlowOf and CpuInv say of the labels of a vmcall.
LEMMA VmcallsFollow == SerialInv => VmcallHasVmm
  <1> SUFFICES ASSUME SerialInv, NEW t \in Threads PROVE
        /\ pc[t] \in {"st_init", "st_vmcall", "sp_vmcall", "sp_fini"} =>
             affinity[t] = cpuid[t]
        /\ pc[t] = "st_vmcall" => vcpu[cpuid[t]] = "init"
        /\ pc[t] = "sp_vmcall" => vcpu[cpuid[t]] \in {"init", "on"}
        /\ pc[t] = "sp_fini"   => vcpu[cpuid[t]] = "stopped"
    BY DEF VmcallHasVmm
  <1>1. pc[t] = "sp_vmcall" => \A u \in Threads : pc[u] # "sp_fini"
    BY DEF SerialInv, OneAtATime
  <1>2. pc[t] = "sp_vmcall" => vcpu[cpuid[t]] \in {"init", "on"}
    BY <1>1 DEF SerialInv, FlowOf, CpuInv, TypeOK, VcpuStates
  <1> QED BY <1>2 DEF SerialInv, FlowOf

\* Every vmcall and every per-CPU request reaches a CPU whose VMM expects it.
THEOREM VmcallsHaveVmm == SerialSpec => []VmcallHasVmm
  BY VmcallsFollow, SerialInvariant, PTL

\* Nothing runs on a corrupt VMM's memory or changes it any more.
LEMMA CorruptStep ==
  ASSUME SerialInv, NEW t \in Threads, Step(t), g_vmm_status = "CORRUPT"
  PROVE  UNCHANGED <<globals, world>>
  <1>f. FlowOf(t)
    BY DEF SerialInv
  <1>1. CASE \/ AddEnter(t) \/ LoadEnter(t) \/ UnloadEnter(t) \/ StartEnter(t)
             \/ StopEnter(t) \/ FiniEnter(t) \/ FiniLoaded(t) \/ FiniCheck(t)
             \/ DumpEnter(t) \/ DumpCall(t)
    BY <1>1 DEF AddEnter, LoadEnter, UnloadEnter, StartEnter, StopEnter,
              FiniEnter, FiniLoaded, FiniCheck, DumpEnter, DumpCall, At,
              globals, world
  <1>2. CASE \/ AddStore(t) \/ LoadStack(t) \/ LoadTls(t) \/ LoadElf(t)
             \/ LoadInit(t) \/ LoadMapModule(t) \/ LoadMapTls(t)
    BY <1>2, <1>f DEF AddStore, LoadStack, LoadTls, LoadElf, LoadInit, LoadMapModule,
              LoadMapTls, At, FlowOf
  <1>3. CASE \/ UnloadFini(t) \/ UnloadReset(t) \/ StartLoop(t)
             \/ StartInit(t) \/ StartVmcall(t) \/ StopLoop(t) \/ StopVmcall(t)
             \/ StopFini(t)
    BY <1>3, <1>f DEF UnloadFini, UnloadReset, StartLoop, StartInit, StartVmcall,
              StopLoop, StopVmcall, StopFini, At, FlowOf
  <1> QED BY <1>1, <1>2, <1>3 DEF Step

\* A corrupt driver stays corrupt and keeps its state and the CPUs' VMMs as they
\* are, and a thread about to enter the VMM is in common_dump_vmm: FlowOf has
\* another status at each other entry, although clean-ups start in many places.
THEOREM CorruptForEver == SerialSpec => CorruptIsFinal
  <1> DEFINE OnlyDump == \A t \in Threads : pc[t] \in EntryLabels => pc[t] = "du_call"
             Final    == g_vmm_status = "CORRUPT" => UNCHANGED <<globals, world>> /\ OnlyDump
  <1>1. SerialInv /\ g_vmm_status = "CORRUPT" => OnlyDump
    BY DEF SerialInv, FlowOf, EntryLabels, CallLabels
  <1>2. SerialInv /\ [SerialNext]_vars => [Final]_vars
    BY <1>1, CorruptStep DEF SerialNext, CallAny, Call, Enter
  <1> QED BY <1>2, SerialInvariant, PTL DEF SerialSpec, CorruptIsFinal

\* Outside RUNNING and CORRUPT no CPU has acknowledged a VMCALL_START.
LEMMA NotStarted ==
  ASSUME SerialInv, g_vmm_status \in {"UNLOADED", "LOADED"}
  PROVE  \A c \in Cpu : vcpu[c] \in {"off", "init"}
  <1>1. CpuInv /\ g_num_cpus_started \in 0 .. NumCpus
    BY DEF SerialInv, TypeOK
  <1>2. g_num_cpus_started <= 1
    BY <1>1 DEF CpuInv
  <1> TAKE c \in Cpu
  <1>3. CASE c = g_num_cpus_started - 1
    BY <1>1, <1>3 DEF CpuInv
  <1>4. CASE c >= g_num_cpus_started
    BY <1>1, <1>4 DEF CpuInv
  <1> QED BY <1>1, <1>2, <1>3, <1>4, ConstantsAssumption DEF Cpu

\* Only common_reset frees, and only where no CPU runs the VMM.
LEMMA FreeStep ==
  ASSUME SerialInv, NEW t \in Threads, Step(t), heap \ heap' # {}
  PROVE  /\ \A c \in Cpu : vcpu[c] \notin {"on", "stopped"}
         /\ g_vmm_status = "UNLOADED" \/ ~vmm_inited
  <1>1. CASE \/ AddEnter(t) \/ AddStore(t) \/ LoadEnter(t) \/ LoadInit(t)
             \/ LoadMapModule(t) \/ LoadMapTls(t) \/ UnloadEnter(t)
             \/ UnloadFini(t) \/ StartEnter(t) \/ StartLoop(t) \/ StartInit(t)
             \/ StartVmcall(t) \/ StopEnter(t) \/ StopLoop(t) \/ StopVmcall(t)
             \/ StopFini(t) \/ FiniEnter(t) \/ FiniLoaded(t) \/ DumpEnter(t)
             \/ DumpCall(t)
    BY <1>1 DEF AddEnter, AddStore, LoadEnter, LoadInit, LoadMapModule,
              LoadMapTls, UnloadEnter, UnloadFini, StartEnter, StartLoop,
              StartInit, StartVmcall, StopEnter, StopLoop, StopVmcall,
              StopFini, FiniEnter, FiniLoaded, DumpEnter, DumpCall, globals,
              world
  <1>2. CASE \/ LoadStack(t) \/ LoadTls(t) \/ LoadElf(t)
    BY <1>2 DEF LoadStack, LoadTls, LoadElf, platform_alloc_rw, bfelf_load
  <1>3. CASE UnloadReset(t)
    <2>1. FlowOf(t) /\ pc[t] = "un_reset"
      BY <1>3 DEF UnloadReset, At, SerialInv
    <2>2. \A c \in Cpu : vcpu[c] \notin {"on", "stopped"}
      BY <2>1, NotStarted DEF FlowOf
    <2> QED BY <2>1, <2>2 DEF FlowOf
  <1>4. CASE FiniCheck(t)
    <2>1. CASE g_vmm_status # "UNLOADED"
      BY <1>4, <2>1 DEF FiniCheck, world
    <2>2. CASE g_vmm_status = "UNLOADED"
      BY <2>2, NotStarted
    <2> QED BY <2>1, <2>2
  <1> QED BY <1>1, <1>2, <1>3, <1>4 DEF Step

\* No block is freed under a CPU that runs the VMM, nor before a loaded VMM has
\* acknowledged BF_REQUEST_FINI.
THEOREM MemoryFreedWhenDown == SerialSpec => FreedOnlyWhenDown
  <1>1. SerialInv /\ [SerialNext]_vars =>
          [heap \ heap' # {} =>
             /\ \A c \in Cpu : vcpu[c] \notin {"on", "stopped"}
             /\ g_vmm_status = "UNLOADED" \/ ~vmm_inited]_vars
    BY FreeStep DEF SerialNext, CallAny, Call, Enter, world
  <1> QED BY <1>1, SerialInvariant, PTL DEF SerialSpec, FreedOnlyWhenDown

\* The steps that move modules and memory all need the status UNLOADED.
LEMMA FrozenStep ==
  ASSUME SerialInv, NEW t \in Threads, Step(t),
         g_vmm_status # "UNLOADED", g_vmm_status' # "UNLOADED"
  PROVE  UNCHANGED <<g_num_modules, mod_file, mod_exec, g_stack, g_tls, heap>>
  <1>f. FlowOf(t)
    BY DEF SerialInv
  <1>1. CASE \/ AddEnter(t) \/ LoadEnter(t) \/ LoadInit(t) \/ LoadMapModule(t)
             \/ LoadMapTls(t) \/ UnloadEnter(t) \/ UnloadFini(t)
             \/ StartEnter(t) \/ StartLoop(t) \/ StartInit(t)
             \/ StartVmcall(t) \/ StopEnter(t) \/ StopLoop(t) \/ StopVmcall(t)
             \/ StopFini(t) \/ FiniEnter(t) \/ FiniLoaded(t) \/ DumpEnter(t)
             \/ DumpCall(t)
    BY <1>1 DEF AddEnter, LoadEnter, LoadInit, LoadMapModule, LoadMapTls,
              UnloadEnter, UnloadFini, StartEnter, StartLoop, StartInit,
              StartVmcall, StopEnter, StopLoop, StopVmcall, StopFini,
              FiniEnter, FiniLoaded, DumpEnter, DumpCall, globals, world
  <1>2. CASE \/ AddStore(t) \/ LoadStack(t) \/ LoadTls(t) \/ LoadElf(t)
    BY <1>2, <1>f DEF AddStore, LoadStack, LoadTls, LoadElf, At, FlowOf
  <1>3. CASE \/ UnloadReset(t) \/ FiniCheck(t)
    BY <1>3 DEF UnloadReset, FiniCheck, common_reset, globals, world
  <1> QED BY <1>1, <1>2, <1>3 DEF Step

\* The modules and the memory of a VMM do not change between load and unload.
THEOREM FrozenWhileLoaded == SerialSpec => VmmFrozen
  <1>1. SerialInv /\ [SerialNext]_vars =>
          [g_vmm_status # "UNLOADED" /\ g_vmm_status' # "UNLOADED" =>
             UNCHANGED <<g_num_modules, mod_file, mod_exec, g_stack, g_tls, heap>>]_vars
    BY FrozenStep DEF SerialNext, CallAny, Call, Enter, globals, world
  <1> QED BY <1>1, SerialInvariant, PTL DEF SerialSpec, VmmFrozen

-----------------------------------------------------------------------------
(* Common.tla implements VmmLifecycle.tla. *)

Up == {c \in Cpu : vcpu[c] = "on"}

\* Outside RUNNING and CORRUPT no CPU is up.
LEMMA NoneUp ==
  ASSUME SerialInv, g_vmm_status \in {"UNLOADED", "LOADED"}
  PROVE  Up = {}
  BY NotStarted DEF Up

\* The acknowledged VMCALL_START brings up the lowest CPU that is not up.
LEMMA VmcallBringsUp ==
  ASSUME SerialInv, NEW t \in Threads, StartVmcall(t)
  PROVE  Lifecycle!Next \/ UNCHANGED <<g_vmm_status, Up>>
  <1>1. /\ pc[t] = "st_vmcall" /\ FlowOf(t)
        /\ cpuid[t] \in Cpu /\ affinity[t] = cpuid[t]
        /\ cpuid[t] = g_num_cpus_started - 1
        /\ vcpu[cpuid[t]] = "init" /\ g_vmm_status \in {"LOADED", "RUNNING"}
    BY DEF StartVmcall, At, SerialInv, FlowOf
  <1>2. Up = 0 .. cpuid[t] - 1
    <2>1. \A c \in Cpu : vcpu[c] = "on" <=> c < cpuid[t]
      BY <1>1, ConstantsAssumption DEF SerialInv, TypeOK, CpuInv, Cpu
    <2> QED BY <1>1, <2>1, ConstantsAssumption DEF Up, Cpu
  <1>3. CASE UNCHANGED <<vcpu, g_vmm_status>>
    BY <1>3 DEF Up
  <1>4. CASE vcpu' = [vcpu EXCEPT ![affinity[t]] = "on"] /\ g_vmm_status' = "RUNNING"
    <2>1. Up' = Up \cup {cpuid[t]}
      BY <1>1, <1>4 DEF Up, SerialInv, TypeOK
    <2>2. \E c \in Cpu : Lifecycle!CpuUp(c)
      BY <1>1, <1>2, <1>4, <2>1 DEF Lifecycle!CpuUp, Up
    <2> QED BY <2>2 DEF Lifecycle!Next
  <1> QED BY <1>3, <1>4 DEF StartVmcall

\* The acknowledged VMCALL_STOP takes down the highest CPU that is up; it
\* changes nothing that callers see if that CPU never acknowledged its start.
LEMMA VmcallTakesDown ==
  ASSUME SerialInv, NEW t \in Threads, StopVmcall(t)
  PROVE  Lifecycle!Next \/ UNCHANGED <<g_vmm_status, Up>>
  <1>1. /\ pc[t] = "sp_vmcall" /\ g_vmm_status = "RUNNING"
        /\ cpuid[t] \in Cpu /\ affinity[t] = cpuid[t]
        /\ cpuid[t] = g_num_cpus_started - 1
    BY DEF StopVmcall, At, SerialInv, FlowOf
  <1>2. UNCHANGED g_vmm_status
    BY DEF StopVmcall, globals
  <1>3. CASE UNCHANGED vcpu
    BY <1>2, <1>3 DEF Up
  <1>4. CASE vcpu' = [vcpu EXCEPT ![affinity[t]] = "stopped"]
    <2>1. Up' = Up \ {cpuid[t]}
      BY <1>1, <1>4 DEF Up, SerialInv, TypeOK
    <2>2. CASE vcpu[cpuid[t]] = "on"
      <3>1. Up = 0 .. cpuid[t]
        BY <1>1, <2>2, ConstantsAssumption DEF Up, SerialInv, TypeOK, CpuInv, Cpu
      <3>2. \E c \in Cpu : Lifecycle!CpuDown(c)
        BY <1>1, <1>2, <2>1, <3>1 DEF Lifecycle!CpuDown, Up
      <3> QED BY <3>2 DEF Lifecycle!Next
    <2>3. CASE vcpu[cpuid[t]] # "on"
      BY <1>2, <2>1, <2>3 DEF Up
    <2> QED BY <2>2, <2>3
  <1> QED BY <1>3, <1>4 DEF StopVmcall

\* Every other step changes the status as the lifecycle allows, or nothing.
LEMMA LifecycleStep ==
  ASSUME SerialInv, NEW t \in Threads, Step(t)
  PROVE  Lifecycle!Next \/ UNCHANGED <<g_vmm_status, Up>>
  <1>f. FlowOf(t)
    BY DEF SerialInv
  <1>1. CASE \/ AddEnter(t) \/ AddStore(t) \/ LoadEnter(t) \/ LoadStack(t)
             \/ LoadTls(t) \/ LoadElf(t) \/ LoadInit(t) \/ LoadMapModule(t)
             \/ UnloadEnter(t) \/ StartEnter(t) \/ StartLoop(t)
             \/ StopEnter(t) \/ FiniEnter(t) \/ FiniLoaded(t)
             \/ DumpEnter(t) \/ DumpCall(t)
    BY <1>1 DEF AddEnter, AddStore, LoadEnter, LoadStack, LoadTls, LoadElf,
                LoadInit, LoadMapModule, UnloadEnter, StartEnter, StartLoop,
                StopEnter, FiniEnter, FiniLoaded, DumpEnter, DumpCall,
                Up, globals, world
  <1>2. CASE LoadMapTls(t)
    <2>1. CASE g_vmm_status' = "LOADED" /\ UNCHANGED vcpu
      BY <1>2, <1>f, <2>1 DEF LoadMapTls, At, FlowOf, Up, Lifecycle!Next, Lifecycle!Load
    <2>2. CASE UNCHANGED <<g_vmm_status, vcpu>>
      BY <2>2 DEF Up
    <2> QED BY <1>2, <2>1, <2>2 DEF LoadMapTls
  <1>3. CASE UnloadFini(t)
    <2>1. g_vmm_status = "LOADED" /\ UNCHANGED Up
      BY <1>3, <1>f DEF UnloadFini, At, FlowOf, Up
    <2> QED BY <1>3, <2>1 DEF UnloadFini, Up, Lifecycle!Next, Lifecycle!Corrupt
  <1>4. CASE UnloadReset(t)
    <2>1. /\ g_vmm_status \in {"UNLOADED", "LOADED"}
          /\ g_vmm_status' = "UNLOADED" /\ UNCHANGED Up
      BY <1>4, <1>f DEF UnloadReset, At, FlowOf, Up, common_reset
    <2> QED BY <2>1, NoneUp DEF Up, Lifecycle!Next, Lifecycle!Unload
  <1>5. CASE StartInit(t)
    <2>1. /\ cpuid[t] \in Cpu /\ vcpu[cpuid[t]] # "on" /\ UNCHANGED g_vmm_status
      BY <1>5, <1>f DEF StartInit, At, FlowOf, SerialInv, TypeOK, CpuInv, Cpu
    <2> QED BY <1>5, <2>1 DEF StartInit, Up, SerialInv, TypeOK
  <1>6. CASE StartVmcall(t)
    BY <1>6, VmcallBringsUp
  <1>7. CASE StopLoop(t)
    <2>1. g_vmm_status = "RUNNING" /\ UNCHANGED Up
      BY <1>7, <1>f DEF StopLoop, At, FlowOf, Up, world
    <2>2. CASE UNCHANGED g_vmm_status
      BY <2>1, <2>2
    <2>3. CASE g_vmm_status' = "CORRUPT"
      BY <2>1, <2>3 DEF Up, Lifecycle!Next, Lifecycle!Corrupt
    <2>4. CASE cpuid[t] < 0 /\ g_vmm_status' = "LOADED"
      <3>1. Up = {}
        BY <1>7, <1>f, <2>4 DEF StopLoop, At, FlowOf, Up, SerialInv, TypeOK, CpuInv, Cpu
      <3> QED BY <2>1, <2>4, <3>1 DEF Up, Lifecycle!Next, Lifecycle!Stopped
    <2> QED BY <1>7, <2>2, <2>3, <2>4 DEF StopLoop
  <1>8. CASE StopVmcall(t)
    BY <1>8, VmcallTakesDown
  <1>9. CASE StopFini(t)
    <2>1. /\ g_vmm_status = "RUNNING" /\ cpuid[t] \in Cpu
          /\ vcpu[cpuid[t]] = "stopped"
      BY <1>9, <1>f DEF StopFini, At, FlowOf
    <2>2. UNCHANGED Up
      BY <1>9, <2>1 DEF StopFini, CpuStopped, Up, SerialInv, TypeOK
    <2> QED BY <1>9, <2>1, <2>2 DEF StopFini, Up, Lifecycle!Next, Lifecycle!Corrupt
  <1>10. CASE FiniCheck(t)
    BY <1>10 DEF FiniCheck, common_reset, Up, globals, world
  <1> QED BY <1>1, <1>2, <1>3, <1>4, <1>5, <1>6, <1>7, <1>8, <1>9, <1>10 DEF Step

\* Whatever fails inside it, common.c shows its callers the life of a VMM that
\* VmmLifecycle describes: CPUs go up and down in order, and the VMM is unloaded
\* only when none is up.
THEOREM LifecycleImplemented == SerialSpec => ImplementsLifecycle
  <1>1. Init => Lifecycle!Init
    BY DEF Init, InitDriver, Lifecycle!Init
  <1>2. SerialInv /\ [SerialNext]_vars => [Lifecycle!Next]_(Lifecycle!lvars)
    <2> SUFFICES ASSUME SerialInv, [SerialNext]_vars
                 PROVE  Lifecycle!Next \/ UNCHANGED <<g_vmm_status, Up>>
      BY DEF Lifecycle!lvars, Up
    <2>1. CASE UNCHANGED vars
      BY <2>1 DEF vars, globals, world, Up
    <2>2. ASSUME NEW t \in Threads, CallAny(t)
          PROVE  UNCHANGED <<g_vmm_status, Up>>
      BY <2>2 DEF CallAny, Call, Enter, globals, world, Up
    <2>3. ASSUME NEW t \in Threads, Step(t)
          PROVE  Lifecycle!Next \/ UNCHANGED <<g_vmm_status, Up>>
      BY <2>3, LifecycleStep
    <2> QED BY <2>1, <2>2, <2>3 DEF SerialNext
  <1> QED BY <1>1, <1>2, SerialInvariant, PTL DEF SerialSpec, ImplementsLifecycle, Lifecycle!Spec

=============================================================================
