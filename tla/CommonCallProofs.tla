-------------------------- MODULE CommonCallProofs --------------------------
(***************************************************************************)
(* Proofs about whole calls of the API of Common.tla: that each ends after *)
(* a bounded number of steps, and that its return code tells the truth.    *)
(* Both are for one thread at a time (SerialSpec).                         *)
(***************************************************************************)
EXTENDS CommonMemoryProofs

-----------------------------------------------------------------------------
(* Calls end. *)

\* Each step of a call lowers the number of steps that are left.
LEMMA ShorterStep ==
  ASSUME SerialInv, NEW t \in Threads, Step(t)
  PROVE  0 <= StepsLeft(t)' /\ StepsLeft(t)' < StepsLeft(t)
  <1>c. /\ MAX_NUM_MODULES \in Nat /\ NumCpus \in Nat
        /\ g_num_modules \in 0 .. MAX_NUM_MODULES /\ g_num_cpus_started \in 0 .. NumCpus
        /\ cpuid \in [Threads -> Int] /\ pc \in [Threads -> Labels]
    BY ConstantsAssumption DEF SerialInv, TypeOK
  <1>f. FlowOf(t)
    BY DEF SerialInv
  <1> USE <1>c DEF At, Goto, Return, Failure, UnloadReturns, StopReturns,
             StepsLeft, Rank, RoundsLeft
  <1>1. CASE AddEnter(t)
    BY <1>1, <1>f DEF AddEnter, FlowOf, globals
  <1>2. CASE AddStore(t)
    BY <1>2, <1>f DEF AddStore, FlowOf, globals
  <1>3. CASE LoadEnter(t)
    BY <1>3, <1>f DEF LoadEnter, FlowOf, globals
  <1>4. CASE LoadStack(t)
    BY <1>4, <1>f DEF LoadStack, FlowOf, globals
  <1>5. CASE LoadTls(t)
    BY <1>5, <1>f DEF LoadTls, FlowOf, globals
  <1>6. CASE LoadElf(t)
    <2>1. pc[t] = "ld_elf" /\ pc'[t] \in {"ld_init", "unload"}
      BY <1>6 DEF LoadElf
    <2> QED BY <2>1
  <1>7. CASE LoadInit(t)
    BY <1>7, <1>f DEF LoadInit, FlowOf, globals
  <1>8. CASE LoadMapModule(t)
    BY <1>8, <1>f DEF LoadMapModule, FlowOf, globals, ModulesLeft
  <1>9. CASE LoadMapTls(t)
    BY <1>9, <1>f DEF LoadMapTls, FlowOf, globals
  <1>10. CASE UnloadEnter(t)
    BY <1>10, <1>f DEF UnloadEnter, FlowOf, globals
  <1>11. CASE UnloadFini(t)
    BY <1>11, <1>f DEF UnloadFini, FlowOf, globals
  <1>12. CASE UnloadReset(t)
    BY <1>12, <1>f DEF UnloadReset, FlowOf, globals, common_reset
  <1>13. CASE StartEnter(t)
    BY <1>13, <1>f DEF StartEnter, FlowOf, globals
  <1>14. CASE StartLoop(t)
    BY <1>14, <1>f DEF StartLoop, FlowOf, globals, Cpu
  <1>15. CASE StartInit(t)
    BY <1>15, <1>f DEF StartInit, FlowOf, globals, Cpu
  <1>16. CASE StartVmcall(t)
    BY <1>16, <1>f DEF StartVmcall, FlowOf, globals
  <1>17. CASE StopEnter(t)
    BY <1>17, <1>f DEF StopEnter, FlowOf, globals
  <1>18. CASE StopLoop(t)
    BY <1>18, <1>f DEF StopLoop, FlowOf, globals
  <1>19. CASE StopVmcall(t)
    BY <1>19, <1>f DEF StopVmcall, FlowOf, Cpu
  <1>20. CASE StopFini(t)
    BY <1>20, <1>f DEF StopFini, FlowOf, Cpu
  <1>21. CASE FiniEnter(t)
    BY <1>21, <1>f DEF FiniEnter, FlowOf, globals
  <1>22. CASE FiniLoaded(t)
    BY <1>22, <1>f DEF FiniLoaded, FlowOf, globals
  <1>23. CASE FiniCheck(t)
    BY <1>23, <1>f DEF FiniCheck, FlowOf, globals, common_reset
  <1>24. CASE DumpEnter(t)
    BY <1>24, <1>f DEF DumpEnter, FlowOf, globals
  <1>25. CASE DumpCall(t)
    BY <1>25, <1>f DEF DumpCall, FlowOf, globals
  <1> QED BY <1>1, <1>2, <1>3, <1>4, <1>5, <1>6, <1>7, <1>8, <1>9, <1>10, <1>11, <1>12, <1>13, <1>14, <1>15, <1>16, <1>17, <1>18, <1>19, <1>20, <1>21, <1>22, <1>23, <1>24, <1>25 DEF Step

\* The bound is a number, and nought once the call has returned.
LEMMA StepsNat ==
  ASSUME SerialInv, NEW t \in Threads
  PROVE  StepsLeft(t) \in Nat /\ (pc[t] = "idle" => StepsLeft(t) = 0)
  <1>1. /\ MAX_NUM_MODULES \in Nat /\ NumCpus \in Nat
        /\ g_num_modules \in 0 .. MAX_NUM_MODULES /\ g_num_cpus_started \in 0 .. NumCpus
        /\ cpuid[t] \in Int /\ pc[t] \in Labels
    BY ConstantsAssumption DEF SerialInv, TypeOK
  <1>2. FlowOf(t)
    BY DEF SerialInv
  <1>3. RoundsLeft(t) \in Int /\ (pc[t] \in {"sp_fini", "sp_vmcall", "sp_loop"} => RoundsLeft(t) >= -3)
        /\ (pc[t] \notin {"sp_fini", "sp_vmcall", "sp_loop"} => RoundsLeft(t) >= 0)
        /\ (pc[t] = "idle" => RoundsLeft(t) = 0)
    BY <1>1, <1>2 DEF RoundsLeft, FlowOf, Cpu
  <1>4. /\ Rank[pc[t]] \in Nat /\ (pc[t] = "idle" => Rank[pc[t]] = 0)
        /\ pc[t] \in {"sp_fini", "sp_vmcall", "sp_loop"} => Rank[pc[t]] >= 3
    BY <1>1 DEF Rank, Labels, Ops
  <1> QED BY <1>3, <1>4 DEF StepsLeft

\* The same after a step.
LEMMA StepsNatNext ==
  (SerialInv => \A t \in Threads : StepsLeft(t) \in Nat /\ (pc[t] = "idle" => StepsLeft(t) = 0))'
  <1>1. SerialInv => \A t \in Threads : StepsLeft(t) \in Nat /\ (pc[t] = "idle" => StepsLeft(t) = 0)
    BY StepsNat
  <1> QED BY <1>1, PTL

\* Every call of the API ends: no loop of common.c runs for ever, whatever the
\* platform and the VMM answer, and no clean-up is entered twice.
THEOREM CallsAlwaysEnd == SerialSpec => CallsGetShorter
  <1>1. SerialInv /\ [SerialNext]_vars =>
          [\A t \in Threads : pc[t] # "idle" =>
             0 <= StepsLeft(t)' /\ StepsLeft(t)' < StepsLeft(t)]_vars
    <2> SUFFICES ASSUME SerialInv, SerialNext, NEW t \in Threads, pc[t] # "idle"
                 PROVE  0 <= StepsLeft(t)' /\ StepsLeft(t)' < StepsLeft(t)
      OBVIOUS
    <2>1. PICK u \in Threads : (Quiet /\ CallAny(u)) \/ Step(u)
      BY DEF SerialNext
    <2>2. Step(u) /\ u = t
      BY <2>1, OnlyOne DEF Quiet
    <2> QED BY <2>2, ShorterStep
  <1> QED BY <1>1, SerialInvariant, PTL DEF SerialSpec, CallsGetShorter

-----------------------------------------------------------------------------
(* Results are true. *)

UnloadLabels == {"unload", "un_fini", "un_reset"}
StopLabels   == {"stop", "sp_loop", "sp_vmcall", "sp_fini"}

\* On whose behalf a thread is at a label, and what the call that led it there
\* has already found out: a clean-up is under way with the error of the load or
\* of the start it belongs to, common_fini unloads a VMM that is LOADED.
OnBehalf(t) ==
  /\ pc[t] \in {"add", "add_store"} => op[t] = "add"
  /\ pc[t] \in LoadLabels \cup {"load"} => op[t] = "load"
  /\ pc[t] \in {"start", "st_loop", "st_init", "st_vmcall"} => op[t] = "start"
  /\ pc[t] \in {"fini", "fi_loaded", "fi_check"} => op[t] = "fini"
  /\ pc[t] \in {"dump", "du_call"} => op[t] = "dump"
  /\ pc[t] \in UnloadLabels =>
       \/ op[t] = "unload"
       \/ op[t] = "load" /\ ret[t] # "SUCCESS" /\ g_vmm_status = "UNLOADED"
       \/ op[t] = "fini" /\ g_vmm_status = "LOADED"
  /\ pc[t] \in StopLabels =>
       \/ op[t] \in {"stop", "fini"}
       \/ op[t] = "start" /\ ret[t] # "SUCCESS"
  /\ pc[t] = "fi_check" => g_vmm_status # "LOADED"

\* Without modules there is no VMM's memory either.
NothingLoaded == g_num_modules = 0 => g_stack = NULL /\ g_tls = NULL

ResultInv == (\A t \in Threads : OnBehalf(t)) /\ NothingLoaded

\* A step leaves its thread at a label that its call may reach.
LEMMA OnBehalfStep ==
  ASSUME SerialInv, ResultInv, NEW t \in Threads, Step(t)
  PROVE  OnBehalf(t)'
  <1>c. /\ pc \in [Threads -> Labels] /\ op \in [Threads -> Ops]
        /\ ret \in [Threads -> Codes]
    BY DEF SerialInv, TypeOK
  <1>f. FlowOf(t) /\ OnBehalf(t)
    BY DEF SerialInv, ResultInv
  <1> USE <1>c DEF At, Goto, SetRet, Keep, Return, Failure, UnloadReturns, StopReturns,
             OnBehalf, UnloadLabels, StopLabels, LoadLabels
  <1>1. CASE AddEnter(t)
    BY <1>1, <1>f DEF AddEnter, FlowOf, globals
  <1>2. CASE AddStore(t)
    BY <1>2, <1>f DEF AddStore, FlowOf, globals
  <1>3. CASE LoadEnter(t)
    BY <1>3, <1>f DEF LoadEnter, FlowOf, globals
  <1>4. CASE LoadStack(t)
    BY <1>4, <1>f DEF LoadStack, FlowOf, globals
  <1>5. CASE LoadTls(t)
    BY <1>5, <1>f DEF LoadTls, FlowOf, globals
  <1>6. CASE LoadElf(t)
    BY <1>6, <1>f DEF LoadElf, FlowOf, globals
  <1>7. CASE LoadInit(t)
    BY <1>7, <1>f DEF LoadInit, FlowOf, globals, call_vmm
  <1>8. CASE LoadMapModule(t)
    BY <1>8, <1>f DEF LoadMapModule, FlowOf, globals, call_vmm
  <1>9. CASE LoadMapTls(t)
    BY <1>9, <1>f DEF LoadMapTls, FlowOf, globals
  <1>10. CASE UnloadEnter(t)
    BY <1>10, <1>f DEF UnloadEnter, FlowOf, globals
  <1>11. CASE UnloadFini(t)
    BY <1>11, <1>f DEF UnloadFini, FlowOf, globals, call_vmm
  <1>12. CASE UnloadReset(t)
    BY <1>12, <1>f DEF UnloadReset, FlowOf, globals, common_reset
  <1>13. CASE StartEnter(t)
    BY <1>13, <1>f DEF StartEnter, FlowOf, globals
  <1>14. CASE StartLoop(t)
    BY <1>14, <1>f DEF StartLoop, FlowOf, globals
  <1>15. CASE StartInit(t)
    BY <1>15, <1>f DEF StartInit, FlowOf, globals, call_vmm
  <1>16. CASE StartVmcall(t)
    BY <1>16, <1>f DEF StartVmcall, FlowOf, globals
  <1>17. CASE StopEnter(t)
    BY <1>17, <1>f DEF StopEnter, FlowOf, globals
  <1>18. CASE StopLoop(t)
    BY <1>18, <1>f DEF StopLoop, FlowOf, globals
  <1>19. CASE StopVmcall(t)
    BY <1>19, <1>f DEF StopVmcall, FlowOf, globals
  <1>20. CASE StopFini(t)
    BY <1>20, <1>f DEF StopFini, FlowOf, globals, call_vmm
  <1>21. CASE FiniEnter(t)
    BY <1>21, <1>f DEF FiniEnter, FlowOf, globals
  <1>22. CASE FiniLoaded(t)
    BY <1>22, <1>f DEF FiniLoaded, FlowOf, globals
  <1>23. CASE FiniCheck(t)
    BY <1>23, <1>f DEF FiniCheck, FlowOf, globals, common_reset
  <1>24. CASE DumpEnter(t)
    BY <1>24, <1>f DEF DumpEnter, FlowOf, globals
  <1>25. CASE DumpCall(t)
    BY <1>25, <1>f DEF DumpCall, FlowOf, globals
  <1> QED BY <1>1, <1>2, <1>3, <1>4, <1>5, <1>6, <1>7, <1>8, <1>9, <1>10, <1>11, <1>12, <1>13, <1>14, <1>15, <1>16, <1>17, <1>18, <1>19, <1>20, <1>21, <1>22, <1>23, <1>24, <1>25 DEF Step

\* The stack and the TLS are only allocated for modules that are there.
LEMMA NothingLoadedStep ==
  ASSUME SerialInv, MemoryInv, ResultInv, NEW t \in Threads, Step(t)
  PROVE  NothingLoaded'
  <1>c. MAX_NUM_MODULES \in Nat /\ g_num_modules \in 0 .. MAX_NUM_MODULES
    BY ConstantsAssumption DEF SerialInv, TypeOK
  <1>1. CASE Elsewhere(t) \/ LoadElf(t) \/ LoadMapModule(t) \/ LoadMapTls(t)
    <2>1. UNCHANGED <<g_num_modules, g_stack, g_tls>>
      BY <1>1, ElsewhereFrame DEF memory, LoadElf, LoadMapModule, LoadMapTls, globals
    <2> QED BY <2>1 DEF ResultInv, NothingLoaded
  <1>2. CASE AddStore(t)
    BY <1>2, <1>c DEF AddStore, NothingLoaded
  <1>3. CASE LoadStack(t) \/ LoadTls(t)
    <2>1. pc[t] \in LoadLabels /\ UNCHANGED g_num_modules
      BY <1>3 DEF LoadStack, LoadTls, At, LoadLabels
    <2> QED BY <2>1, <1>c DEF MemoryInv, LoadedSoFar, NothingLoaded
  <1>4. CASE UnloadReset(t)
    BY <1>4 DEF UnloadReset, common_reset, ResetPointers, NothingLoaded
  <1>5. CASE FiniCheck(t)
    BY <1>5 DEF FiniCheck, common_reset, ResetPointers, globals, ResultInv, NothingLoaded
  <1> QED BY <1>1, <1>2, <1>3, <1>4, <1>5 DEF Step, Elsewhere

\* ResultInv holds of a driver nobody has called, of a call that begins, and
\* after every step.
LEMMA ResultStep ==
  SerialInv /\ MemoryInv /\ ResultInv /\ [SerialNext]_vars => ResultInv'
  <1> SUFFICES ASSUME SerialInv, MemoryInv, ResultInv, [SerialNext]_vars PROVE ResultInv'
    OBVIOUS
  <1>1. CASE UNCHANGED vars
    BY <1>1 DEF ResultInv, OnBehalf, NothingLoaded, vars, globals, frames
  <1>2. ASSUME NEW t \in Threads, Step(t) PROVE ResultInv'
    <2>1. \A u \in Threads \ {t} : OnBehalf(u)'
      <3>1. \A u \in Threads \ {t} : pc'[u] = "idle"
        BY <1>2, OnlyOne
      <3> QED BY <3>1 DEF OnBehalf, LoadLabels, UnloadLabels, StopLabels
    <2> QED BY <1>2, <2>1, OnBehalfStep, NothingLoadedStep DEF ResultInv
  <1>3. ASSUME NEW t \in Threads, Quiet, CallAny(t) PROVE ResultInv'
    <2>1. PICK o \in Ops, a \in Files \cup {NULL} : Call(t, o, a)
      BY <1>3 DEF CallAny
    <2>2. /\ pc' = [pc EXCEPT ![t] = o] /\ op' = [op EXCEPT ![t] = o]
          /\ UNCHANGED globals
      BY <2>1 DEF Call, Enter, Goto
    <2>3. pc'[t] = o /\ op'[t] = o /\ \A u \in Threads \ {t} : pc'[u] = "idle"
      BY <1>3, <2>2 DEF Quiet, SerialInv, TypeOK
    <2>4. \A u \in Threads : OnBehalf(u)'
      BY <2>3 DEF OnBehalf, Ops, LoadLabels, UnloadLabels, StopLabels
    <2> QED BY <2>2, <2>4 DEF ResultInv, NothingLoaded, globals
  <1> QED BY <1>1, <1>2, <1>3 DEF SerialNext

\* A driver nobody has called is at no label.
LEMMA ResultInit == Init => ResultInv
  BY DEF Init, InitDriver, ResultInv, OnBehalf, NothingLoaded, LoadLabels, UnloadLabels, StopLabels

\* What OnBehalf says of a call holds throughout every serial use of the driver.
LEMMA ResultInvariant == SerialSpec => []ResultInv
  <1>1. SerialInv /\ MemoryInv /\ ResultInv /\ [SerialNext]_vars => ResultInv'
    BY ResultStep
  <1> QED BY <1>1, ResultInit, SerialInvariant, MemoryInvariant, PTL DEF SerialSpec

\* common_reset leaves nothing.
LEMMA ResetEmpties ==
  ASSUME common_reset
  PROVE  Empty' /\ g_vmm_status' = "UNLOADED"
  BY ConstantsAssumption DEF common_reset, ResetPointers, Empty, Pointers, ModIdx

\* Nothing is left when there are no modules.
LEMMA NoModulesEmpty ==
  ASSUME SerialInv, MemoryInv, ResultInv, g_num_modules = 0
  PROVE  Empty
  <1>1. \A i \in ModIdx : mod_exec[i] = NULL
    BY ConstantsAssumption DEF MemoryInv, PointersLive, ModIdx
  <1>2. g_stack = NULL /\ g_tls = NULL
    BY DEF ResultInv, NothingLoaded
  <1> QED BY <1>1, <1>2, ConstantsAssumption DEF Empty, Pointers, ModIdx

\* The step that ends a call returns a code that says what has become of the VMM.
LEMMA OutcomeStep ==
  ASSUME SerialInv, MemoryInv, ResultInv, NEW t \in Threads, Step(t), pc'[t] = "idle"
  PROVE  /\ Outcome(op[t], ret[t])'
         /\ pc[t] = "st_loop" /\ ret'[t] = "SUCCESS" /\ FixedCpus =>
              \A c \in Cpu : vcpu[c] = "on"
  <1>c. /\ pc \in [Threads -> Labels] /\ op \in [Threads -> Ops]
        /\ ret \in [Threads -> Codes] /\ g_vmm_status \in Statuses
        /\ cpuid \in [Threads -> Int]
    BY DEF SerialInv, TypeOK
  <1>f. FlowOf(t) /\ OnBehalf(t)
    BY DEF SerialInv, ResultInv
  <1> USE <1>c DEF At, Goto, SetRet, Keep, Return, Failure, UnloadReturns, StopReturns,
             Outcome, Statuses
  <1>1. CASE AddEnter(t)
    <2>1. op'[t] = "add" /\ UNCHANGED g_vmm_status /\ \E r \in Codes : AddRefuses(t, r) /\ ret'[t] = r
      BY <1>1, <1>f DEF AddEnter, OnBehalf, globals
    <2>2. ret'[t] # "SUCCESS"
      BY <2>1 DEF AddRefuses
    <2> QED BY <1>1, <2>1, <2>2 DEF AddEnter
  <1>2. CASE AddStore(t)
    BY <1>2, <1>f DEF AddStore, FlowOf, OnBehalf
  <1>3. CASE LoadEnter(t)
    BY <1>3, <1>f DEF LoadEnter, FlowOf, OnBehalf, globals
  <1>4. CASE \/ LoadStack(t) \/ LoadTls(t) \/ LoadElf(t) \/ LoadInit(t) \/ LoadMapModule(t)
             \/ StartInit(t) \/ FiniEnter(t) \/ FiniLoaded(t)
    BY <1>4 DEF LoadStack, LoadTls, LoadElf, LoadInit, LoadMapModule, StartInit, FiniEnter,
                FiniLoaded
  <1>9. CASE LoadMapTls(t)
    BY <1>9, <1>f DEF LoadMapTls, FlowOf, OnBehalf, call_vmm, LoadLabels
  <1>10. CASE UnloadEnter(t)
    BY <1>10, <1>f DEF UnloadEnter, FlowOf, OnBehalf, globals, UnloadLabels
  <1>11. CASE UnloadFini(t)
    BY <1>11, <1>f DEF UnloadFini, FlowOf, OnBehalf, UnloadLabels
  <1>12. CASE UnloadReset(t)
    <2>1. Empty' /\ g_vmm_status' = "UNLOADED"
      BY <1>12, ResetEmpties DEF UnloadReset
    <2> QED BY <1>12, <1>f, <2>1 DEF UnloadReset, OnBehalf, UnloadLabels
  <1>13. CASE StartEnter(t)
    BY <1>13, <1>f DEF StartEnter, FlowOf, OnBehalf
  <1>14. CASE StartLoop(t)
    <2>1. /\ pc[t] = "st_loop" /\ op'[t] = "start" /\ UNCHANGED g_vmm_status
          /\ ret'[t] = "SUCCESS" /\ \E n \in CpuCounts : cpuid[t] >= n
      BY <1>14, <1>f DEF StartLoop, OnBehalf, globals
    <2>2. FixedCpus => cpuid[t] >= NumCpus
      BY <2>1 DEF FixedCpus
    <2>3. FixedCpus => g_vmm_status = "RUNNING" /\ \A c \in Cpu : vcpu[c] = "on"
      BY <1>f, <2>1, <2>2, ConstantsAssumption DEF FlowOf, Cpu
    <2> QED BY <1>f, <2>1, <2>3 DEF FlowOf, FixedCpus
  <1>16. CASE StartVmcall(t)
    BY <1>16, <1>f DEF StartVmcall, FlowOf, OnBehalf
  <1>17. CASE StopEnter(t)
    BY <1>17, <1>f DEF StopEnter, FlowOf, OnBehalf, StopLabels, globals
  <1>18. CASE StopLoop(t)
    BY <1>18, <1>f DEF StopLoop, FlowOf, OnBehalf, StopLabels
  <1>19. CASE StopVmcall(t)
    BY <1>19, <1>f DEF StopVmcall, FlowOf, OnBehalf, StopLabels, globals
  <1>20. CASE StopFini(t)
    BY <1>20, <1>f DEF StopFini, FlowOf, OnBehalf, StopLabels
  <1>23. CASE FiniCheck(t)
    <2>1. /\ op'[t] = "fini" /\ g_vmm_status # "LOADED" /\ pc[t] # "st_loop"
          /\ ret'[t] = IF g_vmm_status = "CORRUPT" THEN "VMM_CORRUPTED" ELSE "SUCCESS"
      BY <1>23, <1>f DEF FiniCheck, OnBehalf
    <2>2. CASE g_vmm_status = "UNLOADED" /\ g_num_modules > 0
      BY <1>23, <2>1, <2>2, ResetEmpties DEF FiniCheck
    <2>3. CASE g_vmm_status = "UNLOADED" /\ ~(g_num_modules > 0)
      <3>1. UNCHANGED globals /\ g_num_modules = 0
        BY <1>23, <2>3, ConstantsAssumption DEF FiniCheck, SerialInv, TypeOK
      <3>2. Empty'
        BY <3>1, NoModulesEmpty DEF Empty, Pointers, globals
      <3> QED BY <2>1, <2>3, <3>1, <3>2 DEF globals
    <2>4. CASE g_vmm_status # "UNLOADED"
      BY <1>23, <2>1, <2>4 DEF FiniCheck, globals
    <2> QED BY <2>2, <2>3, <2>4
  <1>24. CASE DumpEnter(t)
    BY <1>24, <1>f DEF DumpEnter, FlowOf, OnBehalf, globals
  <1>25. CASE DumpCall(t)
    BY <1>25, <1>f DEF DumpCall, FlowOf, OnBehalf, globals
  <1> QED BY <1>1, <1>2, <1>3, <1>4, <1>9, <1>10, <1>11, <1>12, <1>13, <1>14, <1>16, <1>17, <1>18, <1>19, <1>20, <1>23, <1>24, <1>25 DEF Step

\* The code a call returns is true of the VMM it leaves behind, also where the
\* results of the functions it has called on the way were ignored.
THEOREM ResultsAlwaysTrue == SerialSpec => ResultsTrue
  <1>1. SerialInv /\ MemoryInv /\ ResultInv /\ [SerialNext]_vars =>
          [\A t \in Threads : pc[t] # "idle" /\ pc'[t] = "idle" =>
             /\ Outcome(op[t], ret[t])'
             /\ pc[t] = "st_loop" /\ ret'[t] = "SUCCESS" /\ FixedCpus =>
                  \A c \in Cpu : vcpu[c] = "on"]_vars
    <2> SUFFICES ASSUME SerialInv, MemoryInv, ResultInv, SerialNext,
                        NEW t \in Threads, pc[t] # "idle", pc'[t] = "idle"
                 PROVE  /\ Outcome(op[t], ret[t])'
                        /\ pc[t] = "st_loop" /\ ret'[t] = "SUCCESS" /\ FixedCpus =>
                             \A c \in Cpu : vcpu[c] = "on"
      OBVIOUS
    <2>1. PICK u \in Threads : (Quiet /\ CallAny(u)) \/ Step(u)
      BY DEF SerialNext
    <2>2. Step(u) /\ u = t
      BY <2>1, OnlyOne DEF Quiet
    <2> QED BY <2>2, OutcomeStep
  <1> QED BY <1>1, SerialInvariant, MemoryInvariant, ResultInvariant, PTL DEF SerialSpec, ResultsTrue

-----------------------------------------------------------------------------
(* Any entry layer above common.c.                                          *)

\* What an entry layer does while nobody is inside common.c: something that
\* common.c does not know of (the heap, which both use, included), the call of a
\* function, or common_init.
EntryLayer ==
  /\ Quiet
  /\ \/ UNCHANGED <<globals, mapped, op, pc, cpuid, ret>>
     \/ \E t \in Threads, o \in Ops, a \in Files \cup {NULL} : Enter(t, o, a)
     \/ common_reset /\ UNCHANGED <<op, pc, cpuid, ret>>

\* What MemoryInv and ResultInv say beside the pointers does not depend on the
\* heap, which an entry layer may use as it likes.
Held == (\A t \in Threads : LoadedSoFar(t)) /\ VmmInv /\ ResultInv

LEMMA HeldInit == InitDriver => Held
  BY DEF InitDriver, Held, LoadedSoFar, VmmInv, ResultInv, OnBehalf, NothingLoaded,
         LoadLabels, UnloadLabels, StopLabels

LEMMA HeldStep ==
  ASSUME SerialInv, PointersLive, Held, NEW t \in Threads, Step(t)
  PROVE  Held'
  <1>1. MemoryInv /\ ResultInv
    BY DEF Held, MemoryInv
  <1>2. MemoryInv' /\ ResultInv'
    BY <1>1, MemoryStep, ResultStep DEF SerialNext
  <1> QED BY <1>2 DEF Held, MemoryInv

LEMMA HeldEntry ==
  ASSUME SerialInv, Held, EntryLayer
  PROVE  Held'
  <1>1. CASE UNCHANGED <<globals, mapped, op, pc, cpuid, ret>>
    <2>1. \A t \in Threads : LoadedSoFar(t)' /\ OnBehalf(t)'
      BY <1>1 DEF Held, ResultInv, LoadedSoFar, OnBehalf, LoadedIdx, globals
    <2>2. VmmInv' /\ NothingLoaded'
      BY <1>1 DEF Held, ResultInv, VmmInv, NothingLoaded, LoadedIdx, globals
    <2> QED BY <2>1, <2>2 DEF Held, ResultInv
  <1>2. ASSUME NEW t \in Threads, NEW o \in Ops, NEW a \in Files \cup {NULL}, Enter(t, o, a)
        PROVE  Held'
    <2>1. UNCHANGED <<globals, world, cpuid, ret>> /\ pc' = [pc EXCEPT ![t] = o]
          /\ op' = [op EXCEPT ![t] = o]
      BY <1>2 DEF Enter, Goto
    <2>2. pc'[t] = o /\ op'[t] = o /\ \A u \in Threads \ {t} : pc'[u] = "idle"
      BY <2>1 DEF EntryLayer, Quiet, SerialInv, TypeOK
    <2>3. \A u \in Threads : LoadedSoFar(u)' /\ OnBehalf(u)'
      BY <2>2 DEF LoadedSoFar, OnBehalf, Ops, LoadLabels, UnloadLabels, StopLabels
    <2>4. VmmInv' /\ NothingLoaded'
      BY <2>1 DEF Held, ResultInv, VmmInv, NothingLoaded, LoadedIdx, globals, world
    <2> QED BY <2>3, <2>4 DEF Held, ResultInv
  <1>3. CASE common_reset /\ UNCHANGED <<op, pc, cpuid, ret>>
    <2>1. \A t \in Threads : LoadedSoFar(t)' /\ OnBehalf(t)'
      BY <1>3 DEF EntryLayer, Quiet, LoadedSoFar, OnBehalf, LoadLabels, UnloadLabels, StopLabels
    <2>2. VmmInv' /\ NothingLoaded'
      BY <1>3 DEF common_reset, ResetPointers, VmmInv, NothingLoaded
    <2> QED BY <2>1, <2>2 DEF Held, ResultInv
  <1> QED BY <1>1, <1>2, <1>3 DEF EntryLayer

\* Above any entry layer, the call that returns tells the truth.
LEMMA ResultsFollow ==
  ASSUME SerialInv, PointersLive, Held, EntryLayer \/ \E u \in Threads : Step(u),
         NEW t \in Threads, pc[t] # "idle", pc'[t] = "idle"
  PROVE  /\ Outcome(op[t], ret[t])'
         /\ pc[t] = "st_loop" /\ ret'[t] = "SUCCESS" /\ FixedCpus =>
              \A c \in Cpu : vcpu[c] = "on"
  <1>1. Step(t)
    BY OnlyOne DEF EntryLayer, Quiet
  <1>2. MemoryInv /\ ResultInv
    BY DEF Held, MemoryInv
  <1> QED BY <1>1, <1>2, OutcomeStep

=============================================================================
