--------------------------- MODULE WindowsProofs ---------------------------
(***************************************************************************)
(* Proofs about Windows.tla for one request at a time.  As in LinuxProofs, *)
(* every step keeps what is proved of common.c, and DeviceInv says where   *)
(* each block of the heap belongs and how far each request has come.  The  *)
(* new part is the power state: which of the driver's callbacks may run in *)
(* which state, and what EvtDeviceD0Exit leaves behind.                    *)
(***************************************************************************)
EXTENDS Windows, CommonCallProofs

\* Serial use: at most one callback runs.
OneRequest == \A t, u \in Threads : wpc[t] # "idle" /\ wpc[u] # "idle" => t = u

FiniLabels == {"fini", "stop", "sp_loop", "sp_vmcall", "sp_fini", "fi_loaded",
               "unload", "un_fini", "un_reset", "fi_check", "idle"}

\* Where in common.c a callback can be, and what its function has left behind.
ThreadInv(t) ==
  /\ wpc[t] \in {"idle", "copy"} => pc[t] = "idle"
  /\ wpc[t] \in {"copy", "add"} => g_num_pmodules < MAX_NUM_MODULES /\ buf[t] # NULL
  /\ wpc[t] = "add" => arg[t] = buf[t] /\ pc[t] \in {"add", "add_store", "idle"}
  /\ pc[t] \in {"add", "add_store"} => wpc[t] = "add"
  /\ pc[t] \in LoadLabels \cup {"load"} => wpc[t] = "load"
  /\ wpc[t] = "load" => op[t] = "load"
  /\ wpc[t] = "unload" =>
       /\ op[t] = "unload" /\ pc[t] \in {"unload", "un_fini", "un_reset", "idle"}
       /\ pc[t] = "idle" /\ g_vmm_status = "UNLOADED" => g_num_modules = 0
  /\ wpc[t] \in {"d0exit", "cleanup"} =>
       /\ op[t] = "fini" /\ pc[t] \in FiniLabels
       /\ pc[t] = "fi_check" => g_vmm_status # "LOADED"
       /\ pc[t] = "idle" =>
            \/ g_vmm_status \in {"RUNNING", "CORRUPT"}
            \/ g_vmm_status = "UNLOADED" /\ g_num_modules = 0

\* A load, or its clean-up, may have left allocations with the status UNLOADED.
Unfinished(t) ==
  \/ pc[t] \in (LoadLabels \ {"ld_stack"}) \cup {"unload", "un_reset"}
  \/ wpc[t] = "load" /\ pc[t] = "idle" /\ ret[t] # "SUCCESS"

\* common.c holds no memory for an unloaded VMM, but for a load under way.
CleanInv ==
  /\ g_vmm_status = "UNLOADED" => Pointers = {NULL} \/ \E t \in Threads : Unfinished(t)
  /\ \A t \in Threads :
       /\ pc[t] = "ld_tls" => g_tls = NULL
       /\ pc[t] \in {"ld_tls", "ld_elf"} => \A i \in ModIdx : mod_exec[i] = NULL

\* The buffer of a module that is being added.
Buffers == {buf[t] : t \in {u \in Threads : wpc[u] \in {"copy", "add"}}}

\* The heap, in the middle of a request too.
HeapInv ==
  /\ heap = (Pointers \ {NULL}) \cup FileCopies \cup Buffers
  /\ Pointers \cap FileCopies = {}
  /\ Buffers \cap (Pointers \cup FileCopies) = {}
  /\ \A i \in ModIdx : pmodules[i] # NULL <=> i < g_num_pmodules

\* The modules of a VMM that is not loaded have their files.
FilesInv ==
  g_vmm_status = "UNLOADED" =>
    \A i \in LoadedIdx :
      \/ mod_file[i] \in FileCopies
      \/ \E t \in Threads : /\ wpc[t] = "add" /\ pc[t] = "idle" /\ ret[t] = "SUCCESS"
                            /\ mod_file[i] = buf[t]

\* The callbacks run in the power state they are meant for, and what a sleeping
\* or a new device holds.
PowerInv ==
  /\ \A t \in Threads :
       /\ wpc[t] = "d0exit" => power = "leaving"
       /\ wpc[t] = "cleanup" => power = "unloading"
       /\ wpc[t] \notin {"idle", "d0exit", "cleanup"} => power = "D0"
  /\ power = "out" =>
       /\ g_vmm_status = "UNLOADED" /\ g_num_cpus_started = 0
       /\ \A c \in Cpu : vcpu[c] = "off"
  /\ power = "Dx" =>
       \/ g_vmm_status \in {"RUNNING", "CORRUPT"}
       \/ g_vmm_status = "UNLOADED" /\ g_num_modules = 0

\* WindowsTypeOK, but for the requests.
DeviceTypes ==
  /\ TypeOK
  /\ power \in PowerStates
  /\ g_num_pmodules \in 0 .. MAX_NUM_MODULES
  /\ pmodules \in [ModIdx -> Blocks \cup {NULL}]
  /\ wpc \in [Threads -> WindowsLabels]
  /\ buf \in [Threads -> Blocks \cup {NULL}]

DeviceInv ==
  /\ SerialInv /\ PointersLive /\ DeviceTypes
  /\ OneRequest /\ (\A t \in Threads : ThreadInv(t))
  /\ CleanInv /\ HeapInv /\ FilesInv /\ PowerInv

\* The inductive invariant of WindowsSerialSpec.
WindowsInv == DeviceInv /\ req \in [Threads -> ReqStates] /\ CompletedOnce

-----------------------------------------------------------------------------
(* Who is inside the driver. *)

\* While t serves a request, or nobody does, all others are outside.
LEMMA OthersOut ==
  ASSUME DeviceInv, NEW t \in Threads, wpc[t] # "idle" \/ WindowsQuiet
  PROVE  \A u \in Threads \ {t} : wpc[u] = "idle" /\ pc[u] = "idle"
  BY DEF DeviceInv, OneRequest, WindowsQuiet, ThreadInv

\* A thread inside common.c serves a request that calls into it.
LEMMA StepServes ==
  ASSUME DeviceInv, NEW t \in Threads, Step(t)
  PROVE  /\ wpc[t] \notin {"idle", "copy"} /\ pc[t] # "idle"
         /\ \A u \in Threads \ {t} : wpc[u] = "idle" /\ pc[u] = "idle" /\ pc'[u] = "idle"
  BY OnlyOne, OthersOut DEF DeviceInv, ThreadInv

\* A thread outside the driver has nothing to say.
LEMMA OutsideInv ==
  ASSUME NEW u \in Threads, wpc'[u] = "idle", pc'[u] = "idle"
  PROVE  ThreadInv(u)'
  BY DEF ThreadInv, LoadLabels

\* common.c's own invariant survives its steps.
LEMMA StepSerial ==
  ASSUME DeviceInv, NEW t \in Threads, Step(t)
  PROVE  SerialInv' /\ PointersLive'
  BY NextInv, PointersStep DEF DeviceInv, SerialNext

-----------------------------------------------------------------------------
(* The heap while common.c runs. *)

\* common.c takes fresh blocks.
LEMMA HeapGrows ==
  ASSUME HeapInv, UNCHANGED wvars, NEW P, P \cap heap = {}, NULL \notin heap \cup P,
         heap' = heap \cup P, Pointers' \ {NULL} = (Pointers \ {NULL}) \cup P
  PROVE  HeapInv'
  <1>1. FileCopies' = FileCopies /\ Buffers' = Buffers /\ NULL \notin FileCopies
    BY DEF FileCopies, Buffers, wvars, pmods
  <1>2. Pointers' \cap FileCopies = {} /\ Buffers \cap (Pointers' \cup FileCopies) = {}
    <2>1. FileCopies \subseteq heap /\ Buffers \subseteq heap
      BY DEF HeapInv
    <2>2. ASSUME NEW p \in Pointers' PROVE p \in Pointers \/ p \in P \/ p = NULL
      OBVIOUS
    <2>3. NULL \notin Buffers
      BY <2>1
    <2> QED BY <1>1, <2>1, <2>2, <2>3 DEF HeapInv
  <1> QED BY <1>1, <1>2 DEF HeapInv, wvars, pmods

\* common.c takes one fresh block.
LEMMA HeapTakes ==
  ASSUME HeapInv, UNCHANGED wvars, NULL \notin heap,
         NEW p \in Blocks \ heap, heap' = heap \cup {p},
         Pointers' \ {NULL} = (Pointers \ {NULL}) \cup ({p} \ {NULL})
  PROVE  HeapInv'
  <1>1. p # NULL
    BY ConstantsAssumption
  <1>2. {p} \cap heap = {} /\ NULL \notin heap \cup {p} /\ {p} \ {NULL} = {p}
    BY <1>1
  <1> QED BY <1>2, HeapGrows

\* common_reset gives back exactly what the pointers refer to.
LEMMA HeapReset ==
  ASSUME DeviceInv, common_reset, UNCHANGED <<pmods, Buffers>>
  PROVE  HeapInv' /\ Pointers' = {NULL}
  <1>1. Pointers' = {NULL}
    BY ConstantsAssumption DEF common_reset, ResetPointers, Pointers, ModIdx
  <1>2. Pointers \ {NULL} \subseteq ResetFrees /\ ResetFrees \subseteq Pointers
    BY DEF DeviceInv, PointersLive, ResetFrees, LoadedIdx, Pointers
  <1>3. FileCopies' = FileCopies /\ NULL \notin FileCopies
    BY DEF FileCopies, pmods
  <1>4. heap' = FileCopies \cup Buffers
    <2>1. heap' = heap \ ResetFrees
      BY DEF common_reset
    <2>2. NULL \notin heap
      BY ConstantsAssumption DEF DeviceInv, SerialInv, TypeOK
    <2> QED BY <1>2, <2>1, <2>2 DEF DeviceInv, HeapInv
  <1>5. NULL \notin Buffers
    <2>1. Buffers \subseteq heap /\ heap \subseteq Blocks
      BY DEF DeviceInv, HeapInv, SerialInv, TypeOK
    <2> QED BY <2>1, ConstantsAssumption
  <1> QED BY <1>1, <1>3, <1>4, <1>5 DEF DeviceInv, HeapInv, pmods

\* Before common_load_vmm has allocated anything, nothing is held.
LEMMA NothingHeld ==
  ASSUME DeviceInv, NEW t \in Threads, Step(t), g_vmm_status = "UNLOADED",
         pc[t] \notin (LoadLabels \ {"ld_stack"}) \cup {"unload", "un_reset"}
  PROVE  Pointers = {NULL}
  <1>1. ~Unfinished(t)
    BY StepServes DEF Unfinished
  <1>2. \A u \in Threads \ {t} : ~Unfinished(u)
    BY StepServes DEF Unfinished, LoadLabels
  <1> QED BY <1>1, <1>2 DEF DeviceInv, CleanInv

\* No step of common.c loses a block or takes one that is in use.
LEMMA HeapStep ==
  ASSUME DeviceInv, NEW t \in Threads, Step(t), UNCHANGED wvars
  PROVE  HeapInv'
  <1>t. HeapInv /\ FlowOf(t) /\ TypeOK
    BY DEF DeviceInv, SerialInv
  <1>n. NULL \notin heap /\ NULL \notin Blocks
    BY <1>t, ConstantsAssumption DEF TypeOK
  <1>1. CASE Elsewhere(t) \/ LoadMapModule(t) \/ LoadMapTls(t) \/ AddStore(t)
    <2>1. UNCHANGED <<mod_exec, g_stack, g_tls, heap>>
      BY <1>1, ElsewhereFrame DEF memory, LoadMapModule, LoadMapTls, AddStore, globals, world
    <2>2. UNCHANGED <<heap, Pointers, FileCopies, Buffers, pmods>>
      BY <2>1 DEF Pointers, FileCopies, Buffers, wvars, pmods
    <2> QED BY <1>t, <2>2 DEF HeapInv, pmods
  <1>2. CASE LoadStack(t)
    <2>1. PICK p \in Blocks \cup {NULL} : platform_alloc_rw(p, 1) /\ g_stack' = p
      BY <1>2 DEF LoadStack
    <2>2. g_tls' = NULL /\ \A i \in ModIdx : mod_exec'[i] = NULL
      <3>1. Pointers = {NULL}
        BY <1>t, <1>2, NothingHeld DEF LoadStack, At, FlowOf, LoadLabels
      <3> QED BY <1>2, <3>1 DEF LoadStack, Pointers
    <2>3. Pointers = {NULL} /\ Pointers' = {p, NULL}
      <3>1. Pointers = {NULL}
        BY <1>t, <1>2, NothingHeld DEF LoadStack, At, FlowOf, LoadLabels
      <3> QED BY <2>1, <2>2, <3>1 DEF Pointers
    <2>4. CASE p = NULL /\ heap' = heap
      BY <1>t, <1>n, <2>3, <2>4, HeapGrows, Pointers' \ {NULL} = (Pointers \ {NULL}) \cup {}
    <2>5. CASE p \in Blocks \ heap /\ heap' = heap \cup {p}
      BY <1>t, <1>n, <2>3, <2>5, HeapTakes
    <2> QED BY <2>1, <2>4, <2>5 DEF platform_alloc_rw
  <1>3. CASE LoadTls(t)
    <2>1. PICK p \in Blocks \cup {NULL} : platform_alloc_rw(p, g_tls_size') /\ g_tls' = p
      BY <1>3 DEF LoadTls
    <2>2. Pointers' \ {NULL} = (Pointers \ {NULL}) \cup ({p} \ {NULL})
      <3>1. g_tls = NULL
        BY <1>3 DEF LoadTls, At, DeviceInv, CleanInv
      <3> QED BY <1>3, <2>1, <3>1 DEF LoadTls, Pointers
    <2>3. CASE p = NULL /\ heap' = heap
      BY <1>t, <1>n, <2>2, <2>3, HeapGrows, {p} \ {NULL} = {}
    <2>4. CASE p \in Blocks \ heap /\ heap' = heap \cup {p}
      BY <1>t, <1>n, <2>2, <2>4, HeapTakes
    <2> QED BY <2>1, <2>3, <2>4 DEF platform_alloc_rw
  <1>4. CASE LoadElf(t)
    <2>1. PICK n \in 0 .. g_num_modules : bfelf_load(n, TRUE) \/ bfelf_load(n, FALSE)
      <3>1. g_num_modules \in 0 .. g_num_modules
        BY <1>t, ConstantsAssumption DEF TypeOK
      <3>2. CASE bfelf_load(g_num_modules, TRUE)
        BY <3>1, <3>2
      <3>3. CASE \E n \in 0 .. g_num_modules : bfelf_load(n, FALSE)
        BY <3>3
      <3> QED BY <1>4, <3>2, <3>3 DEF LoadElf
    <2>2. PICK b \in [0 .. n - 1 -> Blocks \ heap] :
            /\ heap' = heap \cup {b[i] : i \in 0 .. n - 1}
            /\ mod_exec' = [i \in ModIdx |-> IF i < n THEN b[i] ELSE mod_exec[i]]
      BY <2>1 DEF bfelf_load
    <2> DEFINE P == {b[i] : i \in 0 .. n - 1}
    <2>3. \A i \in ModIdx : mod_exec[i] = NULL
      BY <1>4 DEF LoadElf, At, DeviceInv, CleanInv
    <2>4. {mod_exec'[i] : i \in ModIdx} \ {NULL} = P
      <3>1. 0 .. n - 1 \subseteq ModIdx /\ \A i \in ModIdx : i < n <=> i \in 0 .. n - 1
        BY <1>t, ConstantsAssumption DEF TypeOK, ModIdx
      <3>2. P \subseteq Blocks
        OBVIOUS
      <3>3. \A i \in ModIdx : mod_exec'[i] = IF i < n THEN b[i] ELSE NULL
        BY <2>2, <2>3
      <3> QED BY <1>n, <3>1, <3>2, <3>3
    <2>5. Pointers' \ {NULL} = (Pointers \ {NULL}) \cup P
      <3>1. UNCHANGED <<g_stack, g_tls>>
        BY <1>4 DEF LoadElf
      <3>2. Pointers \ {NULL} = {g_stack, g_tls} \ {NULL}
        BY <2>3 DEF Pointers
      <3> QED BY <2>4, <3>1, <3>2 DEF Pointers
    <2>6. P \cap heap = {} /\ NULL \notin heap \cup P
      BY <1>n
    <2> HIDE DEF P
    <2>7. heap' = heap \cup P
      BY <2>2 DEF P
    <2> QED BY <1>t, <2>5, <2>6, <2>7, HeapGrows
  <1>5. ASSUME common_reset PROVE HeapInv'
    <2>1. UNCHANGED <<pmods, Buffers>>
      BY DEF wvars, pmods, Buffers
    <2> QED BY <1>5, <2>1, HeapReset
  <1>6. CASE UnloadReset(t)
    BY <1>5, <1>6 DEF UnloadReset
  <1>7. CASE FiniCheck(t)
    <2>1. CASE UNCHANGED <<globals, world>>
      <3>1. UNCHANGED <<heap, Pointers, FileCopies, Buffers, pmods>>
        BY <2>1 DEF Pointers, FileCopies, Buffers, wvars, pmods, globals, world
      <3> QED BY <1>t, <3>1 DEF HeapInv, pmods
    <2> QED BY <1>5, <1>7, <2>1 DEF FiniCheck
  <1> QED BY <1>1, <1>2, <1>3, <1>4, <1>6, <1>7 DEF Step, Elsewhere

\* A load that has allocated goes on to LOADED, or cleans up: nothing is held
\* when the status is UNLOADED again.
LEMMA CleanStep ==
  ASSUME DeviceInv, NEW t \in Threads, Step(t), UNCHANGED wvars
  PROVE  CleanInv'
  <1>t. FlowOf(t) /\ ThreadInv(t) /\ CleanInv /\ pc \in [Threads -> Labels] /\ ret \in [Threads -> Codes]
    BY DEF DeviceInv, SerialInv, TypeOK
  <1> USE DEF At, Goto, SetRet, Return, Failure, LoadLabels
  <1>1. ASSUME g_vmm_status' = "UNLOADED"
        PROVE  Pointers' = {NULL} \/ \E u \in Threads : Unfinished(u)'
    <2>1. ASSUME common_reset PROVE Pointers' = {NULL}
      <3>1. UNCHANGED <<pmods, Buffers>>
        BY DEF wvars, pmods, Buffers
      <3> QED BY <2>1, <3>1, HeapReset
    <2>2. ASSUME UNCHANGED <<g_vmm_status, mod_exec, g_stack, g_tls>>,
                 pc[t] \notin (LoadLabels \ {"ld_stack"}) \cup {"unload", "un_reset"}
          PROVE  Pointers' = {NULL}
      <3>1. Pointers = {NULL}
        BY <1>1, <2>2, NothingHeld
      <3> QED BY <2>2, <3>1 DEF Pointers
    <2>3. CASE AddEnter(t) \/ AddStore(t) \/ LoadEnter(t) \/ DumpEnter(t) \/ DumpCall(t)
      BY <2>2, <2>3 DEF AddEnter, AddStore, LoadEnter, DumpEnter, DumpCall, globals
    <2>4. CASE LoadStack(t) \/ LoadTls(t) \/ LoadElf(t)
      BY <1>t, <2>4 DEF LoadStack, LoadTls, LoadElf, Unfinished
    <2>5. CASE LoadInit(t) \/ LoadMapModule(t)
      BY <1>t, <2>5 DEF LoadInit, LoadMapModule, Unfinished
    <2>6. CASE LoadMapTls(t)
      <3>1. wpc'[t] = "load"
        BY <1>t, <2>6 DEF LoadMapTls, ThreadInv, wvars
      <3>2. pc'[t] = "idle" /\ ret'[t] # "SUCCESS"
        BY <1>t, <1>1, <2>6 DEF LoadMapTls
      <3> QED BY <3>1, <3>2 DEF Unfinished
    <2>7. CASE UnloadEnter(t)
      BY <1>t, <1>1, <2>7 DEF UnloadEnter, globals, Unfinished
    <2>8. CASE UnloadFini(t)
      BY <1>t, <1>1, <2>8 DEF UnloadFini, FlowOf
    <2>9. CASE UnloadReset(t)
      BY <2>1, <2>9 DEF UnloadReset
    <2>10. CASE StartEnter(t) \/ StopEnter(t) \/ FiniEnter(t) \/ FiniLoaded(t)
      BY <2>2, <2>10 DEF StartEnter, StopEnter, FiniEnter, FiniLoaded, globals
    <2>11. CASE StartLoop(t) \/ StartInit(t) \/ StartVmcall(t)
      BY <1>t, <1>1, <2>11 DEF StartLoop, StartInit, StartVmcall, FlowOf, globals
    <2>12. CASE StopLoop(t) \/ StopVmcall(t) \/ StopFini(t)
      BY <1>t, <1>1, <2>12 DEF StopLoop, StopVmcall, StopFini, FlowOf, globals
    <2>13. CASE FiniCheck(t)
      BY <2>1, <2>2, <2>13 DEF FiniCheck, globals
    <2> QED BY <2>3, <2>4, <2>5, <2>6, <2>7, <2>8, <2>9, <2>10, <2>11, <2>12, <2>13 DEF Step
  <1>2. /\ pc'[t] = "ld_tls" => LoadStack(t)
        /\ pc'[t] = "ld_elf" => LoadTls(t)
    <2>1. CASE AddEnter(t) \/ AddStore(t) \/ LoadEnter(t) \/ LoadStack(t) \/ LoadTls(t)
      BY <1>t, <2>1 DEF AddEnter, AddStore, LoadEnter, LoadStack, LoadTls
    <2>2. CASE LoadElf(t) \/ LoadInit(t) \/ LoadMapModule(t) \/ LoadMapTls(t)
      BY <1>t, <2>2 DEF LoadElf, LoadInit, LoadMapModule, LoadMapTls
    <2>3. CASE UnloadEnter(t) \/ UnloadFini(t) \/ UnloadReset(t)
      BY <1>t, <2>3 DEF UnloadEnter, UnloadFini, UnloadReset, UnloadReturns
    <2>4. CASE StartEnter(t) \/ StartLoop(t) \/ StartInit(t) \/ StartVmcall(t)
      BY <1>t, <2>4 DEF StartEnter, StartLoop, StartInit, StartVmcall
    <2>5. CASE StopEnter(t) \/ StopLoop(t) \/ StopVmcall(t) \/ StopFini(t)
      BY <1>t, <2>5 DEF StopEnter, StopLoop, StopVmcall, StopFini, StopReturns
    <2>6. CASE FiniEnter(t) \/ FiniLoaded(t) \/ FiniCheck(t) \/ DumpEnter(t) \/ DumpCall(t)
      BY <1>t, <2>6 DEF FiniEnter, FiniLoaded, FiniCheck, DumpEnter, DumpCall
    <2> QED BY <2>1, <2>2, <2>3, <2>4, <2>5, <2>6 DEF Step
  <1>3. /\ pc'[t] = "ld_tls" => g_tls' = NULL
        /\ pc'[t] \in {"ld_tls", "ld_elf"} => \A i \in ModIdx : mod_exec'[i] = NULL
    <2>1. CASE LoadStack(t)
      <3>1. Pointers = {NULL}
        BY <1>t, <2>1, NothingHeld DEF LoadStack, FlowOf
      <3>2. UNCHANGED <<g_tls, mod_exec>>
        BY <2>1 DEF LoadStack
      <3> QED BY <3>1, <3>2 DEF Pointers
    <2>2. CASE LoadTls(t)
      <3>1. pc'[t] # "ld_tls" /\ pc[t] = "ld_tls"
        BY <1>t, <2>2 DEF LoadTls
      <3> QED BY <1>t, <2>2, <3>1 DEF CleanInv, LoadTls
    <2> QED BY <1>2, <2>1, <2>2
  <1>4. \A u \in Threads \ {t} : pc'[u] = "idle"
    BY StepServes
  <1> QED BY <1>1, <1>3, <1>4 DEF CleanInv

-----------------------------------------------------------------------------
(* The files and the flow of an ioctl while common.c runs. *)

\* Only common_reset takes the driver to UNLOADED.
LEMMA ToUnloaded ==
  ASSUME DeviceInv, NEW t \in Threads, Step(t), g_vmm_status' = "UNLOADED"
  PROVE  common_reset \/ g_vmm_status = "UNLOADED"
  <1>t. FlowOf(t)
    BY DEF DeviceInv, SerialInv
  <1>1. CASE \/ AddEnter(t) \/ AddStore(t) \/ LoadEnter(t) \/ LoadStack(t) \/ LoadTls(t)
             \/ LoadElf(t) \/ LoadInit(t) \/ LoadMapModule(t) \/ LoadMapTls(t)
    BY <1>1, <1>t DEF AddEnter, AddStore, LoadEnter, LoadStack, LoadTls, LoadElf, LoadInit,
                      LoadMapModule, LoadMapTls, FlowOf, At, globals
  <1>2. CASE UnloadEnter(t) \/ UnloadFini(t) \/ UnloadReset(t) \/ FiniCheck(t)
    BY <1>2 DEF UnloadEnter, UnloadFini, UnloadReset, FiniCheck, globals
  <1>3. CASE StartEnter(t) \/ StartLoop(t) \/ StartInit(t) \/ StartVmcall(t)
    BY <1>3 DEF StartEnter, StartLoop, StartInit, StartVmcall, globals
  <1>4. CASE StopEnter(t) \/ StopLoop(t) \/ StopVmcall(t) \/ StopFini(t)
    BY <1>4 DEF StopEnter, StopLoop, StopVmcall, StopFini, globals
  <1>5. CASE FiniEnter(t) \/ FiniLoaded(t) \/ DumpEnter(t) \/ DumpCall(t)
    BY <1>5 DEF FiniEnter, FiniLoaded, DumpEnter, DumpCall, globals
  <1> QED BY <1>1, <1>2, <1>3, <1>4, <1>5 DEF Step

\* Modules are added one by one and dropped all at once.
LEMMA ModulesStep ==
  ASSUME NEW t \in Threads, Step(t)
  PROVE  \/ UNCHANGED <<g_num_modules, mod_file>>
         \/ common_reset
         \/ AddStore(t)
  <1>1. CASE Elsewhere(t)
    BY <1>1 DEF Elsewhere, AddEnter, LoadEnter, LoadInit, UnloadEnter, UnloadFini, StartEnter,
                StartLoop, StartInit, StartVmcall, StopEnter, StopLoop, StopVmcall,
                StopFini, FiniEnter, FiniLoaded, DumpEnter, DumpCall, globals
  <1>2. CASE LoadStack(t) \/ LoadTls(t) \/ LoadElf(t) \/ LoadMapModule(t) \/ LoadMapTls(t)
    BY <1>2 DEF LoadStack, LoadTls, LoadElf, LoadMapModule, LoadMapTls, globals
  <1>3. CASE UnloadReset(t) \/ FiniCheck(t)
    BY <1>3 DEF UnloadReset, FiniCheck, globals
  <1> QED BY <1>1, <1>2, <1>3 DEF Step, Elsewhere

\* A module registered while the VMM is unloaded has its file: the copy is kept,
\* or the handler is about to keep it.
LEMMA FilesStep ==
  ASSUME DeviceInv, NEW t \in Threads, Step(t), UNCHANGED wvars
  PROVE  FilesInv'
  <1> SUFFICES ASSUME g_vmm_status' = "UNLOADED", NEW i \in ModIdx, i < g_num_modules'
               PROVE  \/ mod_file'[i] \in FileCopies
                      \/ /\ wpc[t] = "add" /\ pc'[t] = "idle" /\ ret'[t] = "SUCCESS"
                         /\ mod_file'[i] = buf[t]
    <2>1. UNCHANGED <<FileCopies, wpc, buf>>
      BY DEF FileCopies, wvars, pmods
    <2> QED BY <2>1 DEF FilesInv, LoadedIdx
  <1>1. \A u \in Threads : ~(wpc[u] = "add" /\ pc[u] = "idle")
    BY StepServes
  <1>2. CASE common_reset
    BY <1>2, ConstantsAssumption DEF common_reset, ModIdx
  <1>3. CASE AddStore(t)
    <2>1. /\ g_num_modules \in 0 .. MAX_NUM_MODULES
          /\ mod_file \in [ModIdx -> Files \cup {NULL}]
          /\ pc \in [Threads -> Labels] /\ ret \in [Threads -> Codes]
      BY DEF DeviceInv, SerialInv, TypeOK
    <2>2. /\ g_vmm_status = "UNLOADED" /\ g_num_modules' = g_num_modules + 1
          /\ mod_file' = [mod_file EXCEPT ![g_num_modules] = arg[t]]
          /\ pc'[t] = "idle" /\ ret'[t] = "SUCCESS"
          /\ wpc[t] = "add" /\ arg[t] = buf[t]
      BY <1>3, <2>1 DEF AddStore, At, Return, Goto, SetRet, DeviceInv, ThreadInv
    <2>3. CASE i = g_num_modules
      BY <2>1, <2>2, <2>3
    <2>4. CASE i < g_num_modules
      <3>1. mod_file'[i] = mod_file[i]
        BY <2>1, <2>2, <2>4, ConstantsAssumption DEF ModIdx
      <3> QED BY <1>1, <2>2, <2>4, <3>1 DEF DeviceInv, FilesInv, LoadedIdx
    <2> QED BY <2>1, <2>2, <2>3, <2>4, ConstantsAssumption DEF ModIdx
  <1>4. CASE UNCHANGED <<g_num_modules, mod_file>> /\ ~common_reset
    <2>1. g_vmm_status = "UNLOADED"
      BY <1>4, ToUnloaded
    <2> QED BY <1>1, <1>4, <2>1 DEF DeviceInv, FilesInv, LoadedIdx
  <1> QED BY <1>2, <1>3, <1>4, ModulesStep

\* A step of common.c leaves the callback where its code expects it.
LEMMA ThreadStep ==
  ASSUME DeviceInv, NEW t \in Threads, Step(t), UNCHANGED wvars
  PROVE  ThreadInv(t)'
  <1>t. /\ FlowOf(t) /\ ThreadInv(t) /\ TypeOK /\ SerialInv
        /\ pc \in [Threads -> Labels] /\ ret \in [Threads -> Codes]
    BY DEF DeviceInv, SerialInv, TypeOK
  <1>l. wpc[t] \notin {"idle", "copy"} /\ UNCHANGED <<wpc, buf, g_num_pmodules>>
    BY StepServes DEF wvars, pmods
  <1> USE DEF At, Goto, SetRet, Return, Failure, Keep, LoadLabels
  <1>1. CASE AddEnter(t) \/ AddStore(t)
    <2>1. /\ pc[t] \in {"add", "add_store"} /\ pc'[t] \in {"add_store", "idle"}
          /\ UNCHANGED <<op, arg>>
      BY <1>1, <1>t DEF AddEnter, AddStore
    <2> QED BY <1>t, <1>l, <2>1 DEF ThreadInv
  <1>2. CASE LoadEnter(t) \/ LoadStack(t) \/ LoadTls(t)
    <2>1. /\ pc[t] \in LoadLabels \cup {"load"} /\ UNCHANGED <<op, arg>>
          /\ pc'[t] \notin {"add", "add_store"}
      BY <1>2, <1>t DEF LoadEnter, LoadStack, LoadTls
    <2> QED BY <1>t, <1>l, <2>1 DEF ThreadInv
  <1>3. CASE LoadElf(t) \/ LoadInit(t) \/ LoadMapModule(t) \/ LoadMapTls(t)
    <2>1. /\ pc[t] \in LoadLabels \cup {"load"} /\ UNCHANGED <<op, arg>>
          /\ pc'[t] \notin {"add", "add_store"}
      BY <1>3, <1>t DEF LoadElf, LoadInit, LoadMapModule, LoadMapTls
    <2> QED BY <1>t, <1>l, <2>1 DEF ThreadInv
  <1>4. CASE UnloadEnter(t) \/ UnloadFini(t) \/ UnloadReset(t)
    <2>1. /\ pc[t] \in {"unload", "un_fini", "un_reset"} /\ UNCHANGED <<op, arg>>
          /\ pc'[t] \in {"un_fini", "un_reset", "idle", "fi_check"}
          /\ pc'[t] = "fi_check" <=> op[t] = "fini" /\ pc'[t] \notin {"un_fini", "un_reset"}
      BY <1>4, <1>t DEF UnloadEnter, UnloadFini, UnloadReset, UnloadReturns
    <2>2. pc'[t] = "idle" /\ g_vmm_status' = "UNLOADED" => g_num_modules' = 0
      BY <1>4, <1>t DEF UnloadEnter, UnloadFini, UnloadReset, UnloadReturns,
                        common_reset, globals
    <2>3. pc'[t] = "fi_check" => g_vmm_status' # "LOADED"
      BY <1>4, <1>t DEF UnloadEnter, UnloadFini, UnloadReset, UnloadReturns,
                        common_reset, globals
    <2> QED BY <1>t, <1>l, <2>1, <2>2, <2>3 DEF ThreadInv, FiniLabels
  <1>5. CASE StartEnter(t) \/ StartLoop(t) \/ StartInit(t) \/ StartVmcall(t)
    <2>1. /\ pc[t] \in {"start", "st_loop", "st_init", "st_vmcall"} /\ UNCHANGED <<op, arg>>
          /\ pc'[t] \in {"st_loop", "st_init", "st_vmcall", "stop", "idle"}
      BY <1>5, <1>t DEF StartEnter, StartLoop, StartInit, StartVmcall
    <2> QED BY <1>t, <1>l, <2>1 DEF ThreadInv, FiniLabels
  <1>6. CASE StopEnter(t) \/ StopLoop(t) \/ StopVmcall(t) \/ StopFini(t)
    <2>1. /\ pc[t] \in {"stop", "sp_loop", "sp_vmcall", "sp_fini"} /\ UNCHANGED <<op, arg>>
          /\ pc'[t] \in {"sp_loop", "sp_vmcall", "sp_fini", "idle", "fi_loaded"}
          /\ pc'[t] = "idle" => op[t] # "fini"
      BY <1>6, <1>t DEF StopEnter, StopLoop, StopVmcall, StopFini, StopReturns
    <2> QED BY <1>t, <1>l, <2>1 DEF ThreadInv, FiniLabels
  <1>7. CASE FiniEnter(t) \/ FiniLoaded(t)
    <2>1. /\ pc[t] \in {"fini", "fi_loaded"} /\ UNCHANGED <<op, arg>>
          /\ pc'[t] \in {"stop", "fi_loaded", "unload", "fi_check"}
          /\ pc'[t] = "fi_check" => g_vmm_status' # "LOADED"
      BY <1>7, <1>t DEF FiniEnter, FiniLoaded, globals
    <2> QED BY <1>t, <1>l, <2>1 DEF ThreadInv, FiniLabels
  <1>8. CASE FiniCheck(t)
    <2>1. /\ pc[t] = "fi_check" /\ pc'[t] = "idle" /\ UNCHANGED <<op, arg>>
      BY <1>8, <1>t DEF FiniCheck
    <2>2. g_vmm_status # "LOADED" =>
            \/ g_vmm_status' \in {"RUNNING", "CORRUPT"}
            \/ g_vmm_status' = "UNLOADED" /\ g_num_modules' = 0
      <3>1. g_vmm_status \in Statuses /\ (g_num_modules > 0 \/ g_num_modules = 0)
        BY <1>t, ConstantsAssumption DEF TypeOK
      <3> QED BY <1>8, <3>1 DEF FiniCheck, common_reset, globals, Statuses
    <2> QED BY <1>t, <1>l, <2>1, <2>2 DEF ThreadInv, FiniLabels
  <1>9. CASE DumpEnter(t) \/ DumpCall(t)
    <2>1. /\ pc[t] \in {"dump", "du_call"} /\ UNCHANGED <<op, arg>>
          /\ pc'[t] \in {"du_call", "idle"}
      BY <1>9, <1>t DEF DumpEnter, DumpCall
    <2> QED BY <1>t, <1>l, <2>1 DEF ThreadInv, FiniLabels
  <1> QED BY <1>1, <1>2, <1>3, <1>4, <1>5, <1>6, <1>7, <1>8, <1>9 DEF Step

\* A step of common.c keeps the invariant of the driver.
LEMMA InsideStep ==
  ASSUME DeviceInv, NEW t \in Threads, Step(t), UNCHANGED wvars
  PROVE  DeviceInv'
  <1>1. SerialInv' /\ PointersLive'
    BY StepSerial
  <1>2. DeviceTypes'
    <2>1. TypeOK' /\ DeviceTypes
      BY <1>1 DEF SerialInv, DeviceInv
    <2> QED BY <2>1 DEF DeviceTypes, wvars, pmods
  <1>3. OneRequest'
    BY DEF DeviceInv, OneRequest, wvars
  <1>4. \A u \in Threads : ThreadInv(u)'
    <2>1. \A u \in Threads \ {t} : wpc'[u] = "idle" /\ pc'[u] = "idle"
      BY StepServes DEF wvars
    <2> QED BY <2>1, OutsideInv, ThreadStep
  <1>5. PowerInv'
    <2>1. power \notin {"out", "Dx"}
      BY StepServes DEF DeviceInv, PowerInv
    <2> QED BY <2>1 DEF DeviceInv, PowerInv, wvars
  <1> QED BY <1>1, <1>2, <1>3, <1>4, <1>5, CleanStep, HeapStep, FilesStep DEF DeviceInv

-----------------------------------------------------------------------------
(* Requests, and what entry.c does with the answers. *)

\* common.c's invariant does not depend on what else is in the heap.
LEMMA SerialKept ==
  ASSUME SerialInv, UNCHANGED <<globals, vmm_inited, mapped, vcpu, frames>>,
         heap' \in SUBSET Blocks
  PROVE  SerialInv'
  <1> USE DEF globals, frames, pinning
  <1>1. TypeOK'
    BY DEF SerialInv, TypeOK
  <1>2. OneAtATime' /\ \A t \in Threads : FlowOf(t)'
    BY DEF SerialInv, OneAtATime, FlowOf
  <1>3. CpuInv'
    BY DEF SerialInv, CpuInv
  <1> QED BY <1>1, <1>2, <1>3 DEF SerialInv

\* Nor do its pointers, as long as the blocks they refer to stay.
LEMMA PointersKept ==
  ASSUME PointersLive, UNCHANGED globals, Pointers \ {NULL} \subseteq heap'
  PROVE  PointersLive' /\ UNCHANGED Pointers
  BY DEF PointersLive, Pointers, globals

\* All threads but t stay outside the driver.
LEMMA OthersStay ==
  ASSUME DeviceInv, NEW t \in Threads, wpc[t] # "idle" \/ WindowsQuiet,
         \A u \in Threads \ {t} : wpc'[u] = wpc[u] /\ pc'[u] = pc[u],
         ThreadInv(t)'
  PROVE  OneRequest' /\ \A u \in Threads : ThreadInv(u)'
  <1>1. \A u \in Threads \ {t} : wpc'[u] = "idle" /\ pc'[u] = "idle"
    BY OthersOut
  <1>2. OneRequest'
    BY <1>1 DEF OneRequest
  <1> QED BY <1>1, <1>2, OutsideInv

\* t calls into common.c: nothing but its own place changes.
LEMMA CallKeeps ==
  ASSUME DeviceInv, NEW t \in Threads, wpc[t] # "idle" \/ WindowsQuiet,
         NEW o \in Ops, NEW a \in Files \cup {NULL},
         NEW l \in WindowsLabels \ {"idle", "copy"},
         CallCommon(t, o, a, l), UNCHANGED <<pmods, buf>>, wpc[t] # "add",
         wpc[t] = "copy" <=> l = "add",
         l = "add" => a = buf[t], o = "add" <=> l = "add",
         o = "load" <=> l = "load",
         l = "unload" => o = "unload",
         l \in {"d0exit", "cleanup"} => o = "fini",
         power' = (CASE l = "d0exit" -> "leaving" [] l = "cleanup" -> "unloading" [] OTHER -> "D0"),
         wpc[t] = "load" /\ ret[t] # "SUCCESS" => o = "unload"
  PROVE  DeviceInv'
  <1>t. SerialInv /\ DeviceTypes /\ PointersLive /\ pc \in [Threads -> Labels] /\ op \in [Threads -> Ops]
        /\ arg \in [Threads -> Files \cup {NULL}] /\ wpc \in [Threads -> WindowsLabels]
    BY DEF DeviceInv, SerialInv, TypeOK, DeviceTypes
  <1>o. \A u \in Threads \ {t} : wpc[u] = "idle" /\ pc[u] = "idle"
    BY OthersOut
  <1>1. /\ UNCHANGED <<globals, world, ret>> /\ pc[t] = "idle"
        /\ pc' = [pc EXCEPT ![t] = o] /\ op' = [op EXCEPT ![t] = o]
        /\ arg' = [arg EXCEPT ![t] = a] /\ wpc' = [wpc EXCEPT ![t] = l]
    BY DEF CallCommon, Call, Enter, At, Goto, WGoto
  <1>2. /\ pc'[t] = o /\ op'[t] = o /\ arg'[t] = a /\ wpc'[t] = l
        /\ \A u \in Threads \ {t} : wpc'[u] = wpc[u] /\ pc'[u] = pc[u]
    BY <1>t, <1>1
  <1>3. SerialInv'
    <2>1. Quiet
      BY <1>o, <1>1 DEF Quiet
    <2>2. CallAny(t)
      BY DEF CallAny, CallCommon
    <2> QED BY <1>t, <2>1, <2>2, CallStep
  <1>4. PointersLive' /\ UNCHANGED Pointers
    BY <1>t, <1>1, PointersKept DEF PointersLive, world
  <1>5. DeviceTypes'
    BY <1>t, <1>1, <1>3 DEF DeviceTypes, PowerStates, SerialInv, pmods
  <1>6. OneRequest' /\ \A u \in Threads : ThreadInv(u)'
    <2>1. ThreadInv(t)
      BY DEF DeviceInv
    <2>2. ThreadInv(t)'
      BY <1>2, <2>1 DEF ThreadInv, FiniLabels, LoadLabels, Ops, pmods
    <2> QED BY <1>2, <2>2, OthersStay
  <1>7. CleanInv'
    <2>1. \A u \in Threads \ {t} : ~Unfinished(u)
      BY <1>o DEF Unfinished, LoadLabels
    <2>2. Unfinished(t) => Unfinished(t)'
      BY <1>1, <1>2 DEF Unfinished, LoadLabels
    <2>3. \A u \in Threads : pc'[u] \notin {"ld_tls", "ld_elf"}
      BY <1>o, <1>2 DEF Ops
    <2> QED BY <1>1, <1>4, <2>1, <2>2, <2>3 DEF CleanInv, DeviceInv, globals
  <1>8. HeapInv'
    <2>1. \A u \in Threads : wpc'[u] \in {"copy", "add"} <=> wpc[u] \in {"copy", "add"}
      BY <1>o, <1>2
    <2>2. UNCHANGED <<Buffers, FileCopies>>
      BY <2>1 DEF Buffers, FileCopies, pmods
    <2> QED BY <1>1, <1>4, <2>2 DEF HeapInv, DeviceInv, world, pmods
  <1>9. FilesInv'
    <2>1. \A u \in Threads : wpc[u] # "add"
      BY <1>o
    <2> QED BY <1>1, <2>1 DEF DeviceInv, FilesInv, LoadedIdx, FileCopies, globals, pmods
  <1>10. PowerInv'
    BY <1>o, <1>2 DEF PowerInv
  <1> QED BY <1>3, <1>4, <1>5, <1>6, <1>7, <1>8, <1>9, <1>10 DEF DeviceInv

\* A callback of t returns; a power transition ends with it.
LEMMA ReturnKeeps ==
  ASSUME DeviceInv, NEW t \in Threads,
         wpc[t] \notin {"idle", "copy", "add"}, pc[t] = "idle",
         wpc[t] = "load" => ret[t] = "SUCCESS",
         WGoto(t, "idle"), UNCHANGED <<vars, pmods, buf>>,
         power' \in {power, "gone"} \/ (power' = "Dx" /\ wpc[t] = "d0exit")
  PROVE  DeviceInv'
  <1>t. SerialInv /\ DeviceTypes /\ wpc \in [Threads -> WindowsLabels]
    BY DEF DeviceInv, DeviceTypes
  <1>u. UNCHANGED <<globals, world, frames>>
    BY DEF vars
  <1>o. \A u \in Threads \ {t} : wpc[u] = "idle" /\ pc[u] = "idle"
    BY OthersOut
  <1>1. \A u \in Threads : wpc'[u] = "idle" /\ pc[u] = "idle" /\ pc'[u] = "idle"
    BY <1>t, <1>o DEF WGoto, vars, frames
  <1>2. SerialInv' /\ PointersLive' /\ UNCHANGED Pointers
    BY <1>t, <1>u, SerialKept, PointersKept DEF DeviceInv, PointersLive, SerialInv, TypeOK, world
  <1>3. DeviceTypes'
    BY <1>t, <1>2 DEF DeviceTypes, PowerStates, SerialInv, WGoto, WindowsLabels, pmods
  <1>4. OneRequest' /\ \A u \in Threads : ThreadInv(u)'
    BY <1>1, OutsideInv DEF OneRequest
  <1>5. CleanInv'
    <2>1. \A u \in Threads : ~Unfinished(u)
      BY <1>o DEF Unfinished, LoadLabels
    <2> QED BY <1>u, <1>1, <1>2, <2>1 DEF CleanInv, DeviceInv, globals
  <1>6. HeapInv'
    <2>1. Buffers = {} /\ Buffers' = {} /\ UNCHANGED FileCopies
      BY <1>o, <1>1 DEF Buffers, FileCopies, pmods
    <2> QED BY <1>u, <1>2, <2>1 DEF HeapInv, DeviceInv, world, pmods
  <1>7. FilesInv'
    BY <1>o, <1>u DEF DeviceInv, FilesInv, LoadedIdx, FileCopies, globals, pmods
  <1>8. PowerInv'
    <2>1. power \notin {"out", "Dx"} /\ ThreadInv(t)
      BY DEF DeviceInv, PowerInv
    <2> QED BY <1>u, <1>1, <2>1 DEF PowerInv, ThreadInv, globals
  <1> QED BY <1>2, <1>3, <1>4, <1>5, <1>6, <1>7, <1>8 DEF DeviceInv

\* bareflankEvtDeviceAdd resets a driver that nothing has touched yet.
LEMMA DeviceAddKeeps ==
  ASSUME DeviceInv, WindowsQuiet, NEW t \in Threads, power = "out", power' = "Dx",
         common_reset, UNCHANGED <<frames, pmods, wpc, buf>>
  PROVE  DeviceInv'
  <1>t. SerialInv /\ DeviceTypes /\ PowerInv /\ TypeOK
    BY DEF DeviceInv, SerialInv
  <1>1. \A u \in Threads : wpc[u] = "idle" /\ wpc'[u] = "idle" /\ pc[u] = "idle" /\ pc'[u] = "idle"
    BY DEF DeviceInv, ThreadInv, WindowsQuiet, frames
  <1>2. SerialInv'
    <2>1. TypeOK'
      BY <1>t, ResetType DEF TypeOK, frames, pinning
    <2>2. OneAtATime' /\ \A u \in Threads : FlowOf(u)'
      BY <1>1 DEF OneAtATime, FlowOf
    <2>3. CpuInv'
      <3>1. g_num_cpus_started' = 0 /\ g_vmm_status' = "UNLOADED" /\ UNCHANGED vcpu
        BY DEF common_reset
      <3>2. \A c \in Cpu : vcpu[c] = "off" /\ ~(c < 0 - 1) /\ c # 0 - 1
        BY <1>t DEF PowerInv, Cpu
      <3> QED BY <3>1, <3>2 DEF CpuInv
    <2> QED BY <2>1, <2>2, <2>3 DEF SerialInv
  <1>3. PointersLive'
    BY <1>t, ResetPointersLive
  <1>4. DeviceTypes'
    BY <1>t, <1>2 DEF DeviceTypes, PowerStates, SerialInv, pmods
  <1>5. OneRequest' /\ \A u \in Threads : ThreadInv(u)'
    BY <1>1, OutsideInv DEF OneRequest
  <1>6. HeapInv' /\ Pointers' = {NULL}
    <2>1. Buffers = {} /\ Buffers' = {}
      BY <1>1 DEF Buffers
    <2> QED BY <2>1, HeapReset
  <1>7. CleanInv'
    BY <1>1, <1>6 DEF CleanInv
  <1>8. FilesInv'
    BY ConstantsAssumption DEF common_reset, FilesInv, LoadedIdx, ModIdx
  <1>9. PowerInv'
    BY <1>1 DEF common_reset, PowerInv
  <1> QED BY <1>2, <1>3, <1>4, <1>5, <1>6, <1>7, <1>8, <1>9 DEF DeviceInv

\* ioctl_add_module allocates its buffer.
LEMMA AddModuleKeeps ==
  ASSUME DeviceInv, NEW t \in Threads, WindowsQuiet, AddModule(t)
  PROVE  DeviceInv'
  <1>t. SerialInv /\ DeviceTypes /\ TypeOK /\ HeapInv /\ PointersLive
        /\ wpc \in [Threads -> WindowsLabels] /\ buf \in [Threads -> Blocks \cup {NULL}]
    BY DEF DeviceInv, DeviceTypes, SerialInv
  <1>u. UNCHANGED <<globals, vmm_inited, mapped, vcpu, frames, power, pmods>>
    BY DEF AddModule
  <1>0. power = "D0" /\ g_num_pmodules < MAX_NUM_MODULES
    BY <1>t, ConstantsAssumption DEF AddModule, Deliver, PmodulesFull, DeviceTypes
  <1>p. PICK p \in Blocks : p \notin heap /\ heap' = heap \cup {p} /\ buf' = [buf EXCEPT ![t] = p]
    BY ConstantsAssumption DEF AddModule, platform_alloc_rw
  <1>1. \A u \in Threads : wpc[u] = "idle" /\ pc[u] = "idle" /\ pc'[u] = "idle"
    <2>1. \A u \in Threads : ThreadInv(u)
      BY DEF DeviceInv
    <2> QED BY <1>u, <2>1 DEF WindowsQuiet, ThreadInv, frames
  <1>2. /\ wpc'[t] = "copy" /\ buf'[t] = p
        /\ \A u \in Threads \ {t} : wpc'[u] = "idle"
    BY <1>t, <1>p, <1>1 DEF AddModule, WGoto
  <1>3. SerialInv' /\ PointersLive' /\ UNCHANGED Pointers
    <2>1. heap' \in SUBSET Blocks /\ Pointers \ {NULL} \subseteq heap'
      BY <1>t, <1>p DEF TypeOK, PointersLive
    <2> QED BY <1>t, <1>u, <2>1, SerialKept, PointersKept
  <1>4. DeviceTypes'
    BY <1>t, <1>u, <1>p, <1>3 DEF AddModule, DeviceTypes, SerialInv, WGoto, WindowsLabels, pmods
  <1>5. OneRequest' /\ \A u \in Threads : ThreadInv(u)'
    BY <1>u, <1>0, <1>1, <1>2, ConstantsAssumption DEF OneRequest, ThreadInv, LoadLabels, pmods
  <1>6. CleanInv'
    <2>1. \A u \in Threads : ~Unfinished(u)
      BY <1>1 DEF Unfinished, LoadLabels
    <2> QED BY <1>u, <1>1, <1>3, <2>1 DEF CleanInv, DeviceInv, globals
  <1>7. HeapInv'
    <2>1. Buffers = {} /\ Buffers' = {p} /\ UNCHANGED FileCopies
      BY <1>u, <1>1, <1>2 DEF Buffers, FileCopies, pmods
    <2>2. p \notin Pointers \cup FileCopies
      BY <1>t, <1>p, ConstantsAssumption DEF HeapInv
    <2> QED BY <1>t, <1>u, <1>p, <1>3, <2>1, <2>2 DEF HeapInv, pmods
  <1>8. FilesInv'
    BY <1>u, <1>1 DEF DeviceInv, FilesInv, LoadedIdx, FileCopies, globals, pmods
  <1>9. PowerInv'
    BY <1>0, <1>u, <1>1, <1>2 DEF PowerInv
  <1> QED BY <1>3, <1>4, <1>5, <1>6, <1>7, <1>8, <1>9 DEF DeviceInv

\* A module that could not be registered: its buffer is given back.
LEMMA AddFailedKeeps ==
  ASSUME DeviceInv, NEW t \in Threads, wpc[t] = "add", pc[t] = "idle", ret[t] # "SUCCESS",
         AddModuleDone(t)
  PROVE  DeviceInv'
  <1>t. SerialInv /\ DeviceTypes /\ TypeOK /\ HeapInv /\ PointersLive
        /\ wpc \in [Threads -> WindowsLabels]
    BY DEF DeviceInv, DeviceTypes, SerialInv
  <1>u. /\ UNCHANGED <<globals, vmm_inited, mapped, vcpu, frames, power, pmods, buf>>
        /\ heap' = heap \ {buf[t]} /\ WGoto(t, "idle")
    BY DEF AddModuleDone, Finish, platform_free
  <1>o. \A u \in Threads \ {t} : wpc[u] = "idle" /\ pc[u] = "idle"
    BY OthersOut
  <1>1. \A u \in Threads : wpc'[u] = "idle" /\ pc[u] = "idle" /\ pc'[u] = "idle"
    BY <1>t, <1>o, <1>u DEF WGoto, frames
  <1>b. Buffers = {buf[t]} /\ Buffers' = {}
    BY <1>o, <1>1 DEF Buffers
  <1>3. SerialInv' /\ PointersLive' /\ UNCHANGED Pointers
    <2>1. heap' \in SUBSET Blocks /\ Pointers \ {NULL} \subseteq heap'
      BY <1>t, <1>u, <1>b DEF TypeOK, PointersLive, HeapInv
    <2> QED BY <1>t, <1>u, <2>1, SerialKept, PointersKept
  <1>4. DeviceTypes'
    BY <1>t, <1>u, <1>3 DEF DeviceTypes, SerialInv, WGoto, WindowsLabels, pmods
  <1>5. OneRequest' /\ \A u \in Threads : ThreadInv(u)'
    BY <1>1, OutsideInv DEF OneRequest
  <1>6. CleanInv'
    <2>1. \A u \in Threads : ~Unfinished(u)
      BY <1>o DEF Unfinished, LoadLabels
    <2> QED BY <1>u, <1>1, <1>3, <2>1 DEF CleanInv, DeviceInv, globals
  <1>7. HeapInv'
    <2>1. UNCHANGED FileCopies
      BY <1>u DEF FileCopies, pmods
    <2> QED BY <1>t, <1>u, <1>b, <1>3, <2>1 DEF HeapInv, pmods
  <1>8. FilesInv'
    <2>1. \A u \in Threads : ~(wpc[u] = "add" /\ pc[u] = "idle" /\ ret[u] = "SUCCESS")
      BY <1>o
    <2> QED BY <1>u, <2>1 DEF DeviceInv, FilesInv, LoadedIdx, FileCopies, globals, pmods
  <1>9. PowerInv'
    <2>1. power = "D0"
      BY DEF DeviceInv, PowerInv
    <2> QED BY <1>u, <1>1, <2>1 DEF PowerInv
  <1> QED BY <1>3, <1>4, <1>5, <1>6, <1>7, <1>8, <1>9 DEF DeviceInv

\* A registered module: its buffer becomes the kept copy of the file.
LEMMA AddStoreKeeps ==
  ASSUME DeviceInv, NEW t \in Threads, wpc[t] = "add", pc[t] = "idle", ret[t] = "SUCCESS",
         AddModuleDone(t)
  PROVE  DeviceInv'
  <1>t. SerialInv /\ DeviceTypes /\ TypeOK /\ HeapInv /\ PointersLive
        /\ wpc \in [Threads -> WindowsLabels] /\ buf \in [Threads -> Blocks \cup {NULL}]
        /\ pmodules \in [ModIdx -> Blocks \cup {NULL}] /\ g_num_pmodules \in 0 .. MAX_NUM_MODULES
    BY DEF DeviceInv, DeviceTypes, SerialInv
  <1>u. /\ UNCHANGED <<globals, world, frames, power, buf>> /\ WGoto(t, "idle")
        /\ pmodules' = [pmodules EXCEPT ![g_num_pmodules] = buf[t]]
        /\ g_num_pmodules' = g_num_pmodules + 1
    BY DEF AddModuleDone, Finish, world
  <1>0. g_num_pmodules < MAX_NUM_MODULES /\ buf[t] # NULL /\ g_num_pmodules \in ModIdx
    <2>1. g_num_pmodules < MAX_NUM_MODULES /\ buf[t] # NULL
      BY DEF DeviceInv, ThreadInv
    <2> QED BY <1>t, <2>1, ConstantsAssumption DEF ModIdx
  <1>o. \A u \in Threads \ {t} : wpc[u] = "idle" /\ pc[u] = "idle"
    BY OthersOut
  <1>1. \A u \in Threads : wpc'[u] = "idle" /\ pc[u] = "idle" /\ pc'[u] = "idle"
    BY <1>t, <1>o, <1>u DEF WGoto, frames
  <1>b. Buffers = {buf[t]} /\ Buffers' = {}
    BY <1>o, <1>1 DEF Buffers
  <1>f. FileCopies' = FileCopies \cup {buf[t]}
    <2>1. pmodules[g_num_pmodules] = NULL
      BY <1>t, <1>0 DEF HeapInv
    <2>2. /\ pmodules'[g_num_pmodules] = buf[t]
          /\ \A i \in ModIdx \ {g_num_pmodules} : pmodules'[i] = pmodules[i]
      BY <1>t, <1>u, <1>0
    <2> QED BY <1>0, <2>1, <2>2 DEF FileCopies
  <1>3. SerialInv' /\ PointersLive' /\ UNCHANGED Pointers
    BY <1>t, <1>u, SerialKept, PointersKept DEF PointersLive, TypeOK, world
  <1>4. DeviceTypes'
    <2>1. g_num_pmodules' \in 0 .. MAX_NUM_MODULES
      BY <1>t, <1>u, <1>0, ConstantsAssumption
    <2>2. pmodules' \in [ModIdx -> Blocks \cup {NULL}]
      BY <1>t, <1>u
    <2> QED BY <1>t, <1>u, <1>3, <2>1, <2>2 DEF DeviceTypes, SerialInv, WGoto, WindowsLabels
  <1>5. OneRequest' /\ \A u \in Threads : ThreadInv(u)'
    BY <1>1, OutsideInv DEF OneRequest
  <1>6. CleanInv'
    <2>1. \A u \in Threads : ~Unfinished(u)
      BY <1>o DEF Unfinished, LoadLabels
    <2> QED BY <1>u, <1>1, <1>3, <2>1 DEF CleanInv, DeviceInv, globals
  <1>7. HeapInv'
    <2>1. heap' = (Pointers' \ {NULL}) \cup FileCopies' \cup Buffers'
      BY <1>t, <1>u, <1>b, <1>f, <1>3 DEF HeapInv, world
    <2>2. Pointers' \cap FileCopies' = {} /\ Buffers' \cap (Pointers' \cup FileCopies') = {}
      BY <1>t, <1>b, <1>f, <1>3 DEF HeapInv
    <2>3. \A i \in ModIdx : pmodules'[i] # NULL <=> i < g_num_pmodules'
      <3> SUFFICES ASSUME NEW i \in ModIdx PROVE pmodules'[i] # NULL <=> i < g_num_pmodules'
        OBVIOUS
      <3>1. CASE i = g_num_pmodules
        BY <1>t, <1>u, <1>0, <3>1
      <3>2. CASE i # g_num_pmodules
        <4>1. i < g_num_pmodules' <=> i < g_num_pmodules
          BY <1>t, <1>u, <3>2, ConstantsAssumption DEF ModIdx
        <4> QED BY <1>t, <1>u, <3>2, <4>1 DEF HeapInv
      <3> QED BY <3>1, <3>2
    <2> QED BY <2>1, <2>2, <2>3 DEF HeapInv
  <1>8. FilesInv'
    <2>1. \A u \in Threads : wpc[u] = "add" => u = t
      BY <1>o
    <2> QED BY <1>u, <1>f, <2>1 DEF DeviceInv, FilesInv, LoadedIdx, globals
  <1>9. PowerInv'
    <2>1. power = "D0"
      BY DEF DeviceInv, PowerInv
    <2> QED BY <1>u, <1>1, <2>1 DEF PowerInv
  <1> QED BY <1>3, <1>4, <1>5, <1>6, <1>7, <1>8, <1>9 DEF DeviceInv

\* ioctl_unload_vmm frees the copies of the files; no module needs them.
LEMMA UnloadDoneKeeps ==
  ASSUME DeviceInv, NEW t \in Threads, UnloadVmmDone(t)
  PROVE  DeviceInv'
  <1>t. SerialInv /\ DeviceTypes /\ TypeOK /\ HeapInv /\ PointersLive /\ ThreadInv(t)
        /\ wpc \in [Threads -> WindowsLabels] /\ g_num_pmodules \in 0 .. MAX_NUM_MODULES
    BY DEF DeviceInv, DeviceTypes, SerialInv
  <1>u. /\ UNCHANGED <<globals, vmm_inited, mapped, vcpu, frames, power, buf>>
        /\ wpc[t] = "unload" /\ pc[t] = "idle" /\ WGoto(t, "idle")
        /\ heap' = heap \ {pmodules[i] : i \in 0 .. g_num_pmodules - 1}
        /\ g_num_pmodules' = 0 /\ pmodules' = [i \in ModIdx |-> NULL]
    BY DEF UnloadVmmDone, Returned, Finish, platform_free
  <1>o. \A u \in Threads \ {t} : wpc[u] = "idle" /\ pc[u] = "idle"
    BY <1>u, OthersOut
  <1>1. \A u \in Threads : wpc'[u] = "idle" /\ pc[u] = "idle" /\ pc'[u] = "idle"
    BY <1>t, <1>o, <1>u DEF WGoto, frames
  <1>b. Buffers = {} /\ Buffers' = {} /\ FileCopies' = {}
    BY <1>u, <1>o, <1>1 DEF Buffers, FileCopies
  <1>f. heap' = heap \ FileCopies
    <2>1. \A i \in ModIdx : i \in 0 .. g_num_pmodules - 1 <=> i < g_num_pmodules
      BY <1>t, ConstantsAssumption DEF ModIdx
    <2>2. 0 .. g_num_pmodules - 1 \subseteq ModIdx
      BY <1>t, ConstantsAssumption DEF ModIdx
    <2>3. {pmodules[i] : i \in 0 .. g_num_pmodules - 1} = FileCopies
      BY <1>t, <2>1, <2>2 DEF HeapInv, FileCopies
    <2> QED BY <1>u, <2>3
  <1>3. SerialInv' /\ PointersLive' /\ UNCHANGED Pointers
    <2>1. heap' \in SUBSET Blocks /\ Pointers \ {NULL} \subseteq heap'
      BY <1>t, <1>f DEF TypeOK, PointersLive, HeapInv
    <2> QED BY <1>t, <1>u, <2>1, SerialKept, PointersKept
  <1>4. DeviceTypes'
    <2>1. g_num_pmodules' \in 0 .. MAX_NUM_MODULES
      BY <1>u, ConstantsAssumption
    <2> QED BY <1>t, <1>u, <1>3, <2>1 DEF DeviceTypes, SerialInv, WGoto, WindowsLabels
  <1>5. OneRequest' /\ \A u \in Threads : ThreadInv(u)'
    BY <1>1, OutsideInv DEF OneRequest
  <1>6. CleanInv'
    <2>1. \A u \in Threads : ~Unfinished(u)
      BY <1>u, <1>o DEF Unfinished, LoadLabels
    <2> QED BY <1>u, <1>1, <1>3, <2>1 DEF CleanInv, DeviceInv, globals
  <1>7. HeapInv'
    <2>1. heap' = Pointers \ {NULL}
      BY <1>t, <1>b, <1>f DEF HeapInv
    <2>2. \A i \in ModIdx : pmodules'[i] = NULL /\ ~(i < 0)
      BY <1>u, ConstantsAssumption DEF ModIdx
    <2> QED BY <1>u, <1>b, <1>3, <2>1, <2>2 DEF HeapInv
  <1>8. FilesInv'
    <2>1. g_vmm_status = "UNLOADED" => g_num_modules = 0
      BY <1>t, <1>u DEF ThreadInv
    <2> QED BY <1>u, <2>1, ConstantsAssumption DEF FilesInv, LoadedIdx, ModIdx, globals
  <1>9. PowerInv'
    <2>1. power = "D0"
      BY <1>u DEF DeviceInv, PowerInv
    <2> QED BY <1>u, <1>1, <2>1 DEF PowerInv
  <1> QED BY <1>3, <1>4, <1>5, <1>6, <1>7, <1>8, <1>9 DEF DeviceInv

\* Between two callbacks nothing but requests and the power state changes.
LEMMA RestKeeps ==
  ASSUME DeviceInv, UNCHANGED <<vars, pmods, wpc, buf>>,
         power' = power \/ (WindowsQuiet /\ power' \in PowerStates \ {"out", "Dx"})
  PROVE  DeviceInv'
  <1>u. UNCHANGED <<globals, world, frames>>
    BY DEF vars
  <1>1. SerialInv' /\ PointersLive' /\ UNCHANGED Pointers
    BY <1>u, SerialKept, PointersKept DEF DeviceInv, PointersLive, SerialInv, TypeOK, world
  <1>2. DeviceTypes'
    BY <1>u, <1>1 DEF DeviceInv, DeviceTypes, SerialInv, pmods
  <1>3. OneRequest' /\ \A u \in Threads : ThreadInv(u)'
    BY <1>u DEF DeviceInv, OneRequest, ThreadInv, globals, world, frames, pmods
  <1>4. CleanInv'
    BY <1>u, <1>1 DEF DeviceInv, CleanInv, Unfinished, globals, frames
  <1>5. HeapInv'
    <2>1. UNCHANGED <<Buffers, FileCopies>>
      BY DEF Buffers, FileCopies, pmods
    <2> QED BY <1>u, <1>1, <2>1 DEF HeapInv, DeviceInv, world, pmods
  <1>6. FilesInv'
    BY <1>u DEF DeviceInv, FilesInv, LoadedIdx, FileCopies, globals, frames, pmods
  <1>7. PowerInv'
    BY <1>u DEF DeviceInv, PowerInv, WindowsQuiet, globals, world
  <1> QED BY <1>1, <1>2, <1>3, <1>4, <1>5, <1>6, <1>7 DEF DeviceInv

-----------------------------------------------------------------------------
(* The requests and the invariant of the driver. *)

\* A handler that finishes completes a request that is still pending.
LEMMA FinishOnce ==
  ASSUME WindowsInv, NEW t \in Threads, wpc[t] \notin {"idle", "d0exit", "cleanup"}, Finish(t)
  PROVE  (req \in [Threads -> ReqStates])' /\ CompletedOnce'
  <1>1. /\ req[t] = "pending" /\ req \in [Threads -> ReqStates]
        /\ wpc \in [Threads -> WindowsLabels] /\ CompletedOnce
    BY DEF WindowsInv, DeviceInv, DeviceTypes, CompletedOnce
  <1>2. /\ req' = [req EXCEPT ![t] = "completed"] /\ wpc' = [wpc EXCEPT ![t] = "idle"]
    BY <1>1 DEF Finish, WdfRequestComplete, WGoto
  <1> QED BY <1>1, <1>2 DEF CompletedOnce, ReqStates

\* No step of a serial use completes a request early or a second time.
LEMMA CompletedStep ==
  ASSUME WindowsInv, WindowsSerialNext
  PROVE  (req \in [Threads -> ReqStates])' /\ CompletedOnce'
  <1>t. /\ req \in [Threads -> ReqStates] /\ wpc \in [Threads -> WindowsLabels]
        /\ CompletedOnce
    BY DEF WindowsInv, DeviceInv, DeviceTypes
  <1>s. UNCHANGED <<wpc, req>> => (req \in [Threads -> ReqStates])' /\ CompletedOnce'
    BY <1>t DEF CompletedOnce
  <1>g. ASSUME NEW t \in Threads, NEW l \in WindowsLabels, WGoto(t, l), UNCHANGED req,
               l \in {"idle", "d0exit", "cleanup"} <=> wpc[t] \in {"idle", "d0exit", "cleanup"}
        PROVE  (req \in [Threads -> ReqStates])' /\ CompletedOnce'
    <2>1. wpc' = [wpc EXCEPT ![t] = l]
      BY <1>g DEF WGoto
    <2> QED BY <1>t, <1>g, <2>1 DEF CompletedOnce
  <1>d. ASSUME NEW t \in Threads, NEW l \in WindowsLabels \ {"idle", "d0exit", "cleanup"},
               WGoto(t, l), Deliver(t)
        PROVE  (req \in [Threads -> ReqStates])' /\ CompletedOnce'
    <2>1. wpc' = [wpc EXCEPT ![t] = l] /\ req' = [req EXCEPT ![t] = "pending"]
      BY <1>d DEF WGoto, Deliver
    <2> QED BY <1>t, <2>1 DEF CompletedOnce, ReqStates
  <1> USE DEF WindowsLabels
  <1>1. CASE WindowsQuiet /\ PowerEvent
    <2>1. CASE D0Entry \/ LeaveD0 \/ \E t \in Threads : DeviceAdd(t)
      BY <1>s, <2>1 DEF D0Entry, LeaveD0, DeviceAdd
    <2>2. ASSUME NEW t \in Threads, DriverContextCleanup(t)
          PROVE  (req \in [Threads -> ReqStates])' /\ CompletedOnce'
      BY <1>g, <2>2 DEF DriverContextCleanup, CallCommon
    <2> QED BY <1>1, <2>1, <2>2 DEF PowerEvent
  <1>2. ASSUME NEW t \in Threads, WindowsQuiet, Request(t)
        PROVE  (req \in [Threads -> ReqStates])' /\ CompletedOnce'
    <2>1. CASE Answered(t)
      <3>1. req' = [req EXCEPT ![t] = "completed"] /\ UNCHANGED wpc /\ wpc[t] = "idle"
        BY <2>1 DEF Answered
      <3> QED BY <1>t, <3>1 DEF CompletedOnce, ReqStates
    <2>2. CASE AddModule(t)
      BY <1>d, <2>2 DEF AddModule
    <2>3. CASE CallRequest(t)
      BY <1>d, <2>3 DEF CallRequest, CallCommon
    <2> QED BY <1>2, <2>1, <2>2, <2>3 DEF Request
  <1>3. ASSUME NEW t \in Threads, Continue(t)
        PROVE  (req \in [Threads -> ReqStates])' /\ CompletedOnce'
    <2>1. CASE Step(t) /\ UNCHANGED wvars
      BY <1>s, <2>1 DEF wvars
    <2>2. CASE AddModuleCopied(t)
      BY <1>g, <2>2 DEF AddModuleCopied, CallCommon
    <2>3. CASE AddModuleDone(t) \/ UnloadVmmDone(t) \/ Reported(t)
      BY <2>3, FinishOnce DEF AddModuleDone, UnloadVmmDone, Reported, Returned
    <2>4. CASE LoadVmmDone(t)
      <3>1. CASE ret[t] = "SUCCESS"
        BY <2>4, <3>1, FinishOnce DEF LoadVmmDone, Returned
      <3>2. CASE ret[t] # "SUCCESS"
        BY <1>g, <2>4, <3>2 DEF LoadVmmDone, Returned, CallCommon
      <3> QED BY <3>1, <3>2
    <2>5. CASE StartVmmDone(t)
      <3>1. CASE ret[t] = "SUCCESS"
        BY <2>5, <3>1, FinishOnce DEF StartVmmDone, Returned
      <3>2. CASE ret[t] # "SUCCESS"
        BY <1>g, <2>5, <3>2 DEF StartVmmDone, Returned, CallCommon
      <3> QED BY <3>1, <3>2
    <2>6. CASE D0Exit(t) \/ D0Exited(t) \/ CleanedUp(t)
      BY <1>g, <2>6 DEF D0Exit, D0Exited, CleanedUp, Returned, CallCommon
    <2> QED BY <1>3, <2>1, <2>2, <2>3, <2>4, <2>5, <2>6 DEF Continue
  <1> QED BY <1>1, <1>2, <1>3 DEF WindowsSerialNext

\* The driver before EvtDeviceAdd.
LEMMA WindowsInitInv == WindowsInit => WindowsInv
  <1> SUFFICES ASSUME WindowsInit PROVE WindowsInv
    OBVIOUS
  <1> USE DEF WindowsInit
  <1>1. SerialInv /\ PointersLive
    BY InitInv, MemoryInit DEF MemoryInv
  <1>2. DeviceTypes
    BY <1>1, ConstantsAssumption DEF DeviceTypes, SerialInv, WindowsLabels, PowerStates
  <1> USE DEF Init, InitDriver
  <1>3. OneRequest /\ \A t \in Threads : ThreadInv(t)
    BY DEF OneRequest, ThreadInv, LoadLabels
  <1>4. Pointers = {NULL} /\ Buffers = {} /\ FileCopies = {}
    BY ConstantsAssumption DEF Pointers, Buffers, FileCopies, ModIdx
  <1>5. CleanInv
    BY <1>4 DEF CleanInv
  <1>6. HeapInv
    BY <1>4, ConstantsAssumption DEF HeapInv, ModIdx
  <1>7. FilesInv
    BY ConstantsAssumption DEF FilesInv, LoadedIdx, ModIdx
  <1>8. PowerInv
    BY DEF PowerInv
  <1>9. req \in [Threads -> ReqStates] /\ CompletedOnce
    BY DEF ReqStates, CompletedOnce
  <1> QED BY <1>1, <1>2, <1>3, <1>5, <1>6, <1>7, <1>8, <1>9 DEF WindowsInv, DeviceInv

\* A power event between two callbacks.
LEMMA PowerStep ==
  ASSUME DeviceInv, WindowsQuiet, PowerEvent
  PROVE  DeviceInv'
  <1>1. CASE D0Entry \/ LeaveD0
    BY <1>1, RestKeeps DEF D0Entry, LeaveD0, PowerStates
  <1>2. ASSUME NEW t \in Threads, DeviceAdd(t) PROVE DeviceInv'
    <2>1. CASE power' = "Dx" /\ common_reset
      BY <1>2, <2>1, DeviceAddKeeps DEF DeviceAdd
    <2>2. CASE power' = "failed" /\ UNCHANGED <<globals, world>>
      <3>1. UNCHANGED vars
        BY <1>2, <2>2 DEF DeviceAdd, vars
      <3> QED BY <1>2, <2>2, <3>1, RestKeeps DEF DeviceAdd, PowerStates
    <2> QED BY <1>2, <2>1, <2>2 DEF DeviceAdd
  <1>3. ASSUME NEW t \in Threads, DriverContextCleanup(t) PROVE DeviceInv'
    BY <1>3, CallKeeps DEF DriverContextCleanup, Ops, WindowsLabels
  <1> QED BY <1>1, <1>2, <1>3 DEF PowerEvent

\* A new request, made while no other is being served.
LEMMA RequestStep ==
  ASSUME DeviceInv, NEW t \in Threads, WindowsQuiet, Request(t)
  PROVE  DeviceInv'
  <1>1. CASE Answered(t)
    BY <1>1, RestKeeps DEF Answered
  <1>2. CASE CallRequest(t)
    <2>1. wpc[t] = "idle" /\ power = "D0" /\ power' = "D0" /\ UNCHANGED <<pmods, buf>>
      BY <1>2 DEF CallRequest, Deliver
    <2>2. ASSUME NEW o \in {"load", "unload", "start", "stop"}, CallCommon(t, o, NULL, o)
          PROVE  DeviceInv'
      BY <2>1, <2>2, CallKeeps DEF Ops, WindowsLabels
    <2>3. ASSUME NEW f \in Files, CallCommon(t, "dump", f, "dump")
          PROVE  DeviceInv'
      BY <2>1, <2>3, CallKeeps DEF Ops, WindowsLabels
    <2> QED BY <1>2, <2>2, <2>3 DEF CallRequest
  <1> QED BY <1>1, <1>2, AddModuleKeeps DEF Request

\* The callback under way goes on.
LEMMA ContinueStep ==
  ASSUME DeviceInv, NEW t \in Threads, Continue(t)
  PROVE  DeviceInv'
  <1>d. wpc[t] \notin {"idle", "d0exit", "cleanup"} => power = "D0"
    BY DEF DeviceInv, PowerInv
  <1>1. CASE AddModuleCopied(t)
    <2>1. wpc[t] = "copy" /\ power = "D0" /\ buf[t] \in Files \cup {NULL}
      BY <1>1, <1>d, WindowsAssumption DEF DeviceInv, DeviceTypes, AddModuleCopied
    <2> QED BY <1>1, <2>1, CallKeeps DEF AddModuleCopied, Ops, WindowsLabels
  <1>2. CASE AddModuleDone(t)
    BY <1>2, AddStoreKeeps, AddFailedKeeps DEF AddModuleDone, Returned
  <1>3. CASE LoadVmmDone(t)
    <2>1. CASE ret[t] = "SUCCESS"
      BY <1>3, <2>1, ReturnKeeps DEF LoadVmmDone, Returned, Finish
    <2>2. CASE ret[t] # "SUCCESS"
      BY <1>3, <1>d, <2>2, CallKeeps DEF LoadVmmDone, Returned, Ops, WindowsLabels
    <2> QED BY <2>1, <2>2
  <1>4. CASE StartVmmDone(t)
    <2>1. CASE ret[t] = "SUCCESS"
      BY <1>4, <2>1, ReturnKeeps DEF StartVmmDone, Returned, Finish
    <2>2. CASE ret[t] # "SUCCESS"
      BY <1>4, <1>d, <2>2, CallKeeps DEF StartVmmDone, Returned, Ops, WindowsLabels
    <2> QED BY <2>1, <2>2
  <1>5. CASE Reported(t)
    BY <1>5, ReturnKeeps DEF Reported, Returned, Finish
  <1>6. CASE D0Exit(t)
    <2>1. WindowsQuiet
      <3>1. power = "leaving" /\ \A u \in Threads : wpc[u] # "d0exit"
        BY <1>6 DEF D0Exit
      <3> QED BY <3>1 DEF DeviceInv, PowerInv, WindowsQuiet
    <2> QED BY <1>6, <2>1, CallKeeps DEF D0Exit, Ops, WindowsLabels
  <1>7. CASE D0Exited(t) \/ CleanedUp(t)
    BY <1>7, ReturnKeeps DEF D0Exited, CleanedUp, Returned
  <1> QED BY <1>1, <1>2, <1>3, <1>4, <1>5, <1>6, <1>7, InsideStep, UnloadDoneKeeps DEF Continue

\* Every step of a serial use of the driver keeps the invariant.
LEMMA WindowsNextInv == WindowsInv /\ [WindowsSerialNext]_allvars => WindowsInv'
  <1> SUFFICES ASSUME WindowsInv, [WindowsSerialNext]_allvars PROVE WindowsInv'
    OBVIOUS
  <1>d. DeviceInv
    BY DEF WindowsInv
  <1>1. CASE UNCHANGED allvars
    <2>1. UNCHANGED <<vars, pmods, wpc, buf, power, req>>
      BY <1>1 DEF allvars, wvars
    <2>2. DeviceInv'
      BY <1>d, <2>1, RestKeeps
    <2> QED BY <2>1, <2>2 DEF WindowsInv, CompletedOnce
  <1>2. CASE WindowsSerialNext
    <2>1. DeviceInv'
      BY <1>2, <1>d, PowerStep, RequestStep, ContinueStep DEF WindowsSerialNext
    <2> QED BY <1>2, <2>1, CompletedStep DEF WindowsInv
  <1> QED BY <1>1, <1>2

\* In and between the callbacks every block has its place, every request is
\* where queue.c expects it, and the callback fits the power state.
THEOREM WindowsInvariant == WindowsSerialSpec => []WindowsInv
  BY WindowsInitInv, WindowsNextInv, PTL DEF WindowsSerialSpec

\* The driver's variables have their types; ioctl_add_module never stores past
\* the end of pmodules.
THEOREM WindowsTypeCorrect == WindowsSerialSpec => []WindowsTypeOK
  <1>1. WindowsInv => WindowsTypeOK
    BY DEF WindowsInv, DeviceInv, DeviceTypes, WindowsTypeOK
  <1> QED BY <1>1, WindowsInvariant, PTL

\* Every path through bareflankEvtIoDeviceControl completes its request once,
\* at its end.
THEOREM RequestsCompletedOnce == WindowsSerialSpec => []CompletedOnce
  <1>1. WindowsInv => CompletedOnce
    BY DEF WindowsInv
  <1> QED BY <1>1, WindowsInvariant, PTL

\* Between two callbacks nothing has leaked and nothing will be freed twice,
\* and the modules of a VMM that is still to be loaded have their files.
THEOREM FilesAlwaysAccounted == WindowsSerialSpec => []FilesAccounted
  <1>1. WindowsInv => FilesAccounted
    <2> SUFFICES ASSUME WindowsInv, WindowsQuiet
                 PROVE  /\ heap = (Pointers \ {NULL}) \cup FileCopies
                        /\ Pointers \cap FileCopies = {}
                        /\ \A i \in ModIdx : pmodules[i] # NULL <=> i < g_num_pmodules
                        /\ g_vmm_status = "UNLOADED" =>
                             \A i \in LoadedIdx : mod_file[i] \in FileCopies
      BY DEF FilesAccounted
    <2>1. Buffers = {} /\ \A t \in Threads : wpc[t] # "add"
      BY DEF Buffers, WindowsQuiet
    <2>2. HeapInv /\ FilesInv
      BY DEF WindowsInv, DeviceInv
    <2> QED BY <2>1, <2>2 DEF HeapInv, FilesInv
  <1> QED BY <1>1, WindowsInvariant, PTL

\* A device that has gone to sleep has been emptied by EvtDeviceD0Exit.
THEOREM AlwaysSleepsUnloaded == WindowsSerialSpec => []SleepsUnloaded
  <1>1. WindowsInv => SleepsUnloaded
    <2> SUFFICES ASSUME WindowsInv, power = "Dx", g_vmm_status \notin {"RUNNING", "CORRUPT"}
                 PROVE  /\ g_vmm_status = "UNLOADED" /\ g_num_modules = 0
                        /\ Pointers = {NULL}
                        /\ \A c \in Cpu : vcpu[c] # "on"
      BY DEF SleepsUnloaded
    <2>d. DeviceInv /\ SerialInv /\ PowerInv /\ CleanInv
      BY DEF WindowsInv, DeviceInv
    <2>1. g_vmm_status = "UNLOADED" /\ g_num_modules = 0
      BY <2>d DEF PowerInv
    <2>2. \A t \in Threads : wpc[t] = "idle"
      BY <2>d DEF PowerInv
    <2>3. \A t \in Threads : ~Unfinished(t)
      BY <2>d, <2>2 DEF DeviceInv, ThreadInv, Unfinished, LoadLabels
    <2>4. Pointers = {NULL}
      BY <2>d, <2>1, <2>3 DEF CleanInv
    <2>5. \A c \in Cpu : vcpu[c] \in {"off", "init"}
      BY <2>d, <2>1, NotStarted
    <2> QED BY <2>1, <2>4, <2>5
  <1> QED BY <1>1, WindowsInvariant, PTL

\* Through requests and power events, too, the VMM lives the life that
\* VmmLifecycle describes.
THEOREM WindowsLifecycle == WindowsSerialSpec => ImplementsLifecycle
  <1>1. WindowsInit => Lifecycle!Init
    BY DEF WindowsInit, Init, InitDriver, Lifecycle!Init
  <1>2. WindowsInv /\ [WindowsSerialNext]_allvars => [Lifecycle!Next]_(Lifecycle!lvars)
    <2> SUFFICES ASSUME WindowsInv, [WindowsSerialNext]_allvars
                 PROVE  Lifecycle!Next \/ UNCHANGED <<g_vmm_status, Up>>
      BY DEF Lifecycle!lvars, Up
    <2>d. DeviceInv
      BY DEF WindowsInv
    <2>1. CASE UNCHANGED allvars
      BY <2>1 DEF allvars, vars, globals, world, Up
    <2>2. ASSUME NEW t \in Threads, Step(t)
          PROVE  Lifecycle!Next \/ UNCHANGED <<g_vmm_status, Up>>
      BY <2>2, <2>d, LifecycleStep DEF DeviceInv
    <2>3. ASSUME NEW t \in Threads, DeviceAdd(t)
          PROVE  UNCHANGED <<g_vmm_status, Up>>
      BY <2>3, <2>d DEF DeviceAdd, common_reset, DeviceInv, PowerInv, globals, world, Up
    <2>4. CASE D0Entry \/ LeaveD0 \/ \E t \in Threads : DriverContextCleanup(t)
      BY <2>4 DEF D0Entry, LeaveD0, DriverContextCleanup, CallCommon, Call, Enter,
                  vars, globals, world, Up
    <2>5. ASSUME NEW t \in Threads, Request(t)
          PROVE  UNCHANGED <<g_vmm_status, Up>>
      BY <2>5 DEF Request, Answered, AddModule, CallRequest, CallCommon, Call, Enter,
                  vars, globals, world, Up
    <2>6. ASSUME NEW t \in Threads, Continue(t), ~Step(t)
          PROVE  UNCHANGED <<g_vmm_status, Up>>
      BY <2>6 DEF Continue, AddModuleCopied, AddModuleDone, LoadVmmDone, UnloadVmmDone,
                  StartVmmDone, Reported, D0Exit, D0Exited, CleanedUp,
                  CallCommon, Call, Enter, vars, globals, world, Up
    <2> QED BY <2>1, <2>2, <2>3, <2>4, <2>5, <2>6 DEF WindowsSerialNext, PowerEvent
  <1> QED BY <1>1, <1>2, WindowsInvariant, PTL
          DEF WindowsSerialSpec, ImplementsLifecycle, Lifecycle!Spec

-----------------------------------------------------------------------------
(* Callbacks end. *)

\* A step inside common.c uses up a step of the callback.
LEMMA InsideShorter ==
  ASSUME DeviceInv, NEW t \in Threads, Step(t), UNCHANGED wvars
  PROVE  0 <= CallbackStepsLeft(t)' /\ CallbackStepsLeft(t)' < CallbackStepsLeft(t)
  <1>1. /\ StepsLeft(t) \in Nat /\ StepsLeft(t)' \in Nat /\ StepsLeft(t)' < StepsLeft(t)
        /\ NumCpus \in Nat
    <2>1. SerialInv /\ SerialInv'
      BY NextInv DEF DeviceInv, SerialNext
    <2> QED BY <2>1, StepsNat, StepsNatNext, ShorterStep, ConstantsAssumption
  <1>2. wpc[t] \notin {"idle", "copy"} /\ wpc' = wpc
    BY StepServes DEF wvars
  <1> QED BY <1>1, <1>2 DEF CallbackStepsLeft, Rank

\* What the driver does when common.c has returned, a clean-up it calls included,
\* fits into what was left.
LEMMA HandlerShorter ==
  ASSUME DeviceInv, NEW t \in Threads, Continue(t), ~Step(t), wpc[t] # "idle"
  PROVE  0 <= CallbackStepsLeft(t)' /\ CallbackStepsLeft(t)' < CallbackStepsLeft(t)
  <1>c. /\ NumCpus \in Nat /\ g_num_cpus_started \in 0 .. NumCpus
        /\ wpc \in [Threads -> WindowsLabels] /\ pc \in [Threads -> Labels]
    BY ConstantsAssumption DEF DeviceInv, DeviceTypes, TypeOK
  <1>z. pc[t] = "idle" => StepsLeft(t) = 0
    BY DEF StepsLeft, RoundsLeft, Rank
  <1> USE <1>c DEF WGoto
  <1>1. CASE wpc'[t] = "idle" /\ \E l \in WindowsLabels \ {"idle"} : Returned(t, l)
    BY <1>1, <1>z DEF CallbackStepsLeft, Rank, Returned
  <1>2. CASE wpc[t] = "copy" /\ CallCommon(t, "add", buf[t], "add")
    BY <1>2 DEF CallCommon, Call, Enter, Goto, CallbackStepsLeft, StepsLeft, RoundsLeft, Rank
  <1>3. CASE Returned(t, "load") /\ CallCommon(t, "unload", NULL, "unload")
    BY <1>3, <1>z DEF Returned, CallCommon, Call, Enter, Goto,
                      CallbackStepsLeft, StepsLeft, RoundsLeft, Rank
  <1>4. CASE Returned(t, "start") /\ CallCommon(t, "stop", NULL, "rollback")
    <2>1. g_num_cpus_started' = g_num_cpus_started
      BY <1>4 DEF CallCommon, Call, Enter, globals
    <2> QED BY <1>4, <2>1, <1>z DEF Returned, CallCommon, Call, Enter, Goto,
                      CallbackStepsLeft, StepsLeft, RoundsLeft, Rank
  <1> QED
    BY <1>1, <1>2, <1>3, <1>4
       DEF Continue, AddModuleCopied, AddModuleDone, LoadVmmDone, UnloadVmmDone, StartVmmDone,
           Reported, D0Exit, D0Exited, CleanedUp, Finish, Returned, WindowsLabels

\* D0Exit begins only when no callback runs.
LEMMA D0ExitAlone ==
  ASSUME WindowsInv, NEW t \in Threads, D0Exit(t)
  PROVE  \A u \in Threads : wpc[u] = "idle"
  BY DEF WindowsInv, DeviceInv, PowerInv, CompletedOnce, D0Exit

\* Every callback ends after a number of steps known at its start, and with it
\* every request and every power transition.
THEOREM CallbacksAlwaysEnd == WindowsSerialSpec => CallbacksGetShorter
  <1>1. WindowsInv /\ [WindowsSerialNext]_allvars =>
          [\A t \in Threads : wpc[t] # "idle" =>
             0 <= CallbackStepsLeft(t)' /\ CallbackStepsLeft(t)' < CallbackStepsLeft(t)]_allvars
    <2> SUFFICES ASSUME WindowsInv, WindowsSerialNext, NEW t \in Threads, wpc[t] # "idle"
                 PROVE  0 <= CallbackStepsLeft(t)' /\ CallbackStepsLeft(t)' < CallbackStepsLeft(t)
      OBVIOUS
    <2>d. DeviceInv
      BY DEF WindowsInv
    <2>1. PICK u \in Threads : Continue(u)
      BY DEF WindowsSerialNext, WindowsQuiet
    <2>2. ~D0Exit(u)
      BY D0ExitAlone
    <2>3. CASE Step(u) /\ UNCHANGED wvars
      <3>1. u = t
        BY <2>d, <2>3, StepServes
      <3> QED BY <2>d, <2>3, <3>1, InsideShorter
    <2>4. CASE ~(Step(u) /\ UNCHANGED wvars)
      <3>1. wpc[u] # "idle"
        BY <2>1, <2>2, <2>4 DEF Continue, AddModuleCopied, AddModuleDone, LoadVmmDone,
              UnloadVmmDone, StartVmmDone, Reported, D0Exited, CleanedUp, Returned
      <3>2. ~Step(u)
        <4>1. ASSUME Step(u) PROVE FALSE
          <5>1. wpc[u] # "copy" /\ pc[u] # "idle"
            BY <2>d, <4>1, StepServes
          <5> QED BY <2>1, <2>2, <2>4, <5>1 DEF Continue, AddModuleCopied, AddModuleDone,
                LoadVmmDone, UnloadVmmDone, StartVmmDone, Reported, D0Exited, CleanedUp, Returned
        <4> QED BY <4>1
      <3>3. u = t
        BY <2>d, <3>1, OthersOut
      <3> QED BY <2>d, <2>1, <3>1, <3>2, <3>3, HandlerShorter
    <2> QED BY <2>3, <2>4
  <1> QED BY <1>1, WindowsInvariant, PTL DEF WindowsSerialSpec, CallbacksGetShorter

-----------------------------------------------------------------------------
(* What is proved of common.c holds of it inside the driver.               *)

\* The driver is an entry layer: outside common.c it calls one function at a
\* time and otherwise leaves common.c's state alone.
LEMMA WindowsEntry ==
  ASSUME WindowsInv, WindowsSerialNext
  PROVE  EntryLayer \/ \E u \in Threads : Step(u)
  <1> SUFFICES ASSUME \A u \in Threads : ~Step(u) PROVE EntryLayer
    OBVIOUS
  <1> DEFINE Alone  == UNCHANGED <<globals, mapped, op, pc, cpuid, ret>>
             Enters == \E u \in Threads, o \in Ops, a \in Files \cup {NULL} : Enter(u, o, a)
  <1>1. Quiet
    <2>1. CASE WindowsQuiet
      BY <2>1 DEF Quiet, WindowsInv, DeviceInv, WindowsQuiet, ThreadInv
    <2>2. CASE ~WindowsQuiet
      <3>1. PICK t \in Threads : Continue(t)
        BY <2>2 DEF WindowsSerialNext
      <3>2. ~D0Exit(t)
        BY <2>2, D0ExitAlone DEF WindowsQuiet
      <3>3. wpc[t] # "idle" /\ pc[t] = "idle"
        BY <3>1, <3>2 DEF Continue, AddModuleCopied, AddModuleDone, LoadVmmDone, UnloadVmmDone,
              StartVmmDone, Reported, D0Exited, CleanedUp, Returned, WindowsInv, DeviceInv, ThreadInv
      <3> QED BY <3>3, OthersOut DEF Quiet, WindowsInv
    <2> QED BY <2>1, <2>2
  <1>2. CASE PowerEvent
    <2>1. CASE D0Entry \/ LeaveD0
      <3>1. Alone
        BY <2>1 DEF D0Entry, LeaveD0, vars, frames, world
      <3> QED BY <1>1, <3>1 DEF EntryLayer
    <2>2. ASSUME NEW t \in Threads, DeviceAdd(t) PROVE EntryLayer
      BY <1>1, <2>2 DEF DeviceAdd, frames, world, EntryLayer
    <2>3. ASSUME NEW t \in Threads, DriverContextCleanup(t) PROVE EntryLayer
      <3>1. Enters
        BY <2>3 DEF DriverContextCleanup, CallCommon, Call, Ops
      <3> QED BY <1>1, <3>1 DEF EntryLayer
    <2> QED BY <1>2, <2>1, <2>2, <2>3 DEF PowerEvent
  <1>3. ASSUME NEW t \in Threads, Request(t) PROVE EntryLayer
    <2>1. CASE Answered(t) \/ AddModule(t)
      <3>1. Alone
        BY <2>1 DEF Answered, AddModule, vars, frames, world
      <3> QED BY <1>1, <3>1 DEF EntryLayer
    <2>2. CASE CallRequest(t)
      <3>1. Enters
        BY <2>2 DEF CallRequest, CallCommon, Call, Ops
      <3> QED BY <1>1, <3>1 DEF EntryLayer
    <2> QED BY <1>3, <2>1, <2>2 DEF Request
  <1>4. ASSUME NEW t \in Threads, Continue(t) PROVE EntryLayer
    <2>1. CASE \/ AddModuleDone(t) \/ UnloadVmmDone(t) \/ Reported(t)
               \/ D0Exited(t) \/ CleanedUp(t)
               \/ UNCHANGED vars
      <3>1. Alone
        BY <2>1 DEF AddModuleDone, UnloadVmmDone, Reported, D0Exited, CleanedUp, vars, frames, world
      <3> QED BY <1>1, <3>1 DEF EntryLayer
    <2>2. CASE \/ AddModuleCopied(t) \/ D0Exit(t)
               \/ CallCommon(t, "unload", NULL, "unload")
               \/ CallCommon(t, "stop", NULL, "rollback")
      <3>1. buf[t] \in Files \cup {NULL}
        BY WindowsAssumption DEF WindowsInv, DeviceInv, DeviceTypes
      <3>2. Enters
        BY <2>2, <3>1 DEF AddModuleCopied, D0Exit, CallCommon, Call, Ops
      <3> QED BY <1>1, <3>2 DEF EntryLayer
    <2> QED BY <1>4, <2>1, <2>2 DEF Continue, LoadVmmDone, StartVmmDone
  <1> QED BY <1>2, <1>3, <1>4 DEF WindowsSerialNext

LEMMA WindowsHeld == WindowsSerialSpec => []Held
  <1>1. WindowsInit => Held
    BY HeldInit DEF WindowsInit, Init
  <1>2. WindowsInv /\ Held /\ [WindowsSerialNext]_allvars => Held'
    <2> SUFFICES ASSUME WindowsInv, Held, [WindowsSerialNext]_allvars PROVE Held'
      OBVIOUS
    <2>1. CASE UNCHANGED allvars
      BY <2>1 DEF Held, ResultInv, LoadedSoFar, OnBehalf, LoadedIdx, VmmInv, NothingLoaded,
                  allvars, vars, globals, world, frames
    <2>2. CASE WindowsSerialNext
      BY <2>2, WindowsEntry, HeldStep, HeldEntry DEF WindowsInv, DeviceInv
    <2> QED BY <2>1, <2>2
  <1> QED BY <1>1, <1>2, WindowsInvariant, PTL DEF WindowsSerialSpec

\* No request reaches a VMM that lacks a part, and none is left LOADED without
\* one, across any number of sleeps.
THEOREM WindowsVmmComplete == WindowsSerialSpec => []VmmComplete
  <1>1. WindowsInv /\ Held => VmmComplete
    BY CompleteFollows DEF WindowsInv, DeviceInv, Held, MemoryInv
  <1> QED BY <1>1, WindowsInvariant, WindowsHeld, PTL

\* The requests and the power callbacks keep the books of the CPUs right, and
\* every vmcall they lead to reaches a CPU whose VMM expects it.
THEOREM WindowsCpusAccounted == WindowsSerialSpec => [](CpuAccounting /\ VmcallHasVmm)
  <1>1. WindowsInv => CpuAccounting /\ VmcallHasVmm
    BY AccountingFollows, VmcallsFollow DEF WindowsInv, DeviceInv
  <1> QED BY <1>1, WindowsInvariant, PTL

\* What the callbacks learn from common.c, and complete their requests with, is true.
THEOREM WindowsResultsTrue == WindowsSerialSpec => ResultsTrue
  <1>1. WindowsInv /\ Held /\ [WindowsSerialNext]_allvars =>
          [\A t \in Threads : pc[t] # "idle" /\ pc'[t] = "idle" =>
             /\ Outcome(op[t], ret[t])'
             /\ pc[t] = "st_loop" /\ ret'[t] = "SUCCESS" /\ FixedCpus =>
                  \A c \in Cpu : vcpu[c] = "on"]_vars
    <2> SUFFICES ASSUME WindowsInv, Held, [WindowsSerialNext]_allvars, vars' # vars,
                        NEW t \in Threads, pc[t] # "idle", pc'[t] = "idle"
                 PROVE  /\ Outcome(op[t], ret[t])'
                        /\ pc[t] = "st_loop" /\ ret'[t] = "SUCCESS" /\ FixedCpus =>
                             \A c \in Cpu : vcpu[c] = "on"
      OBVIOUS
    <2>1. WindowsSerialNext
      BY DEF allvars
    <2> QED BY <2>1, WindowsEntry, ResultsFollow DEF WindowsInv, DeviceInv
  <1> QED BY <1>1, WindowsInvariant, WindowsHeld, PTL DEF WindowsSerialSpec, ResultsTrue

=============================================================================
