---------------------------- MODULE LinuxProofs ----------------------------
(***************************************************************************)
(* Proofs about Linux.tla for one ioctl at a time: every step of the       *)
(* driver keeps SerialInv, the invariant of common.c, and PointersLive;    *)
(* LinuxInv adds where each block of the heap belongs in the middle of an  *)
(* ioctl.                                                                  *)
(***************************************************************************)
EXTENDS Linux, CommonCallProofs

\* Serial use: at most one request is being served.
OneRequest == \A t, u \in Threads : lpc[t] # "user" /\ lpc[u] # "user" => t = u

\* Where in common.c a request can be, and what its function has left behind.
ThreadInv(t) ==
  /\ lpc[t] \in {"user", "init", "add_copy"} => pc[t] = "idle"
  /\ lpc[t] \in {"add_copy", "add"} =>
       g_num_pmodules < MAX_NUM_MODULES /\ buf[t] # NULL
  /\ lpc[t] = "add" => arg[t] = buf[t] /\ pc[t] \in {"add", "add_store", "idle"}
  /\ pc[t] \in {"add", "add_store"} => lpc[t] = "add"
  /\ pc[t] \in LoadLabels \cup {"load"} => lpc[t] = "load"
  /\ lpc[t] = "load" => op[t] = "load"
  /\ lpc[t] = "unload" =>
       /\ op[t] = "unload" /\ pc[t] \in {"unload", "un_fini", "un_reset", "idle"}
       /\ pc[t] = "idle" /\ g_vmm_status = "UNLOADED" => g_num_modules = 0
  /\ lpc[t] = "rollback" =>
       /\ op[t] = "stop" /\ pc[t] \in {"stop", "sp_loop", "sp_vmcall", "sp_fini", "idle"}
       /\ pc[t] = "idle" =>
            \/ \A c \in Cpu : vcpu[c] # "on"
            \/ ret[t] = "STOP_FAILED"
            \/ g_vmm_status = "CORRUPT"

\* A load, or its clean-up, may have left allocations with the status UNLOADED.
Unfinished(t) ==
  \/ pc[t] \in (LoadLabels \ {"ld_stack"}) \cup {"unload", "un_reset"}
  \/ lpc[t] = "load" /\ pc[t] = "idle" /\ ret[t] # "SUCCESS"

\* common.c holds no memory for an unloaded VMM, but for a load under way.
CleanInv ==
  /\ g_vmm_status = "UNLOADED" => Pointers = {NULL} \/ \E t \in Threads : Unfinished(t)
  /\ \A t \in Threads :
       /\ pc[t] = "ld_tls" => g_tls = NULL
       /\ pc[t] \in {"ld_tls", "ld_elf"} => \A i \in ModIdx : mod_exec[i] = NULL

\* The buffer of a module that is being added.
Buffers == {buf[t] : t \in {u \in Threads : lpc[u] \in {"add_copy", "add"}}}

\* HeapAccounted, in the middle of a request too.
HeapInv ==
  /\ heap = (Pointers \ {NULL}) \cup FileCopies \cup Buffers
  /\ Pointers \cap FileCopies = {}
  /\ Buffers \cap (Pointers \cup FileCopies) = {}
  /\ \A i \in ModIdx : pmodules[i] # NULL <=> i < g_num_pmodules
  /\ \A i, j \in ModIdx : pmodules[i] = pmodules[j] /\ pmodules[i] # NULL => i = j

\* The modules of a VMM that is not loaded have their files.
FilesInv ==
  g_vmm_status = "UNLOADED" =>
    \A i \in LoadedIdx :
      \/ mod_file[i] \in FileCopies
      \/ \E t \in Threads : /\ lpc[t] = "add" /\ pc[t] = "idle" /\ ret[t] = "SUCCESS"
                            /\ mod_file[i] = buf[t]

\* Nothing has been called before common_init has run.
FreshInv ==
  /\ dev = "out" => LinuxQuiet
  /\ dev = "out" \/ (\E t \in Threads : lpc[t] = "init") =>
       /\ g_vmm_status = "UNLOADED" /\ g_num_cpus_started = 0
       /\ \A c \in Cpu : vcpu[c] = "off"

\* The inductive invariant of LinuxSerialSpec.
LinuxInv ==
  /\ SerialInv /\ PointersLive /\ LinuxTypeOK
  /\ OneRequest /\ (\A t \in Threads : ThreadInv(t))
  /\ CleanInv /\ HeapInv /\ FilesInv /\ FreshInv

-----------------------------------------------------------------------------
(* Who is inside the driver. *)

\* While t serves a request, or nobody does, all others are outside.
LEMMA OthersOut ==
  ASSUME LinuxInv, NEW t \in Threads, lpc[t] # "user" \/ LinuxQuiet
  PROVE  \A u \in Threads \ {t} : lpc[u] = "user" /\ pc[u] = "idle"
  BY DEF LinuxInv, OneRequest, LinuxQuiet, ThreadInv

\* A thread inside common.c serves a request that calls into it.
LEMMA StepServes ==
  ASSUME LinuxInv, NEW t \in Threads, Step(t)
  PROVE  /\ lpc[t] \notin {"user", "init", "add_copy"} /\ pc[t] # "idle"
         /\ \A u \in Threads \ {t} : lpc[u] = "user" /\ pc[u] = "idle" /\ pc'[u] = "idle"
  BY OnlyOne, OthersOut DEF LinuxInv, ThreadInv

\* A thread outside the driver has nothing to say.
LEMMA OutsideInv ==
  ASSUME NEW u \in Threads, lpc'[u] = "user", pc'[u] = "idle"
  PROVE  ThreadInv(u)'
  BY DEF ThreadInv, LoadLabels

\* common.c's own invariant survives its steps.
LEMMA StepSerial ==
  ASSUME LinuxInv, NEW t \in Threads, Step(t)
  PROVE  SerialInv' /\ PointersLive'
  BY NextInv, PointersStep DEF LinuxInv, SerialNext

-----------------------------------------------------------------------------
(* The heap while common.c runs. *)

\* common.c takes fresh blocks.
LEMMA HeapGrows ==
  ASSUME HeapInv, UNCHANGED lvars, NEW P, P \cap heap = {}, NULL \notin heap \cup P,
         heap' = heap \cup P, Pointers' \ {NULL} = (Pointers \ {NULL}) \cup P
  PROVE  HeapInv'
  <1>1. FileCopies' = FileCopies /\ Buffers' = Buffers /\ NULL \notin FileCopies
    BY DEF FileCopies, Buffers, lvars, pmods
  <1>2. Pointers' \cap FileCopies = {} /\ Buffers \cap (Pointers' \cup FileCopies) = {}
    <2>1. FileCopies \subseteq heap /\ Buffers \subseteq heap
      BY DEF HeapInv
    <2>2. ASSUME NEW p \in Pointers' PROVE p \in Pointers \/ p \in P \/ p = NULL
      OBVIOUS
    <2>3. NULL \notin Buffers
      BY <2>1
    <2> QED BY <1>1, <2>1, <2>2, <2>3 DEF HeapInv
  <1> QED BY <1>1, <1>2 DEF HeapInv, lvars, pmods

\* common.c takes one fresh block.
LEMMA HeapTakes ==
  ASSUME HeapInv, UNCHANGED lvars, NULL \notin heap,
         NEW p \in Blocks \ heap, heap' = heap \cup {p},
         Pointers' \ {NULL} = (Pointers \ {NULL}) \cup ({p} \ {NULL})
  PROVE  HeapInv'
  <1>1. p # NULL
    BY ConstantsAssumption
  <1>2. {p} \cap heap = {} /\ NULL \notin heap \cup {p} /\ {p} \ {NULL} = {p}
    BY <1>1
  <1> QED BY <1>2, HeapGrows

\* common_reset gives back exactly what the pointers refer to.
LEMMA HeapReset ==
  ASSUME LinuxInv, common_reset, UNCHANGED <<pmods, Buffers>>
  PROVE  HeapInv' /\ Pointers' = {NULL}
  <1>1. Pointers' = {NULL}
    BY ConstantsAssumption DEF common_reset, ResetPointers, Pointers, ModIdx
  <1>2. Pointers \ {NULL} \subseteq ResetFrees /\ ResetFrees \subseteq Pointers
    BY DEF LinuxInv, PointersLive, ResetFrees, LoadedIdx, Pointers
  <1>3. FileCopies' = FileCopies /\ NULL \notin FileCopies
    BY DEF FileCopies, pmods
  <1>4. heap' = FileCopies \cup Buffers
    <2>1. heap' = heap \ ResetFrees
      BY DEF common_reset
    <2>2. NULL \notin heap
      BY ConstantsAssumption DEF LinuxInv, SerialInv, TypeOK
    <2> QED BY <1>2, <2>1, <2>2 DEF LinuxInv, HeapInv
  <1>5. NULL \notin Buffers
    <2>1. Buffers \subseteq heap /\ heap \subseteq Blocks
      BY DEF LinuxInv, HeapInv, SerialInv, TypeOK
    <2> QED BY <2>1, ConstantsAssumption
  <1> QED BY <1>1, <1>3, <1>4, <1>5 DEF LinuxInv, HeapInv, pmods

\* Before common_load_vmm has allocated anything, nothing is held.
LEMMA NothingHeld ==
  ASSUME LinuxInv, NEW t \in Threads, Step(t), g_vmm_status = "UNLOADED",
         pc[t] \notin (LoadLabels \ {"ld_stack"}) \cup {"unload", "un_reset"}
  PROVE  Pointers = {NULL}
  <1>1. ~Unfinished(t)
    BY StepServes DEF Unfinished
  <1>2. \A u \in Threads \ {t} : ~Unfinished(u)
    BY StepServes DEF Unfinished, LoadLabels
  <1> QED BY <1>1, <1>2 DEF LinuxInv, CleanInv

\* No step of common.c loses a block or takes one that is in use.
LEMMA HeapStep ==
  ASSUME LinuxInv, NEW t \in Threads, Step(t), UNCHANGED lvars
  PROVE  HeapInv'
  <1>t. HeapInv /\ FlowOf(t) /\ TypeOK
    BY DEF LinuxInv, SerialInv
  <1>n. NULL \notin heap /\ NULL \notin Blocks
    BY <1>t, ConstantsAssumption DEF TypeOK
  <1>1. CASE Elsewhere(t) \/ LoadMapModule(t) \/ LoadMapTls(t) \/ AddStore(t)
    <2>1. UNCHANGED <<mod_exec, g_stack, g_tls, heap>>
      BY <1>1, ElsewhereFrame DEF memory, LoadMapModule, LoadMapTls, AddStore, globals, world
    <2>2. UNCHANGED <<heap, Pointers, FileCopies, Buffers, pmods>>
      BY <2>1 DEF Pointers, FileCopies, Buffers, lvars, pmods
    <2> QED BY <1>t, <2>2 DEF HeapInv, pmods
  <1>2. CASE LoadStack(t)
    <2>1. PICK p \in Blocks \cup {NULL} : platform_alloc_rw(p, 1) /\ g_stack' = p
      BY <1>2 DEF LoadStack
    <2>2. g_tls' = NULL /\ \A i \in ModIdx : mod_exec'[i] = NULL
      <3>1. Pointers = {NULL}
        BY <1>t, <1>2, NothingHeld DEF LoadStack, At, FlowOf, LoadLabels
      <3> QED BY <1>2, <3>1 DEF LoadStack, Pointers
    <2>3. Pointers = {NULL} /\ Pointers' = {p, NULL}
      <3>1. Pointers = {NULL}
        BY <1>t, <1>2, NothingHeld DEF LoadStack, At, FlowOf, LoadLabels
      <3> QED BY <2>1, <2>2, <3>1 DEF Pointers
    <2>4. CASE p = NULL /\ heap' = heap
      BY <1>t, <1>n, <2>3, <2>4, HeapGrows, Pointers' \ {NULL} = (Pointers \ {NULL}) \cup {}
    <2>5. CASE p \in Blocks \ heap /\ heap' = heap \cup {p}
      BY <1>t, <1>n, <2>3, <2>5, HeapTakes
    <2> QED BY <2>1, <2>4, <2>5 DEF platform_alloc_rw
  <1>3. CASE LoadTls(t)
    <2>1. PICK p \in Blocks \cup {NULL} : platform_alloc_rw(p, g_tls_size') /\ g_tls' = p
      BY <1>3 DEF LoadTls
    <2>2. Pointers' \ {NULL} = (Pointers \ {NULL}) \cup ({p} \ {NULL})
      <3>1. g_tls = NULL
        BY <1>3 DEF LoadTls, At, LinuxInv, CleanInv
      <3> QED BY <1>3, <2>1, <3>1 DEF LoadTls, Pointers
    <2>3. CASE p = NULL /\ heap' = heap
      BY <1>t, <1>n, <2>2, <2>3, HeapGrows, {p} \ {NULL} = {}
    <2>4. CASE p \in Blocks \ heap /\ heap' = heap \cup {p}
      BY <1>t, <1>n, <2>2, <2>4, HeapTakes
    <2> QED BY <2>1, <2>3, <2>4 DEF platform_alloc_rw
  <1>4. CASE LoadElf(t)
    <2>1. PICK n \in 0 .. g_num_modules : bfelf_load(n, TRUE) \/ bfelf_load(n, FALSE)
      <3>1. g_num_modules \in 0 .. g_num_modules
        BY <1>t, ConstantsAssumption DEF TypeOK
      <3>2. CASE bfelf_load(g_num_modules, TRUE)
        BY <3>1, <3>2
      <3>3. CASE \E n \in 0 .. g_num_modules : bfelf_load(n, FALSE)
        BY <3>3
      <3> QED BY <1>4, <3>2, <3>3 DEF LoadElf
    <2>2. PICK b \in [0 .. n - 1 -> Blocks \ heap] :
            /\ heap' = heap \cup {b[i] : i \in 0 .. n - 1}
            /\ mod_exec' = [i \in ModIdx |-> IF i < n THEN b[i] ELSE mod_exec[i]]
      BY <2>1 DEF bfelf_load
    <2> DEFINE P == {b[i] : i \in 0 .. n - 1}
    <2>3. \A i \in ModIdx : mod_exec[i] = NULL
      BY <1>4 DEF LoadElf, At, LinuxInv, CleanInv
    <2>4. {mod_exec'[i] : i \in ModIdx} \ {NULL} = P
      <3>1. 0 .. n - 1 \subseteq ModIdx /\ \A i \in ModIdx : i < n <=> i \in 0 .. n - 1
        BY <1>t, ConstantsAssumption DEF TypeOK, ModIdx
      <3>2. P \subseteq Blocks
        OBVIOUS
      <3>3. \A i \in ModIdx : mod_exec'[i] = IF i < n THEN b[i] ELSE NULL
        BY <2>2, <2>3
      <3> QED BY <1>n, <3>1, <3>2, <3>3
    <2>5. Pointers' \ {NULL} = (Pointers \ {NULL}) \cup P
      <3>1. UNCHANGED <<g_stack, g_tls>>
        BY <1>4 DEF LoadElf
      <3>2. Pointers \ {NULL} = {g_stack, g_tls} \ {NULL}
        BY <2>3 DEF Pointers
      <3> QED BY <2>4, <3>1, <3>2 DEF Pointers
    <2>6. P \cap heap = {} /\ NULL \notin heap \cup P
      BY <1>n
    <2> HIDE DEF P
    <2>7. heap' = heap \cup P
      BY <2>2 DEF P
    <2> QED BY <1>t, <2>5, <2>6, <2>7, HeapGrows
  <1>5. ASSUME common_reset PROVE HeapInv'
    <2>1. UNCHANGED <<pmods, Buffers>>
      BY DEF lvars, pmods, Buffers
    <2> QED BY <1>5, <2>1, HeapReset
  <1>6. CASE UnloadReset(t)
    BY <1>5, <1>6 DEF UnloadReset
  <1>7. CASE FiniCheck(t)
    <2>1. CASE UNCHANGED <<globals, world>>
      <3>1. UNCHANGED <<heap, Pointers, FileCopies, Buffers, pmods>>
        BY <2>1 DEF Pointers, FileCopies, Buffers, lvars, pmods, globals, world
      <3> QED BY <1>t, <3>1 DEF HeapInv, pmods
    <2> QED BY <1>5, <1>7, <2>1 DEF FiniCheck
  <1> QED BY <1>1, <1>2, <1>3, <1>4, <1>6, <1>7 DEF Step, Elsewhere

\* A load that has allocated goes on to LOADED, or cleans up: nothing is held
\* when the status is UNLOADED again.
LEMMA CleanStep ==
  ASSUME LinuxInv, NEW t \in Threads, Step(t), UNCHANGED lvars
  PROVE  CleanInv'
  <1>t. FlowOf(t) /\ ThreadInv(t) /\ CleanInv /\ pc \in [Threads -> Labels] /\ ret \in [Threads -> Codes]
    BY DEF LinuxInv, SerialInv, TypeOK
  <1> USE DEF At, Goto, SetRet, Return, Failure, LoadLabels
  <1>1. ASSUME g_vmm_status' = "UNLOADED"
        PROVE  Pointers' = {NULL} \/ \E u \in Threads : Unfinished(u)'
    <2>1. ASSUME common_reset PROVE Pointers' = {NULL}
      <3>1. UNCHANGED <<pmods, Buffers>>
        BY DEF lvars, pmods, Buffers
      <3> QED BY <2>1, <3>1, HeapReset
    <2>2. ASSUME UNCHANGED <<g_vmm_status, mod_exec, g_stack, g_tls>>,
                 pc[t] \notin (LoadLabels \ {"ld_stack"}) \cup {"unload", "un_reset"}
          PROVE  Pointers' = {NULL}
      <3>1. Pointers = {NULL}
        BY <1>1, <2>2, NothingHeld
      <3> QED BY <2>2, <3>1 DEF Pointers
    <2>3. CASE AddEnter(t) \/ AddStore(t) \/ LoadEnter(t) \/ DumpEnter(t) \/ DumpCall(t)
      BY <2>2, <2>3 DEF AddEnter, AddStore, LoadEnter, DumpEnter, DumpCall, globals
    <2>4. CASE LoadStack(t) \/ LoadTls(t) \/ LoadElf(t)
      BY <1>t, <2>4 DEF LoadStack, LoadTls, LoadElf, Unfinished
    <2>5. CASE LoadInit(t) \/ LoadMapModule(t)
      BY <1>t, <2>5 DEF LoadInit, LoadMapModule, Unfinished
    <2>6. CASE LoadMapTls(t)
      <3>1. lpc'[t] = "load"
        BY <1>t, <2>6 DEF LoadMapTls, ThreadInv, lvars
      <3>2. pc'[t] = "idle" /\ ret'[t] # "SUCCESS"
        BY <1>t, <1>1, <2>6 DEF LoadMapTls
      <3> QED BY <3>1, <3>2 DEF Unfinished
    <2>7. CASE UnloadEnter(t)
      BY <1>t, <1>1, <2>7 DEF UnloadEnter, globals, Unfinished
    <2>8. CASE UnloadFini(t)
      BY <1>t, <1>1, <2>8 DEF UnloadFini, FlowOf
    <2>9. CASE UnloadReset(t)
      BY <2>1, <2>9 DEF UnloadReset
    <2>10. CASE StartEnter(t) \/ StopEnter(t) \/ FiniEnter(t) \/ FiniLoaded(t)
      BY <2>2, <2>10 DEF StartEnter, StopEnter, FiniEnter, FiniLoaded, globals
    <2>11. CASE StartLoop(t) \/ StartInit(t) \/ StartVmcall(t)
      BY <1>t, <1>1, <2>11 DEF StartLoop, StartInit, StartVmcall, FlowOf, globals
    <2>12. CASE StopLoop(t) \/ StopVmcall(t) \/ StopFini(t)
      BY <1>t, <1>1, <2>12 DEF StopLoop, StopVmcall, StopFini, FlowOf, globals
    <2>13. CASE FiniCheck(t)
      BY <2>1, <2>2, <2>13 DEF FiniCheck, globals
    <2> QED BY <2>3, <2>4, <2>5, <2>6, <2>7, <2>8, <2>9, <2>10, <2>11, <2>12, <2>13 DEF Step
  <1>2. /\ pc'[t] = "ld_tls" => LoadStack(t)
        /\ pc'[t] = "ld_elf" => LoadTls(t)
    <2>1. CASE AddEnter(t) \/ AddStore(t) \/ LoadEnter(t) \/ LoadStack(t) \/ LoadTls(t)
      BY <1>t, <2>1 DEF AddEnter, AddStore, LoadEnter, LoadStack, LoadTls
    <2>2. CASE LoadElf(t) \/ LoadInit(t) \/ LoadMapModule(t) \/ LoadMapTls(t)
      BY <1>t, <2>2 DEF LoadElf, LoadInit, LoadMapModule, LoadMapTls
    <2>3. CASE UnloadEnter(t) \/ UnloadFini(t) \/ UnloadReset(t)
      BY <1>t, <2>3 DEF UnloadEnter, UnloadFini, UnloadReset, UnloadReturns
    <2>4. CASE StartEnter(t) \/ StartLoop(t) \/ StartInit(t) \/ StartVmcall(t)
      BY <1>t, <2>4 DEF StartEnter, StartLoop, StartInit, StartVmcall
    <2>5. CASE StopEnter(t) \/ StopLoop(t) \/ StopVmcall(t) \/ StopFini(t)
      BY <1>t, <2>5 DEF StopEnter, StopLoop, StopVmcall, StopFini, StopReturns
    <2>6. CASE FiniEnter(t) \/ FiniLoaded(t) \/ FiniCheck(t) \/ DumpEnter(t) \/ DumpCall(t)
      BY <1>t, <2>6 DEF FiniEnter, FiniLoaded, FiniCheck, DumpEnter, DumpCall
    <2> QED BY <2>1, <2>2, <2>3, <2>4, <2>5, <2>6 DEF Step
  <1>3. /\ pc'[t] = "ld_tls" => g_tls' = NULL
        /\ pc'[t] \in {"ld_tls", "ld_elf"} => \A i \in ModIdx : mod_exec'[i] = NULL
    <2>1. CASE LoadStack(t)
      <3>1. Pointers = {NULL}
        BY <1>t, <2>1, NothingHeld DEF LoadStack, FlowOf
      <3>2. UNCHANGED <<g_tls, mod_exec>>
        BY <2>1 DEF LoadStack
      <3> QED BY <3>1, <3>2 DEF Pointers
    <2>2. CASE LoadTls(t)
      <3>1. pc'[t] # "ld_tls" /\ pc[t] = "ld_tls"
        BY <1>t, <2>2 DEF LoadTls
      <3> QED BY <1>t, <2>2, <3>1 DEF CleanInv, LoadTls
    <2> QED BY <1>2, <2>1, <2>2
  <1>4. \A u \in Threads \ {t} : pc'[u] = "idle"
    BY StepServes
  <1> QED BY <1>1, <1>3, <1>4 DEF CleanInv

-----------------------------------------------------------------------------
(* The files and the flow of an ioctl while common.c runs. *)

\* Only common_reset takes the driver to UNLOADED.
LEMMA ToUnloaded ==
  ASSUME LinuxInv, NEW t \in Threads, Step(t), g_vmm_status' = "UNLOADED"
  PROVE  common_reset \/ g_vmm_status = "UNLOADED"
  <1>t. FlowOf(t)
    BY DEF LinuxInv, SerialInv
  <1>1. CASE \/ AddEnter(t) \/ AddStore(t) \/ LoadEnter(t) \/ LoadStack(t) \/ LoadTls(t)
             \/ LoadElf(t) \/ LoadInit(t) \/ LoadMapModule(t) \/ LoadMapTls(t)
    BY <1>1, <1>t DEF AddEnter, AddStore, LoadEnter, LoadStack, LoadTls, LoadElf, LoadInit,
                      LoadMapModule, LoadMapTls, FlowOf, At, globals
  <1>2. CASE UnloadEnter(t) \/ UnloadFini(t) \/ UnloadReset(t) \/ FiniCheck(t)
    BY <1>2 DEF UnloadEnter, UnloadFini, UnloadReset, FiniCheck, globals
  <1>3. CASE StartEnter(t) \/ StartLoop(t) \/ StartInit(t) \/ StartVmcall(t)
    BY <1>3 DEF StartEnter, StartLoop, StartInit, StartVmcall, globals
  <1>4. CASE StopEnter(t) \/ StopLoop(t) \/ StopVmcall(t) \/ StopFini(t)
    BY <1>4 DEF StopEnter, StopLoop, StopVmcall, StopFini, globals
  <1>5. CASE FiniEnter(t) \/ FiniLoaded(t) \/ DumpEnter(t) \/ DumpCall(t)
    BY <1>5 DEF FiniEnter, FiniLoaded, DumpEnter, DumpCall, globals
  <1> QED BY <1>1, <1>2, <1>3, <1>4, <1>5 DEF Step

\* Modules are added one by one and dropped all at once.
LEMMA ModulesStep ==
  ASSUME NEW t \in Threads, Step(t)
  PROVE  \/ UNCHANGED <<g_num_modules, mod_file>>
         \/ common_reset
         \/ AddStore(t)
  <1>1. CASE Elsewhere(t)
    BY <1>1 DEF Elsewhere, AddEnter, LoadEnter, LoadInit, UnloadEnter, UnloadFini, StartEnter,
                StartLoop, StartInit, StartVmcall, StopEnter, StopLoop, StopVmcall,
                StopFini, FiniEnter, FiniLoaded, DumpEnter, DumpCall, globals
  <1>2. CASE LoadStack(t) \/ LoadTls(t) \/ LoadElf(t) \/ LoadMapModule(t) \/ LoadMapTls(t)
    BY <1>2 DEF LoadStack, LoadTls, LoadElf, LoadMapModule, LoadMapTls, globals
  <1>3. CASE UnloadReset(t) \/ FiniCheck(t)
    BY <1>3 DEF UnloadReset, FiniCheck, globals
  <1> QED BY <1>1, <1>2, <1>3 DEF Step, Elsewhere

\* A module registered while the VMM is unloaded has its file: the copy is kept,
\* or ioctl_add_module is about to keep it.
LEMMA FilesStep ==
  ASSUME LinuxInv, NEW t \in Threads, Step(t), UNCHANGED lvars
  PROVE  FilesInv'
  <1> SUFFICES ASSUME g_vmm_status' = "UNLOADED", NEW i \in ModIdx, i < g_num_modules'
               PROVE  \/ mod_file'[i] \in FileCopies
                      \/ /\ lpc[t] = "add" /\ pc'[t] = "idle" /\ ret'[t] = "SUCCESS"
                         /\ mod_file'[i] = buf[t]
    <2>1. UNCHANGED <<FileCopies, lpc, buf>>
      BY DEF FileCopies, lvars, pmods
    <2> QED BY <2>1 DEF FilesInv, LoadedIdx
  <1>1. \A u \in Threads : ~(lpc[u] = "add" /\ pc[u] = "idle")
    BY StepServes
  <1>2. CASE common_reset
    BY <1>2, ConstantsAssumption DEF common_reset, ModIdx
  <1>3. CASE AddStore(t)
    <2>1. /\ g_num_modules \in 0 .. MAX_NUM_MODULES
          /\ mod_file \in [ModIdx -> Files \cup {NULL}]
          /\ pc \in [Threads -> Labels] /\ ret \in [Threads -> Codes]
      BY DEF LinuxInv, SerialInv, TypeOK
    <2>2. /\ g_vmm_status = "UNLOADED" /\ g_num_modules' = g_num_modules + 1
          /\ mod_file' = [mod_file EXCEPT ![g_num_modules] = arg[t]]
          /\ pc'[t] = "idle" /\ ret'[t] = "SUCCESS"
          /\ lpc[t] = "add" /\ arg[t] = buf[t]
      BY <1>3, <2>1 DEF AddStore, At, Return, Goto, SetRet, LinuxInv, ThreadInv
    <2>3. CASE i = g_num_modules
      BY <2>1, <2>2, <2>3
    <2>4. CASE i < g_num_modules
      <3>1. mod_file'[i] = mod_file[i]
        BY <2>1, <2>2, <2>4, ConstantsAssumption DEF ModIdx
      <3> QED BY <1>1, <2>2, <2>4, <3>1 DEF LinuxInv, FilesInv, LoadedIdx
    <2> QED BY <2>1, <2>2, <2>3, <2>4, ConstantsAssumption DEF ModIdx
  <1>4. CASE UNCHANGED <<g_num_modules, mod_file>> /\ ~common_reset
    <2>1. g_vmm_status = "UNLOADED"
      BY <1>4, ToUnloaded
    <2> QED BY <1>1, <1>4, <2>1 DEF LinuxInv, FilesInv, LoadedIdx
  <1> QED BY <1>2, <1>3, <1>4, ModulesStep

\* No CPU runs the VMM when common_stop_vmm has taken the last one down.
LEMMA LoopLeftDown ==
  ASSUME SerialInv, NEW t \in Threads, StopLoop(t), pc'[t] = "idle", op[t] = "stop"
  PROVE  (\A c \in Cpu : vcpu'[c] # "on") \/ g_vmm_status' = "CORRUPT"
  <1>t. FlowOf(t) /\ TypeOK
    BY DEF SerialInv
  <1>1. CASE cpuid[t] < 0
    <2>1. g_num_cpus_started = 0 /\ g_vmm_status = "RUNNING"
      BY <1>1, <1>t DEF StopLoop, At, FlowOf, TypeOK
    <2>2. \A c \in Cpu : c >= g_num_cpus_started
      BY <2>1, ConstantsAssumption DEF Cpu
    <2>3. \A c \in Cpu : vcpu[c] = "off"
      BY <2>1, <2>2 DEF SerialInv, CpuInv
    <2> QED BY <2>3 DEF StopLoop, world
  <1>2. CASE cpuid[t] >= 0
    <2>1. cpuid[t] \in Int /\ pc \in [Threads -> Labels]
      BY <1>t DEF TypeOK
    <2> QED BY <1>2, <2>1 DEF StopLoop, Goto
  <1>3. cpuid[t] \in Int
    BY <1>t DEF TypeOK
  <1> QED BY <1>1, <1>2, <1>3

\* A step of common.c leaves the ioctl where its code expects it.
LEMMA ThreadStep ==
  ASSUME LinuxInv, NEW t \in Threads, Step(t), UNCHANGED lvars
  PROVE  ThreadInv(t)'
  <1>t. /\ FlowOf(t) /\ ThreadInv(t) /\ TypeOK /\ SerialInv
        /\ pc \in [Threads -> Labels] /\ ret \in [Threads -> Codes]
    BY DEF LinuxInv, SerialInv, TypeOK
  <1>l. lpc[t] \notin {"user", "init", "add_copy"} /\ UNCHANGED <<lpc, buf, g_num_pmodules>>
    BY StepServes DEF lvars, pmods
  <1> USE DEF At, Goto, SetRet, Return, Failure, Keep, LoadLabels
  <1>1. CASE AddEnter(t) \/ AddStore(t)
    <2>1. /\ pc[t] \in {"add", "add_store"} /\ pc'[t] \in {"add_store", "idle"}
          /\ UNCHANGED <<op, arg>>
      BY <1>1, <1>t DEF AddEnter, AddStore
    <2> QED BY <1>t, <1>l, <2>1 DEF ThreadInv
  <1>2. CASE LoadEnter(t) \/ LoadStack(t) \/ LoadTls(t)
    <2>1. /\ pc[t] \in LoadLabels \cup {"load"} /\ UNCHANGED <<op, arg>>
          /\ pc'[t] \notin {"add", "add_store"}
      BY <1>2, <1>t DEF LoadEnter, LoadStack, LoadTls
    <2> QED BY <1>t, <1>l, <2>1 DEF ThreadInv
  <1>3. CASE LoadElf(t) \/ LoadInit(t) \/ LoadMapModule(t) \/ LoadMapTls(t)
    <2>1. /\ pc[t] \in LoadLabels \cup {"load"} /\ UNCHANGED <<op, arg>>
          /\ pc'[t] \notin {"add", "add_store"}
      BY <1>3, <1>t DEF LoadElf, LoadInit, LoadMapModule, LoadMapTls
    <2> QED BY <1>t, <1>l, <2>1 DEF ThreadInv
  <1>4. CASE UnloadEnter(t) \/ UnloadFini(t) \/ UnloadReset(t)
    <2>1. /\ pc[t] \in {"unload", "un_fini", "un_reset"} /\ UNCHANGED <<op, arg>>
          /\ pc'[t] \in {"un_fini", "un_reset", "idle", "fi_check"}
          /\ pc'[t] = "fi_check" => op[t] = "fini"
      BY <1>4, <1>t DEF UnloadEnter, UnloadFini, UnloadReset, UnloadReturns
    <2>2. pc'[t] = "idle" /\ g_vmm_status' = "UNLOADED" => g_num_modules' = 0
      BY <1>4, <1>t DEF UnloadEnter, UnloadFini, UnloadReset, UnloadReturns,
                        common_reset, globals
    <2> QED BY <1>t, <1>l, <2>1, <2>2 DEF ThreadInv
  <1>5. CASE StartEnter(t) \/ StartLoop(t) \/ StartInit(t) \/ StartVmcall(t)
    <2>1. /\ pc[t] \in {"start", "st_loop", "st_init", "st_vmcall"} /\ UNCHANGED <<op, arg>>
          /\ pc'[t] \in {"st_loop", "st_init", "st_vmcall", "stop", "idle"}
      BY <1>5, <1>t DEF StartEnter, StartLoop, StartInit, StartVmcall
    <2> QED BY <1>t, <1>l, <2>1 DEF ThreadInv
  <1>6. CASE StopEnter(t) \/ StopLoop(t) \/ StopVmcall(t) \/ StopFini(t)
    <2>1. /\ pc[t] \in {"stop", "sp_loop", "sp_vmcall", "sp_fini"} /\ UNCHANGED <<op, arg>>
          /\ pc'[t] \in {"sp_loop", "sp_vmcall", "sp_fini", "idle", "fi_loaded"}
          /\ pc'[t] = "fi_loaded" => op[t] = "fini"
      BY <1>6, <1>t DEF StopEnter, StopLoop, StopVmcall, StopFini, StopReturns
    <2>2. ASSUME op[t] = "stop", pc'[t] = "idle"
          PROVE  \/ \A c \in Cpu : vcpu'[c] # "on"
                 \/ ret'[t] = "STOP_FAILED"
                 \/ g_vmm_status' = "CORRUPT"
      <3>1. CASE StopEnter(t)
        <4>1. UNCHANGED <<vcpu, g_vmm_status>> /\ g_vmm_status \in {"CORRUPT", "LOADED", "UNLOADED"}
          BY <1>t, <2>2, <3>1 DEF StopEnter, globals, world
        <4> QED BY <1>t, <4>1, NotStarted
      <3>2. CASE StopLoop(t)
        BY <1>t, <2>2, <3>2, LoopLeftDown
      <3>3. CASE StopVmcall(t)
        BY <1>t, <2>2, <3>3 DEF StopVmcall, StopReturns
      <3>4. CASE StopFini(t)
        BY <1>t, <2>2, <3>4 DEF StopFini
      <3> QED BY <1>6, <3>1, <3>2, <3>3, <3>4
    <2> QED BY <1>t, <1>l, <2>1, <2>2 DEF ThreadInv
  <1>7. CASE FiniEnter(t) \/ FiniLoaded(t) \/ FiniCheck(t) \/ DumpEnter(t) \/ DumpCall(t)
    <2>1. /\ pc[t] \in {"fini", "fi_loaded", "fi_check", "dump", "du_call"} /\ UNCHANGED <<op, arg>>
          /\ pc'[t] \in {"stop", "fi_loaded", "unload", "fi_check", "idle", "du_call"}
      BY <1>7, <1>t DEF FiniEnter, FiniLoaded, FiniCheck, DumpEnter, DumpCall
    <2> QED BY <1>t, <1>l, <2>1 DEF ThreadInv
  <1> QED BY <1>1, <1>2, <1>3, <1>4, <1>5, <1>6, <1>7 DEF Step

\* A step of common.c keeps the invariant of the driver.
LEMMA InsideStep ==
  ASSUME LinuxInv, NEW t \in Threads, Step(t), UNCHANGED lvars
  PROVE  LinuxInv'
  <1>1. SerialInv' /\ PointersLive'
    BY StepSerial
  <1>2. LinuxTypeOK'
    <2>1. TypeOK' /\ LinuxTypeOK
      BY <1>1 DEF SerialInv, LinuxInv
    <2> QED BY <2>1 DEF LinuxTypeOK, lvars, pmods
  <1>3. OneRequest'
    BY DEF LinuxInv, OneRequest, lvars
  <1>4. \A u \in Threads : ThreadInv(u)'
    <2>1. \A u \in Threads \ {t} : lpc'[u] = "user" /\ pc'[u] = "idle"
      BY StepServes DEF lvars
    <2> QED BY <2>1, OutsideInv, ThreadStep
  <1>5. FreshInv'
    <2>1. dev # "out" /\ \A u \in Threads : lpc[u] # "init"
      BY StepServes DEF LinuxInv, FreshInv, LinuxQuiet
    <2> QED BY <2>1 DEF FreshInv, lvars
  <1> QED BY <1>1, <1>2, <1>3, <1>4, <1>5, CleanStep, HeapStep, FilesStep DEF LinuxInv

-----------------------------------------------------------------------------
(* Requests, and what entry.c does with the answers. *)

\* common.c's invariant does not depend on what else is in the heap.
LEMMA SerialKept ==
  ASSUME SerialInv, UNCHANGED <<globals, vmm_inited, mapped, vcpu, frames>>,
         heap' \in SUBSET Blocks
  PROVE  SerialInv'
  <1> USE DEF globals, frames, pinning
  <1>1. TypeOK'
    BY DEF SerialInv, TypeOK
  <1>2. OneAtATime' /\ \A t \in Threads : FlowOf(t)'
    BY DEF SerialInv, OneAtATime, FlowOf
  <1>3. CpuInv'
    BY DEF SerialInv, CpuInv
  <1> QED BY <1>1, <1>2, <1>3 DEF SerialInv

\* Nor do its pointers, as long as the blocks they refer to stay.
LEMMA PointersKept ==
  ASSUME PointersLive, UNCHANGED globals, Pointers \ {NULL} \subseteq heap'
  PROVE  PointersLive' /\ UNCHANGED Pointers
  BY DEF PointersLive, Pointers, globals

\* All threads but t stay outside the driver.
LEMMA OthersStay ==
  ASSUME LinuxInv, NEW t \in Threads, lpc[t] # "user" \/ LinuxQuiet,
         \A u \in Threads \ {t} : lpc'[u] = lpc[u] /\ pc'[u] = pc[u],
         ThreadInv(t)'
  PROVE  OneRequest' /\ \A u \in Threads : ThreadInv(u)'
  <1>1. \A u \in Threads \ {t} : lpc'[u] = "user" /\ pc'[u] = "idle"
    BY OthersOut
  <1>2. OneRequest'
    BY <1>1 DEF OneRequest
  <1> QED BY <1>1, <1>2, OutsideInv

\* t calls into common.c: nothing but its own place changes.
LEMMA CallKeeps ==
  ASSUME LinuxInv, NEW t \in Threads, lpc[t] # "user" \/ LinuxQuiet,
         NEW o \in Ops, NEW a \in Files \cup {NULL},
         NEW l \in LinuxLabels \ {"user", "init", "add_copy"},
         CallCommon(t, o, a, l), UNCHANGED <<dev, g_module_length, pmods, buf>>,
         dev # "out", lpc[t] \notin {"init", "add"},
         lpc[t] = "add_copy" <=> l = "add",
         l = "add" => a = buf[t], o = "add" <=> l = "add",
         o = "load" <=> l = "load",
         l = "unload" => o = "unload",
         l = "rollback" => o = "stop",
         lpc[t] = "load" /\ ret[t] # "SUCCESS" => o = "unload"
  PROVE  LinuxInv'
  <1>t. SerialInv /\ LinuxTypeOK /\ PointersLive /\ pc \in [Threads -> Labels] /\ op \in [Threads -> Ops]
        /\ arg \in [Threads -> Files \cup {NULL}] /\ lpc \in [Threads -> LinuxLabels]
    BY DEF LinuxInv, SerialInv, TypeOK, LinuxTypeOK
  <1>o. \A u \in Threads \ {t} : lpc[u] = "user" /\ pc[u] = "idle"
    BY OthersOut
  <1>1. /\ UNCHANGED <<globals, world, ret>> /\ pc[t] = "idle"
        /\ pc' = [pc EXCEPT ![t] = o] /\ op' = [op EXCEPT ![t] = o]
        /\ arg' = [arg EXCEPT ![t] = a] /\ lpc' = [lpc EXCEPT ![t] = l]
    BY DEF CallCommon, Call, Enter, At, Goto, LGoto
  <1>2. /\ pc'[t] = o /\ op'[t] = o /\ arg'[t] = a /\ lpc'[t] = l
        /\ \A u \in Threads \ {t} : lpc'[u] = lpc[u] /\ pc'[u] = pc[u]
    BY <1>t, <1>1
  <1>3. SerialInv'
    <2>1. Quiet
      BY <1>o, <1>1 DEF Quiet
    <2>2. CallAny(t)
      BY DEF CallAny, CallCommon
    <2> QED BY <1>t, <2>1, <2>2, CallStep
  <1>4. PointersLive' /\ UNCHANGED Pointers
    BY <1>t, <1>1, PointersKept DEF PointersLive, world
  <1>5. LinuxTypeOK'
    BY <1>t, <1>1, <1>3 DEF LinuxTypeOK, SerialInv, pmods
  <1>6. OneRequest' /\ \A u \in Threads : ThreadInv(u)'
    <2>1. ThreadInv(t)
      BY DEF LinuxInv
    <2>2. ThreadInv(t)'
      BY <1>2, <2>1 DEF ThreadInv, LoadLabels, Ops, pmods
    <2> QED BY <1>2, <2>2, OthersStay
  <1>7. CleanInv'
    <2>1. \A u \in Threads \ {t} : ~Unfinished(u)
      BY <1>o DEF Unfinished, LoadLabels
    <2>2. Unfinished(t) => Unfinished(t)'
      BY <1>1, <1>2 DEF Unfinished, LoadLabels
    <2>3. \A u \in Threads : pc'[u] \notin {"ld_tls", "ld_elf"}
      BY <1>o, <1>2 DEF Ops
    <2> QED BY <1>1, <1>4, <2>1, <2>2, <2>3 DEF CleanInv, LinuxInv, globals
  <1>8. HeapInv'
    <2>1. \A u \in Threads : lpc'[u] \in {"add_copy", "add"} <=> lpc[u] \in {"add_copy", "add"}
      BY <1>o, <1>2
    <2>2. UNCHANGED <<Buffers, FileCopies>>
      BY <2>1 DEF Buffers, FileCopies, pmods
    <2> QED BY <1>1, <1>4, <2>2 DEF HeapInv, LinuxInv, world, pmods
  <1>9. FilesInv'
    <2>1. \A u \in Threads : lpc[u] # "add"
      BY <1>o
    <2> QED BY <1>1, <2>1 DEF LinuxInv, FilesInv, LoadedIdx, FileCopies, globals, pmods
  <1>10. FreshInv'
    BY <1>o, <1>2 DEF FreshInv
  <1> QED BY <1>3, <1>4, <1>5, <1>6, <1>7, <1>8, <1>9, <1>10 DEF LinuxInv

\* t returns to user space, having done nothing but, perhaps, remove the device.
LEMMA ReturnKeeps ==
  ASSUME LinuxInv, NEW t \in Threads,
         lpc[t] \notin {"user", "init", "add_copy", "add"}, pc[t] = "idle",
         lpc[t] = "load" => ret[t] = "SUCCESS",
         LGoto(t, "user"), UNCHANGED <<vars, g_module_length, pmods, buf>>,
         dev' \in {dev, "gone"}
  PROVE  LinuxInv'
  <1>t. SerialInv /\ LinuxTypeOK /\ lpc \in [Threads -> LinuxLabels]
    BY DEF LinuxInv, LinuxTypeOK
  <1>u. UNCHANGED <<globals, world, frames>>
    BY DEF vars
  <1>o. \A u \in Threads \ {t} : lpc[u] = "user" /\ pc[u] = "idle"
    BY OthersOut
  <1>1. \A u \in Threads : lpc'[u] = "user" /\ pc[u] = "idle" /\ pc'[u] = "idle"
    BY <1>t, <1>o DEF LGoto, vars, frames
  <1>2. SerialInv' /\ PointersLive' /\ UNCHANGED Pointers
    BY <1>t, <1>u, SerialKept, PointersKept DEF LinuxInv, PointersLive, SerialInv, TypeOK, world
  <1>3. LinuxTypeOK'
    BY <1>t, <1>2 DEF LinuxTypeOK, SerialInv, LGoto, LinuxLabels, pmods
  <1>4. OneRequest' /\ \A u \in Threads : ThreadInv(u)'
    BY <1>1, OutsideInv DEF OneRequest
  <1>5. CleanInv'
    <2>1. \A u \in Threads : ~Unfinished(u)
      BY <1>o DEF Unfinished, LoadLabels
    <2> QED BY <1>u, <1>1, <1>2, <2>1 DEF CleanInv, LinuxInv, globals
  <1>6. HeapInv'
    <2>1. Buffers = {} /\ Buffers' = {} /\ UNCHANGED FileCopies
      BY <1>o, <1>1 DEF Buffers, FileCopies, pmods
    <2> QED BY <1>u, <1>2, <2>1 DEF HeapInv, LinuxInv, world, pmods
  <1>7. FilesInv'
    BY <1>o, <1>u DEF LinuxInv, FilesInv, LoadedIdx, FileCopies, globals, pmods
  <1>8. FreshInv'
    <2>1. dev # "out"
      BY DEF LinuxInv, FreshInv, LinuxQuiet
    <2> QED BY <1>1, <2>1 DEF FreshInv
  <1> QED BY <1>2, <1>3, <1>4, <1>5, <1>6, <1>7, <1>8 DEF LinuxInv

\* dev_init: the device appears, common_init comes next.
LEMMA DevInitKeeps ==
  ASSUME LinuxInv, NEW t \in Threads, LinuxQuiet, DevInit(t)
  PROVE  LinuxInv'
  <1>t. SerialInv /\ LinuxTypeOK /\ FreshInv /\ lpc \in [Threads -> LinuxLabels]
    BY DEF LinuxInv, LinuxTypeOK
  <1>u. UNCHANGED <<globals, world, frames, g_module_length, pmods, buf>>
    BY DEF DevInit, vars
  <1>1. \A u \in Threads : lpc[u] = "user" /\ pc[u] = "idle" /\ pc'[u] = "idle"
    <2>1. \A u \in Threads : ThreadInv(u)
      BY DEF LinuxInv
    <2> QED BY <1>u, <2>1 DEF LinuxQuiet, ThreadInv, frames
  <1>2. /\ dev = "out" /\ dev' \in {"in", "failed"} /\ lpc'[t] \in {"user", "init"}
        /\ \A u \in Threads \ {t} : lpc'[u] = "user"
    BY <1>t, <1>1 DEF DevInit, LGoto
  <1>3. SerialInv' /\ PointersLive' /\ UNCHANGED Pointers
    BY <1>t, <1>u, SerialKept, PointersKept DEF LinuxInv, PointersLive, SerialInv, TypeOK, world
  <1>4. LinuxTypeOK'
    BY <1>t, <1>u, <1>2, <1>3 DEF DevInit, LinuxTypeOK, SerialInv, LGoto, LinuxLabels, pmods
  <1>5. OneRequest' /\ \A u \in Threads : ThreadInv(u)'
    BY <1>1, <1>2 DEF OneRequest, ThreadInv, LoadLabels
  <1>6. CleanInv'
    <2>1. \A u \in Threads : ~Unfinished(u)
      BY <1>1 DEF Unfinished, LoadLabels
    <2> QED BY <1>u, <1>1, <1>3, <2>1 DEF CleanInv, LinuxInv, globals
  <1>7. HeapInv'
    <2>1. Buffers = {} /\ Buffers' = {} /\ UNCHANGED FileCopies
      BY <1>u, <1>1, <1>2 DEF Buffers, FileCopies, pmods
    <2> QED BY <1>u, <1>3, <2>1 DEF HeapInv, LinuxInv, world, pmods
  <1>8. FilesInv'
    BY <1>u, <1>1 DEF LinuxInv, FilesInv, LoadedIdx, FileCopies, globals, pmods
  <1>9. FreshInv'
    BY <1>t, <1>u, <1>2 DEF FreshInv, globals, world
  <1> QED BY <1>3, <1>4, <1>5, <1>6, <1>7, <1>8, <1>9 DEF LinuxInv

\* common_init resets a driver that nothing has touched yet.
LEMMA CommonInitKeeps ==
  ASSUME LinuxInv, NEW t \in Threads, CommonInit(t)
  PROVE  LinuxInv'
  <1>t. SerialInv /\ LinuxTypeOK /\ FreshInv /\ TypeOK /\ lpc \in [Threads -> LinuxLabels]
    BY DEF LinuxInv, LinuxTypeOK, SerialInv
  <1>u. common_reset /\ lpc[t] = "init" /\ UNCHANGED <<frames, dev, g_module_length, pmods, buf>>
    BY DEF CommonInit
  <1>o. \A u \in Threads \ {t} : lpc[u] = "user" /\ pc[u] = "idle"
    BY <1>u, OthersOut
  <1>1. \A u \in Threads : lpc'[u] = "user" /\ pc[u] = "idle" /\ pc'[u] = "idle"
    <2>1. pc[t] = "idle"
      BY <1>u DEF LinuxInv, ThreadInv
    <2> QED BY <1>t, <1>u, <1>o, <2>1 DEF CommonInit, LGoto, frames
  <1>2. SerialInv'
    <2>1. TypeOK'
      BY <1>t, <1>u, ResetType DEF TypeOK, frames, pinning
    <2>2. OneAtATime' /\ \A u \in Threads : FlowOf(u)'
      BY <1>1 DEF OneAtATime, FlowOf
    <2>3. CpuInv'
      <3>1. g_num_cpus_started' = 0 /\ g_vmm_status' = "UNLOADED" /\ UNCHANGED vcpu
        BY <1>u DEF common_reset
      <3>2. \A c \in Cpu : vcpu[c] = "off" /\ ~(c < 0 - 1) /\ c # 0 - 1
        BY <1>t, <1>u DEF FreshInv, Cpu
      <3> QED BY <3>1, <3>2 DEF CpuInv
    <2> QED BY <2>1, <2>2, <2>3 DEF SerialInv
  <1>3. PointersLive'
    BY <1>t, <1>u, ResetPointersLive
  <1>4. LinuxTypeOK'
    BY <1>t, <1>u, <1>2 DEF CommonInit, LinuxTypeOK, SerialInv, LGoto, LinuxLabels, pmods
  <1>5. OneRequest' /\ \A u \in Threads : ThreadInv(u)'
    BY <1>1, OutsideInv DEF OneRequest
  <1>6. HeapInv' /\ Pointers' = {NULL}
    <2>1. Buffers = {} /\ Buffers' = {}
      BY <1>u, <1>o, <1>1 DEF Buffers
    <2> QED BY <1>u, <2>1, HeapReset
  <1>7. CleanInv'
    BY <1>1, <1>6 DEF CleanInv
  <1>8. FilesInv'
    BY <1>u, ConstantsAssumption DEF common_reset, FilesInv, LoadedIdx, ModIdx
  <1>9. FreshInv'
    <2>1. dev # "out"
      BY <1>t, <1>u DEF FreshInv, LinuxQuiet
    <2> QED BY <1>u, <1>1, <2>1 DEF FreshInv
  <1> QED BY <1>2, <1>3, <1>4, <1>5, <1>6, <1>7, <1>8, <1>9 DEF LinuxInv

\* ioctl_add_module_length stores a number.
LEMMA AddModuleLengthKeeps ==
  ASSUME LinuxInv, NEW t \in Threads, AddModuleLength(t)
  PROVE  LinuxInv'
  <1>t. SerialInv /\ LinuxTypeOK
    BY DEF LinuxInv
  <1>u. UNCHANGED <<globals, world, frames, dev, pmods, lpc, buf>> /\ g_module_length' \in Lengths
    BY DEF AddModuleLength, vars
  <1>1. SerialInv' /\ PointersLive' /\ UNCHANGED Pointers
    BY <1>t, <1>u, SerialKept, PointersKept DEF LinuxInv, PointersLive, SerialInv, TypeOK, world
  <1>2. LinuxTypeOK'
    BY <1>t, <1>u, <1>1 DEF LinuxTypeOK, SerialInv, pmods
  <1>3. OneRequest' /\ \A u \in Threads : ThreadInv(u)'
    BY <1>u DEF LinuxInv, OneRequest, ThreadInv, globals, world, frames, pmods
  <1>4. CleanInv'
    BY <1>u, <1>1 DEF LinuxInv, CleanInv, Unfinished, globals, frames
  <1>5. HeapInv'
    <2>1. UNCHANGED <<Buffers, FileCopies>>
      BY <1>u DEF Buffers, FileCopies, pmods
    <2> QED BY <1>u, <1>1, <2>1 DEF HeapInv, LinuxInv, world, pmods
  <1>6. FilesInv'
    BY <1>u DEF LinuxInv, FilesInv, LoadedIdx, FileCopies, globals, frames, pmods
  <1>7. FreshInv'
    BY <1>u DEF LinuxInv, FreshInv, LinuxQuiet, globals, world
  <1> QED BY <1>1, <1>2, <1>3, <1>4, <1>5, <1>6, <1>7 DEF LinuxInv

\* ioctl_add_module allocates its buffer.
LEMMA AddModuleKeeps ==
  ASSUME LinuxInv, NEW t \in Threads, LinuxQuiet, AddModule(t)
  PROVE  LinuxInv'
  <1>t. SerialInv /\ LinuxTypeOK /\ TypeOK /\ HeapInv /\ PointersLive
        /\ lpc \in [Threads -> LinuxLabels] /\ buf \in [Threads -> Blocks \cup {NULL}]
    BY DEF LinuxInv, LinuxTypeOK, SerialInv
  <1>u. UNCHANGED <<globals, vmm_inited, mapped, vcpu, frames, dev, g_module_length, pmods>>
    BY DEF AddModule
  <1>0. dev = "in" /\ g_num_pmodules < MAX_NUM_MODULES
    BY <1>t, ConstantsAssumption DEF AddModule, Ioctl, PmodulesFull, LinuxTypeOK
  <1>p. PICK p \in Blocks : p \notin heap /\ heap' = heap \cup {p} /\ buf' = [buf EXCEPT ![t] = p]
    BY ConstantsAssumption DEF AddModule, platform_alloc_rw
  <1>1. \A u \in Threads : lpc[u] = "user" /\ pc[u] = "idle" /\ pc'[u] = "idle"
    <2>1. \A u \in Threads : ThreadInv(u)
      BY DEF LinuxInv
    <2> QED BY <1>u, <2>1 DEF LinuxQuiet, ThreadInv, frames
  <1>2. /\ lpc'[t] = "add_copy" /\ buf'[t] = p
        /\ \A u \in Threads \ {t} : lpc'[u] = "user"
    BY <1>t, <1>p, <1>1 DEF AddModule, LGoto
  <1>3. SerialInv' /\ PointersLive' /\ UNCHANGED Pointers
    <2>1. heap' \in SUBSET Blocks /\ Pointers \ {NULL} \subseteq heap'
      BY <1>t, <1>p DEF TypeOK, PointersLive
    <2> QED BY <1>t, <1>u, <2>1, SerialKept, PointersKept
  <1>4. LinuxTypeOK'
    BY <1>t, <1>u, <1>p, <1>3 DEF AddModule, LinuxTypeOK, SerialInv, LGoto, LinuxLabels, pmods
  <1>5. OneRequest' /\ \A u \in Threads : ThreadInv(u)'
    BY <1>u, <1>0, <1>1, <1>2, ConstantsAssumption DEF OneRequest, ThreadInv, LoadLabels, pmods
  <1>6. CleanInv'
    <2>1. \A u \in Threads : ~Unfinished(u)
      BY <1>1 DEF Unfinished, LoadLabels
    <2> QED BY <1>u, <1>1, <1>3, <2>1 DEF CleanInv, LinuxInv, globals
  <1>7. HeapInv'
    <2>1. Buffers = {} /\ Buffers' = {p} /\ UNCHANGED FileCopies
      BY <1>u, <1>1, <1>2 DEF Buffers, FileCopies, pmods
    <2>2. p \notin Pointers \cup FileCopies
      BY <1>t, <1>p, ConstantsAssumption DEF HeapInv
    <2> QED BY <1>t, <1>u, <1>p, <1>3, <2>1, <2>2 DEF HeapInv, pmods
  <1>8. FilesInv'
    BY <1>u, <1>1 DEF LinuxInv, FilesInv, LoadedIdx, FileCopies, globals, pmods
  <1>9. FreshInv'
    BY <1>0, <1>u, <1>1, <1>2 DEF FreshInv
  <1> QED BY <1>3, <1>4, <1>5, <1>6, <1>7, <1>8, <1>9 DEF LinuxInv

\* A module that could not be copied or registered: its buffer is given back.
LEMMA AddFailedKeeps ==
  ASSUME LinuxInv, NEW t \in Threads, lpc[t] \in {"add_copy", "add"}, pc[t] = "idle",
         lpc[t] = "add" => ret[t] # "SUCCESS", AddModuleFailed(t)
  PROVE  LinuxInv'
  <1>t. SerialInv /\ LinuxTypeOK /\ TypeOK /\ HeapInv /\ PointersLive
        /\ lpc \in [Threads -> LinuxLabels]
    BY DEF LinuxInv, LinuxTypeOK, SerialInv
  <1>u. /\ UNCHANGED <<globals, vmm_inited, mapped, vcpu, frames, dev, g_module_length, pmods, buf>>
        /\ heap' = heap \ {buf[t]} /\ LGoto(t, "user")
    BY DEF AddModuleFailed, platform_free_rw
  <1>o. \A u \in Threads \ {t} : lpc[u] = "user" /\ pc[u] = "idle"
    BY OthersOut
  <1>1. \A u \in Threads : lpc'[u] = "user" /\ pc[u] = "idle" /\ pc'[u] = "idle"
    BY <1>t, <1>o, <1>u DEF LGoto, frames
  <1>b. Buffers = {buf[t]} /\ Buffers' = {}
    BY <1>o, <1>1 DEF Buffers
  <1>3. SerialInv' /\ PointersLive' /\ UNCHANGED Pointers
    <2>1. heap' \in SUBSET Blocks /\ Pointers \ {NULL} \subseteq heap'
      BY <1>t, <1>u, <1>b DEF TypeOK, PointersLive, HeapInv
    <2> QED BY <1>t, <1>u, <2>1, SerialKept, PointersKept
  <1>4. LinuxTypeOK'
    BY <1>t, <1>u, <1>3 DEF LinuxTypeOK, SerialInv, LGoto, LinuxLabels, pmods
  <1>5. OneRequest' /\ \A u \in Threads : ThreadInv(u)'
    BY <1>1, OutsideInv DEF OneRequest
  <1>6. CleanInv'
    <2>1. \A u \in Threads : ~Unfinished(u)
      BY <1>o DEF Unfinished, LoadLabels
    <2> QED BY <1>u, <1>1, <1>3, <2>1 DEF CleanInv, LinuxInv, globals
  <1>7. HeapInv'
    <2>1. UNCHANGED FileCopies
      BY <1>u DEF FileCopies, pmods
    <2> QED BY <1>t, <1>u, <1>b, <1>3, <2>1 DEF HeapInv, pmods
  <1>8. FilesInv'
    <2>1. \A u \in Threads : ~(lpc[u] = "add" /\ pc[u] = "idle" /\ ret[u] = "SUCCESS")
      BY <1>o
    <2> QED BY <1>u, <2>1 DEF LinuxInv, FilesInv, LoadedIdx, FileCopies, globals, pmods
  <1>9. FreshInv'
    <2>1. dev # "out"
      BY DEF LinuxInv, FreshInv, LinuxQuiet
    <2> QED BY <1>u, <1>1, <2>1 DEF FreshInv
  <1> QED BY <1>3, <1>4, <1>5, <1>6, <1>7, <1>8, <1>9 DEF LinuxInv

\* A registered module: its buffer becomes the kept copy of the file.
LEMMA AddStoreKeeps ==
  ASSUME LinuxInv, NEW t \in Threads, lpc[t] = "add", pc[t] = "idle", AddModuleStore(t)
  PROVE  LinuxInv'
  <1>t. SerialInv /\ LinuxTypeOK /\ TypeOK /\ HeapInv /\ PointersLive
        /\ lpc \in [Threads -> LinuxLabels] /\ buf \in [Threads -> Blocks \cup {NULL}]
        /\ pmodules \in [ModIdx -> Blocks \cup {NULL}] /\ g_num_pmodules \in 0 .. MAX_NUM_MODULES
    BY DEF LinuxInv, LinuxTypeOK, SerialInv
  <1>u. /\ UNCHANGED <<globals, world, frames, dev, g_module_length, buf>> /\ LGoto(t, "user")
        /\ pmodules' = [pmodules EXCEPT ![g_num_pmodules] = buf[t]]
        /\ g_num_pmodules' = g_num_pmodules + 1
    BY DEF AddModuleStore, vars
  <1>0. g_num_pmodules < MAX_NUM_MODULES /\ buf[t] # NULL /\ g_num_pmodules \in ModIdx
    <2>1. g_num_pmodules < MAX_NUM_MODULES /\ buf[t] # NULL
      BY DEF LinuxInv, ThreadInv
    <2> QED BY <1>t, <2>1, ConstantsAssumption DEF ModIdx
  <1>o. \A u \in Threads \ {t} : lpc[u] = "user" /\ pc[u] = "idle"
    BY OthersOut
  <1>1. \A u \in Threads : lpc'[u] = "user" /\ pc[u] = "idle" /\ pc'[u] = "idle"
    BY <1>t, <1>o, <1>u DEF LGoto, frames
  <1>b. Buffers = {buf[t]} /\ Buffers' = {}
    BY <1>o, <1>1 DEF Buffers
  <1>f. FileCopies' = FileCopies \cup {buf[t]}
    <2>1. pmodules[g_num_pmodules] = NULL
      BY <1>t, <1>0 DEF HeapInv
    <2>2. /\ pmodules'[g_num_pmodules] = buf[t]
          /\ \A i \in ModIdx \ {g_num_pmodules} : pmodules'[i] = pmodules[i]
      BY <1>t, <1>u, <1>0
    <2> QED BY <1>0, <2>1, <2>2 DEF FileCopies
  <1>3. SerialInv' /\ PointersLive' /\ UNCHANGED Pointers
    BY <1>t, <1>u, SerialKept, PointersKept DEF PointersLive, TypeOK, world
  <1>4. LinuxTypeOK'
    <2>1. g_num_pmodules' \in 0 .. MAX_NUM_MODULES
      BY <1>t, <1>u, <1>0, ConstantsAssumption
    <2>2. pmodules' \in [ModIdx -> Blocks \cup {NULL}]
      BY <1>t, <1>u
    <2> QED BY <1>t, <1>u, <1>3, <2>1, <2>2 DEF LinuxTypeOK, SerialInv, LGoto, LinuxLabels
  <1>5. OneRequest' /\ \A u \in Threads : ThreadInv(u)'
    BY <1>1, OutsideInv DEF OneRequest
  <1>6. CleanInv'
    <2>1. \A u \in Threads : ~Unfinished(u)
      BY <1>o DEF Unfinished, LoadLabels
    <2> QED BY <1>u, <1>1, <1>3, <2>1 DEF CleanInv, LinuxInv, globals
  <1>7. HeapInv'
    <2>1. heap' = (Pointers' \ {NULL}) \cup FileCopies' \cup Buffers'
      BY <1>t, <1>u, <1>b, <1>f, <1>3 DEF HeapInv, world
    <2>2. Pointers' \cap FileCopies' = {} /\ Buffers' \cap (Pointers' \cup FileCopies') = {}
      BY <1>t, <1>b, <1>f, <1>3 DEF HeapInv
    <2>3. \A i \in ModIdx : pmodules'[i] # NULL <=> i < g_num_pmodules'
      <3> SUFFICES ASSUME NEW i \in ModIdx PROVE pmodules'[i] # NULL <=> i < g_num_pmodules'
        OBVIOUS
      <3>1. CASE i = g_num_pmodules
        BY <1>t, <1>u, <1>0, <3>1
      <3>2. CASE i # g_num_pmodules
        <4>1. i < g_num_pmodules' <=> i < g_num_pmodules
          BY <1>t, <1>u, <3>2, ConstantsAssumption DEF ModIdx
        <4> QED BY <1>t, <1>u, <3>2, <4>1 DEF HeapInv
      <3> QED BY <3>1, <3>2
    <2>4. \A i, j \in ModIdx : pmodules'[i] = pmodules'[j] /\ pmodules'[i] # NULL => i = j
      <3>1. \A i \in ModIdx : pmodules[i] # buf[t]
        BY <1>t, <1>b, <1>0 DEF HeapInv, FileCopies
      <3>2. /\ pmodules'[g_num_pmodules] = buf[t]
            /\ \A i \in ModIdx \ {g_num_pmodules} : pmodules'[i] = pmodules[i]
        BY <1>t, <1>u, <1>0
      <3> QED BY <1>t, <1>0, <3>1, <3>2 DEF HeapInv
    <2> QED BY <2>1, <2>2, <2>3, <2>4 DEF HeapInv
  <1>8. FilesInv'
    <2>1. \A u \in Threads : lpc[u] = "add" => u = t
      BY <1>o
    <2> QED BY <1>u, <1>f, <2>1 DEF LinuxInv, FilesInv, LoadedIdx, globals
  <1>9. FreshInv'
    <2>1. dev # "out"
      BY DEF LinuxInv, FreshInv, LinuxQuiet
    <2> QED BY <1>u, <1>1, <2>1 DEF FreshInv
  <1> QED BY <1>3, <1>4, <1>5, <1>6, <1>7, <1>8, <1>9 DEF LinuxInv

\* ioctl_unload_vmm frees the copies of the files; no module needs them.
LEMMA UnloadDoneKeeps ==
  ASSUME LinuxInv, NEW t \in Threads, UnloadVmmDone(t)
  PROVE  LinuxInv'
  <1>t. SerialInv /\ LinuxTypeOK /\ TypeOK /\ HeapInv /\ PointersLive /\ ThreadInv(t)
        /\ lpc \in [Threads -> LinuxLabels] /\ g_num_pmodules \in 0 .. MAX_NUM_MODULES
    BY DEF LinuxInv, LinuxTypeOK, SerialInv
  <1>u. /\ UNCHANGED <<globals, vmm_inited, mapped, vcpu, frames, dev, g_module_length, buf>>
        /\ lpc[t] = "unload" /\ pc[t] = "idle" /\ LGoto(t, "user")
        /\ heap' = heap \ {pmodules[i] : i \in 0 .. g_num_pmodules - 1}
        /\ g_num_pmodules' = 0 /\ pmodules' = [i \in ModIdx |-> NULL]
    BY DEF UnloadVmmDone, Returned, FreePmodules, platform_free_rw
  <1>o. \A u \in Threads \ {t} : lpc[u] = "user" /\ pc[u] = "idle"
    BY <1>u, OthersOut
  <1>1. \A u \in Threads : lpc'[u] = "user" /\ pc[u] = "idle" /\ pc'[u] = "idle"
    BY <1>t, <1>o, <1>u DEF LGoto, frames
  <1>b. Buffers = {} /\ Buffers' = {} /\ FileCopies' = {}
    BY <1>u, <1>o, <1>1 DEF Buffers, FileCopies
  <1>f. heap' = heap \ FileCopies
    <2>1. \A i \in ModIdx : i \in 0 .. g_num_pmodules - 1 <=> i < g_num_pmodules
      BY <1>t, ConstantsAssumption DEF ModIdx
    <2>2. 0 .. g_num_pmodules - 1 \subseteq ModIdx
      BY <1>t, ConstantsAssumption DEF ModIdx
    <2>3. {pmodules[i] : i \in 0 .. g_num_pmodules - 1} = FileCopies
      BY <1>t, <2>1, <2>2 DEF HeapInv, FileCopies
    <2> QED BY <1>u, <2>3
  <1>3. SerialInv' /\ PointersLive' /\ UNCHANGED Pointers
    <2>1. heap' \in SUBSET Blocks /\ Pointers \ {NULL} \subseteq heap'
      BY <1>t, <1>f DEF TypeOK, PointersLive, HeapInv
    <2> QED BY <1>t, <1>u, <2>1, SerialKept, PointersKept
  <1>4. LinuxTypeOK'
    <2>1. g_num_pmodules' \in 0 .. MAX_NUM_MODULES
      BY <1>u, ConstantsAssumption
    <2> QED BY <1>t, <1>u, <1>3, <2>1 DEF LinuxTypeOK, SerialInv, LGoto, LinuxLabels
  <1>5. OneRequest' /\ \A u \in Threads : ThreadInv(u)'
    BY <1>1, OutsideInv DEF OneRequest
  <1>6. CleanInv'
    <2>1. \A u \in Threads : ~Unfinished(u)
      BY <1>u, <1>o DEF Unfinished, LoadLabels
    <2> QED BY <1>u, <1>1, <1>3, <2>1 DEF CleanInv, LinuxInv, globals
  <1>7. HeapInv'
    <2>1. heap' = Pointers \ {NULL}
      BY <1>t, <1>b, <1>f DEF HeapInv
    <2>2. \A i \in ModIdx : pmodules'[i] = NULL /\ ~(i < 0)
      BY <1>u, ConstantsAssumption DEF ModIdx
    <2> QED BY <1>u, <1>b, <1>3, <2>1, <2>2 DEF HeapInv
  <1>8. FilesInv'
    <2>1. g_vmm_status = "UNLOADED" => g_num_modules = 0
      BY <1>t, <1>u DEF ThreadInv
    <2> QED BY <1>u, <2>1, ConstantsAssumption DEF FilesInv, LoadedIdx, ModIdx, globals
  <1>9. FreshInv'
    <2>1. dev # "out"
      BY <1>u DEF LinuxInv, FreshInv, LinuxQuiet
    <2> QED BY <1>u, <1>1, <2>1 DEF FreshInv
  <1> QED BY <1>3, <1>4, <1>5, <1>6, <1>7, <1>8, <1>9 DEF LinuxInv

-----------------------------------------------------------------------------
(* The invariant of the driver. *)

\* The device before dev_init.
LEMMA LinuxInitInv == LinuxInit => LinuxInv
  <1> SUFFICES ASSUME LinuxInit PROVE LinuxInv
    OBVIOUS
  <1> USE DEF LinuxInit
  <1>1. SerialInv /\ PointersLive
    BY InitInv, MemoryInit DEF MemoryInv
  <1>2. LinuxTypeOK
    BY <1>1, ConstantsAssumption DEF LinuxTypeOK, SerialInv, LinuxLabels
  <1> USE DEF Init, InitDriver
  <1>3. OneRequest /\ \A t \in Threads : ThreadInv(t)
    BY DEF OneRequest, ThreadInv, LoadLabels
  <1>4. Pointers = {NULL} /\ Buffers = {} /\ FileCopies = {}
    BY ConstantsAssumption DEF Pointers, Buffers, FileCopies, ModIdx
  <1>5. CleanInv
    BY <1>4 DEF CleanInv
  <1>6. HeapInv
    BY <1>4, ConstantsAssumption DEF HeapInv, ModIdx
  <1>7. FilesInv
    BY ConstantsAssumption DEF FilesInv, LoadedIdx, ModIdx
  <1>8. FreshInv
    BY DEF FreshInv, LinuxQuiet
  <1> QED BY <1>1, <1>2, <1>3, <1>5, <1>6, <1>7, <1>8 DEF LinuxInv

\* A new request, made while no other is being served.
LEMMA RequestStep ==
  ASSUME LinuxInv, NEW t \in Threads, LinuxQuiet, Request(t)
  PROVE  LinuxInv'
  <1>q. lpc[t] = "user"
    BY DEF LinuxQuiet
  <1>1. CASE DevReboot(t)
    BY <1>1, <1>q, CallKeeps DEF DevReboot, Ops, LinuxLabels
  <1>2. CASE DevExit(t)
    BY <1>2, <1>q, CallKeeps DEF DevExit, Ops, LinuxLabels
  <1>3. CASE LoadVmm(t)
    BY <1>3, <1>q, CallKeeps DEF LoadVmm, Ioctl, Ops, LinuxLabels
  <1>4. CASE UnloadVmm(t)
    BY <1>4, <1>q, CallKeeps DEF UnloadVmm, Ioctl, Ops, LinuxLabels
  <1>5. CASE StartVmm(t)
    BY <1>5, <1>q, CallKeeps DEF StartVmm, Ioctl, Ops, LinuxLabels
  <1>6. CASE StopVmm(t)
    BY <1>6, <1>q, CallKeeps DEF StopVmm, Ioctl, Ops, LinuxLabels
  <1>7. CASE DumpVmm(t)
    <2>1. PICK f \in Files : CallCommon(t, "dump", f, "dump")
      BY <1>7 DEF DumpVmm
    <2> QED BY <1>7, <1>q, <2>1, CallKeeps DEF DumpVmm, Ioctl, Ops, LinuxLabels
  <1> QED BY <1>1, <1>2, <1>3, <1>4, <1>5, <1>6, <1>7, DevInitKeeps,
             AddModuleLengthKeeps, AddModuleKeeps DEF Request

\* The request under way goes on.
LEMMA ContinueStep ==
  ASSUME LinuxInv, NEW t \in Threads, Continue(t)
  PROVE  LinuxInv'
  <1>d. lpc[t] # "user" => dev # "out"
    BY DEF LinuxInv, FreshInv, LinuxQuiet
  <1>1. CASE AddModuleCopy(t)
    <2>1. ThreadInv(t) /\ lpc[t] = "add_copy" /\ buf[t] \in Files \cup {NULL}
      BY <1>1, LinuxAssumption DEF LinuxInv, LinuxTypeOK, AddModuleCopy
    <2>2. CASE AddModuleFailed(t)
      BY <2>1, <2>2, AddFailedKeeps DEF ThreadInv
    <2>3. CASE CallCommon(t, "add", buf[t], "add") /\ UNCHANGED <<dev, g_module_length, pmods, buf>>
      BY <1>d, <2>1, <2>3, CallKeeps DEF Ops, LinuxLabels
    <2> QED BY <1>1, <2>2, <2>3 DEF AddModuleCopy
  <1>2. CASE AddModuleDone(t)
    BY <1>2, AddStoreKeeps, AddFailedKeeps DEF AddModuleDone, Returned
  <1>3. CASE LoadVmmDone(t)
    <2>1. CASE ret[t] = "SUCCESS"
      BY <1>3, <2>1, ReturnKeeps DEF LoadVmmDone, Returned
    <2>2. CASE ret[t] # "SUCCESS"
      BY <1>3, <1>d, <2>2, CallKeeps DEF LoadVmmDone, Returned, Ops, LinuxLabels
    <2> QED BY <2>1, <2>2
  <1>4. CASE StartVmmDone(t)
    <2>1. CASE ret[t] = "SUCCESS"
      BY <1>4, <2>1, ReturnKeeps DEF StartVmmDone, Returned
    <2>2. CASE ret[t] # "SUCCESS"
      BY <1>4, <1>d, <2>2, CallKeeps DEF StartVmmDone, Returned, Ops, LinuxLabels
    <2> QED BY <2>1, <2>2
  <1>5. CASE Reported(t)
    BY <1>5, ReturnKeeps DEF Reported, Returned
  <1>6. CASE DevExited(t)
    BY <1>6, ReturnKeeps DEF DevExited, Returned
  <1> QED BY <1>1, <1>2, <1>3, <1>4, <1>5, <1>6, InsideStep, CommonInitKeeps,
             UnloadDoneKeeps DEF Continue

\* Every step of a serial use of the device keeps the invariant.
LEMMA LinuxNextInv == LinuxInv /\ [LinuxSerialNext]_<<vars, lvars>> => LinuxInv'
  <1> SUFFICES ASSUME LinuxInv, [LinuxSerialNext]_<<vars, lvars>> PROVE LinuxInv'
    OBVIOUS
  <1>1. CASE UNCHANGED <<vars, lvars>>
    <2>1. UNCHANGED <<globals, world, frames, dev, g_module_length, pmods, lpc, buf>>
      BY <1>1 DEF vars, lvars
    <2>2. SerialInv' /\ PointersLive' /\ UNCHANGED Pointers
      BY <2>1, SerialKept, PointersKept DEF LinuxInv, PointersLive, SerialInv, TypeOK, world
    <2>3. LinuxTypeOK'
      BY <2>1, <2>2 DEF LinuxInv, LinuxTypeOK, SerialInv, pmods
    <2>4. OneRequest' /\ \A u \in Threads : ThreadInv(u)'
      BY <2>1 DEF LinuxInv, OneRequest, ThreadInv, globals, world, frames, pmods
    <2>5. CleanInv'
      BY <2>1, <2>2 DEF LinuxInv, CleanInv, Unfinished, globals, frames
    <2>6. HeapInv'
      <3>1. UNCHANGED <<Buffers, FileCopies>>
        BY <2>1 DEF Buffers, FileCopies, pmods
      <3> QED BY <2>1, <2>2, <3>1 DEF HeapInv, LinuxInv, world, pmods
    <2>7. FilesInv' /\ FreshInv'
      BY <2>1 DEF LinuxInv, FilesInv, FreshInv, LinuxQuiet, LoadedIdx, FileCopies,
                  globals, world, frames, pmods
    <2> QED BY <2>2, <2>3, <2>4, <2>5, <2>6, <2>7 DEF LinuxInv
  <1>2. CASE LinuxSerialNext
    BY <1>2, RequestStep, ContinueStep DEF LinuxSerialNext
  <1> QED BY <1>1, <1>2

\* Between and inside the ioctls, every block has its place and every request
\* is where the code expects it.
THEOREM LinuxInvariant == LinuxSerialSpec => []LinuxInv
  BY LinuxInitInv, LinuxNextInv, PTL DEF LinuxSerialSpec

\* The device's variables have their types; ioctl_add_module never stores past
\* the end of pmodules.
THEOREM LinuxTypeCorrect == LinuxSerialSpec => []LinuxTypeOK
  <1>1. LinuxInv => LinuxTypeOK
    BY DEF LinuxInv
  <1> QED BY <1>1, LinuxInvariant, PTL

\* Between two ioctls nothing has leaked and nothing will be freed twice,
\* whatever failed inside the ioctls before.
THEOREM HeapAlwaysAccounted == LinuxSerialSpec => []HeapAccounted
  <1>1. LinuxInv => HeapAccounted
    <2> SUFFICES ASSUME LinuxInv, LinuxQuiet
                 PROVE  /\ heap = (Pointers \ {NULL}) \cup FileCopies
                        /\ Pointers \cap FileCopies = {}
                        /\ \A i \in ModIdx : pmodules[i] # NULL <=> i < g_num_pmodules
                        /\ \A i, j \in 0 .. g_num_pmodules - 1 : pmodules[i] = pmodules[j] => i = j
      BY DEF HeapAccounted
    <2>1. Buffers = {}
      BY DEF Buffers, LinuxQuiet
    <2>2. g_num_pmodules \in 0 .. MAX_NUM_MODULES
      BY DEF LinuxInv, LinuxTypeOK
    <2>3. \A i \in 0 .. g_num_pmodules - 1 : i \in ModIdx /\ i < g_num_pmodules
      BY <2>2, ConstantsAssumption DEF ModIdx
    <2>4. \A i \in 0 .. g_num_pmodules - 1 : i \in ModIdx /\ pmodules[i] # NULL
      BY <2>3 DEF LinuxInv, HeapInv
    <2> QED BY <2>1, <2>4 DEF LinuxInv, HeapInv
  <1> QED BY <1>1, LinuxInvariant, PTL

\* bfelf_load never reads the copy of a file that has been freed.
THEOREM LoadAlwaysReadsLiveFiles == LinuxSerialSpec => []LoadReadsLiveFiles
  <1>1. LinuxInv => LoadReadsLiveFiles
    <2> SUFFICES ASSUME LinuxInv, NEW t \in Threads, pc[t] = "ld_elf", NEW i \in LoadedIdx
                 PROVE  mod_file[i] \in heap
      BY DEF LoadReadsLiveFiles
    <2>1. g_vmm_status = "UNLOADED"
      BY DEF LinuxInv, SerialInv, FlowOf
    <2>2. lpc[t] = "load"
      BY DEF LinuxInv, ThreadInv, LoadLabels
    <2>3. \A u \in Threads : lpc[u] # "add"
      BY <2>2, OthersOut
    <2>4. mod_file[i] \in FileCopies
      BY <2>1, <2>3 DEF LinuxInv, FilesInv
    <2> QED BY <2>4 DEF LinuxInv, HeapInv
  <1> QED BY <1>1, LinuxInvariant, PTL

\* The stop that a failed start is followed by reports to user space last.
LEMMA RollbackEnds ==
  ASSUME LinuxInv, LinuxSerialNext, NEW t \in Threads,
         lpc[t] = "rollback", lpc'[t] = "user"
  PROVE  pc[t] = "idle"
  <1>1. PICK u \in Threads : (LinuxQuiet /\ Request(u)) \/ Continue(u)
    BY DEF LinuxSerialNext
  <1>2. Continue(u)
    BY <1>1 DEF LinuxQuiet
  <1>3. u = t
    <2>1. lpc[u] # "user" /\ \A v \in Threads \ {u} : lpc[v] = "user"
      <3>1. CASE Step(u)
        BY <3>1, StepServes
      <3>2. CASE ~Step(u)
        <4>1. lpc[u] # "user"
          BY <1>2, <3>2 DEF Continue, CommonInit, DevExited, AddModuleCopy, AddModuleDone,
                            LoadVmmDone, UnloadVmmDone, StartVmmDone, Reported, Returned
        <4> QED BY <4>1, OthersOut
      <3> QED BY <3>1, <3>2
    <2> QED BY <2>1
  <1>4. ~(Step(t) /\ UNCHANGED lvars)
    BY DEF lvars
  <1> QED BY <1>2, <1>3, <1>4 DEF Continue, CommonInit, DevExited, AddModuleCopy, AddModuleDone,
                                  LoadVmmDone, UnloadVmmDone, StartVmmDone, Reported, Returned

\* A failed IOCTL_START_VMM leaves no CPU in the VMM, unless the VMM refused to
\* stop or was found corrupt.
THEOREM FailedStartsRolledBack == LinuxSerialSpec => FailedStartRolledBack
  <1>1. LinuxInv /\ [LinuxSerialNext]_<<vars, lvars>> =>
          [\A t \in Threads : lpc[t] = "rollback" /\ lpc'[t] = "user" =>
             \/ \A c \in Cpu : vcpu[c] # "on"
             \/ ret[t] = "STOP_FAILED" /\ op[t] = "stop"
             \/ g_vmm_status = "CORRUPT"]_<<vars, lvars>>
    <2> SUFFICES ASSUME LinuxInv, LinuxSerialNext, NEW t \in Threads,
                        lpc[t] = "rollback", lpc'[t] = "user"
                 PROVE  \/ \A c \in Cpu : vcpu[c] # "on"
                        \/ ret[t] = "STOP_FAILED" /\ op[t] = "stop"
                        \/ g_vmm_status = "CORRUPT"
      OBVIOUS
    <2> QED BY RollbackEnds DEF LinuxInv, ThreadInv
  <1> QED BY <1>1, LinuxInvariant, PTL DEF LinuxSerialSpec, FailedStartRolledBack

\* Through the device, too, the VMM lives the life that VmmLifecycle describes.
THEOREM LinuxLifecycle == LinuxSerialSpec => ImplementsLifecycle
  <1>1. LinuxInit => Lifecycle!Init
    BY DEF LinuxInit, Init, InitDriver, Lifecycle!Init
  <1>2. LinuxInv /\ [LinuxSerialNext]_<<vars, lvars>> => [Lifecycle!Next]_(Lifecycle!lvars)
    <2> SUFFICES ASSUME LinuxInv, [LinuxSerialNext]_<<vars, lvars>>
                 PROVE  Lifecycle!Next \/ UNCHANGED <<g_vmm_status, Up>>
      BY DEF Lifecycle!lvars, Up
    <2>1. CASE UNCHANGED <<vars, lvars>>
      BY <2>1 DEF vars, globals, world, Up
    <2>2. ASSUME NEW t \in Threads, Step(t)
          PROVE  Lifecycle!Next \/ UNCHANGED <<g_vmm_status, Up>>
      BY <2>2, LifecycleStep DEF LinuxInv
    <2>3. ASSUME NEW t \in Threads, CommonInit(t)
          PROVE  UNCHANGED <<g_vmm_status, Up>>
      BY <2>3 DEF CommonInit, common_reset, LinuxInv, FreshInv, Up
    <2>4. ASSUME NEW t \in Threads, Request(t)
          PROVE  UNCHANGED <<g_vmm_status, Up>>
      BY <2>4 DEF Request, DevInit, DevReboot, DevExit, AddModuleLength, AddModule, LoadVmm,
                  UnloadVmm, StartVmm, StopVmm, DumpVmm, CallCommon, Call, Enter,
                  vars, globals, world, Up
    <2>5. ASSUME NEW t \in Threads, Continue(t), ~Step(t), ~CommonInit(t)
          PROVE  UNCHANGED <<g_vmm_status, Up>>
      BY <2>5 DEF Continue, DevExited, AddModuleCopy, AddModuleDone, AddModuleFailed,
                  AddModuleStore, LoadVmmDone, UnloadVmmDone, StartVmmDone, Reported,
                  CallCommon, Call, Enter, vars, globals, world, Up
    <2> QED BY <2>1, <2>2, <2>3, <2>4, <2>5 DEF LinuxSerialNext
  <1> QED BY <1>1, <1>2, LinuxInvariant, PTL
          DEF LinuxSerialSpec, ImplementsLifecycle, Lifecycle!Spec

-----------------------------------------------------------------------------
(* Ioctls end. *)

\* A step inside common.c uses up a step of the ioctl.
LEMMA InsideShorter ==
  ASSUME LinuxInv, NEW t \in Threads, Step(t), UNCHANGED lvars
  PROVE  0 <= IoctlStepsLeft(t)' /\ IoctlStepsLeft(t)' < IoctlStepsLeft(t)
  <1>1. /\ StepsLeft(t) \in Nat /\ StepsLeft(t)' \in Nat /\ StepsLeft(t)' < StepsLeft(t)
        /\ NumCpus \in Nat
    <2>1. SerialInv /\ SerialInv'
      BY StepSerial DEF LinuxInv
    <2> QED BY <2>1, StepsNat, StepsNatNext, ShorterStep, ConstantsAssumption
  <1>2. lpc[t] \notin {"user", "init", "add_copy"} /\ lpc' = lpc
    BY StepServes DEF lvars
  <1> QED BY <1>1, <1>2 DEF IoctlStepsLeft, Rank

\* What entry.c does when common.c has returned, a clean-up it calls included,
\* fits into what was left.
LEMMA HandlerShorter ==
  ASSUME LinuxInv, NEW t \in Threads, Continue(t), ~Step(t)
  PROVE  /\ lpc[t] # "user"
         /\ 0 <= IoctlStepsLeft(t)' /\ IoctlStepsLeft(t)' < IoctlStepsLeft(t)
  <1>c. /\ NumCpus \in Nat /\ g_num_cpus_started \in 0 .. NumCpus
        /\ lpc \in [Threads -> LinuxLabels] /\ pc \in [Threads -> Labels]
    BY ConstantsAssumption DEF LinuxInv, LinuxTypeOK, TypeOK
  <1>z. pc[t] = "idle" => StepsLeft(t) = 0
    BY DEF StepsLeft, RoundsLeft, Rank
  <1> USE <1>c DEF LGoto
  <1>1. CASE lpc'[t] = "user" /\ lpc[t] \in {"init", "add_copy"}
    BY <1>1 DEF IoctlStepsLeft, Rank
  <1>2. CASE lpc'[t] = "user" /\ \E l \in LinuxLabels \ {"user"} : Returned(t, l)
    BY <1>2, <1>z DEF IoctlStepsLeft, Rank, Returned
  <1>3. CASE lpc[t] = "add_copy" /\ CallCommon(t, "add", buf[t], "add")
    BY <1>3 DEF CallCommon, Call, Enter, Goto, IoctlStepsLeft, StepsLeft, RoundsLeft, Rank
  <1>4. CASE Returned(t, "load") /\ CallCommon(t, "unload", NULL, "unload")
    BY <1>4, <1>z DEF Returned, CallCommon, Call, Enter, Goto,
                      IoctlStepsLeft, StepsLeft, RoundsLeft, Rank
  <1>5. CASE Returned(t, "start") /\ CallCommon(t, "stop", NULL, "rollback")
    <2>1. g_num_cpus_started' = g_num_cpus_started
      BY <1>5 DEF CallCommon, Call, Enter, globals
    <2> QED BY <1>5, <2>1, <1>z DEF Returned, CallCommon, Call, Enter, Goto,
                      IoctlStepsLeft, StepsLeft, RoundsLeft, Rank
  <1> QED
    BY <1>1, <1>2, <1>3, <1>4, <1>5
       DEF Continue, CommonInit, DevExited, AddModuleCopy, AddModuleDone, AddModuleStore,
           AddModuleFailed, LoadVmmDone, UnloadVmmDone, StartVmmDone, Reported, Returned,
           LinuxLabels

\* Every ioctl ends after a number of steps known at its start, whatever fails
\* and whichever clean-up it then goes through.
THEOREM IoctlsAlwaysEnd == LinuxSerialSpec => IoctlsGetShorter
  <1>1. LinuxInv /\ [LinuxSerialNext]_<<vars, lvars>> =>
          [\A t \in Threads : lpc[t] # "user" =>
             0 <= IoctlStepsLeft(t)' /\ IoctlStepsLeft(t)' < IoctlStepsLeft(t)]_<<vars, lvars>>
    <2> SUFFICES ASSUME LinuxInv, LinuxSerialNext, NEW t \in Threads, lpc[t] # "user"
                 PROVE  0 <= IoctlStepsLeft(t)' /\ IoctlStepsLeft(t)' < IoctlStepsLeft(t)
      OBVIOUS
    <2>1. PICK u \in Threads : (LinuxQuiet /\ Request(u)) \/ Continue(u)
      BY DEF LinuxSerialNext
    <2>2. Continue(u)
      BY <2>1 DEF LinuxQuiet
    <2>3. CASE Step(u) /\ UNCHANGED lvars
      <3>1. u = t
        BY <2>3, StepServes
      <3> QED BY <2>3, <3>1, InsideShorter
    <2>4. CASE ~(Step(u) /\ UNCHANGED lvars)
      <3>1. ~Step(u)
        <4>1. ASSUME Step(u) PROVE FALSE
          <5>1. lpc[u] \notin {"init", "add_copy"} /\ pc[u] # "idle"
            BY <4>1, StepServes
          <5> QED BY <2>2, <2>4, <5>1 DEF Continue, CommonInit, DevExited, AddModuleCopy,
                    AddModuleDone, LoadVmmDone, UnloadVmmDone, StartVmmDone, Reported, Returned
        <4> QED BY <4>1
      <3>2. u = t
        BY <2>2, <3>1, HandlerShorter, OthersOut
      <3> QED BY <2>2, <3>1, <3>2, HandlerShorter
    <2> QED BY <2>3, <2>4
  <1> QED BY <1>1, LinuxInvariant, PTL DEF LinuxSerialSpec, IoctlsGetShorter

-----------------------------------------------------------------------------
(* What is proved of common.c holds of it inside the device.               *)

\* The device is an entry layer: outside common.c it calls one function at a
\* time and otherwise leaves common.c's state alone.
LEMMA LinuxEntry ==
  ASSUME LinuxInv, LinuxSerialNext
  PROVE  EntryLayer \/ \E u \in Threads : Step(u)
  <1> SUFFICES ASSUME \A u \in Threads : ~Step(u) PROVE EntryLayer
    OBVIOUS
  <1>1. PICK t \in Threads : (LinuxQuiet /\ Request(t)) \/ Continue(t)
    BY DEF LinuxSerialNext
  <1>2. Quiet
    <2>1. CASE LinuxQuiet
      BY <2>1 DEF Quiet, LinuxInv, LinuxQuiet, ThreadInv
    <2>2. CASE ~LinuxQuiet
      <3>1. lpc[t] # "user" /\ pc[t] = "idle"
        BY <1>1, <2>2 DEF Continue, CommonInit, DevExited, AddModuleCopy, AddModuleDone,
              LoadVmmDone, UnloadVmmDone, StartVmmDone, Reported, Returned, LinuxInv, ThreadInv
      <3> QED BY <3>1, OthersOut DEF Quiet
    <2> QED BY <2>1, <2>2
  <1> DEFINE Alone  == UNCHANGED <<globals, mapped, op, pc, cpuid, ret>>
             Enters == \E u \in Threads, o \in Ops, a \in Files \cup {NULL} : Enter(u, o, a)
  <1>3. CASE Request(t)
    <2>1. CASE DevInit(t) \/ AddModuleLength(t) \/ AddModule(t)
      <3>1. Alone
        BY <2>1 DEF DevInit, AddModuleLength, AddModule, vars, frames, world
      <3> QED BY <1>2, <3>1 DEF EntryLayer
    <2>2. CASE \/ DevReboot(t) \/ DevExit(t) \/ LoadVmm(t) \/ UnloadVmm(t) \/ StartVmm(t)
               \/ StopVmm(t) \/ DumpVmm(t)
      <3>1. Enters
        BY <2>2 DEF DevReboot, DevExit, LoadVmm, UnloadVmm, StartVmm, StopVmm, DumpVmm,
                    CallCommon, Call, Ops
      <3> QED BY <1>2, <3>1 DEF EntryLayer
    <2> QED BY <1>3, <2>1, <2>2 DEF Request
  <1>4. CASE Continue(t)
    <2>1. CASE CommonInit(t)
      BY <1>2, <2>1 DEF CommonInit, frames, EntryLayer
    <2>2. CASE \/ DevExited(t) \/ AddModuleDone(t) \/ UnloadVmmDone(t) \/ Reported(t)
               \/ AddModuleCopy(t) /\ AddModuleFailed(t)
               \/ UNCHANGED vars
      <3>1. Alone
        BY <2>2 DEF DevExited, AddModuleDone, AddModuleStore, AddModuleFailed, UnloadVmmDone,
                    Reported, vars, frames, world
      <3> QED BY <1>2, <3>1 DEF EntryLayer
    <2>3. CASE \/ AddModuleCopy(t) /\ CallCommon(t, "add", buf[t], "add")
               \/ CallCommon(t, "unload", NULL, "unload")
               \/ CallCommon(t, "stop", NULL, "rollback")
      <3>1. buf[t] \in Files \cup {NULL}
        BY LinuxAssumption DEF LinuxInv, LinuxTypeOK
      <3>2. Enters
        BY <2>3, <3>1 DEF CallCommon, Call, Ops
      <3> QED BY <1>2, <3>2 DEF EntryLayer
    <2> QED BY <1>4, <2>1, <2>2, <2>3 DEF Continue, AddModuleCopy, LoadVmmDone, StartVmmDone
  <1> QED BY <1>1, <1>3, <1>4

LEMMA LinuxHeld == LinuxSerialSpec => []Held
  <1>1. LinuxInit => Held
    BY HeldInit DEF LinuxInit, Init
  <1>2. LinuxInv /\ Held /\ [LinuxSerialNext]_<<vars, lvars>> => Held'
    <2> SUFFICES ASSUME LinuxInv, Held, [LinuxSerialNext]_<<vars, lvars>> PROVE Held'
      OBVIOUS
    <2>1. CASE UNCHANGED <<vars, lvars>>
      BY <2>1 DEF Held, ResultInv, LoadedSoFar, OnBehalf, LoadedIdx, VmmInv, NothingLoaded,
                  vars, globals, world, frames
    <2>2. CASE LinuxSerialNext
      BY <2>2, LinuxEntry, HeldStep, HeldEntry DEF LinuxInv
    <2> QED BY <2>1, <2>2
  <1> QED BY <1>1, <1>2, LinuxInvariant, PTL DEF LinuxSerialSpec

\* No ioctl reaches a VMM that lacks a part, and none is left LOADED without one.
THEOREM LinuxVmmComplete == LinuxSerialSpec => []VmmComplete
  <1>1. LinuxInv /\ Held => VmmComplete
    BY CompleteFollows DEF LinuxInv, Held, MemoryInv
  <1> QED BY <1>1, LinuxInvariant, LinuxHeld, PTL

\* The ioctls, the notifier and the exit keep the books of the CPUs right, and
\* every vmcall they lead to reaches a CPU whose VMM expects it.
THEOREM LinuxCpusAccounted == LinuxSerialSpec => [](CpuAccounting /\ VmcallHasVmm)
  <1>1. LinuxInv => CpuAccounting /\ VmcallHasVmm
    BY AccountingFollows, VmcallsFollow DEF LinuxInv
  <1> QED BY <1>1, LinuxInvariant, PTL

\* What the ioctls learn from common.c, and pass on to user space, is true.
THEOREM LinuxResultsTrue == LinuxSerialSpec => ResultsTrue
  <1>1. LinuxInv /\ Held /\ [LinuxSerialNext]_<<vars, lvars>> =>
          [\A t \in Threads : pc[t] # "idle" /\ pc'[t] = "idle" =>
             /\ Outcome(op[t], ret[t])'
             /\ pc[t] = "st_loop" /\ ret'[t] = "SUCCESS" /\ FixedCpus =>
                  \A c \in Cpu : vcpu[c] = "on"]_vars
    <2> SUFFICES ASSUME LinuxInv, Held, LinuxSerialNext,
                        NEW t \in Threads, pc[t] # "idle", pc'[t] = "idle"
                 PROVE  /\ Outcome(op[t], ret[t])'
                        /\ pc[t] = "st_loop" /\ ret'[t] = "SUCCESS" /\ FixedCpus =>
                             \A c \in Cpu : vcpu[c] = "on"
      OBVIOUS
    <2> QED BY LinuxEntry, ResultsFollow DEF LinuxInv
  <1> QED BY <1>1, LinuxInvariant, LinuxHeld, PTL DEF LinuxSerialSpec, ResultsTrue

=============================================================================
