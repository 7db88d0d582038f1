------------------------------- MODULE CallVmm ------------------------------
(***************************************************************************)
(* The inside of one call into the VMM, at the level of addresses: how     *)
(* common.c lays out the VMM's stack and thread-local storage, how         *)
(* call_vmm passes a request through the argument block g_info and the     *)
(* thread context on top of that stack, and how common_load_vmm describes  *)
(* the pages of a module and of the TLS to the VMM's memory manager.       *)
(*                                                                         *)
(* Module Common takes all of this for one step.  Here one caller walks    *)
(* through it, and the scheduler may move it to another CPU whenever       *)
(* preemption is enabled.                                                  *)
(***************************************************************************)
EXTENDS Integers, FiniteSets

CONSTANTS
  NumCpus,
  CpuCounts,                   \* what platform_num_cpus may answer
  STACK_SIZE,                  \* a power of two in the code
  THREAD_LOCAL_STORAGE_SIZE,
  MAX_PAGE_SIZE,               \* a power of two in the code
  CONTEXT_SIZE,                \* sizeof(struct thread_context_t)
  Bases,                       \* addresses the platform's allocators return
  Instrs,                      \* load instructions a module may have
  ImageSize,                   \* exec_size of the module
  SparePages                   \* allocators to consider, see AllocPages

Cpu == 0 .. NumCpus - 1
Perms == {"RE", "RW"}

ASSUME CallVmmAssumption ==
  /\ NumCpus \in Nat \ {0} /\ CpuCounts \subseteq 0 .. NumCpus
  /\ STACK_SIZE \in Nat \ {0} /\ MAX_PAGE_SIZE \in Nat \ {0}
  /\ THREAD_LOCAL_STORAGE_SIZE \in Nat \ {0}
  /\ CONTEXT_SIZE \in Nat \ {0} /\ CONTEXT_SIZE + 2 <= STACK_SIZE
  /\ Bases \subseteq Nat \ {0}
  /\ \A b \in Bases : b % MAX_PAGE_SIZE = 0
  /\ ImageSize \in Nat
  /\ Instrs \subseteq [mem_offset : Nat, memsz : Nat, perm : Perms]
  /\ IsFiniteSet(Instrs) /\ \A i \in Instrs : i.mem_offset + i.memsz <= ImageSize
  /\ SparePages \subseteq BOOLEAN

VARIABLES
  spare,             \* the allocator of this platform, never changes
  g_vmm_status,
  g_stack, g_stack_top,
  g_tls, g_tls_size, \* the size counts slots of THREAD_LOCAL_STORAGE_SIZE
  exec,              \* g_modules[0].exec
  segs,              \* load instructions already described
  seg,               \* the one being described
  virt, virt_end,    \* exec_s and exec_e, later tlss and tlse
  mdl,               \* what the memory manager of this load's VMM was told
  g_info,            \* the argument block
  tc,                \* the thread context on top of the stack
  pc, back,          \* where the caller is, and where call_vmm returns to
  request,           \* call_vmm's arguments
  cpuid,             \* call_vmm's local variable
  ok,                \* the VMM's answer
  cpu,               \* the CPU the caller runs on
  preempt            \* the kernel's preemption counter of the caller

memory == <<g_vmm_status, g_stack, g_stack_top, g_tls, g_tls_size, exec>>
loop   == <<segs, seg, virt, virt_end>>
shared == <<mdl, g_info, tc>>
call   == <<request, back, cpuid, ok>>
vars   == <<spare, memory, loop, shared, call, pc, cpu, preempt>>

NoInstr == [mem_offset |-> 0, memsz |-> 0, perm |-> "RW"]
Req(o, v, p) == [op |-> o, virt |-> v, perm |-> p]
NoReq == Req("NONE", 0, "RW")
Requests == [op : {"NONE", "INIT", "ADD_MDL", "FINI", "OTHER"}, virt : Nat, perm : Perms]

NoContext == [cpuid |-> 0, tlsptr |-> 0]

\* The local variables of a call that begins.
FreshLocals ==
  /\ segs' = {} /\ seg' = NoInstr /\ virt' = 0 /\ virt_end' = 0
  /\ request' = NoReq /\ back' = "idle" /\ cpuid' = 0 /\ ok' = TRUE

Init ==
  /\ spare \in SparePages
  /\ g_vmm_status = "UNLOADED"
  /\ g_stack = 0 /\ g_stack_top = 0 /\ g_tls = 0 /\ g_tls_size = 0 /\ exec = 0
  /\ segs = {} /\ seg = NoInstr /\ virt = 0 /\ virt_end = 0
  /\ mdl = {}
  /\ g_info = NoReq
  /\ tc = NoContext
  /\ pc = "idle" /\ back = "idle"
  /\ request = NoReq /\ cpuid = 0 /\ ok = TRUE
  /\ cpu \in Cpu
  /\ preempt = 0

-----------------------------------------------------------------------------
(* Memory. *)

\* a & ~(size - 1), for a size that is a power of two.
RoundDown(a, size) == a - (a % size)

\* Mutant: no page to spare in UEFI either.
AllocPagesTight(len) == (len + MAX_PAGE_SIZE - 1) \div MAX_PAGE_SIZE

\* The pages behind an allocation of len bytes: UEFI always takes one more
\* than fit below len, vmalloc and the page allocators round up.
AllocPages(len) ==
  IF spare THEN (len \div MAX_PAGE_SIZE) + 1
  ELSE (len + MAX_PAGE_SIZE - 1) \div MAX_PAGE_SIZE

\* Mutant: the block is as large as the stack, with no room for rounding.
StackBlockSingle == STACK_SIZE

StackBlock == STACK_SIZE * 2

TlsSize == THREAD_LOCAL_STORAGE_SIZE * g_tls_size

EndOf(base, len) == base + AllocPages(len) * MAX_PAGE_SIZE

\* The address b can be given to a block of len bytes.  Of the blocks whose
\* pointers a retried load overwrites (see Load) nothing is kept: where they
\* lie no property can tell from where no block ever was.
Free(b, len) ==
  \A o \in {<<g_stack, StackBlock>>, <<g_tls, TlsSize>>, <<exec, ImageSize>>} :
    o[1] # 0 => EndOf(b, len) <= o[1] \/ EndOf(o[1], o[2]) <= b

\* common_reset; the VMM and its memory manager go with the memory.  Only
\* g_tls_size keeps its value.
Reset ==
  /\ g_vmm_status' = "UNLOADED"
  /\ g_stack' = 0 /\ g_stack_top' = 0 /\ g_tls' = 0 /\ exec' = 0
  /\ g_info' = NoReq
  /\ mdl' = {}

-----------------------------------------------------------------------------
(* call_vmm *)

CallVmm(r, l) == pc' = "args" /\ request' = r /\ back' = l

\* Mutant: the increment of the page loops is missing.
SamePage(success) == virt

\* The increment of the page loops, after each page that was accepted.
NextPage(success) ==
  IF success /\ back \in {"page", "tls_page"} THEN virt + MAX_PAGE_SIZE ELSE virt

\* call_vmm has returned: a failure inside common_load_vmm unloads, except in
\* the TLS loop, and a failed BF_REQUEST_FINI corrupts the driver.
CallReturns(success) ==
  /\ pc' = IF success /\ back # "unload" THEN back ELSE "idle"
  /\ virt' = NextPage(success)
  /\ UNCHANGED <<spare, g_tls_size, segs, seg, virt_end, request, back, cpuid, cpu, tc>>
  /\ \/ /\ IF success THEN back = "unload" ELSE back \in {"seg", "page"}
        /\ Reset
     \/ /\ back = "unload" /\ ~success
        /\ g_vmm_status' = "CORRUPT"
        /\ UNCHANGED <<g_stack, g_stack_top, g_tls, exec, g_info, mdl>>
     \/ /\ back \in {"tls_page", "idle"} \/ (back \in {"seg", "page"} /\ success)
        /\ UNCHANGED <<memory, g_info, mdl>>

\* Mutants: a failed bfelf_set_integer_args goes to the end of call_vmm, where
\* preemption is restored, or its result is not looked at.
SetArgsToEnd ==
  /\ pc = "args"
  /\ \/ pc' = "cpuid" /\ g_info' = request /\ UNCHANGED ok
     \/ pc' = "preempt" /\ ok' = FALSE /\ UNCHANGED g_info
  /\ UNCHANGED <<spare, memory, loop, mdl, tc, request, back, cpuid, cpu, preempt>>
SetArgsUnchecked ==
  /\ pc = "args" /\ pc' = "cpuid"
  /\ g_info' \in {g_info, request}
  /\ UNCHANGED <<spare, memory, loop, mdl, tc, call, cpu, preempt>>

\* bfelf_set_integer_args fills the argument block, or fails.
SetArgs ==
  /\ pc = "args"
  /\ \/ /\ pc' = "cpuid" /\ g_info' = request
        /\ UNCHANGED <<spare, memory, loop, mdl, tc, call, cpu, preempt>>
     \/ CallReturns(FALSE) /\ UNCHANGED <<ok, preempt>>

\* Mutant: smp_processor_id in place of get_cpu.
CurrentCpuUnpinned == cpuid' = cpu /\ UNCHANGED preempt

\* platform_get_current_cpu_num: get_cpu also disables preemption.
platform_get_current_cpu_num == cpuid' = cpu /\ preempt' = preempt + 1

GetCpu ==
  /\ pc = "cpuid" /\ pc' = "context"
  /\ platform_get_current_cpu_num
  /\ UNCHANGED <<spare, memory, loop, shared, request, back, ok, cpu>>

FillContext ==
  /\ pc = "context" /\ pc' = "start"
  /\ tc' = [cpuid |-> cpuid, tlsptr |-> g_tls + THREAD_LOCAL_STORAGE_SIZE * cpuid]
  /\ UNCHANGED <<spare, memory, loop, mdl, g_info, call, cpu, preempt>>

\* Mutant: an error of the VMM is returned at once.
StartEarlyReturn ==
  /\ pc = "start"
  /\ \/ /\ pc' = "preempt" /\ ok' = TRUE
        /\ mdl' = IF g_info.op = "ADD_MDL"
                  THEN mdl \cup {[virt |-> g_info.virt, perm |-> g_info.perm]} ELSE mdl
        /\ UNCHANGED <<spare, memory, loop, g_info, tc, request, back, cpuid, cpu, preempt>>
     \/ CallReturns(FALSE) /\ UNCHANGED <<ok, preempt>>

\* _start: the VMM takes its request from g_info and answers as it likes.
Start ==
  /\ pc = "start" /\ pc' = "preempt"
  /\ ok' \in BOOLEAN
  /\ mdl' = IF ok' /\ g_info.op = "ADD_MDL"
            THEN mdl \cup {[virt |-> g_info.virt, perm |-> g_info.perm]} ELSE mdl
  /\ UNCHANGED <<spare, memory, loop, g_info, tc, request, back, cpuid, cpu, preempt>>

\* platform_restore_preemption
RestorePreemption ==
  /\ pc = "preempt"
  /\ preempt' = preempt - 1
  /\ CallReturns(ok) /\ UNCHANGED ok

-----------------------------------------------------------------------------
(* common_load_vmm *)

Failure == pc' = "idle" /\ Reset

\* A load after one that failed in the TLS loop still finds that one's pointers,
\* and overwrites them as it goes; the VMM they belong to is never called again.
Load ==
  /\ pc = "idle" /\ g_vmm_status = "UNLOADED"
  /\ pc' = "stack"
  /\ FreshLocals /\ mdl' = {}
  /\ UNCHANGED <<spare, memory, g_info, tc, cpu, preempt>>

\* The new stack, and the thread context on top of it, is zeroed.
SetupStack ==
  /\ pc = "stack"
  /\ \/ /\ \E b \in Bases :
             /\ Free(b, StackBlock)
             /\ g_stack' = b
             /\ g_stack_top' = RoundDown(b + StackBlock, STACK_SIZE) - 1
        /\ pc' = "tls" /\ UNCHANGED <<g_vmm_status, g_tls, exec, mdl, g_info>>
     \/ Failure
  /\ tc' = NoContext
  /\ UNCHANGED <<spare, g_tls_size, loop, call, cpu, preempt>>

\* One slot for each CPU the platform counts at this moment; of an allocation of
\* no bytes UEFI makes a page, the kernels NULL.
SetupTls ==
  /\ pc = "tls"
  /\ g_tls_size' \in CpuCounts
  /\ \/ /\ g_tls_size' > 0 \/ spare
        /\ \E b \in Bases : Free(b, TlsSize') /\ g_tls' = b
        /\ pc' = "elf"
        /\ UNCHANGED <<g_vmm_status, g_stack, g_stack_top, exec, mdl, g_info>>
     \/ Failure
  /\ UNCHANGED <<spare, loop, tc, call, cpu, preempt>>

\* bfelf_load gives the module its memory; BF_REQUEST_INIT comes next.
LoadElf ==
  /\ pc = "elf"
  /\ \/ /\ \E b \in Bases : Free(b, ImageSize) /\ exec' = b
        /\ CallVmm(Req("INIT", 0, "RW"), "seg")
        /\ UNCHANGED <<g_vmm_status, g_stack, g_stack_top, g_tls, mdl, g_info>>
     \/ Failure /\ UNCHANGED <<request, back>>
  /\ UNCHANGED <<spare, g_tls_size, loop, tc, cpuid, ok, cpu, preempt>>

\* add_md_to_memory_manager: the next load instruction, which the ELF loader may
\* fail to give, or on to the TLS.
NextSegment ==
  /\ pc = "seg"
  /\ \/ /\ \E i \in Instrs \ segs :
             /\ seg' = i
             /\ virt' = RoundDown(exec + i.mem_offset, MAX_PAGE_SIZE)
             /\ virt_end' = RoundDown(exec + i.mem_offset + i.memsz, MAX_PAGE_SIZE)
        /\ pc' = "page" /\ UNCHANGED <<memory, mdl, g_info>>
     \/ /\ Instrs \ segs # {} /\ Failure
        /\ UNCHANGED <<g_tls_size, seg, virt, virt_end>>
     \/ /\ virt' = g_tls /\ virt_end' = g_tls + TlsSize
        /\ pc' = "tls_page" /\ UNCHANGED <<memory, mdl, g_info, seg>>
  /\ UNCHANGED <<spare, segs, tc, call, cpu, preempt>>

\* Mutant: the usual bound of a loop over a half-open interval.
PagesLeftStrict == virt < virt_end

PagesLeft == virt <= virt_end

\* add_raw_md_to_memory_manager for one page of the load instruction.
DescribePage ==
  /\ pc = "page"
  /\ \/ /\ PagesLeft
        /\ CallVmm(Req("ADD_MDL", virt, seg.perm), "page")
        /\ UNCHANGED segs
     \/ /\ ~PagesLeft
        /\ pc' = "seg" /\ segs' = segs \cup {seg} /\ UNCHANGED <<request, back>>
  /\ UNCHANGED <<spare, memory, seg, virt, virt_end, shared, cpuid, ok, cpu, preempt>>

DescribeTls ==
  /\ pc = "tls_page"
  /\ \/ /\ PagesLeft
        /\ CallVmm(Req("ADD_MDL", virt, "RW"), "tls_page")
        /\ UNCHANGED g_vmm_status
     \/ /\ ~PagesLeft
        /\ pc' = "idle" /\ g_vmm_status' = "LOADED" /\ UNCHANGED <<request, back>>
  /\ UNCHANGED <<spare, g_stack, g_stack_top, g_tls, g_tls_size, exec, loop, shared,
                 cpuid, ok, cpu, preempt>>

-----------------------------------------------------------------------------
(* The other callers of call_vmm *)

\* common_unload_vmm of a loaded VMM, and after a load that failed in the TLS loop.
Unload ==
  /\ pc = "idle" /\ g_stack # 0
  /\ \/ /\ g_vmm_status = "LOADED"
        /\ CallVmm(Req("FINI", 0, "RW"), "unload")
        /\ UNCHANGED <<memory, mdl, g_info>>
     \/ /\ g_vmm_status = "UNLOADED"
        /\ Reset /\ UNCHANGED <<g_tls_size, pc, request, back>>
  /\ UNCHANGED <<spare, loop, tc, cpuid, ok, cpu, preempt>>

\* common_start_vmm, common_stop_vmm and common_dump_vmm.
Request ==
  /\ pc = "idle" /\ g_vmm_status # "UNLOADED"
  /\ CallVmm(Req("OTHER", 0, "RW"), "idle")
  /\ UNCHANGED <<spare, memory, loop, shared, cpuid, ok, cpu, preempt>>

\* The scheduler.
Migrate ==
  /\ preempt = 0
  /\ cpu' \in Cpu
  /\ UNCHANGED <<spare, memory, loop, shared, call, pc, preempt>>

Step ==
  \/ SetArgs \/ GetCpu \/ FillContext \/ Start \/ RestorePreemption
  \/ SetupStack \/ SetupTls \/ LoadElf
  \/ NextSegment \/ DescribePage \/ DescribeTls

Next == Step \/ Load \/ Unload \/ Request \/ Migrate

Spec == Init /\ [][Next]_vars

\* A thread inside the driver keeps going; nobody has to call it.
FairSpec == Spec /\ WF_vars(Step)

-----------------------------------------------------------------------------
(* Correctness. *)

Labels == {"idle", "args", "cpuid", "context", "start", "preempt",
           "stack", "tls", "elf", "seg", "page", "tls_page"}

\* Every variable has its type; addresses and the preemption counter never
\* become negative.
TypeOK ==
  /\ spare \in BOOLEAN
  /\ g_vmm_status \in {"UNLOADED", "LOADED", "CORRUPT"}
  /\ g_stack \in Nat /\ g_stack_top \in Nat /\ g_tls \in Nat /\ exec \in Nat
  /\ g_tls_size \in 0 .. NumCpus
  /\ segs \subseteq Instrs
  /\ seg \in [mem_offset : Nat, memsz : Nat, perm : Perms]
  /\ virt \in Nat /\ virt_end \in Nat
  /\ mdl \subseteq [virt : Nat, perm : Perms]
  /\ g_info \in Requests /\ request \in Requests
  /\ tc \in [cpuid : Cpu, tlsptr : Nat]
  /\ pc \in Labels /\ back \in {"idle", "seg", "page", "tls_page", "unload"}
  /\ cpuid \in Cpu /\ cpu \in Cpu /\ ok \in BOOLEAN
  /\ preempt \in Nat

StackBottom == g_stack_top + 1 - STACK_SIZE
ContextAddr == g_stack_top - CONTEXT_SIZE

\* Whatever address the allocator returns, the STACK_SIZE bytes below
\* g_stack_top are aligned to STACK_SIZE (so the VMM finds the thread context
\* by rounding any stack pointer) and inside the block, and the thread context
\* and the first stack pointer are inside them.
StackInBlock ==
  g_stack # 0 =>
    /\ StackBottom % STACK_SIZE = 0
    /\ g_stack <= StackBottom /\ g_stack_top < g_stack + StackBlock
    /\ StackBottom <= ContextAddr - 1 /\ ContextAddr + CONTEXT_SIZE <= g_stack_top

\* When the VMM is entered, the thread context names the CPU it is entered on,
\* wherever the scheduler moved the caller before, and points to that CPU's
\* own slot, which is inside the TLS block if the platform counted this CPU
\* when the block was allocated.
ContextOfCpu ==
  pc = "start" =>
    /\ tc.cpuid = cpu
    /\ tc.tlsptr = g_tls + THREAD_LOCAL_STORAGE_SIZE * cpu
    /\ cpu < g_tls_size => tc.tlsptr + THREAD_LOCAL_STORAGE_SIZE <= g_tls + TlsSize

\* The VMM reads the request of this call, never one an earlier call left in
\* the argument block.
RequestDelivered == pc = "start" => g_info = request

\* Preemption is disabled exactly from platform_get_current_cpu_num to
\* platform_restore_preemption, on every path through call_vmm.
PreemptionRestored ==
  preempt = IF pc \in {"context", "start", "preempt"} THEN 1 ELSE 0

Described(a, p) == [virt |-> RoundDown(a, MAX_PAGE_SIZE), perm |-> p] \in mdl

\* A VMM that is loaded knows every page that holds a byte of a load
\* instruction, with its permissions, and every page of the TLS.
NoPageMissed ==
  g_vmm_status # "UNLOADED" =>
    /\ \A i \in segs : \A a \in exec + i.mem_offset .. exec + i.mem_offset + i.memsz - 1 :
         Described(a, i.perm)
    /\ \A a \in g_tls .. g_tls + TlsSize - 1 : Described(a, "RW")

InBlock(v, base, len) ==
  /\ base <= v
  /\ IF spare THEN v < EndOf(base, len) ELSE v <= EndOf(base, len)

\* Although the loops run to <= the end, with UEFI's spare page no page behind
\* a block is described to the VMM; with the other allocators at most the one
\* right behind it is.
DescribedPagesAllocated ==
  \A m \in mdl : InBlock(m.virt, exec, ImageSize) \/ InBlock(m.virt, g_tls, TlsSize)

CallLabels == {"args", "cpuid", "context", "start", "preempt"}

\* The caller is at l, or in a call_vmm that returns to l.
In(l) == pc = l \/ (pc \in CallLabels /\ back = l)

\* The control of call_vmm: what the steps before the current one have left.
ControlInv ==
  /\ StackInBlock
  /\ PreemptionRestored
  /\ pc \in {"cpuid", "context", "start"} => g_info = request
  /\ pc \in {"context", "start"} => cpuid = cpu
  /\ pc = "start" => tc = [cpuid |-> cpu, tlsptr |-> g_tls + THREAD_LOCAL_STORAGE_SIZE * cpu]

SegDescribed(i, bound) ==
  \A a \in exec + i.mem_offset .. exec + i.mem_offset + i.memsz - 1 :
    a < bound => Described(a, i.perm)

TlsDescribed(bound) ==
  \A a \in g_tls .. g_tls + TlsSize - 1 : a < bound => Described(a, "RW")

\* The page loops: every page below virt has been described, and a page that
\* is being described is the one at virt.
LoopInv ==
  /\ In("page") =>
       /\ seg \in Instrs /\ exec <= virt
       /\ virt_end = RoundDown(exec + seg.mem_offset + seg.memsz, MAX_PAGE_SIZE)
       /\ SegDescribed(seg, virt)
  /\ In("tls_page") =>
       /\ g_tls <= virt /\ virt_end = g_tls + TlsSize
       /\ TlsDescribed(virt)
  /\ In("page") \/ In("tls_page") => virt % MAX_PAGE_SIZE = 0
  /\ \A l \in {"page", "tls_page"} : pc \in CallLabels /\ back = l =>
       /\ virt <= virt_end
       /\ request = Req("ADD_MDL", virt, IF l = "page" THEN seg.perm ELSE "RW")
       /\ pc = "preempt" /\ ok => [virt |-> virt, perm |-> request.perm] \in mdl

\* What the stage of the load says about the memory.
StageInv ==
  /\ g_tls \in Bases \cup {0} /\ exec \in Bases \cup {0}
  /\ pc \in {"tls", "elf"} => g_stack # 0
  /\ pc \in {"stack", "tls", "elf"} => segs = {}
  /\ g_stack = 0 \/ pc \in {"stack", "tls", "elf"} => mdl = {}
  /\ pc \in {"seg", "page", "tls_page"} \cup CallLabels \/ g_vmm_status # "UNLOADED" =>
       /\ g_stack # 0
       /\ \A i \in segs : SegDescribed(i, exec + i.mem_offset + i.memsz)
  /\ pc \in {"stack", "tls", "elf"} \/ In("seg") \/ In("page") \/ In("tls_page") =>
       g_vmm_status = "UNLOADED"
  /\ pc \in CallLabels /\ back = "unload" => g_vmm_status # "UNLOADED"
  /\ pc \in CallLabels /\ back \notin {"page", "tls_page"} => request.op # "ADD_MDL"
  /\ g_vmm_status # "UNLOADED" => TlsDescribed(g_tls + TlsSize)

\* The inductive invariant: the properties above follow from it.
CallInv == TypeOK /\ ControlInv /\ LoopInv /\ StageInv /\ DescribedPagesAllocated

\* Every call into the driver returns: the page loops end.
LoadEnds == pc # "idle" ~> pc = "idle"

\* How far a call is from its end, the most significant part first: the phases
\* of a load, the load instructions not yet begun, whether one is begun, the
\* bytes the page loop has ahead, and the code after the label.
Phase ==
  CASE pc \in {"stack", "tls", "elf"} \/ In("seg") \/ In("page") -> 2
    [] In("tls_page") -> 1
    [] OTHER -> 0
SegsLeft == Instrs \ (IF In("page") THEN segs \cup {seg} ELSE segs)
Begun == IF In("page") THEN 1 ELSE 0
BytesLeft ==
  IF (In("page") \/ In("tls_page")) /\ PagesLeft THEN virt_end - virt + 1 ELSE 0
LabelRank ==
  [stack |-> 9, tls |-> 8, elf |-> 7, page |-> 6, tls_page |-> 6, args |-> 5,
   cpuid |-> 4, context |-> 3, start |-> 2, preempt |-> 1, seg |-> 0, idle |-> 0]

WorkLeft == <<Phase, Cardinality(SegsLeft), Begun, BytesLeft, LabelRank[pc]>>

\* The first part that changes becomes smaller.
Shorter ==
  \E k \in 1 .. 5 : /\ 0 <= WorkLeft'[k] /\ WorkLeft'[k] < WorkLeft[k]
                    /\ \A j \in 1 .. k - 1 : WorkLeft'[j] = WorkLeft[j]

\* Every step but a migration brings the call nearer to its end, whatever the
\* VMM answers: an instruction is described once, each page that was accepted
\* advances the page loop, and call_vmm itself has no way back.
LoadGetsShorter == [][pc # "idle" /\ cpu' = cpu => pc' = "idle" \/ Shorter]_vars

=============================================================================
