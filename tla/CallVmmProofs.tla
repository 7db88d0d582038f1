---------------------------- MODULE CallVmmProofs ---------------------------
(***************************************************************************)
(* Proofs about CallVmm.tla for every number of CPUs, every size of stack, *)
(* TLS, page, thread context and image, every address the allocators may   *)
(* return and every set of load instructions.                              *)
(*                                                                         *)
(* The arithmetic comes first: rounding down to a multiple, and the pages  *)
(* of an interval.  CallInv is the inductive invariant; a step of call_vmm *)
(* disturbs its control part, a step of a page loop its loop part.         *)
(***************************************************************************)
EXTENDS CallVmm, FiniteSetTheorems, TLAPS

-----------------------------------------------------------------------------
(* Rounding. *)

\* A multiple of p leaves no remainder.
LEMMA MultipleMod ==
  ASSUME NEW k \in Nat, NEW p \in Nat \ {0}
  PROVE  (p * k) % p = 0
  OBVIOUS

\* RoundDown is the largest multiple of p up to a.
LEMMA RoundDownBounds ==
  ASSUME NEW a \in Nat, NEW p \in Nat \ {0}
  PROVE  /\ RoundDown(a, p) \in Nat
         /\ a - p < RoundDown(a, p) /\ RoundDown(a, p) <= a
         /\ RoundDown(a, p) = p * (a \div p) /\ a \div p \in Nat
         /\ RoundDown(a, p) % p = 0
  <1>1. RoundDown(a, p) \in Nat /\ a - p < RoundDown(a, p) /\ RoundDown(a, p) <= a
    BY DEF RoundDown
  <1>2. RoundDown(a, p) = p * (a \div p) /\ a \div p \in Nat
    BY DEF RoundDown
  <1>3. (p * (a \div p)) % p = 0
    BY <1>2, MultipleMod
  <1> QED BY <1>1, <1>2, <1>3

\* The addresses of one page round down to its start.
LEMMA RoundDownOnPage ==
  ASSUME NEW c \in Nat, NEW p \in Nat \ {0}, c % p = 0,
         NEW a \in Nat, c <= a, a < c + p
  PROVE  RoundDown(a, p) = c
  BY DEF RoundDown

\* The next page of a page is a page.
LEMMA NextMultiple ==
  ASSUME NEW c \in Nat, NEW p \in Nat \ {0}, c % p = 0
  PROVE  (c + p) % p = 0
  <1> DEFINE k == (c \div p) + 1
  <1>1. k \in Nat /\ p * k = c + p
    OBVIOUS
  <1> HIDE DEF k
  <1>2. (p * k) % p = 0
    BY <1>1, MultipleMod
  <1> QED BY <1>1, <1>2

\* Two different pages are at least a page apart.
LEMMA PagesApart ==
  ASSUME NEW c \in Nat, NEW d \in Nat, NEW p \in Nat \ {0},
         c % p = 0, d % p = 0, c < d
  PROVE  c + p <= d
  <1>1. /\ c = p * (c \div p) /\ c \div p \in Nat
        /\ d = p * (d \div p) /\ d \div p \in Nat
    OBVIOUS
  <1>2. PICK i \in Nat, j \in Nat : c = p * i /\ d = p * j
    BY <1>1
  <1>3. i < j
    <2>1. ASSUME j <= i PROVE FALSE
      <3>1. p * j <= p * i
        BY <2>1
      <3> QED BY <3>1, <1>2
    <2> QED BY <2>1
  <1>4. p * (i + 1) <= p * j
    BY <1>3
  <1> QED BY <1>2, <1>4

\* setup_stack: rounding the end of a block of twice STACK_SIZE down leaves an
\* aligned stack inside the block.
LEMMA StackRounding ==
  ASSUME NEW b \in Nat, NEW s \in Nat \ {0}
  PROVE  LET top == RoundDown(b + s * 2, s) - 1
         IN  /\ top \in Nat
             /\ (top + 1 - s) % s = 0
             /\ b <= top + 1 - s /\ top < b + s * 2
  <1> DEFINE n == b + s * 2
             r == RoundDown(n, s)
             q == n \div s
             k == q - 1
  <1>0. n \in Nat /\ n = b + s * 2
    OBVIOUS
  <1> HIDE DEF n
  <1>1. /\ r \in Nat /\ n - s < r /\ r <= n
        /\ r = s * q /\ q \in Nat
    BY <1>0, RoundDownBounds
  <1> HIDE DEF r, q
  <1>2. k \in Nat /\ s * k = r - s
    <2>1. q # 0
      BY <1>0, <1>1
    <2> QED BY <1>1, <2>1
  <1> HIDE DEF k
  <1>3. (s * k) % s = 0
    BY <1>2, MultipleMod
  <1>4. r - s = r - 1 + 1 - s /\ r - s >= b /\ r - 1 < b + s * 2
    BY <1>0, <1>1
  <1>5. (r - 1 + 1 - s) % s = 0
    BY <1>2, <1>3, <1>4
  <1>6. r = RoundDown(b + s * 2, s) /\ r - 1 \in Nat
    BY <1>0, <1>1, <1>4 DEF r
  <1> QED BY <1>4, <1>5, <1>6

-----------------------------------------------------------------------------
(* The inductive invariant. *)

\* The sizes of the blocks, and the slots of the CPUs that have one.
LEMMA Sizes ==
  ASSUME g_tls_size \in 0 .. NumCpus
  PROVE  /\ StackBlock \in Nat /\ TlsSize \in Nat
         /\ \A c \in Cpu :
              /\ THREAD_LOCAL_STORAGE_SIZE * c \in Nat
              /\ c < g_tls_size =>
                   THREAD_LOCAL_STORAGE_SIZE * c + THREAD_LOCAL_STORAGE_SIZE <= TlsSize
  <1>0. g_tls_size \in Nat
    BY CallVmmAssumption
  <1>1. StackBlock \in Nat /\ TlsSize \in Nat
    BY <1>0, CallVmmAssumption DEF StackBlock, TlsSize
  <1>2. ASSUME NEW c \in Cpu
        PROVE  /\ THREAD_LOCAL_STORAGE_SIZE * c \in Nat
               /\ c < g_tls_size =>
                    THREAD_LOCAL_STORAGE_SIZE * c + THREAD_LOCAL_STORAGE_SIZE <= TlsSize
    <2>1. c \in Nat /\ c + 1 \in Nat /\ (c < g_tls_size => c + 1 <= g_tls_size)
      BY <1>0, CallVmmAssumption DEF Cpu
    <2>2. c < g_tls_size =>
            THREAD_LOCAL_STORAGE_SIZE * (c + 1) <= THREAD_LOCAL_STORAGE_SIZE * g_tls_size
      BY <1>0, <2>1, CallVmmAssumption
    <2> QED BY <1>0, <2>1, <2>2, CallVmmAssumption DEF TlsSize
  <1> QED BY <1>1, <1>2

\* common_reset gives its variables well-typed values.
LEMMA ResetType ==
  ASSUME TypeOK, Reset
  PROVE  /\ (g_vmm_status \in {"UNLOADED", "LOADED", "CORRUPT"})'
         /\ (g_stack \in Nat /\ g_stack_top \in Nat /\ g_tls \in Nat /\ exec \in Nat)'
         /\ (mdl \subseteq [virt : Nat, perm : Perms])'
         /\ (g_info \in Requests)'
  BY DEF Reset, Requests, NoReq, Req, Perms

\* The end of call_vmm keeps every variable it touches in its type.
LEMMA ReturnType ==
  ASSUME TypeOK, NEW s \in BOOLEAN, CallReturns(s)
  PROVE  /\ (g_vmm_status \in {"UNLOADED", "LOADED", "CORRUPT"})'
         /\ (g_stack \in Nat /\ g_stack_top \in Nat /\ g_tls \in Nat /\ exec \in Nat)'
         /\ (mdl \subseteq [virt : Nat, perm : Perms])'
         /\ (g_info \in Requests)'
         /\ (virt \in Nat)' /\ (pc \in Labels)'
  <1>1. (virt \in Nat)'
    BY CallVmmAssumption DEF CallReturns, NextPage, TypeOK
  <1>2. (pc \in Labels)'
    BY DEF CallReturns, TypeOK, Labels
  <1>3. CASE Reset
    BY <1>1, <1>2, <1>3, ResetType
  <1>4. CASE ~Reset
    <2>1. (g_vmm_status \in {"UNLOADED", "LOADED", "CORRUPT"})'
      BY <1>4 DEF CallReturns, memory, TypeOK
    <2>2. UNCHANGED <<g_stack, g_stack_top, g_tls, exec, mdl, g_info>>
      BY <1>4 DEF CallReturns, memory
    <2> QED BY <1>1, <1>2, <2>1, <2>2 DEF TypeOK
  <1> QED BY <1>3, <1>4

\* Every step keeps every variable in its type: the preemption counter because
\* it is only decremented after get_cpu, the addresses by the rounding lemmas.
LEMMA TypeStep ==
  ASSUME CallInv, Next
  PROVE  TypeOK'
  <1> USE DEF CallInv, memory, loop, shared, call
  <1>t. TypeOK
    OBVIOUS
  <1>1. CASE SetArgs
    <2>1. CASE CallReturns(FALSE) /\ UNCHANGED <<ok, preempt>>
      BY <1>t, <2>1, ReturnType DEF TypeOK, CallReturns
    <2>2. CASE ~CallReturns(FALSE)
      BY <1>1, <2>2 DEF TypeOK, SetArgs, Labels
    <2> QED BY <1>1, <2>1, <2>2 DEF SetArgs
  <1>2. CASE GetCpu
    BY <1>2 DEF TypeOK, GetCpu, platform_get_current_cpu_num, Labels
  <1>3. CASE FillContext
    <2>1. tc' \in [cpuid : Cpu, tlsptr : Nat]
      <3>1. THREAD_LOCAL_STORAGE_SIZE * cpuid \in Nat
        BY Sizes DEF TypeOK
      <3> QED BY <1>3, <3>1 DEF TypeOK, FillContext
    <2> QED BY <1>3, <2>1 DEF TypeOK, FillContext, Labels
  <1>4. CASE Start
    <2>1. (mdl \subseteq [virt : Nat, perm : Perms])'
      BY <1>4 DEF TypeOK, Start, Requests
    <2> QED BY <1>4, <2>1 DEF TypeOK, Start, Labels
  <1>5. CASE RestorePreemption
    <2>1. preempt' \in Nat
      BY <1>5 DEF TypeOK, RestorePreemption, ControlInv, PreemptionRestored
    <2>2. CallReturns(ok) /\ ok \in BOOLEAN /\ UNCHANGED ok
      BY <1>5 DEF RestorePreemption, TypeOK
    <2> QED BY <1>t, <2>1, <2>2, ReturnType DEF TypeOK, CallReturns
  <1>6. CASE SetupStack
    <2>0. (tc \in [cpuid : Cpu, tlsptr : Nat])'
      BY <1>6, CallVmmAssumption DEF SetupStack, NoContext, Cpu
    <2>1. CASE Failure
      BY <1>t, <1>6, <2>0, <2>1, ResetType DEF TypeOK, SetupStack, Failure, Labels
    <2>2. CASE \E b \in Bases :
             /\ g_stack' = b
             /\ g_stack_top' = RoundDown(b + StackBlock, STACK_SIZE) - 1
             /\ pc' = "tls" /\ UNCHANGED <<g_vmm_status, g_tls, exec, mdl, g_info>>
      <3>1. PICK b \in Bases :
             /\ g_stack' = b
             /\ g_stack_top' = RoundDown(b + STACK_SIZE * 2, STACK_SIZE) - 1
        BY <2>2 DEF StackBlock
      <3>2. g_stack' \in Nat /\ g_stack_top' \in Nat
        BY <3>1, StackRounding, CallVmmAssumption
      <3> QED BY <1>6, <2>0, <2>2, <3>2 DEF TypeOK, SetupStack, Labels
    <2> QED BY <1>6, <2>1, <2>2 DEF SetupStack
  <1>7. CASE SetupTls
    <2>0. (g_tls_size \in 0 .. NumCpus)'
      BY <1>7, CallVmmAssumption DEF SetupTls
    <2>1. CASE Failure
      BY <1>t, <1>7, <2>0, <2>1, ResetType DEF TypeOK, SetupTls, Failure, Labels
    <2>2. CASE ~Failure
      BY <1>7, <2>0, <2>2, CallVmmAssumption DEF TypeOK, SetupTls, Labels
    <2> QED BY <2>1, <2>2
  <1>8. CASE LoadElf
    <2>1. CASE Failure /\ UNCHANGED <<request, back>>
      BY <1>t, <1>8, <2>1, ResetType DEF TypeOK, LoadElf, Failure, Labels
    <2>2. CASE /\ exec' \in Bases
               /\ CallVmm(Req("INIT", 0, "RW"), "seg")
               /\ UNCHANGED <<g_vmm_status, g_stack, g_stack_top, g_tls, mdl, g_info>>
      <3>1. exec' \in Nat /\ pc' \in Labels /\ back' = "seg"
        BY <2>2, CallVmmAssumption DEF CallVmm, Labels
      <3>2. request' \in Requests
        BY <2>2 DEF CallVmm, Req, Requests, Perms
      <3> QED BY <1>8, <2>2, <3>1, <3>2 DEF TypeOK, LoadElf
    <2> QED BY <1>8, <2>1, <2>2 DEF LoadElf
  <1>9. CASE NextSegment
    <2>0. CASE Failure /\ UNCHANGED <<g_tls_size, seg, virt, virt_end>>
      BY <1>t, <1>9, <2>0, ResetType DEF TypeOK, NextSegment, Failure, Labels
    <2>n. ASSUME ~(Failure /\ UNCHANGED <<g_tls_size, seg, virt, virt_end>>)
          PROVE  pc' \in {"page", "tls_page"} /\ UNCHANGED <<memory, mdl, g_info>>
      BY <1>9, <2>n DEF NextSegment
    <2> SUFFICES ASSUME ~(Failure /\ UNCHANGED <<g_tls_size, seg, virt, virt_end>>)
                 PROVE  TypeOK'
      BY <2>0
    <2>1. /\ seg' \in [mem_offset : Nat, memsz : Nat, perm : Perms]
          /\ virt' \in Nat /\ virt_end' \in Nat
      <3>1. CASE /\ virt' = g_tls /\ virt_end' = g_tls + TlsSize /\ UNCHANGED seg
        BY <3>1, Sizes DEF TypeOK
      <3>2. CASE \E i \in Instrs :
              /\ seg' = i
              /\ virt' = RoundDown(exec + i.mem_offset, MAX_PAGE_SIZE)
              /\ virt_end' = RoundDown(exec + i.mem_offset + i.memsz, MAX_PAGE_SIZE)
        <4>1. PICK i \in Instrs :
              /\ seg' = i
              /\ virt' = RoundDown(exec + i.mem_offset, MAX_PAGE_SIZE)
              /\ virt_end' = RoundDown(exec + i.mem_offset + i.memsz, MAX_PAGE_SIZE)
          BY <3>2
        <4>2. /\ i \in [mem_offset : Nat, memsz : Nat, perm : Perms]
              /\ exec + i.mem_offset \in Nat /\ exec + i.mem_offset + i.memsz \in Nat
          BY CallVmmAssumption DEF TypeOK
        <4> QED BY <4>1, <4>2, RoundDownBounds, CallVmmAssumption
      <3> QED BY <1>9, <3>1, <3>2 DEF NextSegment
    <2>2. pc' \in Labels /\ UNCHANGED <<memory, mdl, g_info>>
      BY <2>n DEF Labels
    <2>3. UNCHANGED <<spare, segs, tc, call, cpu, preempt>>
      BY <1>9 DEF NextSegment
    <2> QED BY <1>t, <2>1, <2>2, <2>3 DEF TypeOK
  <1>10. CASE DescribePage
    <2>1. (segs \subseteq Instrs)'
      <3>1. In("page") /\ seg \in Instrs
        BY <1>10 DEF DescribePage, LoopInv, In
      <3> QED BY <1>10, <3>1 DEF DescribePage, TypeOK
    <2>2. (pc \in Labels)' /\ (back \in {"idle", "seg", "page", "tls_page", "unload"})'
      BY <1>10 DEF DescribePage, CallVmm, Labels, TypeOK
    <2>3. (request \in Requests)'
      BY <1>10 DEF DescribePage, CallVmm, Req, Requests, TypeOK
    <2> QED BY <1>10, <2>1, <2>2, <2>3 DEF DescribePage, TypeOK
  <1>11. CASE DescribeTls
    <2>2. (pc \in Labels)' /\ (back \in {"idle", "seg", "page", "tls_page", "unload"})'
      BY <1>11 DEF DescribeTls, CallVmm, Labels, TypeOK
    <2>3. (request \in Requests)' /\ (g_vmm_status \in {"UNLOADED", "LOADED", "CORRUPT"})'
      BY <1>11 DEF DescribeTls, CallVmm, Req, Requests, Perms, TypeOK
    <2> QED BY <1>11, <2>2, <2>3 DEF DescribeTls, TypeOK
  <1>12. CASE Load
    <2>1. NoReq \in Requests /\ NoInstr \in [mem_offset : Nat, memsz : Nat, perm : Perms]
      BY DEF NoReq, Req, Requests, NoInstr, Perms
    <2>2. 0 \in Cpu
      BY CallVmmAssumption DEF Cpu
    <2> QED BY <1>12, <2>1, <2>2 DEF Load, FreshLocals, TypeOK, Labels
  <1>13. CASE Unload
    <2>1. CASE CallVmm(Req("FINI", 0, "RW"), "unload") /\ UNCHANGED <<memory, mdl, g_info>>
      <3>1. request' \in Requests /\ pc' \in Labels /\ back' = "unload"
        BY <2>1 DEF CallVmm, Req, Requests, Perms, Labels
      <3> QED BY <1>13, <2>1, <3>1 DEF Unload, TypeOK
    <2>2. CASE Reset /\ UNCHANGED <<pc, request, back>>
      BY <1>t, <1>13, <2>2, ResetType DEF Unload, TypeOK
    <2> QED BY <1>13, <2>1, <2>2 DEF Unload
  <1>14. CASE Request
    <2>1. request' \in Requests /\ pc' \in Labels /\ back' = "idle"
      BY <1>14 DEF Request, CallVmm, Req, Requests, Perms, Labels
    <2> QED BY <1>14, <2>1 DEF Request, TypeOK
  <1>15. CASE Migrate
    BY <1>15 DEF Migrate, TypeOK
  <1> QED BY <1>1, <1>2, <1>3, <1>4, <1>5, <1>6, <1>7, <1>8, <1>9, <1>10,
             <1>11, <1>12, <1>13, <1>14, <1>15 DEF Next, Step

\* The control part: what call_vmm has put into the shared argument block and
\* the thread context is still there when the VMM is entered, because the
\* scheduler cannot move a caller that has called get_cpu.
LEMMA ControlStep ==
  ASSUME CallInv, Next
  PROVE  ControlInv'
  <1> USE DEF CallInv, memory, loop, shared, call
  <1>k. /\ UNCHANGED <<g_stack, g_stack_top>> => StackInBlock'
        /\ Reset => StackInBlock'
    BY DEF ControlInv, StackInBlock, StackBottom, ContextAddr, Reset
  <1>r. ASSUME NEW s \in BOOLEAN, CallReturns(s)
        PROVE  /\ StackInBlock'
               /\ pc' \in {"idle", "seg", "page", "tls_page"}
    BY <1>r, <1>k DEF CallReturns, TypeOK
  <1>1. CASE SetArgs
    <2>1. CASE CallReturns(FALSE) /\ UNCHANGED <<ok, preempt>>
      BY <1>1, <1>r, <2>1 DEF ControlInv, PreemptionRestored, SetArgs
    <2>2. CASE ~CallReturns(FALSE)
      BY <1>1, <1>k, <2>2 DEF ControlInv, PreemptionRestored, SetArgs
    <2> QED BY <1>1, <2>1, <2>2 DEF SetArgs
  <1>2. CASE GetCpu
    BY <1>2, <1>k DEF ControlInv, PreemptionRestored, GetCpu, platform_get_current_cpu_num
  <1>3. CASE FillContext
    BY <1>3, <1>k DEF ControlInv, PreemptionRestored, FillContext
  <1>4. CASE Start
    BY <1>4, <1>k DEF ControlInv, PreemptionRestored, Start
  <1>5. CASE RestorePreemption
    <2>1. CallReturns(ok) /\ ok \in BOOLEAN /\ preempt = 1 /\ preempt' = preempt - 1
      BY <1>5 DEF RestorePreemption, TypeOK, ControlInv, PreemptionRestored
    <2> QED BY <1>r, <2>1 DEF ControlInv, PreemptionRestored
  <1>6. CASE SetupStack
    <2>1. CASE Failure
      BY <1>6, <1>k, <2>1 DEF ControlInv, PreemptionRestored, SetupStack, Failure
    <2>2. CASE ~Failure
      <3>1. PICK b \in Bases :
             /\ g_stack' = b
             /\ g_stack_top' = RoundDown(b + STACK_SIZE * 2, STACK_SIZE) - 1
        BY <1>6, <2>2 DEF SetupStack, StackBlock
      <3>2. /\ g_stack_top' \in Nat
            /\ (g_stack_top' + 1 - STACK_SIZE) % STACK_SIZE = 0
            /\ b <= g_stack_top' + 1 - STACK_SIZE
            /\ g_stack_top' < b + STACK_SIZE * 2
        BY <3>1, StackRounding, CallVmmAssumption
      <3>3. StackInBlock'
        BY <3>1, <3>2, CallVmmAssumption DEF StackInBlock, StackBottom, ContextAddr, StackBlock
      <3> QED BY <1>6, <2>2, <3>3 DEF ControlInv, PreemptionRestored, SetupStack
    <2> QED BY <2>1, <2>2
  <1>7. CASE SetupTls
    BY <1>7, <1>k DEF ControlInv, PreemptionRestored, SetupTls, Failure
  <1>8. CASE LoadElf
    BY <1>8, <1>k DEF ControlInv, PreemptionRestored, LoadElf, Failure, CallVmm
  <1>9. CASE NextSegment
    BY <1>9, <1>k DEF ControlInv, PreemptionRestored, NextSegment, Failure
  <1>10. CASE DescribePage
    BY <1>10, <1>k DEF ControlInv, PreemptionRestored, DescribePage, CallVmm
  <1>11. CASE DescribeTls
    BY <1>11, <1>k DEF ControlInv, PreemptionRestored, DescribeTls, CallVmm
  <1>12. CASE Load
    BY <1>12, <1>k DEF ControlInv, PreemptionRestored, Load, FreshLocals
  <1>13. CASE Unload
    BY <1>13, <1>k DEF ControlInv, PreemptionRestored, Unload, CallVmm
  <1>14. CASE Request
    BY <1>14, <1>k DEF ControlInv, PreemptionRestored, Request, CallVmm
  <1>15. CASE Migrate
    BY <1>15, <1>k DEF ControlInv, PreemptionRestored, Migrate
  <1> QED BY <1>1, <1>2, <1>3, <1>4, <1>5, <1>6, <1>7, <1>8, <1>9, <1>10,
             <1>11, <1>12, <1>13, <1>14, <1>15 DEF Next, Step

\* A page loop has reached virt: the page at virt, once described, covers the
\* addresses up to virt + MAX_PAGE_SIZE.
LEMMA PageCovers ==
  ASSUME NEW v \in Nat, v % MAX_PAGE_SIZE = 0, NEW a \in Nat,
         v <= a, a < v + MAX_PAGE_SIZE, NEW p,
         [virt |-> v, perm |-> p] \in mdl
  PROVE  Described(a, p)
  BY RoundDownOnPage, CallVmmAssumption DEF Described

\* A block ends behind its last byte; with a spare page, even behind the byte
\* that follows it.
LEMMA BlockEnd ==
  ASSUME NEW base \in Nat, NEW len \in Nat, spare \in BOOLEAN
  PROVE  /\ EndOf(base, len) \in Nat
         /\ base + len <= EndOf(base, len)
         /\ spare => base + len < EndOf(base, len)
  <1> DEFINE p == MAX_PAGE_SIZE
  <1>0. p \in Nat \ {0}
    BY CallVmmAssumption
  <1> HIDE DEF p
  <1>1. CASE spare
    <2> DEFINE q == len \div p
    <2>1. q \in Nat /\ len < (q + 1) * p
      BY <1>0
    <2> HIDE DEF q
    <2>2. (q + 1) * p \in Nat
      BY <1>0, <2>1
    <2>3. EndOf(base, len) = base + (q + 1) * p
      BY <1>1 DEF EndOf, AllocPages, p, q
    <2> QED BY <2>1, <2>2, <2>3
  <1>2. CASE ~spare
    <2> DEFINE n == len + p - 1
               q == n \div p
    <2>0. n \in Nat /\ n = len + p - 1
      BY <1>0
    <2> HIDE DEF n
    <2>1. q \in Nat /\ n - p < q * p
      BY <1>0, <2>0
    <2> HIDE DEF q
    <2>2. q * p \in Nat
      BY <1>0, <2>1
    <2>3. EndOf(base, len) = base + q * p
      BY <1>2 DEF EndOf, AllocPages, p, q, n
    <2>4. len <= q * p
      BY <1>0, <2>0, <2>1, <2>2
    <2> QED BY <1>2, <2>2, <2>3, <2>4
  <1> QED BY <1>1, <1>2

\* The part of CallInv that the page loops and the stages of the load maintain.
MapInv == LoopInv /\ StageInv /\ DescribedPagesAllocated

\* Inside call_vmm, before the VMM is entered, nothing the loops rely on changes.
LEMMA CallFrame ==
  ASSUME CallInv, pc \in CallLabels \ {"preempt"}, pc' \in CallLabels \ {"preempt"},
         UNCHANGED <<spare, memory, loop, mdl, request, back, ok>>
  PROVE  MapInv'
  <1> USE DEF CallInv, memory, loop, CallLabels
  <1>1. LoopInv'
    BY DEF LoopInv, In, SegDescribed, TlsDescribed, TlsSize, Described
  <1>2. StageInv'
    BY DEF StageInv, In, SegDescribed, TlsDescribed, TlsSize, Described
  <1>3. DescribedPagesAllocated'
    BY DEF DescribedPagesAllocated, InBlock, EndOf, AllocPages, TlsSize
  <1> QED BY <1>1, <1>2, <1>3 DEF MapInv

\* Outside the driver with the memory gone there is nothing to describe.
LEMMA Blank ==
  ASSUME Reset, pc' = "idle"
  PROVE  MapInv'
  <1>1. LoopInv'
    BY DEF LoopInv, In, CallLabels
  <1>2. StageInv'
    BY DEF StageInv, In, CallLabels, Reset
  <1>3. DescribedPagesAllocated'
    BY DEF DescribedPagesAllocated, Reset
  <1> QED BY <1>1, <1>2, <1>3 DEF MapInv

\* Nothing changes except that the caller leaves, or enters, the driver.
LEMMA IdleFrame ==
  ASSUME CallInv, UNCHANGED <<spare, memory, mdl, segs>>,
         pc' = "idle" \/ (pc' = "args" /\ back' \in {"idle", "unload"}),
         pc' = "args" => g_vmm_status # "UNLOADED" /\ request'.op # "ADD_MDL"
  PROVE  MapInv'
  <1> USE DEF CallInv, memory
  <1>1. LoopInv'
    BY DEF LoopInv, In, CallLabels
  <1>2. StageInv'
    BY DEF StageInv, In, CallLabels, SegDescribed, TlsDescribed, TlsSize, Described
  <1>3. DescribedPagesAllocated'
    BY DEF DescribedPagesAllocated, InBlock, EndOf, AllocPages, TlsSize
  <1> QED BY <1>1, <1>2, <1>3 DEF MapInv

\* The page loop goes on to the next page.
LEMMA PageAdvance ==
  ASSUME CallInv, pc = "preempt", back \in {"page", "tls_page"}, ok, CallReturns(TRUE)
  PROVE  MapInv'
  <1> USE DEF CallInv, memory
  <1>0. /\ pc' = back /\ virt' = virt + MAX_PAGE_SIZE /\ In(back)
        /\ UNCHANGED <<spare, memory, mdl, segs, seg, virt_end, request, back>>
    BY DEF CallReturns, NextPage, In, CallLabels, memory
  <1>1. /\ virt \in Nat /\ virt % MAX_PAGE_SIZE = 0 /\ virt' \in Nat
        /\ MAX_PAGE_SIZE \in Nat \ {0}
    BY <1>0, CallVmmAssumption DEF LoopInv, In, TypeOK
  <1>2. virt' % MAX_PAGE_SIZE = 0
    BY <1>0, <1>1, NextMultiple
  <1>3. LoopInv'
    <2>1. CASE back = "page"
      <3>1. /\ seg \in Instrs /\ exec <= virt /\ virt <= virt_end
            /\ virt_end = RoundDown(exec + seg.mem_offset + seg.memsz, MAX_PAGE_SIZE)
            /\ SegDescribed(seg, virt)
            /\ request.perm = seg.perm
            /\ [virt |-> virt, perm |-> seg.perm] \in mdl
        BY <2>1, <1>0 DEF LoopInv, CallLabels, Req
      <3>2. SegDescribed(seg, virt')
        <4> SUFFICES ASSUME NEW a \in exec + seg.mem_offset .. exec + seg.mem_offset + seg.memsz - 1,
                            a < virt'
                     PROVE  Described(a, seg.perm)
          BY DEF SegDescribed
        <4>1. a \in Nat
          BY <3>1, CallVmmAssumption DEF TypeOK
        <4>2. CASE a < virt
          BY <3>1, <4>2 DEF SegDescribed
        <4>3. CASE virt <= a
          BY <1>0, <1>1, <3>1, <4>1, <4>3, PageCovers
        <4> QED BY <4>1, <4>2, <4>3, <1>1
      <3>3. SegDescribed(seg, virt)'
        BY <3>2, <1>0 DEF SegDescribed, Described
      <3>4. exec' <= virt'
        BY <3>1, <1>0, <1>1 DEF TypeOK
      <3> QED BY <2>1, <1>0, <1>2, <3>1, <3>3, <3>4 DEF LoopInv, In, CallLabels
    <2>2. CASE back = "tls_page"
      <3>1. /\ g_tls <= virt /\ virt <= virt_end
            /\ virt_end = g_tls + TlsSize
            /\ TlsDescribed(virt)
            /\ request.perm = "RW"
            /\ [virt |-> virt, perm |-> "RW"] \in mdl
        BY <2>2, <1>0 DEF LoopInv, CallLabels, Req
      <3>2. TlsDescribed(virt')
        <4> SUFFICES ASSUME NEW a \in g_tls .. g_tls + TlsSize - 1, a < virt'
                     PROVE  Described(a, "RW")
          BY DEF TlsDescribed
        <4>1. a \in Nat
          BY Sizes DEF TypeOK
        <4>2. CASE a < virt
          BY <3>1, <4>2 DEF TlsDescribed
        <4>3. CASE virt <= a
          BY <1>0, <1>1, <3>1, <4>1, <4>3, PageCovers
        <4> QED BY <4>1, <4>2, <4>3, <1>1
      <3>3. TlsDescribed(virt)'
        BY <3>2, <1>0 DEF TlsDescribed, TlsSize, Described
      <3>4. g_tls' <= virt'
        BY <3>1, <1>0, <1>1 DEF TypeOK
      <3>5. virt_end' = (g_tls + TlsSize)'
        BY <3>1, <1>0 DEF TlsSize
      <3> QED BY <2>2, <1>0, <1>2, <3>3, <3>4, <3>5 DEF LoopInv, In, CallLabels
    <2> QED BY <2>1, <2>2
  <1>4. StageInv'
    BY <1>0 DEF StageInv, In, CallLabels, SegDescribed, TlsDescribed, TlsSize, Described
  <1>5. DescribedPagesAllocated'
    BY <1>0 DEF DescribedPagesAllocated, InBlock, EndOf, AllocPages, TlsSize
  <1> QED BY <1>3, <1>4, <1>5 DEF MapInv

\* call_vmm returns, with whatever answer, to whoever called it.
LEMMA ReturnStep ==
  ASSUME CallInv, NEW s \in BOOLEAN, CallReturns(s), pc \in CallLabels,
         s => pc = "preempt" /\ ok
  PROVE  MapInv'
  <1> USE DEF CallInv, memory
  <1>1. CASE Reset
    <2>1. pc' = "idle"
      <3>1. g_stack # 0 /\ g_stack' = 0
        BY <1>1 DEF StageInv, Reset
      <3> QED BY <3>1 DEF CallReturns
    <2> QED BY <1>1, <2>1, Blank
  <1>2. CASE back = "unload" /\ ~s
    <2>1. /\ pc' = "idle" /\ g_vmm_status' = "CORRUPT" /\ g_vmm_status # "UNLOADED"
          /\ UNCHANGED <<spare, segs, g_stack, g_stack_top, g_tls, g_tls_size, exec, mdl>>
      BY <1>2 DEF CallReturns, StageInv, Reset
    <2>2. LoopInv'
      BY <2>1 DEF LoopInv, In, CallLabels
    <2>3. StageInv'
      BY <2>1 DEF StageInv, In, CallLabels, SegDescribed, TlsDescribed, TlsSize, Described
    <2>4. DescribedPagesAllocated'
      BY <2>1 DEF DescribedPagesAllocated, InBlock, EndOf, AllocPages, TlsSize
    <2> QED BY <2>2, <2>3, <2>4 DEF MapInv
  <1>3. CASE s /\ back \in {"page", "tls_page"}
    BY <1>3, PageAdvance
  <1>4. CASE ~Reset /\ (back = "idle" \/ (back = "tls_page" /\ ~s))
    <2>1. pc' = "idle" /\ UNCHANGED <<spare, memory, mdl, segs>>
      BY <1>4 DEF CallReturns
    <2> QED BY <2>1, IdleFrame
  <1>5. CASE s /\ back = "seg"
    <2>1. /\ pc' = "seg"
          /\ UNCHANGED <<spare, memory, mdl, segs>>
      BY <1>5 DEF CallReturns
    <2>2. LoopInv'
      BY <2>1 DEF LoopInv, In, CallLabels
    <2>3. StageInv'
      BY <1>5, <2>1 DEF StageInv, In, CallLabels, SegDescribed, TlsDescribed, TlsSize, Described
    <2>4. DescribedPagesAllocated'
      BY <2>1 DEF DescribedPagesAllocated, InBlock, EndOf, AllocPages, TlsSize
    <2> QED BY <2>2, <2>3, <2>4 DEF MapInv
  <1>6. ~s /\ back \in {"seg", "page"} => Reset
    BY DEF CallReturns
  <1>7. s /\ back = "unload" => Reset
    BY DEF CallReturns
  <1>8. back \in {"idle", "seg", "page", "tls_page", "unload"}
    BY DEF TypeOK
  <1>9. CASE ~Reset
    <2>1. CASE s
      <3>1. CASE back \in {"page", "tls_page"}
        BY <1>3, <2>1, <3>1
      <3>2. CASE back = "idle"
        <4>1. pc' = "idle" /\ UNCHANGED <<spare, memory, mdl, segs>>
          BY <1>9, <3>2 DEF CallReturns
        <4> QED BY <4>1, IdleFrame
      <3>3. CASE back = "seg"
        BY <1>5, <2>1, <3>3
      <3>4. CASE back = "unload"
        BY <1>7, <1>9, <2>1, <3>4
      <3> QED BY <1>8, <3>1, <3>2, <3>3, <3>4
    <2>2. CASE ~s
      BY <1>2, <1>4, <1>6, <1>8, <1>9, <2>2
    <2> QED BY <2>1, <2>2
  <1> QED BY <1>1, <1>9

\* Every step keeps what the page loops and the stages of the load rely on.
LEMMA MapStep ==
  ASSUME CallInv, Next
  PROVE  MapInv'
  <1> USE DEF CallInv, memory, loop, shared, call
  <1>1. CASE SetArgs
    <2>1. CASE CallReturns(FALSE)
      BY <1>1, <2>1, ReturnStep DEF SetArgs, CallLabels
    <2>2. CASE ~CallReturns(FALSE)
      BY <1>1, <2>2, CallFrame DEF SetArgs, CallLabels
    <2> QED BY <2>1, <2>2
  <1>2. CASE GetCpu
    BY <1>2, CallFrame DEF GetCpu, CallLabels
  <1>3. CASE FillContext
    BY <1>3, CallFrame DEF FillContext, CallLabels
  <1>4. CASE Start
    <2>1. /\ pc = "start" /\ pc' = "preempt" /\ g_info = request
          /\ mdl \subseteq mdl'
          /\ UNCHANGED <<spare, memory, loop, request, back>>
      BY <1>4 DEF Start, ControlInv
    <2>2. CASE mdl' = mdl /\ ~(ok' /\ request.op = "ADD_MDL")
      <3>1. LoopInv'
        BY <2>1, <2>2 DEF LoopInv, In, CallLabels, SegDescribed, TlsDescribed, TlsSize, Described, Req
      <3>2. StageInv'
        BY <2>1, <2>2 DEF StageInv, In, CallLabels, SegDescribed, TlsDescribed, TlsSize, Described
      <3>3. DescribedPagesAllocated'
        BY <2>1, <2>2 DEF DescribedPagesAllocated, InBlock, EndOf, AllocPages, TlsSize
      <3> QED BY <3>1, <3>2, <3>3 DEF MapInv
    <2>3. CASE /\ request.op = "ADD_MDL"
               /\ mdl' = mdl \cup {[virt |-> request.virt, perm |-> request.perm]}
      <3>1. back \in {"page", "tls_page"} /\ In(back)
        BY <2>1, <2>3 DEF StageInv, CallLabels, In
      <3>2. /\ virt <= virt_end /\ request.virt = virt
            /\ request = Req("ADD_MDL", virt, IF back = "page" THEN seg.perm ELSE "RW")
        BY <2>1, <3>1 DEF LoopInv, CallLabels, Req
      <3>3. LoopInv'
        <4>1. /\ In("page") => SegDescribed(seg, virt)'
              /\ In("tls_page") => TlsDescribed(virt)'
          BY <2>1 DEF LoopInv, SegDescribed, TlsDescribed, TlsSize, Described
        <4>2. [virt |-> virt, perm |-> request.perm]' \in mdl'
          BY <2>1, <2>3, <3>2
        <4>3. In("tls_page") => virt_end' = (g_tls + TlsSize)'
          BY <2>1 DEF LoopInv, TlsSize
        <4> QED BY <2>1, <3>1, <3>2, <4>1, <4>2, <4>3 DEF LoopInv, In, CallLabels
      <3>4. StageInv'
        <4>1. g_stack # 0 /\ pc \in CallLabels
          BY <2>1 DEF StageInv, CallLabels
        <4> QED BY <2>1, <3>1, <4>1 DEF StageInv, In, CallLabels, SegDescribed, TlsDescribed, TlsSize, Described
      <3>5. DescribedPagesAllocated'
        <4>1. InBlock(virt, exec, ImageSize) \/ InBlock(virt, g_tls, TlsSize)
          <5>1. CASE back = "page"
            <6>1. /\ seg \in Instrs /\ exec <= virt
                  /\ virt_end = RoundDown(exec + seg.mem_offset + seg.memsz, MAX_PAGE_SIZE)
              BY <3>1, <5>1 DEF LoopInv
            <6>2. virt <= exec + ImageSize
              <7>1. /\ exec + seg.mem_offset + seg.memsz \in Nat
                    /\ exec + seg.mem_offset + seg.memsz <= exec + ImageSize
                BY <6>1, CallVmmAssumption DEF TypeOK
              <7>2. virt_end <= exec + seg.mem_offset + seg.memsz /\ virt_end \in Nat
                BY <6>1, <7>1, RoundDownBounds, CallVmmAssumption
              <7> QED BY <3>2, <7>1, <7>2, CallVmmAssumption DEF TypeOK
            <6>3. /\ EndOf(exec, ImageSize) \in Nat
                  /\ exec + ImageSize <= EndOf(exec, ImageSize)
                  /\ spare => exec + ImageSize < EndOf(exec, ImageSize)
              BY BlockEnd, CallVmmAssumption DEF TypeOK
            <6>4. virt \in Nat /\ exec \in Nat /\ ImageSize \in Nat
              BY CallVmmAssumption DEF TypeOK
            <6> QED BY <6>1, <6>2, <6>3, <6>4 DEF InBlock
          <5>2. CASE back = "tls_page"
            <6>1. g_tls <= virt /\ virt <= g_tls + TlsSize
              BY <3>1, <3>2, <5>2 DEF LoopInv
            <6>2. /\ EndOf(g_tls, TlsSize) \in Nat
                  /\ g_tls + TlsSize <= EndOf(g_tls, TlsSize)
                  /\ spare => g_tls + TlsSize < EndOf(g_tls, TlsSize)
              BY BlockEnd, Sizes DEF TypeOK
            <6>3. virt \in Nat /\ g_tls \in Nat /\ TlsSize \in Nat
              BY Sizes DEF TypeOK
            <6> QED BY <6>1, <6>2, <6>3 DEF InBlock
          <5> QED BY <3>1, <5>1, <5>2
        <4>2. \A m \in mdl' : m \in mdl \/ m.virt = virt
          BY <2>3, <3>2
        <4>3. \A v : /\ InBlock(v, exec, ImageSize) => InBlock(v, exec, ImageSize)'
                     /\ InBlock(v, g_tls, TlsSize) => InBlock(v, g_tls, TlsSize)'
          BY <2>1 DEF InBlock, EndOf, AllocPages, TlsSize
        <4> QED BY <4>1, <4>2, <4>3 DEF DescribedPagesAllocated
      <3> QED BY <3>3, <3>4, <3>5 DEF MapInv
    <2> QED BY <1>4, <2>1, <2>2, <2>3 DEF Start
  <1>5. CASE RestorePreemption
    BY <1>5, ReturnStep DEF RestorePreemption, CallLabels, TypeOK
  <1>6. CASE SetupStack
    <2>1. CASE Failure
      BY <2>1, Blank DEF Failure
    <2>2. CASE ~Failure
      <3>1. /\ pc = "stack" /\ pc' = "tls" /\ g_stack' # 0
            /\ UNCHANGED <<spare, g_vmm_status, g_tls, exec, mdl, loop>>
        BY <1>6, <2>2, CallVmmAssumption DEF SetupStack
      <3>2. mdl = {} /\ g_vmm_status = "UNLOADED" /\ segs = {}
        BY <3>1 DEF StageInv
      <3>3. LoopInv'
        BY <3>1 DEF LoopInv, In, CallLabels
      <3>4. StageInv'
        BY <3>1, <3>2 DEF StageInv, In, CallLabels
      <3> QED BY <3>1, <3>2, <3>3, <3>4 DEF MapInv, DescribedPagesAllocated
    <2> QED BY <2>1, <2>2
  <1>7. CASE SetupTls
    <2>1. CASE Failure
      BY <2>1, Blank DEF Failure
    <2>2. CASE ~Failure
      <3>1. /\ pc = "tls" /\ pc' = "elf" /\ g_tls' \in Bases
            /\ UNCHANGED <<spare, g_vmm_status, g_stack, exec, mdl, loop>>
        BY <1>7, <2>2 DEF SetupTls
      <3>2. mdl = {} /\ g_vmm_status = "UNLOADED" /\ segs = {} /\ g_stack # 0
        BY <3>1 DEF StageInv
      <3>3. LoopInv'
        BY <3>1 DEF LoopInv, In, CallLabels
      <3>4. StageInv'
        BY <3>1, <3>2 DEF StageInv, In, CallLabels
      <3> QED BY <3>1, <3>2, <3>3, <3>4 DEF MapInv, DescribedPagesAllocated
    <2> QED BY <2>1, <2>2
  <1>8. CASE LoadElf
    <2>1. CASE Failure
      BY <2>1, Blank DEF Failure
    <2>2. CASE ~Failure
      <3>1. /\ pc = "elf" /\ pc' = "args" /\ back' = "seg" /\ exec' \in Bases
            /\ request'.op # "ADD_MDL"
            /\ UNCHANGED <<spare, g_vmm_status, g_stack, g_tls, mdl, loop>>
        BY <1>8, <2>2 DEF LoadElf, CallVmm, Req
      <3>2. mdl = {} /\ g_vmm_status = "UNLOADED" /\ segs = {} /\ g_stack # 0
        BY <3>1 DEF StageInv
      <3>3. LoopInv'
        BY <3>1 DEF LoopInv, In, CallLabels
      <3>4. StageInv'
        BY <3>1, <3>2 DEF StageInv, In, CallLabels
      <3> QED BY <3>1, <3>2, <3>3, <3>4 DEF MapInv, DescribedPagesAllocated
    <2> QED BY <2>1, <2>2
  <1>9. CASE NextSegment
    <2>a. CASE Failure
      BY <2>a, Blank DEF Failure
    <2> SUFFICES ASSUME ~Failure PROVE MapInv'
      BY <2>a
    <2>0. /\ pc = "seg" /\ pc' \in {"page", "tls_page"}
          /\ UNCHANGED <<spare, memory, segs, mdl>>
      BY <1>9 DEF NextSegment
    <2>1. StageInv'
      BY <2>0 DEF StageInv, In, CallLabels, SegDescribed, TlsDescribed, TlsSize, Described
    <2>2. DescribedPagesAllocated'
      BY <2>0 DEF DescribedPagesAllocated, InBlock, EndOf, AllocPages, TlsSize
    <2>3. /\ exec \in Nat /\ exec % MAX_PAGE_SIZE = 0 /\ g_tls \in Nat /\ g_tls % MAX_PAGE_SIZE = 0
          /\ MAX_PAGE_SIZE \in Nat \ {0}
      BY CallVmmAssumption DEF StageInv, TypeOK
    <2>4. LoopInv'
      <3>1. CASE \E i \in Instrs \ segs :
              /\ seg' = i
              /\ virt' = RoundDown(exec + i.mem_offset, MAX_PAGE_SIZE)
              /\ virt_end' = RoundDown(exec + i.mem_offset + i.memsz, MAX_PAGE_SIZE)
              /\ pc' = "page"
        <4>1. PICK i \in Instrs :
              /\ seg' = i
              /\ virt' = RoundDown(exec + i.mem_offset, MAX_PAGE_SIZE)
              /\ virt_end' = RoundDown(exec + i.mem_offset + i.memsz, MAX_PAGE_SIZE)
              /\ pc' = "page"
          BY <3>1
        <4>2. i.mem_offset \in Nat /\ exec + i.mem_offset \in Nat /\ i.memsz \in Nat
          BY <2>3, CallVmmAssumption
        <4>3. /\ virt' \in Nat /\ virt' % MAX_PAGE_SIZE = 0
              /\ virt' <= exec + i.mem_offset /\ exec + i.mem_offset - MAX_PAGE_SIZE < virt'
          <5> DEFINE a == exec + i.mem_offset
          <5>1. virt' = RoundDown(a, MAX_PAGE_SIZE) /\ a \in Nat
            BY <4>1, <4>2
          <5>a. a = exec + i.mem_offset
            OBVIOUS
          <5> HIDE DEF a
          <5>2. /\ virt' \in Nat /\ virt' % MAX_PAGE_SIZE = 0
                /\ virt' <= a /\ a - MAX_PAGE_SIZE < virt'
            BY <5>1, <2>3, RoundDownBounds
          <5> QED BY <5>1, <5>2, <5>a, <4>2, <2>3
        <4>4. exec <= virt'
          <5> DEFINE v == virt'
                     off == i.mem_offset
          <5>1. /\ v \in Nat /\ v % MAX_PAGE_SIZE = 0 /\ off \in Nat
                /\ exec + off - MAX_PAGE_SIZE < v
            BY <4>2, <4>3
          <5> HIDE DEF v, off
          <5>2. v < exec => v + MAX_PAGE_SIZE <= exec
            BY <5>1, <2>3, PagesApart
          <5>3. exec <= v
            <6>1. exec \in Nat /\ MAX_PAGE_SIZE \in Nat
              BY <2>3
            <6> QED BY <5>1, <5>2, <6>1
          <5> QED BY <5>3 DEF v
        <4>5. SegDescribed(seg, virt)'
          <5> SUFFICES ASSUME NEW a \in exec + i.mem_offset .. exec + i.mem_offset + i.memsz - 1,
                              a < virt'
                       PROVE  FALSE
            BY <4>1, <2>0 DEF SegDescribed
          <5> QED BY <4>2, <4>3, <2>3
        <4> QED BY <4>1, <4>3, <4>4, <4>5, <2>0 DEF LoopInv, In, CallLabels
      <3>2. CASE virt' = g_tls /\ virt_end' = g_tls + TlsSize /\ pc' = "tls_page"
        <4>1. TlsDescribed(virt)'
          <5> SUFFICES ASSUME NEW a \in g_tls .. g_tls + TlsSize - 1, a < g_tls
                       PROVE  FALSE
            BY <3>2, <2>0 DEF TlsDescribed, TlsSize
          <5> QED BY <2>3, Sizes
        <4>2. g_tls' <= virt' /\ virt_end' = (g_tls + TlsSize)' /\ virt' % MAX_PAGE_SIZE = 0
          BY <3>2, <2>0, <2>3 DEF TlsSize
        <4> QED BY <3>2, <4>1, <4>2 DEF LoopInv, In, CallLabels
      <3> QED BY <1>9, <3>1, <3>2 DEF NextSegment
    <2> QED BY <2>1, <2>2, <2>4 DEF MapInv
  <1>10. CASE DescribePage
    <2>0. /\ pc = "page" /\ In("page")
          /\ UNCHANGED <<spare, memory, seg, virt, virt_end, mdl>>
      BY <1>10 DEF DescribePage, In
    <2>1. DescribedPagesAllocated'
      BY <2>0 DEF DescribedPagesAllocated, InBlock, EndOf, AllocPages, TlsSize
    <2>2. CASE virt <= virt_end
      <3>1. /\ pc' = "args" /\ back' = "page" /\ request' = Req("ADD_MDL", virt, seg.perm)
            /\ segs' = segs
        BY <1>10, <2>2 DEF DescribePage, PagesLeft, CallVmm
      <3>2. LoopInv'
        BY <2>0, <2>2, <3>1 DEF LoopInv, In, CallLabels, SegDescribed, Described
      <3>3. StageInv'
        BY <2>0, <3>1 DEF StageInv, In, CallLabels, SegDescribed, TlsDescribed, TlsSize, Described
      <3> QED BY <2>1, <3>2, <3>3 DEF MapInv
    <2>3. CASE ~(virt <= virt_end)
      <3>1. pc' = "seg" /\ segs' = segs \cup {seg}
        BY <1>10, <2>3 DEF DescribePage, PagesLeft
      <3> DEFINE end == exec + seg.mem_offset + seg.memsz
      <3>2. /\ seg \in Instrs /\ virt_end = RoundDown(end, MAX_PAGE_SIZE)
            /\ SegDescribed(seg, virt) /\ virt % MAX_PAGE_SIZE = 0
        BY <2>0 DEF LoopInv
      <3>3. end \in Nat /\ MAX_PAGE_SIZE \in Nat \ {0} /\ virt \in Nat
        BY <3>2, CallVmmAssumption DEF TypeOK
      <3>a. /\ virt_end \in Nat /\ virt_end % MAX_PAGE_SIZE = 0
            /\ end - MAX_PAGE_SIZE < virt_end
        <4> HIDE DEF end
        <4> QED BY <3>2, <3>3, RoundDownBounds
      <3>b. virt_end + MAX_PAGE_SIZE <= virt
        BY <2>3, <3>2, <3>3, <3>a, PagesApart
      <3>c. end <= virt
        <4> HIDE DEF end
        <4> QED BY <3>3, <3>a, <3>b
      <3>4. SegDescribed(seg, exec + seg.mem_offset + seg.memsz)
        <4>1. ASSUME NEW a \in exec + seg.mem_offset .. exec + seg.mem_offset + seg.memsz - 1
              PROVE  Described(a, seg.perm)
          <5>1. exec \in Nat /\ seg.mem_offset \in Nat /\ seg.memsz \in Nat
            BY <3>2, CallVmmAssumption DEF TypeOK
          <5>2. a \in Int /\ a < virt
            BY <3>3, <3>c, <5>1
          <5> QED BY <3>2, <5>2 DEF SegDescribed
        <4> QED BY <4>1 DEF SegDescribed
      <3>5. LoopInv'
        BY <3>1 DEF LoopInv, In, CallLabels
      <3>6. StageInv'
        <4>1. /\ g_stack # 0
              /\ \A i \in segs' : SegDescribed(i, exec + i.mem_offset + i.memsz)
          BY <2>0, <3>1, <3>4 DEF StageInv
        <4>2. \A i \in segs' : SegDescribed(i, exec + i.mem_offset + i.memsz)'
          BY <2>0, <4>1 DEF SegDescribed, Described
        <4> QED BY <2>0, <3>1, <4>1, <4>2 DEF StageInv, In, CallLabels, TlsDescribed, TlsSize, Described
      <3> QED BY <2>1, <3>5, <3>6 DEF MapInv
    <2> QED BY <2>2, <2>3
  <1>11. CASE DescribeTls
    <2>0. /\ pc = "tls_page" /\ In("tls_page")
          /\ UNCHANGED <<spare, g_stack, g_stack_top, g_tls, g_tls_size, exec, segs, seg,
                         virt, virt_end, mdl>>
      BY <1>11 DEF DescribeTls, In
    <2>1. DescribedPagesAllocated'
      BY <2>0 DEF DescribedPagesAllocated, InBlock, EndOf, AllocPages, TlsSize
    <2>2. CASE virt <= virt_end
      <3>1. /\ pc' = "args" /\ back' = "tls_page" /\ request' = Req("ADD_MDL", virt, "RW")
            /\ g_vmm_status' = g_vmm_status
        BY <1>11, <2>2 DEF DescribeTls, PagesLeft, CallVmm
      <3>2. LoopInv'
        BY <2>0, <2>2, <3>1 DEF LoopInv, In, CallLabels, TlsDescribed, TlsSize, Described
      <3>3. StageInv'
        BY <2>0, <3>1 DEF StageInv, In, CallLabels, SegDescribed, TlsDescribed, TlsSize, Described
      <3> QED BY <2>1, <3>2, <3>3 DEF MapInv
    <2>3. CASE ~(virt <= virt_end)
      <3>1. pc' = "idle" /\ g_vmm_status' = "LOADED"
        BY <1>11, <2>3 DEF DescribeTls, PagesLeft
      <3>2. TlsDescribed(g_tls + TlsSize)
        <4>1. /\ virt_end = g_tls + TlsSize /\ TlsDescribed(virt)
              /\ virt \in Nat /\ virt_end \in Nat /\ g_tls \in Nat /\ TlsSize \in Nat
          BY <2>0, Sizes DEF LoopInv, TypeOK
        <4> SUFFICES ASSUME NEW a \in g_tls .. g_tls + TlsSize - 1
                     PROVE  Described(a, "RW")
          BY DEF TlsDescribed
        <4>2. a < virt
          BY <2>3, <4>1
        <4> QED BY <4>1, <4>2 DEF TlsDescribed
      <3>3. LoopInv'
        BY <3>1 DEF LoopInv, In, CallLabels
      <3>4. StageInv'
        <4>1. TlsDescribed(g_tls + TlsSize)'
          BY <3>2, <2>0 DEF TlsDescribed, TlsSize, Described
        <4>2. /\ g_stack # 0
              /\ \A i \in segs : SegDescribed(i, exec + i.mem_offset + i.memsz)'
          BY <2>0 DEF StageInv, SegDescribed, Described
        <4> QED BY <2>0, <3>1, <4>1, <4>2 DEF StageInv, In, CallLabels
      <3> QED BY <2>1, <3>3, <3>4 DEF MapInv
    <2> QED BY <2>2, <2>3
  <1>12. CASE Load
    <2>1. /\ pc' = "stack" /\ segs' = {} /\ mdl' = {} /\ g_vmm_status = "UNLOADED"
          /\ UNCHANGED <<spare, memory>>
      BY <1>12 DEF Load, FreshLocals
    <2>3. LoopInv'
      BY <2>1 DEF LoopInv, In, CallLabels
    <2>4. StageInv'
      BY <2>1 DEF StageInv, In, CallLabels
    <2> QED BY <2>1, <2>3, <2>4 DEF MapInv, DescribedPagesAllocated
  <1>13. CASE Unload
    <2>1. CASE Reset /\ UNCHANGED pc
      BY <1>13, <2>1, Blank DEF Unload
    <2>2. CASE /\ g_vmm_status = "LOADED" /\ CallVmm(Req("FINI", 0, "RW"), "unload")
               /\ UNCHANGED <<memory, mdl, g_info>>
      <3>1. /\ pc' = "args" /\ back' = "unload" /\ request'.op # "ADD_MDL"
            /\ UNCHANGED <<spare, memory, mdl, segs>>
        BY <1>13, <2>2 DEF Unload, CallVmm, Req
      <3> QED BY <2>2, <3>1, IdleFrame
    <2> QED BY <1>13, <2>1, <2>2 DEF Unload
  <1>14. CASE Request
    <2>1. /\ pc' = "args" /\ back' = "idle" /\ request'.op # "ADD_MDL"
          /\ UNCHANGED <<spare, memory, mdl, segs>> /\ g_vmm_status # "UNLOADED"
      BY <1>14 DEF Request, CallVmm, Req
    <2> QED BY <2>1, IdleFrame
  <1>15. CASE Migrate
    <2>0. UNCHANGED <<spare, memory, loop, mdl, request, back, ok, pc>>
      BY <1>15 DEF Migrate
    <2>1. LoopInv'
      BY <2>0 DEF LoopInv, In, SegDescribed, TlsDescribed, TlsSize, Described
    <2>2. StageInv'
      BY <2>0 DEF StageInv, In, SegDescribed, TlsDescribed, TlsSize, Described
    <2>3. DescribedPagesAllocated'
      BY <2>0 DEF DescribedPagesAllocated, InBlock, EndOf, AllocPages, TlsSize
    <2> QED BY <2>1, <2>2, <2>3 DEF MapInv
  <1> QED BY <1>1, <1>2, <1>3, <1>4, <1>5, <1>6, <1>7, <1>8, <1>9, <1>10,
             <1>11, <1>12, <1>13, <1>14, <1>15 DEF Next, Step

\* Before the first call there is no stack, no TLS and no module.
LEMMA CallInvInit ==
  Init => CallInv
  <1> SUFFICES ASSUME Init PROVE CallInv
    OBVIOUS
  <1> USE DEF Init
  <1>1. TypeOK
    <2>1. NoReq \in Requests /\ NoInstr \in [mem_offset : Nat, memsz : Nat, perm : Perms]
      BY DEF NoReq, Req, Requests, NoInstr, Perms
    <2>2. 0 \in Cpu
      BY CallVmmAssumption DEF Cpu
    <2>3. NoContext \in [cpuid : Cpu, tlsptr : Nat]
      BY <2>2 DEF NoContext
    <2> QED BY <2>1, <2>2, <2>3, CallVmmAssumption DEF TypeOK, Labels
  <1>2. ControlInv
    BY DEF ControlInv, StackInBlock, PreemptionRestored
  <1>3. LoopInv
    BY DEF LoopInv, In, CallLabels
  <1>4. StageInv
    BY DEF StageInv, In, CallLabels
  <1>5. DescribedPagesAllocated
    BY DEF DescribedPagesAllocated
  <1> QED BY <1>1, <1>2, <1>3, <1>4, <1>5 DEF CallInv

\* Every step of the caller, and of the scheduler, preserves CallInv.
LEMMA CallInvStep ==
  CallInv /\ [Next]_vars => CallInv'
  <1> SUFFICES ASSUME CallInv, [Next]_vars PROVE CallInv'
    OBVIOUS
  <1>1. CASE Next
    BY <1>1, TypeStep, ControlStep, MapStep DEF CallInv, MapInv
  <1>2. CASE UNCHANGED vars
    <2> USE <1>2 DEF CallInv, vars, memory, loop, shared, call
    <2>1. TypeOK'
      BY DEF TypeOK
    <2>2. ControlInv'
      BY DEF ControlInv, StackInBlock, StackBottom, ContextAddr, PreemptionRestored
    <2>3. LoopInv'
      BY DEF LoopInv, In, SegDescribed, TlsDescribed, TlsSize, Described
    <2>4. StageInv'
      BY DEF StageInv, In, SegDescribed, TlsDescribed, TlsSize, Described
    <2>5. DescribedPagesAllocated'
      BY DEF DescribedPagesAllocated, InBlock, EndOf, AllocPages, TlsSize
    <2> QED BY <2>1, <2>2, <2>3, <2>4, <2>5
  <1> QED BY <1>1, <1>2

\* setup_stack, setup_tls, call_vmm and the page loops of common_load_vmm keep
\* the inductive invariant, in every interleaving with the scheduler.
THEOREM CallInvariant == Spec => []CallInv
  BY CallInvInit, CallInvStep, PTL DEF Spec

\* What CallInv says of a state in which the VMM is entered, and of a VMM that
\* is loaded.
LEMMA CallInvImplies ==
  CallInv => TypeOK /\ StackInBlock /\ ContextOfCpu /\ RequestDelivered
             /\ PreemptionRestored /\ NoPageMissed /\ DescribedPagesAllocated
  <1> SUFFICES ASSUME CallInv
               PROVE  ContextOfCpu /\ RequestDelivered /\ NoPageMissed
    BY DEF CallInv, ControlInv
  <1>1. ContextOfCpu
    <2> SUFFICES ASSUME pc = "start"
                 PROVE  /\ tc.cpuid = cpu
                        /\ tc.tlsptr = g_tls + THREAD_LOCAL_STORAGE_SIZE * cpu
                        /\ cpu < g_tls_size =>
                             tc.tlsptr + THREAD_LOCAL_STORAGE_SIZE <= g_tls + TlsSize
      BY DEF ContextOfCpu
    <2> DEFINE off == THREAD_LOCAL_STORAGE_SIZE * cpu
    <2>1. tc.cpuid = cpu /\ tc.tlsptr = g_tls + off
      BY DEF CallInv, ControlInv
    <2>2. /\ off \in Nat /\ g_tls \in Nat /\ TlsSize \in Nat
          /\ cpu < g_tls_size => off + THREAD_LOCAL_STORAGE_SIZE <= TlsSize
      BY Sizes DEF CallInv, TypeOK
    <2> HIDE DEF off
    <2>3. cpu < g_tls_size => tc.tlsptr + THREAD_LOCAL_STORAGE_SIZE <= g_tls + TlsSize
      BY <2>1, <2>2, CallVmmAssumption
    <2> QED BY <2>1, <2>3 DEF off
  <1>2. RequestDelivered
    BY DEF RequestDelivered, CallInv, ControlInv
  <1>3. NoPageMissed
    <2> SUFFICES ASSUME g_vmm_status # "UNLOADED"
                 PROVE  /\ \A i \in segs :
                             \A a \in exec + i.mem_offset .. exec + i.mem_offset + i.memsz - 1 :
                               Described(a, i.perm)
                        /\ \A a \in g_tls .. g_tls + TlsSize - 1 : Described(a, "RW")
      BY DEF NoPageMissed
    <2>1. ASSUME NEW i \in segs,
                 NEW a \in exec + i.mem_offset .. exec + i.mem_offset + i.memsz - 1
          PROVE  Described(a, i.perm)
      <3>1. SegDescribed(i, exec + i.mem_offset + i.memsz)
        BY DEF CallInv, StageInv
      <3>2. exec \in Nat /\ i.mem_offset \in Nat /\ i.memsz \in Nat
        BY CallVmmAssumption DEF CallInv, TypeOK
      <3>3. a < exec + i.mem_offset + i.memsz
        BY <3>2
      <3> QED BY <3>1, <3>3 DEF SegDescribed
    <2>2. ASSUME NEW a \in g_tls .. g_tls + TlsSize - 1
          PROVE  Described(a, "RW")
      <3>1. TlsDescribed(g_tls + TlsSize)
        BY DEF CallInv, StageInv
      <3>2. a < g_tls + TlsSize
        BY Sizes DEF CallInv, TypeOK
      <3> QED BY <3>1, <3>2 DEF TlsDescribed
    <2> QED BY <2>1, <2>2
  <1> QED BY <1>1, <1>2, <1>3

\* Wherever the allocator puts a block of twice STACK_SIZE, setup_stack finds
\* an aligned stack with its thread context inside it.
THEOREM StackAlwaysInBlock == Spec => []StackInBlock
  BY CallInvariant, CallInvImplies, PTL

\* The VMM is never entered with the thread context of another CPU, however
\* the scheduler moves the caller between its call_vmm steps.
THEOREM ContextAlwaysOfCpu == Spec => []ContextOfCpu
  BY CallInvariant, CallInvImplies, PTL

\* With one caller, the VMM never reads a request of an earlier call.
THEOREM RequestAlwaysDelivered == Spec => []RequestDelivered
  BY CallInvariant, CallInvImplies, PTL

\* Every path through call_vmm restores preemption as often as it disabled it.
THEOREM PreemptionAlwaysRestored == Spec => []PreemptionRestored
  BY CallInvariant, CallInvImplies, PTL

\* The page loops of common_load_vmm miss no page, whatever the alignment of a
\* load instruction and the size of a page.
THEOREM NoPageEverMissed == Spec => []NoPageMissed
  BY CallInvariant, CallInvImplies, PTL

\* ... and describe no page beyond the one that follows a block.
THEOREM DescribedAlwaysAllocated == Spec => []DescribedPagesAllocated
  BY CallInvariant, CallInvImplies, PTL

-----------------------------------------------------------------------------
(* Calls end. *)

\* The parts of WorkLeft that can be the first to become smaller.
LEMMA LessWork ==
  ASSUME \/ 0 <= Phase' /\ Phase' < Phase
         \/ /\ Phase' = Phase
            /\ 0 <= Cardinality(SegsLeft)' /\ Cardinality(SegsLeft)' < Cardinality(SegsLeft)
         \/ /\ Phase' = Phase /\ SegsLeft' = SegsLeft
            /\ \/ 0 <= Begun' /\ Begun' < Begun
               \/ /\ Begun' = Begun
                  /\ \/ 0 <= BytesLeft' /\ BytesLeft' < BytesLeft
                     \/ /\ BytesLeft' = BytesLeft
                        /\ 0 <= LabelRank[pc'] /\ LabelRank[pc'] < LabelRank[pc]
  PROVE  Shorter
  <1> DEFINE Less(k) == /\ 0 <= WorkLeft'[k] /\ WorkLeft'[k] < WorkLeft[k]
                        /\ \A j \in 1 .. k - 1 : WorkLeft'[j] = WorkLeft[j]
  <1>1. CASE 0 <= Phase' /\ Phase' < Phase
    <2>1. Less(1)
      BY <1>1 DEF WorkLeft
    <2> QED BY <2>1 DEF Shorter
  <1>2. CASE /\ Phase' = Phase
             /\ 0 <= Cardinality(SegsLeft)' /\ Cardinality(SegsLeft)' < Cardinality(SegsLeft)
    <2>1. Less(2)
      BY <1>2 DEF WorkLeft
    <2> QED BY <2>1 DEF Shorter
  <1>3. CASE Phase' = Phase /\ SegsLeft' = SegsLeft /\ 0 <= Begun' /\ Begun' < Begun
    <2>1. Less(3)
      BY <1>3 DEF WorkLeft
    <2> QED BY <2>1 DEF Shorter
  <1>4. CASE /\ Phase' = Phase /\ SegsLeft' = SegsLeft /\ Begun' = Begun
             /\ 0 <= BytesLeft' /\ BytesLeft' < BytesLeft
    <2>1. Less(4)
      BY <1>4 DEF WorkLeft
    <2> QED BY <2>1 DEF Shorter
  <1>5. CASE /\ Phase' = Phase /\ SegsLeft' = SegsLeft /\ Begun' = Begun
             /\ BytesLeft' = BytesLeft
             /\ 0 <= LabelRank[pc'] /\ LabelRank[pc'] < LabelRank[pc]
    <2>1. Less(5)
      BY <1>5 DEF WorkLeft
    <2> QED BY <2>1 DEF Shorter
  <1> QED BY <1>1, <1>2, <1>3, <1>4, <1>5

\* Inside call_vmm, and back from it to where it was called, only the label
\* changes and, in the page loops, the page.
LEMMA SameWork ==
  ASSUME \A l \in {"seg", "page", "tls_page"} : In(l)' <=> In(l), UNCHANGED <<segs, seg>>,
         pc \notin {"stack", "tls", "elf"}, pc' \notin {"stack", "tls", "elf"}
  PROVE  /\ Phase' = Phase /\ SegsLeft' = SegsLeft /\ Begun' = Begun
         /\ UNCHANGED <<virt, virt_end>> => BytesLeft' = BytesLeft
  BY DEF Phase, SegsLeft, Begun, BytesLeft, PagesLeft

\* A step of call_vmm.
LEMMA CallShorter ==
  ASSUME CallInv, SetArgs \/ GetCpu \/ FillContext \/ Start \/ RestorePreemption, pc' # "idle"
  PROVE  Shorter
  <1>t. /\ TypeOK /\ LoopInv /\ MAX_PAGE_SIZE \in Nat \ {0}
        /\ virt \in Nat /\ virt_end \in Nat
    BY CallVmmAssumption DEF CallInv, TypeOK
  <1> USE DEF loop, call, CallReturns
  <1>1. CASE SetArgs \/ GetCpu \/ FillContext \/ Start
    <2>1. /\ pc \in CallLabels /\ pc' \in CallLabels
          /\ UNCHANGED <<segs, seg, virt, virt_end, back>>
          /\ 0 <= LabelRank[pc'] /\ LabelRank[pc'] < LabelRank[pc]
      <3>1. CASE SetArgs
        <4>1. pc = "args" /\ pc' = "cpuid" /\ UNCHANGED <<segs, seg, virt, virt_end, back>>
          BY <3>1 DEF SetArgs
        <4> QED BY <4>1 DEF CallLabels, LabelRank
      <3>2. CASE GetCpu
        BY <3>2 DEF GetCpu, CallLabels, LabelRank
      <3>3. CASE FillContext
        BY <3>3 DEF FillContext, CallLabels, LabelRank
      <3>4. CASE Start
        BY <3>4 DEF Start, CallLabels, LabelRank
      <3> QED BY <1>1, <3>1, <3>2, <3>3, <3>4
    <2>2. \A l \in {"seg", "page", "tls_page"} : In(l)' <=> In(l)
      BY <2>1 DEF In, CallLabels
    <2> QED BY <2>1, <2>2, SameWork, LessWork DEF CallLabels
  <1>2. CASE RestorePreemption
    <2>1. /\ pc = "preempt" /\ pc' = back /\ ok /\ back \in {"seg", "page", "tls_page"}
          /\ UNCHANGED <<segs, seg, virt_end, back>> /\ virt' = NextPage(TRUE)
      BY <1>2, <1>t DEF RestorePreemption, TypeOK
    <2>2. \A l \in {"seg", "page", "tls_page"} : In(l)' <=> In(l)
      BY <2>1 DEF In, CallLabels
    <2>3. Phase' = Phase /\ SegsLeft' = SegsLeft /\ Begun' = Begun
      BY <2>1, <2>2, SameWork
    <2>4. CASE back = "seg"
      <3>1. BytesLeft' = 0 /\ BytesLeft = 0
        BY <2>1, <2>4 DEF BytesLeft, In, CallLabels
      <3> QED BY <2>1, <2>3, <2>4, <3>1, LessWork DEF LabelRank
    <2>5. CASE back \in {"page", "tls_page"}
      <3>1. virt' = virt + MAX_PAGE_SIZE /\ virt <= virt_end
        BY <1>t, <2>1, <2>5 DEF NextPage, LoopInv, CallLabels
      <3>2. /\ In("page") \/ In("tls_page")
            /\ In("page")' \/ In("tls_page")'
        BY <2>1, <2>5 DEF In, CallLabels
      <3>3. 0 <= BytesLeft' /\ BytesLeft' < BytesLeft
        <4>1. BytesLeft = virt_end - virt + 1
          BY <3>1, <3>2 DEF BytesLeft, PagesLeft
        <4>2. BytesLeft' = IF virt' <= virt_end' THEN virt_end' - virt' + 1 ELSE 0
          BY <3>2 DEF BytesLeft, PagesLeft
        <4>3. virt_end' = virt_end
          BY <2>1
        <4> QED BY <1>t, <3>1, <4>1, <4>2, <4>3
      <3> QED BY <2>3, <3>3, LessWork
    <2> QED BY <2>1, <2>4, <2>5
  <1> QED BY <1>1, <1>2

\* A step of common_load_vmm.
LEMMA LoadShorter ==
  ASSUME CallInv, pc' # "idle",
         SetupStack \/ SetupTls \/ LoadElf \/ NextSegment \/ DescribePage \/ DescribeTls
  PROVE  Shorter
  <1> USE DEF loop, call, CallVmm, Failure
  <1>1. CASE SetupStack \/ SetupTls \/ LoadElf
    <2>1. /\ UNCHANGED segs
          /\ \/ pc = "stack" /\ pc' = "tls"
             \/ pc = "tls" /\ pc' = "elf"
             \/ pc = "elf" /\ pc' = "args" /\ back' = "seg"
      BY <1>1 DEF SetupStack, SetupTls, LoadElf
    <2>2. /\ Phase' = Phase /\ SegsLeft' = SegsLeft /\ Begun' = Begun /\ BytesLeft' = BytesLeft
      BY <2>1 DEF Phase, SegsLeft, Begun, BytesLeft, In, CallLabels
    <2>3. 0 <= LabelRank[pc'] /\ LabelRank[pc'] < LabelRank[pc]
      BY <2>1 DEF LabelRank
    <2> QED BY <2>2, <2>3, LessWork
  <1>2. CASE NextSegment
    <2>1. CASE pc' = "tls_page" /\ pc = "seg"
      <3>1. 0 <= Phase' /\ Phase' < Phase
        BY <2>1 DEF Phase, In, CallLabels
      <3> QED BY <3>1, LessWork
    <2>2. CASE pc = "seg" /\ pc' = "page" /\ UNCHANGED segs /\ seg' \in Instrs \ segs
      <3>1. Phase' = Phase /\ SegsLeft = Instrs \ segs /\ SegsLeft' = SegsLeft \ {seg'}
        BY <2>2 DEF Phase, SegsLeft, In, CallLabels
      <3>2. IsFiniteSet(SegsLeft)
        BY <3>1, CallVmmAssumption, FS_Difference
      <3>3. Cardinality(SegsLeft) \in Nat /\ Cardinality(SegsLeft \ {seg'}) \in Nat
        BY <3>2, FS_CardinalityType, FS_RemoveElement
      <3>4. Cardinality(SegsLeft \ {seg'}) = Cardinality(SegsLeft) - 1
        BY <2>2, <3>1, <3>2, FS_RemoveElement
      <3>5. 0 <= Cardinality(SegsLeft)' /\ Cardinality(SegsLeft)' < Cardinality(SegsLeft)
        BY <3>1, <3>3, <3>4
      <3> QED BY <3>1, <3>5, LessWork
    <2> QED BY <1>2, <2>1, <2>2 DEF NextSegment
  <1>3. CASE DescribePage
    <2>1. UNCHANGED <<seg, virt, virt_end>> /\ pc = "page"
      BY <1>3 DEF DescribePage
    <2>2. CASE pc' = "args" /\ back' = "page" /\ UNCHANGED segs
      <3>1. \A l \in {"seg", "page", "tls_page"} : In(l)' <=> In(l)
        BY <2>1, <2>2 DEF In, CallLabels
      <3>2. 0 <= LabelRank[pc'] /\ LabelRank[pc'] < LabelRank[pc]
        BY <2>1, <2>2 DEF LabelRank
      <3> QED BY <2>1, <2>2, <3>1, <3>2, SameWork, LessWork
    <2>3. CASE pc' = "seg" /\ segs' = segs \cup {seg}
      <3>1. Phase' = Phase /\ SegsLeft' = SegsLeft /\ Begun' = 0 /\ Begun = 1
        BY <2>1, <2>3 DEF Phase, SegsLeft, Begun, In, CallLabels
      <3> QED BY <3>1, LessWork
    <2> QED BY <1>3, <2>2, <2>3 DEF DescribePage
  <1>4. CASE DescribeTls
    <2>1. /\ UNCHANGED <<segs, seg, virt, virt_end>> /\ pc = "tls_page"
          /\ pc' = "args" /\ back' = "tls_page"
      BY <1>4 DEF DescribeTls
    <2>2. \A l \in {"seg", "page", "tls_page"} : In(l)' <=> In(l)
      BY <2>1 DEF In, CallLabels
    <2>3. 0 <= LabelRank[pc'] /\ LabelRank[pc'] < LabelRank[pc]
      BY <2>1 DEF LabelRank
    <2> QED BY <2>1, <2>2, <2>3, SameWork, LessWork
  <1> QED BY <1>1, <1>2, <1>3, <1>4

\* Every call into the driver gets to its end, for any number of load
\* instructions, pages and CPUs and any addresses.
THEOREM LoadAlwaysEnds == Spec => LoadGetsShorter
  <1>1. CallInv /\ [Next]_vars => [pc # "idle" /\ cpu' = cpu => pc' = "idle" \/ Shorter]_vars
    <2> SUFFICES ASSUME CallInv, Next, pc # "idle", cpu' = cpu, pc' # "idle", vars' # vars
                 PROVE  Shorter
      OBVIOUS
    <2>1. CASE Step
      BY <2>1, CallShorter, LoadShorter DEF Step
    <2>2. CASE Load \/ Unload \/ Request
      BY <2>2 DEF Load, Unload, Request
    <2>3. CASE Migrate
      BY <2>3 DEF Migrate, vars
    <2> QED BY <2>1, <2>2, <2>3 DEF Next
  <1> QED BY <1>1, CallInvariant, PTL DEF Spec, LoadGetsShorter

=============================================================================
