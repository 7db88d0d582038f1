# bfdriver: TLA+ models and proofs

bfdriver is the driver entry of the Bareflank hypervisor: a kernel driver (or a
UEFI application) that takes the ELF modules of a VMM from user space, loads
them into kernel memory, and starts and stops the VMM on every CPU. All the
logic that the host operating systems share is in `src/common.c`; each host adds
an entry layer (how requests come in) and a platform layer (memory, affinity).

This directory models the shared core, the inside of a call into the VMM, and the
Linux, Windows and UEFI entry layers. It checks them with TLC on small instances and
proves with TLAPS the main invariants of the core and of the three entry
layers, for any number of CPUs, threads, modules and memory blocks, and any
sizes and addresses.

## Inventory

| Component | Source | State | Operations |
|---|---|---|---|
| Driver entry | `src/common.c`, `include/common.h` | `g_vmm_status`, `g_modules`, `g_num_modules`, `g_stack`, `g_tls`, `g_tls_size`, `_start`, `g_num_cpus_started`, `g_info` | `common_init`, `common_fini`, `common_add_module`, `common_load_vmm`, `common_unload_vmm`, `common_start_vmm`, `common_stop_vmm`, `common_dump_vmm`, `common_vmm_status` |
| Linux entry | `src/arch/linux/entry.c` | `g_module_length`, `pmodules`, `g_num_pmodules`, `g_vcpuid` | nine ioctls, `dev_init`, `dev_exit`, `dev_reboot` |
| Linux platform | `src/arch/linux/platform.c` | the kernel's heap, the caller's affinity | allocation, affinity, preemption, `platform_virt_to_phys` |
| Windows entry | `src/arch/windows/driver.c`, `device.c`, `queue.c` | as on Linux, plus WDF requests | a parallel I/O queue, `EvtIoStop`, `EvtDeviceD0Exit` |
| Windows platform | `src/arch/windows/platform.c` | pool memory, affinity masks | as on Linux |
| UEFI entry | `src/arch/uefi/Driver.c`, `Modules.h`, `FileAccess.c`, `PrepareProcessor.c`, `Util.c` | modules linked in, each CPU's GDT and TSS | `UefiMain`: prepare each CPU, add, load, start, then boot |
| UEFI platform | `src/arch/uefi/Platform.c` | boot-services memory | `platform_set_affinity` switches the boot processor |
| Test platform | `src/arch/test/platform.c`, `test/` | mock affinity, allocation | unit tests of `common.c` |
| ELF loader, VMM | not in this repository | executable memory, per-CPU VMM | `bfelf_load`, the VMM's entry point `_start`, `vmcall` |

### How they interact

bfm, the user-space tool, sends one ioctl after the other. The entry layer copies
the caller's data, calls one `common_*` function, and reacts to its error code:
on Linux a failed load is followed by an unload, a failed start by a stop. A
reboot notifier and the driver's exit routine call `common_fini` on their own
initiative. `common.c` calls down: the platform for memory and for moving the
calling thread from CPU to CPU, the ELF loader, and the VMM itself, through its
entry point on the shared stack (`call_vmm`) or with a `vmcall` instruction on
the current CPU.

### What is hard

* **Partial failure.** Every call down may fail, and `common_load_vmm`,
  `common_start_vmm` and `common_stop_vmm` each make several. What is cleaned up
  depends on which one failed; three of the error paths clean up nothing.
* **No locks.** Everything is global and nothing excludes a second request: the
  Linux device uses `unlocked_ioctl`, the Windows queue is
  `WdfIoQueueDispatchParallel`, and the reboot notifier and `D0Exit` come from
  other threads.
* **Retries after half a failure.** A refused `VMCALL_STOP` leaves the VMM
  running on some CPUs; the caller will call stop, start, unload or fini next.
* **The number of CPUs is asked again** in each round of the start loop and when
  the TLS is sized.
* **Boundaries.** A zero CPU count, a zero length, a full module array, inclusive
  page loops (`<=`), a stack top computed by masking.

The `hazards` of `PROJECT.json` list each of them at its line, with the
properties that would notice it, or the reason there is none yet.

### What makes each part correct

* Driver entry: no dangling or shared pointer whatever failed
  (`PointersLive`); a loaded VMM is complete (`VmmComplete`);
  `g_num_cpus_started` tells the truth about the CPUs (`CpuAccounting`); a vmcall
  goes to a CPU that has a VMM (`VmcallHasVmm`); memory is freed only when no CPU
  runs in it (`FreedOnlyWhenDown`); a corrupt driver stays as it is, and only
  `common_dump_vmm` still calls into the VMM (`CorruptIsFinal`); a call's error code says what has become of the VMM
  (`ResultsTrue`); every call returns (`CallsGetShorter`, `EveryCallReturns`).
* Linux entry: every block is accounted for between ioctls (`HeapAccounted`); the
  ELF loader reads live files (`LoadReadsLiveFiles`); a failed start is rolled
  back (`FailedStartRolledBack`); every ioctl ends (`IoctlsGetShorter`).
* Windows entry: each request is completed, once (`CompletedOnce`,
  `RequestsComplete`, `CallbacksGetShorter`); no block is lost across sleeps (`FilesAccounted`); a
  sleeping device has nothing loaded (`SleepsUnloaded`).
* UEFI entry: the operating system runs above the VMM or not at all
  (`OsOnlyAboveVmm`, with the two exceptions the code has: a CPU count of 0 and a
  VMM whose error is positive); the first CPU has a task register when the VMM starts there
  (`FirstCpuHasTask`) and no CPU runs on a table that was given back
  (`TablesSound`), although each change of CPU exchanges the tables; the
  application never hangs (`BootGetsShorter`, `BootProceeds`).
* A call into the VMM: the stack lies inside its block (`StackInBlock`); the VMM
  gets this call's request (`RequestDelivered`) and the context of the CPU it runs
  on, with a TLS slot if that CPU was counted (`ContextOfCpu`); preemption is restored on each path (`PreemptionRestored`).
* Page loops: every page of a module and of the TLS is described to the memory
  manager (`NoPageMissed`), and none that was not allocated
  (`DescribedPagesAllocated`); they end (`LoadGetsShorter`, `LoadEnds`).

## Modules

| Module | What it is |
|---|---|
| `VmmLifecycle` | What the driver promises: the status and the CPUs that are up. |
| `Common` | `common.c`, one action per call that it makes to the outside. |
| `CommonProofs` | The theorems about the control of `Common` and their proofs. |
| `CommonMemoryProofs` | The theorems about its memory. |
| `CommonCallProofs` | The theorems about a whole call of its API: that it ends, and what its result means; and what of all this holds above any entry layer. |
| `CallVmm` | `call_vmm`, `setup_stack`, `setup_tls` and the page loops, at the level of addresses. |
| `CallVmmProofs` | The theorems about `CallVmm`. |
| `Linux` | `entry.c`, composed with `Common` by EXTENDS. |
| `LinuxProofs` | The theorems about `Linux`. |
| `Windows` | `driver.c`, `device.c` and `queue.c`, composed with `Common` likewise. |
| `WindowsProofs` | The theorems about `Windows`. |
| `Uefi` | `UefiMain`, `PrepareProcessor` and the firmware's change of processor, composed with `Common` likewise. |
| `UefiProofs` | The theorems about `Uefi`. |
| `MCCommon`, `MCCallVmm`, `MCLinux`, `MCWindows`, `MCUefi` | Instances for TLC: symmetry, CPU-count sets, load instructions. |

### Common

The globals keep their names. `g_modules` is split into `mod_file` and `mod_exec`;
`start_sym` says whether `_start` is set; `g_tls_size` counts slots of
`THREAD_LOCAL_STORAGE_SIZE`. The outside world is what the properties need of it:
`heap` (blocks handed out), `vmm_inited` (the VMM answered `BF_REQUEST_INIT`),
`mapped` (blocks fully described to the VMM's memory manager) and `vcpu` (how far
each CPU's VMM instance is).

A thread in the driver has a frame: the API function it called (`op`), its
argument, its position (`pc`), the loop counter (`cpuid`), the error code it will
return (`ret`) and its CPU affinity. A step runs from one call to the platform, the
loader or the VMM to the next; each such call may succeed or fail. The two
functions that call others (`common_load_vmm` and `common_start_vmm` on failure,
`common_fini` always) go through the same labels as a direct call, and `op` says
where they come back to, as a return address would.

| Actions | Code |
|---|---|
| `AddEnter`, `AddStore` | the checks of `common_add_module`; its store and increment |
| `LoadEnter` ... `LoadMapTls` | `common_load_vmm` with `setup_stack`, `setup_tls`, `bfelf_load`, `BF_REQUEST_INIT`, one module or the TLS described per step |
| `UnloadEnter`, `UnloadFini`, `UnloadReset` | `common_unload_vmm` with `common_reset` |
| `StartEnter`, `StartLoop`, `StartInit`, `StartVmcall` | `common_start_vmm` |
| `StopEnter`, `StopLoop`, `StopVmcall`, `StopFini` | `common_stop_vmm` |
| `FiniEnter`, `FiniLoaded`, `FiniCheck` | `common_fini` |
| `DumpEnter`, `DumpCall` | `common_dump_vmm` |

Abstractions: a block stands for an allocation of any size; the pages of a module
are described in one step (a failure after some of them counts as none, and no
action depends on it); the VMM's answers are free, except that without `_start`
there is no success (an error of the VMM is negative or positive, `VMM_ERROR` or
`VMM_POSITIVE`: `common.c` passes it on as it is and itself tests only for
`BF_SUCCESS`, but UEFI's entry layer looks at the sign); `common_reset` is one step; a thread that enters the driver
may run on any CPU, whatever an earlier call did to its affinity.

`platform_set_affinity` returns where the thread was, and on Windows
`platform_restore_affinity` takes it back there; on Linux that function ignores
its argument and the thread stays where it is; in UEFI the switch back may fail.
`RestoreOutcomes` selects. `AllocatesZero` selects what an allocation of no bytes
gives: NULL in the kernels, a page in UEFI.

`Spec` lets any idle thread call any function at any time. `SerialSpec` admits a
call only when no other is in progress: the way bfm uses the driver, and the only
use the code can support, as the two race findings show.

### Linux

`Linux` adds the device's own state and a second program counter, `lpc`, which
says what an ioctl will do when the `common_*` function it called returns. Blocks
serve as module files, so that one heap holds the VMM's memory and the copies of
the files, and a file freed too early shows. Ioctls that refuse at once
change nothing and are left to stuttering. `LinuxSpec` is the code as it is
(`unlocked_ioctl`), `LinuxSerialSpec` one request at a time.

### Windows

`Windows` has the same shape as `Linux`, with the request that a thread was given
(`req`) and the power state of the device (`power`) as further state. Requests that
change nothing the model knows are one action, `Answered`. What the framework does
is taken from how the callbacks are registered: a default queue is power-managed,
so on the way out of D0 it stops, `EvtIoStop` is called for each request that is
still pending, and `EvtDeviceD0Exit` once none is. `WindowsSpec` has one client
and power events at any moment; `WindowsSerialSpec` keeps power events out while
a request is being served. Two clients at once, which the parallel queue allows,
are left to the race runs of `Common` and `Linux`, whose code is the same.

`src/arch/windows` does not define `platform_get_current_cpu_num` and
`platform_restore_preemption`, which `common.c` calls; the model derives the
current CPU from the affinity, as the other platforms do.

### CallVmm

`Common` takes one call into the VMM for a step. `CallVmm` opens it: addresses
are numbers, the constants of the code (`STACK_SIZE`, `MAX_PAGE_SIZE`,
`THREAD_LOCAL_STORAGE_SIZE`) are parameters, masking is rounding, and one caller goes
through `common_load_vmm` and `call_vmm` line by line while the scheduler may move it to
another CPU whenever preemption is enabled. Of the VMM it keeps what its memory
manager was told (`mdl`); the request travels through `g_info`, as in the code,
so a call that enters the VMM with an old argument block shows.

A load may fail at every call it makes, and be retried. After a failure in the TLS
loop, which skips the clean-up, the retry finds the pointers of the first attempt and
overwrites them; of the blocks behind them the model keeps nothing, so their
addresses may be handed out again. No property can tell, because the VMM those blocks
belong to is never called again; that they are lost is shown on `Common`
(`common_leak`). Each load asks anew for the number of CPUs (`CpuCounts`), sizes
the TLS by it (`g_tls_size`, in slots) and keeps it while CPUs come and go. A count of 0
makes an allocation of no bytes: a page in UEFI, NULL in the kernels. Of the two
memory areas that are zeroed the model has the thread context on the stack.

| Actions | Code |
|---|---|
| `Load`, `SetupStack`, `SetupTls`, `LoadElf` | `common_load_vmm` up to `BF_REQUEST_INIT` |
| `NextSegment`, `DescribePage`, `DescribeTls` | `add_md_to_memory_manager`, `add_raw_md_to_memory_manager` and the TLS loop, one page per step |
| `SetArgs`, `GetCpu`, `FillContext`, `Start`, `RestorePreemption` | `call_vmm` |
| `Unload`, `Request` | the other callers of `call_vmm` |
| `Migrate` | the scheduler |

`AllocPages` has the two kinds of allocator: the UEFI one always takes a page more
than fits (`len / EFI_PAGE_SIZE + 1`), the others round up. The difference decides
what the inclusive bound of the page loops does: with the spare page every page
described is the VMM's, without it the page right behind a page-aligned block is
described as well.

### Uefi

One thread, the application, drives `Common` from start to end. `stage` is its line
in `UefiMain`; each firmware call may fail, whether the code looks at the result or
not. Of a CPU the model keeps the two registers `PrepareProcessor` writes,
`gdtr` and `tr`. What `SwitchBSP` does to them is not in this repository: that it
exchanges the descriptor tables of the two processors and resets TR is taken from
the two findings in `src/arch/uefi/README.md`. `Common`'s own changes of
affinity (in start and stop) switch them too: `CommonStep` conjoins the two.
`ignored` and `miscounted` are history variables, for the two failures the code
does not look at and that no property survives: a failed last
`PrepareProcessor` or return to CPU 0, and a CPU count of 0.

The application tests `ret < 0` (`Negative`), `common.c` tests for `BF_SUCCESS`. The two
agree on the codes of `common.c` and of the ELF loader, which are negative, but the VMM's
answers come through unchanged (`common.c:467`), although `include/common.h` promises
negative codes. A VMM that answers a start with a positive error therefore lets
`UefiMain` boot the operating system without it. The model has that path, and
`OsOnlyAboveVmm` excepts it by name; the same answer to the load is harmless, because the
start that follows refuses.

### VmmLifecycle

Two variables: `status` and the set `up` of CPUs that acknowledged `VMCALL_START`
and not yet `VMCALL_STOP`. CPUs come up in ascending and go down in descending
order, only a VMM with no CPU up is unloaded, and a corrupt one stays as it is.
`Common`, `Linux`, `Windows` and `Uefi` are all proved to implement it, with
`status <- g_vmm_status` and `up <- {c \in Cpu : vcpu[c] = "on"}`; the runs of
`Common` and `Uefi` check it too.

### How long a call takes

`Common`'s `StepsLeft(t)` bounds the steps that the call of thread `t` still takes: a
rank of its label, three steps for each CPU left in the loops of start and stop, one
for each module left in the loop of load. `CallsGetShorter` says that every
step lowers it and that it is never negative. A load takes at most
`10 + MAX_NUM_MODULES` steps, a start, with the stop that rolls it back,
`9 + 6 * NumCpus`, a fini `8 + 3 * g_num_cpus_started`. On top of it
`IoctlStepsLeft`, `CallbackStepsLeft` and `BootStepsLeft` count what the entry layers
do between and after their calls, and `CallVmm`'s `Shorter` orders the positions of a
load lexicographically: its phase, load instructions not begun, bytes not described,
then the place in the code.

### What a result means

`Outcome(o, r)` is what `common_<o>` has brought about when it returns `r`, for all
the paths of the code at once; `ResultsTrue` asserts it in the step that returns. Two
of its clauses are weaker than their names suggest, because the code is. A start
that finds the status RUNNING returns SUCCESS, although after a refused stop only some
CPUs may run the VMM; only a start that went through its loop to the end has it on every
CPU. And `common_fini` returns SUCCESS when it could not stop the VMM, as long as the
status is not CORRUPT.

## Runs

| Run | Shows |
|---|---|
| `common_serial` | Serial use, three CPUs, two modules, five blocks, affinity restored: all safety properties of `Common`, the meaning of its error codes and the refinement of `VmmLifecycle`. |
| `common_hotplug` | The CPU count changes between any two questions and the thread stays pinned, as on Linux: every step brings a call nearer to its end, and every call returns, whichever of its calls fail. That the CPU accounting and the pointers survive too is proved, for any CPU counts; `TlsInBounds` does not hold there, because a CPU that appears after `setup_tls` has no slot. |
| `common_leak` (violation) | A failure to describe the TLS leaks the stack, the TLS and the modules. |
| `common_unload_under_cpu` (violation) | After a refused `VMCALL_START` on CPU 0 the VMM is unloaded although that CPU's VMM was initialised and never finalised. |
| `common_add_race` (violation) | Two threads overrun `g_modules`. |
| `callvmm` | One caller, two CPUs, migration at any moment, loads that fail and are retried with other CPU counts, both kinds of allocator: the stack, the thread context, the argument block, preemption and the page loops, which end. |
| `linux_serial` | The ioctl layer with two CPUs, two modules, six blocks: the safety properties of `Linux`, and that every ioctl ends within its bound. |
| `linux_files_freed` (violation) | A refused unload frees the files of a running VMM. |
| `linux_unload_race` (violation) | The file of a module is freed while another ioctl loads it. |
| `windows_serial` | One Windows client with sleeps and resumes between its requests: the safety properties of `Windows`, and that every request is completed within its bound and every power transition ends. |
| `windows_power_race` (violation) | A sleep during a start: `EvtIoStop` completes the request, `D0Exit` unloads the VMM, the handler then issues `VMCALL_START`. |
| `uefi_boot` | The UEFI application on three CPUs, every firmware call free to fail and a VMM that answers as it likes: the operating system is booted above a VMM on every CPU or not at all, unless the CPUs were counted as 0 or the VMM's error was positive, the descriptor tables stay sound, the application as a whole refines `VmmLifecycle`, and it gets from keystroke to keystroke within its bound. |

### Bounds

* Three CPUs: the first, the last and one in between behave differently in the
  start and stop loops. Linux and Windows need two: the core's loops are covered above.
* Two modules in `common_serial` and `linux_serial`: the array can be empty, partly
  filled and full. One in `common_hotplug` and `windows_serial`, which add what
  does not depend on it: the CPU count, sleeps, liveness.
* Five blocks hold a complete VMM (stack, TLS, two modules) and one more, so both
  a second allocation after a leak and exhaustion happen. Six on Linux hold a VMM
  of two modules and both files, exactly; three in `common_hotplug` and four in
  `windows_serial` do the same for one module.
* One thread under the serial specifications, because nothing of a thread but its
  affinity outlives a call, and each call starts on any CPU; the theorems hold
  for any number. Two threads in the race runs.
* `callvmm`: pages of 2, a stack of 4, TLS slots of 2 for 0, 1 or 2 CPUs, an image of 6
  and the addresses 4, 12, 20 and 30: the last is not aligned to the stack, blocks at
  the others touch or lie apart, and a retried load finds room for its three blocks
  beside those of the first attempt that it has not yet replaced. The three load instructions begin and
  end inside a page and on its boundary; a module may have any of them.
* `uefi_boot`: three CPUs, so that the tables of a third are exchanged by
  switches between the two others; eight tables, so that memory is just enough for each
  preparation or runs out; one module slot and one or two built-in modules, so
  that an add fails; a firmware GDT shorter and longer than the TSS entry's offset.
* Symmetry permutes blocks, which the model only compares; the runs with
  liveness properties do not use it.
* Linux, Windows and UEFI: `CHECK_DEADLOCK FALSE`, because nothing can happen after
  `dev_exit` or a failed `dev_init`, once the Windows driver object is gone, or
  when the UEFI application has returned.

### Fairness

`FairSerialSpec` asks weak fairness of each thread's own steps, and
`FairWindowsSerialSpec` of its steps inside the driver, the D0Exit callback included
once a power transition has begun: the kernel schedules a runnable thread, the
framework finishes the transition, and the platform, the loader and the VMM return
from each call. Nobody is obliged to make a call. Linux has no run with fairness of
its own: `IoctlsGetShorter` bounds its ioctls, and they call the same functions in the
same order as the handlers of Windows do.
`CallVmm` and `Uefi` ask the same of the one caller's own steps; the scheduler need
not migrate it, nobody need call it, and neither the operator's keystroke nor the
return of the operating system is fair.

## Proofs

`CommonProofs` proves, from `ConstantsAssumption` alone (the null pointer is no
file and no block, at least one module slot and one CPU, CPU counts within
range), for `SerialSpec`:

| Theorem | States |
|---|---|
| `SerialInvariant` | `SerialInv`, the inductive invariant |
| `TypeCorrect` | `TypeOK`: the module counter and the CPU counter stay within their arrays |
| `CpusAccounted` | `CpuAccounting` |
| `VmcallsHaveVmm` | `VmcallHasVmm` |
| `CorruptForEver` | `CorruptIsFinal` |
| `MemoryFreedWhenDown` | `FreedOnlyWhenDown` |
| `FrozenWhileLoaded` | `VmmFrozen` |
| `LifecycleImplemented` | `ImplementsLifecycle` |

`CpuAccounting` is not inductive: in the middle of a start or a stop the loop
counter, `g_num_cpus_started` and the CPUs disagree by one, in a way that depends
on the line. `SerialInv` adds three things. `OneAtATime`: at most one thread is
inside, so what a thread has tested stays true. `FlowOf(t)`: what each label may
rely on, for instance that in the stop loop
`cpuid = g_num_cpus_started - 1` and the status is RUNNING. `CpuInv`: the
accounting, CPU by CPU, with its exceptions at the labels where they occur.
The preservation proof goes function by function (`TypeStep`, `FlowStep`,
`CpuStep`, `CallStep`), one step per action; `OnlyOne` isolates the use of
mutual exclusion. The action properties and the refinement then need only one
step lemma each (`CorruptStep`, `FreeStep`, `FrozenStep`, `LifecycleStep`);
`NotStarted` is the fact they share, that no CPU runs the VMM while the status is
UNLOADED or LOADED.

`CommonMemoryProofs` adds, for the same specification:

| Theorem | States |
|---|---|
| `MemoryInvariant` | `MemoryInv`, inductive together with `SerialInv` |
| `PointersAlwaysLive` | `PointersLive` |
| `VmmAlwaysComplete` | `VmmComplete` |
| `TlsAlwaysInBounds` | `TlsInBounds`, if the platform always reports the same CPU count |

`PointersLive` is inductive on top of `SerialInv` alone: a load that finds a stack
allocated overwrites its pointer, which leaks (see `common_leak`) but does not dangle.
`VmmComplete` needs what each label of the load has behind it
(`LoadedSoFar`) and what a VMM keeps from LOADED on (`VmmInv`). `Elsewhere` is the
frame lemma: an action that touches no memory needs one line.

`CommonCallProofs` is about a call as a whole:

| Theorem | States |
|---|---|
| `CallsAlwaysEnd` | `CallsGetShorter`, for any number of CPUs and modules, and CPU counts that change under the loops |
| `ResultsAlwaysTrue` | `ResultsTrue` |

The first needs only `SerialInv` (`FlowOf` bounds the loop counters) and one case per
action, `ShorterStep`. It is the safety half of `EveryCallReturns`: with weak
fairness of the thread's steps the bound runs out. The second needs to know on whose
behalf a shared clean-up runs and with which error already decided: `OnBehalf`
says so at each label, and `NothingLoaded` that a driver without modules has no
memory, so that a successful unload or fini leaves nothing. Both are inductive on top of
`SerialInv` and `MemoryInv` (`ResultInvariant`); `OutcomeStep` is the step that
returns.

Its last section carries these results to whatever calls `common.c`. An `EntryLayer`
is a step taken while nobody is inside: it calls one function, runs `common_init`, or
leaves all of `common.c`'s state alone but for the heap, from which it may take blocks
of its own. What `MemoryInv` and `ResultInv` say beside the pointers (`Held`) does
not depend on the heap, so it survives every step of an entry layer (`HeldEntry`) as it
survives the steps of `common.c` (`HeldStep`), and `ResultsFollow` holds above each.
The pointers are what an entry layer can spoil, by freeing a block of the VMM's; that it
does not is part of each layer's own invariant. What is left to show
per layer is that it is one: `LinuxEntry`, `WindowsEntry`, `UefiEntry`. They rule out
that a handler steps beside a call in progress, which is where `common.c`, without a
lock of its own, depends on its callers.

`CallVmmProofs` proves, from `CallVmmAssumption` (the context fits the stack, blocks
are page-aligned, no count exceeds the number of CPUs, load instructions are finitely many and lie inside the image), for
`Spec`:

| Theorem | States |
|---|---|
| `CallInvariant` | `CallInv`, the inductive invariant |
| `StackAlwaysInBlock` | `StackInBlock`, for every size and address |
| `ContextAlwaysOfCpu` | `ContextOfCpu` |
| `RequestAlwaysDelivered` | `RequestDelivered` |
| `PreemptionAlwaysRestored` | `PreemptionRestored` |
| `NoPageEverMissed` | `NoPageMissed` |
| `DescribedAlwaysAllocated` | `DescribedPagesAllocated` |
| `LoadAlwaysEnds` | `LoadGetsShorter` |

`CallInv` has the control of `call_vmm` (`ControlInv`), the loop invariant of
the page loops (`LoopInv`: all that lies below `virt` has been described, with
whichever call is on its way) and what each stage of a load has behind it
(`StageInv`). Steps that only move control are frame lemmas; `PageAdvance` is the
one step where the loop invariant moves. For `LoadAlwaysEnds` the steps fall into two
kinds, `LessWork` (an instruction begun or a page described) and `SameWork` (a move to a
lower place in the code with the same work left).

`LinuxProofs`, for `LinuxSerialSpec`, and `WindowsProofs`, for `WindowsSerialSpec`,
from `ConstantsAssumption` and `LinuxAssumption` or `WindowsAssumption` (a module's file
is an allocated block):

| Theorem | States |
|---|---|
| `LinuxInvariant` | `LinuxInv`, the inductive invariant |
| `LinuxTypeCorrect` | `LinuxTypeOK` |
| `HeapAlwaysAccounted` | `HeapAccounted` |
| `LoadAlwaysReadsLiveFiles` | `LoadReadsLiveFiles` |
| `FailedStartsRolledBack` | `FailedStartRolledBack` |
| `LinuxLifecycle` | `ImplementsLifecycle` |
| `IoctlsAlwaysEnd` | `IoctlsGetShorter` |
| `LinuxVmmComplete` | `VmmComplete` |
| `LinuxCpusAccounted` | `CpuAccounting`, `VmcallHasVmm` |
| `LinuxResultsTrue` | `ResultsTrue` |
| `WindowsInvariant` | `WindowsInv`, the inductive invariant |
| `WindowsTypeCorrect` | `WindowsTypeOK` |
| `RequestsCompletedOnce` | `CompletedOnce` |
| `FilesAlwaysAccounted` | `FilesAccounted` |
| `AlwaysSleepsUnloaded` | `SleepsUnloaded` |
| `WindowsLifecycle` | `ImplementsLifecycle` |
| `CallbacksAlwaysEnd` | `CallbacksGetShorter` |
| `WindowsVmmComplete` | `VmmComplete` |
| `WindowsCpusAccounted` | `CpuAccounting`, `VmcallHasVmm` |
| `WindowsResultsTrue` | `ResultsTrue` |

Both rest on the composition: at most one request is inside the driver (`OneRequest`,
`OthersOut`), so a step of `common.c` is a step of `SerialSpec` (`StepServes`) and keeps
`SerialInv` and `PointersLive` by the lemmas of the core. What the entry layer adds is an
invariant of four parts. `ThreadInv`: which function an ioctl is in, and what that
function leaves behind when it returns (after a failed start's `common_stop_vmm` no CPU is
up, unless the VMM refused; after `common_unload_vmm` an unloaded driver has no modules).
`HeapInv`: `HeapAccounted` in the middle of a request, where the buffer that
`ioctl_add_module` has in hand is a third owner of blocks. `CleanInv`: common.c holds
memory under the status UNLOADED only while a load, or the unload that a failed load
is followed by, is under way; without it `LoadStack` could lose a block, which is
the leak of `common_leak` that both entry layers avoid. `FilesInv`: the modules of a
VMM that is not loaded have their files, or the one just registered is about to get
its slot. Linux adds `FreshInv` (nothing has happened before `dev_init`), Windows `PowerInv`
(which callback runs in which power state, and what a sleeping device holds) and
`CompletedOnce`, which is inductive with it. The proof of a step goes by kind:
`InsideStep` for a step of `common.c`, `CallKeeps` and `ReturnKeeps` for the many handlers
that only call or report, and a lemma for each handler that moves blocks. The bounds
need nothing more: inside common.c a step lowers `StepsLeft` (`InsideShorter`), and a
handler calls at most one function after another, whose bound the first label
already contains (`HandlerShorter`).

`UefiProofs`, for `UefiSpec`, from `ConstantsAssumption` and `UefiAssumption` (one
thread; tables, module counts and sizes of the right kind):

| Theorem | States |
|---|---|
| `UefiInvariant` | `UefiInv`, the inductive invariant |
| `UefiTypeCorrect` | `UefiTypeOK` |
| `OsAlwaysAboveVmm` | `OsOnlyAboveVmm` |
| `FirstCpuAlwaysHasTask` | `FirstCpuHasTask` |
| `TablesAlwaysSound` | `TablesSound` |
| `TlsAlwaysHasSlot` | `TlsHasSlot`, if the CPU count is the true one or 0, its value on an error |
| `UefiLifecycle` | `ImplementsLifecycle` |
| `BootAlwaysProceeds` | `BootGetsShorter` |
| `UefiVmmComplete` | `VmmComplete`, `PointersLive` |
| `UefiCpusAccounted` | `CpuAccounting`, `VmcallHasVmm` |
| `UefiResultsTrue` | `ResultsTrue` |

The application is one thread, so each step inside common.c is a step of `SerialSpec`
and keeps `SerialInv`. `ControlInv` says which function `UefiMain` is in and what it
leaves behind; a start that succeeds has started every CPU unless it counted none, and
one whose result only looks like a success had a positive answer from the VMM.
`CpuOfApp` follows the application from CPU to CPU: it is on CPU 0 from the return
there up to the end of the load, and CPU 0 still has its task register when the start
loop reaches it. `TablesInv` is `TablesSound` with what holds of a table between its
allocation and `lgdt`; `SwitchKeeps` shows that a switch, which only permutes the tables
and resets a TR, keeps it, and so covers every change of CPU, those inside common.c
included. `BootAlwaysProceeds` adds `LoopInv`, the bounds of `UefiMain`'s own loop
counter, at each stage.

The inductive invariants are proved and no longer among the properties of the runs:
TLC has checked `SerialInv`, `MemoryInv` and `CallInv` on the same instances, and
each of their consequences still is.

Only model-checked: liveness itself (`EveryCallReturns`, `RequestsComplete`, `LoadEnds`,
`BootProceeds`), for which the prover has no rule: it knows neither fairness nor
ENABLED. What is proved of it is the bound in each case; what is left to TLC is that a
call inside the driver can always take a step, and takes it.

## Not modelled, and why

* `common_vmm_status` and its ioctl read one variable; `g_vcpuid` is passed to the
  VMM unread.
* `CheckProcessor` prints and clears a flag; `ReadFile` and `PrintDevicePath` of
  the UEFI application have no caller; a failing `WhoAmI` in
  `platform_get_current_cpu_num` (the current CPU would be -1).
* What `SwitchBSP` does to CR4 and to the stack of a CPU that already runs the VMM:
  firmware and hardware, `src/arch/uefi/README.md`, second finding.
* Two threads inside `call_vmm`, `common_dump_vmm` beside an unload, and
  `g_module_length` changing between two uses: nothing in the code or in its
  documents excludes or promises anything there; the hazards say so. Two races with
  a documented contract are runs (`common_add_race`, `linux_unload_race`).
* The contents of modules and debug rings; logging; scripts.
* The ELF loader and the VMM, which are not in this repository, appear as the
  answers `common.c` can get from them.
* The unit tests are a source of intent only. They do not build against this
  `common.c`: the test and the Windows platform lack
  `platform_get_current_cpu_num` and `platform_restore_preemption`.

## Plan

What is left:

* `CallVmm` as a refinement of the call steps of `Common`: `StageInv` against
  `LoadedSoFar`, one load of `CallVmm` for the steps from `LoadStack` to `LoadMapTls`.
* Theorems about `VmmLifecycle` itself (CPUs up are a prefix of the CPUs, none is up
  while the VMM can be unloaded), carried over to the four implementations.
