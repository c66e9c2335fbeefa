# Verification of the Baken OS kernel

TLA+ models of the kernel in `kernel/src` (Sotlas sources) and of the end of its
UEFI loader (`boot/`), TLC configurations that check them on small instances, and
TLAPS proofs of the theorems that have to hold for every number of CPUs, threads,
pages, stacks and processes.

Every definition is a translation of the source; `PROJECT.json` ("map") names
the lines each one stands for. Operators whose names start with `Faulty` are
plausible defects of the definition that follows them. They are used by no
specification; replacing the real definition by one of them is how we know that
a property can fail ("mutants" in `PROJECT.json`).

Layout: one module per component, an `MC*` module that only names values for
its constants, one `.cfg` per question, and a `*Proofs` module where theorems are
proved.

## 1. The system

Baken OS is a bare-metal x86-64 kernel with its own language (Sotlas), a UEFI
bootloader and a Python cross compiler. There is one address space for the
kernel, one trap path, preemption by the local APIC timer and by IPIs, and no
blocking inside the kernel except through the scheduler.

| Component (kernel/src) | State it keeps | Operations | What makes it correct |
|---|---|---|---|
| scheduler core (`scheduler/core`) | thread slots, owner/affinity per slot, current slot and idle frame per CPU, `SCHEDULER_LOCK` | timer/IPI/`int 0x43` handlers of BSP and APs, create, terminate, block, wake, set affinity, reap | one CPU per stack, also while a switch is in flight; a frame is resumed once; no thread is lost |
| stack cache (`scheduler/stack_cache`) | 8 pairs base/pages | put (reaper, create's error path), take (create) | a stack has one holder |
| sleep (`scheduler/sleep`) | 8 entries id/deadline | sleep_ticks, on_timer_tick | a sleeper wakes once, not before its deadline, and does wake |
| wait queues (`scheduler/wait_queue`) | ring of 8 thread ids | sleep, wake_one, wake_all | no lost and no spurious wakeup, FIFO |
| interrupt path (`interrupts/irq`, `arch/x86_64/fpu`, `tss`) | FPU areas (16), TSS.rsp0, acknowledged counters | dispatch, irq_schedule_with_fpu | FPU state, rsp0 and CR3 belong to the thread that is resumed |
| processes (`process/registry`, `address_space`, `user_copy`, `userspace_loader`) | process table with references, PML4 roots | create, retain, release, destroy, map, clone | a root is freed only when nothing refers to it or has it loaded |
| TLB shootdown (`memory/tlb_shootdown`) | request, generation, per-CPU acknowledgements and published roots | page, handle_ipi, publish_current_root | when it returns true no CPU keeps the old translation |
| PMM (`memory/pmm_allocator`, `pmm_bitmap`, `pmm`) | region bitmaps, frontier per region, the latest run, counters | activate, alloc_pages (plain, aligned, constrained), free_pages, free_pages_lifo | no page is handed out twice |
| kernel heap and DMA (`memory/kernel_heap`, `dma`) | block descriptors, DMA registry | alloc, free, grow, claim, release | disjoint blocks, owner-checked release |
| paging (`memory/*page_table*`, `vmm`, `cutover*`, `transition_*`, `mmio_*`) | page tables, direct map, page-table arena | map, unmap, protect, cutover | W^X, no aliasing of page-table pages |
| SMP bring-up (`arch/x86_64/smp*`) | CPU records, AP stages, activation flags | start AP, AP entry, runtime hand-over | an AP is used only when it is really up; a late AP does no harm |
| interrupt registry (`interrupts/registry`, `route`, `ioapic`, `lapic*`, `xapic_ipi`) | handler table, vectors, IOAPIC routes | claim, release, dispatch | a vector has one owner, no handler is called after release |
| devices (`device/*`, `platform/*`) | device and driver records, resource claims | register, bind, attach, detach, remove, claim, release | resources have one owner and survive no detach |
| xHCI (`drivers/xhci_*`) | rings, slots, device table, endpoints | command, event, transfer, enable/address/configure, teardown, reuse | completion goes to its request; a slot is reused only after teardown |
| HID, I2C, GPIO (`drivers/hid_*`, `i2c_*`, `gpio_*`, `amd_*`, `intel_*`) | event queues, controllers, bus arbitration | poll, transfer, attach, remove | event order; bus has one master |
| PCI and MSI (`drivers/pci_*`) | functions, BARs, MSI/MSI-X state | discover, size BARs, activate, tear down | activation is all or nothing |
| storage (`storage/*`, `drivers/ahci*`, `nvme`) | block devices, GPT headers, FAT32 chains | read, write, repair | one valid GPT survives a crash; bounded chain walks |
| ACPI/AML (`acpi/*`) | tables, namespace, evaluator frames | load, evaluate, discover | parser stays inside its tables |
| UI (`baken_*`, `bakenfx`, `sotlas_*`, `app_*`, `desktop_*`, `window_manager`) | scene and window state | input, paint | visual |
| boot (`boot/`) and compiler (`tools/`, `bootstrap/`, `bknc/`) | - | - | sequential programs outside the running kernel |

### Interactions

* The interrupt stub (`tools/sotlas_compile/x86_intrinsics.py:152-160`) pushes a
  frame, calls `sotlas_x86_irq_dispatch`, loads the returned address into `rsp`
  and executes IRET. The dispatcher calls sleep's tick (BSP), then
  `irq_schedule_with_fpu`: FPU save, scheduler, root publication for the TLB
  protocol, TSS, FPU restore.
* Under its lock the scheduler calls the reaper, which calls the process
  registry (release), the PMM (free) and the stack cache (put).
* Threads call create, terminate, block, wake and set affinity; sleep and wait
  queues are clients of block and wake.
* The page tables call the TLB shootdown, which sends IPIs to the CPUs whose
  published root may hold the translation.

### What is hard

1. A context switch is decided under `SCHEDULER_LOCK` but performed by the IRET
   after the lock is released. A second CPU can see the thread's new state
   while the first still runs on its stack (core.sotlas:181-192).
2. Creation is not atomic: slot search, stack and frame are prepared with
   interrupts enabled, and so is the return of the stack when it fails.
3. The reaper runs on the BSP only, threads exit everywhere.
4. The stack cache takes no lock at all: the reaper fills it inside an interrupt
   while the interrupted creation is between two of its loads and stores.
5. TLB shootdown picks its targets from roots that other CPUs publish around
   their CR3 writes, and can time out.
6. Wakeups race with blocking and with re-pinning.
7. All tables are small and fixed (8 cached stacks, 8 sleepers, 8 waiters, 16
   FPU areas): behaviour at the limit is ordinary behaviour.
8. AP bring-up, device removal and storage repair are multi-step and can fail in
   the middle.

## 2. Plan

Order of importance, with what each module composes. Done so far: 1 to 9.

1. `Scheduler` - switch protocol, creation, reaping, block/wake/pin; implements
   the abstract `ContextHandoff`. `SchedulerProofs` proves it.
2. `FpuContext` - what `irq_schedule_with_fpu` adds to a switch. `FpuContextProofs`.
3. `Blocking` - sleep and wait queues over block/wake. `BspTablesProofs`.
4. `TlbShootdown` - requests, interrupts, root publication. `TlbShootdownProofs`.
5. `StackCache` - the unlocked cache, load by load and store by store. `Scheduler`
   is composed of its actions; on its own it is proved, for stacks of any sizes, in
   `BspTablesProofs`: its tables, like those of `Blocking`, are protected by
   nothing but IF=0 on the BSP. Its specification is called `CacheSpec`, so that
   one module can extend both.
6. `ProcessLifetime` - process references, VM pins, destroy against loaded roots;
   composes the registry with process threads, CR3 and the TLBs.
   `ProcessLifetimeProofs`.
7. `PmmAllocator` - bitmaps, frontier and LIFO release; implements the abstract
   `PageAllocator`. `PmmAllocatorProofs`.
8. `ExitBootServices` and `FinalMapLookup` - the loader's last loop and the lookup
   its callback uses. Both are proved in `ExitBootServicesProofs`.
9. `SmpBringup` - AP stages, time limits, late APs, activation before the first
   interrupt. `SmpBringupProofs`.
10. `KernelHeap`, `DmaBuffer`, `IrqRegistry`, `DeviceRegistry`, `XhciRings`,
    `GptRedundancy`, in that order.

Every safety property and every refinement that a passing run checks is proved.
Theorems still worth having: that `TlbShootdown` implements the contract which
`ProcessLifetime` assumes of a shootdown, and that the sets of threads `FpuContext`
and `Blocking` may dispatch contain those `Scheduler` does.

## 3. Models and their correspondence to the code

### Scheduler

One record of `SCHEDULER_THREADS` is spread over `state`, `saved`, `stack`; the
arrays beside it are `owner`, `affinity`, `current`, `idleFrame`. `phys[c]` has no
variable in the code: it is the stack `rsp` really points into, and the reason
for the model. A frame address is abstracted to the stack it lies in, `STALE`
is the address of a frame that was already popped.

An interrupt is a sequence of steps of one CPU, `mode` being its program counter:
`IrqEnter` (takes the lock, `irq_schedule_with_fpu`), `SaveBsp`/`SaveAp` (the
confirmation of the previous switch and the save), `ReapSlot`/`ReapDone`,
`RequeueBsp` or `ProbeSwitch`, `PickReady`/`PickIdle*` (selects and unlocks) and
`Iret` (the stub leaves the old stack). Calls of threads are `BlockCurrent`,
`TerminateCurrent`, `WakeThread` and `SetAffinity`.

Creation (`CreateFind`, `CreateTakeStack`, `CreatePublish`, `CreateGiveBack`) runs
with interrupts enabled except for the publication. Its use of the stack cache is
not a step of its own: `Cache == INSTANCE StackCache` puts StackCache's loads and
stores (`Look`, `ClearBase`, ..., `StorePages`) into the call and its `Reap` into the
reaper, with the scheduler's stacks in use for StackCache's `used`. An interrupt,
with the reaper in it, comes between any two of them. There is one call at a time,
because only the boot thread creates threads: the native runtime, the SMP and
wait-queue probes and the userspace loader are its code, it is pinned to the BSP,
and no system call creates a thread. All stacks have
`SCHEDULER_DEFAULT_THREAD_STACK_PAGES` pages. A second thread that creates on the BSP
would be outside this model, and unsafe: preempted between the load and the clear of
an entry's base, the cache would hand the same stack to both. The loader's calls run
with IF=0, which is a subset of these interleavings. Once a stack is in hand the call
may fail at any of its checks (`CreateGiveBack`), also at those that do not fail in
the kernel of today; that the slot was taken in between cannot happen with one
creator.

`ContextHandoff` is what the scheduler promises with all tables removed: a CPU
moves between contexts in two phases, nobody touches either context meanwhile,
a context is recycled only when no CPU is in it. `ImplementsHandoff` is the
refinement (`at <- phys`, `to <- MovingTo`, `live <- LiveContexts`).

### FpuContext

`irq_schedule_with_fpu` is one step (`Interrupt`): it holds the switch lock with
IF=0. `slotId` and `image` are the table of `fpu.sotlas`; `regs[c]` is a CPU's
register file, abstracted to its last writer; `last[t]` remembers what thread t
left. Which thread is selected is left open, a superset of `Scheduler`.

### Blocking

Each call up to its `sti; int 0x43` is one step, the resumption another
(`QueueResume`, `SleepVerify`). The timer's scan of the deadline table is one
step per entry, two where it wakes a thread, because `scheduler_wake_thread`
publishes READY to every CPU before the entry is cleared (`TickBegin`,
`TickWakes`, `TickAdvances`). The ring keeps its indices.

### TlbShootdown

Requests belong to tasks (`pc`, `at`, `page`), because a thread of a process
request can migrate until it gets the lock. `outdated[t]` has no variable in the
code: the CPUs whose TLB entry is older than t's change. `ChangePrivate` is the
process registry (its lock is released, IF=1), `ChangeShared` the kernel's page
tables (`tableLock`, IF=0 to the end). `Lock`, `Number`, `WriteAddress`,
`WriteRoot`, `SendNext`/`Broadcast`, `Complete`, `GiveUp` are
`tlb_shootdown_page` in order. On the CPU side `Load` and `PublishRoot` are the
two moments of a context switch that matter, `Fill` is the MMU, `HandleIpi` the
handler of vector 0x45. Generations wrap at `GenMax` with the code's reset.

The handler is one step. Without a timeout no interrupt is pending while the
mailbox is written (`IpisBelongToTheRequest`), so a finer handler would show
nothing more. After a spin limit that is no longer so: an interrupt of the failed
request that is answered between the increment of the generation and the write of
the address acknowledges the next request with the old page (`tlb_coherent` with
`MayTimeOut = TRUE` shows it). The coherence run therefore leaves the limit out.

### StackCache

The creator's loads and stores on the two arrays are separate steps, the reaper's
put is one: it runs in the BSP's timer interrupt, and creation is restricted to
the BSP (core.sotlas:541). There is one creator, the boot thread (see Scheduler). A
stack that came from the cache (`reused`) goes back there only, one from the PMM
(`allocated`) goes back to the PMM when it is the latest allocation. The module has
stacks of different sizes, which `Scheduler` does not need.

### ProcessLifetime

The processes' table (`space`, `refs`, `pins`, `map`), the slots of process threads
(`state`, `pid`, `root`, `owner`, `affinity`), what each CPU has loaded (`cr3`,
`running`, `tlb`) and the copy a system call is making are one module, because the
hazards lie between them: the registry frees a root or a frame that a CPU still has
in CR3, in a TLB or in its hands.

Each section under `PROCESS_REGISTRY_LOCK` is one action: `Create`, `Destroy`,
`Hold`/`Drop` (the references a caller takes itself), `Retain`/`Borrow` and the
creation of a process thread (`CreateBase`, `CreateFails`, `Attach`), and a change
of a page as the code does it: `MapPage`, `RemapPage` or `UnmapPage` under the
lock, `Send` and one `Acknowledge` per target without it, `Unpin` under it again.
`Interrupt` is the whole interrupt with reaping (which releases the process),
selection and the load of CR3; `Fill` is the MMU, `StartCopy` and `EndCopy` are
`user_copy_from_sized`. The shootdown here is its contract (targets are the CPUs
with the root loaded), `TlbShootdown` is the protocol below it. Callers are kernel
threads on the kernel's root, so the destroyer's look at its own CR3 never refuses.

### PmmAllocator and PageAllocator

Every call runs under one lock with IF=0 and is one action: `AllocPages`,
`AllocPagesAligned`, `AllocPagesConstrained`, `FreePages`, `FreePagesLifo`;
`Activate` with the self test of six calls (`TestAllocFirst` to `TestFreeSecond`)
and its failures. Addresses are counted in pages; `used` is the set of pages whose
bit is set; `next`, `allocated` and `last` are the frontier, the counter and the
latest run. `PageAllocator` is what callers may rely on: runs of adjacent free
pages go out, pages that are out come back, and a plain request is refused only
when no run fits. `ImplementsPageAllocator` maps the free pages to
`AllPages \ used`.

### ExitBootServices and FinalMapLookup

`pc` is the place in `baken_uefi_exit_boot_services_with_callback` (`query`,
`allocate`, `free`, `refresh`, `callback`, `exit`). The firmware may change its map
before any call (`FirmwareChangesMap`); the loader's own `AllocatePool` and
`FreePool` change it too (`PoolCallMayChangeMap`). A map is its key and its number
of descriptors. `alive` ends with the successful exit. `changes` has no variable
in the code: it counts the firmware's changes, so that a spent attempt can be
charged to one.

`FinalMapLookup` is `baken_final_map_physical_address` as a function on words that
wrap, with `Exists` and `InAlias` as the definition in plain numbers that it is
held against. `MCExitBootServices` evaluates both directions on every map of up to
two descriptors over a word of four pages, as an assumption; the proofs hold for
every word.

### SmpBringup

`pc` and `n` are the BSP's place in `smp_initialize_base` and the slot it works
on; `cpu[s]` gathers the `SMP_CPU_*` and `SMP_AP_*` arrays of slot s, `tlb[s]` those
of the shootdown, `page` is what the trampoline page holds. An AP is named by its
APIC id; `stage`, `at`, `rsp` and `top` are how far it got, the slot it found, its
stack pointer and its TSS.rsp0. `LoadStack` and `SetReady` are the trampoline's
instructions, the other actions of an AP the checks and stores of its entry; an AP
that fails one of its checks, or is dead, is one that takes no further step. An
INIT or a SIPI may be lost (`Signal`), and each of the BSP's waits may end at any
moment (`TimeLimit`), also when the flag is already set. The fallback clears the
slots one by one (`ResetId`, `ResetSlot`) while late APs look themselves up in them.

## 4. Runs

| Run | Instance | Question |
|---|---|---|
| scheduler_smp2 | 2 CPUs, 4 slots, 3 stacks, cache of 1, creation in single loads and stores, affinity AP or any | all safety properties, the refinement |
| scheduler_live | 2 CPUs, 2 stacks | READY is dispatched, TERMINATED is reaped |
| fpu_threads | 2 CPUs, 4 areas, 2 dynamic slots, ids to 4 | threads keep their registers; areas neither leak nor run out |
| fpu_boot | as above | finding: the boot thread's registers |
| blocking_bsp | 2 CPUs, 3 threads, ring of 2, 2 sleep entries, ticks to 2 | no wakeup is lost, early or out of order; every sleeper returns |
| tlb_coherent | 3 CPUs, 1 migrating task, a process page and a shared one, generations to 2 | a successful request leaves no stale entry |
| tlb_limit | 2 CPUs, 2 tasks, one process and one shared page, spin limit | blocked requests come to an end |
| stack_cache_holders | 3 stacks of 2 sizes, 2 entries | a stack has one holder |
| process_smp2 | 2 CPUs, 2 threads, 2 callers, 2 roots, 2 frames, 1 address, 2 table slots, pids to 2; symmetric | roots and frames are not reused while somebody may look at them; the counts are exact |
| pmm_calls | 3 inventories of 3 regions, 2 of them tracked, bitmaps of 5 pages, runs to 3 pages | books and refinement over any sequence of calls |
| exit_handoff | 4 keys, 2 buffers, maps to 5 descriptors, 4 attempts | the kernel starts on tables of the final map; the loop ends |
| smp_start | 4 MADTs with 0 to 3 APs (ids 0, 2, 3; BSP 1), 3 stacks | all APs or none; late APs do no harm; the boot goes on |

Bounds. Two CPUs give every pair of roles in the switch protocol (BSP and AP,
old and new CPU of a thread); the theorems remove the bound. Two dynamic slots
and two stacks make slots and stacks run out and be reused. The ring and the
caches are smaller than the number of users so that they overflow and wrap.
`MaxTick` is the code's own last tick. Three CPUs in the shootdown leave one
that is neither requester nor target. `GenMax` of 2 makes generations repeat as
soon as they can; `tlb_limit` uses 1 to keep the temporal check small. The
coherence run has one task, which takes every request to any CPU: what a second
one adds, waiting for the locks, is the subject of `tlb_limit`.
Dynamic threads are pinned to the AP or to
none; the boot and idle threads are the ones pinned to the BSP.
Three stacks and a cache of one entry make the cache overflow, for the reaper and for
a creation that fails, and let the reaper fill the very entry the creator is
clearing. `scheduler_live` has a cache for all its stacks: with a full cache and a PMM
that never takes a stack back, the reaper tries again for ever, and
`TerminatedIsReaped` does not hold.
Two processes on two CPUs let one be destroyed and its root and pid's slot be
taken again while the other CPU still runs the first; two frames and one address
let a frame leave one process's tables and enter the other's; symmetry is sound
because no definition orders roots, frames, threads or callers. The inventories of
`pmm_calls` have a region across the low-memory limit, one too small to track, one
longer than its bitmap, and too little memory for the self test, so every refusal
and every edge of a bitmap occurs. In `exit_handoff` the four keys are more than
the three anybody can hold, and `ChangesCap` is where twice the count exceeds every
attempt. In `smp_start` the ids include 0, which an empty entry of the tables has
too, and a MADT that names an AP twice; there is a stack for every AP, and one
that is given up keeps its stack.

### Fairness

* `Scheduler`: SF on `IrqEnter`, since both CPUs of the instance keep being
  interrupted: the BSP by its timer, the AP in slot 1 by the timer or by the IPIs of
  the SMP probe. The code guarantees it for these two only; on other APs no thread
  runs today. The spin lock is an exchange without queue: a CPU that tries
  again and again is assumed to win once. WF on the rest of a handler, which is
  sequential code with IF=0. Threads owe nothing.
* `Blocking`: WF on the tick's scan (an interrupt handler); SF on dispatch,
  preemption and the return of a call, which is what `Scheduler` shows to its
  clients (`ReadyIsDispatched`).
* `TlbShootdown`: SF on taking the unfair lock and on the handler (a CPU may
  mask interrupts again and again, never for ever); WF on the publication of a
  root and on the lock holder's own steps.
* `ExitBootServices`: WF on the loader, a sequential program. The firmware owes
  nothing; it may go on changing the map, which the attempts bound.
* `SmpBringup`: WF on the BSP, sequential code with IF=0 whose waits are bounded
  by a count of timer ticks. An AP owes nothing at all.

## 5. Proofs

The theorems hold for every value of the constants that meets the named
assumptions of the modules: at least one CPU, more than two slots, any number of
stacks, thread ids, processes, roots and frames, any cache capacity, any inventory
whose regions do not overlap, any firmware map size, any list of APs that fits the
tables.

The runs do not repeat what only a proof needs or a proof settles better: the
inductive invariants, `HeldOK`, and the type invariants, which are proved for every
module. `StackInUseIsOwned` and `ReservedStaysUsed` are proved too, and the
refinements that the runs check (`ImplementsHandoff`, `ImplementsPageAllocator`) are
violated when they are. Each inductive invariant was checked with TLC on small
instances before it was proved.

*Scheduler.* `StackExclusive` is not inductive: it says nothing about who may
enter a stack next. `IInv` adds, as separate conjuncts, who holds the lock
(`LockInv`), that the current slot of a CPU is owned by it (`CurrentInv`), which
states a current slot can have at each point of the interrupt (`RunInv`), that a
CPU is only on a stack it is entitled to (`PlaceInv`), that a saved frame lies on
the thread's own stack and is fresh unless the thread executes (`FrameInv`), and
that each slot in use has a stack of its own (`StackInv`), disjoint from those that
the create call, the cache and the PMM hold (`Cache!CacheIInv`, StackCache's inductive
invariant with the scheduler's stacks in use for its `used`). One lemma per
action shows preservation. The theorems `StacksAreExclusive`,
`UsedStacksAreOwned`, `ResumesAreFresh`, `ExecutingThreadsRun` and
`AffinityIsRespected` follow from `IInv`; `OwnershipHandOver` is an action property
under it; `SchedulerImplementsHandoff` maps every step to a step or a stutter of
`ContextHandoff`. `StacksKeepOneHolder` is an action property: `HoldersAreOne` derives
from the invariant that no stack has two holders, and `ReapSlotLosesNone` and
`CreationLoses` go through every load and store to show that a stack which somebody
will use or recycle (`Reachable`) stops being so only in `LostByCreator`: when the
creator clears the size of an entry the reaper has just filled, when its put overwrites
such an entry, and when its put finds the cache full. These three losses are real in
the code; the theorem says that there is no fourth one, for any size of the cache.

*FpuContext.* `ThreadKeepsRegisters` speaks of threads on a CPU only. `IInv` adds
where the registers of the others are (`ImageInv`: in the thread's slot, or the
thread has none and has never executed), that a thread is on one CPU and exists
(`WhereInv`), and `SlotsBelongToThreads`, without which a slot could be found twice.
The step of `irq_schedule_with_fpu` is proved in the order of its calls: one lemma
on where a slot is found, one on the table after the save, one after the restore
(`Keeps` is what both preserve), then the release. `NeverHangs` is a pigeonhole: if an
area were looked for in vain, every area but the kernel's would be taken by a thread
of its own (`SlotsBelongToThreads`), and with the thread that looks that would be one
more than the scheduler's table can hold. `AreaInv` bounds the table, and keeps the
kernel's area where `fpu_initialize` put it. The theorem rests on the assumption that
there are two areas more than dynamic slots, as in the code.

*Blocking.* `BlockedIsRegistered` says nothing about threads that run, so it does not
tell what a returning call finds. `IInv` adds that what runs, runs on the BSP
(`PinnedInv`), that the ring holds exactly the blocked waiters, each once, and its
three indices agree (`QueueInv`), and that the deadline table holds exactly the
blocked sleepers, with one exception: the slot the timer's scan has woken but not yet
cleared (`SleepInv`). A sleeper that is not blocked is past its deadline. The
exception cannot be seen by the sleeper, since the BSP is still in its interrupt; that
is the step that fails without the pinning. From `QueueInv` every id in the ring is of
a blocked thread, hence wake-one pops one id (`WakeOnePopsOne`) and wakes the oldest
(`OldestIsWoken`); the wrap of the indices is in `CellsAreDistinct` and `CellsShift`,
on which `QueueIsFifo` rests.

*TlbShootdown.* Two invariants. `BasicInv` holds in every behaviour: types, the lock,
that a TLB has private pages of the loaded root only, and that the table of roots is
late only for a CPU inside the scheduler with a flushed TLB (`KnownInv`), which is why
choosing targets from it is sound. `SoundInv` holds as long as no request has given up,
and its theorems say so in their hypothesis (`NobodyGivesUp`): after one, a late
interrupt acknowledges the next request with the old page, which TLC shows. It says
that acknowledgements are never from the future (`AckInv`), that a requester expects
one answer for each CPU it asked (`SendingInv`), that the mailbox is complete before
the first interrupt (`MailInv`), and that a CPU with an outdated translation is still
to be asked or has the interrupt pending (`ToldInv`). The requester compares a count
of acknowledgements with a count of interrupts, so the proof needs cardinalities: when
the counts agree nobody is pending (`AllAnswered`). A behaviour that never gives up
exists for either value of `MayTimeOut`, and without the limit there is no other one
(`GivingUpNeedsTheLimit`).

*StackCache.* `OneHolder` needs to know what the creator holds at each of its
stores (`HeldOK`): after it cleared a base its stack is nowhere in the cache, and
an entry it has just written is not touched by the reaper because it is not
empty.

*ProcessLifetime.* Nothing in the registry looks at CR3 or at a TLB, so the link
has to come from the counts: `HoldersAreCounted` says that references and pins
number their holders, hence a process that may be destroyed has no thread and no
change in progress (`Unheld`). `CurrentInv` ties CR3 to the thread a CPU runs,
`ThreadInv` ties the thread's root to its process, and with `SpaceInv` (a root has
one place) this gives `LoadedRootsLive`. For frames, `FrameInv` says that a frame is
free, at one page of one process, or held back by one change, and `UseInv` that a
TLB entry or a copy in progress either agrees with the page table or belongs to a
CPU the change still waits for; together they give `FreeFramesAreUnused`.

*PmmAllocator.* The invariant is `Books`: the four checked properties with the
facts that regions are apart and what a closed allocator's state means. The counter
is a cardinality, so the proofs rest on lemmas on runs of pages (their size, that a
run added to or taken from the finite set of pages out changes it by exactly that).
The release through the latest-run shortcut restores the frontier it saved;
`LastIsOut` is what makes that sound after partial releases of the same run. The
self test demands back the very run it freed: `TestInv` says at each of its stages
that the bitmaps hold the reserved pages and the test's runs and nothing else, and
that the first run was the lowest of the first region that has one, so the search
finds it again; no inventory makes the test fail except for room (`SelfTestIsFair`). The
refinement maps each kernel call to the step of `PageAllocator` of the same kind.

*ExitBootServices.* A key stands for the map it was handed out with (`KeysInv`), a
buffer for the one allocation the state remembers (`BufferInv`), and each attempt
the loop has lost, or is about to lose, is charged to half a change of the firmware
(`ChargeInv`). *FinalMapLookup* is proved directly: if the loop answers, the address
lies in an existing descriptor at that place (`LookupIsSound`); if it answers 0, no
descriptor whose ends do not wrap holds the address (`LookupIsComplete`).

*SmpBringup.* `TypeCorrect` includes that no AP writes outside the slot tables,
whenever it runs. `LateApsParked` rests on `ReleaseInv`: no release flag is set and no AP
enables interrupts except after a bring-up without failure. It needs no knowledge of
which slot an AP found, only that the slot exists (`AtInv`), because after a failure
the tables may send a late AP to any slot. The other three theorems rest on
`StrongInv`. The trampoline page can be read by one AP only, the last one registered,
because the BSP does not write it again before the AP before is parked
(`PageSlotInv`, `ReaderInv`, `StartedInv`); so each stack has one owner
(`StacksAreOwned`), also after a failure, when the page is not written any more.
While nothing has failed (`Healthy`), a registered slot holds the id and the stack of
one target, and no id twice (`TableInv`, from the lookup in `smp_register_cpu_slot`);
hence the AP of target k finds slot k (`PathInv`), only it sets the flags of slot k
(`UpInv`), and the BSP's wait for those flags is a wait for that AP (`AllOrNothing`).
A shootdown is sent only with another CPU in the active set, hence after the last
activation, when all APs that were ever started are in it (`ShootdownInv`,
`NoShootdownHangs`).

Only model-checked: liveness (`ReadyIsDispatched`, `TerminatedIsReaped`,
`SleeperReturns`, `RequestsEnd`, `LoaderFinishes`, `BootGoesOn`), since fairness and
ENABLED are outside the prover, and the finding of `fpu_boot`, which is a
counterexample and not a theorem.

## 6. Findings

`fpu_boot` is a run that shows a disagreement between the code and its documentation:
the boot thread has id 0, which `irq_schedule_with_fpu` does not save; its SSE
registers are lost at a switch although fpu.sotlas promises a context per thread.

Observations made while modelling, which no run states:

* TLB shootdown skips a CPU while its CR3 is loaded and its root not yet
  published. Software does not use a process page there; a speculative walk of
  the MMU can cache one. `tlb_coherent` has software accesses only.
* A kernel-page request spins for the shootdown lock with IF=0 and cannot
  acknowledge the holder. Both end only through the spin limit (`tlb_limit`), and a
  process request that fails stops its thread for ever.
* The unlocked cache can lose a stack in three places, which `LostByCreator` lists: a
  put of the reaper between the two stores of a take leaves a stack with size 0 in
  the cache, which no create can take; a put of the creator overwrites an entry the
  reaper has filled since it was found empty; and the creator ignores the refusal of
  a full cache. The entry of size 0 stays occupied for ever.
* In the uniprocessor fallback the scheduler still registers the CPUs of the MADT,
  so a thread pinned to one of them would never run; callers ask
  `smp_runtime_ap_count` first.
* A MADT that names an AP twice makes SMP fall back; the scheduler's own
  initialisation refuses the same table.
* A late AP whose APIC id is 0 can match a slot whose id was just reset but is
  still registered (`ResetId`, `ResetSlot`). It then stays parked like every late AP.

## 7. Not modelled

* The end of thread ids and of all tick counters except the sleep clock's.
* TSS.rsp0 of threads, device vectors and the statistics of `irq.sotlas`.
* In `Scheduler`, process threads: they are in `ProcessLifetime`, where a switch is
  one step, since what is at stake there is which root is loaded and not which
  stack. Blocking of process threads is left out, as no system call blocks.
* In `ProcessLifetime`, `user_copy_to` (the same walk in the other direction), the
  range checks of addresses, and the order in which the loader's probe programs
  make their calls.
* The PMM's inventory, the low-memory pages and the map policy are inputs.
* The atlases under `kernel/include` (glyph, icon and logo tables) are data.
* Everything listed as `not_modelled` in `PROJECT.json`, with its reason.
