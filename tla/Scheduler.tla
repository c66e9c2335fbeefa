----------------------------- MODULE Scheduler -----------------------------
(***************************************************************************)
(* The SMP scheduler core of Baken OS (kernel/src/scheduler/core.sotlas)   *)
(* as it is driven by the interrupt path (kernel/src/interrupts/irq.sotlas)*)
(* and by the threads that block, wake, create, re-pin and terminate       *)
(* threads.                                                                *)
(*                                                                         *)
(* The model separates what the scheduler believes (current, owner) from   *)
(* where a CPU physically is (phys, the stack its rsp points into).  A     *)
(* context switch is decided under SCHEDULER_LOCK but is performed by the  *)
(* IRET of the interrupt stub after the lock was released, so the two      *)
(* disagree for a while.  An interrupt is therefore several steps:         *)
(*                                                                         *)
(*   task --IrqEnter--> save --SaveXxx--> (reap, requeue) --> pick         *)
(*        --Pick--> epilogue --Iret--> task                                *)
(*                                                                         *)
(* Everything between IrqEnter and Pick holds the lock with IF=0.  A       *)
(* frame address is abstracted to the stack it lies in; STALE stands for   *)
(* the address of a frame that an IRET has already popped.                 *)
(*                                                                         *)
(* Threads are created by the boot thread, on the BSP, mostly with         *)
(* interrupts enabled.  Its use of the unlocked stack cache is composed    *)
(* from module StackCache, one load or store at a time.                    *)
(*                                                                         *)
(* Operators whose name starts with Faulty are plausible defects of the    *)
(* definition that follows them; no action uses them.                      *)
(***************************************************************************)
EXTENDS Integers, FiniteSets

CONSTANTS NumCPUs,     \* processors, the BSP is CPU 0
          NumSlots,    \* SCHEDULER_THREAD_SLOT_COUNT
          NumStacks,   \* page runs of one thread-stack size the PMM can hand out
          CacheCap,    \* SCHEDULER_STACK_CACHE_CAPACITY
          Pins         \* CPU slots that callers pin threads to (or AFFINITY_ANY)

ASSUME NumCPUsAssumption  == NumCPUs \in Nat \ {0}
ASSUME NumSlotsAssumption == NumSlots \in Nat /\ NumSlots > 2
ASSUME NumStacksAssumption == NumStacks \in Nat
ASSUME CacheCapAssumption == CacheCap \in Nat \ {0}

CPUs == 0 .. NumCPUs - 1
BSP == 0
Slots == 0 .. NumSlots - 1
BOOT_SLOT == 0
IDLE_SLOT == 1
FIRST_DYNAMIC == 2
Dynamic == FIRST_DYNAMIC .. NumSlots - 1
INVALID_SLOT == NumSlots
CPU_NONE == -1
AFFINITY_ANY == -1

ASSUME PinsAssumption == Pins \subseteq CPUs \cup {AFFINITY_ANY}

\* Stacks: those the PMM hands out, the stack each CPU was started on (the
\* boot thread's for the BSP, the idle runtime's for an AP), and the stack of
\* the BSP's idle thread.
Stacks == 1 .. NumStacks
RuntimeStack(c) == NumStacks + 1 + c
IDLE_STACK == NumStacks + NumCPUs + 1
AllStacks == 1 .. NumStacks + NumCPUs + 1
NO_FRAME == 0
STALE == -1
NO_STACK == 0
THREAD_STACK_PAGES == 4  \* SCHEDULER_DEFAULT_THREAD_STACK_PAGES, in every call

ThreadStates == {"UNUSED", "READY", "RUNNING", "BLOCKED", "TERMINATED"}
Modes == {"task", "handoff", "save", "reap", "requeue", "pick", "epilogue"}

VARIABLES
  state,      \* SCHEDULER_THREADS[slot].state
  owner,      \* SCHEDULER_THREAD_OWNER_CPU
  affinity,   \* SCHEDULER_THREAD_AFFINITY_CPU
  saved,      \* SCHEDULER_THREADS[slot].saved_frame
  stack,      \* SCHEDULER_THREADS[slot].stack_physical_base
  current,    \* SCHEDULER_CPU_CURRENT_SLOT (SCHEDULER_CURRENT_SLOT for CPU 0)
  idleFrame,  \* SCHEDULER_CPU_IDLE_FRAME
  lock,       \* SCHEDULER_LOCK and the CPU that holds it
  probeDone,  \* SCHEDULER_BOOTSTRAP_PROBE_COMPLETE
  mode,       \* where each CPU is in the interrupt path
  phys,       \* the stack each CPU executes on
  resume,     \* the frame the interrupt stub will IRET to
  target,     \* local `slot` of the boot thread's create call
  pool,       \* the stacks the PMM can allocate
  bases, pages,          \* the stack cache, as in StackCache
  at, index, want, held  \* the create call inside it, as in StackCache

irqVars == <<mode, phys, resume>>
schedVars == <<state, owner, affinity, saved, stack, current, idleFrame, lock,
               probeDone, irqVars>>
stackVars == <<pool, bases, pages>>
createVars == <<target, at, index, want, held>>
vars == <<state, owner, affinity, saved, stack, current, idleFrame, lock,
          probeDone, irqVars, stackVars, createVars>>

\* The cache below the scheduler, between the PMM and the threads' stacks.
InUse == {stack[s] : s \in Slots} \ {NO_STACK}
Cache == INSTANCE StackCache WITH
  Capacity <- CacheCap, PagesOf <- [x \in Stacks |-> THREAD_STACK_PAGES],
  NoStack <- NO_STACK, free <- pool, used <- InUse

\* The variables shared with StackCache are typed there (Cache!CacheTypeOK).
TypeOK ==
  /\ state \in [Slots -> ThreadStates]
  /\ owner \in [Slots -> CPUs \cup {CPU_NONE}]
  /\ affinity \in [Slots -> CPUs \cup {AFFINITY_ANY}]
  /\ saved \in [Slots -> AllStacks \cup {NO_FRAME, STALE}]
  /\ stack \in [Slots -> Stacks \cup {NO_STACK}]
  /\ current \in [CPUs -> Slots \cup {INVALID_SLOT}]
  /\ idleFrame \in [CPUs -> AllStacks \cup {NO_FRAME, STALE}]
  /\ lock \in CPUs \cup {CPU_NONE}
  /\ probeDone \in BOOLEAN
  /\ mode \in [CPUs -> Modes]
  /\ phys \in [CPUs -> AllStacks]
  /\ resume \in [CPUs -> AllStacks \cup {NO_FRAME, STALE}]
  /\ target \in Dynamic \cup {INVALID_SLOT}

\* The state scheduler_initialize leaves: the boot thread runs on the BSP, the
\* idle thread has a prepared frame, every AP is in its idle runtime.
Init ==
  /\ state = [s \in Slots |-> IF s = BOOT_SLOT THEN "RUNNING"
                              ELSE IF s = IDLE_SLOT THEN "READY" ELSE "UNUSED"]
  /\ owner = [s \in Slots |-> IF s = BOOT_SLOT THEN BSP ELSE CPU_NONE]
  /\ affinity = [s \in Slots |-> IF s < FIRST_DYNAMIC THEN BSP ELSE AFFINITY_ANY]
  /\ saved = [s \in Slots |-> IF s = IDLE_SLOT THEN IDLE_STACK ELSE NO_FRAME]
  /\ stack = [s \in Slots |-> NO_STACK]
  /\ current = [c \in CPUs |-> IF c = BSP THEN BOOT_SLOT ELSE INVALID_SLOT]
  /\ idleFrame = [c \in CPUs |-> NO_FRAME]
  /\ lock = CPU_NONE
  /\ probeDone = FALSE
  /\ mode = [c \in CPUs |-> "task"]
  /\ phys = [c \in CPUs |-> RuntimeStack(c)]
  /\ resume = [c \in CPUs |-> NO_FRAME]
  /\ target = INVALID_SLOT
  /\ Cache!CacheInit

-----------------------------------------------------------------------------
(* The interrupt path.                                                     *)

\* Ownership of a dynamic thread that is no longer current on c is given up at
\* the NEXT interrupt of c, when the previous IRET has certainly happened.
Retiring == {"READY", "BLOCKED", "TERMINATED"}
FaultyConfirmedOwnerOfCurrent(c) ==
  [s \in Slots |-> IF s \in Dynamic /\ owner[s] = c /\ state[s] \in Retiring
                   THEN CPU_NONE ELSE owner[s]]
FaultyConfirmedOwnerKeepsExited(c) ==
  [s \in Slots |-> IF /\ s \in Dynamic /\ s # current[c] /\ owner[s] = c
                      /\ state[s] \in Retiring \ {"TERMINATED"}
                   THEN CPU_NONE ELSE owner[s]]
ConfirmedOwner(c) ==
  [s \in Slots |-> IF /\ s \in Dynamic /\ s # current[c] /\ owner[s] = c
                      /\ state[s] \in Retiring
                   THEN CPU_NONE ELSE owner[s]]

\* Timer, reschedule IPI or `int 0x43`: the stub pushes a frame, the handler
\* takes the switch lock and confirms the previous switch of this CPU.
IrqEnter(c) ==
  /\ mode[c] \in {"task", "handoff"}
  /\ lock = CPU_NONE
  /\ lock' = c
  /\ owner' = ConfirmedOwner(c)
  /\ mode' = [mode EXCEPT ![c] = "save"]
  /\ UNCHANGED <<state, affinity, saved, stack, current, idleFrame, probeDone,
                 phys, resume, stackVars, createVars>>

SaveBsp ==
  /\ mode[BSP] = "save"
  /\ saved' = [saved EXCEPT ![current[BSP]] = phys[BSP]]
  /\ mode' = [mode EXCEPT ![BSP] = "reap"]
  /\ UNCHANGED <<state, owner, affinity, stack, current, idleFrame, lock,
                 probeDone, phys, resume, stackVars, createVars>>

Reapable(s) ==
  /\ s \in Dynamic /\ s # current[BSP]
  /\ state[s] = "TERMINATED" /\ owner[s] = CPU_NONE

\* The stack goes back to the PMM when it is the most recent allocation (the
\* choice in Reap), else into the cache; if neither takes it, the slot waits.
FaultyStackReleased(s) ==
  \/ Cache!Reap(stack[s])
  \/ Cache!Full /\ UNCHANGED <<stackVars, at, index, want, held>>
StackReleased(s) == Cache!Reap(stack[s])

\* One iteration of the reaper's loop.
ReapSlot(s) ==
  /\ mode[BSP] = "reap"
  /\ Reapable(s) /\ stack[s] # NO_STACK
  /\ state' = [state EXCEPT ![s] = "UNUSED"]
  /\ saved' = [saved EXCEPT ![s] = NO_FRAME]
  /\ stack' = [stack EXCEPT ![s] = NO_STACK]
  /\ owner' = [owner EXCEPT ![s] = CPU_NONE]
  /\ affinity' = [affinity EXCEPT ![s] = AFFINITY_ANY]
  /\ UNCHANGED <<current, idleFrame, lock, probeDone, irqVars, target>>
  /\ StackReleased(s)

\* The loop ends; a slot whose stack neither the PMM nor the cache accepts
\* stays TERMINATED.
ReapDone ==
  /\ mode[BSP] = "reap"
  /\ \A s \in Slots : Reapable(s) =>
        stack[s] = NO_STACK \/ Cache!Full \/ stack[s] \in Cache!Cached
  /\ mode' = [mode EXCEPT ![BSP] = "requeue"]
  /\ UNCHANGED <<state, owner, affinity, saved, stack, current, idleFrame, lock,
                 probeDone, phys, resume, stackVars, createVars>>

\* scheduler_select_slot*: CR3 and bookkeeping; the frame is returned to the
\* stub, the lock released, and the stub still runs on the old stack.
Select(c, s) ==
  /\ current' = [current EXCEPT ![c] = s]
  /\ resume' = [resume EXCEPT ![c] = saved[s]]
  /\ mode' = [mode EXCEPT ![c] = "epilogue"]
  /\ lock' = CPU_NONE

\* The two bootstrap interrupts: boot -> idle -> boot.
ProbeSwitch(from, to) ==
  /\ mode[BSP] = "requeue" /\ ~probeDone /\ current[BSP] = from
  /\ saved[to] # NO_FRAME
  /\ state' = [state EXCEPT ![from] = "READY", ![to] = "RUNNING"]
  /\ owner' = [owner EXCEPT ![from] = CPU_NONE, ![to] = BSP]
  /\ probeDone' = (from = IDLE_SLOT)
  /\ Select(BSP, to)
  /\ UNCHANGED <<affinity, saved, stack, idleFrame, phys, stackVars, createVars>>

\* A preempted thread becomes READY.  Boot and idle also give up ownership,
\* a dynamic thread keeps it until the confirmation.
FaultyOwnerAfterRequeue(s) ==
  IF state[s] \in {"RUNNING", "BLOCKED"} THEN CPU_NONE ELSE owner[s]
FaultyOwnerAfterRequeueKept(s) == owner[s]
OwnerAfterRequeue(s) ==
  IF s < FIRST_DYNAMIC /\ state[s] \in {"RUNNING", "BLOCKED"} THEN CPU_NONE ELSE owner[s]

RequeueBsp ==
  /\ mode[BSP] = "requeue" /\ probeDone
  /\ LET cur == current[BSP] IN
     /\ state' = [state EXCEPT ![cur] = IF @ = "RUNNING" THEN "READY" ELSE @]
     /\ owner' = [owner EXCEPT ![cur] = OwnerAfterRequeue(cur)]
  /\ mode' = [mode EXCEPT ![BSP] = "pick"]
  /\ UNCHANGED <<affinity, saved, stack, current, idleFrame, lock, probeDone,
                 phys, resume, stackVars, createVars>>

\* An AP interrupted in its idle runtime renews the idle frame; otherwise the
\* thread's frame is saved and it becomes READY, still owned.
FaultyIdleFrameAtIrq(c) == IF idleFrame[c] = NO_FRAME THEN phys[c] ELSE idleFrame[c]
IdleFrameAtIrq(c) == phys[c]

SaveAp(c) ==
  /\ c # BSP /\ mode[c] = "save"
  /\ IF current[c] = INVALID_SLOT
     THEN /\ idleFrame' = [idleFrame EXCEPT ![c] = IdleFrameAtIrq(c)]
          /\ UNCHANGED <<saved, state>>
     ELSE /\ saved' = [saved EXCEPT ![current[c]] = phys[c]]
          /\ state' = [state EXCEPT ![current[c]] = IF @ = "RUNNING" THEN "READY" ELSE @]
          /\ UNCHANGED idleFrame
  /\ mode' = [mode EXCEPT ![c] = "pick"]
  /\ UNCHANGED <<owner, affinity, stack, current, lock, probeDone, phys, resume,
                 stackVars, createVars>>

\* scheduler_find_next_ready_*: who c may dispatch, and the first of them in
\* cyclic order after the current slot.  The AP's ring skips boot and idle.
FaultyEligibleOwned(c) ==
  {s \in (IF c = BSP THEN Slots \ {IDLE_SLOT} ELSE Dynamic) :
     /\ state[s] = "READY" /\ saved[s] # NO_FRAME
     /\ affinity[s] \in {AFFINITY_ANY, c}}
Eligible(c) ==
  {s \in (IF c = BSP THEN Slots \ {IDLE_SLOT} ELSE Dynamic) :
     /\ state[s] = "READY" /\ saved[s] # NO_FRAME
     /\ owner[s] = CPU_NONE
     /\ affinity[s] \in {AFFINITY_ANY, c}}

RingDistance(c, s) ==
  LET base == IF c = BSP THEN 0 ELSE FIRST_DYNAMIC
      size == NumSlots - base
      start == IF current[c] = INVALID_SLOT THEN base ELSE current[c] + 1
  IN  (s - start + 2 * size) % size

IsNextReady(c, s) ==
  /\ s \in Eligible(c)
  /\ \A t \in Eligible(c) : RingDistance(c, s) <= RingDistance(c, t)

PickReady(c, s) ==
  /\ mode[c] = "pick" /\ IsNextReady(c, s)
  /\ state' = [state EXCEPT ![s] = "RUNNING"]
  /\ owner' = [owner EXCEPT ![s] = c]
  /\ Select(c, s)
  /\ UNCHANGED <<affinity, saved, stack, idleFrame, probeDone, phys,
                 stackVars, createVars>>

\* Nobody is eligible: the BSP falls back to its idle thread...
PickIdleBsp ==
  /\ mode[BSP] = "pick" /\ Eligible(BSP) = {}
  /\ state' = [state EXCEPT ![IDLE_SLOT] = "RUNNING"]
  /\ owner' = [owner EXCEPT ![IDLE_SLOT] = BSP]
  /\ Select(BSP, IDLE_SLOT)
  /\ UNCHANGED <<affinity, saved, stack, idleFrame, probeDone, phys,
                 stackVars, createVars>>

\* ... and an AP to the frame of its idle runtime (or stays where it is).
PickIdleAp(c) ==
  /\ c # BSP /\ mode[c] = "pick" /\ Eligible(c) = {}
  /\ IF current[c] = INVALID_SLOT \/ idleFrame[c] = NO_FRAME
     THEN resume' = [resume EXCEPT ![c] = phys[c]] /\ UNCHANGED current
     ELSE /\ resume' = [resume EXCEPT ![c] = idleFrame[c]]
          /\ current' = [current EXCEPT ![c] = INVALID_SLOT]
  /\ mode' = [mode EXCEPT ![c] = "epilogue"]
  /\ lock' = CPU_NONE
  /\ UNCHANGED <<state, owner, affinity, saved, stack, idleFrame, probeDone, phys,
                 stackVars, createVars>>

\* IRET pops the frame: the CPU leaves its old stack, and every recorded
\* address of the popped frame is stale from now on.
Iret(c) ==
  /\ mode[c] = "epilogue"
  /\ phys' = [phys EXCEPT ![c] = resume[c]]
  /\ saved' = [s \in Slots |-> IF saved[s] = resume[c] THEN STALE ELSE saved[s]]
  /\ idleFrame' = [d \in CPUs |-> IF idleFrame[d] = resume[c] THEN STALE ELSE idleFrame[d]]
  /\ mode' = [mode EXCEPT ![c] = "task"]
  /\ UNCHANGED <<state, owner, affinity, stack, current, lock, probeDone, resume,
                 stackVars, createVars>>

-----------------------------------------------------------------------------
(* What the running threads call.  Every critical section below runs with   *)
(* IF=0 under the switch lock, so it is one step.                           *)

\* CPU c is executing the code of its current thread, which can call the API.
Executing(c) ==
  /\ mode[c] = "task"
  /\ current[c] \in Slots \ {IDLE_SLOT}
  /\ state[current[c]] # "TERMINATED"

\* Only the boot thread creates, and it stays on the BSP.
InCreate(c) == current[c] = BOOT_SLOT /\ target # INVALID_SLOT

BetweenCalls(c) == Executing(c) /\ ~InCreate(c)

ThreadStep(c) ==
  /\ BetweenCalls(c) /\ lock = CPU_NONE
  /\ UNCHANGED <<saved, stack, current, idleFrame, lock, probeDone, phys, resume,
                 stackVars, createVars>>

\* scheduler_block_current, then `sti; int 0x43`: the STI shadow keeps the
\* interrupt flag's effect away until the thread is in the scheduler.
FaultyModeAfterBlock == "task"
ModeAfterBlock == "handoff"

BlockCurrent(c) ==
  /\ ThreadStep(c)
  /\ state' = [state EXCEPT ![current[c]] = "BLOCKED"]
  /\ mode' = [mode EXCEPT ![c] = ModeAfterBlock]
  /\ UNCHANGED <<owner, affinity>>

\* thread_exit re-enables interrupts and spins; the syscall EXIT path schedules
\* within the same interrupt.
TerminateCurrent(c) ==
  /\ ThreadStep(c)
  /\ current[c] \in Dynamic
  /\ state[current[c]] = "RUNNING"
  /\ state' = [state EXCEPT ![current[c]] = "TERMINATED"]
  /\ \E m \in {"task", "handoff"} : mode' = [mode EXCEPT ![c] = m]
  /\ UNCHANGED <<owner, affinity>>

\* scheduler_wake_thread, from a thread or from the BSP's timer tick.  Wait
\* queues are BSP-only, and they alone hold the boot thread's id.
WakeThread(c, s) ==
  /\ mode[c] = "task" /\ lock = CPU_NONE
  /\ c = BSP \/ BetweenCalls(c)
  /\ s = BOOT_SLOT => c = BSP
  /\ s # IDLE_SLOT /\ state[s] = "BLOCKED"
  /\ state' = [state EXCEPT ![s] = "READY"]
  /\ UNCHANGED <<owner, affinity, saved, stack, current, idleFrame, lock, probeDone,
                 irqVars, stackVars, createVars>>

\* scheduler_set_thread_affinity and _any.
FaultyRepinnable(s) == s \in Dynamic /\ state[s] # "UNUSED" /\ saved[s] # NO_FRAME
Repinnable(s) == s \in Dynamic /\ state[s] = "READY" /\ saved[s] # NO_FRAME

SetAffinity(c, s, a) ==
  /\ ThreadStep(c)
  /\ Repinnable(s)
  /\ affinity' = [affinity EXCEPT ![s] = a]
  /\ UNCHANGED <<state, owner, mode>>

\* scheduler_create_kernel_thread_with_affinity, first part: on the BSP, IF=1,
\* no lock.  The call may be interrupted after every step.
CreateFind ==
  /\ BetweenCalls(BSP) /\ current[BSP] = BOOT_SLOT
  /\ \E t \in Dynamic :
       /\ state[t] = "UNUSED"
       /\ \A u \in Dynamic : u < t => state[u] # "UNUSED"
       /\ target' = t
  /\ UNCHANGED schedVars
  /\ Cache!Create(THREAD_STACK_PAGES)

Creating == Executing(BSP) /\ InCreate(BSP)

\* A step of the call inside the cache or the PMM; it may be its last one.
CreateStep(A) ==
  /\ Creating
  /\ UNCHANGED schedVars
  /\ A
  /\ target' = IF at' = "idle" THEN INVALID_SLOT ELSE target

CreateTakeStack ==
  CreateStep(Cache!Look \/ Cache!ClearBase \/ Cache!ClearPages \/ Cache!Allocate)

\* The stack is not in the direct map, its frame cannot be prepared, or the slot
\* is in use after all: it goes back, again with IF=1 and without the lock.
CreateGiveBack ==
  CreateStep(Cache!GiveBack \/ Cache!PutFind \/ Cache!StoreBase \/ Cache!StorePages)

\* Second part, IF=0 under the lock: READY and the affinity are published
\* together.
CreatePublish(a) ==
  /\ Creating /\ lock = CPU_NONE
  /\ state[target] = "UNUSED"
  /\ state' = [state EXCEPT ![target] = "READY"]
  /\ saved' = [saved EXCEPT ![target] = held]
  /\ stack' = [stack EXCEPT ![target] = held]
  /\ owner' = [owner EXCEPT ![target] = CPU_NONE]
  /\ affinity' = [affinity EXCEPT ![target] = a]
  /\ target' = INVALID_SLOT
  /\ UNCHANGED <<current, idleFrame, lock, probeDone, irqVars>>
  /\ Cache!Publish

-----------------------------------------------------------------------------
Interrupt(c) ==
  \/ IrqEnter(c)
  \/ c = BSP /\ SaveBsp
  \/ c = BSP /\ \E s \in Dynamic : ReapSlot(s)
  \/ c = BSP /\ ReapDone
  \/ c = BSP /\ ProbeSwitch(BOOT_SLOT, IDLE_SLOT)
  \/ c = BSP /\ ProbeSwitch(IDLE_SLOT, BOOT_SLOT)
  \/ c = BSP /\ RequeueBsp
  \/ SaveAp(c)
  \/ \E s \in Slots : PickReady(c, s)
  \/ c = BSP /\ PickIdleBsp
  \/ PickIdleAp(c)
  \/ Iret(c)

Call(c) ==
  \/ BlockCurrent(c)
  \/ TerminateCurrent(c)
  \/ \E s \in Slots : WakeThread(c, s)
  \/ \E s \in Dynamic, a \in Pins : SetAffinity(c, s, a)

Creation ==
  \/ CreateFind
  \/ CreateTakeStack
  \/ \E a \in Pins : CreatePublish(a)
  \/ CreateGiveBack

Next == (\E c \in CPUs : Interrupt(c) \/ Call(c)) \/ Creation

Spec == Init /\ [][Next]_vars
-----------------------------------------------------------------------------
(* Safety.                                                                 *)

\* The stacks a CPU executes on, or will after its pending IRET.
Uses(c) == {phys[c]} \cup (IF mode[c] = "epilogue" THEN {resume[c]} ELSE {})

\* No two CPUs are ever on one stack, counting the stack an interrupt epilogue
\* is about to leave and the one it is about to enter (core.sotlas:188-192).
StackExclusive ==
  \A c, d \in CPUs : c # d => Uses(c) \cap Uses(d) = {}

\* A CPU on an allocatable stack is the owner of the thread that stack belongs
\* to: the reaper, the cache, the PMM and a create call never hold it.
StackInUseIsOwned ==
  \A c \in CPUs : \A x \in Uses(c) \cap Stacks :
    \E s \in Dynamic : stack[s] = x /\ owner[s] = c /\ state[s] # "UNUSED"

\* A frame is consumed once: the stub never returns to an address whose frame
\* was popped already (the AP's idle frame is renewed at every idle interrupt).
ResumeIsFresh ==
  \A c \in CPUs : mode[c] = "epilogue" => resume[c] \in AllStacks

\* Who has a stack.  While the create call clears or has just written the entry
\* that names its stack, the two are one holder.
Holders(x) ==
  {<<"slot", s>> : s \in {t \in Slots : stack[t] = x}}
  \cup {<<"entry", e>> : e \in {f \in Cache!Entries : bases[f] = x}}
  \cup (IF x \in pool THEN {<<"pool", 0>>} ELSE {})
  \cup (IF held = x /\ at \notin {"clearBase", "storePages"} THEN {<<"call", 0>>} ELSE {})

\* Somebody will use the stack or recycle it: an entry of size 0 is never taken.
Reachable(x) ==
  \/ x \in pool \cup InUse \cup {held}
  \/ \E e \in Cache!Entries : bases[e] = x /\ pages[e] # 0

\* The places where the unlocked cache loses a stack: the creator clears the
\* size of an entry the reaper has just filled, its put overwrites such an entry,
\* or finds the cache full.
LostByCreator(x) ==
  \/ at \in {"clearPages", "storeBase"} /\ bases[index] = x
  \/ at = "put" /\ held = x

\* A thread stack never gets a second holder, so it is not handed out or freed
\* twice, and it is never lost but by the creator's own unlocked stores: not by
\* the reaper when the PMM and the cache refuse it, and not by a creation that
\* is interrupted, completes or fails.
StacksKeepOneHolder ==
  [][\A x \in Stacks :
       /\ Cardinality(Holders(x)') <= 1
       /\ Reachable(x) /\ ~Reachable(x)' => LostByCreator(x)]_vars

\* While a CPU executes a thread's code that thread is RUNNING there, or has
\* exited: terminate_current never refuses, so thread_exit never hangs the CPU
\* with interrupts off (core.sotlas:806-825).
ExecutingIsRunning ==
  \A c \in CPUs :
    mode[c] = "task" /\ current[c] # INVALID_SLOT =>
      /\ state[current[c]] \in {"RUNNING", "TERMINATED"}
      /\ owner[current[c]] = c

\* A thread runs only where its affinity allows, even when other CPUs re-pin
\* threads that are between two dispatches.
RunsWhereAllowed ==
  \A c \in CPUs, s \in Slots :
    current[c] = s /\ state[s] = "RUNNING" => affinity[s] \in {AFFINITY_ANY, c}

\* An owner is given up only by the CPU that has it, and only for a stack that
\* this CPU has left physically; it never passes from one CPU to another.
OwnershipIsTwoPhase ==
  [][\A s \in Dynamic :
       owner[s] # CPU_NONE /\ owner'[s] # owner[s] =>
         owner'[s] = CPU_NONE /\ stack[s] \notin Uses(owner[s])]_vars

\* The scheduler implements ContextHandoff: the stacks a CPU is on and moving
\* to, and the contexts of the threads that exist.
MovingTo == [c \in CPUs |-> IF mode[c] = "epilogue" THEN resume[c] ELSE phys[c]]
LiveContexts ==
  (AllStacks \ Stacks) \cup {stack[s] : s \in {t \in Dynamic : state[t] # "UNUSED"}}

Handoff == INSTANCE ContextHandoff WITH
  CPU <- CPUs, Context <- AllStacks, Start <- RuntimeStack,
  at <- phys, to <- MovingTo, live <- LiveContexts

\* Every behaviour of the scheduler is a behaviour of ContextHandoff.
ImplementsHandoff == Handoff!Spec

-----------------------------------------------------------------------------
(* The inductive invariant behind the safety properties (SchedulerProofs).  *)

Home(s) == IF s = BOOT_SLOT THEN RuntimeStack(BSP)
           ELSE IF s = IDLE_SLOT THEN IDLE_STACK ELSE stack[s]
HomeOfCurrent(c) ==
  IF current[c] = INVALID_SLOT THEN RuntimeStack(c) ELSE Home(current[c])

\* The switch lock is held exactly by the CPU inside the scheduler.
LockInv ==
  \A c \in CPUs :
    /\ mode[c] \in {"save", "reap", "requeue", "pick"} <=> lock = c
    /\ mode[c] \in {"reap", "requeue"} => c = BSP

\* Where the scheduler believes a CPU is, and who owns what runs there.
CurrentInv ==
  /\ current[BSP] \in Slots
  /\ \A c \in CPUs \ {BSP} : current[c] \in Dynamic \cup {INVALID_SLOT}
  /\ \A c \in CPUs : current[c] \in Dynamic => owner[current[c]] = c
  /\ \A s \in Slots \ Dynamic : /\ owner[s] \in {BSP, CPU_NONE}
                               /\ affinity[s] = BSP
                               /\ state[s] \in {"READY", "RUNNING", "BLOCKED"}
  /\ state[IDLE_SLOT] \in {"READY", "RUNNING"}

\* What the state of a current slot can be at each point of its CPU.
RunInv ==
  /\ \A c \in CPUs : current[c] # INVALID_SLOT =>
       LET st == state[current[c]] IN
       /\ st # "UNUSED"
       /\ mode[c] = "task" => st \in {"RUNNING", "TERMINATED"}
       /\ mode[c] \in {"task", "epilogue"} => owner[current[c]] = c
       /\ mode[c] = "epilogue" => st = "RUNNING"
       /\ mode[c] = "pick" => st # "RUNNING"
       /\ st = "RUNNING" => affinity[current[c]] \in {AFFINITY_ANY, c}
  /\ \A c \in CPUs : mode[c] = "handoff" => current[c] # INVALID_SLOT
  /\ \A s \in Slots : state[s] = "RUNNING" => \E c \in CPUs : current[c] = s
  /\ \A s \in Slots : state[s] = "UNUSED" => owner[s] = CPU_NONE

\* A stack c may be on: its own, or one whose thread it owns.
Entitled(c, x) ==
  \/ x = RuntimeStack(c)
  \/ c = BSP /\ x = IDLE_STACK
  \/ \E s \in Dynamic : stack[s] = x /\ x # NO_STACK /\ owner[s] = c

PlaceInv ==
  \A c \in CPUs :
    /\ Entitled(c, phys[c])
    /\ IF mode[c] = "epilogue" THEN resume[c] = HomeOfCurrent(c)
                               ELSE phys[c] = HomeOfCurrent(c)

\* A saved frame lies on the thread's own stack, and it is fresh unless the
\* thread is executing (or has not reached the save yet).
FrameInv ==
  /\ \A s \in Slots : /\ saved[s] \in {NO_FRAME, STALE, Home(s)}
                      /\ state[s] \in {"READY", "BLOCKED"} =>
                           \/ saved[s] = Home(s)
                           \/ \E c \in CPUs : current[c] = s /\ mode[c] \in {"handoff", "save"}
  /\ mode[BSP] \in {"reap", "requeue", "pick"} => saved[current[BSP]] = Home(current[BSP])
  /\ \A c \in CPUs : idleFrame[c] \in {NO_FRAME, STALE, RuntimeStack(c)}
  /\ \A c \in CPUs \ {BSP} :
       current[c] # INVALID_SLOT \/ mode[c] = "pick" => idleFrame[c] = RuntimeStack(c)

\* Exactly the dynamic slots in use have a stack, each its own, and a create
\* call has a slot.  Cache!CacheIInv says what the cache and the call hold.
StackInv ==
  /\ \A s \in Slots : stack[s] = NO_STACK <=> (s \notin Dynamic \/ state[s] = "UNUSED")
  /\ \A s, t \in Slots : stack[s] = stack[t] /\ stack[s] # NO_STACK => s = t
  /\ target = INVALID_SLOT <=> at = "idle"

IInv == /\ TypeOK /\ LockInv /\ CurrentInv /\ RunInv
        /\ PlaceInv /\ FrameInv /\ StackInv /\ Cache!CacheIInv

-----------------------------------------------------------------------------
(* Liveness: every CPU keeps taking timer interrupts and its spinning for   *)
(* the switch lock succeeds eventually; the rest of a handler is sequential *)
(* code.                                                                    *)
Fairness ==
  \A c \in CPUs : /\ SF_vars(IrqEnter(c))
                  /\ WF_vars(Interrupt(c) /\ mode[c] \notin {"task", "handoff"})

FairSpec == Spec /\ Fairness

\* A READY thread is dispatched eventually.
ReadyIsDispatched ==
  \A s \in Slots \ {IDLE_SLOT} : state[s] = "READY" ~> state[s] # "READY"

\* A terminated thread's slot and stack are recovered eventually, whatever CPU
\* it exited on.
TerminatedIsReaped ==
  \A s \in Dynamic : state[s] = "TERMINATED" ~> state[s] = "UNUSED"
=============================================================================
