---- MODULE ProcessLifetime ----
(***************************************************************************)
(* The lifetime of processes: process/registry.sotlas with the address     *)
(* spaces below it, the process threads of scheduler/core.sotlas that load *)
(* their roots, and the system calls that read their pages.                *)
(*                                                                         *)
(* A process is a set of page tables that CPUs use behind the registry's   *)
(* back: CR3 and the TLBs refer to it while no lock is held.  Two counts   *)
(* keep it alive, one of threads (refs) and one of changes that still wait *)
(* for a TLB shootdown (pins); its frames are reused as soon as a change   *)
(* has returned.                                                           *)
(*                                                                         *)
(* Callers are kernel threads that call the registry; they run with the    *)
(* kernel's root, so the destroyer's look at its own CR3 never refuses.    *)
(* Each section under PROCESS_REGISTRY_LOCK is one step, and so is an      *)
(* interrupt, which holds the scheduler's lock from its first to its last  *)
(* access; the two-phase switch below it is the subject of Scheduler, the  *)
(* protocol of a shootdown that of TlbShootdown.                           *)
(***************************************************************************)
EXTENDS Integers, FiniteSets

CONSTANTS
  NumCPUs,       \* the BSP is CPU 0
  Threads,       \* dynamic slots of the scheduler
  Callers,
  Roots,         \* blocks of four pages the PMM has for page tables
  Frames,        \* pages it has for user memory
  Addresses,     \* user pages
  KernelRoot,    \* SCHEDULER_KERNEL_ROOT
  ProcessSlots,  \* PROCESS_SLOT_COUNT
  MaxPid,        \* bound on PROCESS_NEXT_ID
  None           \* no root, frame, thread, CPU, address

CPUs == 0 .. NumCPUs - 1
BSP == 0
ANY == -1       \* SCHEDULER_CPU_AFFINITY_ANY
Pids == 1 .. MaxPid

ASSUME ProcessAssumption ==
  /\ NumCPUs \in Nat \ {0}
  /\ ProcessSlots \in Nat
  /\ MaxPid \in Nat
  /\ IsFiniteSet(Threads) /\ IsFiniteSet(Callers)
  /\ KernelRoot \notin Roots
  /\ None \notin Roots \cup {KernelRoot} \cup Frames \cup Addresses \cup Threads \cup CPUs

VARIABLES
  nextId,      \* PROCESS_NEXT_ID
  space,       \* PROCESS_SPACES: the root of a registered process
  refs,        \* PROCESS_REFERENCES
  pins,        \* PROCESS_VM_PINS
  freeRoots, freeFrames,               \* what the PMM can hand out
  pte,         \* [Roots -> [Addresses -> frame]], the user entries of a root
  state, owner, affinity, pid, root,   \* per thread: SCHEDULER_THREADS and owner/affinity
  current,     \* the process thread a CPU runs, None for a thread of the kernel
  cr3,
  tlb,         \* [CPUs -> [Addresses -> frame]]
  reading,     \* the frame a system call reads through the direct map
  call         \* what each caller is doing

registryVars == <<nextId, space, refs, pins>>
memoryVars == <<freeRoots, freeFrames, pte>>
threadVars == <<state, owner, affinity, pid, root>>
cpuVars == <<current, cr3, tlb, reading>>
vars == <<registryVars, memoryVars, threadVars, cpuVars, call>>

Creating == {"retained", "borrowed", "created"}
Changing == {"changed", "sent"}
Calls ==
  [at : {"idle", "holding"} \cup Creating \cup Changing, pid : Pids \cup {0},
   root : Roots \cup {None}, arg : Addresses \cup Threads \cup {None},
   old : Frames \cup {None}, waiting : SUBSET CPUs]
Idle == [at |-> "idle", pid |-> 0, root |-> None, arg |-> None, old |-> None, waiting |-> {}]

TypeOK ==
  /\ nextId \in 1 .. MaxPid + 1
  /\ space \in [Pids -> Roots \cup {None}]
  /\ refs \in [Pids -> Nat]
  /\ pins \in [Pids -> Nat]
  /\ freeRoots \subseteq Roots
  /\ freeFrames \subseteq Frames
  /\ pte \in [Roots -> [Addresses -> Frames \cup {None}]]
  /\ state \in [Threads -> {"UNUSED", "READY", "RUNNING", "TERMINATED"}]
  /\ owner \in [Threads -> CPUs \cup {None}]
  /\ affinity \in [Threads -> CPUs \cup {ANY}]
  /\ pid \in [Threads -> Pids \cup {0}]
  /\ root \in [Threads -> Roots \cup {None}]
  /\ current \in [CPUs -> Threads \cup {None}]
  /\ cr3 \in [CPUs -> Roots \cup {KernelRoot}]
  /\ tlb \in [CPUs -> [Addresses -> Frames \cup {None}]]
  /\ reading \in [CPUs -> Frames \cup {None}]
  /\ call \in [Callers -> Calls]

Init ==
  /\ nextId = 1
  /\ space = [p \in Pids |-> None]
  /\ refs = [p \in Pids |-> 0]
  /\ pins = [p \in Pids |-> 0]
  /\ freeRoots = Roots
  /\ freeFrames = Frames
  /\ pte = [r \in Roots |-> [a \in Addresses |-> None]]
  /\ state = [t \in Threads |-> "UNUSED"]
  /\ owner = [t \in Threads |-> None]
  /\ affinity = [t \in Threads |-> ANY]
  /\ pid = [t \in Threads |-> 0]
  /\ root = [t \in Threads |-> None]
  /\ current = [c \in CPUs |-> None]
  /\ cr3 = [c \in CPUs |-> KernelRoot]
  /\ tlb = [c \in CPUs |-> [a \in Addresses |-> None]]
  /\ reading = [c \in CPUs |-> None]
  /\ call = [k \in Callers |-> Idle]

\* process_find_locked
Registered(p) == p \in Pids /\ space[p] # None

\* IF=0: a system call, or the BSP while it creates a process thread.
Masked(c) ==
  \/ reading[c] # None
  \/ c = BSP /\ \E k \in Callers : call[k].at \in Creating

-----------------------------------------------------------------------------
(* The registry *)

\* process_create with process_address_space_create, which zeroes the tables.
Create(r) ==
  /\ nextId <= MaxPid
  /\ Cardinality({p \in Pids : Registered(p)}) < ProcessSlots
  /\ r \in freeRoots
  /\ freeRoots' = freeRoots \ {r}
  /\ pte' = [pte EXCEPT ![r] = [a \in Addresses |-> None]]
  /\ space' = [space EXCEPT ![nextId] = r]
  /\ nextId' = nextId + 1
  /\ UNCHANGED <<refs, pins, freeFrames, threadVars, cpuVars, call>>

\* process_destroy_locked and process_address_space_destroy.
FaultyDestroyable(p) ==
  /\ Registered(p)
  /\ refs[p] = 0
  /\ \A a \in Addresses : pte[space[p]][a] = None
Destroyable(p) ==
  /\ Registered(p)
  /\ refs[p] = 0
  /\ pins[p] = 0
  /\ \A a \in Addresses : pte[space[p]][a] = None

Destroy(p) ==
  /\ Destroyable(p)
  /\ freeRoots' = freeRoots \cup {space[p]}
  /\ space' = [space EXCEPT ![p] = None]
  /\ UNCHANGED <<nextId, refs, pins, freeFrames, pte, threadVars, cpuVars, call>>

\* A caller's own reference (process_retain, process_release), as the migration
\* probe holds one while a thread is created.
Hold(k, p) ==
  /\ call[k].at = "idle"
  /\ Registered(p)
  /\ refs' = [refs EXCEPT ![p] = @ + 1]
  /\ call' = [call EXCEPT ![k] = [Idle EXCEPT !.at = "holding", !.pid = p]]
  /\ UNCHANGED <<nextId, space, pins, memoryVars, threadVars, cpuVars>>

Drop(k) ==
  /\ call[k].at = "holding"
  /\ Registered(call[k].pid)
  /\ refs[call[k].pid] > 0
  /\ refs' = [refs EXCEPT ![call[k].pid] = @ - 1]
  /\ call' = [call EXCEPT ![k] = Idle]
  /\ UNCHANGED <<nextId, space, pins, memoryVars, threadVars, cpuVars>>

-----------------------------------------------------------------------------
(* Changes of user pages: process_map, remap and unmap_user_page *)

\* The section under the registry lock: the process is pinned and the entry
\* written.  old is the frame the call will return.
Change(k, p, a, new, old) ==
  /\ call[k].at = "idle"
  /\ Registered(p)
  /\ pte[space[p]][a] = old
  /\ pte' = [pte EXCEPT ![space[p]][a] = new]
  /\ pins' = [pins EXCEPT ![p] = @ + 1]
  /\ call' = [call EXCEPT ![k] = [at |-> "changed", pid |-> p, root |-> space[p], arg |-> a,
                                  old |-> old, waiting |-> {}]]
  /\ freeFrames' = freeFrames \ {new}
  /\ UNCHANGED <<nextId, space, refs, freeRoots, threadVars, cpuVars>>

\* The mapped frame was just allocated (pmm_alloc_page).
MapPage(k, p, a, f) == f \in freeFrames /\ Change(k, p, a, f, None)
RemapPage(k, p, a, f, g) == f \in freeFrames /\ Change(k, p, a, f, g)
UnmapPage(k, p, a, g) == Change(k, p, a, None, g)

\* tlb_shootdown_address_space_page interrupts the CPUs that have the root,
FaultyTargets(r) == {c \in CPUs : cr3[c] = r /\ state[current[c]] = "RUNNING"}
Targets(r) == {c \in CPUs : cr3[c] = r}
Send(k) ==
  /\ call[k].at = "changed"
  /\ call' = [call EXCEPT ![k] = [@ EXCEPT !.at = "sent", !.waiting = Targets(call[k].root)]]
  /\ UNCHANGED <<registryVars, memoryVars, threadVars, cpuVars>>

\* and they answer as soon as their interrupts are enabled.
Acknowledge(k, c) ==
  /\ c \in call[k].waiting
  /\ ~Masked(c)
  /\ tlb' = [tlb EXCEPT ![c][call[k].arg] = IF cr3[c] = call[k].root THEN None ELSE @]
  /\ call' = [call EXCEPT ![k].waiting = @ \ {c}]
  /\ UNCHANGED <<registryVars, memoryVars, threadVars, current, cr3, reading>>

\* process_vm_unpin; the caller gives the returned frame to the PMM
\* (userspace_release_frames), at once in the worst case.
Unpin(k) ==
  /\ call[k].at = "sent"
  /\ call[k].waiting = {}
  /\ Registered(call[k].pid)
  /\ pins[call[k].pid] > 0
  /\ pins' = [pins EXCEPT ![call[k].pid] = @ - 1]
  /\ freeFrames' = freeFrames \cup ({call[k].old} \ {None})
  /\ call' = [call EXCEPT ![k] = Idle]
  /\ UNCHANGED <<nextId, space, refs, freeRoots, pte, threadVars, cpuVars>>

-----------------------------------------------------------------------------
(* scheduler_create_process_thread: on the BSP, with IF=0 throughout *)

Retain(k, p) ==
  /\ call[k].at = "idle"
  /\ current[BSP] = None
  /\ ~Masked(BSP)
  /\ Registered(p)
  /\ refs' = [refs EXCEPT ![p] = @ + 1]
  /\ call' = [call EXCEPT ![k] = [Idle EXCEPT !.at = "retained", !.pid = p]]
  /\ UNCHANGED <<nextId, space, pins, memoryVars, threadVars, cpuVars>>

\* process_borrow_root; it finds the process because the reference is held.
Borrow(k) ==
  /\ call[k].at = "retained"
  /\ Registered(call[k].pid)
  /\ refs[call[k].pid] # 0
  /\ call' = [call EXCEPT ![k] = [@ EXCEPT !.at = "borrowed", !.root = space[call[k].pid]]]
  /\ UNCHANGED <<registryVars, memoryVars, threadVars, cpuVars>>

\* scheduler_create_kernel_thread_with_affinity publishes a READY thread of the
\* kernel, pinned to this CPU.
FaultyBirthAffinity == ANY
BirthAffinity == BSP
CreateBase(k, t) ==
  /\ call[k].at = "borrowed"
  /\ state[t] = "UNUSED"
  /\ state' = [state EXCEPT ![t] = "READY"]
  /\ owner' = [owner EXCEPT ![t] = None]
  /\ affinity' = [affinity EXCEPT ![t] = BirthAffinity]
  /\ pid' = [pid EXCEPT ![t] = 0]
  /\ root' = [root EXCEPT ![t] = None]
  /\ call' = [call EXCEPT ![k] = [@ EXCEPT !.at = "created", !.arg = t]]
  /\ UNCHANGED <<registryVars, memoryVars, cpuVars>>

\* No slot or no stack is left: the reference is given back.
FaultyAfterFailure(p) == refs
AfterFailure(p) == [refs EXCEPT ![p] = @ - 1]
CreateFails(k) ==
  /\ call[k].at = "borrowed"
  /\ Registered(call[k].pid)
  /\ refs[call[k].pid] > 0
  /\ refs' = AfterFailure(call[k].pid)
  /\ call' = [call EXCEPT ![k] = Idle]
  /\ UNCHANGED <<nextId, space, pins, memoryVars, threadVars, cpuVars>>

\* The process is attached under the scheduler's lock; the _any and _on_cpu
\* wrappers then publish another affinity before IF is restored.
Attach(k, where) ==
  LET t == call[k].arg IN
  /\ call[k].at = "created"
  /\ pid' = [pid EXCEPT ![t] = call[k].pid]
  /\ root' = [root EXCEPT ![t] = call[k].root]
  /\ affinity' = [affinity EXCEPT ![t] = where]
  /\ call' = [call EXCEPT ![k] = Idle]
  /\ UNCHANGED <<registryVars, memoryVars, state, owner, cpuVars>>

-----------------------------------------------------------------------------
(* The CPUs *)

\* scheduler_confirm_switched_away_for_cpu
Confirmed(c) ==
  [t \in Threads |-> IF t # current[c] /\ owner[t] = c /\ state[t] \in {"READY", "TERMINATED"}
                     THEN None ELSE owner[t]]

\* scheduler_reap_terminated_noncurrent, given the owners that are left.
FaultyReapable(left) == {t \in Threads : state[t] = "TERMINATED" /\ t # current[BSP]}
Reapable(left) ==
  {t \in Threads : state[t] = "TERMINATED" /\ left[t] = None /\ t # current[BSP]}

\* The references process_release takes back for the threads of R.
Released(R) == [p \in Pids |-> refs[p] - Cardinality({t \in R : pid[t] = p})]

\* scheduler_select_any_slot, or a thread of the kernel (the idle runtime on an
\* AP), which is always there.
Selectable(c, left) ==
  {t \in Threads : state[t] = "READY" /\ left[t] = None /\ affinity[t] \in {ANY, c}} \cup {None}

\* scheduler_thread_root: threads of the kernel have the kernel's.
RootToLoad(t) == IF t = None \/ pid[t] = 0 THEN KernelRoot ELSE root[t]

\* A timer interrupt or IPI: scheduler_on_timer_interrupt.  A thread whose
\* stack nobody can take stays TERMINATED, so only some are reaped.
ReapAndSwitch(c, R, next) ==
  LET left == Confirmed(c) IN
  /\ ~Masked(c)
  /\ c = BSP \/ R = {}
  /\ R \subseteq Reapable(left)
  /\ next \in Selectable(c, left)
  /\ refs' = Released(R)
  /\ state' = [t \in Threads |->
                 CASE t \in R -> "UNUSED"
                   [] t = next -> "RUNNING"
                   [] t = current[c] /\ state[t] = "RUNNING" -> "READY"
                   [] OTHER -> state[t]]
  /\ owner' = [t \in Threads |-> IF t = next THEN c ELSE left[t]]
  /\ affinity' = [t \in Threads |-> IF t \in R THEN ANY ELSE affinity[t]]
  /\ pid' = [t \in Threads |-> IF t \in R THEN 0 ELSE pid[t]]
  /\ root' = [t \in Threads |-> IF t \in R THEN None ELSE root[t]]
  /\ current' = [current EXCEPT ![c] = next]
  /\ cr3' = [cr3 EXCEPT ![c] = RootToLoad(next)]
  /\ tlb' = [tlb EXCEPT ![c] = IF RootToLoad(next) = cr3[c] THEN @ ELSE [a \in Addresses |-> None]]
  /\ UNCHANGED <<nextId, space, pins, memoryVars, reading, call>>

Interrupt(c) ==
  \E R \in SUBSET Threads, next \in Threads \cup {None} : ReapAndSwitch(c, R, next)

\* scheduler_terminate_current: an exit, an exception, a returning entry.
Exit(c) ==
  /\ current[c] # None
  /\ ~Masked(c)
  /\ state[current[c]] = "RUNNING"
  /\ state' = [state EXCEPT ![current[c]] = "TERMINATED"]
  /\ UNCHANGED <<registryVars, memoryVars, owner, affinity, pid, root, cpuVars, call>>

\* The MMU caches the entry of a page the thread uses.
Fill(c, a) ==
  /\ current[c] # None
  /\ cr3[c] \in Roots
  /\ tlb[c][a] = None
  /\ pte[cr3[c]][a] # None
  /\ tlb' = [tlb EXCEPT ![c][a] = pte[cr3[c]][a]]
  /\ UNCHANGED <<registryVars, memoryVars, threadVars, current, cr3, reading, call>>

\* A system call finds its process by CR3 (process_current_id) and takes the
\* frame of a page from its entry (user_copy_page_pte, process_user_pte); the
\* lock is released before the frame is read.
StartCopy(c, a) ==
  /\ current[c] # None
  /\ state[current[c]] = "RUNNING"
  /\ ~Masked(c)
  /\ \E p \in Pids : Registered(p) /\ space[p] = cr3[c]
  /\ pte[cr3[c]][a] # None
  /\ reading' = [reading EXCEPT ![c] = pte[cr3[c]][a]]
  /\ UNCHANGED <<registryVars, memoryVars, threadVars, current, cr3, tlb, call>>

EndCopy(c) ==
  /\ reading[c] # None
  /\ reading' = [reading EXCEPT ![c] = None]
  /\ UNCHANGED <<registryVars, memoryVars, threadVars, current, cr3, tlb, call>>

-----------------------------------------------------------------------------
Registry ==
  \/ \E r \in Roots : Create(r)
  \/ \E p \in Pids : Destroy(p)

Caller(k) ==
  \/ \E p \in Pids : Hold(k, p) \/ Retain(k, p)
  \/ Drop(k)
  \/ \E p \in Pids, a \in Addresses, f \in Frames : MapPage(k, p, a, f) \/ UnmapPage(k, p, a, f)
  \/ \E p \in Pids, a \in Addresses, f, g \in Frames : RemapPage(k, p, a, f, g)
  \/ Send(k)
  \/ \E c \in CPUs : Acknowledge(k, c)
  \/ Unpin(k)
  \/ Borrow(k)
  \/ \E t \in Threads : CreateBase(k, t)
  \/ CreateFails(k)
  \/ \E where \in CPUs \cup {ANY} : Attach(k, where)

Cpu(c) ==
  \/ Interrupt(c)
  \/ Exit(c)
  \/ \E a \in Addresses : Fill(c, a) \/ StartCopy(c, a)
  \/ EndCopy(c)

Next == Registry \/ (\E k \in Callers : Caller(k)) \/ (\E c \in CPUs : Cpu(c))

Spec == Init /\ [][Next]_vars

-----------------------------------------------------------------------------
(* Properties *)

\* A root some CPU has loaded belongs to a process that is registered and
\* referenced: its tables are not freed, nor reused for another process
\* (process_address_space_destroy looks only at the CR3 of its own CPU).
LoadedRootsLive ==
  \A c \in CPUs : cr3[c] # KernelRoot => \E p \in Pids : space[p] = cr3[c] /\ refs[p] > 0

\* The counts are exact: every thread, creation in progress and caller with a
\* reference is counted once, every change in progress is pinned once.  So no
\* process_release or process_vm_unpin fails, which would stop its CPU for
\* ever, and no process stays undestroyable.
ThreadsOf(p) == {t \in Threads : pid[t] = p}
CallersWith(p) == {k \in Callers : call[k].at \in {"holding"} \cup Creating /\ call[k].pid = p}
ChangesOf(p) == {k \in Callers : call[k].at \in Changing /\ call[k].pid = p}
HoldersAreCounted ==
  \A p \in Pids :
    /\ refs[p] = Cardinality(ThreadsOf(p)) + Cardinality(CallersWith(p))
    /\ pins[p] = Cardinality(ChangesOf(p))

\* From the change of an entry to the end of its shootdown the process keeps
\* its tables, so the request is sent for the root that was changed.
ChangesKeepTheirSpace ==
  \A k \in Callers : call[k].at \in Changing => space[call[k].pid] = call[k].root

\* A CPU that runs a process thread has the root of that thread's process, so a
\* system call that looks up its process by CR3 finds the right one; a thread
\* never runs before its process is attached.
ThreadsRunInTheirSpace ==
  \A c \in CPUs : current[c] # None =>
    /\ pid[current[c]] # 0
    /\ cr3[c] = space[pid[current[c]]]

\* A frame the PMM can hand out again is mapped by no process, cached by no CPU
\* and read by no system call.
FreeFramesAreUnused ==
  \A f \in freeFrames :
    /\ \A p \in Pids, a \in Addresses : Registered(p) => pte[space[p]][a] # f
    /\ \A c \in CPUs : reading[c] # f /\ \A a \in Addresses : tlb[c][a] # f
====
