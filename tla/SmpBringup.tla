----------------------------- MODULE SmpBringup -----------------------------
(***************************************************************************)
(* How the kernel gets its processors (arch/x86_64/smp.sotlas with the     *)
(* trampoline page of smp_trampoline.sotlas) and how they join and leave   *)
(* the shootdowns (memory/tlb_shootdown.sotlas).                           *)
(*                                                                         *)
(* The BSP starts one AP after the other: it takes a stack, writes stack   *)
(* and flag address into the one trampoline page, sends INIT and SIPI, and *)
(* waits for two flags.  An AP can die or be late anywhere, so each wait   *)
(* has a time limit; after the first failure the kernel goes on without    *)
(* any AP, while those that were started still run towards their flags.    *)
(* APs that all came up stay parked with IF=0 until the scheduler releases *)
(* them.                                                                   *)
(*                                                                         *)
(* A time limit may end a wait at any moment, also after the flag was set. *)
(* An AP is named by its APIC id.                                          *)
(***************************************************************************)
EXTENDS Naturals, Sequences, FiniteSets

CONSTANTS
  BspId,       \* APIC id of the BSP
  ApIds,       \* APIC ids of the other processors
  Topologies,  \* the APs of a MADT, as it lists them
  MaxAps,      \* SMP_MAX_CPUS - 1
  Stacks,      \* blocks of SMP_AP_STACK_PAGES pages
  None         \* no stack

ASSUME IdsAssumption == BspId \in Nat /\ ApIds \subseteq Nat \ {BspId}
ASSUME MaxApsAssumption == MaxAps \in Nat
ASSUME TopologyAssumption ==
  \A t \in Topologies : t \in Seq(ApIds) /\ Len(t) <= MaxAps
ASSUME StacksAssumption == None \notin Stacks

Slots == 0 .. MaxAps
INVALID_SLOT == MaxAps + 1   \* SMP_INVALID_CPU_SLOT

VARIABLES
  targets,     \* the enabled APs of the MADT; target k gets CPU slot k
  pc,          \* what the BSP does next
  n,           \* the slot it is at
  cpu,         \* per slot: SMP_CPU_APIC_IDS, SMP_CPU_REGISTERED, SMP_AP_*
  runtimeAps,  \* SMP_RUNTIME_APS
  degraded,    \* SMP_DEGRADED_TO_BSP
  tlb,         \* per slot: TLB_SHOOTDOWN_CPU_APIC_ID, _REGISTERED, _ACTIVE
  page,        \* the trampoline: the stack, and the slot of the ready flag
  free,        \* stacks the PMM can hand out
  stage, at, rsp, top,  \* per AP: progress, its slot, RSP, TSS.rsp0
  pending      \* APs with a shootdown interrupt (vector 0x45) to take

bspVars == <<targets, pc, n, runtimeAps, degraded>>
tableVars == <<cpu, tlb, page, free>>
apVars == <<stage, at, rsp, top>>
vars == <<bspVars, tableVars, apVars, pending>>

BspStages == {"start", "register", "prepare", "init", "startup", "startup again",
              "wait ready", "wait runtime", "fallback", "reset id", "reset", "enter",
              "up", "activate", "open", "stopped"}
\* smp_is_ready
SmpReady == pc \in {"up", "activate", "open", "stopped"}

ApStages == {"off", "init", "trampoline", "long mode", "entry", "found", "prepared",
             "parked", "announced", "enabled", "looping"}
\* IF=1, or about to be.
Enabling == {"announced", "enabled"}

CpuRecord ==
  [apic : Nat, registered : BOOLEAN, ready : BOOLEAN, runtime : BOOLEAN,
   release : BOOLEAN, active : BOOLEAN, stack : Stacks \cup {None}]
TlbRecord == [apic : Nat, registered : BOOLEAN, active : BOOLEAN]

TypeOK ==
  /\ targets \in Topologies
  /\ pc \in BspStages
  /\ n \in 0 .. MaxAps + 1
  /\ cpu \in [Slots -> CpuRecord]
  /\ runtimeAps \in Nat
  /\ degraded \in BOOLEAN
  /\ tlb \in [Slots -> TlbRecord]
  /\ page \in [stack : Stacks \cup {None}, slot : Slots]
  /\ free \subseteq Stacks
  /\ stage \in [ApIds -> ApStages]
  /\ at \in [ApIds -> 0 .. INVALID_SLOT]
  /\ rsp \in [ApIds -> Stacks \cup {None}]
  /\ top \in [ApIds -> Stacks \cup {None}]
  /\ pending \subseteq ApIds

CLEARED == [apic |-> 0, registered |-> FALSE, ready |-> FALSE, runtime |-> FALSE,
            release |-> FALSE, active |-> FALSE, stack |-> None]
TLB_CLEARED == [apic |-> 0, registered |-> FALSE, active |-> FALSE]

Init ==
  /\ targets \in Topologies
  /\ pc = "start" /\ n = 0
  /\ cpu = [s \in Slots |-> CLEARED]
  /\ runtimeAps = 0 /\ degraded = FALSE
  /\ tlb = [s \in Slots |-> TLB_CLEARED]
  /\ page = [stack |-> None, slot |-> 0]
  /\ free = Stacks
  /\ stage = [a \in ApIds |-> "off"]
  /\ at = [a \in ApIds |-> INVALID_SLOT]
  /\ rsp = [a \in ApIds |-> None]
  /\ top = [a \in ApIds |-> None]
  /\ pending = {}

\* smp_find_registered_cpu_slot
Matching(id) == {s \in Slots : cpu[s].registered /\ cpu[s].apic = id}
SlotOf(id) ==
  IF Matching(id) = {} THEN INVALID_SLOT
  ELSE CHOOSE s \in Matching(id) : \A r \in Matching(id) : s <= r

-----------------------------------------------------------------------------
(* smp_initialize_base, up to the registration of the BSP                  *)

\* A precondition or the topology is missing; or, once the BSP is registered and
\* there are APs to start, the timer, the trampoline page or a root below 4 GiB.
CannotStart ==
  /\ pc = "start" \/ (pc = "register" /\ n = 1 /\ targets # <<>>)
  /\ pc' = "fallback"
  /\ UNCHANGED <<targets, n, runtimeAps, degraded, tableVars, apVars, pending>>

RegisterBsp ==
  /\ pc = "start"
  /\ cpu' = [cpu EXCEPT ![0] = [CLEARED EXCEPT !.apic = BspId, !.registered = TRUE]]
  /\ tlb' = [tlb EXCEPT ![0] = [apic |-> BspId, registered |-> TRUE, active |-> TRUE]]
  /\ pc' = "register" /\ n' = 1
  /\ UNCHANGED <<targets, runtimeAps, degraded, page, free, apVars, pending>>

-----------------------------------------------------------------------------
(* One AP: smp_register_cpu_slot and smp_start_one_ap                      *)

\* tlb_shootdown_register_cpu leaves an AP out of the active set.
TlbEntry(id) == [apic |-> id, registered |-> TRUE, active |-> FALSE]

RegisterAp ==
  /\ pc = "register" /\ n <= Len(targets)
  /\ SlotOf(targets[n]) = INVALID_SLOT
  /\ cpu' = [cpu EXCEPT ![n] = [CLEARED EXCEPT !.apic = targets[n], !.registered = TRUE]]
  /\ tlb' = [tlb EXCEPT ![n] = TlbEntry(targets[n])]
  /\ pc' = "prepare"
  /\ UNCHANGED <<targets, n, runtimeAps, degraded, page, free, apVars, pending>>

\* The MADT names an AP twice.
RegisterFails ==
  /\ pc = "register" /\ n <= Len(targets)
  /\ SlotOf(targets[n]) # INVALID_SLOT
  /\ pc' = "fallback"
  /\ UNCHANGED <<targets, n, runtimeAps, degraded, tableVars, apVars, pending>>

\* The stack, the flags and smp_trampoline_build.
Prepare ==
  /\ pc = "prepare"
  /\ \E s \in free :
       /\ free' = free \ {s}
       /\ cpu' = [cpu EXCEPT ![n].stack = s]
       /\ page' = [stack |-> s, slot |-> n]
  /\ pc' = "init"
  /\ UNCHANGED <<targets, n, runtimeAps, degraded, tlb, apVars, pending>>

\* No stack, or the trampoline refuses and the stack goes back.
PrepareFails ==
  /\ pc = "prepare" /\ pc' = "fallback"
  /\ UNCHANGED <<targets, n, runtimeAps, degraded, tableVars, apVars, pending>>

\* An INIT or SIPI the AP takes when it is in the stage for it; it may be lost
\* whatever the send reports, and taken although the ICR stayed busy.
Signal(from, to) ==
  \/ UNCHANGED stage
  \/ stage[targets[n]] = from /\ stage' = [stage EXCEPT ![targets[n]] = to]

SendInit ==
  /\ pc = "init"
  /\ Signal("off", "init")
  /\ pc' \in {"startup", "fallback"}
  /\ UNCHANGED <<targets, n, runtimeAps, degraded, tableVars, at, rsp, top, pending>>

SendStartup ==
  /\ pc = "startup"
  /\ Signal("init", "trampoline")
  /\ pc' \in {"startup again", "fallback"}
  /\ UNCHANGED <<targets, n, runtimeAps, degraded, tableVars, at, rsp, top, pending>>

SendStartupAgain ==
  /\ pc = "startup again"
  /\ \/ cpu[n].ready /\ pc' = "wait ready" /\ UNCHANGED stage
     \/ /\ ~cpu[n].ready
        /\ Signal("init", "trampoline")
        /\ pc' \in {"wait ready", "fallback"}
  /\ UNCHANGED <<targets, n, runtimeAps, degraded, tableVars, at, rsp, top, pending>>

AwaitReady ==
  /\ pc = "wait ready" /\ cpu[n].ready
  /\ pc' = "wait runtime"
  /\ UNCHANGED <<targets, n, runtimeAps, degraded, tableVars, apVars, pending>>

FaultyIsRuntimeReady(s) == cpu[s].ready
IsRuntimeReady(s) == cpu[s].runtime
AwaitRuntime ==
  /\ pc = "wait runtime" /\ IsRuntimeReady(n)
  /\ pc' = "register" /\ n' = n + 1
  /\ UNCHANGED <<targets, runtimeAps, degraded, tableVars, apVars, pending>>

\* smp_wait_ap_ready gives up; the stack stays with the AP.
FaultyWaitMayEnd == pc = "wait ready"
WaitMayEnd == pc \in {"wait ready", "wait runtime"}
FaultyAfterTimeout == free' = free \cup {cpu[n].stack}
AfterTimeout == UNCHANGED free
TimeLimit ==
  /\ WaitMayEnd
  /\ AfterTimeout
  /\ pc' = "fallback"
  /\ UNCHANGED <<targets, n, runtimeAps, degraded, cpu, tlb, page, apVars, pending>>

AllStarted ==
  /\ pc = "register" /\ n > Len(targets)
  /\ runtimeAps' = Len(targets)
  /\ pc' = "up"
  /\ UNCHANGED <<targets, n, degraded, tableVars, apVars, pending>>

-----------------------------------------------------------------------------
(* smp_enter_uniprocessor_fallback                                         *)

ActiveSlots == {s \in Slots : tlb[s].registered /\ tlb[s].active}

\* tlb_shootdown_retain_bsp_only
RetainBspOnly ==
  /\ pc = "fallback"
  /\ ActiveSlots \subseteq {0}
  /\ tlb' = [s \in Slots |-> IF s = 0 THEN [apic |-> BspId, registered |-> TRUE, active |-> TRUE]
                             ELSE TLB_CLEARED]
  /\ pc' = "reset id" /\ n' = 0
  /\ UNCHANGED <<targets, runtimeAps, degraded, cpu, page, free, apVars, pending>>

\* smp_reset_cpu_slots, slot by slot: the id first, then the rest.  APs that
\* are late look at the tables meanwhile.
ResetId ==
  /\ pc = "reset id"
  /\ cpu' = [cpu EXCEPT ![n].apic = 0]
  /\ pc' = "reset"
  /\ UNCHANGED <<targets, n, runtimeAps, degraded, tlb, page, free, apVars, pending>>

IsLast(s) == s = MaxAps
ResetSlot ==
  /\ pc = "reset"
  /\ cpu' = [cpu EXCEPT ![n] = CLEARED]
  /\ pc' = IF IsLast(n) THEN "enter" ELSE "reset id"
  /\ n' = n + 1
  /\ UNCHANGED <<targets, runtimeAps, degraded, tlb, page, free, apVars, pending>>

EnterFallback ==
  /\ pc = "enter"
  /\ cpu' = [cpu EXCEPT ![0].apic = BspId, ![0].registered = TRUE]
  /\ runtimeAps' = 0 /\ degraded' = TRUE
  /\ pc' = "up"
  /\ UNCHANGED <<targets, n, tlb, page, free, apVars, pending>>

-----------------------------------------------------------------------------
(* smp_release_aps_for_scheduler, and what the kernel does then            *)

ReleaseAps ==
  /\ pc = "up"
  /\ cpu' = [s \in Slots |->
       [cpu[s] EXCEPT !.release = @ \/ (runtimeAps # 0 /\ s # 0 /\ cpu[s].registered)]]
  /\ pc' = IF runtimeAps = 0 THEN "open" ELSE "activate"
  /\ n' = 1
  /\ UNCHANGED <<targets, runtimeAps, degraded, tlb, page, free, apVars, pending>>

FaultyIsActive(s) == TRUE
IsActive(s) == cpu[s].active
ActivateAp ==
  /\ pc = "activate" /\ n <= MaxAps
  /\ cpu[n].registered => IsActive(n)
  /\ tlb' = [tlb EXCEPT ![n].active = @ \/ cpu[n].registered]
  /\ n' = n + 1
  /\ UNCHANGED <<targets, pc, runtimeAps, degraded, cpu, page, free, apVars, pending>>

\* An AP does not answer: the boot stops (E-SMP-002).
ActivateTimeLimit ==
  /\ pc = "activate" /\ n <= MaxAps /\ cpu[n].registered
  /\ pc' = "stopped"
  /\ UNCHANGED <<targets, n, runtimeAps, degraded, tableVars, apVars, pending>>

AllActive ==
  /\ pc = "activate" /\ n > MaxAps
  /\ pc' = "open"
  /\ UNCHANGED <<targets, n, runtimeAps, degraded, tableVars, apVars, pending>>

\* tlb_shootdown_kernel_page by any thread: with more than one CPU in the
\* active set it interrupts all that were ever started, and waits for answers.
Broadcast ==
  /\ pc \in {"up", "open"}
  /\ Cardinality(ActiveSlots) > 1
  /\ pending' = {a \in ApIds : stage[a] \notin {"off", "init"}}
  /\ UNCHANGED <<bspVars, tableVars, apVars>>

-----------------------------------------------------------------------------
(* An AP: the trampoline and sotlas_x86_smp_ap_runtime_entry.  Each of its *)
(* checks of itself may fail, which is an AP that takes no further step.   *)

LoadStack(a) ==
  /\ stage[a] = "trampoline"
  /\ rsp' = [rsp EXCEPT ![a] = page.stack]
  /\ stage' = [stage EXCEPT ![a] = "long mode"]
  /\ UNCHANGED <<bspVars, tableVars, at, top, pending>>

SetReady(a) ==
  /\ stage[a] = "long mode"
  /\ cpu' = [cpu EXCEPT ![page.slot].ready = TRUE]
  /\ stage' = [stage EXCEPT ![a] = "entry"]
  /\ UNCHANGED <<bspVars, tlb, page, free, at, rsp, top, pending>>

FindSlot(a) ==
  /\ stage[a] = "entry"
  /\ at' = [at EXCEPT ![a] = SlotOf(a)]
  /\ stage' = [stage EXCEPT ![a] =
                 IF SlotOf(a) \in {0, INVALID_SLOT} THEN "looping" ELSE "found"]
  /\ UNCHANGED <<bspVars, tableVars, rsp, top, pending>>

\* TSS and GDT of the slot it found.
PrepareTables(a) ==
  /\ stage[a] = "found"
  /\ top' = [top EXCEPT ![a] = cpu[at[a]].stack]
  /\ stage' = [stage EXCEPT ![a] = IF cpu[at[a]].stack = None THEN "looping" ELSE "prepared"]
  /\ UNCHANGED <<bspVars, tableVars, at, rsp, pending>>

SetRuntimeReady(a) ==
  /\ stage[a] = "prepared"
  /\ cpu' = [cpu EXCEPT ![at[a]].runtime = TRUE]
  /\ stage' = [stage EXCEPT ![a] = "parked"]
  /\ UNCHANGED <<bspVars, tlb, page, free, at, rsp, top, pending>>

FaultyMayLeavePark(a) == TRUE
MayLeavePark(a) == cpu[at[a]].release
SetActive(a) ==
  /\ stage[a] = "parked" /\ MayLeavePark(a)
  /\ cpu' = [cpu EXCEPT ![at[a]].active = TRUE]
  /\ stage' = [stage EXCEPT ![a] = "announced"]
  /\ UNCHANGED <<bspVars, tlb, page, free, at, rsp, top, pending>>

EnableInterrupts(a) ==
  /\ stage[a] = "announced"
  /\ stage' = [stage EXCEPT ![a] = "enabled"]
  /\ UNCHANGED <<bspVars, tableVars, at, rsp, top, pending>>

\* tlb_shootdown_handle_ipi refuses on a CPU outside the active set, and the
\* dispatcher then loops for ever (irq.sotlas, vector 0x45).
InActiveSet(a) == \E s \in ActiveSlots : tlb[s].apic = a
HandleShootdown(a) ==
  /\ a \in pending /\ stage[a] = "enabled"
  /\ pending' = pending \ {a}
  /\ stage' = [stage EXCEPT ![a] = IF InActiveSet(a) THEN "enabled" ELSE "looping"]
  /\ UNCHANGED <<bspVars, tableVars, at, rsp, top>>

-----------------------------------------------------------------------------
StartAp ==
  \/ RegisterAp \/ RegisterFails \/ Prepare \/ PrepareFails
  \/ SendInit \/ SendStartup \/ SendStartupAgain
  \/ AwaitReady \/ AwaitRuntime \/ TimeLimit
Fallback == RetainBspOnly \/ ResetId \/ ResetSlot \/ EnterFallback
Release == ReleaseAps \/ ActivateAp \/ ActivateTimeLimit \/ AllActive

Bsp == CannotStart \/ RegisterBsp \/ StartAp \/ AllStarted \/ Fallback \/ Release

Ap(a) ==
  \/ LoadStack(a) \/ SetReady(a) \/ FindSlot(a) \/ PrepareTables(a)
  \/ SetRuntimeReady(a) \/ SetActive(a) \/ EnableInterrupts(a) \/ HandleShootdown(a)

\* The kernel runs, or shows why it cannot.
Done == pc \in {"open", "stopped"} /\ UNCHANGED vars

Next == Bsp \/ Broadcast \/ (\E a \in ApIds : Ap(a)) \/ Done

Spec == Init /\ [][Next]_vars
\* The BSP's code goes on, with IF=0 and time limits; an AP owes nothing.
FairSpec == Spec /\ WF_vars(Bsp)

-----------------------------------------------------------------------------
(* Properties.                                                             *)

\* APs run on stacks of their own, which the PMM does not hand out: also the
\* late ones, which take theirs from the trampoline after the BSP gave up.
OwnStacks ==
  \A a \in ApIds : rsp[a] # None =>
    /\ rsp[a] \notin free
    /\ \A b \in ApIds \ {a} : rsp[b] # rsp[a]

\* Bring-up is all or nothing: once it reports success every AP of the MADT
\* waits or runs in its own slot, on the stack that slot's TSS names.
SuccessMeansAllUp ==
  SmpReady /\ ~degraded =>
    \A k \in 1 .. Len(targets) :
      LET a == targets[k] IN
      /\ stage[a] \in {"parked"} \cup Enabling
      /\ at[a] = k /\ cpu[k].apic = a
      /\ rsp[a] = cpu[k].stack /\ top[a] = cpu[k].stack

\* An AP enables interrupts only in a kernel that counts on all of them: one
\* that was given up stays with IF=0 for ever, however far it gets.
LateApsStayParked ==
  \A a \in ApIds : stage[a] \in Enabling =>
    /\ SmpReady /\ ~degraded
    /\ runtimeAps = Len(targets)

\* A shootdown is only sent to CPUs that will take it and answer: none waits
\* for a parked CPU, and none reaches a CPU outside the active set.
ShootdownsAreAnswered ==
  \A a \in pending : stage[a] \in Enabling /\ InActiveSet(a)

\* A dead or late AP does not hold up the boot: it goes on with all APs or
\* without them, and stops only for an AP that did not answer its release.
BootGoesOn == <>(pc \in {"open", "stopped"})
=============================================================================
