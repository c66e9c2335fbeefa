----------------------------- MODULE FpuContext -----------------------------
(***************************************************************************)
(* The FPU/SSE context of each thread: the 16-slot table of                *)
(* kernel/src/arch/x86_64/fpu.sotlas and the order in which                *)
(* irq_schedule_with_fpu (kernel/src/interrupts/irq.sotlas) saves,         *)
(* switches, restores and releases.                                        *)
(*                                                                         *)
(* irq_schedule_with_fpu runs from end to end with IF=0 under the switch   *)
(* lock, so it is one step here.  Which thread it selects is the business  *)
(* of module Scheduler: this module lets the selection be any thread that  *)
(* is ready, a superset of what the scheduler picks.  A register file is   *)
(* abstracted to who wrote it last: RESET, a thread id, or RUNTIME for the *)
(* idle runtime of an AP.                                                  *)
(*                                                                         *)
(* Operators whose name starts with Faulty are plausible defects of the    *)
(* definition that follows them; no action uses them.                      *)
(***************************************************************************)
EXTENDS Integers, FiniteSets

CONSTANTS NumCPUs,      \* processors, the BSP is CPU 0
          NumFpuSlots,  \* FPU_CONTEXT_SLOTS
          NumDynamic,   \* dynamic slots of the scheduler's thread table
          MaxId         \* bound on SCHEDULER_NEXT_THREAD_ID

ASSUME NumCPUsAssumption     == NumCPUs \in Nat \ {0}
ASSUME NumDynamicAssumption  == NumDynamic \in Nat
ASSUME MaxIdAssumption       == MaxId \in Nat /\ MaxId > 1
\* One slot for the kernel, one for the idle thread, one for each dynamic one.
ASSUME NumFpuSlotsAssumption == NumFpuSlots \in Nat /\ NumFpuSlots >= NumDynamic + 2

CPUs == 0 .. NumCPUs - 1
BSP == 0
BOOT == 0                \* SCHEDULER_BOOT_THREAD_ID
IDLE == 1                \* SCHEDULER_IDLE_THREAD_ID
Ids == 0 .. MaxId
DynamicIds == 2 .. MaxId
NONE == -1               \* the AP is in its idle runtime
KERNEL_SLOT == 0
ThreadSlots == 1 .. NumFpuSlots - 1
FREE == -1
RESET == -1
RUNTIME == -2
Images == Ids \cup {RESET, RUNTIME}

VARIABLES
  status,   \* what the scheduler knows of each thread id
  where,    \* the thread each CPU executes
  nextId,   \* SCHEDULER_NEXT_THREAD_ID
  regs,     \* the FPU/SSE registers of each CPU
  slotId,   \* FPU_THREAD_IDS where FPU_VALID, FREE elsewhere
  image,    \* FPU_STATES
  last      \* auxiliary: the registers each thread had when it last executed

vars == <<status, where, nextId, regs, slotId, image, last>>
threadVars == <<status, where, nextId>>

Statuses == {"none", "ready", "running", "blocked", "terminated", "reaped"}

TypeOK ==
  /\ status \in [Ids -> Statuses]
  /\ where \in [CPUs -> Ids \cup {NONE}] /\ where[BSP] # NONE
  /\ nextId \in 2 .. MaxId + 1
  /\ regs \in [CPUs -> Images]
  /\ slotId \in [0 .. NumFpuSlots - 1 -> Ids \cup {FREE}]
  /\ image \in [0 .. NumFpuSlots - 1 -> Images]
  /\ last \in [Ids -> Images]

\* fpu_initialize saved the BSP's reset registers as the kernel image; the
\* scheduler was initialised after it, with interrupts off.
Init ==
  /\ status = [t \in Ids |-> CASE t = BOOT -> "running" [] t = IDLE -> "ready"
                               [] OTHER -> "none"]
  /\ where = [c \in CPUs |-> IF c = BSP THEN BOOT ELSE NONE]
  /\ nextId = 2
  /\ regs = [c \in CPUs |-> RESET]
  /\ slotId = [k \in 0 .. NumFpuSlots - 1 |-> IF k = KERNEL_SLOT THEN BOOT ELSE FREE]
  /\ image = [k \in 0 .. NumFpuSlots - 1 |-> RESET]
  /\ last = [t \in Ids |-> RESET]

-----------------------------------------------------------------------------
\* scheduler_current_thread_id: an AP without a thread reports id 0.
CurrentId(c) == IF where[c] = NONE THEN BOOT ELSE where[c]

\* Where the saved image of thread t is, and where a new one would go: the
\* first slot that fpu_find_slot, else fpu_allocate_slot, returns.
SlotsOf(tab, t) == {k \in (IF t = BOOT THEN {KERNEL_SLOT} ELSE ThreadSlots) : tab[k] = t}
FreeSlots(tab) == {k \in ThreadSlots : tab[k] = FREE}
First(S) == CHOOSE k \in S : \A j \in S : k <= j

\* A table after fpu_save_thread(t) with registers r, and after the allocation
\* in fpu_restore_thread(t), which gives a new thread the reset registers.
\* CanPlace is false where these functions return false.
CanPlace(tab, t) == SlotsOf(tab, t) # {} \/ (t # BOOT /\ FreeSlots(tab) # {})
Place(tab, t) ==
  IF SlotsOf(tab, t) # {} THEN First(SlotsOf(tab, t)) ELSE First(FreeSlots(tab))

FaultySaves(c) == where[c] # NONE /\ CurrentId(c) # BOOT /\ status[where[c]] # "blocked"
Saves(c) == CurrentId(c) # BOOT

TableAfterSave(c) ==
  IF Saves(c) THEN [slotId EXCEPT ![Place(slotId, CurrentId(c))] = CurrentId(c)] ELSE slotId
ImagesAfterSave(c) ==
  IF Saves(c) THEN [image EXCEPT ![Place(slotId, CurrentId(c))] = regs[c]] ELSE image

SelectedId(new) == IF new = NONE THEN BOOT ELSE new

\* The kernel image is restored on the BSP only: an AP that goes back to its
\* idle runtime keeps whatever registers it has.
Restores(c, new) == c = BSP \/ new \notin {NONE, BOOT}

\* A terminated thread's image is dropped (and zeroed: it is never read again)
\* once another thread is on the CPU.
FaultyReleases(c, new) == FALSE
FaultyReleasesToThread(c, new) ==
  where[c] # NONE /\ status[where[c]] = "terminated" /\ new # NONE /\ where[c] # new
Releases(c, new) ==
  /\ where[c] # NONE /\ status[where[c]] = "terminated"
  /\ CurrentId(c) # BOOT /\ CurrentId(c) # SelectedId(new)

\* What Schedule needs of the table: where one of the two is missing the code
\* stops in a `loop {}` with the switch lock held.
SaveFits(c) == Saves(c) => CanPlace(slotId, CurrentId(c))
RestoreFits(c, new) ==
  Restores(c, new) => CanPlace(TableAfterSave(c), SelectedId(new))

\* fpu_restore_thread: a thread without a slot gets one with the reset image.
TableAfterRestore(c, new) ==
  LET tab == TableAfterSave(c)  id == SelectedId(new) IN
  IF Restores(c, new) THEN [tab EXCEPT ![Place(tab, id)] = id] ELSE tab
ImagesAfterRestore(c, new) ==
  LET tab == TableAfterSave(c)  id == SelectedId(new) IN
  IF Restores(c, new) /\ SlotsOf(tab, id) = {}
  THEN [ImagesAfterSave(c) EXCEPT ![Place(tab, id)] = RESET] ELSE ImagesAfterSave(c)

\* The whole of irq_schedule_with_fpu, with `new` the selected thread.
Schedule(c, new) ==
  LET old == where[c]
      tab == TableAfterRestore(c, new)
      img == ImagesAfterRestore(c, new)
      used == Place(TableAfterSave(c), SelectedId(new))
      gone == IF Releases(c, new) THEN SlotsOf(tab, CurrentId(c)) ELSE {}
  IN
  /\ SaveFits(c) /\ RestoreFits(c, new)
  /\ regs' = [regs EXCEPT ![c] = IF Restores(c, new) THEN img[used] ELSE @]
  /\ slotId' = [k \in DOMAIN slotId |-> IF k \in gone THEN FREE ELSE tab[k]]
  /\ image' = [k \in DOMAIN image |-> IF k \in gone THEN RESET ELSE img[k]]
  /\ where' = [where EXCEPT ![c] = new]
  /\ status' = [t \in Ids |-> IF t = new THEN "running"
                              ELSE IF t = old /\ status[t] = "running" THEN "ready"
                              ELSE status[t]]
  /\ UNCHANGED <<nextId, last>>

\* What the scheduler may select on c: boot and idle run on the BSP only.
Selectable(c) ==
  {t \in Ids : /\ status[t] = "ready" \/ (t = where[c] /\ status[t] = "running")
               /\ \A d \in CPUs \ {c} : where[d] # t
               /\ t \in DynamicIds \/ c = BSP}
  \cup (IF c = BSP THEN {} ELSE {NONE})

Interrupt(c) == \E new \in Selectable(c) : Schedule(c, new)

-----------------------------------------------------------------------------
(* What the threads do between interrupts.                                 *)

Compute(c) ==
  /\ regs' = [regs EXCEPT ![c] = IF where[c] = NONE THEN RUNTIME ELSE where[c]]
  /\ last' = IF where[c] = NONE THEN last ELSE [last EXCEPT ![where[c]] = where[c]]
  /\ UNCHANGED <<threadVars, slotId, image>>

\* block_current and terminate_current are followed by a Schedule step at the
\* latest with the next interrupt.
Leave(c, st) ==
  /\ where[c] \in DynamicIds /\ status[where[c]] = "running"
  /\ status' = [status EXCEPT ![where[c]] = st]
  /\ UNCHANGED <<where, nextId, regs, slotId, image, last>>

Wake(t) ==
  /\ status[t] = "blocked"
  /\ status' = [status EXCEPT ![t] = "ready"]
  /\ UNCHANGED <<where, nextId, regs, slotId, image, last>>

InTable == {t \in DynamicIds : status[t] \notin {"none", "reaped"}}

Create ==
  /\ nextId <= MaxId /\ Cardinality(InTable) < NumDynamic
  /\ status' = [status EXCEPT ![nextId] = "ready"]
  /\ nextId' = nextId + 1
  /\ UNCHANGED <<where, regs, slotId, image, last>>

Reap(t) ==
  /\ status[t] = "terminated" /\ \A c \in CPUs : where[c] # t
  /\ status' = [status EXCEPT ![t] = "reaped"]
  /\ UNCHANGED <<where, nextId, regs, slotId, image, last>>

Next ==
  \/ \E c \in CPUs : \/ Interrupt(c) \/ Compute(c)
                     \/ Leave(c, "blocked") \/ Leave(c, "terminated")
  \/ \E t \in DynamicIds : Wake(t) \/ Reap(t)
  \/ Create

Spec == Init /\ [][Next]_vars
-----------------------------------------------------------------------------
\* A created thread finds in the registers exactly what it left there, on
\* whichever CPU it continues, and the reset values the first time.
ThreadKeepsRegisters ==
  \A c \in CPUs : where[c] \in Ids \ {BOOT} => regs[c] = last[where[c]]

\* The same of the boot thread, which runs the desktop and the installer: the
\* header of fpu.sotlas promises an FPU/SSE context per thread.
BootKeepsRegisters ==
  where[BSP] = BOOT => regs[BSP] = last[BOOT]

\* The table has no leak and no duplicate: a slot in use belongs to a thread of
\* the scheduler's table that is not waiting to be reaped, and to no other slot.
SlotsBelongToThreads ==
  \A k \in ThreadSlots : slotId[k] # FREE =>
    /\ \/ slotId[k] = IDLE
       \/ /\ slotId[k] \in InTable
          /\ status[slotId[k]] = "terminated" => \E c \in CPUs : where[c] = slotId[k]
    /\ \A j \in ThreadSlots : slotId[j] = slotId[k] => j = k

\* So the slots suffice: no CPU stops in a `loop {}` with the switch lock held.
NeverHangs ==
  \A c \in CPUs : SaveFits(c) /\ \A new \in Selectable(c) : RestoreFits(c, new)
-----------------------------------------------------------------------------
(* The inductive invariant.                                                *)

OnSomeCpu(t) == \E c \in CPUs : where[c] = t

\* A thread is on one CPU; boot and idle only on the BSP, and never without
\* being runnable; a CPU never executes a thread that does not exist.
WhereInv ==
  /\ \A c, d \in CPUs : where[c] = where[d] /\ where[c] # NONE => c = d
  /\ \A c \in CPUs : where[c] \in {BOOT, IDLE} => c = BSP
  /\ \A c \in CPUs : where[c] # NONE => status[where[c]] \notin {"none", "reaped"}
  /\ \A t \in {BOOT, IDLE} : status[t] \in {"ready", "running"}
  /\ \A t \in DynamicIds : t >= nextId => status[t] = "none"

\* What a thread that may run again left behind is in the table while it is on
\* no CPU; a thread without a slot has never executed.
ImageInv ==
  \A t \in Ids \ {BOOT} : ~OnSomeCpu(t) /\ status[t] \notin {"terminated", "reaped"} =>
    /\ \A k \in ThreadSlots : slotId[k] = t => image[k] = last[t]
    /\ (\A k \in ThreadSlots : slotId[k] # t) => last[t] = RESET

\* The inductive invariant of FpuContextProofs.
IInv == TypeOK /\ WhereInv /\ SlotsBelongToThreads /\ ImageInv /\ ThreadKeepsRegisters
=============================================================================
