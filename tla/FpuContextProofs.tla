------------------------- MODULE FpuContextProofs -------------------------
(***************************************************************************)
(* A created thread keeps its FPU/SSE registers across every interrupt and *)
(* migration, and the context table has neither leak nor duplicate, for    *)
(* every number of processors, slots and threads.                          *)
(***************************************************************************)
EXTENDS FpuContext, TLAPS, WellFoundedInduction, FiniteSetTheorems

Tables == [0 .. NumFpuSlots - 1 -> Ids \cup {FREE}]

\* fpu_find_slot and fpu_allocate_slot return a slot they looked for.
LEMMA FirstIsMember ==
  ASSUME NEW S, S \subseteq Nat, S # {}
  PROVE  First(S) \in S
<1>1. PICK m \in S : \A x \in S : ~ (<<x, m>> \in OpToRel(<, Nat))
  BY NatLessThanWellFounded, WFMin, Zenon
<1>2. ASSUME NEW x \in S PROVE ~(x < m)
  <2>1. <<x, m>> \in Nat \X Nat
    OBVIOUS
  <2>2. ~(<<x, m>>[1] < <<x, m>>[2])
    BY <1>1, <2>1, Zenon DEF OpToRel
  <2>3. QED
    BY <2>2
<1>3. \A x \in S : m <= x
  BY <1>2
<1>4. QED
  BY <1>3 DEF First

\* The slot for a thread other than the boot thread is its own or, when it has
\* none, a free one; it is never the kernel's.
LEMMA PlaceIsOwnOrFree ==
  ASSUME NEW tab \in Tables, NEW t \in Ids \ {BOOT}, CanPlace(tab, t)
  PROVE  /\ Place(tab, t) \in ThreadSlots
         /\ SlotsOf(tab, t) # {} => tab[Place(tab, t)] = t
         /\ SlotsOf(tab, t) = {} => /\ tab[Place(tab, t)] = FREE
                                    /\ \A k \in ThreadSlots : tab[k] # t
<1>1. SlotsOf(tab, t) \subseteq Nat /\ FreeSlots(tab) \subseteq Nat
  BY NumFpuSlotsAssumption, NumDynamicAssumption
     DEF SlotsOf, FreeSlots, ThreadSlots, KERNEL_SLOT
<1>2. CASE SlotsOf(tab, t) # {}
  <2>1. Place(tab, t) \in SlotsOf(tab, t)
    BY <1>1, <1>2, FirstIsMember DEF Place
  <2>2. QED
    BY <1>2, <2>1 DEF SlotsOf
<1>3. CASE SlotsOf(tab, t) = {}
  <2>1. Place(tab, t) \in FreeSlots(tab)
    BY <1>1, <1>3, FirstIsMember DEF Place, CanPlace
  <2>2. QED
    BY <1>3, <2>1 DEF SlotsOf, FreeSlots
<1>4. QED
  BY <1>2, <1>3

\* fpu_initialize establishes the invariant.
LEMMA InitEstablishesIInv == Init => IInv
  BY NumCPUsAssumption, MaxIdAssumption, NumFpuSlotsAssumption, NumDynamicAssumption
     DEF Init, IInv, TypeOK, WhereInv, SlotsBelongToThreads, ImageInv, ThreadKeepsRegisters,
         CPUs, Ids, DynamicIds, ThreadSlots, Images, Statuses, InTable, OnSomeCpu,
         BSP, BOOT, IDLE, NONE, FREE, RESET, RUNTIME, KERNEL_SLOT

\* What a thread does to its registers while it executes stays its own affair.
LEMMA ComputeKeepsIInv ==
  ASSUME IInv, NEW c \in CPUs, Compute(c)
  PROVE  IInv'
<1> USE DEF IInv, TypeOK, Compute, threadVars
<1>1. TypeOK'
  BY MaxIdAssumption DEF Images, Ids, NONE, RUNTIME, BSP
<1>2. WhereInv' /\ SlotsBelongToThreads'
  BY DEF WhereInv, SlotsBelongToThreads, InTable
<1>3. ImageInv'
  BY DEF ImageInv, OnSomeCpu
<1>4. ThreadKeepsRegisters'
  BY MaxIdAssumption DEF ThreadKeepsRegisters, WhereInv, Ids, NONE, BOOT
<1>5. QED
  BY <1>1, <1>2, <1>3, <1>4

\* The table reflects who may run again: a thread that leaves, wakes, is
\* created or reaped does so without touching it.
LEMMA StatusStepsKeepIInv ==
  ASSUME IInv,
         \/ \E c \in CPUs : Leave(c, "blocked") \/ Leave(c, "terminated")
         \/ \E t \in DynamicIds : Wake(t) \/ Reap(t)
         \/ Create
  PROVE  IInv'
<1> USE MaxIdAssumption
    DEF IInv, TypeOK, WhereInv, SlotsBelongToThreads, ImageInv, ThreadKeepsRegisters, InTable,
        OnSomeCpu, DynamicIds, Ids, Statuses, BOOT, IDLE
<1>1. CASE \E c \in CPUs : Leave(c, "blocked") \/ Leave(c, "terminated")
  <2> PICK c \in CPUs, st \in {"blocked", "terminated"} : Leave(c, st)
    BY <1>1
  <2> USE DEF Leave, NONE
  <2>1. TypeOK'
    OBVIOUS
  <2>2. WhereInv'
    OBVIOUS
  <2>3. SlotsBelongToThreads'
    OBVIOUS
  <2>4. ImageInv'
    OBVIOUS
  <2>5. ThreadKeepsRegisters'
    OBVIOUS
  <2>6. QED
    BY <2>1, <2>2, <2>3, <2>4, <2>5
<1>2. CASE \E t \in DynamicIds : Wake(t)
  BY <1>2 DEF Wake, NONE
<1>3. CASE \E t \in DynamicIds : Reap(t)
  BY <1>3 DEF Reap, NONE
<1>4. CASE Create
  <2>0. /\ nextId \in DynamicIds /\ status[nextId] = "none"
        /\ status' = [status EXCEPT ![nextId] = "ready"] /\ nextId' = nextId + 1
        /\ UNCHANGED <<where, regs, slotId, image, last>>
    BY <1>4 DEF Create
  <2> USE <2>0 DEF NONE, FREE
  <2>1. TypeOK'
    OBVIOUS
  <2>2. WhereInv'
    OBVIOUS
  <2>3. SlotsBelongToThreads'
    OBVIOUS
  <2>4. ImageInv'
    OBVIOUS
  <2>5. ThreadKeepsRegisters'
    OBVIOUS
  <2>6. QED
    BY <2>1, <2>2, <2>3, <2>4, <2>5
<1>5. QED
  BY <1>1, <1>2, <1>3, <1>4

-----------------------------------------------------------------------------
(* irq_schedule_with_fpu, in the order of its calls.                       *)

\* A table in which every thread that is on no CPU but c, and may run again,
\* is found as it was left, `new` excepted; all that is in it is from the table
\* before or one of `added`.
Keeps(tab, img, c, new, added) ==
  /\ tab \in Tables
  /\ img \in [0 .. NumFpuSlots - 1 -> Images]
  /\ \A j, k \in ThreadSlots : tab[j] = tab[k] /\ tab[j] # FREE => j = k
  /\ \A k \in ThreadSlots : tab[k] \in {slotId[k]} \cup added
  /\ \A t \in Ids \ {BOOT, new} :
       /\ \A d \in CPUs \ {c} : where[d] # t
       /\ status[t] \notin {"terminated", "reaped"}
       => /\ \A k \in ThreadSlots : tab[k] = t => img[k] = last[t]
          /\ (\A k \in ThreadSlots : tab[k] # t) => last[t] = RESET

Added(t) == IF t \in {NONE, BOOT} THEN {} ELSE {t}

\* fpu_save_thread puts the registers of the interrupted thread in the table.
LEMMA SaveKeeps ==
  ASSUME IInv, NEW c \in CPUs, SaveFits(c)
  PROVE  Keeps(TableAfterSave(c), ImagesAfterSave(c), c, BOOT, Added(where[c]))
<1> DEFINE t == where[c]
<1>0. /\ slotId \in Tables /\ image \in [0 .. NumFpuSlots - 1 -> Images]
      /\ last \in [Ids -> Images] /\ ThreadSlots \subseteq 0 .. NumFpuSlots - 1
      /\ \A j, k \in ThreadSlots : slotId[j] = slotId[k] /\ slotId[j] # FREE => j = k
      /\ \A u \in Ids \ {BOOT, t} : (\A d \in CPUs \ {c} : where[d] # u) => ~OnSomeCpu(u)
  BY NumFpuSlotsAssumption
     DEF IInv, TypeOK, Tables, ThreadSlots, SlotsBelongToThreads, OnSomeCpu
<1>1. CASE t \in {NONE, BOOT}
  <2>1. TableAfterSave(c) = slotId /\ ImagesAfterSave(c) = image
    BY <1>1 DEF Saves, CurrentId, TableAfterSave, ImagesAfterSave
  <2>2. \A u \in Ids \ {BOOT} : u # t
    BY <1>1 DEF Ids, NONE
  <2> HIDE DEF t
  <2>3. QED
    BY <1>0, <2>1, <2>2 DEF Keeps, IInv, ImageInv
<1>2. CASE t \notin {NONE, BOOT}
  <2>1. /\ t \in Ids \ {BOOT} /\ CurrentId(c) = t /\ Saves(c)
        /\ CanPlace(slotId, t) /\ regs[c] = last[t] /\ Added(t) = {t}
    BY <1>2 DEF IInv, TypeOK, CurrentId, Saves, SaveFits, ThreadKeepsRegisters, Added
  <2> DEFINE p == Place(slotId, t)
  <2>2. /\ p \in ThreadSlots
        /\ slotId[p] = t \/ (slotId[p] = FREE /\ \A k \in ThreadSlots : slotId[k] # t)
    BY <1>0, <2>1, PlaceIsOwnOrFree DEF SlotsOf
  <2>3. /\ TableAfterSave(c) = [slotId EXCEPT ![p] = t]
        /\ ImagesAfterSave(c) = [image EXCEPT ![p] = last[t]]
    BY <2>1 DEF TableAfterSave, ImagesAfterSave
  <2>4. FREE \notin Ids
    BY DEF FREE, Ids
  <2> HIDE DEF p, t
  <2> DEFINE tab == [slotId EXCEPT ![p] = t]
             img == [image EXCEPT ![p] = last[t]]
  <2>5. tab \in Tables /\ img \in [0 .. NumFpuSlots - 1 -> Images]
    BY <1>0, <2>1, <2>2 DEF Tables
  <2>6. /\ tab[p] = t /\ img[p] = last[t]
        /\ \A k \in ThreadSlots \ {p} : /\ tab[k] = slotId[k] /\ tab[k] # t
                                         /\ img[k] = image[k]
    BY <1>0, <2>1, <2>2, <2>4 DEF Tables
  <2> HIDE DEF tab, img
  <2>7. \A j, k \in ThreadSlots : tab[j] = tab[k] /\ tab[j] # FREE => j = k
    BY <1>0, <2>6
  <2>8. ASSUME NEW u \in Ids \ {BOOT}, \A d \in CPUs \ {c} : where[d] # u,
               status[u] \notin {"terminated", "reaped"}
        PROVE  /\ \A k \in ThreadSlots : tab[k] = u => img[k] = last[u]
               /\ (\A k \in ThreadSlots : tab[k] # u) => last[u] = RESET
    BY <1>0, <2>2, <2>4, <2>6, <2>8 DEF IInv, ImageInv
  <2>9. QED
    BY <2>1, <2>3, <2>5, <2>6, <2>7, <2>8 DEF Keeps, tab, img, t
<1>3. QED
  BY <1>1, <1>2

\* fpu_restore_thread finds the selected thread's registers, or the reset ones
\* for a thread that has never executed.
LEMMA RestoreKeeps ==
  ASSUME IInv, NEW c \in CPUs, NEW new \in Selectable(c), SaveFits(c), RestoreFits(c, new)
  PROVE  /\ Keeps(TableAfterRestore(c, new), ImagesAfterRestore(c, new), c, new,
                  Added(where[c]) \cup Added(new))
         /\ Restores(c, new) =>
              Place(TableAfterSave(c), SelectedId(new)) \in 0 .. NumFpuSlots - 1
         /\ new \notin {NONE, BOOT} =>
              /\ Restores(c, new)
              /\ ImagesAfterRestore(c, new)[Place(TableAfterSave(c), SelectedId(new))]
                   = last[new]
<1> DEFINE tab == TableAfterSave(c)
           img == ImagesAfterSave(c)
           id  == SelectedId(new)
<1>1. Keeps(tab, img, c, BOOT, Added(where[c]))
  BY SaveKeeps
<1>2. /\ new \in Ids \cup {NONE}
      /\ new # NONE => /\ \A d \in CPUs \ {c} : where[d] # new
                      /\ status[new] \in {"ready", "running"}
  BY DEF Selectable
<1> HIDE DEF tab, img
<1>3. CASE new \in {NONE, BOOT}
  <2>1. id = BOOT
    BY <1>3 DEF SelectedId
  <2>2. CASE ~Restores(c, new)
    BY <1>1, <1>3, <2>2 DEF TableAfterRestore, ImagesAfterRestore, Keeps, Added, tab, img
  <2>3. CASE Restores(c, new)
    <3>1. SlotsOf(tab, BOOT) # {} /\ SlotsOf(tab, BOOT) \subseteq {KERNEL_SLOT}
      BY <2>1, <2>3 DEF RestoreFits, CanPlace, SlotsOf, tab
    <3>2. Place(tab, BOOT) \in SlotsOf(tab, BOOT)
      BY <3>1, FirstIsMember DEF Place, KERNEL_SLOT
    <3>3. tab[Place(tab, BOOT)] = BOOT
      BY <3>2 DEF SlotsOf
    <3>4. /\ TableAfterRestore(c, new) = tab
          /\ ImagesAfterRestore(c, new) = img
      BY <1>1, <2>1, <3>1, <3>3
         DEF TableAfterRestore, ImagesAfterRestore, Keeps, Tables, tab, img
    <3>5. Place(tab, id) \in 0 .. NumFpuSlots - 1
      BY <2>1, <3>1, <3>2, NumFpuSlotsAssumption, NumDynamicAssumption DEF KERNEL_SLOT
    <3>6. QED
      BY <1>1, <1>3, <3>4, <3>5 DEF Keeps, Added, tab
  <2>4. QED
    BY <2>2, <2>3
<1>4. CASE new \notin {NONE, BOOT}
  <2>1. /\ new \in Ids \ {BOOT} /\ id = new /\ Restores(c, new)
        /\ CanPlace(tab, new) /\ Added(new) = {new}
    BY <1>2, <1>4 DEF SelectedId, Restores, RestoreFits, Added, tab
  <2> DEFINE p == Place(tab, new)
  <2>2. /\ p \in ThreadSlots
        /\ SlotsOf(tab, new) # {} => tab[p] = new
        /\ SlotsOf(tab, new) = {} => tab[p] = FREE /\ \A k \in ThreadSlots : tab[k] # new
    BY <1>1, <2>1, PlaceIsOwnOrFree DEF Keeps
  <2> HIDE DEF p
  <2> DEFINE tab2 == [tab EXCEPT ![p] = new]
             img2 == IF SlotsOf(tab, new) = {} THEN [img EXCEPT ![p] = RESET] ELSE img
  <2>3. TableAfterRestore(c, new) = tab2 /\ ImagesAfterRestore(c, new) = img2
    BY <2>1 DEF TableAfterRestore, ImagesAfterRestore, tab, img, p
  <2>4. FREE \notin Ids /\ ThreadSlots \subseteq 0 .. NumFpuSlots - 1
    BY NumFpuSlotsAssumption DEF FREE, Ids, ThreadSlots
  <2>5. tab2 \in Tables /\ img2 \in [0 .. NumFpuSlots - 1 -> Images]
    BY <1>1, <2>1, <2>2, <2>4 DEF Keeps, Tables, Images
  <2>6. /\ tab2[p] = new
        /\ \A k \in ThreadSlots \ {p} : tab2[k] = tab[k] /\ img2[k] = img[k] /\ tab[k] # new
    BY <1>1, <2>1, <2>2, <2>4 DEF Keeps, Tables
  <2>7. img2[p] = last[new]
    <3>1. \A d \in CPUs \ {c} : where[d] # new
      BY <1>2, <1>4
    <3>2. status[new] \notin {"terminated", "reaped"} /\ new \in Ids \ {BOOT}
      BY <1>2, <1>4, <2>1
    <3>3. /\ \A k \in ThreadSlots : tab[k] = new => img[k] = last[new]
          /\ (\A k \in ThreadSlots : tab[k] # new) => last[new] = RESET
      BY <1>1, <3>1, <3>2 DEF Keeps
    <3>4. QED
      BY <1>1, <2>2, <2>4, <3>3 DEF Keeps
  <2> HIDE DEF tab2, img2
  <2>8. \A j, k \in ThreadSlots : tab2[j] = tab2[k] /\ tab2[j] # FREE => j = k
    BY <1>1, <2>2, <2>6 DEF Keeps
  <2>9. \A k \in ThreadSlots : tab2[k] \in {slotId[k]} \cup (Added(where[c]) \cup Added(new))
    BY <1>1, <2>1, <2>6 DEF Keeps
  <2>10. ASSUME NEW u \in Ids \ {BOOT, new}, \A d \in CPUs \ {c} : where[d] # u,
                status[u] \notin {"terminated", "reaped"}
         PROVE  /\ \A k \in ThreadSlots : tab2[k] = u => img2[k] = last[u]
                /\ (\A k \in ThreadSlots : tab2[k] # u) => last[u] = RESET
    BY <1>1, <2>2, <2>4, <2>6, <2>10 DEF Keeps
  <2>11. QED
    BY <2>1, <2>2, <2>3, <2>4, <2>5, <2>7, <2>8, <2>9, <2>10 DEF Keeps, tab, p
<1>5. QED
  BY <1>3, <1>4

\* The whole of irq_schedule_with_fpu: the old thread's slot is released only
\* when that thread is terminated and gone.
LEMMA InterruptKeepsIInv ==
  ASSUME IInv, NEW c \in CPUs, Interrupt(c)
  PROVE  IInv'
<1>1. PICK new \in Selectable(c) : Schedule(c, new)
  BY DEF Interrupt
<1> DEFINE old  == where[c]
           tab  == TableAfterRestore(c, new)
           img  == ImagesAfterRestore(c, new)
           gone == IF Releases(c, new) THEN SlotsOf(tab, CurrentId(c)) ELSE {}
<1>2. /\ Keeps(tab, img, c, new, Added(old) \cup Added(new))
      /\ Restores(c, new) =>
           Place(TableAfterSave(c), SelectedId(new)) \in 0 .. NumFpuSlots - 1
      /\ new \notin {NONE, BOOT} =>
           /\ Restores(c, new)
           /\ img[Place(TableAfterSave(c), SelectedId(new))] = last[new]
  BY <1>1, RestoreKeeps DEF Schedule
<1>3. /\ new \in Ids \cup {NONE} /\ (c = BSP => new # NONE)
      /\ new \in {BOOT, IDLE} => c = BSP
      /\ new # NONE => /\ \A d \in CPUs \ {c} : where[d] # new
                      /\ status[new] \in {"ready", "running"}
  BY DEF Selectable, DynamicIds, BOOT, IDLE, NONE, Ids
<1>4. /\ slotId' = [k \in DOMAIN slotId |-> IF k \in gone THEN FREE ELSE tab[k]]
      /\ image' = [k \in DOMAIN image |-> IF k \in gone THEN RESET ELSE img[k]]
      /\ where' = [where EXCEPT ![c] = new]
      /\ status' = [t \in Ids |-> IF t = new THEN "running"
                                  ELSE IF t = old /\ status[t] = "running" THEN "ready"
                                  ELSE status[t]]
      /\ UNCHANGED <<nextId, last>>
      /\ \A d \in CPUs \ {c} : regs'[d] = regs[d]
      /\ new \notin {NONE, BOOT} => regs'[c] = last[new]
  BY <1>1, <1>2 DEF Schedule, IInv, TypeOK
<1>5. /\ old \in Ids \cup {NONE} /\ \A d \in CPUs \ {c} : where[d] = old => old = NONE
      /\ ThreadSlots \subseteq 0 .. NumFpuSlots - 1 /\ FREE \notin Ids /\ NONE \notin Ids
  BY NumFpuSlotsAssumption DEF IInv, TypeOK, WhereInv, ThreadSlots, FREE, NONE, Ids
<1>6. /\ gone = {} \/ /\ old \in Ids \ {BOOT} /\ status[old] = "terminated" /\ new # old
                      /\ gone = {k \in ThreadSlots : tab[k] = old}
      /\ old \in Ids \ {BOOT} /\ status[old] = "terminated" =>
           gone = {k \in ThreadSlots : tab[k] = old}
  BY <1>3, <1>5 DEF Releases, CurrentId, SelectedId, SlotsOf
<1>7. TypeOK'
  <2>1. regs' \in [CPUs -> Images]
    <3>1. Restores(c, new) =>
            img[Place(TableAfterSave(c), SelectedId(new))] \in Images
      BY <1>2 DEF Keeps
    <3>2. regs' = [regs EXCEPT ![c] =
                     IF Restores(c, new)
                     THEN img[Place(TableAfterSave(c), SelectedId(new))] ELSE @]
      BY <1>1 DEF Schedule
    <3> HIDE DEF img
    <3>3. QED
      BY <3>1, <3>2 DEF IInv, TypeOK
  <2> HIDE DEF tab, img, gone, old
  <2>2. slotId' \in Tables /\ image' \in [0 .. NumFpuSlots - 1 -> Images]
    BY <1>2, <1>4 DEF IInv, TypeOK, Keeps, Tables, Images
  <2>3. status' \in [Ids -> Statuses]
    BY <1>4 DEF IInv, TypeOK, Statuses
  <2>4. where' \in [CPUs -> Ids \cup {NONE}] /\ where'[BSP] # NONE
    BY <1>3, <1>4, NumCPUsAssumption DEF IInv, TypeOK, CPUs, BSP
  <2>5. QED
    BY <1>4, <2>1, <2>2, <2>3, <2>4 DEF IInv, TypeOK, Tables
<1> HIDE DEF tab, img, gone, old
<1>8. WhereInv'
  <2>1. \A d \in CPUs : where'[d] = IF d = c THEN new ELSE where[d]
    BY <1>4 DEF IInv, TypeOK
  <2>2. \A t \in Ids : /\ t = new => status'[t] = "running"
                       /\ t # new => \/ status'[t] = status[t]
                                     \/ status[t] = "running" /\ status'[t] = "ready"
    BY <1>4
  <2>3. BOOT \in Ids /\ IDLE \in Ids /\ DynamicIds \subseteq Ids
    BY MaxIdAssumption DEF BOOT, IDLE, DynamicIds, Ids
  <2>4. \A d, e \in CPUs : where'[d] = where'[e] /\ where'[d] # NONE => d = e
    BY <1>3, <2>1 DEF IInv, WhereInv
  <2>5. \A d \in CPUs : where'[d] \in {BOOT, IDLE} => d = BSP
    BY <1>3, <2>1 DEF IInv, WhereInv
  <2>6. \A d \in CPUs : where'[d] # NONE => status'[where'[d]] \notin {"none", "reaped"}
    BY <1>3, <2>1, <2>2 DEF IInv, TypeOK, WhereInv
  <2>7. \A t \in {BOOT, IDLE} : status'[t] \in {"ready", "running"}
    BY <2>2, <2>3 DEF IInv, WhereInv
  <2>8. \A t \in DynamicIds : t >= nextId' => status'[t] = "none"
    BY <1>3, <1>4, <1>5, <2>2, <2>3 DEF IInv, WhereInv
  <2>9. QED
    BY <2>4, <2>5, <2>6, <2>7, <2>8 DEF WhereInv
<1>9. \A t \in Ids : (\E d \in CPUs : where'[d] = t) <=> t = new \/ \E d \in CPUs \ {c} : where[d] = t
  BY <1>4 DEF IInv, TypeOK
<1>10. ThreadKeepsRegisters'
  BY <1>4, <1>5 DEF IInv, TypeOK, ThreadKeepsRegisters
<1>11. ImageInv'
  <2>1. SUFFICES ASSUME NEW t \in Ids \ {BOOT}, \A d \in CPUs : where'[d] # t,
                        status'[t] \notin {"terminated", "reaped"}
                 PROVE  /\ \A k \in ThreadSlots : slotId'[k] = t => image'[k] = last[t]
                        /\ (\A k \in ThreadSlots : slotId'[k] # t) => last[t] = RESET
    BY <1>4 DEF ImageInv, OnSomeCpu
  <2>2. t # new /\ (\A d \in CPUs \ {c} : where[d] # t)
        /\ status[t] \notin {"terminated", "reaped"}
    BY <1>4, <1>9, <2>1
  <2>3. /\ \A k \in ThreadSlots : tab[k] = t => img[k] = last[t]
        /\ (\A k \in ThreadSlots : tab[k] # t) => last[t] = RESET
    BY <1>2, <2>2 DEF Keeps
  <2>4. \A k \in ThreadSlots : tab[k] = t => k \notin gone
    BY <1>6, <2>2
  <2>5. \A k \in ThreadSlots :
          /\ slotId'[k] = IF k \in gone THEN FREE ELSE tab[k]
          /\ image'[k] = IF k \in gone THEN RESET ELSE img[k]
    BY <1>4, <1>5 DEF IInv, TypeOK
  <2>6. QED
    BY <1>5, <2>3, <2>4, <2>5
<1>12. SlotsBelongToThreads'
  <2>1. \A k \in ThreadSlots : slotId'[k] = IF k \in gone THEN FREE ELSE tab[k]
    BY <1>4, <1>5 DEF IInv, TypeOK
  <2> SUFFICES ASSUME NEW k \in ThreadSlots, slotId'[k] # FREE
               PROVE  /\ \/ slotId'[k] = IDLE
                         \/ /\ slotId'[k] \in InTable'
                            /\ status'[slotId'[k]] = "terminated" =>
                                 \E d \in CPUs : where'[d] = slotId'[k]
                      /\ \A j \in ThreadSlots : slotId'[j] = slotId'[k] => j = k
    BY DEF SlotsBelongToThreads
  <2> DEFINE t == slotId'[k]
  <2>2. k \notin gone /\ t = tab[k] /\ t # FREE
    BY <2>1
  <2>3. \A j \in ThreadSlots : slotId'[j] = t => j = k
    BY <1>2, <2>1, <2>2 DEF Keeps
  <2>4. \/ t = slotId[k]
        \/ t = old /\ old \notin {NONE, BOOT}
        \/ t = new /\ new \notin {NONE, BOOT}
    <3>1. tab[k] \in {slotId[k]} \cup (Added(old) \cup Added(new))
      BY <1>2 DEF Keeps
    <3>2. \A x : \A y \in Added(x) : y = x /\ x \notin {NONE, BOOT}
      BY DEF Added
    <3>3. QED
      BY <2>2, <3>1, <3>2
  <2> HIDE DEF t
  <2>5. ASSUME t # IDLE
        PROVE  /\ t \in InTable
               /\ status[t] = "terminated" => OnSomeCpu(t)
    <3>1. CASE t = slotId[k]
      BY <2>2, <2>5, <3>1 DEF IInv, SlotsBelongToThreads, OnSomeCpu
    <3>2. CASE t = old /\ old \notin {NONE, BOOT}
      BY <1>5, <2>5, <3>2
         DEF IInv, TypeOK, WhereInv, InTable, DynamicIds, Ids, OnSomeCpu, BOOT, IDLE, old
    <3>3. CASE t = new /\ new \notin {NONE, BOOT}
      BY <1>3, <2>5, <3>3 DEF InTable, DynamicIds, Ids, BOOT, IDLE
    <3>4. QED
      BY <2>4, <3>1, <3>2, <3>3
  <2>6. ASSUME t # IDLE PROVE t \in InTable'
    BY <1>4, <2>5, <2>6 DEF InTable, DynamicIds, Ids
  <2>7. ASSUME t # IDLE, status'[t] = "terminated" PROVE \E d \in CPUs : where'[d] = t
    <3>1. t \in Ids /\ t # BOOT
      BY <2>5, <2>7 DEF InTable, DynamicIds, Ids, BOOT
    <3>2. status[t] = "terminated" /\ t # new
      BY <1>4, <2>7, <3>1
    <3>3. t # old
      BY <1>6, <2>2, <3>1, <3>2
    <3>4. PICK d \in CPUs : where[d] = t
      BY <2>5, <2>7, <3>2 DEF OnSomeCpu
    <3>5. d # c
      BY <3>3, <3>4 DEF old
    <3>6. QED
      BY <1>9, <3>1, <3>4, <3>5
  <2>8. QED
    BY <2>3, <2>6, <2>7 DEF t
<1>13. QED
  BY <1>7, <1>8, <1>10, <1>11, <1>12 DEF IInv

-----------------------------------------------------------------------------
\* The invariant holds in every reachable state.
THEOREM Invariance == Spec => []IInv
<1>1. IInv /\ [Next]_vars => IInv'
  <2> SUFFICES ASSUME IInv, [Next]_vars PROVE IInv'
    OBVIOUS
  <2>1. CASE UNCHANGED vars
    BY <2>1 DEF vars, IInv, TypeOK, WhereInv, SlotsBelongToThreads, ImageInv,
                ThreadKeepsRegisters, InTable, OnSomeCpu
  <2>2. CASE Next
    BY <2>2, InterruptKeepsIInv, ComputeKeepsIInv, StatusStepsKeepIInv DEF Next
  <2>3. QED
    BY <2>1, <2>2
<1>2. QED
  BY InitEstablishesIInv, <1>1, PTL DEF Spec

\* A created thread finds in the registers what it left there (or the reset
\* values), on whichever CPU it continues: fpu.sotlas's context per thread.
THEOREM ThreadsKeepRegisters == Spec => []ThreadKeepsRegisters
<1>1. IInv => ThreadKeepsRegisters
  BY DEF IInv
<1>2. QED
  BY Invariance, <1>1, PTL

\* A slot in use belongs to one thread that is still in the scheduler's table,
\* so fpu_release_thread misses none (irq.sotlas, irq_schedule_with_fpu).
THEOREM ContextsDoNotLeak == Spec => []SlotsBelongToThreads
<1>1. IInv => SlotsBelongToThreads
  BY DEF IInv
<1>2. QED
  BY Invariance, <1>1, PTL

\* The table of contexts, the registers and the table of threads keep their types:
\* an area is found for every save and restore or the CPU halts, it is never a
\* place outside the table (fpu_find_slot, fpu_allocate_slot).
THEOREM TypeCorrect == Spec => []TypeOK
<1>1. IInv => TypeOK
  BY DEF IInv
<1>2. QED
  BY Invariance, <1>1, PTL

-----------------------------------------------------------------------------
(* The areas suffice.  A used slot belongs to the idle thread or to a       *)
(* thread of the scheduler's table and to one of them only, and the table   *)
(* holds at most NumDynamic threads: a thread without a slot finds one.     *)

\* The kernel's area is taken at boot for good (fpu_initialize), and
\* scheduler_create_thread has a dynamic slot for every thread in the table.
AreaInv ==
  /\ slotId[KERNEL_SLOT] = BOOT
  /\ Cardinality(InTable) <= NumDynamic

LEMMA DynamicIdsFinite ==
  ASSUME NEW S, S \subseteq DynamicIds
  PROVE  IsFiniteSet(S) /\ Cardinality(S) \in Nat
<1>1. IsFiniteSet(DynamicIds)
  BY MaxIdAssumption, FS_Interval DEF DynamicIds
<1>2. QED
  BY <1>1, FS_Subset, FS_CardinalityType

\* A step that brings no thread into the table keeps its bound.
LEMMA FewerThreads ==
  ASSUME AreaInv, InTable' \subseteq InTable
  PROVE  Cardinality(InTable') <= NumDynamic
<1>1. InTable \subseteq DynamicIds
  BY DEF InTable
<1>2. /\ IsFiniteSet(InTable) /\ Cardinality(InTable) \in Nat
      /\ Cardinality(InTable') \in Nat
  BY <1>1, DynamicIdsFinite
<1>3. Cardinality(InTable') <= Cardinality(InTable)
  BY <1>2, FS_Subset
<1>4. QED
  BY <1>2, <1>3, NumDynamicAssumption DEF AreaInv

LEMMA InitEstablishesAreaInv == Init => AreaInv
<1> SUFFICES ASSUME Init PROVE AreaInv
  OBVIOUS
<1>1. InTable = {}
  BY DEF Init, InTable, DynamicIds, Ids, BOOT, IDLE
<1>2. slotId[KERNEL_SLOT] = BOOT
  BY NumFpuSlotsAssumption, NumDynamicAssumption DEF Init, KERNEL_SLOT
<1>3. QED
  BY <1>1, <1>2, FS_EmptySet, NumDynamicAssumption DEF AreaInv

\* irq_schedule_with_fpu changes neither the kernel's area nor who is in the table.
LEMMA InterruptKeepsAreaInv ==
  ASSUME IInv, AreaInv, NEW c \in CPUs, Interrupt(c)
  PROVE  AreaInv'
<1>1. PICK new \in Selectable(c) : Schedule(c, new)
  BY DEF Interrupt
<1> DEFINE saved == TableAfterSave(c)
           tab == TableAfterRestore(c, new)
<1>2. /\ new \in Ids \cup {NONE}
      /\ new # NONE => status[new] \in {"ready", "running"}
      /\ Keeps(saved, ImagesAfterSave(c), c, BOOT, Added(where[c]))
  BY <1>1, SaveKeeps DEF Selectable, Schedule
<1>3. slotId \in Tables /\ KERNEL_SLOT \notin ThreadSlots
  BY DEF IInv, TypeOK, Tables, KERNEL_SLOT, ThreadSlots
<1>4. saved[KERNEL_SLOT] = BOOT
  <2>1. CASE ~Saves(c)
    BY <2>1 DEF TableAfterSave, AreaInv
  <2>2. CASE Saves(c)
    <3>1. CurrentId(c) \in Ids \ {BOOT} /\ CanPlace(slotId, CurrentId(c))
      BY <1>1, <2>2, MaxIdAssumption
         DEF Saves, CurrentId, IInv, TypeOK, Ids, BOOT, Schedule, SaveFits
    <3>2. Place(slotId, CurrentId(c)) \in ThreadSlots
      BY <1>3, <3>1, PlaceIsOwnOrFree
    <3>3. QED
      BY <1>3, <2>2, <3>2 DEF TableAfterSave, AreaInv
  <2>3. QED
    BY <2>1, <2>2
<1>5. tab[KERNEL_SLOT] = BOOT
  <2>1. CASE ~Restores(c, new)
    BY <1>4, <2>1 DEF TableAfterRestore
  <2>2. CASE Restores(c, new) /\ SelectedId(new) = BOOT
    <3>1. SlotsOf(saved, BOOT) = {KERNEL_SLOT}
      BY <1>4 DEF SlotsOf
    <3>2. Place(saved, BOOT) = KERNEL_SLOT
      BY <3>1, FirstIsMember DEF Place, KERNEL_SLOT
    <3> HIDE DEF saved
    <3>3. tab = [saved EXCEPT ![KERNEL_SLOT] = BOOT]
      BY <2>2, <3>2 DEF TableAfterRestore, saved
    <3>4. QED
      BY <1>2, <1>4, <3>3 DEF Keeps, Tables
  <2>3. CASE Restores(c, new) /\ SelectedId(new) # BOOT
    <3>1. SelectedId(new) \in Ids \ {BOOT} /\ CanPlace(saved, SelectedId(new))
      BY <1>1, <1>2, <2>3 DEF SelectedId, Schedule, RestoreFits
    <3>2. Place(saved, SelectedId(new)) \in ThreadSlots
      BY <1>2, <3>1, PlaceIsOwnOrFree DEF Keeps
    <3> HIDE DEF saved
    <3>3. tab = [saved EXCEPT ![Place(saved, SelectedId(new))] = SelectedId(new)]
      BY <2>3 DEF TableAfterRestore, saved
    <3>4. QED
      BY <1>2, <1>3, <1>4, <3>2, <3>3 DEF Keeps, Tables
  <2>4. QED
    BY <2>1, <2>2, <2>3
<1>6. slotId'[KERNEL_SLOT] = BOOT
  <2> DEFINE gone == IF Releases(c, new) THEN SlotsOf(tab, CurrentId(c)) ELSE {}
  <2>1. slotId' = [k \in DOMAIN slotId |-> IF k \in gone THEN FREE ELSE tab[k]]
    BY <1>1 DEF Schedule
  <2>2. KERNEL_SLOT \notin gone
    BY <1>3 DEF Releases, SlotsOf
  <2>3. KERNEL_SLOT \in DOMAIN slotId
    BY NumFpuSlotsAssumption, NumDynamicAssumption DEF IInv, TypeOK, KERNEL_SLOT
  <2> HIDE DEF gone, tab
  <2>4. QED
    BY <1>5, <2>1, <2>2, <2>3
<1>7. InTable' \subseteq InTable
  <2>1. status' = [t \in Ids |-> IF t = new THEN "running"
                                 ELSE IF t = where[c] /\ status[t] = "running" THEN "ready"
                                 ELSE status[t]]
    BY <1>1 DEF Schedule
  <2>2. QED
    BY <1>2, <2>1 DEF InTable, DynamicIds, Ids, NONE
<1>8. QED
  BY <1>6, <1>7, FewerThreads DEF AreaInv

\* Of the other steps only scheduler_create_thread adds a thread, in a free slot.
LEMMA OtherStepsKeepAreaInv ==
  ASSUME IInv, AreaInv,
         \/ \E c \in CPUs : Compute(c) \/ Leave(c, "blocked") \/ Leave(c, "terminated")
         \/ \E t \in DynamicIds : Wake(t) \/ Reap(t)
         \/ Create
  PROVE  AreaInv'
<1>1. slotId' = slotId
  BY DEF Compute, Leave, Wake, Reap, Create
<1>2. CASE ~Create
  <2>1. InTable' \subseteq InTable
    <3>0. status \in [Ids -> Statuses] /\ DynamicIds \subseteq Ids
      BY DEF IInv, TypeOK, DynamicIds, Ids
    <3>1. CASE \E c \in CPUs : Compute(c)
      BY <3>1 DEF Compute, threadVars, InTable
    <3>2. CASE \E c \in CPUs : Leave(c, "blocked") \/ Leave(c, "terminated")
      <4>1. PICK c \in CPUs, st \in {"blocked", "terminated"} : Leave(c, st)
        BY <3>2
      <4>2. /\ where[c] \in DynamicIds /\ status[where[c]] = "running"
            /\ status' = [status EXCEPT ![where[c]] = st]
        BY <4>1 DEF Leave
      <4>3. QED
        BY <3>0, <4>2 DEF InTable
    <3>3. CASE \E t \in DynamicIds : Wake(t) \/ Reap(t)
      <4>1. PICK t \in DynamicIds, st \in {"ready", "reaped"} :
              /\ status[t] \in {"blocked", "terminated"}
              /\ status' = [status EXCEPT ![t] = st]
        BY <3>3 DEF Wake, Reap
      <4>2. QED
        BY <3>0, <4>1 DEF InTable
    <3>4. QED
      BY <1>2, <3>1, <3>2, <3>3
  <2>2. QED
    BY <1>1, <2>1, FewerThreads DEF AreaInv
<1>3. CASE Create
  <2>1. InTable' \subseteq InTable \cup {nextId}
    BY <1>3 DEF Create, InTable, IInv, TypeOK
  <2>2. IsFiniteSet(InTable) /\ Cardinality(InTable) \in Nat /\ Cardinality(InTable') \in Nat
    BY DynamicIdsFinite DEF InTable
  <2>3. /\ IsFiniteSet(InTable \cup {nextId})
        /\ Cardinality(InTable \cup {nextId}) <= Cardinality(InTable) + 1
    BY <2>2, FS_AddElement
  <2>4. /\ Cardinality(InTable') <= Cardinality(InTable \cup {nextId})
        /\ Cardinality(InTable \cup {nextId}) \in Nat
    BY <2>1, <2>3, FS_Subset, FS_CardinalityType
  <2>5. Cardinality(InTable) < NumDynamic
    BY <1>3 DEF Create
  <2>6. QED
    BY <1>1, <2>2, <2>3, <2>4, <2>5, NumDynamicAssumption DEF AreaInv
<1>4. QED
  BY <1>2, <1>3

\* What fits in the thread areas: one thread more than they can hold does not,
\* so with NumFpuSlots >= NumDynamic + 2 a thread without an area finds one free.
LEMMA AreaIsFound ==
  ASSUME AreaInv, NEW tab \in Tables, NEW t \in {IDLE} \cup InTable,
         \A k \in ThreadSlots : tab[k] # FREE => tab[k] \in {IDLE} \cup InTable,
         \A j, k \in ThreadSlots : tab[j] = tab[k] /\ tab[j] # FREE => j = k
  PROVE  CanPlace(tab, t)
<1> SUFFICES ASSUME SlotsOf(tab, t) = {}, FreeSlots(tab) = {}
             PROVE  FALSE
  BY DEF CanPlace, InTable, DynamicIds, IDLE, BOOT
<1> DEFINE owners == ({IDLE} \cup InTable) \ {t}
           f == [k \in ThreadSlots |-> tab[k]]
<1>1. IsFiniteSet(InTable) /\ Cardinality(InTable) \in Nat
  BY DynamicIdsFinite DEF InTable
<1>2. IsFiniteSet(owners) /\ Cardinality(owners) \in Nat /\ Cardinality(owners) <= NumDynamic
  <2>1. /\ IsFiniteSet(InTable \cup {IDLE})
        /\ Cardinality(InTable \cup {IDLE}) <= Cardinality(InTable) + 1
    <3>1. /\ IsFiniteSet(InTable \cup {IDLE})
          /\ Cardinality(InTable \cup {IDLE})
               = IF IDLE \in InTable THEN Cardinality(InTable) ELSE Cardinality(InTable) + 1
      BY <1>1, FS_AddElement
    <3>2. QED
      BY <1>1, <3>1
  <2>2. t \in InTable \cup {IDLE}
    OBVIOUS
  <2>3. /\ IsFiniteSet((InTable \cup {IDLE}) \ {t})
        /\ Cardinality((InTable \cup {IDLE}) \ {t}) = Cardinality(InTable \cup {IDLE}) - 1
    BY <2>1, <2>2, FS_RemoveElement
  <2>4. owners = (InTable \cup {IDLE}) \ {t}
    OBVIOUS
  <2>5. Cardinality(InTable \cup {IDLE}) \in Nat /\ Cardinality(owners) \in Nat
    BY <2>1, <2>3, <2>4, FS_CardinalityType
  <2> HIDE DEF owners
  <2>6. QED
    BY <1>1, <2>1, <2>3, <2>4, <2>5, NumDynamicAssumption DEF AreaInv
<1>3. IsFiniteSet(ThreadSlots) /\ Cardinality(ThreadSlots) = NumFpuSlots - 1
  BY FS_Interval, NumFpuSlotsAssumption, NumDynamicAssumption DEF ThreadSlots
<1>4. f \in [ThreadSlots -> owners]
  BY DEF SlotsOf, FreeSlots, InTable, DynamicIds, IDLE, BOOT
<1>5. Cardinality(owners) < Cardinality(ThreadSlots)
  BY <1>2, <1>3, NumFpuSlotsAssumption, NumDynamicAssumption
<1> HIDE DEF owners, f
<1>6. PICK j, k \in ThreadSlots : j # k /\ f[j] = f[k]
  BY <1>2, <1>3, <1>4, <1>5, FS_PigeonHole
<1>7. tab[j] = tab[k] /\ tab[j] # FREE
  BY <1>6 DEF f, FreeSlots
<1>8. QED
  BY <1>6, <1>7

\* Every save and every restore of irq_schedule_with_fpu finds its area.
LEMMA AreasSuffice == IInv /\ AreaInv => NeverHangs
<1> SUFFICES ASSUME IInv, AreaInv, NEW c \in CPUs
             PROVE  SaveFits(c) /\ \A new \in Selectable(c) : RestoreFits(c, new)
  BY DEF NeverHangs
<1>1. /\ slotId \in Tables
      /\ \A k \in ThreadSlots : slotId[k] # FREE => slotId[k] \in {IDLE} \cup InTable
      /\ \A j, k \in ThreadSlots : slotId[j] = slotId[k] /\ slotId[j] # FREE => j = k
  BY DEF IInv, TypeOK, Tables, SlotsBelongToThreads
<1>2. where[c] \notin {NONE, BOOT} => where[c] \in {IDLE} \cup InTable
  BY DEF IInv, TypeOK, WhereInv, InTable, DynamicIds, Ids, BOOT, IDLE
<1>3. SaveFits(c)
  <2>1. Saves(c) => CurrentId(c) = where[c] /\ where[c] \notin {NONE, BOOT}
    BY DEF Saves, CurrentId
  <2>2. QED
    BY <1>1, <1>2, <2>1, AreaIsFound DEF SaveFits
<1>4. ASSUME NEW new \in Selectable(c), Restores(c, new)
      PROVE  CanPlace(TableAfterSave(c), SelectedId(new))
  <2>1. Keeps(TableAfterSave(c), ImagesAfterSave(c), c, BOOT, Added(where[c]))
    BY <1>3, SaveKeeps
  <2>2. CASE new \in {NONE, BOOT}
    <3>1. SelectedId(new) = BOOT
      BY <2>2 DEF SelectedId
    <3>2. TableAfterSave(c)[KERNEL_SLOT] = BOOT
      <4>1. CASE ~Saves(c)
        BY <4>1 DEF TableAfterSave, AreaInv
      <4>2. CASE Saves(c)
        <5>1. CurrentId(c) \in Ids \ {BOOT} /\ CanPlace(slotId, CurrentId(c))
          BY <1>3, <4>2, MaxIdAssumption DEF Saves, CurrentId, IInv, TypeOK, Ids, BOOT, SaveFits
        <5>2. Place(slotId, CurrentId(c)) \in ThreadSlots /\ KERNEL_SLOT \notin ThreadSlots
          BY <1>1, <5>1, PlaceIsOwnOrFree DEF KERNEL_SLOT, ThreadSlots
        <5>3. QED
          BY <1>1, <4>2, <5>2 DEF TableAfterSave, AreaInv, Tables
      <4>3. QED
        BY <4>1, <4>2
    <3>3. QED
      BY <3>1, <3>2 DEF CanPlace, SlotsOf
  <2>3. CASE new \notin {NONE, BOOT}
    <3>1. SelectedId(new) = new /\ new \in {IDLE} \cup InTable
      BY <2>3 DEF SelectedId, Selectable, InTable, DynamicIds, Ids, BOOT, IDLE, NONE
    <3>2. \A k \in ThreadSlots : TableAfterSave(c)[k] # FREE =>
                                   TableAfterSave(c)[k] \in {IDLE} \cup InTable
      BY <1>1, <1>2, <2>1 DEF Keeps, Added
    <3>3. QED
      BY <2>1, <3>1, <3>2, AreaIsFound DEF Keeps
  <2>4. QED
    BY <2>2, <2>3
<1>5. QED
  BY <1>3, <1>4 DEF RestoreFits

\* No CPU stops in the `loop {}` of irq_schedule_with_fpu with the switch lock
\* held: fpu_save_thread and fpu_restore_thread always find a slot.
THEOREM SchedulingNeverHangs == Spec => []NeverHangs
<1>1. Init => AreaInv
  BY InitEstablishesAreaInv
<1>2. IInv /\ AreaInv /\ [Next]_vars => AreaInv'
  <2> SUFFICES ASSUME IInv, AreaInv, [Next]_vars PROVE AreaInv'
    OBVIOUS
  <2>1. CASE UNCHANGED vars
    BY <2>1 DEF vars, AreaInv, InTable
  <2>2. CASE Next
    BY <2>2, InterruptKeepsAreaInv, OtherStepsKeepAreaInv DEF Next
  <2>3. QED
    BY <2>1, <2>2
<1>3. QED
  BY <1>1, <1>2, Invariance, AreasSuffice, PTL DEF Spec
=============================================================================
