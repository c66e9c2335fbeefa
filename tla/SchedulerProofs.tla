-------------------------- MODULE SchedulerProofs --------------------------
(***************************************************************************)
(* Machine-checked proofs about the scheduler: the invariant IInv is       *)
(* inductive for every number of CPUs, slots and stacks, and it implies    *)
(* the safety properties that TLC checks on small instances.               *)
(***************************************************************************)
EXTENDS Scheduler, TLAPS, FiniteSetTheorems

LEMMA Constants == /\ NumCPUs \in Nat \ {0} /\ NumSlots \in Nat /\ NumSlots > 2
                   /\ NumStacks \in Nat /\ CacheCap \in Nat \ {0}
                   /\ Pins \subseteq CPUs \cup {AFFINITY_ANY}
  BY NumCPUsAssumption, NumSlotsAssumption, NumStacksAssumption, CacheCapAssumption,
     PinsAssumption

\* The sets the model is built from, unfolded once.
LEMMA Ranges ==
  /\ BSP \in CPUs /\ CPUs \subseteq Int /\ CPU_NONE \notin CPUs
  /\ BOOT_SLOT \in Slots \ Dynamic /\ IDLE_SLOT \in Slots \ Dynamic
  /\ Slots \ Dynamic = {BOOT_SLOT, IDLE_SLOT} /\ BOOT_SLOT # IDLE_SLOT
  /\ Dynamic \subseteq Slots /\ INVALID_SLOT \notin Slots
  /\ AFFINITY_ANY \notin CPUs
  /\ Stacks \subseteq AllStacks /\ IDLE_STACK \in AllStacks \ Stacks
  /\ \A c \in CPUs : RuntimeStack(c) \in AllStacks \ Stacks /\ RuntimeStack(c) # IDLE_STACK
  /\ \A c, d \in CPUs : RuntimeStack(c) = RuntimeStack(d) => c = d
  /\ NO_STACK \notin AllStacks /\ STALE \notin AllStacks /\ NO_FRAME = NO_STACK
  /\ STALE # NO_FRAME
  BY Constants DEF CPUs, Slots, Dynamic, Stacks, AllStacks, BSP, BOOT_SLOT, IDLE_SLOT,
     FIRST_DYNAMIC, INVALID_SLOT, CPU_NONE, AFFINITY_ANY, NO_STACK, NO_FRAME, STALE,
     RuntimeStack, IDLE_STACK

\* Two slots in use never share a home stack, and none is an AP's runtime stack.
LEMMA HomesAreDistinct ==
  ASSUME TypeOK, StackInv
  PROVE  /\ \A s \in Slots : Home(s) \in AllStacks \cup {NO_STACK}
         /\ \A s, t \in Slots : Home(s) = Home(t) /\ Home(s) # NO_STACK => s = t
         /\ \A s \in Slots, c \in CPUs : Home(s) = RuntimeStack(c) => c = BSP /\ s = BOOT_SLOT
  BY Ranges DEF TypeOK, StackInv, Home

\* Nothing executes on a slot that nobody owns, except that the BSP may still be
\* on the boot or idle thread whose logical ownership it has just given up.
LEMMA UnownedIsNotCurrent ==
  ASSUME TypeOK, CurrentInv, NEW s \in Dynamic, owner[s] = CPU_NONE, NEW c \in CPUs
  PROVE  current[c] # s /\ ~(\E t \in Dynamic : t = s /\ owner[t] = c)
  BY Ranges DEF TypeOK, CurrentInv

\* A thread a CPU may dispatch has a fresh frame on its own stack, and no other
\* CPU is on it.
LEMMA EligibleIsFresh ==
  ASSUME IInv, NEW c \in CPUs, mode[c] = "pick", NEW s \in Eligible(c)
  PROVE  /\ s \in Slots /\ s # IDLE_SLOT /\ (c # BSP => s \in Dynamic)
         /\ state[s] = "READY" /\ owner[s] = CPU_NONE
         /\ affinity[s] \in {AFFINITY_ANY, c}
         /\ saved[s] = Home(s) /\ Home(s) # NO_STACK
         /\ \A d \in CPUs \ {c} : current[d] # s
<1>1. /\ s \in Slots /\ s # IDLE_SLOT /\ (c # BSP => s \in Dynamic)
      /\ state[s] = "READY" /\ owner[s] = CPU_NONE
      /\ affinity[s] \in {AFFINITY_ANY, c}
  BY Ranges DEF Eligible
<1>2. \A d \in CPUs \ {c} : current[d] # s
  <2>1. CASE s \in Dynamic
    BY <1>1, <2>1, UnownedIsNotCurrent DEF IInv
  <2>2. CASE s \notin Dynamic
    <3>1. c = BSP
      BY <1>1, <2>2
    <3>2. \A d \in CPUs \ {BSP} : current[d] \in Dynamic \cup {INVALID_SLOT}
      BY DEF IInv, CurrentInv
    <3> QED BY <1>1, <2>2, <3>1, <3>2, Ranges
  <2> QED BY <2>1, <2>2
<1>3. saved[s] = Home(s)
  <2>1. saved[s] = Home(s) \/ \E d \in CPUs : current[d] = s /\ mode[d] \in {"handoff", "save"}
    BY <1>1 DEF IInv, FrameInv
  <2> QED BY <1>2, <2>1
<1>4. Home(s) # NO_STACK
  BY <1>1, Ranges DEF IInv, StackInv, Home, TypeOK
<1> QED BY <1>1, <1>2, <1>3, <1>4

\* The same for the idle thread, the BSP's fallback.
LEMMA IdleIsFresh ==
  ASSUME IInv, mode[BSP] = "pick" \/ (mode[BSP] = "requeue" /\ current[BSP] # IDLE_SLOT)
  PROVE  saved[IDLE_SLOT] = IDLE_STACK
<1>1. Home(IDLE_SLOT) = IDLE_STACK
  BY Ranges DEF Home
<1>2. CASE current[BSP] = IDLE_SLOT
  BY <1>1, <1>2 DEF IInv, FrameInv
<1>3. CASE current[BSP] # IDLE_SLOT
  <2>1. \A c \in CPUs : current[c] # IDLE_SLOT
    BY <1>3, Ranges DEF IInv, CurrentInv
  <2>2. state[IDLE_SLOT] = "READY"
    BY <2>1, Ranges DEF IInv, CurrentInv, RunInv
  <2> QED BY <1>1, <2>1, <2>2, Ranges DEF IInv, FrameInv
<1> QED BY <1>2, <1>3

-----------------------------------------------------------------------------
(* The stack cache below the scheduler: StackCache's actions keep its       *)
(* invariant with the scheduler's stacks in place of its variable `used`.   *)

LEMMA CacheConstants ==
  /\ CacheCap \in Nat \ {0} /\ NO_STACK \notin Stacks
  /\ THREAD_STACK_PAGES \in Nat \ {0}
  BY CacheCapAssumption, Ranges DEF THREAD_STACK_PAGES

LEMMA CacheUntouched ==
  ASSUME Cache!CacheIInv, UNCHANGED <<stack, stackVars, createVars>>
  PROVE  Cache!CacheIInv'
<1>1. InUse' = InUse
  BY DEF InUse
<1> QED BY <1>1 DEF stackVars, createVars, Cache!CacheIInv, Cache!CacheTypeOK,
         Cache!OneHolder, Cache!HeldOK, Cache!Cached

LEMMA CacheCreate ==
  ASSUME Cache!CacheIInv, Cache!Create(THREAD_STACK_PAGES)
  PROVE  Cache!CacheIInv'
  BY CacheConstants DEF Cache!Create, Cache!CacheIInv, Cache!CacheTypeOK, Cache!OneHolder,
     Cache!HeldOK, Cache!Cached, Cache!Entries, Cache!Sizes

\* The steps of the call that leave the entries alone.
LEMMA CacheMoves ==
  ASSUME Cache!CacheIInv,
         Cache!Look \/ Cache!Allocate \/ Cache!Publish \/ Cache!GiveBack \/ Cache!PutFind
  PROVE  Cache!CacheIInv'
<1> USE CacheConstants DEF Cache!CacheIInv, Cache!CacheTypeOK, Cache!OneHolder,
    Cache!HeldOK, Cache!Cached, Cache!Entries
<1>1. CASE Cache!Look
  BY <1>1 DEF Cache!Look
<1>2. CASE Cache!Allocate
  BY <1>2 DEF Cache!Allocate
<1>3. CASE Cache!Publish
  BY <1>3 DEF Cache!Publish
<1>4. CASE Cache!GiveBack
  BY <1>4 DEF Cache!GiveBack
<1>5. CASE Cache!PutFind
  BY <1>5 DEF Cache!PutFind, Cache!IsFirstEmpty, Cache!Full
<1> QED BY <1>1, <1>2, <1>3, <1>4, <1>5

\* Its four stores.
LEMMA CacheStores ==
  ASSUME Cache!CacheIInv,
         Cache!ClearBase \/ Cache!ClearPages \/ Cache!StoreBase \/ Cache!StorePages
  PROVE  Cache!CacheIInv'
<1> USE CacheConstants DEF Cache!CacheIInv, Cache!CacheTypeOK, Cache!OneHolder,
    Cache!HeldOK, Cache!Cached, Cache!Entries
<1>1. CASE Cache!ClearBase
  BY <1>1 DEF Cache!ClearBase
<1>2. CASE Cache!ClearPages
  BY <1>2 DEF Cache!ClearPages
<1>3. CASE Cache!StoreBase
  BY <1>3 DEF Cache!StoreBase
<1>4. CASE Cache!StorePages
  BY <1>4 DEF Cache!StorePages, Cache!Sizes
<1> QED BY <1>1, <1>2, <1>3, <1>4

\* The reaper fills an entry that is empty, whatever the call is doing.
LEMMA ReaperPuts ==
  ASSUME Cache!CacheIInv, NEW x \in Stacks, Cache!Reap(x)
  PROVE  Cache!CacheIInv'
<1> USE CacheConstants DEF Cache!CacheIInv, Cache!CacheTypeOK, Cache!OneHolder,
    Cache!HeldOK, Cache!Cached, Cache!Entries, Cache!Reap, Cache!Kept
<1>1. CASE pool' = pool \cup {x} /\ UNCHANGED <<bases, pages>>
  BY <1>1
<1>2. ASSUME NEW e \in Cache!Entries, x \notin Cache!Cached, Cache!IsFirstEmpty(e),
             bases' = [bases EXCEPT ![e] = x], pages' = Cache!PagesPut(e, x), pool' = pool
      PROVE  Cache!CacheIInv'
  <2>1. bases[e] = NO_STACK /\ pages' = [pages EXCEPT ![e] = THREAD_STACK_PAGES]
    BY <1>2 DEF Cache!IsFirstEmpty, Cache!PagesPut
  <2>2. Cache!CacheTypeOK'
    BY <1>2, <2>1 DEF Cache!Sizes
  <2>3. Cache!OneHolder'
    BY <1>2, <2>1
  <2>4. Cache!HeldOK'
    BY <1>2, <2>1
  <2> QED BY <2>2, <2>3, <2>4
<1> QED BY <1>1, <1>2

\* What a create call can publish belongs to nobody else.
LEMMA HeldIsNobodys ==
  ASSUME IInv, at \in {"reused", "allocated"}
  PROVE  target # INVALID_SLOT /\ held \in Stacks /\ \A s \in Slots : stack[s] # held
<1>1. /\ held \in Stacks \cup {NO_STACK} /\ held # NO_STACK /\ held \notin InUse
      /\ target # INVALID_SLOT
  BY DEF IInv, StackInv, Cache!CacheIInv, Cache!CacheTypeOK, Cache!OneHolder, Cache!HeldOK
<1> QED BY <1>1 DEF InUse

\* The invariants that say nothing about the call in progress.
LEMMA SchedulerUntouched ==
  ASSUME IInv, UNCHANGED schedVars, target' \in Dynamic \cup {INVALID_SLOT}, StackInv',
         Cache!CacheIInv'
  PROVE  IInv'
<1> USE DEF IInv, schedVars, irqVars
<1>1. TypeOK'
  BY DEF TypeOK
<1>2. LockInv' /\ CurrentInv'
  BY DEF LockInv, CurrentInv
<1>3. RunInv'
  BY DEF RunInv
<1>4. PlaceInv'
  BY DEF PlaceInv, Entitled, Home, HomeOfCurrent
<1>5. FrameInv'
  BY DEF FrameInv, Home, HomeOfCurrent
<1> QED BY <1>1, <1>2, <1>3, <1>4, <1>5

-----------------------------------------------------------------------------
(* Every action preserves the invariant.                                    *)

LEMMA IrqEnterPreserves == ASSUME IInv, NEW c \in CPUs, IrqEnter(c) PROVE IInv'
<1> USE DEF IInv, irqVars, createVars, stackVars, IrqEnter, ConfirmedOwner, Retiring
<1>1. TypeOK'
  BY Ranges DEF TypeOK, Modes
<1>2. LockInv'
  BY Ranges DEF TypeOK, LockInv
<1>3. CurrentInv'
  BY Ranges DEF TypeOK, CurrentInv
<1>4. RunInv'
  BY Ranges DEF TypeOK, RunInv
<1>5. PlaceInv'
  BY Ranges DEF TypeOK, PlaceInv, Entitled, Home, HomeOfCurrent, CurrentInv
<1>6. FrameInv'
  BY DEF FrameInv, Home, HomeOfCurrent
<1>7. StackInv'
  BY DEF StackInv
<1>8. Cache!CacheIInv'
  BY CacheUntouched
<1> QED BY <1>1, <1>2, <1>3, <1>4, <1>5, <1>6, <1>7, <1>8

LEMMA SaveBspPreserves == ASSUME IInv, SaveBsp PROVE IInv'
<1> USE DEF IInv, irqVars, createVars, stackVars, SaveBsp
<1>1. TypeOK'
  BY Ranges DEF TypeOK, Modes
<1>2. LockInv'
  BY DEF LockInv
<1>3. CurrentInv'
  BY DEF CurrentInv
<1>4. RunInv'
  BY DEF RunInv
<1>5. PlaceInv'
  BY DEF PlaceInv, Entitled, Home, HomeOfCurrent
<1>6. FrameInv'
  BY Constants DEF TypeOK, LockInv, CurrentInv, RunInv, FrameInv, StackInv, PlaceInv, Home,
     HomeOfCurrent, CPUs, Slots, Dynamic, Stacks, AllStacks, BSP, BOOT_SLOT, IDLE_SLOT,
     FIRST_DYNAMIC, INVALID_SLOT, CPU_NONE, AFFINITY_ANY, NO_STACK, NO_FRAME, STALE,
     RuntimeStack, IDLE_STACK
<1>7. StackInv'
  BY DEF StackInv
<1>8. Cache!CacheIInv'
  BY CacheUntouched
<1> QED BY <1>1, <1>2, <1>3, <1>4, <1>5, <1>6, <1>7, <1>8

LEMMA ReapSlotPreserves == ASSUME IInv, NEW s \in Dynamic, ReapSlot(s) PROVE IInv'
<1> USE DEF IInv, irqVars, ReapSlot, Reapable
<1>a. at' = at
  BY DEF StackReleased, Cache!Reap
<1>1. TypeOK'
  BY Ranges DEF TypeOK, ThreadStates
<1>2. LockInv'
  BY DEF LockInv
<1>3. CurrentInv'
  BY DEF CurrentInv
<1>4. RunInv'
  BY Ranges DEF TypeOK, RunInv, CurrentInv
<1>5. PlaceInv'
  BY Ranges DEF TypeOK, PlaceInv, Entitled, Home, HomeOfCurrent, CurrentInv
<1>6. FrameInv'
  BY Ranges DEF TypeOK, FrameInv, Home, HomeOfCurrent
<1>7. StackInv'
  BY <1>a, Ranges DEF TypeOK, StackInv
<1>8. Cache!CacheIInv'
  BY Ranges, ReaperPuts DEF TypeOK, StackReleased
<1> QED BY <1>1, <1>2, <1>3, <1>4, <1>5, <1>6, <1>7, <1>8

LEMMA ReapDonePreserves == ASSUME IInv, ReapDone PROVE IInv'
<1> USE DEF IInv, irqVars, createVars, stackVars, ReapDone
<1>1. TypeOK'
  BY Ranges DEF TypeOK, Modes
<1>2. LockInv'
  BY DEF LockInv
<1>3. CurrentInv'
  BY DEF CurrentInv
<1>4. RunInv'
  BY DEF RunInv
<1>5. PlaceInv'
  BY DEF PlaceInv, Entitled, Home, HomeOfCurrent
<1>6. FrameInv'
  BY DEF FrameInv, Home, HomeOfCurrent
<1>7. StackInv'
  BY DEF StackInv
<1>8. Cache!CacheIInv'
  BY CacheUntouched
<1> QED BY <1>1, <1>2, <1>3, <1>4, <1>5, <1>6, <1>7, <1>8

LEMMA ProbeSwitchPreserves ==
  ASSUME IInv, NEW from \in {BOOT_SLOT, IDLE_SLOT},
         NEW to \in {BOOT_SLOT, IDLE_SLOT} \ {from}, ProbeSwitch(from, to)
  PROVE  IInv'
<1> USE DEF IInv, irqVars, createVars, stackVars, ProbeSwitch, Select
<1>t. saved[to] = Home(to) /\ Home(to) # NO_STACK
  <2>1. \A c \in CPUs : current[c] # to
    BY Ranges DEF CurrentInv
  <2>2. state[to] \in {"READY", "BLOCKED"}
    BY <2>1, Ranges DEF CurrentInv, RunInv
  <2> QED BY <2>1, <2>2, Ranges DEF FrameInv, Home
<1>1. TypeOK'
  BY Ranges DEF TypeOK, ThreadStates, Modes
<1>2. LockInv'
  BY Ranges DEF TypeOK, LockInv
<1>3. CurrentInv'
  BY Ranges DEF TypeOK, CurrentInv
<1>4. RunInv'
  BY Ranges DEF TypeOK, RunInv, CurrentInv
<1>5. PlaceInv'
  <2>1. \A c \in CPUs \ {BSP} : UNCHANGED <<mode[c], resume[c], phys[c], current[c]>>
    BY Ranges DEF TypeOK
  <2>2. \A c \in CPUs, x \in AllStacks : Entitled(c, x) => Entitled(c, x)'
    BY Ranges DEF TypeOK, Entitled
  <2>3. \A c \in CPUs : Entitled(c, phys[c])'
    BY <2>2, Ranges DEF TypeOK, PlaceInv, Entitled
  <2>4. resume'[BSP] = Home(to) /\ current'[BSP] = to /\ mode'[BSP] = "epilogue"
    BY <1>t, Ranges DEF TypeOK
  <2> QED BY <2>1, <2>3, <2>4, Ranges DEF PlaceInv, Home, HomeOfCurrent
<1>6. FrameInv'
  BY Ranges DEF TypeOK, FrameInv, Home, HomeOfCurrent
<1>7. StackInv'
  BY Ranges DEF TypeOK, StackInv
<1>8. Cache!CacheIInv'
  BY CacheUntouched
<1> QED BY <1>1, <1>2, <1>3, <1>4, <1>5, <1>6, <1>7, <1>8

LEMMA RequeueBspPreserves == ASSUME IInv, RequeueBsp PROVE IInv'
<1> USE DEF IInv, irqVars, createVars, stackVars, RequeueBsp, OwnerAfterRequeue
<1>1. TypeOK'
  BY Ranges DEF TypeOK, ThreadStates, Modes
<1>2. LockInv'
  BY DEF LockInv
<1>3. CurrentInv'
  BY Constants DEF TypeOK, LockInv, CurrentInv, RunInv, CPUs, Slots, Dynamic, Stacks,
     AllStacks, BSP, BOOT_SLOT, IDLE_SLOT, FIRST_DYNAMIC, INVALID_SLOT, CPU_NONE,
     AFFINITY_ANY, NO_STACK, NO_FRAME, STALE, RuntimeStack, IDLE_STACK
<1>4. RunInv'
  BY Ranges DEF TypeOK, RunInv, CurrentInv
<1>5. PlaceInv'
  BY Constants DEF TypeOK, LockInv, CurrentInv, RunInv, PlaceInv, Entitled, Home,
     HomeOfCurrent, FrameInv, StackInv, CPUs, Slots, Dynamic, Stacks, AllStacks, BSP,
     BOOT_SLOT, IDLE_SLOT, FIRST_DYNAMIC, INVALID_SLOT, CPU_NONE, AFFINITY_ANY, NO_STACK,
     NO_FRAME, STALE, RuntimeStack, IDLE_STACK
<1>6. FrameInv'
  BY DEF FrameInv, Home, HomeOfCurrent
<1>7. StackInv'
  BY DEF StackInv
<1>8. Cache!CacheIInv'
  BY CacheUntouched
<1> QED BY <1>1, <1>2, <1>3, <1>4, <1>5, <1>6, <1>7, <1>8

LEMMA SaveApPreserves == ASSUME IInv, NEW c \in CPUs, SaveAp(c) PROVE IInv'
<1> USE DEF IInv, irqVars, createVars, stackVars, SaveAp, IdleFrameAtIrq
<1>1. TypeOK'
  BY Ranges DEF TypeOK, ThreadStates, Modes
<1>2. LockInv'
  BY DEF LockInv
<1>3. CurrentInv'
  BY Ranges DEF TypeOK, CurrentInv
<1>4. RunInv'
  BY Ranges DEF TypeOK, RunInv, CurrentInv
<1>5. PlaceInv'
  BY DEF PlaceInv, Entitled, Home, HomeOfCurrent
<1>6. FrameInv'
  BY Ranges DEF TypeOK, LockInv, CurrentInv, FrameInv, PlaceInv, Home, HomeOfCurrent
<1>7. StackInv'
  BY Ranges DEF TypeOK, StackInv
<1>8. Cache!CacheIInv'
  BY CacheUntouched
<1> QED BY <1>1, <1>2, <1>3, <1>4, <1>5, <1>6, <1>7, <1>8

LEMMA PickReadyPreserves ==
  ASSUME IInv, NEW c \in CPUs, NEW s \in Slots, PickReady(c, s)
  PROVE  IInv'
<1> USE DEF IInv, irqVars, createVars, stackVars, PickReady, Select, IsNextReady
<1>e. /\ s # IDLE_SLOT /\ (c # BSP => s \in Dynamic)
      /\ state[s] = "READY" /\ owner[s] = CPU_NONE
      /\ affinity[s] \in {AFFINITY_ANY, c}
      /\ saved[s] = Home(s) /\ Home(s) # NO_STACK
      /\ \A d \in CPUs \ {c} : current[d] # s
  BY EligibleIsFresh
<1>1. TypeOK'
  BY Ranges DEF TypeOK, ThreadStates, Modes
<1>2. LockInv'
  BY Ranges DEF TypeOK, LockInv
<1>3. CurrentInv'
  BY <1>e, Ranges DEF TypeOK, CurrentInv
<1>4. RunInv'
  BY <1>e, Ranges DEF TypeOK, LockInv, CurrentInv, RunInv
<1>5. PlaceInv'
  BY <1>e, Ranges DEF TypeOK, PlaceInv, CurrentInv, Entitled, Home, HomeOfCurrent
<1>6. FrameInv'
  BY Ranges DEF TypeOK, FrameInv, Home, HomeOfCurrent
<1>7. StackInv'
  BY <1>e, Ranges DEF TypeOK, StackInv
<1>8. Cache!CacheIInv'
  BY CacheUntouched
<1> QED BY <1>1, <1>2, <1>3, <1>4, <1>5, <1>6, <1>7, <1>8

LEMMA PickIdleBspPreserves == ASSUME IInv, PickIdleBsp PROVE IInv'
<1> USE DEF IInv, irqVars, createVars, stackVars, PickIdleBsp, Select
<1>1. TypeOK'
  BY Ranges DEF TypeOK, ThreadStates, Modes
<1>2. LockInv'
  BY Ranges DEF TypeOK, LockInv
<1>3. CurrentInv'
  BY Ranges DEF TypeOK, CurrentInv
<1>4. RunInv'
  BY Ranges DEF TypeOK, RunInv, CurrentInv
<1>5. PlaceInv'
  BY IdleIsFresh, Ranges DEF TypeOK, PlaceInv, Entitled, Home, HomeOfCurrent
<1>6. FrameInv'
  BY Ranges DEF TypeOK, FrameInv, Home, HomeOfCurrent
<1>7. StackInv'
  BY Ranges DEF TypeOK, StackInv
<1>8. Cache!CacheIInv'
  BY CacheUntouched
<1> QED BY <1>1, <1>2, <1>3, <1>4, <1>5, <1>6, <1>7, <1>8

LEMMA PickIdleApPreserves == ASSUME IInv, NEW c \in CPUs, PickIdleAp(c) PROVE IInv'
<1> USE DEF IInv, irqVars, createVars, stackVars, PickIdleAp
<1>1. TypeOK'
  BY Ranges DEF TypeOK, Modes
<1>2. LockInv'
  BY Ranges DEF TypeOK, LockInv
<1>3. CurrentInv'
  BY Ranges DEF TypeOK, CurrentInv
<1>4. RunInv'
  <2>1. \A d \in CPUs \ {c} : UNCHANGED <<mode[d], current[d]>>
    BY Ranges DEF TypeOK
  <2>2. current[c] # INVALID_SLOT => state[current[c]] # "RUNNING" /\ current'[c] = INVALID_SLOT
    BY Ranges DEF TypeOK, RunInv, FrameInv
  <2>3. current'[c] = INVALID_SLOT /\ mode'[c] = "epilogue"
    BY <2>2, Ranges DEF TypeOK
  <2> QED BY <2>1, <2>2, <2>3, Ranges DEF RunInv, TypeOK
<1>5. PlaceInv'
  BY Ranges DEF TypeOK, PlaceInv, CurrentInv, FrameInv, Entitled, Home, HomeOfCurrent
<1>6. FrameInv'
  BY Ranges DEF TypeOK, FrameInv, Home, HomeOfCurrent
<1>7. StackInv'
  BY DEF StackInv
<1>8. Cache!CacheIInv'
  BY CacheUntouched
<1> QED BY <1>1, <1>2, <1>3, <1>4, <1>5, <1>6, <1>7, <1>8

LEMMA IretPreserves == ASSUME IInv, NEW c \in CPUs, Iret(c) PROVE IInv'
<1> USE DEF IInv, irqVars, createVars, stackVars, Iret
<1>1. TypeOK'
  <2>1. resume[c] \in AllStacks
    BY Ranges DEF TypeOK, CurrentInv, RunInv, StackInv, PlaceInv, HomeOfCurrent, Home
  <2> QED BY <2>1, Ranges DEF TypeOK, Modes
<1>2. LockInv'
  BY DEF LockInv
<1>3. CurrentInv'
  BY DEF CurrentInv
<1>4. RunInv'
  BY DEF RunInv
<1>5. PlaceInv'
  BY Ranges DEF TypeOK, PlaceInv, Entitled, Home, HomeOfCurrent, CurrentInv, RunInv, StackInv
<1>6. FrameInv'
  BY Ranges DEF TypeOK, FrameInv, Home, HomeOfCurrent, CurrentInv, RunInv, StackInv,
     PlaceInv, Entitled
<1>7. StackInv'
  BY DEF StackInv
<1>8. Cache!CacheIInv'
  BY CacheUntouched
<1> QED BY <1>1, <1>2, <1>3, <1>4, <1>5, <1>6, <1>7, <1>8

LEMMA BlockCurrentPreserves == ASSUME IInv, NEW c \in CPUs, BlockCurrent(c) PROVE IInv'
<1> USE DEF IInv, irqVars, createVars, stackVars, BlockCurrent, ThreadStep, BetweenCalls,
   Executing, ModeAfterBlock
<1>1. TypeOK'
  BY Ranges DEF TypeOK, ThreadStates, Modes
<1>2. LockInv'
  BY DEF LockInv
<1>3. CurrentInv'
  BY DEF CurrentInv
<1>4. RunInv'
  BY Ranges DEF TypeOK, RunInv
<1>5. PlaceInv'
  BY DEF PlaceInv, Entitled, Home, HomeOfCurrent
<1>6. FrameInv'
  BY Ranges DEF TypeOK, FrameInv, Home, HomeOfCurrent
<1>7. StackInv'
  BY Ranges DEF TypeOK, StackInv, RunInv
<1>8. Cache!CacheIInv'
  BY CacheUntouched
<1> QED BY <1>1, <1>2, <1>3, <1>4, <1>5, <1>6, <1>7, <1>8

LEMMA TerminateCurrentPreserves == ASSUME IInv, NEW c \in CPUs, TerminateCurrent(c) PROVE IInv'
<1> USE DEF IInv, irqVars, createVars, stackVars, TerminateCurrent, ThreadStep,
   BetweenCalls, InCreate, Executing
<1>1. TypeOK'
  BY Ranges DEF TypeOK, ThreadStates, Modes
<1>2. LockInv'
  BY DEF LockInv
<1>3. CurrentInv'
  BY DEF CurrentInv
<1>4. RunInv'
  BY Ranges DEF TypeOK, RunInv
<1>5. PlaceInv'
  BY DEF PlaceInv, Entitled, Home, HomeOfCurrent
<1>6. FrameInv'
  BY DEF FrameInv, Home, HomeOfCurrent
<1>7. StackInv'
  <2>1. \A s \in Slots : (state'[s] = "UNUSED") <=> (state[s] = "UNUSED")
    BY DEF TypeOK
  <2> QED BY <2>1 DEF StackInv
<1>8. Cache!CacheIInv'
  BY CacheUntouched
<1> QED BY <1>1, <1>2, <1>3, <1>4, <1>5, <1>6, <1>7, <1>8

LEMMA WakeThreadPreserves ==
  ASSUME IInv, NEW c \in CPUs, NEW s \in Slots, WakeThread(c, s)
  PROVE  IInv'
<1> USE DEF IInv, irqVars, createVars, stackVars, WakeThread, BetweenCalls, InCreate, Executing
<1>1. TypeOK'
  BY Ranges DEF TypeOK, ThreadStates
<1>2. LockInv'
  BY DEF LockInv
<1>3. CurrentInv'
  BY DEF CurrentInv
<1>4. RunInv'
  BY DEF RunInv
<1>5. PlaceInv'
  BY DEF PlaceInv, Entitled, Home, HomeOfCurrent
<1>6. FrameInv'
  BY DEF FrameInv, Home, HomeOfCurrent
<1>7. StackInv'
  BY DEF StackInv
<1>8. Cache!CacheIInv'
  BY CacheUntouched
<1> QED BY <1>1, <1>2, <1>3, <1>4, <1>5, <1>6, <1>7, <1>8

LEMMA SetAffinityPreserves ==
  ASSUME IInv, NEW c \in CPUs, NEW s \in Dynamic, NEW a \in Pins, SetAffinity(c, s, a)
  PROVE  IInv'
<1> USE DEF IInv, irqVars, createVars, stackVars, SetAffinity, Repinnable, ThreadStep,
   BetweenCalls, InCreate, Executing
<1>1. TypeOK'
  BY Constants, Ranges DEF TypeOK, ThreadStates, Modes, PlaceInv, CurrentInv, Entitled
<1>2. LockInv'
  BY DEF LockInv
<1>3. CurrentInv'
  BY DEF CurrentInv
<1>4. RunInv'
  BY DEF RunInv
<1>5. PlaceInv'
  BY DEF PlaceInv, Entitled, Home, HomeOfCurrent
<1>6. FrameInv'
  BY DEF FrameInv, Home, HomeOfCurrent
<1>7. StackInv'
  BY DEF StackInv
<1>8. Cache!CacheIInv'
  BY CacheUntouched
<1> QED BY <1>1, <1>2, <1>3, <1>4, <1>5, <1>6, <1>7, <1>8

LEMMA CreateFindPreserves == ASSUME IInv, CreateFind PROVE IInv'
<1>1. UNCHANGED schedVars /\ target' \in Dynamic /\ Cache!Create(THREAD_STACK_PAGES)
  BY DEF CreateFind
<1>2. Cache!CacheIInv'
  BY <1>1, CacheCreate DEF IInv
<1>3. StackInv'
  BY <1>1, Ranges DEF IInv, StackInv, schedVars, Cache!Create
<1> QED BY <1>1, <1>2, <1>3, SchedulerUntouched

LEMMA CreateStepPreserves ==
  ASSUME IInv, CreateTakeStack \/ CreateGiveBack
  PROVE  IInv'
<1>1. /\ UNCHANGED schedVars /\ target \in Dynamic
      /\ target' = IF at' = "idle" THEN INVALID_SLOT ELSE target
  BY DEF CreateTakeStack, CreateGiveBack, CreateStep, Creating, InCreate, IInv, TypeOK
<1>2. Cache!CacheIInv'
  BY CacheMoves, CacheStores DEF CreateTakeStack, CreateGiveBack, CreateStep, IInv
<1>3. StackInv'
  BY <1>1, Ranges DEF IInv, StackInv, schedVars
<1> QED BY <1>1, <1>2, <1>3, SchedulerUntouched

LEMMA CreatePublishPreserves ==
  ASSUME IInv, NEW a \in Pins, CreatePublish(a)
  PROVE  IInv'
<1> USE DEF IInv, irqVars, CreatePublish, Creating, InCreate, Executing
<1>h. /\ target \in Dynamic /\ held \in Stacks /\ at' = "idle"
      /\ \A s \in Slots : stack[s] # held
  BY HeldIsNobodys DEF TypeOK, Cache!Publish
<1>1. TypeOK'
  BY <1>h, Constants, Ranges DEF TypeOK, ThreadStates
<1>2. LockInv'
  BY DEF LockInv
<1>3. CurrentInv'
  BY <1>h, Ranges DEF TypeOK, CurrentInv, RunInv
<1>4. RunInv'
  BY <1>h, Ranges DEF TypeOK, RunInv
<1>5. PlaceInv'
  BY <1>h, Ranges DEF TypeOK, PlaceInv, Entitled, Home, HomeOfCurrent, RunInv
<1>6. FrameInv'
  BY <1>h, Ranges DEF TypeOK, FrameInv, Home, HomeOfCurrent, CurrentInv
<1>7. StackInv'
  BY <1>h, Ranges DEF TypeOK, StackInv
<1>8. Cache!CacheIInv'
  BY CacheMoves
<1> QED BY <1>1, <1>2, <1>3, <1>4, <1>5, <1>6, <1>7, <1>8

-----------------------------------------------------------------------------
LEMMA InitRuns == Init => RunInv
<1> SUFFICES ASSUME Init PROVE RunInv
  OBVIOUS
<1>1. /\ current[BSP] = BOOT_SLOT /\ state[BOOT_SLOT] = "RUNNING" /\ owner[BOOT_SLOT] = BSP
      /\ \A c \in CPUs \ {BSP} : current[c] = INVALID_SLOT
  BY Ranges DEF Init
<1>2. affinity[BOOT_SLOT] = BSP
  BY Ranges DEF Init, BOOT_SLOT, FIRST_DYNAMIC
<1>3. /\ \A s \in Slots \ {BOOT_SLOT} : state[s] # "RUNNING" /\ owner[s] = CPU_NONE
      /\ \A c \in CPUs : mode[c] = "task"
  BY Ranges DEF Init
<1> QED BY <1>1, <1>2, <1>3, Ranges DEF RunInv

LEMMA InitEstablishes == Init => IInv
<1> SUFFICES ASSUME Init PROVE IInv
  OBVIOUS
<1> USE Constants DEF Init, CPUs, Slots, Dynamic, Stacks, AllStacks, BSP, BOOT_SLOT,
      IDLE_SLOT, FIRST_DYNAMIC, INVALID_SLOT, CPU_NONE, AFFINITY_ANY, NO_STACK,
      NO_FRAME, STALE, RuntimeStack, IDLE_STACK
<1>1. TypeOK
  <2>1. /\ state \in [Slots -> ThreadStates] /\ owner \in [Slots -> CPUs \cup {CPU_NONE}]
        /\ affinity \in [Slots -> CPUs \cup {AFFINITY_ANY}]
    BY DEF ThreadStates
  <2>2. /\ saved \in [Slots -> AllStacks \cup {NO_FRAME, STALE}]
        /\ stack \in [Slots -> Stacks \cup {NO_STACK}]
        /\ phys \in [CPUs -> AllStacks]
    OBVIOUS
  <2>3. current \in [CPUs -> Slots \cup {INVALID_SLOT}] /\ mode \in [CPUs -> Modes]
    BY DEF Modes
  <2>4. /\ idleFrame \in [CPUs -> AllStacks \cup {NO_FRAME, STALE}]
        /\ lock \in CPUs \cup {CPU_NONE} /\ probeDone \in BOOLEAN
        /\ resume \in [CPUs -> AllStacks \cup {NO_FRAME, STALE}]
        /\ target \in Dynamic \cup {INVALID_SLOT}
    OBVIOUS
  <2> QED BY <2>1, <2>2, <2>3, <2>4 DEF TypeOK
<1>2. LockInv /\ CurrentInv /\ RunInv
  <2>1. LockInv
    BY DEF LockInv
  <2>2. CurrentInv
    BY DEF CurrentInv
  <2>3. RunInv
    BY InitRuns
  <2> QED BY <2>1, <2>2, <2>3
<1>3. PlaceInv /\ FrameInv
  BY DEF PlaceInv, Entitled, FrameInv, Home, HomeOfCurrent
<1>4. StackInv
  BY DEF StackInv, Cache!CacheInit
<1>5. Cache!CacheIInv
  <2>1. InUse = {}
    BY DEF InUse
  <2> QED BY <2>1, CacheConstants DEF Cache!CacheInit, Cache!CacheIInv, Cache!CacheTypeOK,
           Cache!OneHolder, Cache!HeldOK, Cache!Cached, Cache!Entries, Cache!Sizes
<1> QED BY <1>1, <1>2, <1>3, <1>4, <1>5 DEF IInv

LEMMA NextPreserves == IInv /\ [Next]_vars => IInv'
<1> SUFFICES ASSUME IInv, [Next]_vars PROVE IInv'
  OBVIOUS
<1>1. CASE UNCHANGED vars
  <2>1. UNCHANGED schedVars /\ target' \in Dynamic \cup {INVALID_SLOT} /\ StackInv'
    BY <1>1 DEF vars, schedVars, irqVars, createVars, IInv, TypeOK, StackInv
  <2>2. Cache!CacheIInv'
    BY <1>1, CacheUntouched DEF vars, IInv
  <2> QED BY <2>1, <2>2, SchedulerUntouched
<1>2. ASSUME NEW c \in CPUs, Interrupt(c) PROVE IInv'
  <2>1. /\ BOOT_SLOT \in {BOOT_SLOT, IDLE_SLOT}
        /\ IDLE_SLOT \in {BOOT_SLOT, IDLE_SLOT} \ {BOOT_SLOT}
        /\ IDLE_SLOT \in {BOOT_SLOT, IDLE_SLOT}
        /\ BOOT_SLOT \in {BOOT_SLOT, IDLE_SLOT} \ {IDLE_SLOT}
    BY Ranges
  <2> QED BY <1>2, <2>1, IrqEnterPreserves, SaveBspPreserves, ReapSlotPreserves,
       ReapDonePreserves, ProbeSwitchPreserves, RequeueBspPreserves, SaveApPreserves,
       PickReadyPreserves, PickIdleBspPreserves, PickIdleApPreserves, IretPreserves
       DEF Interrupt
<1>3. ASSUME NEW c \in CPUs, Call(c) PROVE IInv'
  BY <1>3, BlockCurrentPreserves, TerminateCurrentPreserves, WakeThreadPreserves,
     SetAffinityPreserves DEF Call
<1>4. ASSUME Creation PROVE IInv'
  BY <1>4, CreateFindPreserves, CreateStepPreserves, CreatePublishPreserves DEF Creation
<1> QED BY <1>1, <1>2, <1>3, <1>4 DEF Next

\* The inductive invariant holds in every reachable state.
THEOREM Invariance == Spec => []IInv
  BY InitEstablishes, NextPreserves, PTL DEF Spec

-----------------------------------------------------------------------------
\* Every variable of the scheduler, and of the cache below it, keeps the type
\* its declaration states.
THEOREM TypeCorrect == Spec => [](TypeOK /\ Cache!CacheTypeOK)
<1>1. IInv => TypeOK /\ Cache!CacheTypeOK
  BY DEF IInv, Cache!CacheIInv
<1> QED BY <1>1, Invariance, PTL

\* The stacks one CPU is entitled to are no other CPU's.
LEMMA EntitlementIsExclusive ==
  ASSUME IInv, NEW c \in CPUs, NEW d \in CPUs, c # d, NEW x, Entitled(c, x)
  PROVE  ~Entitled(d, x)
  BY Ranges DEF IInv, TypeOK, StackInv, Entitled

LEMMA UsesAreEntitled ==
  ASSUME IInv, NEW c \in CPUs, NEW x \in Uses(c)
  PROVE  Entitled(c, x)
<1>1. CASE x = phys[c]
  BY <1>1 DEF IInv, PlaceInv
<1>2. CASE x # phys[c]
  <2>1. mode[c] = "epilogue" /\ x = resume[c] /\ x = HomeOfCurrent(c)
    BY <1>2 DEF Uses, IInv, PlaceInv
  <2>2. CASE current[c] = INVALID_SLOT
    BY <2>1, <2>2 DEF HomeOfCurrent, Entitled
  <2>3. CASE current[c] \in Dynamic
    BY <2>1, <2>3, Ranges DEF IInv, TypeOK, CurrentInv, RunInv, StackInv, HomeOfCurrent,
       Home, Entitled
  <2>4. CASE current[c] \notin Dynamic \cup {INVALID_SLOT}
    <3>1. c = BSP /\ current[c] \in {BOOT_SLOT, IDLE_SLOT}
      BY <2>4, Ranges DEF IInv, TypeOK, CurrentInv
    <3> QED BY <2>1, <2>4, <3>1, Ranges DEF HomeOfCurrent, Home, Entitled
  <2> QED BY <2>2, <2>3, <2>4
<1> QED BY <1>1, <1>2

LEMMA InvImpliesExclusive == IInv => StackExclusive
  BY EntitlementIsExclusive, UsesAreEntitled DEF StackExclusive

LEMMA InvImpliesExclusiveNext == IInv' => StackExclusive'
  BY InvImpliesExclusive, PTL

\* No two CPUs are ever on one stack, whatever the number of CPUs and threads:
\* the two-phase hand-over of scheduler_confirm_switched_away_for_cpu is enough.
THEOREM StacksAreExclusive == Spec => []StackExclusive
  BY InvImpliesExclusive, Invariance, PTL

\* The reaper, the stack cache, the PMM and create calls never hold a stack
\* that a CPU is on, is leaving or is about to enter.
THEOREM UsedStacksAreOwned == Spec => []StackInUseIsOwned
<1>1. ASSUME IInv, NEW c \in CPUs, NEW x \in Uses(c) \cap Stacks
      PROVE  \E s \in Dynamic : stack[s] = x /\ owner[s] = c /\ state[s] # "UNUSED"
  <2>1. \E s \in Dynamic : stack[s] = x /\ x # NO_STACK /\ owner[s] = c
    BY <1>1, UsesAreEntitled, Ranges DEF Entitled
  <2> QED BY <1>1, <2>1, Ranges DEF IInv, StackInv
<1>2. IInv => StackInUseIsOwned
  BY <1>1 DEF StackInUseIsOwned
<1> QED BY <1>2, Invariance, PTL

-----------------------------------------------------------------------------
(* Stacks are neither shared nor lost.                                     *)

\* Two holders of one stack are the same holder.
LEMMA HoldersAreOne ==
  ASSUME IInv, NEW x \in Stacks
  PROVE  Cardinality(Holders(x)) <= 1
<1>1. x # NO_STACK
  BY Ranges
<1>2. /\ \A s, t \in Slots : stack[s] = x /\ stack[t] = x => s = t
      /\ \A e, d \in Cache!Entries : bases[e] = x /\ bases[d] = x => e = d
      /\ \A s \in Slots : stack[s] = x => x \in InUse
      /\ \A e \in Cache!Entries : bases[e] = x => x \in Cache!Cached
  BY <1>1 DEF IInv, StackInv, InUse, Cache!CacheIInv, Cache!OneHolder, Cache!Cached
<1>3. /\ x \in pool => x \notin InUse /\ x \notin Cache!Cached /\ held # x
      /\ x \in InUse => x \notin Cache!Cached /\ held # x
      /\ held = x /\ at \notin {"clearBase", "storePages"} => x \notin Cache!Cached
  BY DEF IInv, Cache!CacheIInv, Cache!OneHolder
<1>4. ASSUME NEW h \in Holders(x), NEW k \in Holders(x) PROVE h = k
  BY <1>2, <1>3 DEF Holders
<1>5. CASE Holders(x) = {}
  BY <1>5, FS_EmptySet
<1>6. CASE Holders(x) # {}
  <2>1. PICK h : Holders(x) = {h}
    BY <1>4, <1>6
  <2> QED BY <2>1, FS_Singleton
<1> QED BY <1>5, <1>6

OneHolderEach == \A x \in Stacks : Cardinality(Holders(x)) <= 1

LEMMA InvImpliesOneHolder == IInv => OneHolderEach
  BY HoldersAreOne DEF OneHolderEach

LEMMA InvImpliesOneHolderNext == IInv' => OneHolderEach'
  BY InvImpliesOneHolder, PTL

\* The reaper passes the stack of a dead thread on, to the PMM or to an entry
\* with its size.
LEMMA ReapSlotLosesNone ==
  ASSUME IInv, NEW s \in Dynamic, ReapSlot(s), NEW x \in Stacks, Reachable(x)
  PROVE  Reachable(x)'
<1>1. stack[s] \in Stacks /\ held' = held /\ InUse' = InUse \ {stack[s]}
  BY Ranges DEF ReapSlot, StackReleased, Cache!Reap, Cache!Kept, IInv, TypeOK
<1>2. CASE pool' = pool \cup {stack[s]} /\ UNCHANGED <<bases, pages>>
  BY <1>1, <1>2 DEF Reachable
<1>3. ASSUME NEW e \in Cache!Entries, bases[e] = NO_STACK, pool' = pool,
             bases' = [bases EXCEPT ![e] = stack[s]],
             pages' = [pages EXCEPT ![e] = THREAD_STACK_PAGES]
      PROVE  Reachable(x)'
  <2>1. /\ bases \in [Cache!Entries -> Stacks \cup {NO_STACK}]
        /\ DOMAIN pages = Cache!Entries
    BY DEF IInv, Cache!CacheIInv, Cache!CacheTypeOK
  <2>2. CASE x = stack[s]
    BY <1>3, <2>1, <2>2, CacheConstants DEF Reachable
  <2>3. CASE x # stack[s]
    BY <1>1, <1>3, <2>1, <2>3, CacheConstants DEF Reachable
  <2> QED BY <2>2, <2>3
<1> QED BY <1>1, <1>2, <1>3 DEF ReapSlot, StackReleased, Cache!Reap, Cache!IsFirstEmpty,
         Cache!PagesPut

\* The call loses a stack only where LostByCreator says.
LEMMA CreationLoses ==
  ASSUME IInv, Creation, NEW x \in Stacks, Reachable(x), ~LostByCreator(x)
  PROVE  Reachable(x)'
<1>1. /\ bases \in [Cache!Entries -> Stacks \cup {NO_STACK}]
      /\ pages \in [Cache!Entries -> Cache!Sizes \cup {0}]
      /\ x # NO_STACK
  BY CacheConstants DEF IInv, Cache!CacheIInv, Cache!CacheTypeOK
<1>2. /\ at = "scan" => held = NO_STACK
      /\ at \in {"clearBase", "clearPages", "storeBase", "storePages"} =>
           index \in Cache!Entries
      /\ at \in {"clearBase", "storePages"} => bases[index] = held
      /\ held \in Stacks \cup {NO_STACK}
  BY DEF IInv, Cache!CacheIInv, Cache!CacheTypeOK, Cache!HeldOK
<1>3. CASE Cache!Create(THREAD_STACK_PAGES)
  BY <1>3 DEF Cache!Create, Reachable
<1>4. CASE Cache!Look \/ Cache!Allocate
  BY <1>1, <1>2, <1>4 DEF Cache!Look, Cache!Allocate, Reachable
<1>5. CASE Cache!Publish \/ Cache!GiveBack
  BY <1>1, <1>5 DEF Cache!Publish, Cache!GiveBack, Reachable
<1>6. CASE Cache!PutFind
  BY <1>6 DEF Cache!PutFind, Reachable, LostByCreator
<1>7. CASE Cache!ClearBase
  BY <1>1, <1>2, <1>7 DEF Cache!ClearBase, Reachable
<1>8. CASE Cache!ClearPages
  BY <1>1, <1>2, <1>8 DEF Cache!ClearPages, Reachable, LostByCreator
<1>9. CASE Cache!StoreBase
  BY <1>1, <1>2, <1>9 DEF Cache!StoreBase, Reachable, LostByCreator
<1>10. CASE Cache!StorePages
  <2>1. pages' = [pages EXCEPT ![index] = THREAD_STACK_PAGES] \/ held = NO_STACK
    BY <1>2, <1>10 DEF Cache!StorePages
  <2>2. held # NO_STACK
    BY <1>10 DEF Cache!StorePages, IInv, Cache!CacheIInv, Cache!HeldOK
  <2> QED BY <1>1, <1>2, <1>10, <2>1, <2>2, CacheConstants DEF Cache!StorePages, Reachable
<1> QED BY <1>3, <1>4, <1>5, <1>6, <1>7, <1>8, <1>9, <1>10 DEF Creation, CreateFind,
         CreateTakeStack, CreateGiveBack, CreateStep, CreatePublish

\* Nothing else touches a stack's holders.
LEMMA OthersKeepStacks ==
  ASSUME NEW c \in CPUs, Interrupt(c) \/ Call(c), ~\E s \in Dynamic : ReapSlot(s)
  PROVE  UNCHANGED <<stack, stackVars, createVars>>
<1>1. CASE Interrupt(c)
  BY <1>1, Zenon DEF Interrupt, IrqEnter, SaveBsp, ReapDone, ProbeSwitch, RequeueBsp, SaveAp,
     PickReady, PickIdleBsp, PickIdleAp, Iret
<1>2. CASE Call(c)
  BY <1>2, Zenon DEF Call, BlockCurrent, TerminateCurrent, WakeThread, SetAffinity, ThreadStep
<1> QED BY <1>1, <1>2

LEMMA UntouchedStaysReachable ==
  ASSUME UNCHANGED <<stack, stackVars, createVars>>, NEW x, Reachable(x)
  PROVE  Reachable(x)'
<1>1. InUse' = InUse
  BY DEF InUse
<1> QED BY <1>1 DEF Reachable, stackVars, createVars

\* A thread stack is never handed out twice or freed while in use, and it is
\* lost only at the unlocked stores of scheduler_stack_cache_take and _put and
\* by a put of the creator into a full cache, for any size of the cache.
THEOREM StacksHaveOneHolder == Spec => StacksKeepOneHolder
<1> DEFINE Step == \A x \in Stacks :
                     /\ Cardinality(Holders(x)') <= 1
                     /\ Reachable(x) /\ ~Reachable(x)' => LostByCreator(x)
<1>1. IInv /\ IInv' /\ [Next]_vars => [Step]_vars
  <2> SUFFICES ASSUME IInv, IInv', Next, NEW x \in Stacks
               PROVE  /\ Cardinality(Holders(x)') <= 1
                      /\ Reachable(x) /\ ~Reachable(x)' => LostByCreator(x)
    OBVIOUS
  <2>1. Cardinality(Holders(x)') <= 1
    BY InvImpliesOneHolderNext DEF OneHolderEach
  <2> SUFFICES ASSUME Reachable(x), ~LostByCreator(x) PROVE Reachable(x)'
    BY <2>1
  <2>2. CASE \E s \in Dynamic : ReapSlot(s)
    BY <2>2, ReapSlotLosesNone
  <2>3. CASE Creation
    BY <2>3, CreationLoses
  <2>4. CASE \E c \in CPUs : Interrupt(c) \/ Call(c)
    BY <2>2, <2>4, OthersKeepStacks, UntouchedStaysReachable
  <2> QED BY <2>3, <2>4 DEF Next
<1> QED BY <1>1, Invariance, PTL DEF Spec, StacksKeepOneHolder

\* An interrupt stub never returns into a frame that was already popped, nor to
\* a missing one (the fault the renewed idle frame of an AP removed).
THEOREM ResumesAreFresh == Spec => []ResumeIsFresh
<1>1. ASSUME IInv, NEW c \in CPUs, mode[c] = "epilogue" PROVE resume[c] \in AllStacks
  <2>1. resume[c] \in Uses(c)
    BY <1>1 DEF Uses
  <2>2. Entitled(c, resume[c])
    BY <1>1, <2>1, UsesAreEntitled
  <2> QED BY <1>1, <2>2, Ranges DEF Entitled, IInv, TypeOK
<1>2. IInv => ResumeIsFresh
  BY <1>1 DEF ResumeIsFresh
<1> QED BY <1>2, Invariance, PTL

\* A CPU executing a thread's code executes a RUNNING (or exited) thread that
\* it owns.
THEOREM ExecutingThreadsRun == Spec => []ExecutingIsRunning
<1>1. IInv => ExecutingIsRunning
  BY DEF IInv, RunInv, ExecutingIsRunning
<1> QED BY <1>1, Invariance, PTL

\* A thread runs only on a CPU its affinity allows.
THEOREM AffinityIsRespected == Spec => []RunsWhereAllowed
<1>1. IInv => RunsWhereAllowed
  BY Ranges DEF IInv, RunInv, RunsWhereAllowed
<1> QED BY <1>1, Invariance, PTL

-----------------------------------------------------------------------------
\* Ownership of a thread is given up only by its CPU, after it left the stack.
THEOREM OwnershipHandOver == Spec => OwnershipIsTwoPhase
<1> DEFINE Step == \A s \in Dynamic : owner[s] # CPU_NONE /\ owner'[s] # owner[s] =>
                     owner'[s] = CPU_NONE /\ stack[s] \notin Uses(owner[s])
<1>1. IInv /\ [Next]_vars => [Step]_vars
  <2> SUFFICES ASSUME IInv, Next PROVE Step
    OBVIOUS
  <2> SUFFICES ASSUME NEW s \in Dynamic, owner[s] # CPU_NONE, owner'[s] # owner[s]
               PROVE  owner'[s] = CPU_NONE /\ stack[s] \notin Uses(owner[s])
    OBVIOUS
  <2>a. CASE Creation
    <3>1. CASE \E a \in Pins : CreatePublish(a)
      BY <3>1, Ranges DEF CreatePublish, Creating, InCreate, IInv, TypeOK, RunInv
    <3> QED BY <2>a, <3>1 DEF Creation, CreateFind, CreateTakeStack, CreateGiveBack,
             CreateStep, schedVars
  <2> SUFFICES ASSUME ~Creation PROVE owner'[s] = CPU_NONE /\ stack[s] \notin Uses(owner[s])
    BY <2>a
  <2>1. PICK c \in CPUs : Interrupt(c) \/ Call(c)
    BY DEF Next
  <2>2. CASE IrqEnter(c)
    <3>1. owner[s] = c /\ s # current[c] /\ owner'[s] = CPU_NONE
      BY <2>2, Ranges DEF IrqEnter, ConfirmedOwner
    <3>2. Uses(c) = {HomeOfCurrent(c)}
      BY <2>2 DEF IrqEnter, IInv, PlaceInv, Uses
    <3>3. stack[s] = Home(s) /\ stack[s] # NO_STACK
      BY <2>2, <3>1, Ranges DEF Home, IInv, StackInv, RunInv
    <3>4. HomeOfCurrent(c) # stack[s]
      BY <3>1, <3>3, HomesAreDistinct, Ranges DEF HomeOfCurrent, IInv, TypeOK
    <3> QED BY <3>1, <3>2, <3>4
  <2>3. CASE ~IrqEnter(c) /\ Interrupt(c)
    <3>1. CASE \E t \in Slots : PickReady(c, t)
      <4>1. PICK t \in Slots : PickReady(c, t)
        BY <3>1
      <4>2. owner[t] = CPU_NONE
        BY <4>1, EligibleIsFresh DEF PickReady, IsNextReady
      <4> QED BY <4>1, <4>2, Ranges DEF PickReady, IInv, TypeOK
    <3>2. CASE \E t \in Dynamic : ReapSlot(t)
      BY <3>2, Ranges DEF ReapSlot, Reapable, IInv, TypeOK
    <3>3. CASE RequeueBsp
      <4>1. ~(s < FIRST_DYNAMIC)
        BY Constants DEF Dynamic, FIRST_DYNAMIC
      <4> QED BY <3>3, <4>1, Ranges DEF RequeueBsp, OwnerAfterRequeue, IInv, TypeOK
    <3>4. CASE ProbeSwitch(BOOT_SLOT, IDLE_SLOT) \/ ProbeSwitch(IDLE_SLOT, BOOT_SLOT)
      BY <3>4, Ranges DEF ProbeSwitch, IInv, TypeOK
    <3>5. CASE PickIdleBsp
      BY <3>5, Ranges DEF PickIdleBsp, IInv, TypeOK
    <3> QED BY <2>3, <3>1, <3>2, <3>3, <3>4, <3>5
         DEF Interrupt, SaveBsp, ReapDone, SaveAp, PickIdleAp, Iret
  <2>4. CASE Call(c)
    BY <2>4 DEF Call, BlockCurrent, TerminateCurrent, WakeThread, SetAffinity, ThreadStep
  <2> QED BY <2>1, <2>2, <2>3, <2>4
<1> QED BY <1>1, Invariance, PTL DEF Spec, OwnershipIsTwoPhase

-----------------------------------------------------------------------------
(* The scheduler implements ContextHandoff.                                *)

LEMMA InitImplementsHandoff == Init => Handoff!Init
  BY Ranges DEF Init, Handoff!Init, MovingTo, LiveContexts

\* A context that CPU c neither uses nor is entitled to is untouched by it.
LEMMA UntouchedByOthers ==
  ASSUME IInv, NEW Cs \in SUBSET CPUs, NEW x, \A c \in Cs : ~Entitled(c, x)
  PROVE  Handoff!Untouched(x, Cs)
  BY UsesAreEntitled DEF Handoff!Untouched, MovingTo, Uses

\* Selecting a frame is the first phase of a hand-over (or no hand-over at all).
LEMMA SelectIsBegin ==
  ASSUME IInv, IInv', NEW c \in CPUs, mode[c] # "epilogue", UNCHANGED <<phys, LiveContexts>>,
         mode' = [mode EXCEPT ![c] = "epilogue"],
         NEW x \in LiveContexts, resume' = [resume EXCEPT ![c] = x]
  PROVE  Handoff!Next
<1>1. MovingTo' = [MovingTo EXCEPT ![c] = x]
  BY DEF MovingTo, IInv, TypeOK
<1>2. MovingTo[c] = phys[c]
  BY DEF MovingTo
<1>3. \A d \in CPUs \ {c} : x # phys[d] /\ x # MovingTo[d]
  <2>1. x \in Uses(c)'
    BY DEF Uses, IInv, TypeOK
  <2>2. StackExclusive'
    BY InvImpliesExclusiveNext
  <2>3. ASSUME NEW d \in CPUs \ {c} PROVE x # phys[d] /\ x # MovingTo[d]
    <3>1. x \notin Uses(d)'
      BY <2>1, <2>2 DEF StackExclusive
    <3>2. mode'[d] = mode[d] /\ resume'[d] = resume[d] /\ phys'[d] = phys[d]
      BY DEF IInv, TypeOK
    <3> QED BY <3>1, <3>2 DEF Uses, MovingTo
  <2> QED BY <2>3
<1>4. Handoff!Untouched(x, CPUs \ {c})
  BY <1>3 DEF Handoff!Untouched
<1>5. x \in AllStacks
  BY Ranges DEF LiveContexts, IInv, TypeOK, StackInv
<1> QED BY <1>1, <1>2, <1>4, <1>5 DEF Handoff!Next, Handoff!Begin

\* Every step of the scheduler is a step of ContextHandoff or leaves its
\* variables alone.
LEMMA NextImplementsHandoff ==
  ASSUME IInv, IInv', [Next]_vars
  PROVE  [Handoff!Next]_(Handoff!handoffVars)
<1> USE DEF Handoff!handoffVars
<1>1. CASE UNCHANGED vars
  BY <1>1 DEF vars, irqVars, stackVars, createVars, MovingTo, LiveContexts
<1>2. ASSUME NEW c \in CPUs, IrqEnter(c) PROVE UNCHANGED Handoff!handoffVars
  BY <1>2 DEF IrqEnter, MovingTo, LiveContexts, IInv, TypeOK, stackVars, createVars
<1>3. ASSUME SaveBsp \/ ReapDone PROVE UNCHANGED Handoff!handoffVars
  BY <1>3, Ranges DEF SaveBsp, ReapDone, MovingTo, LiveContexts, IInv, TypeOK
<1>4. ASSUME NEW s \in Dynamic, ReapSlot(s) PROVE Handoff!Next
  <2>1. stack[s] \in LiveContexts /\ stack[s] \in AllStacks /\ LiveContexts' = LiveContexts
     \ {stack[s]}
    BY <1>4, Ranges DEF ReapSlot, Reapable, LiveContexts, IInv, TypeOK, StackInv
  <2>2. \A c \in CPUs : ~Entitled(c, stack[s])
    BY <1>4, Ranges DEF ReapSlot, Reapable, Entitled, IInv, TypeOK, StackInv
  <2>3. Handoff!Untouched(stack[s], CPUs)
    BY <2>2, UntouchedByOthers
  <2>4. UNCHANGED <<phys, MovingTo>>
    BY <1>4 DEF ReapSlot, irqVars, MovingTo
  <2> QED BY <2>1, <2>3, <2>4 DEF Handoff!Next, Handoff!Retire
<1>5. ASSUME NEW from \in {BOOT_SLOT, IDLE_SLOT}, NEW to \in {BOOT_SLOT, IDLE_SLOT} \ {from},
             ProbeSwitch(from, to)
      PROVE  Handoff!Next
  <2>1. current'[BSP] = to /\ mode'[BSP] = "epilogue"
    BY <1>5, Ranges DEF ProbeSwitch, Select, IInv, TypeOK
  <2>2. resume'[BSP] = Home(to)' /\ Home(to)' \in LiveContexts
    BY <2>1, Ranges DEF IInv, PlaceInv, HomeOfCurrent, Home, LiveContexts
  <2>3. UNCHANGED LiveContexts
    BY <1>5, Ranges DEF ProbeSwitch, Select, LiveContexts, IInv, TypeOK, CurrentInv
  <2>4. resume' = [resume EXCEPT ![BSP] = Home(to)'] /\ mode' = [mode EXCEPT ![BSP] = "epilogue"]
    BY <1>5, <2>2, Ranges DEF ProbeSwitch, Select, IInv, TypeOK
  <2> QED BY <1>5, <2>2, <2>3, <2>4, SelectIsBegin, Ranges DEF ProbeSwitch
<1>6. ASSUME RequeueBsp PROVE UNCHANGED Handoff!handoffVars
  BY <1>6, Ranges DEF RequeueBsp, MovingTo, LiveContexts, IInv, TypeOK, CurrentInv
<1>7. ASSUME NEW c \in CPUs, SaveAp(c) PROVE UNCHANGED Handoff!handoffVars
  BY <1>7, Ranges DEF SaveAp, MovingTo, LiveContexts, IInv, TypeOK, CurrentInv, RunInv
<1>8. ASSUME NEW c \in CPUs, NEW s \in Slots, PickReady(c, s) PROVE Handoff!Next
  <2>1. state[s] = "READY" /\ saved[s] = Home(s) /\ s # IDLE_SLOT
    BY <1>8, EligibleIsFresh DEF PickReady, IsNextReady
  <2>2. UNCHANGED LiveContexts
    BY <1>8, <2>1, Ranges DEF PickReady, LiveContexts, IInv, TypeOK
  <2>3. saved[s] \in LiveContexts
    BY <2>1, Ranges DEF Home, LiveContexts
  <2> QED BY <1>8, <2>2, <2>3, SelectIsBegin DEF PickReady, Select
<1>9. ASSUME PickIdleBsp PROVE Handoff!Next
  <2>1. saved[IDLE_SLOT] \in LiveContexts
    BY <1>9, IdleIsFresh, Ranges DEF PickIdleBsp, LiveContexts
  <2>2. UNCHANGED LiveContexts
    BY <1>9, Ranges DEF PickIdleBsp, LiveContexts, IInv, TypeOK
  <2> QED BY <1>9, <2>1, <2>2, SelectIsBegin, Ranges DEF PickIdleBsp, Select
<1>10. ASSUME NEW c \in CPUs, PickIdleAp(c) PROVE Handoff!Next
  <2>1. current'[c] = INVALID_SLOT /\ mode'[c] = "epilogue"
    BY <1>10, Ranges DEF PickIdleAp, IInv, TypeOK, FrameInv
  <2>2. resume'[c] = RuntimeStack(c)
    BY <2>1 DEF IInv, PlaceInv, HomeOfCurrent
  <2>3. RuntimeStack(c) \in LiveContexts
    BY Ranges DEF LiveContexts
  <2>4. resume' = [resume EXCEPT ![c] = RuntimeStack(c)]
    BY <1>10, <2>2 DEF PickIdleAp, IInv, TypeOK
  <2>5. UNCHANGED LiveContexts
    BY <1>10 DEF PickIdleAp, LiveContexts
  <2> QED BY <1>10, <2>3, <2>4, <2>5, SelectIsBegin DEF PickIdleAp
<1>11. ASSUME NEW c \in CPUs, Iret(c) PROVE Handoff!Next
  <2>1. UNCHANGED <<MovingTo, LiveContexts>>
    BY <1>11 DEF Iret, MovingTo, LiveContexts, IInv, TypeOK, stackVars
  <2>2. phys' = [phys EXCEPT ![c] = MovingTo[c]]
    BY <1>11 DEF Iret, MovingTo
  <2> QED BY <2>1, <2>2 DEF Handoff!Next, Handoff!Finish
<1>12. ASSUME NEW a \in Pins, CreatePublish(a) PROVE Handoff!Next
  <2>1. target \in Dynamic /\ held \in Stacks /\ \A s \in Slots : stack[s] # held
    BY <1>12, HeldIsNobodys DEF CreatePublish, Cache!Publish, IInv, TypeOK
  <2>2. held \notin LiveContexts
    BY <2>1, Ranges DEF LiveContexts
  <2>3. LiveContexts' = LiveContexts \cup {held}
    BY <1>12, <2>1, Ranges DEF CreatePublish, LiveContexts, IInv, TypeOK
  <2>4. UNCHANGED <<phys, MovingTo>>
    BY <1>12 DEF CreatePublish, irqVars, MovingTo
  <2> QED BY <2>1, <2>2, <2>3, <2>4, Ranges DEF Handoff!Next, Handoff!Publish
<1>13. ASSUME NEW c \in CPUs, BlockCurrent(c) \/ TerminateCurrent(c)
       PROVE UNCHANGED Handoff!handoffVars
  BY <1>13, Ranges DEF BlockCurrent, TerminateCurrent, ThreadStep, BetweenCalls, InCreate, Executing,
     ModeAfterBlock, MovingTo, LiveContexts, IInv, TypeOK, RunInv
<1>14. ASSUME NEW c \in CPUs, NEW s \in Slots, WakeThread(c, s)
       PROVE UNCHANGED Handoff!handoffVars
  BY <1>14, Ranges DEF WakeThread, irqVars, MovingTo, LiveContexts, IInv, TypeOK
<1>15. ASSUME NEW c \in CPUs, NEW s \in Dynamic, NEW a \in Pins, SetAffinity(c, s, a)
       PROVE UNCHANGED Handoff!handoffVars
  BY <1>15 DEF SetAffinity, ThreadStep, MovingTo, LiveContexts
<1>16. ASSUME CreateFind \/ CreateTakeStack \/ CreateGiveBack
       PROVE UNCHANGED Handoff!handoffVars
  BY <1>16 DEF CreateFind, CreateTakeStack, CreateGiveBack, CreateStep, schedVars, irqVars,
     MovingTo, LiveContexts
<1>17. ASSUME Next PROVE [Handoff!Next]_(Handoff!handoffVars)
  <2>1. CASE Creation
    BY <2>1, <1>12, <1>16 DEF Creation
  <2>2. ASSUME NEW c \in CPUs, Interrupt(c) PROVE [Handoff!Next]_(Handoff!handoffVars)
    BY <2>2, <1>2, <1>3, <1>4, <1>5, <1>6, <1>7, <1>8, <1>9, <1>10, <1>11, Ranges DEF Interrupt
  <2>3. ASSUME NEW c \in CPUs, Call(c) PROVE [Handoff!Next]_(Handoff!handoffVars)
    BY <2>3, <1>13, <1>14, <1>15 DEF Call
  <2> QED BY <1>17, <2>1, <2>2, <2>3 DEF Next
<1> QED BY <1>1, <1>17

\* Every behaviour of the scheduler is one of ContextHandoff: a CPU changes
\* context in two phases, alone, and a context is recycled only when untouched.
THEOREM SchedulerImplementsHandoff == Spec => ImplementsHandoff
  BY InitImplementsHandoff, NextImplementsHandoff, Invariance, PTL
     DEF Spec, ImplementsHandoff, Handoff!Spec
=============================================================================
