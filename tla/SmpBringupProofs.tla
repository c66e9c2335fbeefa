------------------------- MODULE SmpBringupProofs -------------------------
(***************************************************************************)
(* Proofs about SmpBringup, for every number of processors, every list of  *)
(* APs a MADT may hold and every set of stacks.                            *)
(*                                                                         *)
(* After a failure nothing is known of the tables that late APs look at:   *)
(* they may find no slot, their own or another's.  What is known is that   *)
(* the slot they use exists (AtInv), and that no flag of any slot releases *)
(* anybody unless all APs came up (ReleaseInv).                            *)
(*                                                                         *)
(* While there was no failure (Healthy) much more is known, and each part  *)
(* rests on the one before: the trampoline page is read by one AP only,    *)
(* the last that was registered (PageSlotInv, ReaderInv, StartedInv), so   *)
(* stacks are owned (StackInv); a slot holds the id and the stack of one   *)
(* target (TableInv), so every AP finds its own (PathInv), a flag of slot  *)
(* k is set by target k and by nobody else (UpInv), and the active set     *)
(* holds APs that enable interrupts, all or none of them (ShootdownInv).   *)
(***************************************************************************)
EXTENDS SmpBringup, NaturalsInduction, WellFoundedInduction, FiniteSetTheorems, TLAPS

USE IdsAssumption, MaxApsAssumption DEF IdsAssumption, MaxApsAssumption

Starting == {"prepare", "init", "startup", "startup again", "wait ready", "wait runtime"}
Released == {"activate", "open", "stopped"}

\* The counters of the BSP follow its progress.
CounterInv ==
  /\ pc = "start" => n = 0
  /\ pc \in Starting => n \in 1 .. Len(targets)
  /\ pc = "register" => n \in 1 .. Len(targets) + 1
  /\ pc \in {"reset id", "reset"} => n \in 0 .. MaxAps
  /\ pc = "activate" => n \in 1 .. MaxAps + 1
  /\ ~SmpReady => runtimeAps = 0 /\ ~degraded
  /\ SmpReady /\ ~degraded => runtimeAps = Len(targets)
  /\ degraded => runtimeAps = 0

\* An AP that goes on has found one of the APs' slots.
InSlot == {"found", "prepared", "parked", "announced", "enabled"}
AtInv == \A a \in ApIds : stage[a] \in InSlot => at[a] \in 1 .. MaxAps

\* The state an AP may enable interrupts in, and in which alone it is told to.
MayEnable == pc \in Released /\ ~degraded /\ runtimeAps = Len(targets)
ReleaseInv ==
  /\ \A s \in Slots : cpu[s].release => MayEnable
  /\ \A a \in ApIds : stage[a] \in Enabling => MayEnable

-----------------------------------------------------------------------------

(* The types, in three parts.                                              *)

BspTypes ==
  /\ targets \in Topologies
  /\ pc \in BspStages
  /\ n \in 0 .. MaxAps + 1
  /\ runtimeAps \in Nat
  /\ degraded \in BOOLEAN
TableTypes ==
  /\ cpu \in [Slots -> CpuRecord]
  /\ tlb \in [Slots -> TlbRecord]
  /\ page \in [stack : Stacks \cup {None}, slot : Slots]
  /\ free \subseteq Stacks
ApTypes ==
  /\ stage \in [ApIds -> ApStages]
  /\ at \in [ApIds -> 0 .. INVALID_SLOT]
  /\ rsp \in [ApIds -> Stacks \cup {None}]
  /\ top \in [ApIds -> Stacks \cup {None}]
  /\ pending \subseteq ApIds

LEMMA TypeParts == TypeOK <=> BspTypes /\ TableTypes /\ ApTypes
  BY DEF TypeOK, BspTypes, TableTypes, ApTypes

\* What the assumptions say of the APs that are to be started.
TargetsOK ==
  /\ Len(targets) \in Nat /\ Len(targets) <= MaxAps
  /\ \A k \in 1 .. Len(targets) : targets[k] \in ApIds /\ targets[k] \in Nat /\ targets[k] # BspId

LEMMA TargetsType == BspTypes => TargetsOK
<1> SUFFICES ASSUME targets \in Topologies PROVE TargetsOK
  BY DEF BspTypes
<1>1. targets \in Seq(ApIds) /\ Len(targets) <= MaxAps
  BY TopologyAssumption
<1>2. Len(targets) \in Nat /\ \A k \in 1 .. Len(targets) : targets[k] \in ApIds
  BY <1>1
<1>3. ApIds \subseteq Nat \ {BspId}
  BY IdsAssumption
<1> QED BY <1>1, <1>2, <1>3 DEF TargetsOK

LEMMA TargetsStay == [Next]_vars => targets' = targets
<1> SUFFICES ASSUME [Next]_vars PROVE targets' = targets
  OBVIOUS
<1> USE DEF bspVars
<1>1. CASE Bsp
  BY <1>1 DEF Bsp, StartAp, Fallback, Release, CannotStart, RegisterBsp, RegisterAp, RegisterFails,
     Prepare, PrepareFails, SendInit, SendStartup, SendStartupAgain, AwaitReady, AwaitRuntime,
     TimeLimit, AllStarted, RetainBspOnly, ResetId, ResetSlot, EnterFallback, ReleaseAps,
     ActivateAp, ActivateTimeLimit, AllActive
<1>2. CASE Broadcast BY <1>2 DEF Broadcast
<1>3. ASSUME NEW a \in ApIds, Ap(a) PROVE targets' = targets
  BY <1>3 DEF Ap, LoadStack, SetReady, FindSlot, PrepareTables, SetRuntimeReady, SetActive,
     EnableInterrupts, HandleShootdown
<1>4. CASE UNCHANGED vars BY <1>4 DEF vars
<1> QED BY <1>1, <1>2, <1>3, <1>4 DEF Next, Done

LEMMA NextSlot ==
  /\ 0 \in 0 .. MaxAps + 1
  /\ \A k \in 0 .. MaxAps : k + 1 \in 0 .. MaxAps + 1
  /\ \A k \in 1 .. MaxAps : k \in Slots
  BY DEF Slots

LEMMA TargetSlot ==
  ASSUME TargetsOK
  PROVE  \A k \in 1 .. Len(targets) : k \in Slots /\ k \in 1 .. MaxAps /\ k + 1 \in 0 .. MaxAps + 1
  BY DEF TargetsOK, Slots

\* The lookup finds the least matching slot, which exists when one matches.
LEMMA LeastSlot ==
  ASSUME NEW T \in SUBSET Nat, T # {}
  PROVE  \E s \in T : \A r \in T : s <= r
<1>1. PICK s \in T : \A r \in T : ~(<<r, s>> \in OpToRel(<, Nat))
  BY NatLessThanWellFounded, WFMin, Zenon
<1>2. ASSUME NEW r \in T PROVE ~(r < s)
  <2>1. <<r, s>> \in Nat \X Nat
    OBVIOUS
  <2>2. ~(<<r, s>>[1] < <<r, s>>[2])
    BY <1>1, <2>1, Zenon DEF OpToRel
  <2> QED BY <2>2
<1> QED BY <1>2

LEMMA SlotFound ==
  ASSUME NEW id
  PROVE  /\ SlotOf(id) \in Matching(id) \/ (SlotOf(id) = INVALID_SLOT /\ Matching(id) = {})
         /\ SlotOf(id) \in 0 .. INVALID_SLOT
<1>1. CASE Matching(id) = {} BY <1>1 DEF SlotOf, INVALID_SLOT
<1>2. CASE Matching(id) # {}
  <2>1. Matching(id) \subseteq 0 .. MaxAps
    BY Zenon DEF Matching, Slots
  <2>2. \E s \in Matching(id) : \A r \in Matching(id) : s <= r
    BY <1>2, <2>1, LeastSlot
  <2>3. SlotOf(id) \in Matching(id)
    BY <1>2, <2>2, Zenon DEF SlotOf
  <2>4. SlotOf(id) \in 0 .. MaxAps
    BY <2>1, <2>3
  <2>5. SlotOf(id) \in 0 .. INVALID_SLOT
    BY <2>4 DEF INVALID_SLOT
  <2> QED BY <2>3, <2>5
<1> QED BY <1>1, <1>2

-----------------------------------------------------------------------------
(* Records.                                                                *)

LEMMA CpuFields ==
  /\ CLEARED \in CpuRecord
  /\ \A id \in Nat : [CLEARED EXCEPT !.apic = id, !.registered = TRUE] \in CpuRecord
  /\ \A r \in CpuRecord :
       /\ [r EXCEPT !.ready = TRUE] \in CpuRecord
       /\ [r EXCEPT !.runtime = TRUE] \in CpuRecord
       /\ [r EXCEPT !.active = TRUE] \in CpuRecord
       /\ \A id \in Nat : /\ [r EXCEPT !.apic = id] \in CpuRecord
                          /\ [[r EXCEPT !.apic = id] EXCEPT !.registered = TRUE] \in CpuRecord
       /\ \A s \in Stacks : [r EXCEPT !.stack = s] \in CpuRecord
       /\ \A b \in BOOLEAN : [r EXCEPT !.release = r.release \/ b] \in CpuRecord
  BY DEF CpuRecord, CLEARED

LEMMA TlbFields ==
  /\ TLB_CLEARED \in TlbRecord
  /\ \A id \in Nat : /\ [apic |-> id, registered |-> TRUE, active |-> TRUE] \in TlbRecord
                     /\ TlbEntry(id) \in TlbRecord
  /\ \A r \in TlbRecord, b \in BOOLEAN : [r EXCEPT !.active = r.active \/ b] \in TlbRecord
  BY DEF TlbRecord, TLB_CLEARED, TlbEntry

LEMMA BspTypesStep == BspTypes /\ CounterInv /\ [Next]_vars => BspTypes'
<1> SUFFICES ASSUME BspTypes, CounterInv, [Next]_vars PROVE BspTypes'
  OBVIOUS
<1>0. TargetsOK /\ targets' = targets
  BY TargetsType, TargetsStay
<1> USE <1>0 DEF BspTypes, BspStages, bspVars
<1>1. CASE CannotStart
  BY <1>1 DEF CannotStart
<1>2. CASE RegisterBsp
  BY <1>2 DEF RegisterBsp, TargetsOK
<1>3. CASE RegisterAp
  BY <1>3 DEF RegisterAp, TlbEntry
<1>4. CASE RegisterFails
  BY <1>4 DEF RegisterFails
<1>5. CASE Prepare
  BY <1>5 DEF Prepare
<1>6. CASE PrepareFails
  BY <1>6 DEF PrepareFails
<1>7. CASE SendInit
  BY <1>7 DEF SendInit, Signal
<1>8. CASE SendStartup
  BY <1>8 DEF SendStartup, Signal
<1>9. CASE SendStartupAgain
  BY <1>9 DEF SendStartupAgain, Signal
<1>10. CASE AwaitReady
  BY <1>10 DEF AwaitReady
<1>11. CASE AwaitRuntime
  <2>1. n \in 1 .. Len(targets)
    BY <1>11 DEF AwaitRuntime, CounterInv, Starting
  <2>2. n' = n + 1
    BY <1>11, Zenon DEF AwaitRuntime
  <2>3. n' \in 0 .. MaxAps + 1
    BY <2>1, <2>2, TargetSlot, Zenon
  <2> QED BY <1>11, <2>3 DEF AwaitRuntime
<1>12. CASE TimeLimit
  BY <1>12 DEF TimeLimit, WaitMayEnd, AfterTimeout
<1>13. CASE AllStarted
  BY <1>13 DEF AllStarted, TargetsOK
<1>14. CASE RetainBspOnly
  <2>1. n' = 0
    BY <1>14, Zenon DEF RetainBspOnly
  <2>2. pc' = "reset id"
    BY <1>14, Zenon DEF RetainBspOnly
  <2>3. UNCHANGED <<targets, runtimeAps, degraded>>
    BY <1>14, Zenon DEF RetainBspOnly
  <2> QED BY <2>1, <2>2, <2>3, NextSlot, Zenon
<1>15. CASE ResetId
  BY <1>15 DEF ResetId
<1>16. CASE ResetSlot
  <2>1. n \in 0 .. MaxAps
    BY <1>16 DEF ResetSlot, CounterInv
  <2>2. n' = n + 1
    BY <1>16, Zenon DEF ResetSlot
  <2>3. n' \in 0 .. MaxAps + 1
    BY <2>1, <2>2, NextSlot, Zenon
  <2> QED BY <1>16, <2>3 DEF ResetSlot
<1>17. CASE EnterFallback
  BY <1>17 DEF EnterFallback
<1>18. CASE ReleaseAps
  BY <1>18 DEF ReleaseAps
<1>19. CASE ActivateAp
  BY <1>19 DEF ActivateAp, IsActive, TargetsOK
<1>20. CASE ActivateTimeLimit
  BY <1>20 DEF ActivateTimeLimit
<1>21. CASE AllActive
  BY <1>21 DEF AllActive
<1>22. CASE Broadcast
  BY <1>22 DEF Broadcast
<1>23. ASSUME NEW a \in ApIds,
                \/ LoadStack(a) \/ SetReady(a) \/ FindSlot(a) \/ PrepareTables(a)
                \/ SetRuntimeReady(a) \/ SetActive(a) \/ EnableInterrupts(a)
                \/ HandleShootdown(a)
       PROVE BspTypes'
  BY <1>23 DEF LoadStack, SetReady, FindSlot, PrepareTables, SetRuntimeReady,
     SetActive, MayLeavePark, EnableInterrupts, HandleShootdown, InActiveSet
<1>24. CASE UNCHANGED vars
  BY <1>24 DEF vars
<1> QED
  BY <1>1, <1>2, <1>3, <1>4, <1>5, <1>6, <1>7, <1>8, <1>9, <1>10, <1>11,
     <1>12, <1>13, <1>14, <1>15, <1>16, <1>17, <1>18, <1>19, <1>20, <1>21,
     <1>22, <1>23, <1>24 DEF Next, Bsp, StartAp, Fallback, Release, Ap, Done

LEMMA TableTypesStep ==
  BspTypes /\ CounterInv /\ TableTypes /\ ApTypes /\ AtInv /\ [Next]_vars => TableTypes'
<1> SUFFICES ASSUME BspTypes, CounterInv, TableTypes, ApTypes, AtInv, [Next]_vars PROVE TableTypes'
  OBVIOUS
<1>0. TargetsOK /\ targets' = targets
  BY TargetsType, TargetsStay
<1> USE <1>0 DEF TableTypes, tableVars
<1>1. CASE
       \/ CannotStart \/ RegisterFails \/ PrepareFails \/ AwaitReady
       \/ AwaitRuntime \/ TimeLimit \/ AllStarted \/ ActivateTimeLimit
       \/ AllActive \/ Broadcast \/ SendInit \/ SendStartup
       \/ SendStartupAgain
  BY <1>1 DEF CannotStart, RegisterFails, PrepareFails, AwaitReady,
     AwaitRuntime, IsRuntimeReady, TimeLimit, WaitMayEnd, AfterTimeout,
     AllStarted, ActivateTimeLimit, AllActive, Broadcast, SendInit, Signal,
     SendStartup, SendStartupAgain
<1>2. CASE RegisterBsp
  BY <1>2, CpuFields, TlbFields DEF RegisterBsp, Slots
<1>3. CASE RegisterAp
  <2>1. n \in Slots /\ targets[n] \in Nat
    BY <1>3 DEF RegisterAp, CounterInv, BspTypes, TargetsOK, Slots
  <2> QED BY <1>3, <2>1, CpuFields, TlbFields DEF RegisterAp
<1>4. CASE Prepare
  <2>1. PICK s \in free : /\ free' = free \ {s}
                           /\ cpu' = [cpu EXCEPT ![n].stack = s]
                           /\ page' = [stack |-> s, slot |-> n]
    BY <1>4 DEF Prepare
  <2>2. n \in Slots /\ tlb' = tlb
    BY <1>4 DEF Prepare, CounterInv, Starting, TargetsOK, Slots
  <2> QED BY <2>1, <2>2, CpuFields
<1>5. CASE RetainBspOnly
  BY <1>5, TlbFields DEF RetainBspOnly, TLB_CLEARED
<1>6. CASE ResetId
  BY <1>6, CpuFields DEF ResetId
<1>7. CASE ResetSlot
  BY <1>7, CpuFields DEF ResetSlot, IsLast
<1>8. CASE EnterFallback
  BY <1>8, CpuFields DEF EnterFallback
<1>9. CASE ReleaseAps
  BY <1>9, CpuFields DEF ReleaseAps
<1>10. CASE ActivateAp
  BY <1>10, TlbFields DEF ActivateAp, IsActive
<1>11. ASSUME NEW a \in ApIds,
                \/ LoadStack(a) \/ FindSlot(a) \/ PrepareTables(a)
                \/ EnableInterrupts(a) \/ HandleShootdown(a)
       PROVE TableTypes'
  BY <1>11 DEF LoadStack, FindSlot, PrepareTables, EnableInterrupts,
     HandleShootdown, InActiveSet
<1>12. ASSUME NEW a \in ApIds, SetReady(a) PROVE TableTypes'
  BY <1>12, CpuFields DEF SetReady
<1>13. ASSUME NEW a \in ApIds, SetRuntimeReady(a) PROVE TableTypes'
  BY <1>13, CpuFields DEF SetRuntimeReady
<1>14. ASSUME NEW a \in ApIds, SetActive(a) PROVE TableTypes'
  BY <1>14, CpuFields DEF SetActive, MayLeavePark
<1>15. CASE UNCHANGED vars
  BY <1>15 DEF vars
<1> QED
  BY <1>1, <1>2, <1>3, <1>4, <1>5, <1>6, <1>7, <1>8, <1>9, <1>10, <1>11,
     <1>12, <1>13, <1>14, <1>15 DEF Next, Bsp, StartAp, Fallback, Release,
     Ap, Done

LEMMA ApTypesStep ==
  BspTypes /\ TableTypes /\ ApTypes /\ AtInv /\ [Next]_vars => ApTypes'
<1> SUFFICES ASSUME BspTypes, TableTypes, ApTypes, AtInv, [Next]_vars PROVE ApTypes'
  OBVIOUS
<1>0. TargetsOK /\ targets' = targets
  BY TargetsType, TargetsStay
<1> USE <1>0 DEF ApTypes, ApStages, apVars
<1>1. CASE
       \/ CannotStart \/ RegisterBsp \/ RegisterAp \/ RegisterFails
       \/ Prepare \/ PrepareFails \/ AwaitReady \/ AwaitRuntime
       \/ TimeLimit \/ AllStarted \/ RetainBspOnly \/ ResetId \/ ResetSlot
       \/ EnterFallback \/ ReleaseAps \/ ActivateAp \/ ActivateTimeLimit
       \/ AllActive
  BY <1>1 DEF CannotStart, RegisterBsp, RegisterAp, TlbEntry, RegisterFails,
     Prepare, PrepareFails, AwaitReady, AwaitRuntime, IsRuntimeReady,
     TimeLimit, WaitMayEnd, AfterTimeout, AllStarted, RetainBspOnly,
     TLB_CLEARED, ResetId, ResetSlot, IsLast, EnterFallback, ReleaseAps,
     ActivateAp, IsActive, ActivateTimeLimit, AllActive
<1>2. CASE SendInit
  BY <1>2 DEF SendInit, Signal
<1>3. CASE SendStartup
  BY <1>3 DEF SendStartup, Signal
<1>4. CASE SendStartupAgain
  BY <1>4 DEF SendStartupAgain, Signal
<1>5. CASE Broadcast
  BY <1>5 DEF Broadcast
<1>6. ASSUME NEW a \in ApIds, LoadStack(a) PROVE ApTypes'
  BY <1>6 DEF LoadStack, TableTypes
<1>7. ASSUME NEW a \in ApIds,
                \/ SetReady(a) \/ SetRuntimeReady(a) \/ SetActive(a)
                \/ EnableInterrupts(a) \/ HandleShootdown(a)
       PROVE ApTypes'
  BY <1>7 DEF SetReady, SetRuntimeReady, SetActive, MayLeavePark,
     EnableInterrupts, HandleShootdown, InActiveSet
<1>8. ASSUME NEW a \in ApIds, FindSlot(a) PROVE ApTypes'
  <2>2. SlotOf(a) \in 0 .. INVALID_SLOT
    BY SlotFound
  <2> QED BY <1>8, <2>2 DEF FindSlot
<1>9. ASSUME NEW a \in ApIds, PrepareTables(a) PROVE ApTypes'
  <2>a. at[a] \in 1 .. MaxAps
    BY <1>9, Zenon DEF PrepareTables, AtInv, InSlot
  <2>0. at[a] \in Slots
    BY <2>a, NextSlot, Zenon
  <2>1. cpu[at[a]].stack \in Stacks \cup {None}
    BY <1>9, <2>0 DEF TableTypes, CpuRecord
  <2> QED BY <1>9, <2>1 DEF PrepareTables
<1>10. CASE UNCHANGED vars
  BY <1>10 DEF vars
<1> QED
  BY <1>1, <1>2, <1>3, <1>4, <1>5, <1>6, <1>7, <1>8, <1>9, <1>10 DEF Next,
     Bsp, StartAp, Fallback, Release, Ap, Done

LEMMA AtStep == BspTypes /\ ApTypes /\ AtInv /\ [Next]_vars => AtInv'
<1> SUFFICES ASSUME BspTypes, ApTypes, AtInv, [Next]_vars PROVE AtInv'
  OBVIOUS
<1>0. TargetsOK /\ targets' = targets
  BY TargetsType, TargetsStay
<1> USE <1>0 DEF ApTypes, AtInv, InSlot, apVars
<1>1. CASE
       \/ CannotStart \/ RegisterBsp \/ RegisterAp \/ RegisterFails
       \/ Prepare \/ PrepareFails \/ AwaitReady \/ AwaitRuntime
       \/ TimeLimit \/ AllStarted \/ RetainBspOnly \/ ResetId \/ ResetSlot
       \/ EnterFallback \/ ReleaseAps \/ ActivateAp \/ ActivateTimeLimit
       \/ AllActive \/ Broadcast
  BY <1>1 DEF CannotStart, RegisterBsp, RegisterAp, TlbEntry, RegisterFails,
     Prepare, PrepareFails, AwaitReady, AwaitRuntime, IsRuntimeReady,
     TimeLimit, WaitMayEnd, AfterTimeout, AllStarted, RetainBspOnly,
     TLB_CLEARED, ResetId, ResetSlot, IsLast, EnterFallback, ReleaseAps,
     ActivateAp, IsActive, ActivateTimeLimit, AllActive, Broadcast
<1>2. CASE SendInit
  BY <1>2 DEF SendInit, Signal
<1>3. CASE SendStartup
  BY <1>3 DEF SendStartup, Signal
<1>4. CASE SendStartupAgain
  BY <1>4 DEF SendStartupAgain, Signal
<1>5. ASSUME NEW a \in ApIds, LoadStack(a) PROVE AtInv'
  BY <1>5 DEF LoadStack
<1>6. ASSUME NEW a \in ApIds, SetReady(a) PROVE AtInv'
  BY <1>6 DEF SetReady
<1>7. ASSUME NEW a \in ApIds, FindSlot(a) PROVE AtInv'
  <2>1. SlotOf(a) \in 0 .. INVALID_SLOT
    BY SlotFound
  <2>2. SlotOf(a) \in {0, INVALID_SLOT} \/ SlotOf(a) \in 1 .. MaxAps
    BY <2>1 DEF INVALID_SLOT
  <2> QED BY <1>7, <2>2 DEF FindSlot
<1>8. ASSUME NEW a \in ApIds, PrepareTables(a) PROVE AtInv'
  BY <1>8 DEF PrepareTables
<1>9. ASSUME NEW a \in ApIds, SetRuntimeReady(a) PROVE AtInv'
  BY <1>9 DEF SetRuntimeReady
<1>10. ASSUME NEW a \in ApIds, SetActive(a) PROVE AtInv'
  BY <1>10 DEF SetActive, MayLeavePark
<1>11. ASSUME NEW a \in ApIds, EnableInterrupts(a) PROVE AtInv'
  BY <1>11 DEF EnableInterrupts
<1>12. ASSUME NEW a \in ApIds, HandleShootdown(a) PROVE AtInv'
  BY <1>12 DEF HandleShootdown, InActiveSet
<1>13. CASE UNCHANGED vars
  BY <1>13 DEF vars
<1> QED
  BY <1>1, <1>2, <1>3, <1>4, <1>5, <1>6, <1>7, <1>8, <1>9, <1>10, <1>11,
     <1>12, <1>13 DEF Next, Bsp, StartAp, Fallback, Release, Ap, Done

LEMMA CounterStep == BspTypes /\ CounterInv /\ [Next]_vars => CounterInv'
<1> SUFFICES ASSUME BspTypes, CounterInv, [Next]_vars PROVE CounterInv'
  OBVIOUS
<1>0. TargetsOK /\ targets' = targets
  BY TargetsType, TargetsStay
<1> USE <1>0 DEF BspTypes, CounterInv, SmpReady, bspVars
<1>1. CASE CannotStart
  BY <1>1 DEF CannotStart, Starting
<1>2. CASE RegisterBsp
  BY <1>2 DEF RegisterBsp, Starting, TargetsOK
<1>3. CASE RegisterAp
  BY <1>3 DEF RegisterAp, TlbEntry, Starting, TargetsOK
<1>4. CASE RegisterFails
  BY <1>4 DEF RegisterFails, Starting
<1>5. CASE Prepare
  BY <1>5 DEF Prepare, Starting
<1>6. CASE PrepareFails
  BY <1>6 DEF PrepareFails, Starting
<1>7. CASE SendInit
  BY <1>7 DEF SendInit, Signal, Starting
<1>8. CASE SendStartup
  BY <1>8 DEF SendStartup, Signal, Starting
<1>9. CASE SendStartupAgain
  BY <1>9 DEF SendStartupAgain, Signal, Starting
<1>10. CASE AwaitReady
  BY <1>10 DEF AwaitReady, Starting
<1>11. CASE AwaitRuntime
  <2>1. n \in 1 .. Len(targets)
    BY <1>11 DEF AwaitRuntime, Starting
  <2>2. n' = n + 1 /\ Len(targets) \in Nat
    BY <1>11 DEF AwaitRuntime, TargetsOK
  <2>3. n' \in 1 .. Len(targets) + 1
    <3> HIDE DEF CounterInv, BspTypes
    <3> QED BY <2>1, <2>2
  <2> QED BY <1>11, <2>3 DEF AwaitRuntime, Starting
<1>12. CASE TimeLimit
  BY <1>12 DEF TimeLimit, WaitMayEnd, AfterTimeout, Starting
<1>13. CASE AllStarted
  BY <1>13 DEF AllStarted, Starting, TargetsOK
<1>14. CASE RetainBspOnly
  <2>1. n' = 0
    BY <1>14, Zenon DEF RetainBspOnly
  <2>2. pc = "fallback" /\ pc' = "reset id"
    BY <1>14, Zenon DEF RetainBspOnly
  <2>3. UNCHANGED <<targets, runtimeAps, degraded>>
    BY <1>14, Zenon DEF RetainBspOnly
  <2>4. n' \in 0 .. MaxAps
    <3> HIDE DEF CounterInv, BspTypes
    <3> QED BY <2>1
  <2> QED BY <2>2, <2>3, <2>4 DEF Starting
<1>15. CASE ResetId
  BY <1>15 DEF ResetId, Starting
<1>16. CASE ResetSlot
  <2>1. n \in 0 .. MaxAps
    BY <1>16 DEF ResetSlot
  <2>2. CASE n = MaxAps
    BY <1>16, <2>2 DEF ResetSlot, IsLast, Starting
  <2>3. CASE n # MaxAps
    <3>1. n + 1 \in 0 .. MaxAps
      <4> HIDE DEF CounterInv, BspTypes
      <4> QED BY <2>1, <2>3
    <3> QED BY <1>16, <2>3, <3>1 DEF ResetSlot, IsLast, Starting
  <2> QED BY <2>2, <2>3
<1>17. CASE EnterFallback
  BY <1>17 DEF EnterFallback, Starting, TargetsOK
<1>18. CASE ReleaseAps
  BY <1>18 DEF ReleaseAps, Starting, TargetsOK
<1>19. CASE ActivateAp
  BY <1>19 DEF ActivateAp, IsActive, Starting, TargetsOK
<1>20. CASE ActivateTimeLimit
  BY <1>20 DEF ActivateTimeLimit, Starting
<1>21. CASE AllActive
  BY <1>21 DEF AllActive, Starting
<1>22. CASE Broadcast
  BY <1>22 DEF Broadcast, Starting
<1>23. ASSUME NEW a \in ApIds,
                \/ LoadStack(a) \/ SetReady(a) \/ FindSlot(a) \/ PrepareTables(a)
                \/ SetRuntimeReady(a) \/ SetActive(a) \/ EnableInterrupts(a)
                \/ HandleShootdown(a)
       PROVE CounterInv'
  <2>1. UNCHANGED bspVars
    BY <1>23, Zenon DEF LoadStack, SetReady, FindSlot, PrepareTables, SetRuntimeReady, SetActive,
       EnableInterrupts, HandleShootdown, bspVars
  <2> QED BY <2>1
<1>24. CASE UNCHANGED vars
  BY <1>24 DEF vars
<1> QED
  BY <1>1, <1>2, <1>3, <1>4, <1>5, <1>6, <1>7, <1>8, <1>9, <1>10, <1>11,
     <1>12, <1>13, <1>14, <1>15, <1>16, <1>17, <1>18, <1>19, <1>20, <1>21,
     <1>22, <1>23, <1>24 DEF Next, Bsp, StartAp, Fallback, Release, Ap, Done

LEMMA EnableStays ==
  BspTypes /\ CounterInv /\ MayEnable /\ [Next]_vars => MayEnable'
<1> SUFFICES ASSUME BspTypes, CounterInv, MayEnable, [Next]_vars PROVE MayEnable'
  OBVIOUS
<1>0. TargetsOK /\ targets' = targets
  BY TargetsType, TargetsStay
<1> USE <1>0 DEF MayEnable, Released, bspVars
<1>1. CASE
       \/ CannotStart \/ RegisterBsp \/ RegisterAp \/ RegisterFails
       \/ Prepare \/ PrepareFails \/ SendInit \/ SendStartup
       \/ SendStartupAgain \/ AwaitReady \/ AwaitRuntime \/ TimeLimit
       \/ AllStarted \/ RetainBspOnly \/ ResetId \/ ResetSlot
       \/ EnterFallback \/ ReleaseAps
  BY <1>1 DEF CannotStart, RegisterBsp, RegisterAp, TlbEntry, RegisterFails,
     Prepare, PrepareFails, SendInit, Signal, SendStartup, SendStartupAgain,
     AwaitReady, AwaitRuntime, IsRuntimeReady, TimeLimit, WaitMayEnd,
     AfterTimeout, AllStarted, RetainBspOnly, TLB_CLEARED, ResetId,
     ResetSlot, IsLast, EnterFallback, ReleaseAps
<1>2. CASE ActivateAp
  BY <1>2 DEF ActivateAp, IsActive
<1>3. CASE ActivateTimeLimit
  BY <1>3 DEF ActivateTimeLimit
<1>4. CASE AllActive
  BY <1>4 DEF AllActive
<1>5. CASE Broadcast
  BY <1>5 DEF Broadcast
<1>6. ASSUME NEW a \in ApIds,
                \/ LoadStack(a) \/ SetReady(a) \/ FindSlot(a) \/ PrepareTables(a)
                \/ SetRuntimeReady(a) \/ SetActive(a) \/ EnableInterrupts(a)
                \/ HandleShootdown(a)
       PROVE MayEnable'
  <2>1. UNCHANGED bspVars
    BY <1>6, Zenon DEF LoadStack, SetReady, FindSlot, PrepareTables, SetRuntimeReady, SetActive,
       EnableInterrupts, HandleShootdown, bspVars
  <2> QED BY <2>1
<1>7. CASE UNCHANGED vars
  BY <1>7 DEF vars
<1> QED
  BY <1>1, <1>2, <1>3, <1>4, <1>5, <1>6, <1>7 DEF Next, Bsp, StartAp,
     Fallback, Release, Ap, Done

LEMMA FlagsAreSet ==
  BspTypes /\ TableTypes /\ CounterInv /\ [Next]_vars =>
    (\A s \in Slots : cpu'[s].release => cpu[s].release \/ MayEnable')
<1> DEFINE Goal ==
    \A s \in Slots : cpu'[s].release => cpu[s].release \/ MayEnable'
<1> SUFFICES ASSUME BspTypes, TableTypes, CounterInv, [Next]_vars PROVE Goal
  OBVIOUS
<1>0. TargetsOK /\ targets' = targets
  BY TargetsType, TargetsStay
<1> USE <1>0 DEF TableTypes, CpuRecord, tableVars
<1>1. CASE
       \/ CannotStart \/ RegisterFails \/ PrepareFails \/ SendInit
       \/ SendStartup \/ SendStartupAgain \/ AwaitReady \/ AwaitRuntime
       \/ TimeLimit \/ AllStarted \/ RetainBspOnly \/ ActivateAp
       \/ ActivateTimeLimit \/ AllActive \/ Broadcast
  BY <1>1 DEF CannotStart, RegisterFails, PrepareFails, SendInit, Signal,
     SendStartup, SendStartupAgain, AwaitReady, AwaitRuntime, IsRuntimeReady,
     TimeLimit, WaitMayEnd, AfterTimeout, AllStarted, RetainBspOnly,
     TLB_CLEARED, ActivateAp, IsActive, ActivateTimeLimit, AllActive,
     Broadcast
<1>2. CASE RegisterBsp
  BY <1>2 DEF RegisterBsp, CLEARED
<1>3. CASE RegisterAp
  BY <1>3 DEF RegisterAp, TlbEntry, CLEARED
<1>4. CASE Prepare
  BY <1>4 DEF Prepare
<1>5. CASE ResetId
  BY <1>5 DEF ResetId
<1>6. CASE ResetSlot
  BY <1>6 DEF ResetSlot, IsLast, CLEARED
<1>7. CASE EnterFallback
  BY <1>7 DEF EnterFallback
<1>8. CASE ReleaseAps
  BY <1>8 DEF ReleaseAps, CounterInv, SmpReady, MayEnable, Released
<1>9. ASSUME NEW a \in ApIds,
                \/ LoadStack(a) \/ FindSlot(a) \/ PrepareTables(a)
                \/ EnableInterrupts(a) \/ HandleShootdown(a)
       PROVE Goal
  BY <1>9 DEF LoadStack, FindSlot, PrepareTables, EnableInterrupts,
     HandleShootdown, InActiveSet
<1>10. ASSUME NEW a \in ApIds, SetReady(a) PROVE Goal
  BY <1>10 DEF SetReady
<1>11. ASSUME NEW a \in ApIds, SetRuntimeReady(a) PROVE Goal
  BY <1>11 DEF SetRuntimeReady
<1>12. ASSUME NEW a \in ApIds, SetActive(a) PROVE Goal
  BY <1>12 DEF SetActive, MayLeavePark
<1>13. CASE UNCHANGED vars
  BY <1>13 DEF vars
<1> QED
  BY <1>1, <1>2, <1>3, <1>4, <1>5, <1>6, <1>7, <1>8, <1>9, <1>10, <1>11,
     <1>12, <1>13 DEF Next, Bsp, StartAp, Fallback, Release, Ap, Done

LEMMA EnablingIsReleased ==
  BspTypes /\ ApTypes /\ AtInv /\ [Next]_vars =>
    (\A b \in ApIds : stage'[b] \in Enabling =>
      stage[b] \in Enabling \/ \E s \in Slots : cpu[s].release)
<1> DEFINE Goal ==
    \A b \in ApIds : stage'[b] \in Enabling =>
      stage[b] \in Enabling \/ \E s \in Slots : cpu[s].release
<1> SUFFICES ASSUME BspTypes, ApTypes, AtInv, [Next]_vars PROVE Goal
  OBVIOUS
<1>0. TargetsOK /\ targets' = targets
  BY TargetsType, TargetsStay
<1> USE <1>0 DEF ApTypes, Enabling, apVars
<1>1. CASE
       \/ CannotStart \/ RegisterBsp \/ RegisterAp \/ RegisterFails
       \/ Prepare \/ PrepareFails \/ AwaitReady \/ AwaitRuntime
       \/ TimeLimit \/ AllStarted \/ RetainBspOnly \/ ResetId \/ ResetSlot
       \/ EnterFallback \/ ReleaseAps \/ ActivateAp \/ ActivateTimeLimit
       \/ AllActive \/ Broadcast
  BY <1>1 DEF CannotStart, RegisterBsp, RegisterAp, TlbEntry, RegisterFails,
     Prepare, PrepareFails, AwaitReady, AwaitRuntime, IsRuntimeReady,
     TimeLimit, WaitMayEnd, AfterTimeout, AllStarted, RetainBspOnly,
     TLB_CLEARED, ResetId, ResetSlot, IsLast, EnterFallback, ReleaseAps,
     ActivateAp, IsActive, ActivateTimeLimit, AllActive, Broadcast
<1>2. CASE SendInit
  BY <1>2 DEF SendInit, Signal
<1>3. CASE SendStartup
  BY <1>3 DEF SendStartup, Signal
<1>4. CASE SendStartupAgain
  BY <1>4 DEF SendStartupAgain, Signal
<1>5. ASSUME NEW a \in ApIds, LoadStack(a) PROVE Goal
  BY <1>5 DEF LoadStack
<1>6. ASSUME NEW a \in ApIds, SetReady(a) PROVE Goal
  BY <1>6 DEF SetReady
<1>7. ASSUME NEW a \in ApIds, FindSlot(a) PROVE Goal
  BY <1>7 DEF FindSlot
<1>8. ASSUME NEW a \in ApIds, PrepareTables(a) PROVE Goal
  BY <1>8 DEF PrepareTables
<1>9. ASSUME NEW a \in ApIds, SetRuntimeReady(a) PROVE Goal
  BY <1>9 DEF SetRuntimeReady
<1>10. ASSUME NEW a \in ApIds, SetActive(a) PROVE Goal
  <2>1. at[a] \in 1 .. MaxAps
    BY <1>10, Zenon DEF SetActive, AtInv, InSlot
  <2>2. at[a] \in Slots
    BY <2>1, NextSlot, Zenon
  <2>3. cpu[at[a]].release
    BY <1>10, Zenon DEF SetActive, MayLeavePark
  <2>4. \E s \in Slots : cpu[s].release
    BY <2>2, <2>3, Zenon
  <2> QED BY <2>4
<1>11. ASSUME NEW a \in ApIds, EnableInterrupts(a) PROVE Goal
  BY <1>11 DEF EnableInterrupts
<1>12. ASSUME NEW a \in ApIds, HandleShootdown(a) PROVE Goal
  BY <1>12 DEF HandleShootdown, InActiveSet
<1>13. CASE UNCHANGED vars
  BY <1>13 DEF vars
<1> QED
  BY <1>1, <1>2, <1>3, <1>4, <1>5, <1>6, <1>7, <1>8, <1>9, <1>10, <1>11,
     <1>12, <1>13 DEF Next, Bsp, StartAp, Fallback, Release, Ap, Done


LEMMA ReleaseStep ==
  BspTypes /\ TableTypes /\ ApTypes /\ CounterInv /\ AtInv /\ ReleaseInv
  /\ [Next]_vars => ReleaseInv'
  BY EnableStays, FlagsAreSet, EnablingIsReleased, Zenon DEF ReleaseInv

-----------------------------------------------------------------------------
(* What needs no knowledge of who owns which slot.                         *)

ReleasedInv == BspTypes /\ TableTypes /\ ApTypes /\ CounterInv /\ AtInv /\ ReleaseInv

LEMMA ReleasedInit == Init => ReleasedInv
<1> SUFFICES ASSUME Init PROVE ReleasedInv
  OBVIOUS
<1>1. BspTypes
  <2>1. n \in 0 .. MaxAps + 1
    BY NextSlot, Zenon DEF Init
  <2>2. pc \in BspStages /\ targets \in Topologies /\ runtimeAps \in Nat /\ degraded \in BOOLEAN
    BY DEF Init, BspStages
  <2> QED BY <2>1, <2>2 DEF BspTypes
<1>0. TargetsOK
  BY <1>1, TargetsType
<1>2. TableTypes
  <2>1. cpu \in [Slots -> CpuRecord] /\ tlb \in [Slots -> TlbRecord]
    BY CpuFields, TlbFields DEF Init
  <2>2. 0 \in Slots
    BY DEF Slots
  <2>3. page \in [stack : Stacks \cup {None}, slot : Slots] /\ free \subseteq Stacks
    BY <2>2 DEF Init
  <2> QED BY <2>1, <2>3 DEF TableTypes
<1>3. ApTypes
  BY DEF Init, ApTypes, ApStages, INVALID_SLOT
<1>4. CounterInv
  BY <1>0 DEF Init, CounterInv, Starting, SmpReady, TargetsOK
<1>5. AtInv /\ ReleaseInv
  BY DEF Init, AtInv, InSlot, ReleaseInv, CLEARED, Enabling
<1> QED BY <1>1, <1>2, <1>3, <1>4, <1>5 DEF ReleasedInv

LEMMA ReleasedStep == ReleasedInv /\ [Next]_vars => ReleasedInv'
  BY BspTypesStep, TableTypesStep, ApTypesStep, CounterStep, AtStep, ReleaseStep, Zenon
     DEF ReleasedInv

LEMMA Invariance == Spec => []ReleasedInv
  BY ReleasedInit, ReleasedStep, PTL DEF Spec

\* Every variable keeps its type, whatever the APs do and whenever they do it.
THEOREM TypeCorrect == Spec => []TypeOK
<1>1. ReleasedInv => TypeOK
  BY TypeParts, Zenon DEF ReleasedInv
<1> QED BY <1>1, Invariance, PTL

\* No AP of a bring-up that failed ever enables interrupts, for any number of
\* processors.
THEOREM LateApsParked == Spec => []LateApsStayParked
<1>1. ReleasedInv => LateApsStayParked
  BY DEF ReleasedInv, ReleaseInv, LateApsStayParked, MayEnable, Released, SmpReady
<1> QED BY <1>1, Invariance, PTL

-----------------------------------------------------------------------------
(* The invariant of a bring-up without a failure.                          *)

\* No failure so far.
Healthy ==
  \/ pc \in {"register"} \cup Starting
  \/ SmpReady /\ ~degraded
\* The last slot that is registered.
Last == IF pc \in Starting THEN n ELSE IF pc = "register" THEN n - 1 ELSE Len(targets)

\* The trampoline page belongs to the slot whose AP is being started, and only
\* that AP can still read it.  An AP that is not off was named by the page.
PageSlotInv ==
  /\ page.slot <= Len(targets)
  /\ pc = "start" => page.slot = 0
  /\ pc \in {"register", "prepare"} => page.slot = n - 1
  /\ pc \in Starting \ {"prepare"} => page.slot = n
  /\ SmpReady /\ ~degraded => page.slot = Len(targets)
Reads(a) == stage[a] \in {"init", "trampoline", "long mode"}
ReaderInv ==
  \A a \in ApIds : Reads(a) => page.slot \in 1 .. Len(targets) /\ a = targets[page.slot]
StartedInv ==
  \A a \in ApIds : stage[a] # "off" => \E k \in 1 .. page.slot : targets[k] = a

\* The stack the page names is given to nobody but its AP.
StackInv ==
  /\ OwnStacks
  /\ page.slot # 0 =>
       /\ page.stack \in Stacks \ free
       /\ \A a \in ApIds : rsp[a] = page.stack => a = targets[page.slot]
  /\ \A a \in ApIds : stage[a] \in {"off", "init", "trampoline"} => rsp[a] = None

TableOK(l) ==
  /\ \A k \in Slots : cpu[k].registered <=> k <= l
  /\ cpu[0].apic = BspId
  /\ \A k \in 1 .. l :
       /\ cpu[k].apic = targets[k]
       /\ \A j \in 1 .. l : targets[j] = targets[k] => j = k
       /\ (k = page.slot => cpu[k].stack = page.stack)
       /\ (k <= page.slot => cpu[k].stack \in Stacks)
       /\ tlb[k].registered /\ tlb[k].apic = targets[k]
TableInv ==
  /\ pc = "start" => \A s \in Slots : ~cpu[s].registered
  /\ Healthy => TableOK(Last)

\* AP a is the one of slot k.
Has(a, k) == k \in 1 .. Last /\ targets[k] = a
OnPath == {"long mode", "entry", "found", "prepared", "parked", "announced", "enabled"}
AtSlot == {"prepared", "parked", "announced", "enabled"}
PathInv ==
  Healthy =>
    \A a \in ApIds, k \in Slots : Has(a, k) =>
      /\ stage[a] \in OnPath => rsp[a] = cpu[k].stack
      /\ stage[a] \in InSlot => at[a] = k
      /\ stage[a] \in AtSlot => top[a] = cpu[k].stack

\* APs whose flag the BSP saw, or could see, are parked in their slot.
Passed(k) == k < n \/ SmpReady
UpInv ==
  Healthy =>
    \A a \in ApIds, k \in Slots : Has(a, k) =>
      /\ cpu[k].runtime \/ Passed(k) => stage[a] \in {"parked"} \cup Enabling
      /\ cpu[k].active => stage[a] \in Enabling

\* The active set follows the APs that said they would enable interrupts.
ActiveInv ==
  /\ \A s \in Slots \ {0} : tlb[s].active =>
       pc \in Released /\ ~degraded /\ \E a \in ApIds : Has(a, s) /\ stage[a] \in Enabling
  /\ pc = "activate" => ~degraded /\ \A s \in 1 .. Last : s < n => tlb[s].active
  /\ pc = "open" /\ ~degraded => \A s \in 1 .. Last : tlb[s].active
  /\ pending # {} => pc = "open" /\ ~degraded
ShootdownInv == ActiveInv /\ ShootdownsAreAnswered

\* What a step does to the slots' tables, if it registers nobody.
SlotKept(s) ==
  /\ cpu'[s].registered = cpu[s].registered
  /\ cpu'[s].apic = cpu[s].apic
  /\ tlb'[s].registered = tlb[s].registered
  /\ tlb'[s].apic = tlb[s].apic

-----------------------------------------------------------------------------
(* What a step changes while there was no failure.                         *)

LEMMA HealthKept ==
  BspTypes /\ CounterInv /\ [Next]_vars =>
    (Healthy' => (Healthy /\ Last' = Last) \/ RegisterBsp \/ RegisterAp)
<1> DEFINE Goal ==
    Healthy' => (Healthy /\ Last' = Last) \/ RegisterBsp \/ RegisterAp
<1> SUFFICES ASSUME BspTypes, CounterInv, [Next]_vars PROVE Goal
  OBVIOUS
<1>0. TargetsOK /\ targets' = targets
  BY TargetsType, TargetsStay
<1> USE <1>0 DEF BspTypes, bspVars
<1>1. CASE CannotStart
  BY <1>1 DEF CannotStart, Starting, SmpReady, Healthy, Last
<1>2. CASE RegisterBsp
  BY <1>2 DEF RegisterBsp, Starting, SmpReady, Healthy, Last
<1>3. CASE RegisterAp
  BY <1>3 DEF RegisterAp, TlbEntry, Starting, SmpReady, Healthy, Last
<1>4. CASE RegisterFails
  BY <1>4 DEF RegisterFails, Starting, SmpReady, Healthy, Last
<1>5. CASE Prepare
  BY <1>5 DEF Prepare, Starting, SmpReady, Healthy, Last
<1>6. CASE PrepareFails
  BY <1>6 DEF PrepareFails, Starting, SmpReady, Healthy, Last
<1>7. CASE SendInit
  BY <1>7 DEF SendInit, Signal, Starting, SmpReady, Healthy, Last
<1>8. CASE SendStartup
  BY <1>8 DEF SendStartup, Signal, Starting, SmpReady, Healthy, Last
<1>9. CASE SendStartupAgain
  BY <1>9 DEF SendStartupAgain, Signal, Starting, SmpReady, Healthy, Last
<1>10. CASE AwaitReady
  BY <1>10 DEF AwaitReady, Starting, SmpReady, Healthy, Last
<1>11. CASE AwaitRuntime
  <2>1. n \in 1 .. Len(targets)
    BY <1>11 DEF AwaitRuntime, CounterInv, Starting
  <2>2. n' = n + 1 /\ Len(targets) \in Nat
    BY <1>11 DEF AwaitRuntime, TargetsOK
  <2>3. (n + 1) - 1 = n
    BY <2>1
  <2> QED BY <1>11, <2>2, <2>3 DEF AwaitRuntime, Starting, Healthy, Last
<1>12. CASE TimeLimit
  BY <1>12 DEF TimeLimit, WaitMayEnd, AfterTimeout, Starting, SmpReady,
     Healthy, Last
<1>13. CASE AllStarted
  <2>1. n \in 1 .. Len(targets) + 1 /\ n > Len(targets)
    BY <1>13 DEF AllStarted, CounterInv
  <2>2. n - 1 = Len(targets)
    BY <2>1 DEF TargetsOK
  <2> QED BY <1>13, <2>2 DEF AllStarted, Starting, Healthy, Last
<1>14. CASE RetainBspOnly
  BY <1>14 DEF RetainBspOnly, TLB_CLEARED, Starting, SmpReady, Healthy, Last
<1>15. CASE ResetId
  BY <1>15 DEF ResetId, Starting, SmpReady, Healthy, Last
<1>16. CASE ResetSlot
  BY <1>16 DEF ResetSlot, IsLast, Starting, SmpReady, Healthy, Last
<1>17. CASE EnterFallback
  BY <1>17 DEF EnterFallback, Starting, SmpReady, Healthy, Last
<1>18. CASE ReleaseAps
  BY <1>18 DEF ReleaseAps, Starting, SmpReady, Healthy, Last
<1>19. CASE ActivateAp
  BY <1>19 DEF ActivateAp, IsActive, Starting, SmpReady, Healthy, Last
<1>20. CASE ActivateTimeLimit
  BY <1>20 DEF ActivateTimeLimit, Starting, SmpReady, Healthy, Last
<1>21. CASE AllActive
  BY <1>21 DEF AllActive, Starting, SmpReady, Healthy, Last
<1>22. CASE Broadcast
  BY <1>22 DEF Broadcast, Starting, SmpReady, Healthy, Last
<1>23. ASSUME NEW a \in ApIds,
                \/ LoadStack(a) \/ SetReady(a) \/ FindSlot(a) \/ PrepareTables(a)
                \/ SetRuntimeReady(a) \/ SetActive(a) \/ EnableInterrupts(a)
                \/ HandleShootdown(a)
       PROVE Goal
  <2>1. UNCHANGED bspVars
    BY <1>23, Zenon DEF LoadStack, SetReady, FindSlot, PrepareTables, SetRuntimeReady, SetActive,
       EnableInterrupts, HandleShootdown, bspVars
  <2> QED BY <2>1 DEF Healthy, Last, Starting, SmpReady
<1>24. CASE UNCHANGED vars
  BY <1>24 DEF vars, Starting, SmpReady, Healthy, Last
<1> QED
  BY <1>1, <1>2, <1>3, <1>4, <1>5, <1>6, <1>7, <1>8, <1>9, <1>10, <1>11,
     <1>12, <1>13, <1>14, <1>15, <1>16, <1>17, <1>18, <1>19, <1>20, <1>21,
     <1>22, <1>23, <1>24 DEF Next, Bsp, StartAp, Fallback, Release, Ap, Done

LEMMA SlotsKept ==
  BspTypes /\ TableTypes /\ [Next]_vars =>
    (Healthy' \/ pc' = "start" =>
      (\A s \in Slots : SlotKept(s)) \/ RegisterBsp \/ RegisterAp)
<1> DEFINE Goal ==
    Healthy' \/ pc' = "start" =>
      (\A s \in Slots : SlotKept(s)) \/ RegisterBsp \/ RegisterAp
<1> SUFFICES ASSUME BspTypes, TableTypes, [Next]_vars PROVE Goal
  OBVIOUS
<1>0. TargetsOK /\ targets' = targets
  BY TargetsType, TargetsStay
<1> USE <1>0 DEF TableTypes, CpuRecord, TlbRecord, SlotKept, tableVars
<1>1. CASE
       \/ CannotStart \/ RegisterFails \/ PrepareFails \/ SendInit
       \/ SendStartup \/ SendStartupAgain \/ AwaitReady \/ AwaitRuntime
       \/ TimeLimit \/ AllStarted \/ ActivateTimeLimit \/ AllActive
       \/ Broadcast
  BY <1>1 DEF CannotStart, RegisterFails, PrepareFails, SendInit, Signal,
     SendStartup, SendStartupAgain, AwaitReady, AwaitRuntime, IsRuntimeReady,
     TimeLimit, WaitMayEnd, AfterTimeout, AllStarted, ActivateTimeLimit,
     AllActive, Broadcast
<1>2. CASE RegisterBsp
  BY <1>2 DEF RegisterBsp
<1>3. CASE RegisterAp
  BY <1>3 DEF RegisterAp, TlbEntry
<1>4. CASE Prepare
  BY <1>4 DEF Prepare
<1>5. CASE RetainBspOnly
  BY <1>5 DEF RetainBspOnly, TLB_CLEARED, Healthy, Starting, SmpReady
<1>6. CASE ResetId
  BY <1>6 DEF ResetId, Healthy, Starting, SmpReady
<1>7. CASE ResetSlot
  BY <1>7 DEF ResetSlot, IsLast, Healthy, Starting, SmpReady
<1>8. CASE EnterFallback
  BY <1>8 DEF EnterFallback, Healthy, Starting, SmpReady
<1>9. CASE ReleaseAps
  BY <1>9 DEF ReleaseAps
<1>10. CASE ActivateAp
  BY <1>10 DEF ActivateAp, IsActive
<1>11. ASSUME NEW a \in ApIds,
                \/ LoadStack(a) \/ FindSlot(a) \/ PrepareTables(a)
                \/ EnableInterrupts(a) \/ HandleShootdown(a)
       PROVE Goal
  BY <1>11 DEF LoadStack, FindSlot, PrepareTables, EnableInterrupts,
     HandleShootdown, InActiveSet
<1>12. ASSUME NEW a \in ApIds, SetReady(a) PROVE Goal
  BY <1>12 DEF SetReady
<1>13. ASSUME NEW a \in ApIds, SetRuntimeReady(a) PROVE Goal
  BY <1>13 DEF SetRuntimeReady
<1>14. ASSUME NEW a \in ApIds, SetActive(a) PROVE Goal
  BY <1>14 DEF SetActive, MayLeavePark
<1>15. CASE UNCHANGED vars
  BY <1>15 DEF vars
<1> QED
  BY <1>1, <1>2, <1>3, <1>4, <1>5, <1>6, <1>7, <1>8, <1>9, <1>10, <1>11,
     <1>12, <1>13, <1>14, <1>15 DEF Next, Bsp, StartAp, Fallback, Release,
     Ap, Done

LEMMA StacksKept ==
  BspTypes /\ TableTypes /\ [Next]_vars =>
    (Healthy' =>
      (\A s \in Slots : cpu'[s].stack = cpu[s].stack) \/ RegisterBsp \/ RegisterAp \/ Prepare)
<1> DEFINE Goal ==
    Healthy' =>
      (\A s \in Slots : cpu'[s].stack = cpu[s].stack) \/ RegisterBsp \/ RegisterAp \/ Prepare
<1> SUFFICES ASSUME BspTypes, TableTypes, [Next]_vars PROVE Goal
  OBVIOUS
<1>0. TargetsOK /\ targets' = targets
  BY TargetsType, TargetsStay
<1> USE <1>0 DEF TableTypes, CpuRecord, tableVars
<1>1. CASE
       \/ CannotStart \/ RegisterFails \/ PrepareFails \/ SendInit
       \/ SendStartup \/ SendStartupAgain \/ AwaitReady \/ AwaitRuntime
       \/ TimeLimit \/ AllStarted \/ ActivateTimeLimit \/ AllActive
       \/ Broadcast
  BY <1>1 DEF CannotStart, RegisterFails, PrepareFails, SendInit, Signal,
     SendStartup, SendStartupAgain, AwaitReady, AwaitRuntime, IsRuntimeReady,
     TimeLimit, WaitMayEnd, AfterTimeout, AllStarted, ActivateTimeLimit,
     AllActive, Broadcast
<1>2. CASE RegisterBsp
  BY <1>2 DEF RegisterBsp
<1>3. CASE RegisterAp
  BY <1>3 DEF RegisterAp, TlbEntry
<1>4. CASE Prepare
  BY <1>4 DEF Prepare
<1>5. CASE RetainBspOnly
  BY <1>5 DEF RetainBspOnly, TLB_CLEARED, Healthy, Starting, SmpReady
<1>6. CASE ResetId
  BY <1>6 DEF ResetId, Healthy, Starting, SmpReady
<1>7. CASE ResetSlot
  BY <1>7 DEF ResetSlot, IsLast, Healthy, Starting, SmpReady
<1>8. CASE EnterFallback
  BY <1>8 DEF EnterFallback, Healthy, Starting, SmpReady
<1>9. CASE ReleaseAps
  BY <1>9 DEF ReleaseAps
<1>10. CASE ActivateAp
  BY <1>10 DEF ActivateAp, IsActive
<1>11. ASSUME NEW a \in ApIds,
                \/ LoadStack(a) \/ FindSlot(a) \/ PrepareTables(a)
                \/ EnableInterrupts(a) \/ HandleShootdown(a)
       PROVE Goal
  BY <1>11 DEF LoadStack, FindSlot, PrepareTables, EnableInterrupts,
     HandleShootdown, InActiveSet
<1>12. ASSUME NEW a \in ApIds, SetReady(a) PROVE Goal
  BY <1>12 DEF SetReady
<1>13. ASSUME NEW a \in ApIds, SetRuntimeReady(a) PROVE Goal
  BY <1>13 DEF SetRuntimeReady
<1>14. ASSUME NEW a \in ApIds, SetActive(a) PROVE Goal
  BY <1>14 DEF SetActive, MayLeavePark
<1>15. CASE UNCHANGED vars
  BY <1>15 DEF vars
<1> QED
  BY <1>1, <1>2, <1>3, <1>4, <1>5, <1>6, <1>7, <1>8, <1>9, <1>10, <1>11,
     <1>12, <1>13, <1>14, <1>15 DEF Next, Bsp, StartAp, Fallback, Release,
     Ap, Done

LEMMA PageKept == BspTypes /\ [Next]_vars => (page' = page \/ Prepare)
<1> SUFFICES ASSUME BspTypes, [Next]_vars PROVE (page' = page \/ Prepare)
  OBVIOUS
<1>0. TargetsOK /\ targets' = targets
  BY TargetsType, TargetsStay
<1> USE <1>0 DEF tableVars
<1>1. CASE
       \/ CannotStart \/ RegisterBsp \/ RegisterAp \/ RegisterFails
       \/ PrepareFails \/ SendInit \/ SendStartup \/ SendStartupAgain
       \/ AwaitReady \/ AwaitRuntime \/ TimeLimit \/ AllStarted
       \/ RetainBspOnly \/ ResetId \/ ResetSlot \/ EnterFallback
       \/ ReleaseAps \/ ActivateAp \/ ActivateTimeLimit \/ AllActive
       \/ Broadcast
  BY <1>1 DEF CannotStart, RegisterBsp, RegisterAp, TlbEntry, RegisterFails,
     PrepareFails, SendInit, Signal, SendStartup, SendStartupAgain,
     AwaitReady, AwaitRuntime, IsRuntimeReady, TimeLimit, WaitMayEnd,
     AfterTimeout, AllStarted, RetainBspOnly, TLB_CLEARED, ResetId,
     ResetSlot, IsLast, EnterFallback, ReleaseAps, ActivateAp, IsActive,
     ActivateTimeLimit, AllActive, Broadcast
<1>2. CASE Prepare
  BY <1>2 DEF Prepare
<1>3. ASSUME NEW a \in ApIds,
                \/ LoadStack(a) \/ SetReady(a) \/ FindSlot(a) \/ PrepareTables(a)
                \/ SetRuntimeReady(a) \/ SetActive(a) \/ EnableInterrupts(a)
                \/ HandleShootdown(a)
       PROVE (page' = page \/ Prepare)
  BY <1>3 DEF LoadStack, SetReady, FindSlot, PrepareTables, SetRuntimeReady,
     SetActive, MayLeavePark, EnableInterrupts, HandleShootdown, InActiveSet
<1>4. CASE UNCHANGED vars
  BY <1>4 DEF vars
<1> QED
  BY <1>1, <1>2, <1>3, <1>4 DEF Next, Bsp, StartAp, Fallback, Release, Ap,
     Done

-----------------------------------------------------------------------------
(* The trampoline page and the stacks.                                     *)

LEMMA PageSlotStep ==
  BspTypes /\ TableTypes /\ CounterInv /\ PageSlotInv /\ [Next]_vars => PageSlotInv'
<1> SUFFICES ASSUME BspTypes, TableTypes, CounterInv, PageSlotInv, [Next]_vars PROVE PageSlotInv'
  OBVIOUS
<1>0. TargetsOK /\ targets' = targets
  BY TargetsType, TargetsStay
<1> USE <1>0 DEF BspTypes, TableTypes, PageSlotInv, bspVars, tableVars
<1>1. CASE CannotStart
  BY <1>1 DEF CannotStart, Starting, SmpReady
<1>2. CASE RegisterBsp
  BY <1>2 DEF RegisterBsp, Starting, SmpReady
<1>3. CASE RegisterAp
  BY <1>3 DEF RegisterAp, TlbEntry, Starting, SmpReady
<1>4. CASE RegisterFails
  BY <1>4 DEF RegisterFails, Starting, SmpReady
<1>5. CASE Prepare
  <2>1. n \in 1 .. Len(targets) /\ pc' = "init" /\ n' = n /\ degraded' = degraded
    BY <1>5 DEF Prepare, CounterInv, Starting
  <2>2. page'.slot = n
    BY <1>5 DEF Prepare
  <2>3. n <= Len(targets)
    BY <2>1 DEF TargetsOK
  <2> QED BY <2>1, <2>2, <2>3 DEF Starting, SmpReady
<1>6. CASE PrepareFails
  BY <1>6 DEF PrepareFails, Starting, SmpReady
<1>7. CASE SendInit
  BY <1>7 DEF SendInit, Signal, Starting, SmpReady
<1>8. CASE SendStartup
  BY <1>8 DEF SendStartup, Signal, Starting, SmpReady
<1>9. CASE SendStartupAgain
  BY <1>9 DEF SendStartupAgain, Signal, Starting, SmpReady
<1>10. CASE AwaitReady
  BY <1>10 DEF AwaitReady, Starting, SmpReady
<1>11. CASE AwaitRuntime
  <2>1. page.slot = n /\ pc' = "register" /\ n' = n + 1 /\ page' = page /\ degraded' = degraded
    BY <1>11 DEF AwaitRuntime, Starting
  <2>2. page.slot <= Len(targets)
    OBVIOUS
  <2>3. n \in Nat
    <3> HIDE DEF TableTypes, PageSlotInv
    <3> QED OBVIOUS
  <2>4. page'.slot = n' - 1
    BY <2>1, <2>3
  <2> HIDE DEF BspTypes, TableTypes
  <2> QED BY <2>1, <2>2, <2>4 DEF Starting, SmpReady
<1>12. CASE TimeLimit
  BY <1>12 DEF TimeLimit, WaitMayEnd, AfterTimeout, Starting, SmpReady
<1>13. CASE AllStarted
  BY <1>13 DEF AllStarted, Starting, SmpReady
<1>14. CASE RetainBspOnly
  BY <1>14 DEF RetainBspOnly, TLB_CLEARED, Starting, SmpReady
<1>15. CASE ResetId
  BY <1>15 DEF ResetId, Starting, SmpReady
<1>16. CASE ResetSlot
  BY <1>16 DEF ResetSlot, IsLast, Starting, SmpReady
<1>17. CASE EnterFallback
  BY <1>17 DEF EnterFallback, Starting, SmpReady
<1>18. CASE ReleaseAps
  BY <1>18 DEF ReleaseAps, Starting, SmpReady
<1>19. CASE ActivateAp
  BY <1>19 DEF ActivateAp, IsActive, Starting, SmpReady
<1>20. CASE ActivateTimeLimit
  BY <1>20 DEF ActivateTimeLimit, Starting, SmpReady
<1>21. CASE AllActive
  BY <1>21 DEF AllActive, Starting, SmpReady
<1>22. CASE Broadcast
  BY <1>22 DEF Broadcast, Starting, SmpReady
<1>23. ASSUME NEW a \in ApIds,
                \/ LoadStack(a) \/ SetReady(a) \/ FindSlot(a) \/ PrepareTables(a)
                \/ SetRuntimeReady(a) \/ SetActive(a) \/ EnableInterrupts(a)
                \/ HandleShootdown(a)
       PROVE PageSlotInv'
  <2>1. UNCHANGED bspVars /\ page' = page
    BY <1>23, Zenon DEF LoadStack, SetReady, FindSlot, PrepareTables, SetRuntimeReady, SetActive,
       EnableInterrupts, HandleShootdown, bspVars, tableVars
  <2> QED BY <2>1 DEF SmpReady
<1>24. CASE UNCHANGED vars
  BY <1>24 DEF vars, SmpReady, Starting
<1> QED
  BY <1>1, <1>2, <1>3, <1>4, <1>5, <1>6, <1>7, <1>8, <1>9, <1>10, <1>11,
     <1>12, <1>13, <1>14, <1>15, <1>16, <1>17, <1>18, <1>19, <1>20, <1>21,
     <1>22, <1>23, <1>24 DEF Next, Bsp, StartAp, Fallback, Release, Ap, Done

LEMMA ReaderStep ==
  BspTypes /\ TableTypes /\ ApTypes /\ CounterInv /\ PageSlotInv /\ ReaderInv /\ UpInv
  /\ [Next]_vars => ReaderInv'
<1> SUFFICES ASSUME BspTypes, TableTypes, ApTypes, CounterInv, PageSlotInv, ReaderInv, UpInv,
                    [Next]_vars
             PROVE  ReaderInv'
  OBVIOUS
<1>0. TargetsOK /\ targets' = targets
  BY TargetsType, TargetsStay
<1> USE <1>0 DEF ApTypes, ReaderInv, Reads, tableVars, apVars
<1>1. CASE
       \/ CannotStart \/ RegisterBsp \/ RegisterAp \/ RegisterFails
       \/ PrepareFails \/ AwaitReady \/ AwaitRuntime \/ TimeLimit
       \/ AllStarted \/ RetainBspOnly \/ ResetId \/ ResetSlot
       \/ EnterFallback \/ ReleaseAps \/ ActivateAp \/ ActivateTimeLimit
       \/ AllActive \/ Broadcast
  BY <1>1 DEF CannotStart, RegisterBsp, RegisterAp, TlbEntry, RegisterFails,
     PrepareFails, AwaitReady, AwaitRuntime, IsRuntimeReady, TimeLimit,
     WaitMayEnd, AfterTimeout, AllStarted, RetainBspOnly, TLB_CLEARED,
     ResetId, ResetSlot, IsLast, EnterFallback, ReleaseAps, ActivateAp,
     IsActive, ActivateTimeLimit, AllActive, Broadcast
<1>2. CASE Prepare
  <2>1. n \in 1 .. Len(targets) /\ pc = "prepare" /\ page.slot = n - 1
    BY <1>2 DEF Prepare, CounterInv, Starting, PageSlotInv
  <2>2. ASSUME NEW a \in ApIds, Reads(a) PROVE FALSE
    <3>1. page.slot \in 1 .. Len(targets) /\ a = targets[page.slot]
      BY <2>2
    <3>2. n - 1 \in 1 .. n /\ n - 1 \in Slots /\ n - 1 < n
      <4> HIDE DEF ApTypes, ReaderInv
      <4> QED BY <2>1, <3>1 DEF TargetsOK, Slots
    <3>3. Healthy /\ Has(a, n - 1) /\ Passed(n - 1)
      BY <2>1, <3>1, <3>2 DEF Healthy, Starting, Has, Last, Passed
    <3>4. stage[a] \in {"parked"} \cup Enabling
      BY <3>2, <3>3 DEF UpInv
    <3> QED BY <2>2, <3>4 DEF Enabling
  <2>3. stage' = stage
    BY <1>2 DEF Prepare
  <2> QED BY <2>2, <2>3
<1>3. CASE SendInit
  <2>1. page.slot = n /\ n \in 1 .. Len(targets) /\ page' = page
    BY <1>3 DEF SendInit, SendStartup, SendStartupAgain, CounterInv, Starting,
       PageSlotInv, tableVars
  <2>2. \A b \in ApIds : stage'[b] # stage[b] => b = targets[n]
    BY <1>3 DEF SendInit, SendStartup, SendStartupAgain, Signal
  <2> QED BY <2>1, <2>2
<1>4. CASE SendStartup
  <2>1. page.slot = n /\ n \in 1 .. Len(targets) /\ page' = page
    BY <1>4 DEF SendInit, SendStartup, SendStartupAgain, CounterInv, Starting,
       PageSlotInv, tableVars
  <2>2. \A b \in ApIds : stage'[b] # stage[b] => b = targets[n]
    BY <1>4 DEF SendInit, SendStartup, SendStartupAgain, Signal
  <2> QED BY <2>1, <2>2
<1>5. CASE SendStartupAgain
  <2>1. page.slot = n /\ n \in 1 .. Len(targets) /\ page' = page
    BY <1>5 DEF SendInit, SendStartup, SendStartupAgain, CounterInv, Starting,
       PageSlotInv, tableVars
  <2>2. \A b \in ApIds : stage'[b] # stage[b] => b = targets[n]
    BY <1>5 DEF SendInit, SendStartup, SendStartupAgain, Signal
  <2> QED BY <2>1, <2>2
<1>6. ASSUME NEW a \in ApIds,
                \/ LoadStack(a) \/ SetReady(a) \/ FindSlot(a) \/ PrepareTables(a)
                \/ SetRuntimeReady(a) \/ SetActive(a) \/ EnableInterrupts(a)
                \/ HandleShootdown(a)
       PROVE ReaderInv'
  BY <1>6 DEF LoadStack, SetReady, FindSlot, PrepareTables, SetRuntimeReady,
     SetActive, MayLeavePark, EnableInterrupts, HandleShootdown, InActiveSet
<1>7. CASE UNCHANGED vars
  BY <1>7 DEF vars
<1> QED
  BY <1>1, <1>2, <1>3, <1>4, <1>5, <1>6, <1>7 DEF Next, Bsp, StartAp,
     Fallback, Release, Ap, Done

LEMMA StartedStep ==
  BspTypes /\ TableTypes /\ ApTypes /\ CounterInv /\ PageSlotInv /\ StartedInv
  /\ [Next]_vars => StartedInv'
<1> SUFFICES ASSUME BspTypes, TableTypes, ApTypes, CounterInv, PageSlotInv, StartedInv, [Next]_vars
             PROVE  StartedInv'
  OBVIOUS
<1>0. TargetsOK /\ targets' = targets
  BY TargetsType, TargetsStay
<1> USE <1>0 DEF ApTypes, StartedInv, tableVars, apVars
<1>1. CASE
       \/ CannotStart \/ RegisterBsp \/ RegisterAp \/ RegisterFails
       \/ PrepareFails \/ AwaitReady \/ AwaitRuntime \/ TimeLimit
       \/ AllStarted \/ RetainBspOnly \/ ResetId \/ ResetSlot
       \/ EnterFallback \/ ReleaseAps \/ ActivateAp \/ ActivateTimeLimit
       \/ AllActive \/ Broadcast
  BY <1>1 DEF CannotStart, RegisterBsp, RegisterAp, TlbEntry, RegisterFails,
     PrepareFails, AwaitReady, AwaitRuntime, IsRuntimeReady, TimeLimit,
     WaitMayEnd, AfterTimeout, AllStarted, RetainBspOnly, TLB_CLEARED,
     ResetId, ResetSlot, IsLast, EnterFallback, ReleaseAps, ActivateAp,
     IsActive, ActivateTimeLimit, AllActive, Broadcast
<1>2. CASE Prepare
  <2>1. n \in 1 .. Len(targets) /\ page.slot = n - 1
    BY <1>2 DEF Prepare, CounterInv, Starting, PageSlotInv
  <2>2. page'.slot = n /\ stage' = stage
    BY <1>2 DEF Prepare
  <2>3. 1 .. page.slot \subseteq 1 .. page'.slot
    BY <2>1, <2>2
  <2> QED BY <2>2, <2>3
<1>3. CASE SendInit
  <2>1. page.slot = n /\ n \in 1 .. Len(targets) /\ page' = page
    BY <1>3 DEF SendInit, SendStartup, SendStartupAgain, CounterInv, Starting,
       PageSlotInv, tableVars
  <2>2. \A b \in ApIds : stage'[b] # stage[b] => b = targets[n]
    BY <1>3 DEF SendInit, SendStartup, SendStartupAgain, Signal
  <2> QED BY <2>1, <2>2
<1>4. CASE SendStartup
  <2>1. page.slot = n /\ n \in 1 .. Len(targets) /\ page' = page
    BY <1>4 DEF SendInit, SendStartup, SendStartupAgain, CounterInv, Starting,
       PageSlotInv, tableVars
  <2>2. \A b \in ApIds : stage'[b] # stage[b] => b = targets[n]
    BY <1>4 DEF SendInit, SendStartup, SendStartupAgain, Signal
  <2> QED BY <2>1, <2>2
<1>5. CASE SendStartupAgain
  <2>1. page.slot = n /\ n \in 1 .. Len(targets) /\ page' = page
    BY <1>5 DEF SendInit, SendStartup, SendStartupAgain, CounterInv, Starting,
       PageSlotInv, tableVars
  <2>2. \A b \in ApIds : stage'[b] # stage[b] => b = targets[n]
    BY <1>5 DEF SendInit, SendStartup, SendStartupAgain, Signal
  <2> QED BY <2>1, <2>2
<1>6. ASSUME NEW a \in ApIds,
                \/ LoadStack(a) \/ SetReady(a) \/ FindSlot(a) \/ PrepareTables(a)
                \/ SetRuntimeReady(a) \/ SetActive(a) \/ EnableInterrupts(a)
                \/ HandleShootdown(a)
       PROVE StartedInv'
  BY <1>6 DEF LoadStack, SetReady, FindSlot, PrepareTables, SetRuntimeReady,
     SetActive, MayLeavePark, EnableInterrupts, HandleShootdown, InActiveSet
<1>7. CASE UNCHANGED vars
  BY <1>7 DEF vars
<1> QED
  BY <1>1, <1>2, <1>3, <1>4, <1>5, <1>6, <1>7 DEF Next, Bsp, StartAp,
     Fallback, Release, Ap, Done

LEMMA StackStep ==
  BspTypes /\ TableTypes /\ ApTypes /\ ReaderInv /\ StackInv /\ [Next]_vars => StackInv'
<1> SUFFICES ASSUME BspTypes, TableTypes, ApTypes, ReaderInv, StackInv, [Next]_vars PROVE StackInv'
  OBVIOUS
<1>0. TargetsOK /\ targets' = targets
  BY TargetsType, TargetsStay
<1> USE <1>0 DEF TableTypes, ApTypes, StackInv, OwnStacks, tableVars, apVars
<1>1. CASE
       \/ CannotStart \/ RegisterBsp \/ RegisterAp \/ RegisterFails
       \/ PrepareFails \/ AwaitReady \/ AwaitRuntime \/ TimeLimit
       \/ AllStarted \/ RetainBspOnly \/ ResetId \/ ResetSlot
       \/ EnterFallback \/ ReleaseAps \/ ActivateAp \/ ActivateTimeLimit
       \/ AllActive \/ Broadcast
  BY <1>1 DEF CannotStart, RegisterBsp, RegisterAp, TlbEntry, RegisterFails,
     PrepareFails, AwaitReady, AwaitRuntime, IsRuntimeReady, TimeLimit,
     WaitMayEnd, AfterTimeout, AllStarted, RetainBspOnly, TLB_CLEARED,
     ResetId, ResetSlot, IsLast, EnterFallback, ReleaseAps, ActivateAp,
     IsActive, ActivateTimeLimit, AllActive, Broadcast
<1>2. CASE Prepare
  BY <1>2, StacksAssumption DEF Prepare
<1>3. CASE SendInit
  BY <1>3 DEF SendInit, Signal
<1>4. CASE SendStartup
  BY <1>4 DEF SendStartup, Signal
<1>5. CASE SendStartupAgain
  BY <1>5 DEF SendStartupAgain, Signal
<1>6. ASSUME NEW a \in ApIds, LoadStack(a) PROVE StackInv'
  <2>1. rsp' = [rsp EXCEPT ![a] = page.stack] /\ stage[a] = "trampoline"
    BY <1>6 DEF LoadStack
  <2>2. stage' = [stage EXCEPT ![a] = "long mode"] /\ UNCHANGED <<free, page>>
    BY <1>6 DEF LoadStack
  <2>3. page.slot \in 1 .. Len(targets) /\ a = targets[page.slot]
    BY <2>1 DEF ReaderInv, Reads
  <2>4. page.slot # 0
    BY <2>3
  <2>5. page.stack \in Stacks \ free /\ \A b \in ApIds : rsp[b] = page.stack => b = a
    BY <2>3, <2>4
  <2>6. \A b \in ApIds : rsp'[b] = IF b = a THEN page.stack ELSE rsp[b]
    BY <2>1
  <2>7. OwnStacks'
    BY <2>2, <2>5, <2>6
  <2>8. \A b \in ApIds : stage'[b] \in {"off", "init", "trampoline"} =>
         b # a /\ stage'[b] = stage[b]
    BY <2>2
  <2> HIDE DEF OwnStacks
  <2> QED BY <2>2, <2>3, <2>5, <2>6, <2>7, <2>8
<1>7. ASSUME NEW a \in ApIds,
                \/ SetReady(a) \/ FindSlot(a) \/ PrepareTables(a)
                \/ SetRuntimeReady(a) \/ SetActive(a) \/ EnableInterrupts(a)
                \/ HandleShootdown(a)
       PROVE StackInv'
  BY <1>7 DEF SetReady, FindSlot, PrepareTables, SetRuntimeReady, SetActive,
     MayLeavePark, EnableInterrupts, HandleShootdown, InActiveSet
<1>8. CASE UNCHANGED vars
  BY <1>8 DEF vars
<1> QED
  BY <1>1, <1>2, <1>3, <1>4, <1>5, <1>6, <1>7, <1>8 DEF Next, Bsp, StartAp,
     Fallback, Release, Ap, Done

-----------------------------------------------------------------------------
(* The tables of the slots.                                                *)

LEMMA StartStays == BspTypes /\ [Next]_vars => (pc' = "start" => pc = "start")
<1> SUFFICES ASSUME BspTypes, [Next]_vars PROVE (pc' = "start" => pc = "start")
  OBVIOUS
<1>0. TargetsOK /\ targets' = targets
  BY TargetsType, TargetsStay
<1> USE <1>0 DEF bspVars
<1>1. CASE
       \/ CannotStart \/ RegisterBsp \/ RegisterAp \/ RegisterFails
       \/ Prepare \/ PrepareFails \/ SendInit \/ SendStartup
       \/ SendStartupAgain \/ AwaitReady \/ AwaitRuntime \/ TimeLimit
       \/ AllStarted \/ RetainBspOnly \/ ResetId \/ ResetSlot
       \/ EnterFallback \/ ReleaseAps \/ ActivateAp \/ ActivateTimeLimit
       \/ AllActive \/ Broadcast
  BY <1>1 DEF CannotStart, RegisterBsp, RegisterAp, TlbEntry, RegisterFails,
     Prepare, PrepareFails, SendInit, Signal, SendStartup, SendStartupAgain,
     AwaitReady, AwaitRuntime, IsRuntimeReady, TimeLimit, WaitMayEnd,
     AfterTimeout, AllStarted, RetainBspOnly, TLB_CLEARED, ResetId,
     ResetSlot, IsLast, EnterFallback, ReleaseAps, ActivateAp, IsActive,
     ActivateTimeLimit, AllActive, Broadcast
<1>2. ASSUME NEW a \in ApIds,
                \/ LoadStack(a) \/ SetReady(a) \/ FindSlot(a) \/ PrepareTables(a)
                \/ SetRuntimeReady(a) \/ SetActive(a) \/ EnableInterrupts(a)
                \/ HandleShootdown(a)
       PROVE (pc' = "start" => pc = "start")
  <2>1. UNCHANGED bspVars
    BY <1>2, Zenon DEF LoadStack, SetReady, FindSlot, PrepareTables, SetRuntimeReady, SetActive,
       EnableInterrupts, HandleShootdown, bspVars
  <2> QED BY <2>1
<1>3. CASE UNCHANGED vars
  BY <1>3 DEF vars
<1> QED
  BY <1>1, <1>2, <1>3 DEF Next, Bsp, StartAp, Fallback, Release, Ap, Done

LEMMA LastType ==
  ASSUME BspTypes, CounterInv, Healthy
  PROVE  /\ Last \in Nat /\ Last <= Len(targets) /\ Last <= MaxAps
         /\ \A k \in 1 .. Last : k \in Slots /\ k \in 1 .. Len(targets)
<1>1. TargetsOK
  BY TargetsType
<1>2. CASE pc \in Starting
  <2>1. n \in 1 .. Len(targets) /\ Last = n
    BY <1>2, Zenon DEF CounterInv, Last
  <2> QED BY <1>1, <2>1 DEF TargetsOK, Slots
<1>3. CASE pc = "register"
  <2>1. n \in 1 .. Len(targets) + 1 /\ Last = n - 1
    BY <1>3 DEF CounterInv, Last, Starting
  <2> QED BY <1>1, <2>1 DEF TargetsOK, Slots
<1>4. CASE pc \notin Starting /\ pc # "register"
  <2>1. Last = Len(targets)
    BY <1>4, Zenon DEF Last
  <2> QED BY <1>1, <2>1 DEF TargetsOK, Slots
<1> QED BY <1>2, <1>3, <1>4

LEMMA PageIsRegistered ==
  ASSUME BspTypes, TableTypes, CounterInv, PageSlotInv, Healthy
  PROVE  page.slot \in Nat /\ page.slot <= Last
<1>1. page.slot \in 0 .. MaxAps
  BY DEF TableTypes, Slots
<1>2. CASE pc \in Starting
  <2>1. n \in 1 .. Len(targets) /\ Last = n
    BY <1>2, Zenon DEF CounterInv, Last
  <2>2. page.slot = n \/ page.slot = n - 1
    BY <1>2 DEF PageSlotInv
  <2> QED BY <1>1, <2>1, <2>2
<1>3. CASE pc = "register"
  <2>1. n \in 1 .. Len(targets) + 1 /\ Last = n - 1
    BY <1>3 DEF CounterInv, Last, Starting
  <2>2. page.slot = n - 1
    BY <1>3 DEF PageSlotInv
  <2> QED BY <1>1, <2>1, <2>2
<1>4. CASE pc \notin Starting /\ pc # "register"
  <2>1. Last = Len(targets) /\ page.slot <= Len(targets)
    BY <1>4, Zenon DEF Last, PageSlotInv
  <2> QED BY <1>1, <2>1
<1> QED BY <1>2, <1>3, <1>4

LEMMA TableRegisterBsp ==
  ASSUME BspTypes, TableTypes, TableInv, RegisterBsp
  PROVE  TableOK(Last)'
<1>1. pc = "start" /\ pc' = "register" /\ n' = 1
  BY DEF RegisterBsp
<1>2. Last' = 0
  BY <1>1 DEF Last, Starting
<1>3. \A s \in Slots : cpu'[s] =
         IF s = 0 THEN [CLEARED EXCEPT !.apic = BspId, !.registered = TRUE] ELSE cpu[s]
  BY DEF RegisterBsp, TableTypes
<1>4. \A s \in Slots : ~cpu[s].registered
  BY <1>1 DEF TableInv
<1>5. 0 \in Slots /\ \A s \in Slots : s <= 0 <=> s = 0
  BY DEF Slots
<1>6. cpu'[0].apic = BspId /\ cpu'[0].registered
  BY <1>3, <1>5 DEF CLEARED
<1> QED BY <1>2, <1>3, <1>4, <1>5, <1>6 DEF TableOK

LEMMA FreshTarget ==
  ASSUME BspTypes, TableTypes, CounterInv, TableInv, RegisterAp
  PROVE  /\ n \in 1 .. Len(targets) /\ n \in Slots
         /\ Healthy /\ TableOK(n - 1) /\ Last = n - 1 /\ Last' = n
         /\ \A j \in 1 .. n - 1 : targets[j] # targets[n]
<1>0. TargetsOK
  BY TargetsType
<1>1. n \in 1 .. Len(targets) + 1 /\ n <= Len(targets) /\ pc = "register"
  BY DEF RegisterAp, CounterInv
<1>2. n \in 1 .. Len(targets) /\ n \in Slots /\ \A j \in 1 .. n - 1 : j \in Slots /\ j <= n - 1
  BY <1>0, <1>1 DEF TargetsOK, Slots
<1>3. Healthy /\ Last = n - 1 /\ Last' = n
  BY <1>1 DEF RegisterAp, Healthy, Last, Starting
<1>4. TableOK(n - 1)
  BY <1>3 DEF TableInv
<1>5. Matching(targets[n]) = {}
  <2>1. SlotOf(targets[n]) = INVALID_SLOT
    BY DEF RegisterAp
  <2>2. INVALID_SLOT \notin Matching(targets[n])
    BY DEF INVALID_SLOT, Matching, Slots
  <2> QED BY <2>1, <2>2, SlotFound
<1>6. ASSUME NEW j \in 1 .. n - 1, targets[j] = targets[n] PROVE FALSE
  <2>1. cpu[j].registered /\ cpu[j].apic = targets[j]
    BY <1>2, <1>4 DEF TableOK
  <2> QED BY <1>2, <1>5, <1>6, <2>1 DEF Matching
<1> QED BY <1>2, <1>3, <1>4, <1>6

LEMMA TableStep ==
  BspTypes /\ TableTypes /\ CounterInv /\ PageSlotInv /\ TableInv /\ [Next]_vars => TableInv'
<1> SUFFICES ASSUME BspTypes, TableTypes, CounterInv, PageSlotInv, TableInv, [Next]_vars
             PROVE  TableInv'
  OBVIOUS
<1>0. TargetsOK /\ targets' = targets
  BY TargetsType, TargetsStay
<1>1. ASSUME pc' = "start", NEW s \in Slots PROVE ~cpu'[s].registered
  <2>1. pc = "start" /\ ~RegisterBsp /\ ~RegisterAp
    BY <1>1, StartStays DEF RegisterBsp, RegisterAp
  <2>2. SlotKept(s)
    BY <1>1, <2>1, SlotsKept
  <2> QED BY <2>1, <2>2 DEF SlotKept, TableInv
<1>2. CASE RegisterBsp
  BY <1>1, <1>2, TableRegisterBsp DEF TableInv
<1>3. CASE RegisterAp
  <2>1. /\ n \in 1 .. Len(targets) /\ n \in Slots /\ TableOK(n - 1) /\ Last' = n
        /\ \A j \in 1 .. n - 1 : targets[j] # targets[n]
    BY <1>3, FreshTarget
  <2>2. page' = page /\ page.slot = n - 1
    BY <1>3 DEF RegisterAp, PageSlotInv
  <2>3. \A s \in Slots \ {n} : cpu'[s] = cpu[s] /\ tlb'[s] = tlb[s]
    BY <1>3 DEF RegisterAp, TableTypes
  <2>4. /\ cpu'[n].registered /\ cpu'[n].apic = targets[n]
        /\ tlb'[n].registered /\ tlb'[n].apic = targets[n]
    BY <1>3, <2>1 DEF RegisterAp, TableTypes, CLEARED, TlbEntry
  <2>5. \A k \in 1 .. n : k = n \/ (k \in 1 .. n - 1 /\ k \in Slots \ {n})
    BY <2>1 DEF Slots
  <2>6. 0 \in Slots \ {n} /\ \A k \in Slots \ {n} : k <= n <=> k <= n - 1
    BY <2>1 DEF Slots
  <2>7. \A k \in Slots : cpu'[k].registered <=> k <= n
    BY <2>1, <2>3, <2>4, <2>6 DEF TableOK
  <2>8. cpu'[0].apic = BspId
    BY <2>1, <2>3, <2>6 DEF TableOK
  <2>9. ASSUME NEW k \in 1 .. n
        PROVE  /\ cpu'[k].apic = targets[k]
               /\ \A j \in 1 .. n : targets[j] = targets[k] => j = k
               /\ (k = page.slot => cpu'[k].stack = page.stack)
               /\ (k <= page.slot => cpu'[k].stack \in Stacks)
               /\ tlb'[k].registered /\ tlb'[k].apic = targets[k]
    <3>1. CASE k = n
      BY <2>1, <2>2, <2>4, <2>5, <3>1
    <3>2. CASE k \in 1 .. n - 1 /\ k \in Slots \ {n}
      <4>1. cpu'[k] = cpu[k] /\ tlb'[k] = tlb[k]
        BY <2>3, <3>2
      <4> QED BY <2>1, <2>5, <3>2, <4>1 DEF TableOK
    <3> QED BY <2>5, <3>1, <3>2
  <2>10. pc' # "start"
    BY <1>3 DEF RegisterAp
  <2>11. TableOK(Last)'
    BY <1>0, <2>1, <2>2, <2>7, <2>8, <2>9 DEF TableOK
  <2> QED BY <2>10, <2>11 DEF TableInv
<1>4. ASSUME ~RegisterBsp, ~RegisterAp, Healthy' PROVE TableOK(Last)'
  <2>1. Healthy /\ Last' = Last /\ \A s \in Slots : SlotKept(s)
    BY <1>4, HealthKept, SlotsKept
  <2>2. TableOK(Last)
    BY <2>1 DEF TableInv
  <2>3. 0 \in Slots /\ \A k \in 1 .. Last : k \in Slots
    BY <2>1, LastType DEF Slots
  <2>4. /\ \A k \in Slots : cpu'[k].registered <=> k <= Last
        /\ cpu'[0].apic = BspId
        /\ \A k \in 1 .. Last :
             /\ cpu'[k].apic = targets[k]
             /\ \A j \in 1 .. Last : targets[j] = targets[k] => j = k
             /\ tlb'[k].registered /\ tlb'[k].apic = targets[k]
    BY <2>1, <2>2, <2>3 DEF TableOK, SlotKept
  <2>5. \A k \in 1 .. Last : /\ k = page'.slot => cpu'[k].stack = page'.stack
                             /\ k <= page'.slot => cpu'[k].stack \in Stacks
    <3>1. CASE Prepare
      <4>1. n \in 1 .. Len(targets) /\ n \in Slots /\ page.slot = n - 1 /\ Last = n
        BY <1>0, <3>1 DEF Prepare, CounterInv, PageSlotInv, Starting, Last, TargetsOK, Slots
      <4>2. PICK s \in free : /\ cpu' = [cpu EXCEPT ![n].stack = s]
                              /\ page' = [stack |-> s, slot |-> n]
        BY <3>1 DEF Prepare
      <4>3. page'.slot = n /\ page'.stack = s /\ s \in Stacks
        BY <4>2 DEF TableTypes
      <4>4. cpu'[n].stack = s
        BY <4>1, <4>2 DEF TableTypes, CpuRecord
      <4>5. ASSUME NEW k \in 1 .. n, k # n PROVE cpu'[k].stack \in Stacks
        <5>1. k <= page.slot
          BY <4>1, <4>5
        <5>2. cpu'[k] = cpu[k]
          BY <2>3, <4>1, <4>2, <4>5 DEF TableTypes
        <5> QED BY <2>2, <4>1, <5>1, <5>2 DEF TableOK
      <4> QED BY <4>1, <4>3, <4>4, <4>5
    <3>2. CASE ~Prepare
      <4>1. page' = page /\ \A k \in Slots : cpu'[k].stack = cpu[k].stack
        BY <1>4, <3>2, PageKept, StacksKept
      <4> QED BY <2>2, <2>3, <4>1 DEF TableOK
    <3> QED BY <3>1, <3>2
  <2> QED BY <1>0, <2>1, <2>4, <2>5 DEF TableOK
<1> QED BY <1>1, <1>2, <1>3, <1>4 DEF TableInv

LEMMA HasKept ==
  ASSUME BspTypes, TableTypes, CounterInv, TableInv, [Next]_vars, Healthy',
         NEW a, NEW k, Has(a, k)'
  PROVE  \/ Healthy /\ Has(a, k) /\ ~RegisterBsp
         \/ RegisterAp /\ k = n /\ a = targets[n]
<1>0. targets' = targets
  BY TargetsStay
<1>1. ~RegisterBsp
  <2> SUFFICES ASSUME RegisterBsp PROVE FALSE
    OBVIOUS
  <2>1. Last' = 0
    BY DEF RegisterBsp, Last, Starting
  <2> QED BY <2>1 DEF Has
<1>2. CASE RegisterAp
  <2>1. Healthy /\ Last = n - 1 /\ Last' = n /\ n \in 1 .. Len(targets)
    BY <1>2, FreshTarget
  <2>2. TargetsOK
    BY TargetsType
  <2>3. k \in 1 .. n /\ targets[k] = a
    BY <1>0, <2>1 DEF Has
  <2>4. k = n \/ k \in 1 .. n - 1
    BY <2>1, <2>2, <2>3 DEF TargetsOK
  <2> QED BY <1>1, <1>2, <2>1, <2>3, <2>4 DEF Has
<1>3. CASE ~RegisterAp
  BY <1>0, <1>1, <1>3, HealthKept DEF Has
<1> QED BY <1>2, <1>3

LEMMA HasSlot ==
  ASSUME BspTypes, CounterInv, TableInv, Healthy, NEW a, NEW k, Has(a, k)
  PROVE  /\ k \in Slots /\ k # 0 /\ k \in 1 .. Len(targets) /\ a \in ApIds
         /\ SlotOf(a) = k /\ SlotOf(a) \notin {0, INVALID_SLOT}
         /\ \A j : Has(a, j) => j = k
<1>1. TargetsOK /\ TableOK(Last)
  BY TargetsType DEF TableInv
<1>2. k \in 1 .. Last /\ k \in Slots /\ k \in 1 .. Len(targets) /\ targets[k] = a
  BY LastType DEF Has
<1>3. a \in ApIds /\ a # BspId /\ k # 0
  BY <1>1, <1>2 DEF TargetsOK
<1>4. \A j : Has(a, j) => j = k
  BY <1>1, <1>2 DEF Has, TableOK
<1>5. k \in Matching(a)
  BY <1>1, <1>2, LastType DEF Matching, TableOK
<1>6. ASSUME NEW s \in Matching(a) PROVE s = k
  <2>1. s \in Slots /\ cpu[s].registered /\ cpu[s].apic = a
    BY <1>6 DEF Matching
  <2>2. s <= Last /\ s # 0
    BY <1>1, <1>3, <2>1 DEF TableOK
  <2>3. s \in 1 .. Last
    BY <2>1, <2>2, LastType DEF Slots
  <2>4. Has(a, s)
    BY <1>1, <2>1, <2>3 DEF TableOK, Has
  <2> QED BY <1>4, <2>4
<1>7. SlotOf(a) = k
  BY <1>5, <1>6, SlotFound
<1>8. k # INVALID_SLOT
  BY <1>2 DEF Slots, INVALID_SLOT
<1> QED BY <1>2, <1>3, <1>4, <1>7, <1>8

LEMMA StartedHas ==
  ASSUME BspTypes, TableTypes, CounterInv, PageSlotInv, StartedInv, Healthy,
         NEW a \in ApIds, stage[a] # "off"
  PROVE  \E k \in 1 .. page.slot : k \in Slots /\ Has(a, k)
<1>1. PICK k \in 1 .. page.slot : targets[k] = a
  BY DEF StartedInv
<1>2. page.slot \in Nat /\ page.slot <= Last /\ Last \in Nat
  BY PageIsRegistered, LastType
<1>3. k \in 1 .. Last
  BY <1>2
<1> QED BY <1>1, <1>3, LastType DEF Has

LEMMA NewSlotIsOff ==
  ASSUME BspTypes, TableTypes, CounterInv, PageSlotInv, StartedInv, TableInv,
         RegisterAp \/ Prepare
  PROVE  n \in 1 .. Len(targets) /\ targets[n] \in ApIds /\ stage[targets[n]] = "off"
<1>0. TargetsOK
  BY TargetsType
<1>1. n \in 1 .. Len(targets) /\ page.slot = n - 1
  <2>1. CASE RegisterAp
    BY <2>1, FreshTarget DEF RegisterAp, PageSlotInv
  <2>2. CASE Prepare
    BY <2>2 DEF Prepare, CounterInv, PageSlotInv, Starting
  <2> QED BY <2>1, <2>2
<1>2. targets[n] \in ApIds
  BY <1>0, <1>1 DEF TargetsOK
<1>3. ASSUME NEW j \in 1 .. n - 1, targets[j] = targets[n] PROVE FALSE
  <2>1. CASE RegisterAp
    BY <1>3, <2>1, FreshTarget
  <2>2. CASE Prepare
    <3>1. Healthy /\ Last = n
      BY <2>2 DEF Prepare, Healthy, Last, Starting
    <3>2. j \in 1 .. n /\ n \in 1 .. n /\ j # n
      BY <1>0, <1>1 DEF TargetsOK
    <3> QED BY <1>3, <3>1, <3>2 DEF TableInv, TableOK
  <2> QED BY <2>1, <2>2
<1> QED BY <1>1, <1>2, <1>3 DEF StartedInv

-----------------------------------------------------------------------------
(* The way of an AP through the trampoline and its entry.                  *)

LEMMA ReaderHas ==
  ASSUME BspTypes, TableTypes, CounterInv, PageSlotInv, ReaderInv, Healthy,
         NEW a \in ApIds, Reads(a)
  PROVE  Has(a, page.slot)
<1>1. page.slot \in 1 .. Len(targets) /\ a = targets[page.slot]
  BY DEF ReaderInv
<1>2. Last \in Nat /\ page.slot <= Last /\ page.slot \in Nat
  BY LastType, PageIsRegistered
<1>3. page.slot # 0
  BY <1>1
<1>4. page.slot \in 1 .. Last
  BY <1>2, <1>3
<1> QED BY <1>1, <1>4 DEF Has

LEMMA PathStep ==
  ASSUME BspTypes, TableTypes, ApTypes, CounterInv, PageSlotInv, ReaderInv, StartedInv,
         TableInv, PathInv, [Next]_vars
  PROVE  PathInv'
<1> DEFINE Path(b, k) ==
      /\ stage[b] \in OnPath => rsp[b] = cpu[k].stack
      /\ stage[b] \in InSlot => at[b] = k
      /\ stage[b] \in AtSlot => top[b] = cpu[k].stack
<1> SUFFICES ASSUME Healthy', NEW b \in ApIds, NEW k \in Slots, Has(b, k)'
             PROVE  Path(b, k)'
  BY DEF PathInv
<1>0. (Healthy /\ Has(b, k) /\ ~RegisterBsp) \/ (RegisterAp /\ k = n /\ b = targets[n])
  BY HasKept
<1>1. CASE (RegisterAp \/ Prepare) /\ k = n /\ b = targets[n]
  <2>1. stage[b] = "off" /\ stage' = stage
    BY <1>1, NewSlotIsOff DEF RegisterAp, Prepare, apVars
  <2> QED BY <2>1 DEF OnPath, InSlot, AtSlot
<1>2. ASSUME Healthy, Has(b, k), ~RegisterBsp, ~(Prepare /\ k = n) PROVE Path(b, k)'
  <2>1. Path(b, k) /\ SlotOf(b) = k /\ SlotOf(b) \notin {0, INVALID_SLOT}
    BY <1>2, HasSlot DEF PathInv
  <2>2. cpu'[k].stack = cpu[k].stack
    <3>1. CASE RegisterAp
      <4>1. k # n /\ n \in Slots
        BY <1>2, <3>1, FreshTarget, LastType DEF Has
      <4> QED BY <3>1, <4>1 DEF RegisterAp, TableTypes
    <3>2. CASE Prepare
      BY <1>2, <3>2 DEF Prepare, TableTypes
    <3> QED BY <1>2, <3>1, <3>2, StacksKept
  <2> USE <2>1, <2>2 DEF ApTypes, apVars, OnPath, InSlot, AtSlot
  <2>3. CASE
       \/ CannotStart \/ RegisterFails \/ PrepareFails \/ AwaitReady
       \/ AwaitRuntime \/ TimeLimit \/ AllStarted \/ RetainBspOnly
       \/ ResetId \/ ResetSlot \/ EnterFallback \/ ReleaseAps \/ ActivateAp
       \/ ActivateTimeLimit \/ AllActive \/ Broadcast
       \/ RegisterAp \/ Prepare
    BY <2>3 DEF CannotStart, RegisterFails, PrepareFails, AwaitReady, AwaitRuntime,
       TimeLimit, AllStarted, RetainBspOnly, ResetId, ResetSlot, EnterFallback,
       ReleaseAps, ActivateAp, ActivateTimeLimit, AllActive, Broadcast, RegisterAp,
       Prepare
  <2>4. CASE SendInit \/ SendStartup \/ SendStartupAgain
    BY <2>4 DEF SendInit, SendStartup, SendStartupAgain, Signal
  <2>5. ASSUME NEW a \in ApIds, LoadStack(a) PROVE Path(b, k)'
    <3>1. CASE a = b
      <4>3. Has(b, page.slot)
        BY <1>2, <2>5, <3>1, ReaderHas DEF LoadStack, Reads
      <4>4. k = page.slot
        BY <1>2, <4>3, HasSlot
      <4>5. cpu[k].stack = page.stack
        BY <1>2, <4>4 DEF TableInv, TableOK, Has
      <4> QED BY <2>5, <3>1, <4>5 DEF LoadStack
    <3>2. CASE a # b
      BY <2>5, <3>2 DEF LoadStack
    <3> QED BY <3>1, <3>2
  <2>6. ASSUME NEW a \in ApIds, SetReady(a) \/ SetRuntimeReady(a) \/ SetActive(a)
        PROVE  Path(b, k)'
    BY <2>6 DEF SetReady, SetRuntimeReady, SetActive
  <2>7. ASSUME NEW a \in ApIds, FindSlot(a) PROVE Path(b, k)'
    BY <2>7 DEF FindSlot
  <2>8. ASSUME NEW a \in ApIds, PrepareTables(a) PROVE Path(b, k)'
    BY <2>8 DEF PrepareTables
  <2>9. ASSUME NEW a \in ApIds, EnableInterrupts(a) \/ HandleShootdown(a)
        PROVE  Path(b, k)'
    BY <2>9 DEF EnableInterrupts, HandleShootdown
  <2>10. CASE UNCHANGED vars
    BY <2>10 DEF vars
  <2> QED
    BY <1>2, <2>3, <2>4, <2>5, <2>6, <2>7, <2>8, <2>9, <2>10 DEF Next, Bsp, StartAp,
       Fallback, Release, Ap, Done
<1>3. CASE Prepare /\ k = n
  <2>1. b = targets[n]
    BY <1>0, <1>3 DEF Has, Prepare, RegisterAp
  <2> QED BY <1>1, <1>3, <2>1
<1> QED BY <1>0, <1>1, <1>2, <1>3

LEMMA UpStays ==
  ASSUME BspTypes, CounterInv, ApTypes, ShootdownsAreAnswered, [Next]_vars, NEW b \in ApIds
  PROVE  /\ stage[b] \in {"parked"} \cup Enabling => stage'[b] \in {"parked"} \cup Enabling
         /\ stage[b] \in Enabling => stage'[b] \in Enabling
<1> USE DEF ApTypes, apVars, Enabling
<1>1. CASE
       \/ CannotStart \/ RegisterFails \/ PrepareFails \/ AwaitReady
       \/ AwaitRuntime \/ TimeLimit \/ AllStarted \/ RetainBspOnly
       \/ ResetId \/ ResetSlot \/ EnterFallback \/ ReleaseAps \/ ActivateAp
       \/ ActivateTimeLimit \/ AllActive \/ Broadcast
       \/ RegisterAp \/ RegisterBsp \/ Prepare
  BY <1>1 DEF CannotStart, RegisterFails, PrepareFails, AwaitReady, AwaitRuntime,
     TimeLimit, AllStarted, RetainBspOnly, ResetId, ResetSlot, EnterFallback, ReleaseAps,
     ActivateAp, ActivateTimeLimit, AllActive, Broadcast,
     RegisterAp, RegisterBsp, Prepare
<1>2. CASE SendInit \/ SendStartup \/ SendStartupAgain
  BY <1>2 DEF SendInit, SendStartup, SendStartupAgain, Signal
<1>3. ASSUME NEW a \in ApIds,
             \/ LoadStack(a) \/ SetReady(a) \/ FindSlot(a) \/ PrepareTables(a)
             \/ SetRuntimeReady(a)
      PROVE  stage'[b] = stage[b] \/ stage[b] \notin {"parked"} \cup Enabling
  BY <1>3 DEF LoadStack, SetReady, FindSlot, PrepareTables, SetRuntimeReady
<1>4. ASSUME NEW a \in ApIds, SetActive(a) \/ EnableInterrupts(a)
      PROVE  stage'[b] = stage[b] \/ stage'[b] \in Enabling
  BY <1>4 DEF SetActive, EnableInterrupts
<1>5. ASSUME NEW a \in ApIds, HandleShootdown(a) PROVE stage'[b] = stage[b]
  BY <1>5 DEF HandleShootdown, ShootdownsAreAnswered
<1>6. CASE UNCHANGED vars
  BY <1>6 DEF vars
<1> QED
  BY <1>1, <1>2, <1>3, <1>4, <1>5, <1>6 DEF Next, Bsp, StartAp, Fallback, Release, Ap, Done

LEMMA FlagsKept ==
  BspTypes /\ TableTypes /\ [Next]_vars =>
    (\A k \in Slots :
      /\ cpu'[k].runtime => cpu[k].runtime \/ \E c \in ApIds : SetRuntimeReady(c) /\ at[c] = k
      /\ cpu'[k].active => cpu[k].active \/ \E c \in ApIds : SetActive(c) /\ at[c] = k)
<1> DEFINE Goal ==
    \A k \in Slots :
      /\ cpu'[k].runtime => cpu[k].runtime \/ \E c \in ApIds : SetRuntimeReady(c) /\ at[c] = k
      /\ cpu'[k].active => cpu[k].active \/ \E c \in ApIds : SetActive(c) /\ at[c] = k
<1> SUFFICES ASSUME BspTypes, TableTypes, [Next]_vars PROVE Goal
  OBVIOUS
<1>0. TargetsOK /\ targets' = targets
  BY TargetsType, TargetsStay
<1> USE <1>0 DEF TableTypes, CpuRecord, tableVars
<1>1. CASE
       \/ CannotStart \/ RegisterFails \/ PrepareFails \/ SendInit
       \/ SendStartup \/ SendStartupAgain \/ AwaitReady \/ AwaitRuntime
       \/ TimeLimit \/ AllStarted \/ RetainBspOnly \/ ActivateAp
       \/ ActivateTimeLimit \/ AllActive \/ Broadcast
  BY <1>1 DEF CannotStart, RegisterFails, PrepareFails, SendInit, Signal,
     SendStartup, SendStartupAgain, AwaitReady, AwaitRuntime, IsRuntimeReady,
     TimeLimit, WaitMayEnd, AfterTimeout, AllStarted, RetainBspOnly,
     TLB_CLEARED, ActivateAp, IsActive, ActivateTimeLimit, AllActive,
     Broadcast
<1>2. CASE RegisterBsp
  BY <1>2 DEF RegisterBsp, CLEARED
<1>3. CASE RegisterAp
  BY <1>3 DEF RegisterAp, TlbEntry, CLEARED
<1>4. CASE Prepare
  BY <1>4 DEF Prepare
<1>5. CASE ResetId
  BY <1>5 DEF ResetId
<1>6. CASE ResetSlot
  BY <1>6 DEF ResetSlot, IsLast, CLEARED
<1>7. CASE EnterFallback
  BY <1>7 DEF EnterFallback
<1>8. CASE ReleaseAps
  BY <1>8 DEF ReleaseAps
<1>9. ASSUME NEW a \in ApIds,
                \/ LoadStack(a) \/ FindSlot(a) \/ PrepareTables(a)
                \/ EnableInterrupts(a) \/ HandleShootdown(a)
       PROVE Goal
  BY <1>9 DEF LoadStack, FindSlot, PrepareTables, EnableInterrupts,
     HandleShootdown, InActiveSet
<1>10. ASSUME NEW a \in ApIds, SetReady(a) PROVE Goal
  BY <1>10 DEF SetReady
<1>11. ASSUME NEW a \in ApIds, SetRuntimeReady(a) PROVE Goal
  <2>1. \A k \in Slots : k # at[a] => cpu'[k] = cpu[k]
    BY <1>11 DEF SetRuntimeReady
  <2>2. \A k \in Slots : cpu'[k].active = cpu[k].active
    BY <1>11 DEF SetRuntimeReady
  <2> QED BY <1>11, <2>1, <2>2
<1>12. ASSUME NEW a \in ApIds, SetActive(a) PROVE Goal
  <2>1. \A k \in Slots : k # at[a] => cpu'[k] = cpu[k]
    BY <1>12 DEF SetActive
  <2>2. \A k \in Slots : cpu'[k].runtime = cpu[k].runtime
    BY <1>12 DEF SetActive
  <2> QED BY <1>12, <2>1, <2>2
<1>13. CASE UNCHANGED vars
  BY <1>13 DEF vars
<1> QED
  BY <1>1, <1>2, <1>3, <1>4, <1>5, <1>6, <1>7, <1>8, <1>9, <1>10, <1>11,
     <1>12, <1>13 DEF Next, Bsp, StartAp, Fallback, Release, Ap, Done

-----------------------------------------------------------------------------
(* The flags the BSP waits for.                                            *)

LEMMA SlotHas ==
  ASSUME BspTypes, TableTypes, CounterInv, PageSlotInv, StartedInv, TableInv, PathInv, Healthy,
         NEW a \in ApIds, stage[a] \in InSlot
  PROVE  Has(a, at[a])
<1>1. PICK k \in 1 .. page.slot : k \in Slots /\ Has(a, k)
  BY StartedHas DEF InSlot
<1>2. at[a] = k
  BY <1>1 DEF PathInv
<1> QED BY <1>1, <1>2

LEMMA PassedKept ==
  BspTypes /\ CounterInv /\ [Next]_vars =>
    (Healthy /\ Healthy' =>
      \A k \in 1 .. Last : Passed(k)' => Passed(k) \/ (AwaitRuntime /\ k = n))
<1> DEFINE Goal ==
    Healthy /\ Healthy' =>
      \A k \in 1 .. Last : Passed(k)' => Passed(k) \/ (AwaitRuntime /\ k = n)
<1> SUFFICES ASSUME BspTypes, CounterInv, [Next]_vars PROVE Goal
  OBVIOUS
<1>0. TargetsOK /\ targets' = targets
  BY TargetsType, TargetsStay
<1> USE <1>0 DEF BspTypes, Passed, SmpReady, Healthy, bspVars
<1>1. CASE
       \/ CannotStart \/ RegisterFails \/ Prepare \/ PrepareFails
       \/ SendInit \/ SendStartup \/ SendStartupAgain \/ AwaitReady
       \/ TimeLimit \/ ResetId \/ ActivateTimeLimit \/ AllActive
       \/ Broadcast
  BY <1>1 DEF CannotStart, RegisterFails, Prepare, PrepareFails, SendInit,
     Signal, SendStartup, SendStartupAgain, AwaitReady, TimeLimit,
     WaitMayEnd, AfterTimeout, ResetId, ActivateTimeLimit, AllActive,
     Broadcast
<1>2. CASE RegisterBsp
  BY <1>2 DEF RegisterBsp, Starting
<1>3. CASE RegisterAp
  BY <1>3 DEF RegisterAp, TlbEntry, Starting
<1>4. CASE AwaitRuntime
  <2>1. n \in 1 .. Len(targets) /\ Last = n /\ n' = n + 1 /\ pc' = "register"
    BY <1>4 DEF AwaitRuntime, CounterInv, Starting, Last
  <2>2. \A k \in 1 .. n : k < n \/ k = n
    BY <2>1 DEF TargetsOK
  <2> QED BY <1>4, <2>1, <2>2
<1>5. CASE AllStarted
  <2>1. n \in 1 .. Len(targets) + 1 /\ Last = n - 1
    BY <1>5 DEF AllStarted, CounterInv, Last, Starting
  <2>2. \A k \in 1 .. n - 1 : k < n
    BY <2>1 DEF TargetsOK
  <2> QED BY <2>1, <2>2
<1>6. CASE RetainBspOnly
  BY <1>6 DEF RetainBspOnly, TLB_CLEARED, Starting
<1>7. CASE ResetSlot
  BY <1>7 DEF ResetSlot, IsLast, Starting
<1>8. CASE EnterFallback
  BY <1>8 DEF EnterFallback, Starting
<1>9. CASE ReleaseAps
  BY <1>9 DEF ReleaseAps
<1>10. CASE ActivateAp
  BY <1>10 DEF ActivateAp, IsActive
<1>11. ASSUME NEW a \in ApIds,
                \/ LoadStack(a) \/ SetReady(a) \/ FindSlot(a) \/ PrepareTables(a)
                \/ SetRuntimeReady(a) \/ SetActive(a) \/ EnableInterrupts(a)
                \/ HandleShootdown(a)
       PROVE Goal
  <2>1. UNCHANGED bspVars
    BY <1>11, Zenon DEF LoadStack, SetReady, FindSlot, PrepareTables, SetRuntimeReady, SetActive,
       EnableInterrupts, HandleShootdown, bspVars
  <2> QED BY <2>1
<1>12. CASE UNCHANGED vars
  BY <1>12 DEF vars
<1> QED
  BY <1>1, <1>2, <1>3, <1>4, <1>5, <1>6, <1>7, <1>8, <1>9, <1>10, <1>11,
     <1>12 DEF Next, Bsp, StartAp, Fallback, Release, Ap, Done

LEMMA UpStep ==
  ASSUME BspTypes, TableTypes, ApTypes, CounterInv, PageSlotInv, StartedInv, TableInv, PathInv,
         UpInv, ShootdownsAreAnswered, [Next]_vars
  PROVE  UpInv'
<1> SUFFICES ASSUME Healthy', NEW b \in ApIds, NEW k \in Slots, Has(b, k)'
             PROVE  /\ cpu'[k].runtime \/ Passed(k)' => stage'[b] \in {"parked"} \cup Enabling
                    /\ cpu'[k].active => stage'[b] \in Enabling
  BY DEF UpInv
<1>0. (Healthy /\ Has(b, k)) \/ (RegisterAp /\ k = n)
  BY HasKept
<1>1. CASE RegisterAp /\ k = n
  <2>1. ~cpu'[k].runtime /\ ~cpu'[k].active
    BY <1>1 DEF RegisterAp, TableTypes, CLEARED
  <2>2. pc' = "prepare" /\ n' = n /\ n \in Nat
    BY <1>1, FreshTarget DEF RegisterAp, BspTypes
  <2>3. ~Passed(k)'
    BY <1>1, <2>2 DEF Passed, SmpReady
  <2> QED BY <2>1, <2>3
<1>2. ASSUME Healthy, Has(b, k) PROVE
        /\ cpu'[k].runtime \/ Passed(k)' => stage'[b] \in {"parked"} \cup Enabling
        /\ cpu'[k].active => stage'[b] \in Enabling
  <2>1. /\ cpu[k].runtime \/ Passed(k) => stage[b] \in {"parked"} \cup Enabling
        /\ cpu[k].active => stage[b] \in Enabling
    BY <1>2 DEF UpInv
  <2>2. ASSUME NEW a \in ApIds, stage[a] \in InSlot, at[a] = k PROVE a = b
    BY <1>2, <2>2, SlotHas DEF Has
  <2>3. ASSUME cpu[k].runtime \/ Passed(k) PROVE stage'[b] \in {"parked"} \cup Enabling
    BY <2>1, <2>3, UpStays
  <2>4. ASSUME AwaitRuntime, k = n PROVE stage'[b] \in {"parked"} \cup Enabling
    BY <2>1, <2>4, UpStays DEF AwaitRuntime, IsRuntimeReady
  <2>5. ASSUME NEW a \in ApIds, SetRuntimeReady(a), at[a] = k PROVE stage'[b] = "parked"
    BY <2>2, <2>5 DEF SetRuntimeReady, InSlot, ApTypes
  <2>6. ASSUME NEW a \in ApIds, SetActive(a), at[a] = k PROVE stage'[b] \in Enabling
    BY <2>2, <2>6 DEF SetActive, InSlot, ApTypes, Enabling
  <2>7. Passed(k)' => Passed(k) \/ (AwaitRuntime /\ k = n)
    BY <1>2, PassedKept DEF Has
  <2>8. /\ cpu'[k].runtime => cpu[k].runtime \/ \E c \in ApIds : SetRuntimeReady(c) /\ at[c] = k
        /\ cpu'[k].active => cpu[k].active \/ \E c \in ApIds : SetActive(c) /\ at[c] = k
    BY FlagsKept
  <2>9. cpu'[k].active => stage'[b] \in Enabling
    BY <2>1, <2>6, <2>8, UpStays
  <2> QED BY <2>3, <2>4, <2>5, <2>7, <2>8, <2>9
<1> QED BY <1>0, <1>1, <1>2

LEMMA ActiveKept ==
  BspTypes /\ TableTypes /\ CounterInv /\ [Next]_vars =>
    (\A s \in Slots \ {0} : tlb'[s].active => tlb[s].active \/ (ActivateAp /\ s = n))
<1> DEFINE Goal ==
    \A s \in Slots \ {0} : tlb'[s].active => tlb[s].active \/ (ActivateAp /\ s = n)
<1> SUFFICES ASSUME BspTypes, TableTypes, CounterInv, [Next]_vars PROVE Goal
  OBVIOUS
<1>0. TargetsOK /\ targets' = targets
  BY TargetsType, TargetsStay
<1> USE <1>0 DEF TableTypes, TlbRecord, tableVars
<1>1. CASE
       \/ CannotStart \/ RegisterFails \/ Prepare \/ PrepareFails
       \/ SendInit \/ SendStartup \/ SendStartupAgain \/ AwaitReady
       \/ AwaitRuntime \/ TimeLimit \/ AllStarted \/ ResetId \/ ResetSlot
       \/ EnterFallback \/ ReleaseAps \/ ActivateTimeLimit \/ AllActive
       \/ Broadcast
  BY <1>1 DEF CannotStart, RegisterFails, Prepare, PrepareFails, SendInit,
     Signal, SendStartup, SendStartupAgain, AwaitReady, AwaitRuntime,
     IsRuntimeReady, TimeLimit, WaitMayEnd, AfterTimeout, AllStarted,
     ResetId, ResetSlot, IsLast, EnterFallback, ReleaseAps,
     ActivateTimeLimit, AllActive, Broadcast
<1>2. CASE RegisterBsp
  BY <1>2 DEF RegisterBsp
<1>3. CASE RegisterAp
  BY <1>3 DEF RegisterAp, TlbEntry
<1>4. CASE RetainBspOnly
  BY <1>4 DEF RetainBspOnly, TLB_CLEARED, TLB_CLEARED
<1>5. CASE ActivateAp
  BY <1>5 DEF ActivateAp, IsActive
<1>6. ASSUME NEW a \in ApIds,
                \/ LoadStack(a) \/ SetReady(a) \/ FindSlot(a) \/ PrepareTables(a)
                \/ SetRuntimeReady(a) \/ SetActive(a) \/ EnableInterrupts(a)
                \/ HandleShootdown(a)
       PROVE Goal
  BY <1>6 DEF LoadStack, SetReady, FindSlot, PrepareTables, SetRuntimeReady,
     SetActive, MayLeavePark, EnableInterrupts, HandleShootdown, InActiveSet
<1>7. CASE UNCHANGED vars
  BY <1>7 DEF vars
<1> QED
  BY <1>1, <1>2, <1>3, <1>4, <1>5, <1>6, <1>7 DEF Next, Bsp, StartAp,
     Fallback, Release, Ap, Done

LEMMA HealthyReleased ==
  ASSUME BspTypes, CounterInv, pc \in Released, ~degraded, [Next]_vars
  PROVE  Healthy /\ MayEnable' /\ Healthy' /\ Last' = Last /\ Last = Len(targets)
<1>1. SmpReady /\ MayEnable
  BY DEF Released, SmpReady, MayEnable, CounterInv
<1>2. MayEnable'
  BY <1>1, EnableStays
<1>3. Healthy /\ Healthy'
  BY <1>1, <1>2 DEF Healthy, MayEnable, Released, SmpReady
<1>4. ~RegisterBsp /\ ~RegisterAp
  BY DEF RegisterBsp, RegisterAp, Released
<1>5. Last = Len(targets)
  BY DEF Last, Starting, Released
<1> QED BY <1>2, <1>3, <1>4, <1>5, HealthKept

-----------------------------------------------------------------------------
(* The active set.                                                         *)

LEMMA OthersActive ==
  ASSUME TableTypes, Cardinality(ActiveSlots) > 1
  PROVE  \E s \in Slots \ {0} : tlb[s].active
<1> SUFFICES ASSUME ActiveSlots \subseteq {0} PROVE FALSE
  BY DEF ActiveSlots
<1>1. IsFiniteSet({0}) /\ Cardinality({0}) = 1
  BY FS_Singleton
<1>2. IsFiniteSet(ActiveSlots) /\ Cardinality(ActiveSlots) <= Cardinality({0})
  BY <1>1, FS_Subset
<1>3. Cardinality(ActiveSlots) \in Nat
  BY <1>2, FS_CardinalityType
<1> QED BY <1>1, <1>2, <1>3

LEMMA ReleasedSteps ==
  ASSUME [Next]_vars
  PROVE  /\ pc' = "activate" =>
              ReleaseAps \/ (pc = "activate" /\ (ActivateAp \/ UNCHANGED <<n, degraded, tlb>>))
         /\ pc' = "open" => ReleaseAps \/ AllActive \/ (pc = "open" /\ UNCHANGED <<degraded, tlb>>)
         /\ pc = "open" => pc' = "open" /\ UNCHANGED <<bspVars, tlb>>
         /\ Broadcast \/ pending' \subseteq pending
<1>1. ASSUME NEW a \in ApIds, Ap(a) PROVE UNCHANGED <<bspVars, tlb>> /\ pending' \subseteq pending
  <2>1. CASE HandleShootdown(a)
    BY <2>1, Zenon DEF HandleShootdown, tableVars
  <2> QED
    BY <1>1, <2>1, Zenon DEF Ap, LoadStack, SetReady, FindSlot, PrepareTables, SetRuntimeReady,
       SetActive, EnableInterrupts, tableVars
<1>2. CASE Bsp
  <2> USE DEF Bsp, StartAp, Fallback, Release, CannotStart, RegisterBsp, RegisterAp, RegisterFails,
     Prepare, PrepareFails, SendInit, SendStartup, SendStartupAgain, AwaitReady, AwaitRuntime,
     TimeLimit, WaitMayEnd, AllStarted, RetainBspOnly, ResetId, ResetSlot, EnterFallback,
     ActivateTimeLimit, tableVars
  <2>1. pc # "open" /\ pending' = pending
    BY <1>2 DEF ReleaseAps, ActivateAp, AllActive
  <2>2. pc' = "activate" => ReleaseAps \/ ActivateAp
    BY <1>2 DEF AllActive
  <2>3. pc' = "open" => ReleaseAps \/ AllActive
    BY <1>2 DEF ActivateAp
  <2>4. ActivateAp => pc = "activate"
    BY DEF ActivateAp
  <2> QED BY <2>1, <2>2, <2>3, <2>4
<1>3. CASE Broadcast
  BY <1>3 DEF Broadcast, bspVars, tableVars
<1>4. CASE UNCHANGED vars
  BY <1>4 DEF vars, bspVars, tableVars
<1> QED BY <1>1, <1>2, <1>3, <1>4 DEF Next, Done, bspVars

LEMMA ActiveStep ==
  ASSUME BspTypes, TableTypes, ApTypes, CounterInv, TableInv, UpInv, ShootdownInv, [Next]_vars
  PROVE  ActiveInv'
<1>0. TargetsOK /\ targets' = targets
  BY TargetsType, TargetsStay
<1> USE DEF ShootdownInv
<1>1. ASSUME pc = "activate", ActivateAp
      PROVE  /\ n \in Slots \ {0}
             /\ cpu[n].registered <=> n \in 1 .. Last
             /\ cpu[n].registered => \E a \in ApIds : Has(a, n) /\ stage[a] \in Enabling
  <2>1. n \in 1 .. MaxAps
    BY <1>1 DEF ActivateAp, CounterInv, BspTypes
  <2>2. Healthy /\ TableOK(Last)
    BY <1>1 DEF ActiveInv, Healthy, SmpReady, TableInv
  <2>3. n \in Slots \ {0}
    BY <2>1 DEF Slots
  <2>4. cpu[n].registered <=> n \in 1 .. Last
    <3>1. Last \in Nat
      BY <2>2, LastType
    <3> QED BY <2>1, <2>2, <2>3, <3>1 DEF TableOK
  <2>5. ASSUME cpu[n].registered
        PROVE  Has(targets[n], n) /\ targets[n] \in ApIds /\ stage[targets[n]] \in Enabling
    <3>1. Has(targets[n], n)
      BY <2>4, <2>5 DEF Has
    <3>2. targets[n] \in ApIds
      BY <2>2, <3>1, HasSlot
    <3>3. cpu[n].active
      BY <2>5 , <1>1 DEF ActivateAp, IsActive
    <3> QED BY <2>2, <2>3, <3>1, <3>2, <3>3 DEF UpInv
  <2> QED BY <2>3, <2>4, <2>5
<1>2. ASSUME NEW s \in Slots \ {0}, tlb'[s].active
      PROVE  pc' \in Released /\ ~degraded' /\ \E a \in ApIds : Has(a, s)' /\ stage'[a] \in Enabling
  <2>1. pc \in Released /\ ~degraded /\ \E a \in ApIds : Has(a, s) /\ stage[a] \in Enabling
    <3>1. CASE tlb[s].active
      BY <3>1 DEF ActiveInv
    <3>2. CASE ActivateAp /\ s = n /\ ~tlb[s].active
      <4>1. pc = "activate" /\ cpu[n].registered
        BY <1>2, <3>2 DEF ActivateAp, TableTypes, TlbRecord
      <4> QED BY <1>1, <3>2, <4>1 DEF ActiveInv, Released
    <3> QED BY <1>2, <3>1, <3>2, ActiveKept
  <2>2. MayEnable' /\ Last' = Last
    BY <2>1, HealthyReleased
  <2> QED BY <1>0, <2>1, <2>2, UpStays DEF MayEnable, Has
<1>3. ASSUME pc' = "activate", NEW s \in 1 .. Last', s < n'
      PROVE  tlb'[s].active
  <2>1. ~ReleaseAps
    BY <1>3 DEF ReleaseAps
  <2>2. pc = "activate" /\ ~degraded /\ (\A r \in 1 .. Last : r < n => tlb[r].active)
    BY <1>3, <2>1, ReleasedSteps DEF ActiveInv
  <2>3. Last' = Last /\ Healthy
    BY <2>2, HealthyReleased DEF Released
  <2>4. CASE ActivateAp
    <3>1. n' = n + 1 /\ tlb' = [tlb EXCEPT ![n].active = @ \/ cpu[n].registered] /\ n \in Slots
      BY <1>1, <2>2, <2>4 DEF ActivateAp
    <3>2. s \in Slots /\ (s < n \/ s = n)
      BY <1>3, <2>3, <3>1, LastType DEF Slots
    <3>3. CASE s = n
      BY <1>1, <1>3, <2>2, <2>3, <2>4, <3>1, <3>2, <3>3 DEF TableTypes, TlbRecord
    <3>4. CASE s < n
      BY <1>3, <2>2, <2>3, <3>1, <3>2, <3>4 DEF TableTypes, TlbRecord
    <3> QED BY <3>2, <3>3, <3>4
  <2> QED BY <1>3, <2>1, <2>2, <2>3, <2>4, ReleasedSteps
<1>4. ASSUME pc' = "activate" PROVE ~degraded'
  <2>1. CASE ReleaseAps
    BY <1>4, <2>1 DEF ReleaseAps, CounterInv
  <2>2. CASE pc = "activate"
    <3>1. ~degraded
      BY <2>2 DEF ActiveInv
    <3> QED BY <2>2, <3>1, HealthyReleased DEF Released, MayEnable
  <2> QED BY <1>4, <2>1, <2>2, ReleasedSteps
<1>5. ASSUME pc' = "open", ~degraded', NEW s \in 1 .. Last' PROVE tlb'[s].active
  <2>1. Last' = Len(targets)
    BY <1>0, <1>5 DEF Last, Starting
  <2>2. CASE ReleaseAps
    <3>1. runtimeAps = 0 /\ ~degraded /\ pc = "up"
      BY <1>5, <2>2 DEF ReleaseAps
    <3>2. Len(targets) = 0
      BY <3>1 DEF CounterInv, SmpReady
    <3> QED BY <1>5, <2>1, <3>2
  <2>3. CASE AllActive
    <3>1. pc = "activate" /\ n > MaxAps /\ tlb' = tlb
      BY <2>3 DEF AllActive, tableVars
    <3>2. Last = Len(targets) /\ s \in 1 .. Len(targets) /\ s < n
      BY <1>0, <1>5, <2>1, <3>1 DEF Last, Starting, TargetsOK, BspTypes
    <3> QED BY <3>1, <3>2 DEF ActiveInv
  <2>4. CASE pc = "open" /\ UNCHANGED <<degraded, tlb>>
    <3>1. Last = Len(targets)
      BY <2>4 DEF Last, Starting
    <3> QED BY <1>5, <2>1, <2>4, <3>1 DEF ActiveInv
  <2> QED BY <1>5, <2>2, <2>3, <2>4, ReleasedSteps
<1>6. ASSUME pending' # {} PROVE pc' = "open" /\ ~degraded'
  <2>1. pc = "open" /\ ~degraded
    <3>1. CASE Broadcast
      <4>1. PICK s \in Slots \ {0} : tlb[s].active
        BY <3>1, OthersActive DEF Broadcast
      <4>2. pc \in Released /\ ~degraded
        BY <4>1 DEF ActiveInv
      <4> QED BY <3>1, <4>2 DEF Broadcast, Released
    <3>2. CASE pending' \subseteq pending
      BY <1>6, <3>2 DEF ActiveInv
    <3> QED BY <3>1, <3>2, ReleasedSteps
  <2> QED BY <2>1, ReleasedSteps DEF bspVars
<1> QED BY <1>2, <1>3, <1>4, <1>5, <1>6 DEF ActiveInv

LEMMA ShootdownStep ==
  ASSUME BspTypes, TableTypes, ApTypes, CounterInv, PageSlotInv, StartedInv, TableInv, UpInv,
         ShootdownInv, [Next]_vars
  PROVE  ShootdownInv'
<1>1. ActiveInv'
  BY ActiveStep
<1>2. ASSUME NEW a \in pending' PROVE stage'[a] \in Enabling /\ InActiveSet(a)'
  <2>1. pending' # {}
    BY <1>2
  <2>2. pc = "open" /\ ~degraded /\ UNCHANGED <<targets, tlb>>
    <3>1. pc = "open" /\ ~degraded
      <4>1. CASE Broadcast
        <5>1. PICK s \in Slots \ {0} : tlb[s].active
          BY <4>1, OthersActive DEF Broadcast
        <5>2. pc \in Released /\ ~degraded
          BY <5>1 DEF ActiveInv, ShootdownInv
        <5> QED BY <4>1, <5>2 DEF Broadcast, Released
      <4>2. CASE pending' \subseteq pending
        BY <2>1, <4>2 DEF ActiveInv, ShootdownInv
      <4> QED BY <4>1, <4>2, ReleasedSteps
    <3> QED BY <3>1, ReleasedSteps DEF bspVars
  <2>3. CASE Broadcast
    <3>1. a \in ApIds /\ stage[a] # "off" /\ stage' = stage
      BY <1>2, <2>3 DEF Broadcast, apVars
    <3>2. Healthy
      BY <2>2, HealthyReleased DEF Released
    <3>3. PICK k \in 1 .. page.slot : k \in Slots /\ Has(a, k)
      BY <3>1, <3>2, StartedHas
    <3>4. k \in 1 .. Last /\ k # 0
      BY <3>2, <3>3, HasSlot DEF Has
    <3>5. tlb[k].active
      BY <2>2, <3>4 DEF ShootdownInv, ActiveInv
    <3>6. PICK b \in ApIds : Has(b, k) /\ stage[b] \in Enabling
      BY <3>3, <3>4, <3>5 DEF ShootdownInv, ActiveInv
    <3>7. b = a
      BY <3>3, <3>6 DEF Has
    <3>8. tlb[k].registered /\ tlb[k].apic = a
      BY <3>2, <3>3, <3>4 DEF TableInv, TableOK, Has
    <3> QED BY <2>2, <3>1, <3>3, <3>5, <3>6, <3>7, <3>8 DEF InActiveSet, ActiveSlots
  <2>4. CASE pending' \subseteq pending
    <3>1. stage[a] \in Enabling /\ InActiveSet(a) /\ a \in ApIds
      BY <1>2, <2>4 DEF ShootdownInv, ShootdownsAreAnswered, ApTypes
    <3>2. stage'[a] \in Enabling
      BY <3>1, UpStays DEF ShootdownInv
    <3> QED BY <2>2, <3>1, <3>2 DEF InActiveSet, ActiveSlots
  <2> QED BY <2>3, <2>4, ReleasedSteps
<1> QED BY <1>1, <1>2 DEF ShootdownInv, ShootdownsAreAnswered

\* All of it.
StrongInv ==
  /\ ReleasedInv
  /\ PageSlotInv /\ ReaderInv /\ StartedInv /\ StackInv
  /\ TableInv /\ PathInv /\ UpInv /\ ShootdownInv

LEMMA StrongInit == Init => StrongInv
<1> SUFFICES ASSUME Init PROVE StrongInv
  OBVIOUS
<1>1. pc = "start" /\ page = [stack |-> None, slot |-> 0] /\ ~Healthy
  BY DEF Init, Healthy, Starting, SmpReady
<1>2. ReleasedInv
  BY ReleasedInit
<1>3. PageSlotInv
  <2>1. TargetsOK
    BY <1>2, TargetsType DEF ReleasedInv
  <2> QED BY <1>1, <2>1 DEF PageSlotInv, Starting, SmpReady, TargetsOK
<1>4. ReaderInv /\ StartedInv
  BY DEF Init, ReaderInv, Reads, StartedInv
<1>5. StackInv
  BY <1>1 DEF Init, StackInv, OwnStacks
<1>6. TableInv /\ PathInv /\ UpInv
  BY <1>1 DEF Init, TableInv, PathInv, UpInv, CLEARED
<1>7. ShootdownInv
  BY DEF Init, ShootdownInv, ShootdownsAreAnswered, ActiveInv, TLB_CLEARED
<1> QED BY <1>2, <1>3, <1>4, <1>5, <1>6, <1>7 DEF StrongInv

LEMMA StrongStep == StrongInv /\ [Next]_vars => StrongInv'
<1> SUFFICES ASSUME StrongInv, [Next]_vars PROVE StrongInv'
  OBVIOUS
<1>1. ReleasedInv'
  BY ReleasedStep DEF StrongInv
<1>2. BspTypes /\ TableTypes /\ ApTypes /\ CounterInv
  BY DEF StrongInv, ReleasedInv
<1> QED
  BY <1>1, <1>2, PageSlotStep, ReaderStep, StartedStep, StackStep, TableStep, PathStep, UpStep,
     ShootdownStep DEF StrongInv, ShootdownInv

LEMMA StrongInvariance == Spec => []StrongInv
  BY StrongInit, StrongStep, PTL DEF Spec

-----------------------------------------------------------------------------
(* The theorems.                                                           *)

\* An AP's stack is its own, and not the PMM's: also that of an AP which the
\* BSP gave up and which takes it from the trampoline afterwards.
THEOREM StacksAreOwned == Spec => []OwnStacks
<1>1. StrongInv => OwnStacks
  BY DEF StrongInv, StackInv
<1> QED BY <1>1, StrongInvariance, PTL

\* smp_is_ready without the degraded flag means that every AP of the MADT is
\* parked or beyond, in the slot and on the stack that are its own.
THEOREM AllOrNothing == Spec => []SuccessMeansAllUp
<1>1. ASSUME StrongInv, SmpReady, ~degraded, NEW k \in 1 .. Len(targets)
      PROVE  LET a == targets[k] IN
             /\ stage[a] \in {"parked"} \cup Enabling
             /\ at[a] = k /\ cpu[k].apic = a
             /\ rsp[a] = cpu[k].stack /\ top[a] = cpu[k].stack
  <2>1. BspTypes /\ CounterInv /\ TableInv /\ PathInv /\ UpInv
    BY <1>1 DEF StrongInv, ReleasedInv
  <2>2. Healthy /\ Last = Len(targets)
    BY <1>1 DEF Healthy, SmpReady, Last, Starting
  <2>3. Has(targets[k], k)
    BY <2>2 DEF Has
  <2>4. targets[k] \in ApIds /\ k \in Slots /\ cpu[k].apic = targets[k]
    BY <2>1, <2>2, <2>3, HasSlot DEF TableInv, TableOK
  <2>5. stage[targets[k]] \in {"parked"} \cup Enabling
    BY <1>1, <2>1, <2>2, <2>3, <2>4 DEF UpInv, Passed
  <2>6. /\ at[targets[k]] = k
        /\ rsp[targets[k]] = cpu[k].stack /\ top[targets[k]] = cpu[k].stack
    BY <2>1, <2>2, <2>3, <2>4, <2>5 DEF PathInv, OnPath, InSlot, AtSlot, Enabling
  <2> QED BY <2>4, <2>5, <2>6
<1>2. StrongInv => SuccessMeansAllUp
  BY <1>1 DEF SuccessMeansAllUp
<1> QED BY <1>2, StrongInvariance, PTL

\* No shootdown waits for a parked AP or reaches one outside the active set.
THEOREM NoShootdownHangs == Spec => []ShootdownsAreAnswered
<1>1. StrongInv => ShootdownsAreAnswered
  BY DEF StrongInv, ShootdownInv
<1> QED BY <1>1, StrongInvariance, PTL

=============================================================================
