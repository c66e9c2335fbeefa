---------------------------- MODULE PmmAllocator ----------------------------
(***************************************************************************)
(* The physical page allocator of the running kernel                       *)
(* (memory/pmm_allocator.sotlas over memory/pmm_bitmap.sotlas): one bitmap *)
(* per region of conventional memory, first-fit allocation, release of any *)
(* run, and the release of the latest allocation that also lowers the      *)
(* region's frontier.                                                      *)
(*                                                                         *)
(* Every call runs under one spinlock with interrupts masked, so it is one *)
(* step whichever processor or handler makes it; what is left to get wrong *)
(* is a long sequence of them.  Addresses are counted in pages, and the    *)
(* bitmaps are the set of the pages whose bit is set.                      *)
(***************************************************************************)
EXTENDS Naturals, FiniteSets

CONSTANTS Inventories,      \* inventories of conventional memory
          NumConventional,  \* their number of regions
          MaxRegions,       \* PMM_BOOTSTRAP_MAX_REGIONS
          MaxPages,         \* PMM_BOOTSTRAP_BITMAP_MAX_PAGES
          MinGeneral,       \* PMM_GENERAL_ALLOC_MIN_PHYSICAL
          MaxCount,         \* most pages a call asks for
          Constraints       \* alignment, highest page and boundary of requests

Conventional == 1 .. NumConventional
Counts == 1 .. MaxCount

ASSUME NumbersAssumption ==
  /\ NumConventional \in Nat /\ MaxRegions \in Nat
  /\ MaxPages \in Nat /\ MinGeneral \in Nat \ {0}
\* The firmware's descriptors do not overlap.
ASSUME InventoryAssumption ==
  \A m \in Inventories :
    /\ m \in [Conventional -> [base : Nat, size : Nat]]
    /\ \A i, j \in Conventional : i # j =>
         m[i].base + m[i].size <= m[j].base \/ m[j].base + m[j].size <= m[i].base
ASSUME RequestAssumption ==
  /\ MaxCount \in Nat /\ MaxCount >= 2
  /\ Constraints \subseteq [align : Nat \ {0}, max : Nat, boundary : Nat]

VARIABLES
  region,     \* PMM_REGION_BASES and PMM_REGION_ENDS
  state,      \* PMM_ALLOCATOR.state
  used,       \* pages whose bit is set in PMM_REGION_BITMAPS
  next,       \* PMM_REGION_NEXT
  allocated,  \* PMM_ALLOCATOR.allocated_pages
  last,       \* PMM_ALLOCATOR.last_*
  call,       \* the latest call and what it answered
  stage,      \* progress of activation and of its self test
  first,      \* local `first` of the self test
  second      \* its local `second`

testVars == <<stage, first, second>>
vars == <<region, state, used, next, allocated, last, call, testVars>>

\* The regions that get a bitmap, in the order of the inventory m, and how far
\* each is tracked.
PageCount(d) == IF d.size > MaxPages THEN MaxPages ELSE d.size
Trackable(d) == d.base # 0 /\ PageCount(d) >= 2
TrackedIn(m) ==
  {i \in Conventional :
     /\ Trackable(m[i])
     /\ Cardinality({j \in 1 .. i - 1 : Trackable(m[j])}) < MaxRegions}
RegionsOf(m) ==
  [i \in TrackedIn(m) |-> [base |-> m[i].base, end |-> m[i].base + PageCount(m[i])]]

NO_REGIONS == [i \in {} |-> 0]
Regions == DOMAIN region
Base(i) == region[i].base
End(i) == region[i].end
RegionPages(i) == Base(i) .. End(i) - 1
AllPages == UNION {RegionPages(i) : i \in Regions}

\* A region's first page is the sentinel of its bitmap, and low memory is not
\* published.
Reserved == {p \in AllPages : p < MinGeneral \/ \E i \in Regions : p = Base(i)}
Free == AllPages \ used
Out == used \ Reserved

Run(b, n) == b .. b + n - 1

\* base 0 stands for no allocation to give back in LIFO order.
NO_LAST == [base |-> 0, count |-> 0, previous |-> 0, region |-> 0]
LastRun == IF last.base = 0 THEN {} ELSE Run(last.base, last.count)
Call(k, n, run) == [kind |-> k, count |-> n, pages |-> run]
NO_CALL == Call("none", 0, {})

TestStages == {"alloc first", "alloc second", "free first", "alloc again",
               "free again", "free second"}
Stages == TestStages \cup {"off", "open", "failed"}

TypeOK ==
  /\ Regions \subseteq Conventional /\ region \in [Regions -> [base : Nat, end : Nat]]
  /\ state \in {"locked", "active", "exhausted"}
  /\ used \subseteq AllPages
  /\ next \in [Regions -> Nat]
  /\ allocated \in Nat
  /\ last \in [base : Nat, count : Nat, previous : Nat, region : Nat]
  /\ call \in [kind : {"none", "alloc", "aligned", "constrained", "free"},
               count : 0 .. MaxCount, pages : SUBSET AllPages]
  /\ stage \in Stages
  /\ first \in Nat /\ second \in Nat

Smaller(m, n) == IF m < n THEN m ELSE n
Larger(m, n) == IF m < n THEN n ELSE m

InitialNext == [i \in Regions |-> Smaller(Larger(Base(i) + 1, MinGeneral), End(i))]

Init ==
  /\ region = NO_REGIONS /\ state = "locked" /\ used = {} /\ next = NO_REGIONS
  /\ allocated = 0 /\ last = NO_LAST /\ call = NO_CALL
  /\ stage = "off" /\ first = 0 /\ second = 0

-----------------------------------------------------------------------------
(* Allocation.                                                             *)

Plain == [align |-> 1, max |-> 0, boundary |-> 0]

\* max 0 stands for PMM_PHYSICAL_ADDRESS_MAX.
Fits(q, b, n) ==
  /\ b % q.align = 0
  /\ q.max # 0 => b + n - 1 <= q.max
  /\ q.boundary # 0 => b \div q.boundary = (b + n - 1) \div q.boundary

\* The bases at which region i has a free run for the request.
FreeRuns(q, n, i) ==
  {b \in RegionPages(i) \ {Base(i)} :
     b + n <= End(i) /\ Fits(q, b, n) /\ Run(b, n) \cap used = {}}

FaultyIsFirstFit(q, n, i, b) ==
  /\ b \in FreeRuns(q, n, i) /\ b = next[i]
  /\ \A j \in Regions : j < i => next[j] \notin FreeRuns(q, n, j)
IsFirstFit(q, n, i, b) ==
  /\ b \in FreeRuns(q, n, i) /\ \A c \in FreeRuns(q, n, i) : b <= c
  /\ \A j \in Regions : j < i => FreeRuns(q, n, j) = {}

\* pmm_allocator_commit_allocation
FaultyCommit(i, b, n) ==
  /\ used' = used \cup Run(b, n)
  /\ next' = [next EXCEPT ![i] = b + n]
  /\ state' = "active" /\ allocated' = allocated + n
  /\ last' = [base |-> b, count |-> n, previous |-> next[i], region |-> i]
Commit(i, b, n) ==
  /\ used' = used \cup Run(b, n)
  /\ next' = [next EXCEPT ![i] = Larger(next[i], b + n)]
  /\ state' = "active"
  /\ allocated' = allocated + n
  /\ last' = [base |-> b, count |-> n, previous |-> next[i], region |-> i]

Granted(k, q, n) ==
  /\ state = "active"
  /\ \E i \in Regions : \E b \in RegionPages(i) :
       /\ IsFirstFit(q, n, i, b)
       /\ Commit(i, b, n)
       /\ call' = Call(k, n, Run(b, n))

\* pmm_allocator_note_failure_if_empty; a device's constraints leave the state
\* as it is.
FaultyStateAfterRefusal(k) ==
  IF k # "constrained" THEN "exhausted" ELSE state
StateAfterRefusal(k) ==
  IF k # "constrained" /\ \A i \in Regions : FreeRuns(Plain, 1, i) = {}
  THEN "exhausted" ELSE state

Refused(k, q, n) ==
  /\ \/ state # "active" /\ UNCHANGED state
     \/ /\ state = "active" /\ \A i \in Regions : FreeRuns(q, n, i) = {}
        /\ state' = StateAfterRefusal(k)
  /\ call' = Call(k, n, {})
  /\ UNCHANGED <<used, next, allocated, last>>

-----------------------------------------------------------------------------
(* Release.                                                                *)

\* What pmm_free_pages_locked asks of a run before it changes a bit.
FaultyMayFree(b, n) ==
  /\ state \in {"active", "exhausted"} /\ b >= MinGeneral
  /\ \E i \in Regions : b >= Base(i) /\ b + n <= End(i) /\ b # Base(i)
  /\ b \in used /\ allocated >= n
MayFree(b, n) ==
  /\ state \in {"active", "exhausted"}
  /\ b >= MinGeneral
  /\ \E i \in Regions : b >= Base(i) /\ b + n <= End(i) /\ b # Base(i)
  /\ Run(b, n) \subseteq used
  /\ allocated >= n

\* A release that touches the latest allocation withdraws its LIFO shortcut.
FaultyLastAfterFree(b, n) == IF b = last.base THEN NO_LAST ELSE last
LastAfterFree(b, n) ==
  IF /\ last.base # 0 /\ last.count # 0
     /\ b < last.base + last.count /\ b + n > last.base
  THEN NO_LAST ELSE last

FreeRun(b, n) ==
  /\ used' = used \ Run(b, n)
  /\ allocated' = allocated - n
  /\ state' = "active"
  /\ last' = LastAfterFree(b, n)
  /\ call' = Call("free", n, Run(b, n))

FreeRefused(n) ==
  /\ call' = Call("free", n, {})
  /\ UNCHANGED <<state, used, next, allocated, last>>

\* The frontier falls back when the released allocation had raised it.
LoweredNext(b, n) ==
  IF /\ last.region \in Regions /\ last.previous # 0
     /\ last.previous <= next[last.region] /\ b + n = next[last.region]
  THEN [next EXCEPT ![last.region] = last.previous] ELSE next

IsLast(b, n) == b = last.base /\ n = last.count

-----------------------------------------------------------------------------
(* Activation: the bitmaps, and the self test that must pass.              *)

Activate ==
  /\ stage = "off"
  /\ \E m \in Inventories :
       /\ TrackedIn(m) # {}
       /\ region' = RegionsOf(m)
  /\ state' = "active" /\ used' = Reserved' /\ next' = InitialNext'
  /\ stage' = "alloc first"
  /\ UNCHANGED <<allocated, last, call, first, second>>

\* The inventory has no region to track.
NoMemory ==
  /\ stage = "off" /\ \E m \in Inventories : TrackedIn(m) = {}
  /\ stage' = "failed"
  /\ UNCHANGED <<region, state, used, next, allocated, last, call, first, second>>

\* pmm_allocator_reset_locked after a failed test; the kernel stops.
Reset ==
  /\ state' = "locked" /\ used' = {} /\ region' = NO_REGIONS /\ next' = NO_REGIONS
  /\ allocated' = 0 /\ last' = NO_LAST /\ call' = NO_CALL
  /\ stage' = "failed" /\ UNCHANGED <<first, second>>

TwoPagesFit == \E i \in Regions : FreeRuns(Plain, 2, i) # {}

TestAllocFirst ==
  /\ stage = "alloc first" /\ Granted("alloc", Plain, 2)
  /\ first' = last'.base /\ stage' = "alloc second" /\ UNCHANGED second

TestAllocSecond ==
  /\ stage = "alloc second" /\ Granted("alloc", Plain, 2)
  /\ second' = last'.base /\ stage' = "free first" /\ UNCHANGED first

TestFreeFirst ==
  /\ stage = "free first" /\ MayFree(first, 2) /\ FreeRun(first, 2)
  /\ stage' = "alloc again" /\ UNCHANGED <<next, first, second>>

\* The run that was freed is the one to be found again.
TestAllocAgain ==
  /\ stage = "alloc again" /\ Granted("alloc", Plain, 2)
  /\ last'.base = first
  /\ stage' = "free again" /\ UNCHANGED <<first, second>>

TestFreeAgain ==
  /\ stage = "free again" /\ MayFree(first, 2) /\ FreeRun(first, 2)
  /\ stage' = "free second" /\ UNCHANGED <<next, first, second>>

TestFreeSecond ==
  /\ stage = "free second" /\ MayFree(second, 2) /\ FreeRun(second, 2)
  /\ allocated' = 0
  /\ stage' = "open" /\ UNCHANGED <<next, first, second>>

TestFails ==
  /\ \/ stage \in {"alloc first", "alloc second"} /\ ~TwoPagesFit
     \/ stage = "alloc again" /\ \A i \in Regions : ~IsFirstFit(Plain, 2, i, first)
     \/ stage \in {"free first", "free again"} /\ ~MayFree(first, 2)
     \/ stage = "free second" /\ ~(MayFree(second, 2) /\ allocated = 2)
  /\ Reset

SelfTest ==
  \/ TestAllocFirst \/ TestAllocSecond \/ TestFreeFirst
  \/ TestAllocAgain \/ TestFreeAgain \/ TestFreeSecond

-----------------------------------------------------------------------------
(* The calls of the rest of the kernel.                                    *)

Alloc(k, q, n) ==
  /\ Granted(k, q, n) \/ Refused(k, q, n)
  /\ UNCHANGED testVars

AllocPages(n) == Alloc("alloc", Plain, n)
AllocPagesAligned(q, n) == Alloc("aligned", [Plain EXCEPT !.align = q.align], n)
AllocPagesConstrained(q, n) == Alloc("constrained", q, n)

FreePages(b, n) ==
  /\ \/ MayFree(b, n) /\ FreeRun(b, n) /\ UNCHANGED next
     \/ ~MayFree(b, n) /\ FreeRefused(n)
  /\ UNCHANGED testVars

FreePagesLifo(b, n) ==
  /\ \/ IsLast(b, n) /\ MayFree(b, n) /\ FreeRun(b, n) /\ next' = LoweredNext(b, n)
     \/ ~(IsLast(b, n) /\ MayFree(b, n)) /\ FreeRefused(n)
  /\ UNCHANGED testVars

\* Before activation and after a failed one every call is refused.
KernelCalls ==
  /\ stage \in {"off", "open", "failed"}
  /\ \E n \in Counts :
       \/ AllocPages(n)
       \/ \E q \in Constraints : AllocPagesAligned(q, n) \/ AllocPagesConstrained(q, n)
       \/ \E b \in AllPages : FreePages(b, n) \/ FreePagesLifo(b, n)

Next ==
  \/ Activate \/ NoMemory \/ TestFails
  \/ (SelfTest \/ KernelCalls) /\ UNCHANGED region
Spec == Init /\ [][Next]_vars

-----------------------------------------------------------------------------
(* Properties.                                                             *)

\* The counter, which the kernel's leak checks compare, is exactly the number
\* of pages that are out, after any sequence of releases whole, partial or
\* across allocations; so `allocated < count` never refuses a release.
CountsPagesOut == allocated = Cardinality(Out)

\* Reserved pages never become free.
ReservedStaysUsed == Reserved \subseteq used

\* The frontier of a region is above every page of it that is out; what was
\* out before the latest allocation is below the frontier to fall back to.
FrontierIsHighWater ==
  \A i \in Regions : \A p \in Out \cap RegionPages(i) :
    /\ p < next[i]
    /\ last.base # 0 /\ i = last.region /\ p \notin LastRun => p < last.previous

\* The LIFO shortcut names an allocation that is out entirely, in its region:
\* releasing it is never refused and never a second release.
LastIsOut ==
  last.base # 0 => /\ LastRun \subseteq Out
                   /\ last.region \in Regions
                   /\ LastRun \subseteq RegionPages(last.region)

\* Activation only fails when the memory has no room for two runs of two pages.
TwoRunsFit ==
  \E i, j \in Regions : \E b \in RegionPages(i), c \in RegionPages(j) :
    /\ b + 2 <= c \/ i < j
    /\ b + 2 <= End(i) /\ c + 2 <= End(j)
    /\ (Run(b, 2) \cup Run(c, 2)) \cap Reserved = {}
TestFailsForRoomOnly == [][TestFails => ~TwoRunsFit]_vars

Allocator == INSTANCE PageAllocator WITH free <- Free, out <- Out
\* The bitmaps implement the allocator's contract: no page is out twice, only
\* runs that are out come back, and a plain request is refused, exhausted or
\* not, only when no run of its length is free.
ImplementsPageAllocator == Allocator!Spec
=============================================================================
