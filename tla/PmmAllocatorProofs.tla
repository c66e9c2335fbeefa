------------------------ MODULE PmmAllocatorProofs ------------------------
(***************************************************************************)
(* The page allocator keeps its books, and implements the contract of      *)
(* PageAllocator, for every inventory, region limit and sequence of calls. *)
(***************************************************************************)
EXTENDS PmmAllocator, FiniteSetTheorems, TLAPS

\* The types that the books need.
BooksTypeOK ==
  /\ Regions \subseteq Nat /\ region \in [Regions -> [base : Nat, end : Nat]]
  /\ state \in {"locked", "active", "exhausted"}
  /\ used \subseteq AllPages
  /\ next \in [Regions -> Nat]
  /\ allocated \in Nat
  /\ last \in [base : Nat, count : Nat, previous : Nat, region : Nat]
  /\ last.base # 0 => last.count # 0

\* Regions have a sentinel and another page, and do not overlap.
RegionsApart ==
  /\ \A i \in Regions : Base(i) >= 1 /\ End(i) >= Base(i) + 2
  /\ \A i, j \in Regions : i # j => End(i) <= Base(j) \/ End(j) <= Base(i)

\* Only an allocator without a free page calls itself exhausted, and one that
\* is closed has no regions.
StatesMeanWhatTheySay ==
  /\ state = "exhausted" => AllPages \subseteq used
  /\ state = "locked" => /\ region = NO_REGIONS /\ next = NO_REGIONS
                         /\ used = {} /\ allocated = 0 /\ last = NO_LAST
  /\ stage \in {"off", "failed"} => state = "locked"

Books ==
  /\ BooksTypeOK /\ RegionsApart /\ StatesMeanWhatTheySay
  /\ IsFiniteSet(Out) /\ CountsPagesOut /\ ReservedStaysUsed
  /\ FrontierIsHighWater /\ LastIsOut

bookVars == <<region, state, used, next, allocated, last>>

-----------------------------------------------------------------------------
(* Sets of pages.                                                          *)

LEMMA AddDisjoint ==
  ASSUME NEW S, IsFiniteSet(S), NEW T, IsFiniteSet(T), S \cap T = {}
  PROVE  /\ IsFiniteSet(S \cup T)
         /\ Cardinality(S \cup T) = Cardinality(S) + Cardinality(T)
<1>1. Cardinality(S) \in Nat /\ Cardinality(T) \in Nat
  BY FS_CardinalityType
<1> QED BY <1>1, FS_Union, FS_EmptySet

LEMMA RemovePart ==
  ASSUME NEW S, IsFiniteSet(S), NEW T \in SUBSET S
  PROVE  /\ IsFiniteSet(S \ T)
         /\ Cardinality(T) <= Cardinality(S)
         /\ Cardinality(S \ T) = Cardinality(S) - Cardinality(T)
<1>1. IsFiniteSet(T) /\ IsFiniteSet(S \ T) /\ Cardinality(T) <= Cardinality(S)
  BY FS_Subset
<1>2. (S \ T) \cup T = S /\ (S \ T) \cap T = {}
  OBVIOUS
<1>3. Cardinality(S) = Cardinality(S \ T) + Cardinality(T)
  BY <1>1, <1>2, AddDisjoint
<1>4. Cardinality(T) \in Nat /\ Cardinality(S \ T) \in Nat
  BY <1>1, FS_CardinalityType
<1> QED BY <1>1, <1>3, <1>4

LEMMA RunSize ==
  ASSUME NEW b \in Nat, NEW n \in Nat \ {0}
  PROVE  /\ IsFiniteSet(Run(b, n)) /\ Cardinality(Run(b, n)) = n
         /\ b \in Run(b, n) /\ Run(b, n) \subseteq Nat
<1>1. /\ IsFiniteSet(b .. b + n - 1)
      /\ Cardinality(b .. b + n - 1) = b + n - 1 - b + 1
  BY FS_Interval
<1> QED BY <1>1 DEF Run

\* A page lies in one region.
LEMMA OneRegion ==
  ASSUME BooksTypeOK, RegionsApart, NEW i \in Regions, NEW j \in Regions,
         NEW p \in RegionPages(i), p \in RegionPages(j)
  PROVE  i = j
BY DEF BooksTypeOK, RegionsApart, RegionPages, Base, End

\* The run that an allocation takes is free, and not reserved.
LEMMA GrantedRun ==
  ASSUME Books, NEW q, NEW n \in Nat \ {0}, NEW i \in Regions, NEW b \in FreeRuns(q, n, i)
  PROVE  /\ b \in Nat \ {0} /\ b + n <= End(i) /\ b > Base(i)
         /\ Run(b, n) \subseteq RegionPages(i)
         /\ Run(b, n) \subseteq Free
         /\ Run(b, n) \cap Reserved = {}
<1>1. b \in RegionPages(i) /\ b # Base(i) /\ b + n <= End(i) /\ Run(b, n) \cap used = {}
  BY DEF FreeRuns
<1>2. Base(i) \in Nat /\ End(i) \in Nat /\ Base(i) >= 1
  BY DEF Books, BooksTypeOK, RegionsApart, Base, End
<1>3. b \in Nat \ {0} /\ b > Base(i)
  BY <1>1, <1>2 DEF RegionPages
<1>4. Run(b, n) \subseteq RegionPages(i)
  BY <1>1, <1>2, <1>3 DEF RegionPages, Run
<1>5. Run(b, n) \subseteq AllPages
  BY <1>4 DEF AllPages
<1> QED BY <1>1, <1>3, <1>4, <1>5 DEF Free, Books, ReservedStaysUsed

\* A run that may be released is out.
LEMMA FreedRun ==
  ASSUME Books, NEW b \in Nat, NEW n \in Nat \ {0}, MayFree(b, n)
  PROVE  Run(b, n) \subseteq Out
<1>1. PICK i \in Regions : b >= Base(i) /\ b + n <= End(i) /\ b # Base(i)
  BY DEF MayFree
<1>2. Base(i) \in Nat /\ End(i) \in Nat /\ MinGeneral \in Nat
  BY NumbersAssumption DEF Books, BooksTypeOK, Base, End
<1>3. ASSUME NEW p \in Run(b, n) PROVE p \notin Reserved
  <2>1. p \in RegionPages(i) /\ p > Base(i) /\ p >= MinGeneral /\ p \in Nat
    BY <1>1, <1>2 DEF Run, RegionPages, MayFree
  <2>2. ASSUME NEW j \in Regions PROVE p # Base(j)
    <3>1. Base(j) \in RegionPages(j)
      BY DEF Books, BooksTypeOK, RegionsApart, RegionPages, Base, End
    <3> QED BY <2>1, <3>1, OneRegion DEF Books
  <2> QED BY <1>2, <2>1, <2>2 DEF Reserved
<1> QED BY <1>3 DEF MayFree, Out

\* An exhausted or closed allocator, and an active one that has no run for a
\* plain request in any region, has none at all: a run of free pages never
\* crosses from a region into the next, whose first page is its sentinel.
LEMMA NoRunLeft ==
  ASSUME Books, NEW n \in Nat \ {0}, NEW b \in Free, Run(b, n) \subseteq Free
  PROVE  \E i \in Regions : b \in FreeRuns(Plain, n, i)
<1>1. PICK i \in Regions : b \in RegionPages(i)
  BY DEF Free, AllPages
<1>2. Base(i) \in Nat /\ End(i) \in Nat /\ b \in Nat /\ b < End(i)
  BY <1>1 DEF Books, BooksTypeOK, Base, End, RegionPages
<1>3. b # Base(i)
  BY <1>1 DEF Free, Books, ReservedStaysUsed, Reserved
<1>4. b + n <= End(i)
  <2> SUFFICES ASSUME b + n > End(i) PROVE FALSE
    BY <1>2
  <2>1. End(i) \in Run(b, n)
    BY <1>2 DEF Run
  <2>2. PICK j \in Regions : End(i) \in RegionPages(j)
    BY <2>1 DEF Free, AllPages
  <2>3. Base(j) \in Nat /\ End(j) \in Nat /\ Base(j) <= End(i) /\ End(i) < End(j)
    BY <1>2, <2>2 DEF RegionPages, Books, BooksTypeOK, Base, End
  <2>4. End(i) = Base(j)
    BY <1>2, <2>3 DEF Books, RegionsApart
  <2>5. End(i) \in Reserved
    BY <2>1, <2>4 DEF Reserved, Free
  <2> QED BY <2>1, <2>5 DEF Free, Books, ReservedStaysUsed
<1>5. Fits(Plain, b, n)
  BY <1>2 DEF Fits, Plain
<1>6. Run(b, n) \cap used = {}
  BY DEF Free
<1> QED BY <1>1, <1>3, <1>4, <1>5, <1>6 DEF FreeRuns

-----------------------------------------------------------------------------
(* What the steps do to the books.                                         *)

\* With the regions as they are, so are the pages and the reserved ones.
LEMMA SamePages ==
  ASSUME region' = region
  PROVE  /\ Regions' = Regions /\ AllPages' = AllPages /\ Reserved' = Reserved
         /\ \A i : /\ Base(i)' = Base(i) /\ End(i)' = End(i)
                   /\ RegionPages(i)' = RegionPages(i)
         /\ RegionsApart => RegionsApart'
BY DEF Regions, AllPages, Reserved, Base, End, RegionPages, RegionsApart

LEMMA CommitKeepsBooks ==
  ASSUME Books, region' = region, state = "active", stage' \notin {"off", "failed"},
         NEW q, NEW n \in Nat \ {0}, NEW i \in Regions, NEW b \in FreeRuns(q, n, i),
         Commit(i, b, n)
  PROVE  Books'
<1> DEFINE R == Run(b, n)
<1>1. /\ b \in Nat \ {0} /\ b + n <= End(i) /\ b > Base(i)
      /\ R \subseteq RegionPages(i) /\ R \subseteq Free /\ R \cap Reserved = {}
  BY GrantedRun
<1>2. /\ IsFiniteSet(R) /\ Cardinality(R) = n /\ R \subseteq Nat
  BY <1>1, RunSize
<1>3. /\ Regions' = Regions /\ AllPages' = AllPages /\ Reserved' = Reserved
      /\ \A j : RegionPages(j)' = RegionPages(j)
      /\ RegionsApart'
  BY SamePages DEF Books
<1>4. Out' = Out \cup R /\ Out \cap R = {}
  BY <1>1, <1>3 DEF Out, Free, Commit
<1>5. LastRun' = R
  BY <1>1 DEF LastRun, Commit, Run
<1>6. /\ last'.base = b /\ last'.count = n /\ last'.region = i
      /\ last'.previous = next[i]
      /\ last' \in [base : Nat, count : Nat, previous : Nat, region : Nat]
  BY <1>1 DEF Commit, Books, BooksTypeOK
<1>7. /\ \A j \in Regions : next'[j] = IF j = i THEN Larger(next[i], b + n) ELSE next[j]
      /\ next' \in [Regions -> Nat]
  BY <1>1 DEF Commit, Books, BooksTypeOK, Larger
<1> HIDE DEF R
<1>8. BooksTypeOK'
  BY <1>1, <1>3, <1>6, <1>7 DEF Books, BooksTypeOK, Commit, Free, R
<1>9. StatesMeanWhatTheySay'
  BY DEF StatesMeanWhatTheySay, Commit
<1>10. IsFiniteSet(Out') /\ CountsPagesOut'
  BY <1>2, <1>4, AddDisjoint DEF Books, CountsPagesOut, Commit
<1>11. ReservedStaysUsed'
  BY <1>3 DEF Books, ReservedStaysUsed, Commit
<1>12. LastIsOut'
  BY <1>1, <1>3, <1>4, <1>5, <1>6 DEF LastIsOut
<1>13. FrontierIsHighWater'
  <2> SUFFICES ASSUME NEW j \in Regions, NEW p \in Out' \cap RegionPages(j)
               PROVE  /\ p < next'[j]
                      /\ j = i /\ p \notin R => p < next[i]
    BY <1>3, <1>5, <1>6 DEF FrontierIsHighWater
  <2>1. next[j] \in Nat /\ next[i] \in Nat /\ p \in Nat
    BY DEF Books, BooksTypeOK, RegionPages, Base, End
  <2>2. CASE p \in Out
    <3>1. p < next[j]
      BY <2>2 DEF Books, FrontierIsHighWater
    <3> QED BY <1>1, <1>7, <2>1, <3>1 DEF Larger
  <2>3. CASE p \in R
    <3>1. j = i
      BY <1>1, <2>3, OneRegion DEF Books
    <3>2. p < b + n
      BY <1>1, <2>3 DEF R, Run
    <3> QED BY <1>1, <1>7, <2>1, <2>3, <3>1, <3>2 DEF Larger
  <2> QED BY <1>4, <2>2, <2>3
<1> QED BY <1>3, <1>8, <1>9, <1>10, <1>11, <1>12, <1>13 DEF Books

\* Both releases: `next` stays, or falls back after the latest allocation.
LEMMA ReleaseKeepsBooks ==
  ASSUME Books, region' = region, stage' \notin {"off", "failed"},
         NEW b \in Nat, NEW n \in Nat \ {0}, MayFree(b, n), FreeRun(b, n),
         \/ next' = next
         \/ IsLast(b, n) /\ next' = LoweredNext(b, n)
  PROVE  Books'
<1> DEFINE R == Run(b, n)
<1>1. /\ IsFiniteSet(R) /\ Cardinality(R) = n /\ R \subseteq Out /\ b \in R
  BY RunSize, FreedRun
<1>2. /\ Regions' = Regions /\ AllPages' = AllPages /\ Reserved' = Reserved
      /\ \A j : RegionPages(j)' = RegionPages(j)
      /\ RegionsApart'
  BY SamePages DEF Books
<1>3. Out' = Out \ R
  BY <1>2 DEF Out, FreeRun
<1>4. \/ last' = NO_LAST
      \/ last' = last /\ (last.base # 0 => R \cap LastRun = {})
  BY DEF FreeRun, LastAfterFree, R, Run, LastRun, Books, BooksTypeOK
<1>5. IsLast(b, n) /\ last.base # 0 => last' = NO_LAST /\ R = LastRun
  BY DEF IsLast, FreeRun, LastAfterFree, R, Run, LastRun, Books, BooksTypeOK
<1>6. b # 0
  BY NumbersAssumption DEF MayFree
<1>7. next' \in [Regions -> Nat]
  BY DEF LoweredNext, Books, BooksTypeOK
<1> HIDE DEF R
<1>8. BooksTypeOK'
  BY <1>2, <1>4, <1>7 DEF Books, BooksTypeOK, FreeRun, MayFree, NO_LAST
<1>9. StatesMeanWhatTheySay'
  BY DEF StatesMeanWhatTheySay, FreeRun
<1>10. IsFiniteSet(Out') /\ CountsPagesOut'
  BY <1>1, <1>3, RemovePart DEF Books, CountsPagesOut, FreeRun
<1>11. ReservedStaysUsed'
  BY <1>1, <1>2 DEF Books, ReservedStaysUsed, FreeRun, R, Out
<1>12. LastRun' = IF last' = NO_LAST THEN {} ELSE LastRun
  BY <1>4 DEF LastRun, NO_LAST
<1>13. LastIsOut'
  BY <1>2, <1>3, <1>4, <1>12 DEF Books, LastIsOut, NO_LAST
<1>14. FrontierIsHighWater'
  <2> SUFFICES ASSUME NEW j \in Regions, NEW p \in Out' \cap RegionPages(j)
               PROVE  /\ p < next'[j]
                      /\ last'.base # 0 /\ j = last'.region /\ p \notin LastRun'
                           => p < last'.previous
    BY <1>2 DEF FrontierIsHighWater
  <2>1. /\ p < next[j]
        /\ last.base # 0 /\ j = last.region /\ p \notin LastRun => p < last.previous
        /\ p \in Out /\ p \notin R
    BY <1>3 DEF Books, FrontierIsHighWater
  <2>2. p < next'[j]
    <3>1. CASE next' = next
      BY <2>1, <3>1
    <3>2. CASE IsLast(b, n) /\ next' = LoweredNext(b, n)
      <4>1. last.base # 0 /\ R = LastRun
        BY <1>5, <1>6, <3>2 DEF IsLast
      <4> QED BY <2>1, <3>2, <4>1 DEF LoweredNext, Books, BooksTypeOK
    <3> QED BY <3>1, <3>2
  <2>3. last'.base # 0 => last' = last /\ LastRun' = LastRun
    BY <1>4, <1>12 DEF NO_LAST
  <2> QED BY <2>1, <2>2, <2>3
<1> QED BY <1>2, <1>8, <1>9, <1>10, <1>11, <1>13, <1>14 DEF Books

\* A refused call changes no book, but may notice that nothing is left.
LEMMA RefusalKeepsBooks ==
  ASSUME Books, UNCHANGED <<region, used, next, allocated, last, stage>>,
         NEW k, \/ state' = state
                \/ state = "active" /\ state' = StateAfterRefusal(k)
  PROVE  Books'
<1>1. \/ state' = state
      \/ state = "active" /\ state' = "exhausted" /\ AllPages \subseteq used
  <2> SUFFICES ASSUME \A i \in Regions : FreeRuns(Plain, 1, i) = {}
               PROVE  AllPages \subseteq used
    BY DEF StateAfterRefusal
  <2> SUFFICES ASSUME NEW p \in Free PROVE FALSE
    BY DEF Free
  <2>1. p \in Nat
    BY DEF Free, AllPages, RegionPages, Books, BooksTypeOK, Base, End
  <2>2. Run(p, 1) = {p}
    BY <2>1 DEF Run
  <2> QED BY <2>2, NoRunLeft
<1>2. /\ Regions' = Regions /\ AllPages' = AllPages /\ Reserved' = Reserved
      /\ \A i : /\ Base(i)' = Base(i) /\ End(i)' = End(i)
                /\ RegionPages(i)' = RegionPages(i)
      /\ RegionsApart'
  BY SamePages DEF Books
<1>3. Out' = Out /\ LastRun' = LastRun
  BY <1>2 DEF Out, LastRun
<1>4. BooksTypeOK' /\ StatesMeanWhatTheySay'
  BY <1>1, <1>2 DEF Books, BooksTypeOK, StatesMeanWhatTheySay
<1>5. CountsPagesOut' /\ ReservedStaysUsed' /\ FrontierIsHighWater' /\ LastIsOut'
  BY <1>2, <1>3 DEF Books, CountsPagesOut, ReservedStaysUsed, FrontierIsHighWater, LastIsOut
<1> QED BY <1>2, <1>3, <1>4, <1>5 DEF Books

LEMMA NoPages ==
  ASSUME region = NO_REGIONS PROVE Regions = {} /\ AllPages = {} /\ Reserved = {}
<1>1. Regions = {}
  BY DEF NO_REGIONS, Regions
<1> QED BY <1>1 DEF AllPages, Reserved

\* Without regions nothing is in or out.
Closed ==
  /\ region = NO_REGIONS /\ state = "locked" /\ next = NO_REGIONS
  /\ used = {} /\ allocated = 0 /\ last = NO_LAST

LEMMA ClosedBooks == Closed => Books
<1> SUFFICES ASSUME Closed PROVE Books
  OBVIOUS
<1> USE DEF Closed
<1>1. Regions = {} /\ AllPages = {} /\ Reserved = {}
  BY NoPages
<1>2. Out = {}
  BY DEF Out
<1>3. BooksTypeOK
  <2>1. region \in [Regions -> [base : Nat, end : Nat]] /\ next \in [Regions -> Nat]
    BY <1>1 DEF NO_REGIONS
  <2> QED BY <1>1, <2>1 DEF BooksTypeOK, NO_LAST
<1>4. RegionsApart /\ StatesMeanWhatTheySay /\ FrontierIsHighWater
  BY <1>1 DEF RegionsApart, StatesMeanWhatTheySay, FrontierIsHighWater
<1>5. IsFiniteSet(Out) /\ CountsPagesOut
  BY <1>2, FS_EmptySet DEF CountsPagesOut
<1>6. ReservedStaysUsed /\ LastIsOut
  BY <1>1 DEF ReservedStaysUsed, LastIsOut, NO_LAST
<1> QED BY <1>3, <1>4, <1>5, <1>6 DEF Books

\* The regions that activation sets up.
LEMMA TrackedRegions ==
  ASSUME NEW m \in Inventories
  PROVE  LET r == RegionsOf(m) IN
         /\ DOMAIN r \subseteq Conventional /\ Conventional \subseteq Nat
         /\ r \in [DOMAIN r -> [base : Nat, end : Nat]]
         /\ \A i \in DOMAIN r : r[i].base >= 1 /\ r[i].end >= r[i].base + 2
         /\ \A i, j \in DOMAIN r :
              i # j => r[i].end <= r[j].base \/ r[j].end <= r[i].base
<1> DEFINE r == RegionsOf(m)
<1>1. /\ m \in [Conventional -> [base : Nat, size : Nat]]
      /\ \A i, j \in Conventional : i # j =>
           m[i].base + m[i].size <= m[j].base \/ m[j].base + m[j].size <= m[i].base
  BY InventoryAssumption
<1>2. DOMAIN r = TrackedIn(m) /\ TrackedIn(m) \subseteq Conventional
  BY DEF RegionsOf, TrackedIn
<1>3. Conventional \subseteq Nat
  BY NumbersAssumption DEF Conventional
<1>4. ASSUME NEW i \in TrackedIn(m)
      PROVE  /\ r[i] = [base |-> m[i].base, end |-> m[i].base + PageCount(m[i])]
             /\ m[i].base \in Nat \ {0} /\ PageCount(m[i]) \in Nat
             /\ PageCount(m[i]) >= 2 /\ PageCount(m[i]) <= m[i].size /\ m[i].size \in Nat
  BY <1>1, <1>2, NumbersAssumption DEF RegionsOf, TrackedIn, Trackable, PageCount
<1>5. \A i \in TrackedIn(m) : /\ r[i].base = m[i].base
                              /\ r[i].end = m[i].base + PageCount(m[i])
                              /\ r[i] \in [base : Nat, end : Nat]
  <2> SUFFICES ASSUME NEW i \in TrackedIn(m)
               PROVE  /\ r[i].base = m[i].base /\ r[i].end = m[i].base + PageCount(m[i])
                      /\ r[i] \in [base : Nat, end : Nat]
    OBVIOUS
  <2> DEFINE low == m[i].base
             high == m[i].base + PageCount(m[i])
  <2>1. r[i] = [base |-> low, end |-> high] /\ low \in Nat /\ high \in Nat
    BY <1>4
  <2> HIDE DEF r, low, high
  <2>2. r[i].base = low /\ r[i].end = high /\ r[i] \in [base : Nat, end : Nat]
    BY <2>1
  <2> QED BY <2>2 DEF low, high
<1>6. r \in [DOMAIN r -> [base : Nat, end : Nat]]
  BY <1>2, <1>5 DEF RegionsOf
<1>7. ASSUME NEW i \in TrackedIn(m), NEW j \in TrackedIn(m), i # j
      PROVE  r[i].end <= r[j].base \/ r[j].end <= r[i].base
  BY <1>1, <1>2, <1>4, <1>5, <1>7
<1> QED BY <1>2, <1>3, <1>4, <1>5, <1>6, <1>7

LEMMA ActivationOpensBooks ==
  ASSUME Books, Activate
  PROVE  Books'
<1>1. PICK m \in Inventories : region' = RegionsOf(m)
  BY DEF Activate
<1>2. /\ Regions' \subseteq Nat /\ region' \in [Regions' -> [base : Nat, end : Nat]]
      /\ RegionsApart'
  BY <1>1, TrackedRegions DEF Regions, RegionsApart, Base, End
<1>3. allocated = 0 /\ last = NO_LAST
  BY DEF Activate, Books, StatesMeanWhatTheySay
<1>4. Reserved' \subseteq AllPages'
  BY DEF Reserved
<1>5. next' \in [Regions' -> Nat]
  <2>1. ASSUME NEW i \in Regions'
        PROVE  Smaller(Larger(region'[i].base + 1, MinGeneral), region'[i].end) \in Nat
    BY <1>2, NumbersAssumption DEF Smaller, Larger
  <2> QED BY <2>1 DEF Activate, InitialNext, Base, End
<1>6. BooksTypeOK'
  BY <1>2, <1>3, <1>4, <1>5 DEF BooksTypeOK, Activate, NO_LAST
<1>7. StatesMeanWhatTheySay'
  BY DEF StatesMeanWhatTheySay, Activate
<1>8. Out' = {}
  BY DEF Out, Activate
<1>9. IsFiniteSet(Out') /\ CountsPagesOut'
  BY <1>3, <1>8, FS_EmptySet DEF CountsPagesOut, Activate
<1>10. ReservedStaysUsed' /\ FrontierIsHighWater' /\ LastIsOut'
  BY <1>3, <1>8 DEF ReservedStaysUsed, FrontierIsHighWater, LastIsOut, Activate, NO_LAST
<1> QED BY <1>2, <1>6, <1>7, <1>9, <1>10 DEF Books

-----------------------------------------------------------------------------
(* The books are kept by every step.                                       *)

LEMMA GrantKeepsBooks ==
  ASSUME Books, region' = region, stage' \notin {"off", "failed"},
         NEW k, NEW q, NEW n \in Nat \ {0}, Granted(k, q, n)
  PROVE  Books'
<1>1. PICK i \in Regions : \E b \in RegionPages(i) : IsFirstFit(q, n, i, b) /\ Commit(i, b, n)
  BY DEF Granted
<1>2. PICK b : b \in FreeRuns(q, n, i) /\ Commit(i, b, n)
  BY <1>1 DEF IsFirstFit
<1> QED BY <1>2, CommitKeepsBooks DEF Granted

\* Nothing happens to the books.
LEMMA StutterKeepsBooks ==
  ASSUME Books, UNCHANGED bookVars, stage' \in {"off", "failed"} => stage = "off" \/ stage' = stage
  PROVE  Books'
<1>1. /\ Regions' = Regions /\ AllPages' = AllPages /\ Reserved' = Reserved
      /\ \A i : /\ Base(i)' = Base(i) /\ End(i)' = End(i)
                /\ RegionPages(i)' = RegionPages(i)
      /\ RegionsApart'
  BY SamePages DEF Books, bookVars
<1>2. Out' = Out /\ LastRun' = LastRun
  BY <1>1 DEF Out, LastRun, bookVars
<1>3. BooksTypeOK' /\ StatesMeanWhatTheySay'
  BY <1>1 DEF Books, BooksTypeOK, StatesMeanWhatTheySay, bookVars
<1>4. CountsPagesOut' /\ ReservedStaysUsed' /\ FrontierIsHighWater' /\ LastIsOut'
  BY <1>1, <1>2
     DEF Books, CountsPagesOut, ReservedStaysUsed, FrontierIsHighWater, LastIsOut, bookVars
<1> QED BY <1>1, <1>2, <1>3, <1>4 DEF Books

LEMMA ResetClosesBooks ==
  ASSUME Reset PROVE Books'
<1>1. Closed'
  BY DEF Reset, Closed
<1> QED BY <1>1, ClosedBooks, PTL

\* Every step is one of the allocator's moves.
LEMMA SelfTestKeepsBooks ==
  ASSUME Books, SelfTest, region' = region, first \in Nat, second \in Nat
  PROVE  Books'
<1>1. 2 \in Nat \ {0} /\ stage' \notin {"off", "failed"}
  <2>1. \/ stage' = "alloc second" \/ stage' = "free first" \/ stage' = "alloc again"
        \/ stage' = "free again" \/ stage' = "free second" \/ stage' = "open"
    BY Zenon DEF SelfTest, TestAllocFirst, TestAllocSecond, TestAllocAgain, TestFreeFirst,
                 TestFreeAgain, TestFreeSecond
  <2>2. stage' \notin {"off", "failed"}
    BY <2>1
  <2>3. 2 \in Nat \ {0}
    OBVIOUS
  <2> QED BY <2>2, <2>3
<1>2. CASE Granted("alloc", Plain, 2)
  <2> DEFINE k == "alloc"
             n == 2
  <2>1. Granted(k, Plain, n) /\ n \in Nat \ {0}
    BY <1>1, <1>2
  <2> HIDE DEF k, n
  <2> QED BY <1>1, <2>1, GrantKeepsBooks
<1>3. CASE \E b \in {first, second} : MayFree(b, 2) /\ FreeRun(b, 2) /\ next' = next
  <2>1. PICK b \in {first, second} : MayFree(b, 2) /\ FreeRun(b, 2) /\ next' = next
    BY <1>3
  <2> QED BY <1>1, <2>1, ReleaseKeepsBooks
<1> QED
  <2>1. CASE TestAllocFirst \/ TestAllocSecond \/ TestAllocAgain
    BY <1>2, <2>1 DEF TestAllocFirst, TestAllocSecond, TestAllocAgain
  <2>2. CASE TestFreeFirst \/ TestFreeAgain \/ TestFreeSecond
    BY <1>3, <2>2 DEF TestFreeFirst, TestFreeAgain, TestFreeSecond
  <2> QED BY <2>1, <2>2 DEF SelfTest

LEMMA AllocKeepsBooks ==
  ASSUME Books, region' = region, NEW k, NEW q, NEW n \in Nat \ {0}, Alloc(k, q, n)
  PROVE  Books'
<1>1. CASE Granted(k, q, n)
  <2>1. stage' \notin {"off", "failed"}
    BY <1>1 DEF Granted, Alloc, testVars, Books, StatesMeanWhatTheySay
  <2> QED BY <1>1, <2>1, GrantKeepsBooks
<1>2. CASE Refused(k, q, n)
  BY <1>2, RefusalKeepsBooks DEF Refused, Alloc, testVars
<1> QED BY <1>1, <1>2 DEF Alloc

LEMMA FreeKeepsBooks ==
  ASSUME Books, region' = region, NEW b \in Nat, NEW n \in Nat \ {0},
         FreePages(b, n) \/ FreePagesLifo(b, n)
  PROVE  Books'
<1>1. CASE FreeRefused(n)
  BY <1>1, StutterKeepsBooks DEF FreeRefused, FreePages, FreePagesLifo, testVars, bookVars
<1>2. CASE MayFree(b, n) /\ FreeRun(b, n)
  <2>1. stage' \notin {"off", "failed"}
    BY <1>2 DEF MayFree, FreePages, FreePagesLifo, testVars, Books, StatesMeanWhatTheySay
  <2>2. \/ next' = next
        \/ IsLast(b, n) /\ next' = LoweredNext(b, n)
        \/ FreeRefused(n)
    BY DEF FreePages, FreePagesLifo
  <2> QED BY <1>1, <1>2, <2>1, <2>2, ReleaseKeepsBooks
<1> QED BY <1>1, <1>2 DEF FreePages, FreePagesLifo

LEMMA CallsKeepBooks ==
  ASSUME Books, region' = region, KernelCalls
  PROVE  Books'
<1>1. Counts \subseteq Nat \ {0} /\ AllPages \subseteq Nat
  BY DEF Counts, AllPages, RegionPages, Books, BooksTypeOK, Base, End
<1>2. ASSUME NEW n \in Counts, AllocPages(n) PROVE Books'
  BY <1>1, <1>2, AllocKeepsBooks DEF AllocPages
<1>3. ASSUME NEW n \in Counts, NEW q \in Constraints,
             AllocPagesAligned(q, n) \/ AllocPagesConstrained(q, n)
      PROVE  Books'
  BY <1>1, <1>3, AllocKeepsBooks DEF AllocPagesAligned, AllocPagesConstrained
<1>4. ASSUME NEW n \in Counts, NEW b \in AllPages, FreePages(b, n) \/ FreePagesLifo(b, n)
      PROVE  Books'
  BY <1>1, <1>4, FreeKeepsBooks
<1> QED BY <1>2, <1>3, <1>4 DEF KernelCalls

LEMMA BooksStep ==
  Books /\ first \in Nat /\ second \in Nat /\ [Next]_vars => Books'
<1> SUFFICES ASSUME Books, first \in Nat, second \in Nat, [Next]_vars PROVE Books'
  OBVIOUS
<1>1. CASE Activate
  BY <1>1, ActivationOpensBooks
<1>2. CASE NoMemory
  BY <1>2, StutterKeepsBooks DEF NoMemory, bookVars
<1>3. CASE TestFails
  BY <1>3, ResetClosesBooks DEF TestFails
<1>4. CASE SelfTest /\ UNCHANGED region
  BY <1>4, SelfTestKeepsBooks
<1>5. CASE KernelCalls /\ UNCHANGED region
  BY <1>5, CallsKeepBooks
<1>6. CASE UNCHANGED vars
  BY <1>6, StutterKeepsBooks DEF vars, bookVars, testVars
<1> QED BY <1>1, <1>2, <1>3, <1>4, <1>5, <1>6 DEF Next

-----------------------------------------------------------------------------
(* The rest of the types.                                                  *)

\* The calls that steps record, with the pages they move.
Kinds == {"none", "alloc", "aligned", "constrained", "free"}
CallOK == call \in [kind : Kinds, count : 0 .. MaxCount, pages : SUBSET AllPages]
RestTypeOK ==
  /\ Regions \subseteq Conventional /\ CallOK
  /\ stage \in Stages /\ first \in Nat /\ second \in Nat

LEMMA GrantCall ==
  ASSUME Books, region' = region, NEW k \in Kinds, NEW q, NEW n \in Nat \ {0},
         n <= MaxCount, Granted(k, q, n)
  PROVE  CallOK' /\ last'.base \in Nat
<1>1. PICK i \in Regions : \E b \in RegionPages(i) :
        IsFirstFit(q, n, i, b) /\ Commit(i, b, n) /\ call' = Call(k, n, Run(b, n))
  BY DEF Granted
<1>2. PICK b : /\ b \in FreeRuns(q, n, i) /\ Commit(i, b, n)
               /\ call' = Call(k, n, Run(b, n))
  BY <1>1 DEF IsFirstFit
<1>3. Run(b, n) \subseteq AllPages /\ b \in Nat
  BY <1>2, GrantedRun DEF Free
<1>4. AllPages' = AllPages
  BY SamePages
<1>5. n \in 0 .. MaxCount
  BY RequestAssumption
<1>6. CallOK'
  BY <1>2, <1>3, <1>4, <1>5 DEF CallOK, Call
<1> QED BY <1>2, <1>3, <1>6 DEF Commit

LEMMA FreeCall ==
  ASSUME Books, region' = region, NEW b \in Nat, NEW n \in Nat \ {0},
         n <= MaxCount, MayFree(b, n), FreeRun(b, n)
  PROVE  CallOK'
<1>1. Run(b, n) \subseteq AllPages
  BY FreedRun DEF Out, Books, BooksTypeOK
<1>2. AllPages' = AllPages
  BY SamePages
<1>3. n \in 0 .. MaxCount
  BY RequestAssumption
<1> QED BY <1>1, <1>2, <1>3 DEF CallOK, Call, FreeRun, Kinds

LEMMA RefusedCall ==
  ASSUME region' = region, NEW k \in Kinds, NEW n \in Nat,
         n <= MaxCount, call' = Call(k, n, {})
  PROVE  CallOK'
<1>1. n \in 0 .. MaxCount
  BY RequestAssumption
<1> QED BY <1>1 DEF CallOK, Call

LEMMA SelfTestTypes ==
  ASSUME Books, RestTypeOK, SelfTest, region' = region
  PROVE  CallOK' /\ stage' \in Stages /\ first' \in Nat /\ second' \in Nat
<1> DEFINE k == "alloc"
           n == 2
<1>1. /\ k \in Kinds /\ n \in Nat \ {0} /\ n <= MaxCount
  <2>1. n \in Nat \ {0}
    OBVIOUS
  <2>2. n <= MaxCount
    BY RequestAssumption
  <2> QED BY <2>1, <2>2 DEF Kinds
<1>2. first \in Nat /\ second \in Nat
  BY DEF RestTypeOK
<1>3. stage' \in Stages
  <2>1. \/ stage' = "alloc second" \/ stage' = "free first" \/ stage' = "alloc again"
        \/ stage' = "free again" \/ stage' = "free second" \/ stage' = "open"
    BY Zenon DEF SelfTest, TestAllocFirst, TestAllocSecond, TestAllocAgain, TestFreeFirst,
                 TestFreeAgain, TestFreeSecond
  <2> QED BY <2>1 DEF Stages, TestStages
<1>4. CASE /\ Granted(k, Plain, n)
           /\ first' \in {first, last'.base} /\ second' \in {second, last'.base}
  <2> HIDE DEF k, n
  <2> QED BY <1>1, <1>2, <1>3, <1>4, GrantCall
<1>5. CASE /\ \E b \in {first, second} : MayFree(b, n) /\ FreeRun(b, n)
           /\ UNCHANGED <<first, second>>
  <2> HIDE DEF k, n
  <2> QED BY <1>1, <1>2, <1>3, <1>5, FreeCall
<1>6. CASE TestAllocFirst
  BY <1>4, <1>6 DEF TestAllocFirst
<1>7. CASE TestAllocSecond
  BY <1>4, <1>7 DEF TestAllocSecond
<1>8. CASE TestAllocAgain
  BY <1>4, <1>8 DEF TestAllocAgain
<1>9. CASE TestFreeFirst \/ TestFreeAgain \/ TestFreeSecond
  BY <1>5, <1>9 DEF TestFreeFirst, TestFreeAgain, TestFreeSecond
<1> QED BY <1>6, <1>7, <1>8, <1>9 DEF SelfTest

LEMMA CallsTypes ==
  ASSUME Books, RestTypeOK, KernelCalls, region' = region
  PROVE  CallOK' /\ UNCHANGED testVars
<1>1. /\ AllPages \subseteq Nat
      /\ \A n \in Counts : n \in Nat \ {0} /\ n <= MaxCount
  BY RequestAssumption
     DEF Counts, AllPages, RegionPages, Books, BooksTypeOK, Base, End
<1>2. {"alloc", "aligned", "constrained", "free"} \subseteq Kinds
  BY DEF Kinds
<1>3. ASSUME NEW n \in Counts, NEW k \in Kinds, NEW q, Alloc(k, q, n)
      PROVE  CallOK' /\ UNCHANGED testVars
  BY <1>1, <1>3, GrantCall, RefusedCall DEF Alloc, Refused
<1>4. ASSUME NEW n \in Counts, NEW b \in AllPages, FreePages(b, n) \/ FreePagesLifo(b, n)
      PROVE  CallOK' /\ UNCHANGED testVars
  <2>1. CASE FreeRefused(n)
    <3> DEFINE k == "free"
    <3>1. k \in Kinds /\ call' = Call(k, n, {}) /\ UNCHANGED testVars
      BY <1>2, <1>4, <2>1 DEF FreeRefused, FreePages, FreePagesLifo
    <3> HIDE DEF k
    <3> QED BY <1>1, <3>1, RefusedCall
  <2>2. CASE MayFree(b, n) /\ FreeRun(b, n)
    BY <1>1, <1>4, <2>2, FreeCall DEF FreePages, FreePagesLifo
  <2> QED BY <1>4, <2>1, <2>2 DEF FreePages, FreePagesLifo
<1> QED BY <1>2, <1>3, <1>4
        DEF KernelCalls, AllocPages, AllocPagesAligned, AllocPagesConstrained

LEMMA NoCallOK == call = NO_CALL => CallOK
<1>1. 0 \in 0 .. MaxCount
  BY RequestAssumption
<1>2. "none" \in Kinds
  BY DEF Kinds
<1> DEFINE zero == 0
<1>3. zero \in 0 .. MaxCount
  BY <1>1
<1> HIDE DEF zero
<1>4. Call("none", zero, {}) \in [kind : Kinds, count : 0 .. MaxCount, pages : SUBSET AllPages]
  BY <1>2, <1>3 DEF Call
<1> QED BY <1>4 DEF CallOK, NO_CALL, zero

LEMMA RestStep ==
  Books /\ RestTypeOK /\ [Next]_vars => RestTypeOK'
<1> SUFFICES ASSUME Books, RestTypeOK, [Next]_vars PROVE RestTypeOK'
  OBVIOUS
<1>1. ASSUME region' = region PROVE Regions' = Regions /\ AllPages' = AllPages
  BY <1>1, SamePages
<1>2. CASE Activate
  <2>1. Regions' \subseteq Conventional
    BY <1>2, TrackedRegions DEF Activate, Regions
  <2>2. AllPages = {}
    BY <1>2, NoPages DEF Activate, Books, StatesMeanWhatTheySay
  <2>3. CallOK'
    BY <1>2, <2>2 DEF Activate, RestTypeOK, CallOK
  <2> QED BY <1>2, <2>1, <2>3 DEF Activate, RestTypeOK, Stages, TestStages
<1>3. CASE NoMemory
  BY <1>1, <1>3 DEF NoMemory, RestTypeOK, CallOK, Stages
<1>4. CASE TestFails
  <2>1. Regions' = {}
    BY <1>4 DEF TestFails, Reset, Regions, NO_REGIONS
  <2>2. CallOK'
    <3>1. (call = NO_CALL)'
      BY <1>4 DEF TestFails, Reset, NO_CALL, Call
    <3> QED BY <3>1, NoCallOK, PTL
  <2> QED BY <1>4, <2>1, <2>2 DEF TestFails, Reset, RestTypeOK, Stages
<1>5. CASE SelfTest /\ UNCHANGED region
  BY <1>1, <1>5, SelfTestTypes DEF RestTypeOK
<1>6. CASE KernelCalls /\ UNCHANGED region
  BY <1>1, <1>6, CallsTypes DEF RestTypeOK, testVars
<1>7. CASE UNCHANGED vars
  BY <1>1, <1>7 DEF vars, testVars, RestTypeOK, CallOK
<1> QED BY <1>2, <1>3, <1>4, <1>5, <1>6, <1>7 DEF Next

LEMMA StartsClosed == Init => Books /\ RestTypeOK
<1> SUFFICES ASSUME Init PROVE Books /\ RestTypeOK
  OBVIOUS
<1>1. Books
  BY ClosedBooks DEF Closed, Init
<1>2. Regions = {}
  BY DEF Init, NO_REGIONS, Regions
<1>3. CallOK
  BY NoCallOK DEF Init
<1> QED BY <1>1, <1>2, <1>3 DEF RestTypeOK, Init, Stages

LEMMA Invariance == Spec => [](Books /\ RestTypeOK)
<1>1. Books /\ RestTypeOK /\ [Next]_vars => (Books /\ RestTypeOK)'
  BY BooksStep, RestStep DEF RestTypeOK
<1> QED BY <1>1, StartsClosed, PTL DEF Spec

\* The variables keep their types (variables, lines 29 to 62).
THEOREM Types == Spec => []TypeOK
<1>1. Books /\ RestTypeOK => TypeOK
  BY DEF Books, BooksTypeOK, RestTypeOK, CallOK, Kinds, TypeOK
<1> QED BY <1>1, Invariance, PTL

\* The counter is the number of pages out, so `allocated_pages < count` never
\* refuses a release and the kernel's leak checks compare what they mean to.
THEOREM CounterIsExact == Spec => []CountsPagesOut
<1>1. Books => CountsPagesOut
  BY DEF Books
<1> QED BY <1>1, Invariance, PTL

\* No sequence of calls frees a sentinel or a low page.
THEOREM ReservedIsKept == Spec => []ReservedStaysUsed
<1>1. Books => ReservedStaysUsed
  BY DEF Books
<1> QED BY <1>1, Invariance, PTL

\* No release in LIFO order lowers a frontier below a page that is out.
THEOREM FrontierIsSound == Spec => []FrontierIsHighWater
<1>1. Books => FrontierIsHighWater
  BY DEF Books
<1> QED BY <1>1, Invariance, PTL

\* The LIFO shortcut never names pages that have come back already.
THEOREM ShortcutIsLive == Spec => []LastIsOut
<1>1. Books => LastIsOut
  BY DEF Books
<1> QED BY <1>1, Invariance, PTL

-----------------------------------------------------------------------------
(* The self test of activation.  Nothing else is allocated while it runs,   *)
(* so the bitmaps are the reserved pages and the two runs of the test.      *)

\* The runs of two pages of region i that hold no page of `taken`.
PairRuns(taken, i) ==
  {b \in RegionPages(i) : b + 2 <= End(i) /\ Run(b, 2) \cap taken = {}}

\* `first` is the lowest run of the first region that has one at all ...
FirstFound ==
  \E i \in Regions :
    /\ first \in PairRuns(Reserved, i)
    /\ \A c \in PairRuns(Reserved, i) : first <= c
    /\ \A j \in Regions : j < i => PairRuns(Reserved, j) = {}

\* ... and `second` is beside it.
SecondFound == \E i \in Regions : second \in PairRuns(Reserved \cup Run(first, 2), i)

TestInv ==
  /\ stage \in TestStages => state = "active"
  /\ stage = "alloc first" => used = Reserved
  /\ stage = "alloc second" => FirstFound /\ used = Reserved \cup Run(first, 2)
  /\ stage \in {"free first", "free again"} =>
       FirstFound /\ SecondFound /\ used = Reserved \cup Run(first, 2) \cup Run(second, 2)
  /\ stage \in {"alloc again", "free second"} =>
       FirstFound /\ SecondFound /\ used = Reserved \cup Run(second, 2)

\* A plain request for two pages looks for just these runs.
LEMMA PairsAreFreeRuns ==
  ASSUME Books, NEW i \in Regions
  PROVE  FreeRuns(Plain, 2, i) = PairRuns(used, i)
<1>1. Base(i) \in used
  <2>1. Base(i) \in RegionPages(i)
    BY DEF Books, BooksTypeOK, RegionsApart, RegionPages, Base, End
  <2> QED BY <2>1 DEF Reserved, AllPages, Books, ReservedStaysUsed
<1>2. \A b \in RegionPages(i) : b \in Nat
  BY DEF Books, BooksTypeOK, RegionPages, Base, End
<1>3. \A b \in Nat : b \in Run(b, 2) /\ Fits(Plain, b, 2)
  BY DEF Run, Fits, Plain
<1>4. \A b \in RegionPages(i) : Run(b, 2) \cap used = {} => b # Base(i)
  BY <1>1, <1>2, <1>3
<1> QED BY <1>2, <1>3, <1>4 DEF FreeRuns, PairRuns

\* Runs in different regions are apart.
LEMMA PairsApart ==
  ASSUME Books, NEW i \in Regions, NEW j \in Regions,
         NEW S, NEW T, NEW b \in PairRuns(S, i), NEW c \in PairRuns(T, j)
  PROVE  /\ b \in Nat /\ c \in Nat
         /\ Run(b, 2) \subseteq RegionPages(i) /\ Run(c, 2) \subseteq RegionPages(j)
         /\ i # j \/ b + 2 <= c => Run(b, 2) \cap Run(c, 2) = {}
<1>1. /\ Base(i) \in Nat /\ End(i) \in Nat /\ Base(j) \in Nat /\ End(j) \in Nat
      /\ i # j => End(i) <= Base(j) \/ End(j) <= Base(i)
  BY DEF Books, BooksTypeOK, RegionsApart, Base, End
<1>2. /\ b \in Base(i) .. End(i) - 1 /\ b + 2 <= End(i)
      /\ c \in Base(j) .. End(j) - 1 /\ c + 2 <= End(j)
  BY DEF PairRuns, RegionPages
<1> QED BY <1>1, <1>2 DEF Run, RegionPages

\* What TwoRunsFit promises is found: a first run, and a second beside it.
LEMMA FirstIsFound ==
  ASSUME Books, TwoRunsFit, used = Reserved
  PROVE  TwoPagesFit
<1>1. PICK i \in Regions : \E b \in RegionPages(i) :
        b + 2 <= End(i) /\ Run(b, 2) \cap Reserved = {}
  BY DEF TwoRunsFit
<1>2. PairRuns(used, i) # {}
  BY <1>1 DEF PairRuns
<1> QED BY <1>2, PairsAreFreeRuns DEF TwoPagesFit

LEMMA SecondIsFound ==
  ASSUME Books, TwoRunsFit, FirstFound, used = Reserved \cup Run(first, 2)
  PROVE  TwoPagesFit
<1>1. PICK f \in Regions :
        /\ first \in PairRuns(Reserved, f)
        /\ \A c \in PairRuns(Reserved, f) : first <= c
        /\ \A j \in Regions : j < f => PairRuns(Reserved, j) = {}
  BY DEF FirstFound
<1>2. PICK i \in Regions, j \in Regions : \E b \in RegionPages(i), c \in RegionPages(j) :
        /\ b + 2 <= c \/ i < j
        /\ b + 2 <= End(i) /\ c + 2 <= End(j)
        /\ (Run(b, 2) \cup Run(c, 2)) \cap Reserved = {}
  BY DEF TwoRunsFit
<1>3. PICK b \in RegionPages(i), c \in RegionPages(j) :
        /\ b + 2 <= c \/ i < j
        /\ b + 2 <= End(i) /\ c + 2 <= End(j)
        /\ (Run(b, 2) \cup Run(c, 2)) \cap Reserved = {}
  BY <1>2
<1>4. b \in PairRuns(Reserved, i) /\ c \in PairRuns(Reserved, j)
  BY <1>3 DEF PairRuns
<1>5. i \in Nat /\ j \in Nat /\ f \in Nat /\ i >= f /\ j >= f
  BY <1>1, <1>4 DEF Books, BooksTypeOK
<1>6. ASSUME NEW k \in Regions, NEW d \in PairRuns(Reserved, k),
             k # f \/ first + 2 <= d
      PROVE  TwoPagesFit
  <2>1. Run(first, 2) \cap Run(d, 2) = {}
    BY <1>1, <1>6, PairsApart
  <2>2. d \in PairRuns(used, k)
    BY <2>1 DEF PairRuns
  <2> QED BY <2>2, PairsAreFreeRuns DEF TwoPagesFit
<1>7. CASE i # f
  BY <1>4, <1>6, <1>7
<1>8. CASE j # f
  BY <1>4, <1>6, <1>8
<1>9. CASE i = f /\ j = f
  <2>1. b + 2 <= c /\ first <= b
    BY <1>1, <1>3, <1>4, <1>5, <1>9
  <2>2. b \in Nat /\ c \in Nat /\ first \in Nat
    BY <1>1, <1>4, PairsApart
  <2>3. first + 2 <= c
    BY <2>1, <2>2
  <2> QED BY <1>4, <1>6, <2>3
<1> QED BY <1>7, <1>8, <1>9

\* The release of a run of the test is not refused.
LEMMA PairMayBeFreed ==
  ASSUME Books, state = "active", NEW i \in Regions, NEW b \in PairRuns(Reserved, i),
         Run(b, 2) \subseteq used
  PROVE  MayFree(b, 2)
<1>1. /\ b \in RegionPages(i) /\ b + 2 <= End(i) /\ Run(b, 2) \cap Reserved = {}
      /\ Base(i) \in Nat /\ End(i) \in Nat
  BY DEF PairRuns, Books, BooksTypeOK, Base, End
<1>2. b \in Nat /\ b >= Base(i)
  BY <1>1 DEF RegionPages
<1>3. b \in Run(b, 2) /\ b \in AllPages /\ IsFiniteSet(Run(b, 2)) /\ Cardinality(Run(b, 2)) = 2
  <2>1. b \in Run(b, 2) /\ b \in AllPages
    BY <1>1, <1>2 DEF Run, AllPages
  <2>2. 2 \in Nat \ {0}
    OBVIOUS
  <2> QED BY <1>2, <2>1, <2>2, RunSize
<1>4. b \notin Reserved
  BY <1>1, <1>3
<1>5. b # Base(i) /\ b >= MinGeneral
  BY <1>2, <1>3, <1>4, NumbersAssumption DEF Reserved
<1>6. allocated >= 2
  <2>1. Run(b, 2) \in SUBSET Out
    BY <1>1 DEF Out
  <2>2. Cardinality(Run(b, 2)) <= Cardinality(Out)
    BY <2>1, FS_Subset DEF Books
  <2> QED BY <1>3, <2>2 DEF Books, CountsPagesOut, BooksTypeOK
<1> QED BY <1>1, <1>2, <1>5, <1>6 DEF MayFree

\* The run given back is the first to be found again.
LEMMA FirstIsFoundAgain ==
  ASSUME Books, FirstFound, SecondFound, used = Reserved \cup Run(second, 2)
  PROVE  \E i \in Regions : IsFirstFit(Plain, 2, i, first)
<1>1. PICK f \in Regions :
        /\ first \in PairRuns(Reserved, f)
        /\ \A c \in PairRuns(Reserved, f) : first <= c
        /\ \A j \in Regions : j < f => PairRuns(Reserved, j) = {}
  BY DEF FirstFound
<1>2. Run(first, 2) \cap Run(second, 2) = {}
  BY DEF SecondFound, PairRuns
<1>3. \A j \in Regions : PairRuns(used, j) \subseteq PairRuns(Reserved, j)
  BY DEF PairRuns
<1>4. first \in PairRuns(used, f)
  BY <1>1, <1>2 DEF PairRuns
<1> QED BY <1>1, <1>3, <1>4, PairsAreFreeRuns DEF IsFirstFit

\* At the end the test's books are closed.
LEMMA SecondIsTheLastOut ==
  ASSUME Books, SecondFound, used = Reserved \cup Run(second, 2)
  PROVE  allocated = 2
<1>1. PICK i \in Regions : second \in PairRuns(Reserved \cup Run(first, 2), i)
  BY DEF SecondFound
<1>2. second \in Nat /\ Run(second, 2) \cap Reserved = {}
  BY <1>1 DEF PairRuns, RegionPages, Books, BooksTypeOK, Base, End
<1>3. Out = Run(second, 2)
  BY <1>2 DEF Out
<1>4. Cardinality(Run(second, 2)) = 2
  <2>1. 2 \in Nat \ {0}
    OBVIOUS
  <2> QED BY <1>2, <2>1, RunSize
<1> QED BY <1>3, <1>4 DEF Books, CountsPagesOut

LEMMA FailsForRoomOnly ==
  ASSUME Books, TestInv, TestFails
  PROVE  ~TwoRunsFit
<1> SUFFICES ASSUME TwoRunsFit PROVE FALSE
  OBVIOUS
<1>1. CASE stage \in {"alloc first", "alloc second"} /\ ~TwoPagesFit
  BY <1>1, FirstIsFound, SecondIsFound DEF TestInv
<1>2. CASE stage = "alloc again" /\ \A i \in Regions : ~IsFirstFit(Plain, 2, i, first)
  BY <1>2, FirstIsFoundAgain DEF TestInv
<1>3. CASE stage \in {"free first", "free again"} /\ ~MayFree(first, 2)
  <2>1. state = "active" /\ FirstFound /\ Run(first, 2) \subseteq used
    BY <1>3 DEF TestInv, TestStages
  <2> QED BY <1>3, <2>1, PairMayBeFreed DEF FirstFound
<1>4. CASE stage = "free second" /\ ~(MayFree(second, 2) /\ allocated = 2)
  <2>1. state = "active" /\ SecondFound /\ used = Reserved \cup Run(second, 2)
    BY <1>4 DEF TestInv, TestStages
  <2>2. \E i \in Regions : second \in PairRuns(Reserved, i)
    BY <2>1 DEF SecondFound, PairRuns
  <2> QED BY <1>4, <2>1, <2>2, PairMayBeFreed, SecondIsTheLastOut
<1> QED BY <1>1, <1>2, <1>3, <1>4 DEF TestFails

\* The layout is the same until the kernel stops.
LEMMA SameLayout ==
  ASSUME region' = region
  PROVE  /\ Regions' = Regions /\ Reserved' = Reserved
         /\ \A taken, i : PairRuns(taken, i)' = PairRuns(taken, i)
BY DEF Regions, Reserved, AllPages, RegionPages, Base, End, PairRuns

LEMMA FoundStay ==
  ASSUME region' = region
  PROVE  /\ first' = first => FirstFound' = FirstFound
         /\ first' = first /\ second' = second => SecondFound' = SecondFound
BY SameLayout DEF FirstFound, SecondFound

\* The run that a plain request of the test is granted.
LEMMA TestGrant ==
  ASSUME Books, Granted("alloc", Plain, 2)
  PROVE  \E i \in Regions : \E b \in PairRuns(used, i) :
           /\ IsFirstFit(Plain, 2, i, b)
           /\ used' = used \cup Run(b, 2) /\ last'.base = b /\ state' = "active"
<1>1. PICK i \in Regions : \E b \in RegionPages(i) :
        IsFirstFit(Plain, 2, i, b) /\ Commit(i, b, 2)
  BY DEF Granted
<1>2. PICK b \in RegionPages(i) : IsFirstFit(Plain, 2, i, b) /\ Commit(i, b, 2)
  BY <1>1
<1>3. b \in PairRuns(used, i)
  BY <1>2, PairsAreFreeRuns DEF IsFirstFit
<1> QED BY <1>2, <1>3 DEF Commit

LEMMA SelfTestKeepsTestInv ==
  ASSUME Books, TestInv, SelfTest, region' = region
  PROVE  TestInv'
<1>1. CASE TestAllocFirst
  <2>1. /\ stage = "alloc first" /\ stage' = "alloc second" /\ first' = last'.base
        /\ Granted("alloc", Plain, 2)
    BY <1>1 DEF TestAllocFirst
  <2>2. used = Reserved
    BY <2>1 DEF TestInv
  <2>3. PICK i \in Regions : \E b \in PairRuns(used, i) :
           /\ IsFirstFit(Plain, 2, i, b)
           /\ used' = used \cup Run(b, 2) /\ last'.base = b /\ state' = "active"
    BY <2>1, TestGrant
  <2>4. /\ first' \in PairRuns(Reserved, i) /\ IsFirstFit(Plain, 2, i, first')
        /\ used' = Reserved \cup Run(first', 2) /\ state' = "active"
    BY <2>1, <2>2, <2>3
  <2>5. FirstFound'
    BY <2>2, <2>4, SameLayout, PairsAreFreeRuns DEF FirstFound, IsFirstFit
  <2>6. used' = (Reserved \cup Run(first, 2))'
    BY <2>4, SameLayout DEF Run
  <2> QED BY <2>1, <2>4, <2>5, <2>6 DEF TestInv
<1>2. CASE TestAllocSecond
  <2>1. /\ stage = "alloc second" /\ stage' = "free first" /\ second' = last'.base
        /\ first' = first /\ Granted("alloc", Plain, 2)
    BY <1>2 DEF TestAllocSecond
  <2>2. FirstFound /\ used = Reserved \cup Run(first, 2)
    BY <2>1 DEF TestInv
  <2>3. PICK i \in Regions : \E b \in PairRuns(used, i) :
           used' = used \cup Run(b, 2) /\ last'.base = b /\ state' = "active"
    BY <2>1, TestGrant
  <2>4. /\ second' \in PairRuns(Reserved \cup Run(first, 2), i) /\ state' = "active"
        /\ used' = Reserved \cup Run(first, 2) \cup Run(second', 2)
    BY <2>1, <2>2, <2>3
  <2>5. FirstFound' /\ SecondFound'
    BY <2>1, <2>2, <2>4, FoundStay, SameLayout DEF SecondFound, Run
  <2>6. used' = (Reserved \cup Run(first, 2) \cup Run(second, 2))'
    BY <2>1, <2>4, SameLayout DEF Run
  <2> QED BY <2>1, <2>4, <2>5, <2>6 DEF TestInv
<1>3. CASE TestFreeFirst \/ TestFreeAgain
  <2>1. /\ stage \in {"free first", "free again"}
        /\ stage' \in {"alloc again", "free second"}
        /\ first' = first /\ second' = second
        /\ used' = used \ Run(first, 2) /\ state' = "active"
    BY <1>3 DEF TestFreeFirst, TestFreeAgain, FreeRun
  <2>2. /\ FirstFound /\ SecondFound
        /\ used = Reserved \cup Run(first, 2) \cup Run(second, 2)
    BY <2>1 DEF TestInv
  <2>3. Run(first, 2) \cap Reserved = {} /\ Run(first, 2) \cap Run(second, 2) = {}
    BY <2>2 DEF FirstFound, SecondFound, PairRuns
  <2>4. used' = Reserved \cup Run(second, 2)
    BY <2>1, <2>2, <2>3
  <2>5. FirstFound' /\ SecondFound'
    BY <2>1, <2>2, FoundStay
  <2>6. used' = (Reserved \cup Run(second, 2))'
    BY <2>1, <2>4, SameLayout DEF Run
  <2> QED BY <2>1, <2>5, <2>6 DEF TestInv
<1>4. CASE TestAllocAgain
  <2>1. /\ stage = "alloc again" /\ stage' = "free again" /\ last'.base = first
        /\ first' = first /\ second' = second /\ Granted("alloc", Plain, 2)
    BY <1>4 DEF TestAllocAgain
  <2>2. FirstFound /\ SecondFound /\ used = Reserved \cup Run(second, 2)
    BY <2>1 DEF TestInv
  <2>3. used' = used \cup Run(first, 2) /\ state' = "active"
    BY <2>1, TestGrant
  <2>4. FirstFound' /\ SecondFound'
    BY <2>1, <2>2, FoundStay
  <2>5. used' = (Reserved \cup Run(first, 2) \cup Run(second, 2))'
    BY <2>1, <2>2, <2>3, SameLayout DEF Run
  <2> QED BY <2>1, <2>3, <2>4, <2>5 DEF TestInv
<1>5. CASE TestFreeSecond
  <2>1. stage' = "open"
    BY <1>5 DEF TestFreeSecond
  <2> QED BY <2>1 DEF TestInv, TestStages
<1> QED BY <1>1, <1>2, <1>3, <1>4, <1>5 DEF SelfTest

LEMMA TestInvStep == Books /\ TestInv /\ [Next]_vars => TestInv'
<1> SUFFICES ASSUME Books, TestInv, [Next]_vars PROVE TestInv'
  OBVIOUS
<1>1. CASE Activate
  <2>1. stage' = "alloc first" /\ state' = "active" /\ used' = Reserved'
    BY <1>1 DEF Activate
  <2> QED BY <2>1 DEF TestInv
<1>2. CASE NoMemory \/ TestFails
  <2>1. stage' = "failed"
    BY <1>2 DEF NoMemory, TestFails, Reset
  <2> QED BY <2>1 DEF TestInv, TestStages
<1>3. CASE SelfTest /\ UNCHANGED region
  BY <1>3, SelfTestKeepsTestInv
<1>4. CASE KernelCalls
  <2>1. stage \in {"off", "open", "failed"} /\ stage' = stage
    BY <1>4 DEF KernelCalls, AllocPages, AllocPagesAligned, AllocPagesConstrained, Alloc,
       FreePages, FreePagesLifo, testVars
  <2> QED BY <2>1 DEF TestInv, TestStages
<1>5. CASE UNCHANGED vars
  <2>1. /\ region' = region /\ stage' = stage /\ first' = first /\ second' = second
        /\ used' = used /\ state' = state
    BY <1>5 DEF vars, testVars
  <2>2. /\ Reserved' = Reserved
        /\ FirstFound' = FirstFound /\ SecondFound' = SecondFound
        /\ Run(first, 2)' = Run(first, 2) /\ Run(second, 2)' = Run(second, 2)
    BY <2>1, SameLayout, FoundStay DEF Run
  <2>3. TestInv' = TestInv
    BY <2>1, <2>2 DEF TestInv
  <2> QED BY <2>3
<1> QED BY <1>1, <1>2, <1>3, <1>4, <1>5 DEF Next

\* Activation only fails when the inventory has no room for two runs of two
\* pages: no order of the test's own calls makes it fail (pmm_allocator_self_test).
THEOREM SelfTestIsFair == Spec => TestFailsForRoomOnly
<1>1. Init => TestInv
  BY DEF Init, TestInv, TestStages
<1>2. Books /\ TestInv => [TestFails => ~TwoRunsFit]_vars
  BY FailsForRoomOnly
<1> QED BY <1>1, <1>2, TestInvStep, Invariance, PTL DEF Spec, TestFailsForRoomOnly

-----------------------------------------------------------------------------
(* Every step of the bitmaps is a step of the contract.                    *)

LEMMA GrantImplements ==
  ASSUME Books, region' = region, NEW k, NEW q, NEW n \in Nat \ {0}, Granted(k, q, n)
  PROVE  Allocator!Grant(k, n)
<1>1. PICK i \in Regions : \E b \in RegionPages(i) :
        IsFirstFit(q, n, i, b) /\ Commit(i, b, n) /\ call' = Call(k, n, Run(b, n))
  BY DEF Granted
<1>2. PICK b : /\ b \in FreeRuns(q, n, i) /\ Commit(i, b, n)
               /\ call' = Call(k, n, Run(b, n))
  BY <1>1 DEF IsFirstFit
<1>3. b \in Nat /\ Run(b, n) \subseteq Free /\ Run(b, n) \cap Reserved = {}
  BY <1>2, GrantedRun
<1>4. b \in Free
  BY <1>3, RunSize
<1>5. AllPages' = AllPages /\ Reserved' = Reserved
  BY SamePages
<1>6. Free' = Free \ Run(b, n) /\ Out' = Out \cup Run(b, n)
  BY <1>2, <1>3, <1>5 DEF Free, Out, Commit
<1> QED BY <1>2, <1>3, <1>4, <1>6 DEF Allocator!Grant, Allocator!Run, Allocator!Call, Run, Call

LEMMA ReturnImplements ==
  ASSUME Books, region' = region, NEW b \in Nat, NEW n \in Nat \ {0},
         MayFree(b, n), FreeRun(b, n)
  PROVE  Allocator!Return(n)
<1>1. Run(b, n) \subseteq Out /\ b \in Out
  BY FreedRun, RunSize
<1>2. AllPages' = AllPages /\ Reserved' = Reserved /\ used \subseteq AllPages
  BY SamePages DEF Books, BooksTypeOK
<1>3. Free' = Free \cup Run(b, n) /\ Out' = Out \ Run(b, n)
  BY <1>1, <1>2 DEF Free, Out, FreeRun
<1> QED BY <1>1, <1>3 DEF Allocator!Return, Allocator!Run, Allocator!Call, Run, Call, FreeRun

LEMMA UnmovedPages ==
  ASSUME region' = region, used' = used PROVE Free' = Free /\ Out' = Out
BY SamePages DEF Free, Out

LEMMA RefusalImplements ==
  ASSUME Books, region' = region, NEW k, NEW q, NEW n \in Nat \ {0},
         k = "alloc" => q = Plain, Refused(k, q, n)
  PROVE  Allocator!Refuse(k, n)
<1>1. Free' = Free /\ Out' = Out
  BY UnmovedPages DEF Refused
<1>2. ASSUME k = "alloc", NEW b \in Free, Run(b, n) \subseteq Free PROVE FALSE
  <2>1. \E i \in Regions : b \in FreeRuns(Plain, n, i)
    BY <1>2, NoRunLeft
  <2>2. state # "exhausted"
    BY DEF Books, StatesMeanWhatTheySay, Free
  <2>3. state # "locked"
    BY <2>1, NoPages DEF Books, StatesMeanWhatTheySay
  <2>4. state = "active"
    BY <2>2, <2>3 DEF Books, BooksTypeOK
  <2> QED BY <1>2, <2>1, <2>4 DEF Refused
<1> QED BY <1>1, <1>2 DEF Allocator!Refuse, Allocator!Run, Allocator!Call, Run, Call, Refused

LEMMA SelfTestImplements ==
  ASSUME Books, RestTypeOK, SelfTest, region' = region
  PROVE  Allocator!Next
<1> DEFINE k == "alloc"
           n == 2
<1>1. n \in Nat \ {0} /\ n \in Counts
  BY RequestAssumption DEF Counts
<1>2. k \in Allocator!Requests
  BY DEF Allocator!Requests
<1>3. \/ Granted(k, Plain, n)
      \/ \E b \in {first, second} : MayFree(b, n) /\ FreeRun(b, n)
  BY Zenon DEF SelfTest, TestAllocFirst, TestAllocSecond, TestAllocAgain, TestFreeFirst,
               TestFreeAgain, TestFreeSecond
<1>4. first \in Nat /\ second \in Nat
  BY DEF RestTypeOK
<1> HIDE DEF k, n
<1>5. Allocator!Grant(k, n) \/ Allocator!Return(n)
  BY <1>1, <1>3, <1>4, GrantImplements, ReturnImplements
<1> QED BY <1>1, <1>2, <1>5 DEF Allocator!Next

LEMMA CallsImplement ==
  ASSUME Books, KernelCalls, region' = region
  PROVE  Allocator!Next
<1>1. AllPages \subseteq Nat /\ \A n \in Counts : n \in Nat \ {0}
  BY DEF Counts, AllPages, RegionPages, Books, BooksTypeOK, Base, End
<1>2. {"alloc", "aligned", "constrained"} \subseteq Allocator!Requests
  BY DEF Allocator!Requests
<1>3. ASSUME NEW n \in Counts, NEW k \in Allocator!Requests, NEW q,
             k = "alloc" => q = Plain, Alloc(k, q, n)
      PROVE  Allocator!Next
  <2>1. Allocator!Grant(k, n) \/ Allocator!Refuse(k, n)
    BY <1>1, <1>3, GrantImplements, RefusalImplements DEF Alloc
  <2> QED BY <2>1 DEF Allocator!Next
<1>4. ASSUME NEW n \in Counts, NEW b \in AllPages, FreePages(b, n) \/ FreePagesLifo(b, n)
      PROVE  Allocator!Next
  <2>1. CASE FreeRefused(n)
    <3>1. Free' = Free /\ Out' = Out
      BY <2>1, UnmovedPages DEF FreeRefused
    <3>2. Allocator!Refuse("free", n)
      BY <2>1, <3>1 DEF FreeRefused, Allocator!Refuse, Allocator!Call, Call
    <3> QED BY <3>2 DEF Allocator!Next
  <2>2. CASE MayFree(b, n) /\ FreeRun(b, n)
    <3>1. Allocator!Return(n)
      BY <1>1, <2>2, ReturnImplements
    <3> QED BY <3>1 DEF Allocator!Next
  <2> QED BY <1>4, <2>1, <2>2 DEF FreePages, FreePagesLifo
<1>5. PICK n \in Counts :
        \/ AllocPages(n)
        \/ \E q \in Constraints : AllocPagesAligned(q, n) \/ AllocPagesConstrained(q, n)
        \/ \E b \in AllPages : FreePages(b, n) \/ FreePagesLifo(b, n)
  BY DEF KernelCalls
<1>6. CASE AllocPages(n)
  BY <1>2, <1>3, <1>6 DEF AllocPages
<1>7. ASSUME NEW q \in Constraints, AllocPagesAligned(q, n) \/ AllocPagesConstrained(q, n)
      PROVE  Allocator!Next
  BY <1>2, <1>3, <1>7 DEF AllocPagesAligned, AllocPagesConstrained
<1> QED BY <1>4, <1>5, <1>6, <1>7

LEMMA StepImplements ==
  Books /\ RestTypeOK /\ [Next]_vars => [Allocator!Next]_<<Free, Out, call>>
<1> SUFFICES ASSUME Books, RestTypeOK, [Next]_vars
             PROVE  [Allocator!Next]_<<Free, Out, call>>
  OBVIOUS
<1>1. CASE Activate
  <2>1. Free = {} /\ Out = {}
    BY <1>1, NoPages DEF Activate, Books, StatesMeanWhatTheySay, Free, Out
  <2>2. Out' = {} /\ call' = call
    BY <1>1 DEF Activate, Out
  <2> QED BY <2>1, <2>2 DEF Allocator!Next, Allocator!Open
<1>2. CASE NoMemory
  BY <1>2, UnmovedPages DEF NoMemory
<1>3. CASE TestFails
  <2>1. AllPages' = {} /\ used' = {} /\ call' = NO_CALL
    BY <1>3 DEF TestFails, Reset, AllPages, Regions, NO_REGIONS
  <2>2. Free' = {} /\ Out' = {}
    BY <2>1 DEF Free, Out
  <2> QED BY <2>1, <2>2
          DEF Allocator!Next, Allocator!Close, Allocator!NO_CALL, Allocator!Call, NO_CALL, Call
<1>4. CASE SelfTest /\ UNCHANGED region
  BY <1>4, SelfTestImplements
<1>5. CASE KernelCalls /\ UNCHANGED region
  BY <1>5, CallsImplement
<1>6. CASE UNCHANGED vars
  BY <1>6, UnmovedPages DEF vars
<1> QED BY <1>1, <1>2, <1>3, <1>4, <1>5, <1>6 DEF Next

\* The bitmaps, the first fit, the exhausted state and both releases implement
\* the contract: no page is handed out twice, only pages that are out come back,
\* and a plain request is refused only when no run of its length is free.
THEOREM Refinement == Spec => ImplementsPageAllocator
<1>1. Init => Allocator!Init
  <2> SUFFICES ASSUME Init PROVE Allocator!Init
    OBVIOUS
  <2>1. AllPages = {}
    BY NoPages DEF Init
  <2> QED BY <2>1 DEF Init, Allocator!Init, Allocator!NO_CALL, Allocator!Call,
                      NO_CALL, Call, Free, Out
<1> QED BY <1>1, StepImplements, Invariance, PTL
        DEF Spec, ImplementsPageAllocator, Allocator!Spec
=============================================================================
