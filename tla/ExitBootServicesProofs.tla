---------------------- MODULE ExitBootServicesProofs ----------------------
(***************************************************************************)
(* Proofs about ExitBootServices, for every number of keys and buffers,    *)
(* every map size and every limit on attempts.                             *)
(*                                                                         *)
(* A key stands for the map it was handed out with (KeysInv), a buffer for *)
(* the one allocation the state remembers (BufferInv), and every attempt   *)
(* the loop has lost, or is about to lose, for half a change that the      *)
(* firmware made (ChargeInv).                                              *)
(*                                                                         *)
(* The lookup that the cutover callback makes in the final map             *)
(* (FinalMapLookup) is right for every word and page size, map and         *)
(* address: its lemmas come first.                                         *)
(***************************************************************************)
EXTENDS ExitBootServices, FinalMapLookup, NaturalsInduction, WellFoundedInduction, TLAPS

-----------------------------------------------------------------------------
(* The lookup in the final map.                                            *)

\* Every nonempty set of indices has a least element.
LEMMA LeastIndex ==
  ASSUME NEW S \in SUBSET Nat, S # {}
  PROVE  \E m \in S : \A n \in S : m <= n
<1>1. PICK m \in S : \A x \in S : ~(<<x, m>> \in OpToRel(<, Nat))
  BY NatLessThanWellFounded, WFMin, Zenon
<1>2. ASSUME NEW x \in S PROVE ~(x < m)
  <2>1. <<x, m>> \in Nat \X Nat
    OBVIOUS
  <2>2. ~(<<x, m>>[1] < <<x, m>>[2])
    BY <1>1, <2>1, Zenon DEF OpToRel
  <2> QED BY <2>2
<1> QED BY <1>2

\* The loop stops at a hit when there is one.
LEMMA FirstHitIsAHit ==
  ASSUME NEW map \in Seq(Descriptor), NEW a \in Words, Hits(map, a) # {}
  PROVE  FirstHit(map, a) \in Hits(map, a)
<1>1. Hits(map, a) \in SUBSET Nat
  BY DEF Hits
<1>2. \E i \in Hits(map, a) : \A j \in Hits(map, a) : i <= j
  BY <1>1, LeastIndex
<1> QED BY <1>2, Zenon DEF FirstHit

\* Addition wraps at most once.
LEMMA AddWrapsOnce ==
  ASSUME NEW m \in Words, NEW n \in Words
  PROVE  /\ m + n < Word => Add(m, n) = m + n
         /\ m + n >= Word => Add(m, n) = m + n - Word
<1>1. CASE m + n < Word
  BY <1>1, WordAssumption DEF Add, Words
<1>2. CASE m + n >= Word
  <2>1. m + n = Word + (m + n - Word) /\ m + n - Word \in 0 .. Word - 1
    BY <1>2, WordAssumption DEF Words
  <2> QED BY <2>1, WordAssumption, <1>2 DEF Add, Words
<1> QED BY <1>1, <1>2, WordAssumption DEF Words

LEMMA ExactQuotient ==
  ASSUME NEW q \in Nat, NEW n \in Nat \ {0}
  PROVE  (q * n) \div n = q
BY SMTT(30)

LEMMA QuotientBound ==
  ASSUME NEW m \in Nat, NEW n \in Nat \ {0}
  PROVE  (m \div n) * n <= m
BY SMTT(30)

LEMMA Remainder ==
  ASSUME NEW m \in Nat, NEW w \in Nat \ {0}
  PROVE  /\ m % w \in 0 .. w - 1
         /\ m < w => m % w = m
BY SMTT(30)

\* The loop's test on the quotient refuses exactly the products that wrap.
LEMMA QuotientTest ==
  ASSUME NEW d \in Descriptor
  PROVE  /\ d.pages * Page \in Nat
         /\ Bytes(d) \in Words
         /\ d.pages * Page < Word => Bytes(d) = d.pages * Page
         /\ Bytes(d) \div Page = d.pages <=> d.pages * Page < Word
<1> DEFINE p == d.pages * Page
<1>0. d.pages \in Nat /\ Page \in Nat \ {0} /\ Word \in Nat \ {0}
  BY WordAssumption DEF Descriptor, Words
<1>1. p \in Nat /\ p \div Page = d.pages
  BY <1>0, ExactQuotient
<1>2. Bytes(d) = p % Word
  BY DEF Bytes
<1> HIDE DEF p
<1>3. Bytes(d) \in 0 .. Word - 1 /\ (p < Word => Bytes(d) = p)
  BY <1>0, <1>1, <1>2, Remainder
<1>4. (Bytes(d) \div Page) * Page <= Bytes(d)
  BY <1>0, <1>3, QuotientBound
<1>5. ASSUME Bytes(d) \div Page = d.pages PROVE p < Word
  BY <1>0, <1>3, <1>4, <1>5 DEF p
<1> QED BY <1>1, <1>3, <1>5 DEF p, Words

\* A descriptor is not skipped exactly when its range exists, and then its
\* size and its physical end are exact.
LEMMA UsableMeansExists ==
  ASSUME NEW d \in Descriptor
  PROVE  /\ Usable(d) <=> Exists(d)
         /\ Exists(d) => /\ Bytes(d) = d.pages * Page
                         /\ PhysicalEnd(d) = d.physical + d.pages * Page
<1> DEFINE p == d.pages * Page
<1>0. /\ d.pages \in Nat /\ Page \in Nat \ {0} /\ Word \in Nat \ {0}
      /\ d.physical \in Words /\ d.physical \in Nat
  BY WordAssumption DEF Descriptor, Words
<1>1. d.pages # 0 => p > 0
  BY <1>0
<1>2. /\ p \in Nat /\ Bytes(d) \in Words
      /\ p < Word => Bytes(d) = p
      /\ Bytes(d) \div Page = d.pages <=> p < Word
  BY QuotientTest
<1>3. Exists(d) <=> d.pages # 0 /\ d.physical + p < Word
  BY DEF Exists
<1> HIDE DEF p
<1>4. ASSUME p < Word, d.pages # 0
      PROVE  /\ d.physical + p < Word <=> PhysicalEnd(d) > d.physical
             /\ d.physical + p < Word => PhysicalEnd(d) = d.physical + p
  <2>1. PhysicalEnd(d) = Add(d.physical, p) /\ p \in Words
    BY <1>2, <1>4 DEF PhysicalEnd
  <2>2. /\ d.physical + p < Word => Add(d.physical, p) = d.physical + p
        /\ d.physical + p >= Word => Add(d.physical, p) = d.physical + p - Word
    BY <1>0, <2>1, AddWrapsOnce
  <2> QED BY <1>0, <1>1, <1>2, <1>4, <2>1, <2>2
<1>5. d.physical + p < Word => p < Word
  BY <1>0, <1>2
<1>6. Usable(d) <=> d.pages # 0 /\ p < Word /\ PhysicalEnd(d) > d.physical
  BY <1>2 DEF Usable
<1>7. Usable(d) <=> Exists(d)
  BY <1>0, <1>2, <1>3, <1>4, <1>5, <1>6
<1>8. Exists(d) => Bytes(d) = p /\ PhysicalEnd(d) = d.physical + p
  BY <1>2, <1>3, <1>4, <1>5
<1> QED BY <1>7, <1>8 DEF p

\* The same for the alias, whose end is only tested when it does not wrap.
LEMMA AliasIsExact ==
  ASSUME NEW d \in Descriptor, NEW a \in Words, Exists(d)
  PROVE  IsAlias(d, a) <=> InAlias(d, a)
<1> DEFINE p == d.pages * Page
<1>0. Word \in Nat \ {0} /\ d.virtual \in Words /\ d.virtual \in Nat /\ a \in Nat
  BY WordAssumption DEF Descriptor, Words
<1>1. p \in Words /\ VirtualEnd(d) = Add(d.virtual, p) /\ p > 0
  <2>1. Bytes(d) = p /\ Bytes(d) \in Words
    BY UsableMeansExists, QuotientTest
  <2>2. d.pages \in Nat \ {0} /\ Page \in Nat \ {0}
    BY WordAssumption DEF Descriptor, Words, Exists
  <2>3. p > 0
    BY <2>2
  <2> QED BY <2>1, <2>3 DEF VirtualEnd
<1>2. InAlias(d, a) <=> /\ d.virtual # 0 /\ d.virtual + p < Word
                        /\ d.virtual <= a /\ a < d.virtual + p
  BY DEF InAlias, InRange
<1> HIDE DEF p
<1>3. /\ d.virtual + p < Word => Add(d.virtual, p) = d.virtual + p
      /\ d.virtual + p >= Word => Add(d.virtual, p) = d.virtual + p - Word
  BY <1>0, <1>1, AddWrapsOnce
<1>4. p \in Nat /\ p < Word
  BY <1>0, <1>1 DEF Words
<1>5. CASE d.virtual + p < Word
  BY <1>0, <1>1, <1>2, <1>3, <1>4, <1>5 DEF IsAlias
<1>6. CASE d.virtual + p >= Word
  BY <1>0, <1>1, <1>2, <1>3, <1>4, <1>6 DEF IsAlias
<1> QED BY <1>0, <1>4, <1>5, <1>6

\* Where the loop can stop, in exact arithmetic, and what it answers there.
LEMMA HitIsInTheMap ==
  ASSUME NEW d \in Descriptor, NEW a \in Words, Exists(d),
         IsIdentity(d, a) \/ IsAlias(d, a)
  PROVE  /\ InRange(d.physical, d, Translate(d, a))
         /\ \/ Translate(d, a) = a
            \/ /\ InRange(d.virtual, d, a)
               /\ Translate(d, a) - d.physical = a - d.virtual
<1> DEFINE p == d.pages * Page
<1>0. /\ Word \in Nat \ {0} /\ a \in Nat /\ p \in Nat
      /\ d.virtual \in Nat /\ d.physical \in Words /\ d.physical \in Nat
  BY WordAssumption, QuotientTest DEF Descriptor, Words
<1>1. PhysicalEnd(d) = d.physical + p /\ d.physical + p < Word
  BY UsableMeansExists DEF Exists
<1>2. \A x : /\ InRange(d.physical, d, x) <=> d.physical <= x /\ x < d.physical + p
             /\ InRange(d.virtual, d, x) <=> d.virtual <= x /\ x < d.virtual + p
  BY DEF InRange
<1>3. IsAlias(d, a) => InRange(d.virtual, d, a)
  BY AliasIsExact DEF InAlias
<1> HIDE DEF p
<1>4. CASE IsIdentity(d, a)
  BY <1>1, <1>2, <1>4 DEF IsIdentity, Translate
<1>5. CASE ~IsIdentity(d, a)
  <2>1. d.virtual <= a /\ a < d.virtual + p
    BY <1>2, <1>3, <1>5
  <2>2. a - d.virtual \in Words /\ d.physical + (a - d.virtual) < Word
    BY <1>0, <1>1, <2>1 DEF Words
  <2>3. Translate(d, a) = d.physical + (a - d.virtual)
    BY <1>0, <1>5, <2>2, AddWrapsOnce DEF Translate
  <2> QED BY <1>0, <1>2, <1>3, <1>5, <2>1, <2>3
<1> QED BY <1>4, <1>5

-----------------------------------------------------------------------------
\* Every answer of baken_final_map_physical_address but 0 lies in a range of
\* the map, where the address is in it or in its alias.
THEOREM LookupIsSound ==
  ASSUME NEW map \in Seq(Descriptor), NEW a \in Words
  PROVE  AnswerIsInTheMap(map, a)
<1> SUFFICES ASSUME PhysicalAddress(map, a) # 0
             PROVE  \E i \in DOMAIN map :
                      LET answer == PhysicalAddress(map, a) IN
                      /\ Exists(map[i]) /\ InRange(map[i].physical, map[i], answer)
                      /\ \/ answer = a
                         \/ InRange(map[i].virtual, map[i], a)
                            /\ answer - map[i].physical = a - map[i].virtual
  BY DEF AnswerIsInTheMap
<1> DEFINE i == FirstHit(map, a)
<1>1. Hits(map, a) # {} /\ PhysicalAddress(map, a) = Translate(map[i], a)
  BY DEF PhysicalAddress
<1>2. i \in Hits(map, a)
  BY <1>1, FirstHitIsAHit
<1>3. /\ i \in DOMAIN map /\ map[i] \in Descriptor /\ Usable(map[i])
      /\ IsIdentity(map[i], a) \/ IsAlias(map[i], a)
  BY <1>2 DEF Hits
<1> HIDE DEF i
<1>4. Exists(map[i])
  BY <1>3, UsableMeansExists
<1> QED BY <1>1, <1>3, <1>4, HitIsInTheMap, Zenon

\* It answers 0 only for an address outside every range and alias, or for the
\* alias of physical address 0.
THEOREM LookupIsComplete ==
  ASSUME NEW map \in Seq(Descriptor), NEW a \in Words
  PROVE  ZeroMeansAbsent(map, a)
<1> SUFFICES ASSUME PhysicalAddress(map, a) = 0, a # 0
             PROVE  \/ \E i \in DOMAIN map : /\ Exists(map[i])
                                              /\ map[i].physical = 0
                                              /\ map[i].virtual = a
                    \/ \A i \in DOMAIN map :
                         Exists(map[i]) => /\ ~InRange(map[i].physical, map[i], a)
                                          /\ ~InAlias(map[i], a)
  BY DEF ZeroMeansAbsent
<1>1. CASE Hits(map, a) = {}
  <2> SUFFICES ASSUME NEW i \in DOMAIN map, Exists(map[i])
               PROVE  ~InRange(map[i].physical, map[i], a) /\ ~InAlias(map[i], a)
    OBVIOUS
  <2>1. map[i] \in Descriptor
    OBVIOUS
  <2>2. ~IsIdentity(map[i], a) /\ ~IsAlias(map[i], a)
    BY <1>1, <2>1, UsableMeansExists DEF Hits
  <2> QED BY <2>1, <2>2, UsableMeansExists, AliasIsExact DEF IsIdentity, InRange
<1>2. CASE Hits(map, a) # {}
  <2> DEFINE i == FirstHit(map, a)
  <2>1. Translate(map[i], a) = 0
    BY <1>2 DEF PhysicalAddress
  <2>2. i \in Hits(map, a)
    BY <1>2, FirstHitIsAHit
  <2>3. /\ i \in DOMAIN map /\ map[i] \in Descriptor /\ Usable(map[i])
        /\ IsIdentity(map[i], a) \/ IsAlias(map[i], a)
    BY <2>2 DEF Hits
  <2> HIDE DEF i
  <2>4. Exists(map[i])
    BY <2>3, UsableMeansExists
  <2>5. InRange(map[i].physical, map[i], 0) /\ 0 - map[i].physical = a - map[i].virtual
    BY <2>1, <2>3, <2>4, HitIsInTheMap
  <2>6. map[i].physical \in Nat /\ map[i].virtual \in Nat /\ a \in Nat
    BY <2>3, WordAssumption DEF Descriptor, Words
  <2>7. map[i].physical = 0 /\ map[i].virtual = a
    BY <2>5, <2>6 DEF InRange
  <2> QED BY <2>3, <2>4, <2>7
<1> QED BY <1>1, <1>2

-----------------------------------------------------------------------------
(* The hand-off.                                                           *)

USE KeysAssumption, BuffersAssumption, SizeAssumption, SlackAssumption,
    AttemptsAssumption, ChangesAssumption

BufferInv ==
  /\ OneMapBuffer
  /\ pc = "free" => fresh \in Buffers /\ fresh # final.map
  /\ pc # "free" => fresh = NO_BUFFER
  /\ pc \in {"refresh", "callback", "exit", "booted"} => final.map \in Buffers

\* Whoever holds the current key knows the current size; the loader tries to
\* exit with the key of the map the cutover was built from.
KeysInv ==
  /\ pc # "returned" /\ final.key = fwKey => final.size = fwSize
  /\ cutover.key = fwKey => cutover.size = fwSize
  /\ pc = "exit" => cutover.key = final.key /\ cutover.map = final.map
  /\ pc = "booted" =>
       /\ ~alive
       /\ cutover.key = fwKey /\ cutover.map = final.map /\ cutover.size = fwSize

\* The attempt under way is already lost when its key is stale; one more will
\* be when the map is larger than the buffer, or than the buffer being made.
Lost == IF pc \in {"callback", "exit"} /\ final.key # fwKey THEN 1 ELSE 0
Outgrown ==
  IF \/ pc = "allocate" /\ fwSize + 2 * OwnGrowth > needed
     \/ pc = "free" /\ fwSize + OwnGrowth > needed
     \/ pc \in {"refresh", "callback", "exit"} /\ fwSize > final.capacity
  THEN 1 ELSE 0
ChargeInv == changes = ChangesCap \/ attempt + Lost + Outgrown <= 2 * changes
\* Past the loop's limit nothing is attempted.
LoopInv == pc \in {"callback", "exit"} => attempt < MaxAttempts

IInv == TypeOK /\ BufferInv /\ KeysInv /\ ChargeInv /\ LoopInv

-----------------------------------------------------------------------------

LEMMA InitIInv == Init => IInv
<1> SUFFICES ASSUME Init PROVE IInv
  OBVIOUS
<1> USE DEF Init, NO_KEY, NO_BUFFER
<1>1. TypeOK
  BY DEF TypeOK, Sizes, Locations, MapState, Cutover
<1>2. BufferInv
  BY DEF BufferInv, OneMapBuffer
<1>3. KeysInv
  BY DEF KeysInv
<1>4. ChargeInv /\ LoopInv
  BY DEF ChargeInv, LoopInv, Lost, Outgrown
<1> QED BY <1>1, <1>2, <1>3, <1>4 DEF IInv

LEMMA TypeStep == TypeOK /\ LoopInv /\ [Next]_vars => TypeOK'
<1> SUFFICES ASSUME TypeOK, LoopInv, [Next]_vars PROVE TypeOK'
  OBVIOUS
<1> USE DEF TypeOK, LoopInv, fwVars, locals, Sizes, Locations, MapState, Cutover,
            Return, NO_KEY, NO_BUFFER
<1>1. CASE QuerySize BY <1>1 DEF QuerySize, RoomFor
<1>2. CASE AllocateBuffer BY <1>2 DEF AllocateBuffer, PoolCallMayChangeMap
<1>3. CASE InstallBuffer
  BY <1>3 DEF InstallBuffer, ReleaseOldBuffer, PoolCallMayChangeMap
<1>4. CASE RefreshMap BY <1>4 DEF RefreshMap, AfterRefresh
<1>5. CASE MapOutgrewBuffer BY <1>5 DEF MapOutgrewBuffer, GrownAttempt, MayTry
<1>6. CASE RefreshFails BY <1>6 DEF RefreshFails
<1>7. CASE GiveUp BY <1>7 DEF GiveUp
<1>8. CASE PrepareCutover BY <1>8 DEF PrepareCutover
<1>9. CASE ExitSucceeds BY <1>9 DEF ExitSucceeds
<1>10. CASE KeyIsStale BY <1>10 DEF KeyIsStale
<1>11. CASE ExitFails BY <1>11 DEF ExitFails
<1>12. CASE FirmwareChangesMap BY <1>12 DEF FirmwareChangesMap
<1>13. CASE UNCHANGED vars BY <1>13 DEF vars
<1> QED
  BY <1>1, <1>2, <1>3, <1>4, <1>5, <1>6, <1>7, <1>8, <1>9, <1>10, <1>11,
     <1>12, <1>13 DEF Next, Loader, Done

LEMMA BufferStep == TypeOK /\ BufferInv /\ [Next]_vars => BufferInv'
<1> SUFFICES ASSUME TypeOK, BufferInv, [Next]_vars PROVE BufferInv'
  OBVIOUS
<1> USE DEF TypeOK, BufferInv, OneMapBuffer, fwVars, locals, MapState, Cutover,
            Return, NO_BUFFER
<1>1. CASE QuerySize BY <1>1 DEF QuerySize
<1>2. CASE AllocateBuffer BY <1>2 DEF AllocateBuffer
<1>3. CASE InstallBuffer BY <1>3 DEF InstallBuffer, ReleaseOldBuffer
<1>4. CASE RefreshMap BY <1>4 DEF RefreshMap, AfterRefresh
<1>5. CASE MapOutgrewBuffer BY <1>5 DEF MapOutgrewBuffer
<1>6. CASE RefreshFails BY <1>6 DEF RefreshFails
<1>7. CASE GiveUp BY <1>7 DEF GiveUp
<1>8. CASE PrepareCutover BY <1>8 DEF PrepareCutover
<1>9. CASE ExitSucceeds BY <1>9 DEF ExitSucceeds
<1>10. CASE KeyIsStale BY <1>10 DEF KeyIsStale
<1>11. CASE ExitFails BY <1>11 DEF ExitFails
<1>12. CASE FirmwareChangesMap BY <1>12 DEF FirmwareChangesMap
<1>13. CASE UNCHANGED vars BY <1>13 DEF vars
<1> QED
  BY <1>1, <1>2, <1>3, <1>4, <1>5, <1>6, <1>7, <1>8, <1>9, <1>10, <1>11,
     <1>12, <1>13 DEF Next, Loader, Done

LEMMA KeysStep == TypeOK /\ KeysInv /\ [Next]_vars => KeysInv'
<1> SUFFICES ASSUME TypeOK, KeysInv, [Next]_vars PROVE KeysInv'
  OBVIOUS
<1> USE DEF TypeOK, KeysInv, fwVars, locals, MapState, Cutover, Return, NO_KEY
<1>1. CASE QuerySize BY <1>1 DEF QuerySize
<1>2. CASE AllocateBuffer
  BY <1>2 DEF AllocateBuffer, PoolCallMayChangeMap, FreshKey, HeldKeys
<1>3. CASE InstallBuffer
  BY <1>3 DEF InstallBuffer, ReleaseOldBuffer, PoolCallMayChangeMap, FreshKey, HeldKeys
<1>4. CASE RefreshMap BY <1>4 DEF RefreshMap, AfterRefresh
<1>5. CASE MapOutgrewBuffer BY <1>5 DEF MapOutgrewBuffer
<1>6. CASE RefreshFails BY <1>6 DEF RefreshFails
<1>7. CASE GiveUp BY <1>7 DEF GiveUp
<1>8. CASE PrepareCutover BY <1>8 DEF PrepareCutover
<1>9. CASE ExitSucceeds BY <1>9 DEF ExitSucceeds
<1>10. CASE KeyIsStale BY <1>10 DEF KeyIsStale
<1>11. CASE ExitFails BY <1>11 DEF ExitFails
<1>12. CASE FirmwareChangesMap
  <2>1. fwKey' # final.key /\ fwKey' # cutover.key
    BY <1>12 DEF FirmwareChangesMap, FreshKey, HeldKeys
  <2>2. final' = final /\ cutover' = cutover /\ pc' = pc /\ pc # "booted"
    BY <1>12 DEF FirmwareChangesMap
  <2> QED BY <1>12, <2>1, <2>2 DEF FirmwareChangesMap
<1>13. CASE UNCHANGED vars BY <1>13 DEF vars
<1> HIDE DEF TypeOK, KeysInv, MapState, Cutover
<1> QED
  BY <1>1, <1>2, <1>3, <1>4, <1>5, <1>6, <1>7, <1>8, <1>9, <1>10, <1>11,
     <1>12, <1>13 DEF Next, Loader, Done

\* One change of the firmware's pays for two attempts.
LEMMA OneChangePaysForTwo ==
  ASSUME NEW a \in Nat, NEW c \in Nat, NEW x \in {0, 1}, NEW y \in {0, 1},
         NEW x1 \in {0, 1}, NEW y1 \in {0, 1}, a + x + y <= 2 * c
  PROVE  a + x1 + y1 <= 2 * (c + 1)
OBVIOUS

LEMMA ChargeStep == TypeOK /\ ChargeInv /\ LoopInv /\ [Next]_vars => ChargeInv' /\ LoopInv'
<1> SUFFICES ASSUME TypeOK, ChargeInv, LoopInv, [Next]_vars PROVE ChargeInv' /\ LoopInv'
  OBVIOUS
<1> USE DEF TypeOK, ChargeInv, LoopInv, Lost, Outgrown, fwVars, locals, MapState,
            Sizes, Return
<1>1. CASE QuerySize BY <1>1 DEF QuerySize, RoomFor
<1>2. CASE AllocateBuffer BY <1>2 DEF AllocateBuffer, PoolCallMayChangeMap
<1>3. CASE InstallBuffer
  BY <1>3 DEF InstallBuffer, ReleaseOldBuffer, PoolCallMayChangeMap
<1>4. CASE RefreshMap BY <1>4 DEF RefreshMap, AfterRefresh, MayTry
<1>5. CASE MapOutgrewBuffer BY <1>5 DEF MapOutgrewBuffer, GrownAttempt
<1>6. CASE RefreshFails BY <1>6 DEF RefreshFails
<1>7. CASE GiveUp BY <1>7 DEF GiveUp
<1>8. CASE PrepareCutover BY <1>8 DEF PrepareCutover
<1>9. CASE ExitSucceeds BY <1>9 DEF ExitSucceeds
<1>10. CASE KeyIsStale BY <1>10 DEF KeyIsStale
<1>11. CASE ExitFails BY <1>11 DEF ExitFails
<1>12. CASE FirmwareChangesMap
  <2>1. Lost \in {0, 1} /\ Outgrown \in {0, 1} /\ Lost' \in {0, 1} /\ Outgrown' \in {0, 1}
    OBVIOUS
  <2>2. attempt \in Nat /\ changes \in Nat /\ ChangesCap \in Nat
    OBVIOUS
  <2>3. attempt' = attempt /\ pc' = pc
    BY <1>12 DEF FirmwareChangesMap
  <2>4. changes' = ChangesCap \/ (changes # ChangesCap /\ changes' = changes + 1)
    BY <1>12 DEF FirmwareChangesMap
  <2>5. LoopInv'
    BY <2>3
  <2> HIDE DEF TypeOK, Lost, Outgrown
  <2>6. CASE changes # ChangesCap /\ changes' = changes + 1
    <3>1. attempt + Lost + Outgrown <= 2 * changes
      BY <2>6
    <3>2. attempt + Lost' + Outgrown' <= 2 * (changes + 1)
      BY <3>1, <2>1, <2>2, OneChangePaysForTwo
    <3> QED BY <2>3, <2>5, <2>6, <3>2
  <2>7. CASE changes' = ChangesCap
    BY <2>5, <2>7
  <2> QED BY <2>4, <2>6, <2>7
<1>13. CASE UNCHANGED vars BY <1>13 DEF vars
<1> QED
  BY <1>1, <1>2, <1>3, <1>4, <1>5, <1>6, <1>7, <1>8, <1>9, <1>10, <1>11,
     <1>12, <1>13 DEF Next, Loader, Done

LEMMA Invariance == Spec => []IInv
<1>1. IInv /\ [Next]_vars => IInv'
  BY TypeStep, BufferStep, KeysStep, ChargeStep DEF IInv
<1> QED BY InitIInv, <1>1, PTL DEF Spec

-----------------------------------------------------------------------------

\* Every variable keeps its range; the loop counter never passes its limit.
THEOREM HandoffTypes == Spec => []TypeOK
BY Invariance, PTL DEF IInv

\* The kernel only ever starts on tables built from the firmware's final map.
THEOREM FinalMapIsUsed == Spec => []KernelStartsOnTheFinalMap
<1>1. IInv => KernelStartsOnTheFinalMap
  BY DEF IInv, TypeOK, BufferInv, OneMapBuffer, KeysInv, KernelStartsOnTheFinalMap,
         NO_BUFFER
<1> QED BY Invariance, <1>1, PTL

\* No map buffer is leaked or given back while it is used.
THEOREM BufferIsUnique == Spec => []OneMapBuffer
<1>1. IInv => OneMapBuffer
  BY DEF IInv, BufferInv
<1> QED BY Invariance, <1>1, PTL

\* Every lost attempt is paid for by a change of the firmware's.
THEOREM AttemptsCharged == Spec => []AttemptsAreCharged
<1>1. IInv => AttemptsAreCharged
  BY DEF IInv, TypeOK, ChargeInv, Lost, Outgrown, AttemptsAreCharged, MapState, Sizes
<1> QED BY Invariance, <1>1, PTL
=============================================================================
