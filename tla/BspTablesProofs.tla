-------------------------- MODULE BspTablesProofs --------------------------
(***************************************************************************)
(* The scheduler's tables that no lock protects, only IF=0 on the BSP: the *)
(* stack cache, the deadline table of sleepers and the wait queue's ring,  *)
(* for any number of stacks and threads and any capacity of the tables.    *)
(***************************************************************************)
EXTENDS Blocking, StackCache, WellFoundedInduction, FiniteSetTheorems, SequenceTheorems, TLAPS

-----------------------------------------------------------------------------
(* The stack cache.                                                        *)

LEMMA InitEstablishesCacheIInv == CacheInit => CacheIInv
  BY StackCacheAssumption
     DEF CacheInit, CacheIInv, CacheTypeOK, OneHolder, HeldOK, Cached, Entries, Sizes

\* The steps of the creator that leave the entries alone.
LEMMA CreatorMoves ==
  ASSUME CacheIInv,
         \/ \E n \in Sizes : Create(n)
         \/ Look \/ Allocate \/ Publish \/ GiveBack \/ PutFind
  PROVE  CacheIInv'
<1> USE StackCacheAssumption DEF CacheIInv, CacheTypeOK, OneHolder, HeldOK, Cached, Entries
<1>1. CASE \E n \in Sizes : Create(n)
  BY <1>1 DEF Create, Sizes
<1>2. CASE Look
  BY <1>2 DEF Look
<1>3. CASE Allocate
  BY <1>3 DEF Allocate
<1>4. CASE Publish
  BY <1>4 DEF Publish
<1>5. CASE GiveBack
  BY <1>5 DEF GiveBack
<1>6. CASE PutFind
  BY <1>6 DEF PutFind, IsFirstEmpty, Full
<1>7. QED
  BY <1>1, <1>2, <1>3, <1>4, <1>5, <1>6

\* The creator's four stores.
LEMMA CreatorStores ==
  ASSUME CacheIInv,
         ClearBase \/ ClearPages \/ StoreBase \/ StorePages
  PROVE  CacheIInv'
<1> USE StackCacheAssumption DEF CacheIInv, CacheTypeOK, OneHolder, HeldOK, Cached, Entries
<1>1. CASE ClearBase
  BY <1>1 DEF ClearBase
<1>2. CASE ClearPages
  BY <1>2 DEF ClearPages
<1>3. CASE StoreBase
  BY <1>3 DEF StoreBase
<1>4. CASE StorePages
  BY <1>4 DEF StorePages, Sizes
<1>5. QED
  BY <1>1, <1>2, <1>3, <1>4

\* The reaper fills an entry that is empty, whatever the creator is doing.
LEMMA ReaperPuts ==
  ASSUME CacheIInv, NEW s \in Stacks, Reap(s)
  PROVE  CacheIInv'
<1> USE StackCacheAssumption
       DEF CacheIInv, CacheTypeOK, OneHolder, HeldOK, Cached, Entries, Reap, Kept
<1>1. CASE free' = free \cup {s} /\ UNCHANGED <<bases, pages>>
  BY <1>1
<1>2. CASE /\ s \notin Cached
           /\ \E e \in Entries : /\ IsFirstEmpty(e)
                                 /\ bases' = [bases EXCEPT ![e] = s]
                                 /\ pages' = PagesPut(e, s)
           /\ UNCHANGED free
  <2>1. PICK e \in Entries : /\ bases[e] = NoStack
                             /\ bases' = [bases EXCEPT ![e] = s]
                             /\ pages' = [pages EXCEPT ![e] = PagesOf[s]]
    BY <1>2 DEF IsFirstEmpty, PagesPut
  <2>2. CacheTypeOK'
    BY <1>2, <2>1 DEF Sizes
  <2>3. OneHolder'
    BY <1>2, <2>1
  <2>4. HeldOK'
    BY <1>2, <2>1
  <2>5. QED
    BY <2>2, <2>3, <2>4
<1>3. QED
  BY <1>1, <1>2

\* Every reachable state satisfies the inductive invariant.
THEOREM CacheInvariance == CacheSpec => []CacheIInv
<1>1. CacheInit => CacheIInv
  BY InitEstablishesCacheIInv
<1>2. CacheIInv /\ [CacheNext]_cacheVars => CacheIInv'
  <2>1. ASSUME CacheIInv, CacheNext PROVE CacheIInv'
    BY <2>1, CreatorMoves, CreatorStores, ReaperPuts DEF CacheNext
  <2>2. ASSUME CacheIInv, UNCHANGED cacheVars PROVE CacheIInv'
    BY <2>2 DEF cacheVars, CacheIInv, CacheTypeOK, OneHolder, HeldOK, Cached
  <2>3. QED
    BY <2>1, <2>2
<1>3. QED
  BY <1>1, <1>2, PTL DEF CacheSpec

\* No stack is ever in two entries, or in an entry and with the PMM or a
\* thread: the unlocked cache never hands a stack out twice to its one
\* creator (scheduler_stack_cache_take and _put).
THEOREM StacksHaveOneHolder == CacheSpec => []OneHolder
<1>1. CacheIInv => OneHolder
  BY DEF CacheIInv
<1>2. QED
  BY <1>1, CacheInvariance, PTL

\* Every entry is empty or names a stack, with a size some stack has or 0.
THEOREM CacheTypeCorrect == CacheSpec => []CacheTypeOK
<1>1. CacheIInv => CacheTypeOK
  BY DEF CacheIInv
<1>2. QED
  BY CacheInvariance, <1>1, PTL

\* Between any two of its stores the creator still owns what it took, and the
\* entry it is about to write is still its own (scheduler_stack_cache_take).
THEOREM CreatorOwnsItsEntry == CacheSpec => []HeldOK
<1>1. CacheIInv => HeldOK
  BY DEF CacheIInv
<1>2. QED
  BY CacheInvariance, <1>1, PTL

-----------------------------------------------------------------------------
(* Sleep and wait queue: the inductive invariant.                          *)

\* Only the BSP runs threads that block, and what is RUNNING runs there.
PinnedInv ==
  /\ \A c \in CPUs : run[c] # NONE => c = BSP
  /\ \A t \in Threads : state[t] = "running" <=> run[BSP] = t
  /\ \A t \in Threads : state[t] = "blocked" => pc[t] # "code"

\* The ring holds the blocked threads of the wait queue, each once.
QueueInv ==
  /\ tail = (head + count) % QueueCap
  /\ \A j \in 1 .. count : state[Waiting[j]] = "blocked" /\ pc[Waiting[j]] = "waiting"
  /\ \A j, k \in 1 .. count : Waiting[j] = Waiting[k] => j = k
  /\ \A t \in Threads : state[t] = "blocked" /\ pc[t] = "waiting" =>
                          \E j \in 1 .. count : Waiting[j] = t

\* The table holds the blocked sleepers, each once and with its deadline; a
\* sleeper that is not blocked is past it, and only the slot the timer's scan
\* is just clearing may still name it.
SleepInv ==
  /\ \A k \in SleepSlots : sleeper[k] # NONE =>
       /\ pc[sleeper[k]] = "asleep"
       /\ deadline[sleeper[k]] = wakeTick[k]
       /\ state[sleeper[k]] = "blocked" <=> ~(woken /\ scan = k)
  /\ \A j, k \in SleepSlots : sleeper[j] = sleeper[k] /\ sleeper[k] # NONE => j = k
  /\ \A t \in Threads : state[t] = "blocked" /\ pc[t] = "asleep" =>
                          \E k \in SleepSlots : sleeper[k] = t
  /\ \A t \in Threads : pc[t] = "asleep" /\ state[t] # "blocked" => tick >= deadline[t]
  /\ woken => scan # NONE /\ sleeper[scan] # NONE

IInv == TypeOK /\ PinnedInv /\ QueueInv /\ SleepInv

-----------------------------------------------------------------------------
(* Facts about the operators.                                              *)

LEMMA Ranges ==
  /\ NONE \notin Threads /\ NONE \notin SleepSlots
  /\ BSP \in CPUs
  /\ QueueCap \in Nat \ {0} /\ SleepCap \in Nat /\ MaxTick \in Nat
  /\ Positions = 0 .. QueueCap - 1
  BY NumCPUsAssumption, NumThreadsAssumption, QueueCapAssumption, SleepCapAssumption,
     MaxTickAssumption
     DEF NONE, Threads, SleepSlots, BSP, CPUs, Positions

\* scheduler_sleep_find_free_locked answers with a free slot when there is one.
LEMMA FirstIsMember ==
  ASSUME NEW S, S \subseteq SleepSlots, S # {}
  PROVE  First(S) \in S
<1>1. S \subseteq Nat
  BY SleepCapAssumption DEF SleepSlots
<1>2. PICK m \in S : \A x \in S : ~ (<<x, m>> \in OpToRel(<, Nat))
  BY <1>1, NatLessThanWellFounded, WFMin, Zenon
<1>3. ASSUME NEW x \in S PROVE ~(x < m)
  <2>1. <<x, m>> \in Nat \X Nat
    BY <1>1
  <2>2. ~(<<x, m>>[1] < <<x, m>>[2])
    BY <1>2, <2>1, Zenon DEF OpToRel
  <2>3. QED
    BY <2>2
<1>4. \A x \in S : m <= x
  BY <1>1, <1>3
<1>5. QED
  BY <1>4 DEF First

\* The cells of the ring from the head on are distinct until it wraps to it.
Cell(h, j) == (h + j - 1) % QueueCap

LEMMA CellsAreDistinct ==
  ASSUME NEW h \in Positions, NEW j \in 1 .. QueueCap, NEW k \in 1 .. QueueCap,
         Cell(h, j) = Cell(h, k)
  PROVE  j = k
<1>1. h \in 0 .. QueueCap - 1 /\ QueueCap \in Nat \ {0}
  BY Ranges
<1>2. QED
  BY <1>1 DEF Cell

LEMMA CellInRing ==
  ASSUME NEW h \in Positions, NEW j \in 1 .. 2 * QueueCap
  PROVE  Cell(h, j) \in Positions
<1>1. h \in 0 .. QueueCap - 1 /\ QueueCap \in Nat \ {0}
  BY Ranges
<1>2. QED
  BY <1>1, Ranges DEF Cell

\* After n pops the j-th cell is what the (n + j)-th was.
LEMMA CellsShift ==
  ASSUME NEW h \in Positions, NEW n \in 0 .. QueueCap, NEW j \in 1 .. QueueCap
  PROVE  Cell((h + n) % QueueCap, j) = Cell(h, n + j)
<1>1. h \in 0 .. QueueCap - 1 /\ QueueCap \in Nat \ {0}
  BY Ranges
<1> DEFINE q == QueueCap
<1>2. CASE h + n < q
  BY <1>1, <1>2 DEF Cell
<1>3. CASE h + n >= q
  <2>1. (h + n) % q = h + n - q
    BY <1>1, <1>3
  <2>2. (h + n - q + j - 1) % q = (h + n + j - 1) % q
    BY <1>1, <1>3
  <2>3. QED
    BY <2>1, <2>2, <1>1 DEF Cell
<1>4. QED
  BY <1>1, <1>2, <1>3

LEMMA WaitingIsRing ==
  ASSUME TypeOK
  PROVE  /\ Waiting = [j \in 1 .. count |-> ring[Cell(head, j)]]
         /\ Waiting \in [1 .. count -> Threads]
         /\ count \in 0 .. QueueCap /\ head \in Positions
<1>1. count \in 0 .. QueueCap /\ head \in Positions /\ ring \in [Positions -> Threads]
  BY DEF TypeOK
<1>2. \A j \in 1 .. count : ring[Cell(head, j)] \in Threads
  BY <1>1, CellInRing, Ranges
<1>3. Waiting = [j \in 1 .. count |-> ring[Cell(head, j)]]
  BY DEF Waiting, Cell
<1>4. QED
  BY <1>1, <1>2, <1>3

-----------------------------------------------------------------------------
(* The wait queue.                                                         *)

\* Only the BSP executes threads that block, outside its timer interrupt.
LEMMA ExecutesOnBsp ==
  ASSUME IInv, NEW c \in CPUs, NEW t \in Threads, Executes(c, t)
  PROVE  c = BSP /\ run[BSP] = t /\ state[t] = "running" /\ scan = NONE /\ ~woken
  BY Ranges DEF IInv, PinnedInv, SleepInv, Executes

\* wait_queue_push_locked appends.
LEMMA SleepAppends ==
  ASSUME TypeOK, QueueInv, NEW c \in CPUs, NEW t \in Threads, QueueSleep(c, t)
  PROVE  /\ count' = count + 1 /\ count < QueueCap
         /\ Waiting' \in [1 .. count + 1 -> Threads]
         /\ \A j \in 1 .. count : Waiting'[j] = Waiting[j]
         /\ Waiting'[count + 1] = t
         /\ tail' = (head + count + 1) % QueueCap
<1>1. /\ head' = head /\ count' = count + 1 /\ count < QueueCap
      /\ ring' = [ring EXCEPT ![tail] = t]
      /\ tail' = (tail + 1) % QueueCap
  BY DEF QueueSleep, Room, Advance
<1>2. /\ QueueCap \in Nat \ {0} /\ count \in 0 .. QueueCap - 1 /\ head \in Positions
      /\ head \in 0 .. QueueCap - 1 /\ ring \in [Positions -> Threads]
  BY <1>1, Ranges DEF TypeOK
<1>3. tail = Cell(head, count + 1)
  BY <1>2 DEF QueueInv, Cell
<1>4. ring' \in [Positions -> Threads] /\ tail \in Positions
  BY <1>1, <1>2 DEF TypeOK
<1>5. \A j \in 1 .. count + 1 : Cell(head, j) \in Positions
  BY <1>2, CellInRing
<1>6. Waiting' = [j \in 1 .. count + 1 |-> ring'[Cell(head, j)]]
  BY <1>1 DEF Waiting, Cell
<1>7. \A j \in 1 .. count : ring'[Cell(head, j)] = ring[Cell(head, j)]
  <2>1. TAKE j \in 1 .. count
  <2>2. Cell(head, j) # tail
    BY <1>2, <1>3, CellsAreDistinct
  <2>3. QED
    BY <2>2, <1>1, <1>2, <1>5
<1>8. \A j \in 1 .. count : Waiting[j] = ring[Cell(head, j)]
  BY WaitingIsRing
<1>9. tail' = (head + count + 1) % QueueCap
  <2>1. tail = (head + count) % QueueCap
    BY DEF QueueInv
  <2>2. CASE head + count < QueueCap
    BY <1>1, <1>2, <2>1, <2>2
  <2>3. CASE head + count >= QueueCap
    <3>1. tail = head + count - QueueCap
      BY <1>2, <2>1, <2>3
    <3>2. (head + count - QueueCap + 1) % QueueCap = (head + count + 1) % QueueCap
      BY <1>2, <2>3
    <3>3. QED
      BY <1>1, <3>1, <3>2
  <2>4. QED
    BY <1>2, <2>2, <2>3
<1>10. Waiting'[count + 1] = t
  <2>1. Waiting'[count + 1] = ring'[Cell(head, count + 1)]
    BY <1>2, <1>6
  <2>2. QED
    BY <1>1, <1>2, <1>3, <1>4, <2>1
<1>11. Waiting' \in [1 .. count + 1 -> Threads]
  BY <1>4, <1>5, <1>6
<1>12. ASSUME NEW j \in 1 .. count PROVE Waiting'[j] = Waiting[j]
  <2>1. j \in 1 .. count + 1
    BY <1>2
  <2>2. QED
    BY <2>1, <1>6, <1>7, <1>8
<1>13. QED
  BY <1>1, <1>9, <1>10, <1>11, <1>12

\* A thread that calls scheduler_wait_queue_sleep becomes the last of the ring.
LEMMA QueueSleepKeepsIInv ==
  ASSUME IInv, NEW c \in CPUs, NEW t \in Threads, QueueSleep(c, t)
  PROVE  IInv'
<1>1. /\ c = BSP /\ run[BSP] = t /\ state[t] = "running" /\ scan = NONE /\ ~woken
      /\ pc[t] = "code"
  BY ExecutesOnBsp DEF QueueSleep
<1>2. /\ state' = [state EXCEPT ![t] = "blocked"]
      /\ run' = [run EXCEPT ![BSP] = NONE]
      /\ pc' = [pc EXCEPT ![t] = "waiting"]
      /\ UNCHANGED <<head, sleepVars, timerVars, deadline, result>>
  BY <1>1 DEF QueueSleep, BlockOn
<1>3. TypeOK /\ QueueInv /\ PinnedInv /\ SleepInv
  BY DEF IInv
<1>4. /\ count' = count + 1 /\ count < QueueCap
      /\ Waiting' \in [1 .. count + 1 -> Threads]
      /\ \A j \in 1 .. count : Waiting'[j] = Waiting[j]
      /\ Waiting'[count + 1] = t
      /\ tail' = (head + count + 1) % QueueCap
  BY <1>3, SleepAppends
<1>5. Waiting \in [1 .. count -> Threads] /\ count \in 0 .. QueueCap
  BY <1>3, WaitingIsRing
<1>6. TypeOK'
  <2>1. tail' \in Positions
    BY <1>3, <1>4, Ranges DEF TypeOK
  <2>2. ring' \in [Positions -> Threads]
    BY <1>3, Ranges DEF TypeOK, QueueSleep
  <2>3. count' \in 0 .. QueueCap
    BY <1>4, <1>5, Ranges
  <2>4. QED
    BY <1>2, <1>3, <2>1, <2>2, <2>3, Ranges
       DEF TypeOK, sleepVars, timerVars
<1>7. PinnedInv'
  BY <1>1, <1>2, <1>3, Ranges DEF PinnedInv, TypeOK
<1>8. QueueInv'
  <2>1. \A j \in 1 .. count : Waiting[j] # t
    BY <1>1, <1>3 DEF QueueInv
  <2>0. /\ state'[t] = "blocked" /\ pc'[t] = "waiting"
        /\ \A u \in Threads : u # t => state'[u] = state[u] /\ pc'[u] = pc[u]
    BY <1>2, <1>3 DEF TypeOK
  <2>2. ASSUME NEW j \in 1 .. count + 1
        PROVE  state'[Waiting'[j]] = "blocked" /\ pc'[Waiting'[j]] = "waiting"
    <3>1. CASE j = count + 1
      BY <3>1, <1>4, <2>0
    <3>2. CASE j # count + 1
      <4>1. j \in 1 .. count
        BY <3>2, <1>5, Ranges
      <4>2. Waiting'[j] = Waiting[j] /\ Waiting[j] \in Threads /\ Waiting[j] # t
        BY <4>1, <1>4, <1>5, <2>1
      <4>3. QED
        BY <4>1, <4>2, <1>3, <2>0 DEF QueueInv
    <3>3. QED
      BY <3>1, <3>2
  <2>3. \A j, k \in 1 .. count + 1 : Waiting'[j] = Waiting'[k] => j = k
    BY <1>3, <1>4, <1>5, <2>1 DEF QueueInv
  <2>4. ASSUME NEW u \in Threads, state'[u] = "blocked", pc'[u] = "waiting"
        PROVE  \E j \in 1 .. count + 1 : Waiting'[j] = u
    <3>1. CASE u = t
      BY <3>1, <1>4, <1>5
    <3>2. CASE u # t
      <4>1. state[u] = "blocked" /\ pc[u] = "waiting"
        BY <3>2, <2>4, <1>2, <1>3 DEF TypeOK
      <4>2. PICK j \in 1 .. count : Waiting[j] = u
        BY <4>1, <1>3 DEF QueueInv
      <4>3. QED
        BY <4>2, <1>4, <1>5
    <3>3. QED
      BY <3>1, <3>2
  <2>5. tail' = (head' + count') % QueueCap
    BY <1>2, <1>4, <1>5, <1>3 DEF TypeOK, Positions
  <2>6. QED
    BY <1>4, <2>2, <2>3, <2>4, <2>5 DEF QueueInv
<1>9. SleepInv'
  <2>1. \A k \in SleepSlots : sleeper[k] # t
    BY <1>1, <1>3, Ranges DEF SleepInv
  <2>2. \A u \in Threads : u # t => state'[u] = state[u] /\ pc'[u] = pc[u]
    BY <1>2, <1>3 DEF TypeOK
  <2>3. state'[t] = "blocked" /\ pc'[t] = "waiting"
    BY <1>2, <1>3 DEF TypeOK
  <2>4. \A k \in SleepSlots : sleeper[k] # NONE => sleeper[k] \in Threads
    BY <1>3 DEF TypeOK
  <2>5. QED
    BY <1>2, <1>3, <2>1, <2>2, <2>3, <2>4 DEF SleepInv, sleepVars, timerVars
<1>10. QED
  BY <1>6, <1>7, <1>8, <1>9 DEF IInv

\* n pops remove the front of the ring.
LEMMA PopShifts ==
  ASSUME TypeOK, NEW n \in 1 .. count, Pop(n)
  PROVE  /\ count' = count - n
         /\ head' \in Positions
         /\ Waiting' = [j \in 1 .. count - n |-> Waiting[n + j]]
<1>1. /\ QueueCap \in Nat \ {0} /\ count \in 0 .. QueueCap /\ head \in Positions
      /\ head \in 0 .. QueueCap - 1 /\ n \in 1 .. QueueCap /\ n <= count
  BY Ranges DEF TypeOK
<1>2. /\ head' = (head + n) % QueueCap /\ count' = count - n
      /\ ring' = [p \in Positions |->
                    IF \E i \in 0 .. n - 1 : p = (head + i) % QueueCap THEN 0 ELSE ring[p]]
  BY DEF Pop
<1>3. head' \in Positions
  BY <1>1, <1>2, Ranges
<1>4. ASSUME NEW j \in 1 .. count - n
      PROVE  ring'[Cell(head', j)] = ring[Cell(head, n + j)]
  <2>1. j \in 1 .. QueueCap /\ n + j \in 1 .. QueueCap
    BY <1>1
  <2>2. Cell(head', j) = Cell(head, n + j) /\ Cell(head, n + j) \in Positions
    <3>1. n \in 0 .. QueueCap /\ n + j \in 1 .. 2 * QueueCap
      BY <1>1, <2>1
    <3>2. Cell((head + n) % QueueCap, j) = Cell(head, n + j)
      BY <1>1, <2>1, <3>1, CellsShift
    <3>3. QED
      BY <1>1, <1>2, <3>1, <3>2, CellInRing
  <2>3. ASSUME NEW i \in 0 .. n - 1, Cell(head, n + j) = (head + i) % QueueCap
        PROVE  FALSE
    <3>1. i + 1 \in 1 .. QueueCap /\ i + 1 # n + j
      BY <1>1
    <3>2. (head + i) % QueueCap = Cell(head, i + 1)
      BY <1>1, <3>1 DEF Cell
    <3>3. QED
      BY <1>1, <2>1, <2>3, <3>1, <3>2, CellsAreDistinct
  <2>4. QED
    BY <1>2, <2>2, <2>3
<1>5. Waiting' = [j \in 1 .. count - n |-> ring'[Cell(head', j)]]
  BY <1>2 DEF Waiting, Cell
<1>6. \A j \in 1 .. count - n : Waiting[n + j] = ring[Cell(head, n + j)]
  BY <1>1, WaitingIsRing
<1>7. QED
  BY <1>2, <1>3, <1>4, <1>5, <1>6

\* What both wake calls do to the rest: the popped threads, all of them
\* BLOCKED, become READY.
LEMMA PopKeepsIInv ==
  ASSUME IInv, NEW n \in 1 .. count, Pop(n),
         UNCHANGED <<run, tail, sleepVars, timerVars, callVars>>
  PROVE  IInv'
<1>1. TypeOK /\ QueueInv /\ PinnedInv /\ SleepInv
  BY DEF IInv
<1>2. /\ count' = count - n /\ head' \in Positions
      /\ Waiting' = [j \in 1 .. count - n |-> Waiting[n + j]]
  BY <1>1, PopShifts
<1>3. /\ Waiting \in [1 .. count -> Threads] /\ count \in 0 .. QueueCap /\ n \in 1 .. QueueCap
      /\ head \in 0 .. QueueCap - 1 /\ QueueCap \in Nat \ {0}
  BY <1>1, WaitingIsRing, Ranges
<1>4. /\ \A t \in Threads : (\E j \in 1 .. n : Waiting[j] = t) => state'[t] = "ready"
      /\ \A t \in Threads : (\A j \in 1 .. n : Waiting[j] # t) => state'[t] = state[t]
  BY <1>1, <1>3 DEF Pop, Wakeable, QueueInv
<1>5. state' \in [Threads -> {"ready", "running", "blocked"}]
  BY <1>1 DEF Pop, TypeOK
<1>6. \A t \in Threads : state'[t] # state[t] => state[t] = "blocked" /\ pc[t] = "waiting"
  BY <1>1, <1>3, <1>4 DEF QueueInv
<1>7. TypeOK'
  <2>1. ring' \in [Positions -> Threads]
    BY <1>1, NumThreadsAssumption DEF Pop, TypeOK, Threads
  <2>2. count' \in 0 .. QueueCap
    BY <1>2, <1>3
  <2>3. QED
    BY <1>1, <1>2, <1>5, <2>1, <2>2 DEF TypeOK, sleepVars, timerVars, callVars
<1>8. PinnedInv'
  <2>1. \A t \in Threads : state'[t] # state[t] => state[t] = "blocked" /\ state'[t] = "ready"
    BY <1>4, <1>6
  <2>2. QED
    BY <1>1, <2>1 DEF PinnedInv, callVars
<1>9. QueueInv'
  <2>1. tail' = (head' + count') % QueueCap
    <3>1. tail' = (head + count) % QueueCap /\ head' = (head + n) % QueueCap
      BY <1>1 DEF QueueInv, Pop
    <3>2. CASE head + n < QueueCap
      <4>1. head' = head + n
        BY <1>3, <3>1, <3>2
      <4>2. head + n + (count - n) = head + count
        BY <1>3
      <4>3. QED
        BY <1>2, <3>1, <4>1, <4>2
    <3>3. CASE head + n >= QueueCap
      <4>1. head' = head + n - QueueCap
        BY <1>3, <3>1, <3>3
      <4>2. (head + n - QueueCap + (count - n)) % QueueCap = (head + count) % QueueCap
        BY <1>3, <3>3
      <4>3. QED
        BY <1>2, <3>1, <4>1, <4>2
    <3>4. QED
      BY <1>3, <3>2, <3>3
  <2>2. ASSUME NEW j \in 1 .. count - n
        PROVE  /\ Waiting'[j] = Waiting[n + j] /\ Waiting[n + j] \in Threads
               /\ state'[Waiting'[j]] = "blocked" /\ pc'[Waiting'[j]] = "waiting"
    <3>1. n + j \in 1 .. count /\ \A i \in 1 .. n : i \in 1 .. count /\ i # n + j
      BY <1>3
    <3>2. \A i \in 1 .. n : Waiting[i] # Waiting[n + j]
      BY <1>1, <3>1 DEF QueueInv
    <3>3. state[Waiting[n + j]] = "blocked" /\ pc[Waiting[n + j]] = "waiting"
      BY <1>1, <3>1 DEF QueueInv
    <3>4. QED
      BY <1>2, <1>3, <1>4, <3>1, <3>2, <3>3 DEF callVars
  <2>3. ASSUME NEW j \in 1 .. count - n, NEW k \in 1 .. count - n, Waiting'[j] = Waiting'[k]
        PROVE  j = k
    <3>1. n + j \in 1 .. count /\ n + k \in 1 .. count
      BY <1>3
    <3>2. n + j = n + k
      BY <1>1, <3>1, <2>2, <2>3 DEF QueueInv
    <3>3. QED
      BY <3>2, <1>3
  <2>4. ASSUME NEW t \in Threads, state'[t] = "blocked", pc'[t] = "waiting"
        PROVE  \E j \in 1 .. count - n : Waiting'[j] = t
    <3>1. state[t] = "blocked" /\ pc[t] = "waiting" /\ \A j \in 1 .. n : Waiting[j] # t
      BY <1>4, <2>4 DEF callVars
    <3>2. PICK k \in 1 .. count : Waiting[k] = t
      BY <3>1, <1>1 DEF QueueInv
    <3>3. k - n \in 1 .. count - n /\ n + (k - n) = k
      BY <1>3, <3>1, <3>2
    <3>4. QED
      BY <2>2, <3>2, <3>3
  <2>5. QED
    BY <1>2, <2>1, <2>2, <2>3, <2>4 DEF QueueInv
<1>10. SleepInv'
  <2>1. \A t \in Threads : pc[t] = "asleep" => state'[t] = state[t]
    BY <1>6
  <2>2. \A k \in SleepSlots : sleeper[k] # NONE => sleeper[k] \in Threads
    BY <1>1 DEF TypeOK
  <2>3. QED
    BY <1>1, <2>1, <2>2 DEF SleepInv, sleepVars, timerVars, callVars
<1>11. QED
  BY <1>7, <1>8, <1>9, <1>10 DEF IInv

\* Every id in the ring is of a BLOCKED thread, so wake-one pops one.
LEMMA WakeOnePopsOne ==
  ASSUME IInv, count > 0
  PROVE  PopsOfWakeOne = 1 /\ 1 \in 1 .. count
<1>1. count \in Nat \ {0} /\ \A j \in 1 .. count : Wakeable(Waiting[j])
  BY WaitingIsRing, Ranges DEF IInv, QueueInv, Wakeable, TypeOK
<1>2. /\ 1 \in 1 .. count
      /\ \A i \in 1 .. 1 - 1 : ~Wakeable(Waiting[i])
      /\ 1 = count \/ Wakeable(Waiting[1])
  BY <1>1
<1>3. ASSUME NEW n \in 1 .. count, \A i \in 1 .. n - 1 : ~Wakeable(Waiting[i])
      PROVE  n = 1
  <2>1. CASE n > 1
    BY <1>1, <1>3, <2>1
  <2>2. QED
    BY <1>1, <2>1
<1>4. QED
  BY <1>2, <1>3 DEF PopsOfWakeOne

LEMMA WakeKeepsIInv ==
  ASSUME IInv, NEW c \in CPUs, NEW t \in Threads, WakeOne(c, t) \/ WakeAll(c, t)
  PROVE  IInv'
<1>1. CASE WakeOne(c, t)
  BY <1>1, WakeOnePopsOne, PopKeepsIInv DEF WakeOne
<1>2. CASE WakeAll(c, t)
  <2>1. count \in 1 .. count
    BY <1>2, Ranges DEF WakeAll, IInv, TypeOK
  <2>2. QED
    BY <1>2, <2>1, PopKeepsIInv DEF WakeAll
<1>3. QED
  BY <1>1, <1>2
-----------------------------------------------------------------------------
(* Sleep.                                                                  *)

LEMMA SleepTicksKeepsIInv ==
  ASSUME IInv, NEW c \in CPUs, NEW t \in Threads, NEW d \in Durations, SleepTicks(c, t, d)
  PROVE  IInv'
<1>1. /\ c = BSP /\ run[BSP] = t /\ state[t] = "running" /\ scan = NONE /\ ~woken
      /\ pc[t] = "code"
  BY ExecutesOnBsp DEF SleepTicks
<1>2. TypeOK /\ QueueInv /\ PinnedInv /\ SleepInv
  BY DEF IInv
<1> DEFINE k == First(FreeSleepSlots)
           w == tick + d
<1>3. k \in SleepSlots /\ sleeper[k] = NONE
  BY FirstIsMember DEF SleepTicks, FreeSleepSlots
<1>4. w \in 0 .. MaxTick
  BY <1>2, DurationsAssumption, Ranges DEF SleepTicks, TypeOK
<1>5. /\ sleeper' = [sleeper EXCEPT ![k] = t]
      /\ wakeTick' = [wakeTick EXCEPT ![k] = w]
      /\ deadline' = [deadline EXCEPT ![t] = w]
      /\ pc' = [pc EXCEPT ![t] = "asleep"]
      /\ result' = [result EXCEPT ![t] = "none"]
      /\ state' = [state EXCEPT ![t] = "blocked"]
      /\ run' = [run EXCEPT ![BSP] = NONE]
      /\ UNCHANGED <<ring, head, tail, count, tick, scan, woken>>
      /\ AsleepIn(t) = {}
  BY <1>1 DEF SleepTicks, BlockOn, queueVars, timerVars
<1> HIDE DEF k, w
<1>6. TypeOK'
  BY <1>2, <1>3, <1>4, <1>5, Ranges DEF TypeOK
<1>7. PinnedInv'
  BY <1>1, <1>2, <1>5, Ranges DEF PinnedInv, TypeOK
<1>8. \A u \in Threads :
        u # t => state'[u] = state[u] /\ pc'[u] = pc[u] /\ deadline'[u] = deadline[u]
  BY <1>2, <1>5 DEF TypeOK
<1>9. state'[t] = "blocked" /\ pc'[t] = "asleep" /\ deadline'[t] = w
  BY <1>2, <1>5 DEF TypeOK
<1>10. QueueInv'
  <2>1. Waiting' = Waiting
    BY <1>5 DEF Waiting
  <2>2. \A j \in 1 .. count : Waiting[j] \in Threads /\ Waiting[j] # t
    BY <1>1, <1>2, WaitingIsRing DEF QueueInv
  <2>3. QED
    BY <1>2, <1>5, <1>8, <1>9, <2>1, <2>2 DEF QueueInv
<1>11. SleepInv'
  <2>1. \A j \in SleepSlots : /\ sleeper[j] # t
                              /\ sleeper[j] # NONE => sleeper[j] \in Threads
    BY <1>2, <1>5 DEF AsleepIn, TypeOK
  <2>2. /\ sleeper'[k] = t /\ wakeTick'[k] = w
        /\ \A j \in SleepSlots : j # k => sleeper'[j] = sleeper[j] /\ wakeTick'[j] = wakeTick[j]
    BY <1>2, <1>3, <1>5 DEF TypeOK
  <2>3. ~woken'
    BY <1>1, <1>5
  <2>4. ASSUME NEW j \in SleepSlots, sleeper'[j] # NONE
        PROVE  /\ pc'[sleeper'[j]] = "asleep"
               /\ deadline'[sleeper'[j]] = wakeTick'[j]
               /\ state'[sleeper'[j]] = "blocked" <=> ~(woken' /\ scan' = j)
    <3>1. CASE j = k
      BY <3>1, <2>2, <2>3, <1>9
    <3>2. CASE j # k
      BY <3>2, <2>1, <2>2, <2>3, <2>4, <1>1, <1>2, <1>8 DEF SleepInv
    <3>3. QED
      BY <3>1, <3>2
  <2>5. \A i, j \in SleepSlots : sleeper'[j] = sleeper'[i] /\ sleeper'[i] # NONE => j = i
    BY <1>2, <2>1, <2>2 DEF SleepInv
  <2>6. ASSUME NEW u \in Threads, state'[u] = "blocked", pc'[u] = "asleep"
        PROVE  \E j \in SleepSlots : sleeper'[j] = u
    <3>1. CASE u = t
      BY <3>1, <1>3, <2>2
    <3>2. CASE u # t
      <4>1. PICK j \in SleepSlots : sleeper[j] = u
        BY <3>2, <2>6, <1>8, <1>2 DEF SleepInv
      <4>2. j # k
        BY <4>1, <1>3, Ranges
      <4>3. QED
        BY <4>1, <4>2, <2>2
    <3>3. QED
      BY <3>1, <3>2
  <2>7. \A u \in Threads : pc'[u] = "asleep" /\ state'[u] # "blocked" => tick' >= deadline'[u]
    BY <1>2, <1>5, <1>8, <1>9 DEF SleepInv
  <2>8. QED
    BY <2>3, <2>4, <2>5, <2>6, <2>7 DEF SleepInv
<1>12. QED
  BY <1>6, <1>7, <1>10, <1>11 DEF IInv

\* A sleeper that runs again is out of the table and past its deadline.
LEMMA ReturnsInTime ==
  ASSUME IInv, NEW c \in CPUs, NEW t \in Threads, SleepVerify(c, t)
  PROVE  AsleepIn(t) = {} /\ tick >= deadline[t]
<1>1. state[t] = "running" /\ ~woken /\ pc[t] = "asleep"
  BY ExecutesOnBsp DEF SleepVerify
<1>2. \A k \in SleepSlots : sleeper[k] # t
  BY <1>1, Ranges DEF IInv, SleepInv
<1>3. QED
  BY <1>1, <1>2 DEF IInv, SleepInv, AsleepIn

\* The calls that neither block nor wake, and the returns.
LEMMA ReturnsKeepIInv ==
  ASSUME IInv, NEW c \in CPUs, NEW t \in Threads,
         \/ QueueResume(c, t) \/ SleepVerify(c, t)
         \/ \E d \in Durations : SleepRefuses(c, t, d)
  PROVE  IInv'
<1>1. TypeOK /\ QueueInv /\ PinnedInv /\ SleepInv
  BY DEF IInv
<1>2. CASE \E d \in Durations : SleepRefuses(c, t, d)
  <2>1. result' \in [Threads -> {"none", "true", "false"}]
    BY <1>1, <1>2 DEF SleepRefuses, TypeOK
  <2>2. UNCHANGED <<state, run, queueVars, sleepVars, timerVars, pc, deadline>>
    BY <1>2 DEF SleepRefuses
  <2>3. TypeOK'
    BY <1>1, <2>1, <2>2 DEF TypeOK, queueVars, sleepVars, timerVars
  <2>4. Waiting' = Waiting
    BY <2>2 DEF Waiting, queueVars
  <2>5. PinnedInv' /\ QueueInv' /\ SleepInv'
    BY <1>1, <2>2, <2>4 DEF PinnedInv, QueueInv, SleepInv, queueVars, sleepVars, timerVars
  <2>6. QED
    BY <2>3, <2>5 DEF IInv
<1>3. CASE QueueResume(c, t) \/ SleepVerify(c, t)
  <2>1. state[t] = "running" /\ ~woken
    BY <1>3, ExecutesOnBsp DEF QueueResume, SleepVerify
  <2>2. UNCHANGED <<state, run, queueVars, timerVars, sleeper, wakeTick>>
    <3>1. CASE QueueResume(c, t)
      BY <3>1 DEF QueueResume, sleepVars
    <3>2. CASE SleepVerify(c, t)
      <4>1. AsleepIn(t) = {}
        BY <3>2, ReturnsInTime
      <4>2. sleeper' = sleeper /\ wakeTick' = wakeTick
        BY <4>1, <3>2, <1>1 DEF SleepVerify, TypeOK
      <4>3. QED
        BY <3>2, <4>2 DEF SleepVerify
    <3>3. QED
      BY <1>3, <3>1, <3>2
  <2>3. /\ pc' = [pc EXCEPT ![t] = "code"]
        /\ deadline' \in [Threads -> 0 .. MaxTick]
        /\ \A u \in Threads : u # t => deadline'[u] = deadline[u]
        /\ result' \in [Threads -> {"none", "true", "false"}]
    BY <1>1, <1>3, Ranges DEF QueueResume, SleepVerify, TypeOK
  <2>4. TypeOK'
    BY <1>1, <2>2, <2>3 DEF TypeOK, queueVars, timerVars
  <2>5. /\ pc'[t] = "code"
        /\ \A u \in Threads : u # t => pc'[u] = pc[u]
    BY <1>1, <2>3 DEF TypeOK
  <2>6. PinnedInv'
    BY <1>1, <2>1, <2>2, <2>5 DEF PinnedInv
  <2>7. QueueInv'
    <3>1. Waiting' = Waiting
      BY <2>2 DEF Waiting, queueVars
    <3>2. \A j \in 1 .. count : Waiting[j] \in Threads /\ Waiting[j] # t
      BY <1>1, <2>1, WaitingIsRing DEF QueueInv
    <3>3. QED
      BY <1>1, <2>1, <2>2, <2>5, <3>1, <3>2 DEF QueueInv, queueVars
  <2>8. SleepInv'
    <3>1. \A k \in SleepSlots : /\ sleeper[k] # t
                                /\ sleeper[k] # NONE => sleeper[k] \in Threads
      BY <1>1, <2>1, Ranges DEF SleepInv, TypeOK
    <3>2. QED
      BY <1>1, <2>1, <2>2, <2>3, <2>5, <3>1 DEF SleepInv, timerVars
  <2>9. QED
    BY <2>4, <2>6, <2>7, <2>8 DEF IInv
<1>4. QED
  BY <1>2, <1>3
-----------------------------------------------------------------------------
(* The timer interrupt and the scheduler.                                  *)

LEMMA TickBeginKeepsIInv == ASSUME IInv, TickBegin PROVE IInv'
<1>1. TypeOK /\ QueueInv /\ PinnedInv /\ SleepInv
  BY DEF IInv
<1>2. /\ scan = NONE /\ scan' = 0 /\ 0 \in SleepSlots /\ ~woken
      /\ tick \in Nat /\ tick' \in 0 .. MaxTick /\ tick' >= tick
      /\ UNCHANGED <<state, run, queueVars, sleepVars, woken, callVars>>
  BY <1>1, Ranges DEF TickBegin, TypeOK, SleepInv, SleepSlots
<1>3. TypeOK'
  BY <1>1, <1>2 DEF TypeOK, queueVars, sleepVars, callVars
<1>4. Waiting' = Waiting
  BY <1>2 DEF Waiting, queueVars
<1>5. PinnedInv' /\ QueueInv'
  BY <1>1, <1>2, <1>4 DEF PinnedInv, QueueInv, queueVars, callVars
<1>6. \A t \in Threads : deadline[t] \in Nat
  BY <1>1, Ranges DEF TypeOK
<1>7. SleepInv'
  BY <1>1, <1>2, <1>6 DEF SleepInv, sleepVars, callVars
<1>8. QED
  BY <1>3, <1>5, <1>7 DEF IInv

\* scheduler_wake_thread from the scan: the slot still names a READY thread.
LEMMA TickWakesKeepsIInv == ASSUME IInv, TickWakes PROVE IInv'
<1>1. TypeOK /\ QueueInv /\ PinnedInv /\ SleepInv
  BY DEF IInv
<1> DEFINE s == sleeper[scan]
<1>2. /\ scan \in SleepSlots /\ s \in Threads /\ state[s] = "blocked"
      /\ pc[s] = "asleep" /\ deadline[s] = wakeTick[scan] /\ tick >= wakeTick[scan]
      /\ ~woken /\ woken'
      /\ state' = [state EXCEPT ![s] = "ready"]
      /\ UNCHANGED <<run, queueVars, sleepVars, tick, scan, callVars>>
  BY <1>1 DEF TickWakes, WakeIsDue, Due, Wakeable, TypeOK, SleepInv
<1>3. sleeper' = sleeper /\ sleeper[scan] # NONE /\ s = sleeper[scan]
  BY <1>2, Ranges DEF sleepVars
<1> HIDE DEF s
<1>4. /\ state'[s] = "ready"
      /\ \A t \in Threads : t # s => state'[t] = state[t]
  BY <1>1, <1>2 DEF TypeOK
<1>5. TypeOK'
  <2>1. woken' = TRUE
    BY DEF TickWakes
  <2>2. QED
    BY <1>1, <1>2, <2>1 DEF TypeOK, queueVars, sleepVars, callVars
<1>6. PinnedInv'
  BY <1>1, <1>2, <1>4 DEF PinnedInv, callVars
<1>7. QueueInv'
  <2>1. Waiting' = Waiting
    BY <1>2 DEF Waiting, queueVars
  <2>2. \A j \in 1 .. count : Waiting[j] \in Threads /\ Waiting[j] # s
    BY <1>1, <1>2, WaitingIsRing DEF QueueInv
  <2>3. QED
    BY <1>1, <1>2, <1>4, <2>1, <2>2 DEF QueueInv, queueVars, callVars
<1>8. SleepInv'
  <2>1. \A k \in SleepSlots : k # scan => sleeper[k] # s
    BY <1>1, <1>2, <1>3 DEF SleepInv
  <2>2. \A k \in SleepSlots : sleeper[k] # NONE => sleeper[k] \in Threads
    BY <1>1 DEF TypeOK
  <2>3. ASSUME NEW k \in SleepSlots, sleeper[k] # NONE
        PROVE  /\ pc'[sleeper'[k]] = "asleep"
               /\ deadline'[sleeper'[k]] = wakeTick'[k]
               /\ state'[sleeper'[k]] = "blocked" <=> ~(woken' /\ scan' = k)
    <3>1. pc'[sleeper'[k]] = "asleep" /\ deadline'[sleeper'[k]] = wakeTick'[k]
      BY <1>1, <1>2, <2>3 DEF SleepInv, sleepVars, callVars
    <3>2. CASE k = scan
      BY <3>1, <3>2, <1>2, <1>3, <1>4
    <3>3. CASE k # scan
      BY <3>1, <3>3, <1>1, <1>2, <1>3, <1>4, <2>1, <2>2, <2>3 DEF SleepInv
    <3>4. QED
      BY <3>2, <3>3
  <2>4. \A t \in Threads : state'[t] = "blocked" /\ pc'[t] = "asleep" =>
                             \E k \in SleepSlots : sleeper'[k] = t
    BY <1>1, <1>2, <1>3, <1>4 DEF SleepInv, callVars
  <2>5. \A t \in Threads : pc'[t] = "asleep" /\ state'[t] # "blocked" => tick' >= deadline'[t]
    BY <1>1, <1>2, <1>4 DEF SleepInv, callVars
  <2>6. QED
    BY <1>1, <1>2, <1>3, Ranges, <2>3, <2>4, <2>5 DEF SleepInv
<1>9. QED
  BY <1>5, <1>6, <1>7, <1>8 DEF IInv

\* The scan leaves a slot: cleared when its thread was woken, else as it is.
LEMMA TickAdvancesKeepsIInv == ASSUME IInv, TickAdvances PROVE IInv'
<1>1. TypeOK /\ QueueInv /\ PinnedInv /\ SleepInv
  BY DEF IInv
<1>2. /\ scan \in SleepSlots /\ woken' = FALSE
      /\ scan' = NextScan
      /\ sleeper' = [sleeper EXCEPT ![scan] = IF woken THEN NONE ELSE @]
      /\ wakeTick' = [wakeTick EXCEPT ![scan] = IF woken THEN 0 ELSE @]
      /\ UNCHANGED <<state, run, queueVars, tick, callVars>>
  BY <1>1 DEF TickAdvances, TypeOK
<1>3. NextScan \in SleepSlots \cup {NONE}
  BY <1>2, Ranges DEF NextScan, SleepSlots
<1>4. /\ woken => sleeper'[scan] = NONE
      /\ ~woken => sleeper' = sleeper /\ wakeTick' = wakeTick
      /\ \A k \in SleepSlots : k # scan => sleeper'[k] = sleeper[k] /\ wakeTick'[k] = wakeTick[k]
  BY <1>1, <1>2 DEF TypeOK
<1>5. TypeOK'
  <2>1. sleeper' \in [SleepSlots -> Threads \cup {NONE}]
    BY <1>1, <1>2 DEF TypeOK
  <2>2. wakeTick' \in [SleepSlots -> 0 .. MaxTick]
    BY <1>1, <1>2, Ranges DEF TypeOK
  <2>3. QED
    BY <1>1, <1>2, <1>3, <2>1, <2>2 DEF TypeOK, queueVars, callVars
<1>6. Waiting' = Waiting
  BY <1>2 DEF Waiting, queueVars
<1>7. PinnedInv' /\ QueueInv'
  BY <1>1, <1>2, <1>6 DEF PinnedInv, QueueInv, queueVars, callVars
<1>8. SleepInv'
  <2>1. \A k \in SleepSlots : sleeper'[k] # NONE => /\ sleeper'[k] = sleeper[k]
                                                    /\ wakeTick'[k] = wakeTick[k]
                                                    /\ ~(woken /\ scan = k)
    BY <1>4
  <2>2. ASSUME NEW t \in Threads, state[t] = "blocked", pc[t] = "asleep"
        PROVE  \E k \in SleepSlots : sleeper'[k] = t
    <3>1. PICK k \in SleepSlots : sleeper[k] = t
      BY <1>1, <2>2 DEF SleepInv
    <3>2. ~(woken /\ scan = k)
      BY <1>1, <2>2, <3>1, Ranges DEF SleepInv
    <3>3. QED
      BY <1>4, <3>1, <3>2
  <2>3. QED
    BY <1>1, <1>2, <2>1, <2>2 DEF SleepInv, callVars
<1>9. QED
  BY <1>5, <1>7, <1>8 DEF IInv

\* Dispatch and preemption move a thread between READY and RUNNING on the BSP.
LEMMA SwitchKeepsIInv ==
  ASSUME IInv, NEW c \in CPUs, NEW t \in Threads, Dispatch(c, t) \/ Preempt(c, t)
  PROVE  IInv'
<1>1. TypeOK /\ QueueInv /\ PinnedInv /\ SleepInv
  BY DEF IInv
<1>2. /\ c = BSP /\ ~woken
      /\ UNCHANGED <<queueVars, sleepVars, timerVars, callVars>>
  <2>1. CASE Dispatch(c, t)
    BY <1>1, <2>1, Ranges DEF Dispatch, MayRunOn, SleepInv
  <2>2. CASE Preempt(c, t)
    BY <2>2, ExecutesOnBsp DEF Preempt
  <2>3. QED
    BY <2>1, <2>2
<1>3. /\ state[t] \in {"ready", "running"} /\ state'[t] \in {"ready", "running"}
      /\ \A u \in Threads : u # t => state'[u] = state[u]
      /\ state' \in [Threads -> {"ready", "running", "blocked"}]
  <2>1. CASE Dispatch(c, t)
    BY <1>1, <2>1 DEF Dispatch, TypeOK
  <2>2. CASE Preempt(c, t)
    BY <1>1, <2>2, ExecutesOnBsp DEF Preempt, TypeOK
  <2>3. QED
    BY <2>1, <2>2
<1>4. TypeOK'
  <2>1. run' \in [CPUs -> Threads \cup {NONE}]
    BY <1>1, Ranges DEF Dispatch, Preempt, TypeOK
  <2>2. QED
    BY <1>1, <1>2, <1>3, <2>1 DEF TypeOK, queueVars, sleepVars, timerVars, callVars
<1>5. PinnedInv'
  <2>1. CASE Dispatch(c, t)
    BY <1>1, <1>2, <2>1, Ranges DEF Dispatch, PinnedInv, TypeOK, callVars
  <2>2. CASE Preempt(c, t)
    BY <1>1, <1>2, <2>2, ExecutesOnBsp, Ranges DEF Preempt, PinnedInv, TypeOK, callVars
  <2>3. QED
    BY <2>1, <2>2
<1>6. \A u \in Threads : state'[u] = "blocked" <=> state[u] = "blocked"
  BY <1>3
<1>7. QueueInv'
  <2>1. Waiting' = Waiting
    BY <1>2 DEF Waiting, queueVars
  <2>2. \A j \in 1 .. count : Waiting[j] \in Threads
    BY <1>1, WaitingIsRing
  <2>3. QED
    BY <1>1, <1>2, <1>6, <2>1, <2>2 DEF QueueInv, queueVars, callVars
<1>8. SleepInv'
  <2>1. \A k \in SleepSlots : sleeper[k] # NONE => sleeper[k] \in Threads
    BY <1>1 DEF TypeOK
  <2>2. QED
    BY <1>1, <1>2, <1>6, <2>1 DEF SleepInv, sleepVars, timerVars, callVars
<1>9. QED
  BY <1>4, <1>5, <1>7, <1>8 DEF IInv

LEMMA InitEstablishesIInv == Init => IInv
<1> SUFFICES ASSUME Init PROVE IInv
  OBVIOUS
<1>1. TypeOK
  <2>1. 0 \in Threads /\ 0 \in Positions /\ 0 \in 0 .. QueueCap /\ 0 \in 0 .. MaxTick
    BY Ranges, NumThreadsAssumption DEF Threads
  <2>2. /\ state \in [Threads -> {"ready", "running", "blocked"}]
        /\ run \in [CPUs -> Threads \cup {NONE}]
    BY <2>1 DEF Init
  <2>3. QED
    BY <2>1, <2>2 DEF Init, TypeOK
<1>2. PinnedInv
  BY Ranges, NumThreadsAssumption DEF Init, PinnedInv, Threads
<1>3. QueueInv
  BY Ranges DEF Init, QueueInv
<1>4. SleepInv
  BY Ranges DEF Init, SleepInv
<1>5. QED
  BY <1>1, <1>2, <1>3, <1>4 DEF IInv

LEMMA NextKeepsIInv == ASSUME IInv, [Next]_vars PROVE IInv'
<1>1. CASE Tick
  BY <1>1, TickBeginKeepsIInv, TickWakesKeepsIInv, TickAdvancesKeepsIInv DEF Tick
<1>2. ASSUME NEW c \in CPUs, NEW t \in Threads,
             Calls(c, t) \/ Returns(c, t) \/ Dispatch(c, t) \/ Preempt(c, t)
      PROVE  IInv'
  BY <1>2, QueueSleepKeepsIInv, WakeKeepsIInv, SleepTicksKeepsIInv, ReturnsKeepIInv,
     SwitchKeepsIInv
     DEF Calls, Returns
<1>3. CASE UNCHANGED vars
  <2>1. Waiting' = Waiting
    BY <1>3 DEF Waiting, vars, queueVars
  <2>2. QED
    BY <1>3, <2>1
       DEF IInv, TypeOK, PinnedInv, QueueInv, SleepInv, vars, queueVars, sleepVars,
           timerVars, callVars
<1>4. QED
  BY <1>1, <1>2, <1>3 DEF Next
-----------------------------------------------------------------------------
(* The theorems.                                                           *)

\* Every reachable state satisfies the inductive invariant.
THEOREM Invariance == Spec => []IInv
  BY InitEstablishesIInv, NextKeepsIInv, PTL DEF Spec

\* The types: no cell outside the ring, no slot outside the deadline table and
\* no tick beyond SCHEDULER_SLEEP_MAX_TICK.
THEOREM TypeCorrect == Spec => []TypeOK
<1>1. IInv => TypeOK
  BY DEF IInv
<1>2. QED
  BY <1>1, Invariance, PTL

\* The registrations that count: cells of the ring, slots of the table.
LEMMA OneRegistration ==
  ASSUME IInv, NEW t \in Threads, state[t] = "blocked"
  PROVE  \E r : Registrations(t) = {r}
<1>1. pc[t] \in {"waiting", "asleep"}
  BY DEF IInv, PinnedInv, TypeOK
<1>2. CASE pc[t] = "waiting"
  <2>1. PICK j \in 1 .. count : Waiting[j] = t
    BY <1>2 DEF IInv, QueueInv
  <2>2. \A k \in 1 .. count : Waiting[k] = t => k = j
    BY <2>1 DEF IInv, QueueInv
  <2>3. AsleepIn(t) = {}
    BY <1>2, Ranges DEF IInv, SleepInv, AsleepIn
  <2>4. {k \in 1 .. count : Waiting[k] = t} = {j}
    BY <2>1, <2>2
  <2>5. Registrations(t) = {<<"queue", j>>}
    BY <2>3, <2>4, Zenon DEF Registrations
  <2>6. QED
    BY <2>5
<1>3. CASE pc[t] = "asleep"
  <2>1. PICK k \in SleepSlots : sleeper[k] = t
    BY <1>3 DEF IInv, SleepInv
  <2>2. sleeper[k] # NONE
    BY <2>1, Ranges
  <2>3. AsleepIn(t) = {k} /\ ~(woken /\ scan = k)
    BY <2>1, <2>2 DEF IInv, SleepInv, AsleepIn
  <2>4. {j \in 1 .. count : Waiting[j] = t} = {}
    BY <1>3 DEF IInv, QueueInv
  <2>5. AsleepIn(t) \ (IF woken THEN {scan} ELSE {}) = {k}
    BY <2>3
  <2>6. Registrations(t) = {<<"sleep", k>>}
    BY <2>4, <2>5, Zenon DEF Registrations
  <2>7. QED
    BY <2>6
<1>4. QED
  BY <1>1, <1>2, <1>3

LEMMA NoRegistration ==
  ASSUME IInv, NEW t \in Threads, state[t] # "blocked"
  PROVE  Registrations(t) = {}
<1>1. {j \in 1 .. count : Waiting[j] = t} = {}
  BY DEF IInv, QueueInv
<1>2. AsleepIn(t) \ (IF woken THEN {scan} ELSE {}) = {}
  <2>1. ASSUME NEW k \in SleepSlots, sleeper[k] = t
        PROVE  woken /\ scan = k
    BY <2>1, Ranges DEF IInv, SleepInv
  <2>2. QED
    BY <2>1 DEF AsleepIn
<1>3. QED
  BY <1>1, <1>2, Zenon DEF Registrations

\* A BLOCKED thread is in one cell of the ring or in one slot of the deadline
\* table, and nobody else is: no call of sleep or wait loses its wakeup, and
\* none leaves an id behind that could end a later block.
THEOREM WakeupsAreRegistered == Spec => []BlockedIsRegistered
<1>1. ASSUME IInv PROVE BlockedIsRegistered
  <2>1. ASSUME NEW t \in Threads
        PROVE  Cardinality(Registrations(t)) = (IF state[t] = "blocked" THEN 1 ELSE 0)
    <3>1. CASE state[t] = "blocked"
      BY <1>1, <3>1, OneRegistration, FS_Singleton
    <3>2. CASE state[t] # "blocked"
      BY <1>1, <3>2, NoRegistration, FS_EmptySet
    <3>3. QED
      BY <3>1, <3>2
  <2>2. QED
    BY <2>1 DEF BlockedIsRegistered
<1>2. QED
  BY <1>1, Invariance, PTL

\* scheduler_sleep_ticks returns true whenever it blocked: after its deadline,
\* and woken by the timer's scan alone.
THEOREM SleepersReturnInTime == Spec => SleepIsComplete
<1>1. ASSUME IInv, [Next]_vars, NEW t \in Threads, pc[t] = "asleep", pc'[t] = "code"
      PROVE  result'[t] = "true"
  <2>1. /\ pc \in [Threads -> {"code", "waiting", "asleep"}]
        /\ result \in [Threads -> {"none", "true", "false"}]
    BY <1>1 DEF IInv, TypeOK
  <2>2. PICK c \in CPUs, u \in Threads : Calls(c, u) \/ Returns(c, u)
    BY <1>1 DEF Next, Tick, TickBegin, TickWakes, TickAdvances, Dispatch, Preempt, vars, callVars
  <2>3. ~Calls(c, u)
    BY <1>1, <2>1 DEF Calls, QueueSleep, WakeOne, WakeAll, SleepTicks, SleepRefuses, callVars
  <2>4. SleepVerify(c, u) /\ u = t
    BY <1>1, <2>1, <2>2, <2>3 DEF Returns, QueueResume, SleepVerify
  <2>5. AsleepIn(t) = {} /\ tick >= deadline[t]
    BY <1>1, <2>4, ReturnsInTime
  <2>6. QED
    BY <2>1, <2>4, <2>5 DEF SleepVerify
<1>2. IInv /\ [Next]_vars =>
        [\A t \in Threads : pc[t] = "asleep" /\ pc'[t] = "code" => result'[t] = "true"]_vars
  BY <1>1
<1>3. QED
  BY <1>2, Invariance, PTL DEF Spec, SleepIsComplete

\* scheduler_wait_queue_wake_one wakes the thread that waits longest, and only it.
THEOREM OldestIsWoken == Spec => WakeOneWakesOldest
<1>1. ASSUME IInv, NEW c \in CPUs, NEW t \in Threads, WakeOne(c, t)
      PROVE  state' = [state EXCEPT ![Waiting[1]] = "ready"]
  <2>1. PopsOfWakeOne = 1 /\ 1 \in 1 .. count /\ Pop(1)
    BY <1>1, WakeOnePopsOne, Ranges DEF WakeOne
  <2>2. Wakeable(Waiting[1]) /\ Waiting[1] \in Threads
    BY <1>1, <2>1, WaitingIsRing DEF IInv, QueueInv, Wakeable
  <2>3. state' = [u \in Threads |-> IF u = Waiting[1] THEN "ready" ELSE state[u]]
    BY <2>1, <2>2 DEF Pop
  <2>4. QED
    BY <1>1, <2>2, <2>3 DEF IInv, TypeOK
<1>2. IInv /\ [Next]_vars =>
        [(\E c \in CPUs, t \in Threads : WakeOne(c, t)) =>
           state' = [state EXCEPT ![Waiting[1]] = "ready"]]_vars
  BY <1>1
<1>3. QED
  BY <1>2, Invariance, PTL DEF Spec, WakeOneWakesOldest

\* The ring of KernelWaitQueue is a first-in first-out queue: a step appends an
\* id, removes some at the front, or leaves the order alone.
THEOREM QueueIsFifo == Spec => RingIsFifo
<1> DEFINE Step == \/ Waiting' = Waiting
                   \/ \E t \in Threads : Waiting' = Append(Waiting, t)
                   \/ \E n \in 1 .. count : Waiting' = SubSeq(Waiting, n + 1, count)
<1>1. ASSUME IInv, NEW c \in CPUs, NEW t \in Threads, QueueSleep(c, t)
      PROVE  Waiting' = Append(Waiting, t)
  <2>1. /\ count' = count + 1 /\ count \in Nat
        /\ Waiting \in [1 .. count -> Threads]
        /\ Waiting' \in [1 .. count + 1 -> Threads]
        /\ \A j \in 1 .. count : Waiting'[j] = Waiting[j]
        /\ Waiting'[count + 1] = t
    BY <1>1, SleepAppends, WaitingIsRing, Ranges DEF IInv
  <2> HIDE DEF Waiting
  <2>2. Waiting \in Seq(Threads) /\ Len(Waiting) = count
    BY <2>1, LenProperties
  <2>3. QED
    BY <2>1, <2>2, AppendProperties
<1>2. ASSUME IInv, NEW n \in 1 .. count, Pop(n)
      PROVE  Waiting' = SubSeq(Waiting, n + 1, count)
  <2>1. /\ Waiting' = [j \in 1 .. count - n |-> Waiting[n + j]]
        /\ Waiting \in [1 .. count -> Threads] /\ count \in Nat
    BY <1>2, PopShifts, WaitingIsRing, Ranges DEF IInv
  <2> HIDE DEF Waiting
  <2>2. Waiting \in Seq(Threads) /\ Len(Waiting) = count
    BY <2>1, LenProperties
  <2>3. QED
    BY <2>1, <2>2, SubSeqProperties
<1>3. ASSUME IInv, [Next]_vars PROVE Step
  <2>1. CASE \E c \in CPUs, t \in Threads : QueueSleep(c, t)
    BY <1>3, <2>1, <1>1
  <2>2. CASE \E c \in CPUs, t \in Threads : WakeOne(c, t)
    BY <1>3, <2>2, <1>2, WakeOnePopsOne, Ranges DEF WakeOne
  <2>3. CASE \E c \in CPUs, t \in Threads : WakeAll(c, t)
    <3>1. count \in 1 .. count /\ Pop(count)
      BY <1>3, <2>3, Ranges DEF WakeAll, IInv, TypeOK
    <3>2. QED
      BY <1>3, <3>1, <1>2
  <2>4. CASE UNCHANGED queueVars
    BY <2>4 DEF queueVars, Waiting
  <2>5. QED
    BY <1>3, <2>1, <2>2, <2>3, <2>4
       DEF Next, vars, Tick, TickBegin, TickWakes, TickAdvances, Dispatch, Preempt, Calls,
           Returns, QueueResume, SleepVerify, SleepTicks, SleepRefuses
<1>4. IInv /\ [Next]_vars => [Step]_vars
  BY <1>3
<1>5. QED
  BY <1>4, Invariance, PTL DEF Spec, RingIsFifo
=============================================================================
