---- MODULE ProcessLifetimeProofs ----
(***************************************************************************)
(* The page tables and frames of processes are never reused while a CPU,   *)
(* a thread or a change may still look at them, and the counts that keep   *)
(* them are exact: for any number of CPUs, threads, callers, processes,    *)
(* roots and frames.                                                       *)
(***************************************************************************)
EXTENDS ProcessLifetime, FiniteSetTheorems, TLAPS

\* What a call in progress knows about its process and its thread.
CallInv ==
  \A k \in Callers :
    /\ call[k].at = "idle" => call[k].pid = 0
    /\ call[k].at # "idle" => Registered(call[k].pid)
    /\ call[k].at \in Changing \cup {"borrowed", "created"} => call[k].root = space[call[k].pid]
    /\ call[k].at \in Changing => call[k].arg \in Addresses
    /\ call[k].at # "sent" => call[k].waiting = {}
    /\ call[k].at = "created" =>
         /\ call[k].arg \in Threads
         /\ state[call[k].arg] = "READY"
         /\ owner[call[k].arg] = None
         /\ affinity[call[k].arg] = BSP
         /\ pid[call[k].arg] = 0
    /\ \A l \in Callers : call[k].at \in Creating /\ call[l].at \in Creating => k = l

\* A thread has a process unless it is still being created, and its process's root.
ThreadInv ==
  \A t \in Threads :
    /\ state[t] = "UNUSED" => pid[t] = 0
    /\ state[t] # "UNUSED" /\ pid[t] = 0 =>
         \E k \in Callers : call[k].at = "created" /\ call[k].arg = t
    /\ pid[t] # 0 => Registered(pid[t]) /\ root[t] = space[pid[t]]

\* A CPU owns the thread it runs and has its root.
CurrentInv ==
  \A c \in CPUs :
    /\ current[c] = None => cr3[c] = KernelRoot /\ reading[c] = None
    /\ current[c] # None =>
         /\ owner[current[c]] = c
         /\ state[current[c]] \in {"RUNNING", "TERMINATED"}
         /\ pid[current[c]] # 0
         /\ cr3[c] = root[current[c]]

\* A root belongs to one process or to the PMM.
SpaceInv ==
  \A p \in Pids :
    /\ p >= nextId => space[p] = None
    /\ space[p] \notin freeRoots
    /\ \A q \in Pids : Registered(p) /\ space[p] = space[q] => p = q

\* A frame is in one place: free, at one page of one process, or about to be
\* returned by one change.
FrameInv ==
  /\ \A p \in Pids, a \in Addresses : Registered(p) /\ pte[space[p]][a] # None =>
       /\ pte[space[p]][a] \notin freeFrames
       /\ \A k \in Callers : call[k].at \in Changing => call[k].old # pte[space[p]][a]
       /\ \A q \in Pids, b \in Addresses :
            Registered(q) /\ pte[space[q]][b] = pte[space[p]][a] => q = p /\ b = a
  /\ \A k \in Callers : call[k].at \in Changing /\ call[k].old # None =>
       /\ call[k].old \notin freeFrames
       /\ \A l \in Callers : call[l].at \in Changing /\ call[l].old = call[k].old => l = k

\* c may still use f for page a: the entry says so, or a change of it still has
\* to be answered by c.
MayUse(c, a, f) ==
  \/ pte[cr3[c]][a] = f
  \/ \E k \in Callers : /\ call[k].at = "changed" \/ c \in call[k].waiting
                        /\ call[k].at \in Changing
                        /\ call[k].root = cr3[c]
                        /\ call[k].arg = a
                        /\ call[k].old = f
UseInv ==
  \A c \in CPUs :
    /\ \A a \in Addresses : tlb[c][a] # None => cr3[c] \in Roots /\ MayUse(c, a, tlb[c][a])
    /\ reading[c] # None => cr3[c] \in Roots /\ \E a \in Addresses : MayUse(c, a, reading[c])

IInv == TypeOK /\ HoldersAreCounted /\ CallInv /\ ThreadInv /\ CurrentInv /\ SpaceInv
        /\ FrameInv /\ UseInv

-----------------------------------------------------------------------------
\* A process that can be destroyed has no thread, and no call knows it.
LEMMA Unheld ==
  ASSUME ProcessAssumption, TypeOK, HoldersAreCounted, CallInv, NEW p \in Pids, Destroyable(p)
  PROVE  /\ \A t \in Threads : pid[t] # p
         /\ \A k \in Callers : call[k].pid # p
<1>1. IsFiniteSet(ThreadsOf(p)) /\ IsFiniteSet(CallersWith(p)) /\ IsFiniteSet(ChangesOf(p))
  BY FS_Subset DEF ProcessAssumption, ThreadsOf, CallersWith, ChangesOf
<1>2. /\ Cardinality(ThreadsOf(p)) \in Nat /\ Cardinality(CallersWith(p)) \in Nat
      /\ Cardinality(ChangesOf(p)) \in Nat
  BY <1>1, FS_CardinalityType
<1>3. refs[p] = 0 /\ pins[p] = 0
  BY DEF Destroyable
<1>4. /\ Cardinality(ThreadsOf(p)) = 0 /\ Cardinality(CallersWith(p)) = 0
      /\ Cardinality(ChangesOf(p)) = 0
  BY <1>2, <1>3 DEF HoldersAreCounted
<1>5. ThreadsOf(p) = {} /\ CallersWith(p) = {} /\ ChangesOf(p) = {}
  BY <1>1, <1>4, FS_EmptySet
<1>6. ASSUME NEW k \in Callers PROVE call[k].pid # p
  <2>1. call[k].at \in {"idle", "holding"} \cup Creating \cup Changing
    BY DEF TypeOK, Calls
  <2>2. call[k].at = "idle" => call[k].pid = 0
    BY DEF CallInv
  <2> QED BY <1>5, <2>1, <2>2 DEF CallersWith, ChangesOf, Pids
<1> QED BY <1>5, <1>6 DEF ThreadsOf

\* What an interrupt does: to the threads it reaps, to the one it selects, to
\* the others.
ReapedAway(c, R, next) ==
  \A t \in R :
    /\ state[t] = "TERMINATED" /\ t # next /\ c = BSP
    /\ \A d \in CPUs : current[d] # t
    /\ state'[t] = "UNUSED" /\ pid'[t] = 0 /\ root'[t] = None
Selected(c, next) ==
  next # None =>
    /\ next \in Threads /\ state[next] = "READY" /\ state'[next] = "RUNNING"
    /\ affinity[next] \in {ANY, c} /\ owner'[next] = c
    /\ \A d \in CPUs : d # c => current[d] # next
LeftAlone(c, R, next) ==
  \A t \in Threads \ R :
    /\ pid'[t] = pid[t] /\ root'[t] = root[t] /\ affinity'[t] = affinity[t]
    /\ t # next =>
         /\ state'[t] = IF t = current[c] /\ state[t] = "RUNNING" THEN "READY" ELSE state[t]
         /\ owner'[t] \in {owner[t], None}
         /\ \A d \in CPUs : owner[t] = d /\ d # c => owner'[t] = d
Loaded(c, next) ==
  /\ \A d \in CPUs : d # c => current'[d] = current[d] /\ cr3'[d] = cr3[d] /\ tlb'[d] = tlb[d]
  /\ current'[c] = next /\ cr3'[c] = RootToLoad(next)

LEMMA Switched ==
  ASSUME ProcessAssumption, TypeOK, CurrentInv, NEW c \in CPUs, NEW R \in SUBSET Threads,
         NEW next \in Threads \cup {None}, ReapAndSwitch(c, R, next)
  PROVE  /\ ReapedAway(c, R, next) /\ Selected(c, next)
         /\ LeftAlone(c, R, next) /\ Loaded(c, next)
<1>1. \A d \in CPUs : current[d] # None => owner[current[d]] = d
  BY DEF CurrentInv
<1>2. None \notin CPUs /\ None \notin Threads
  BY DEF ProcessAssumption
<1>3. ASSUME NEW t \in R
      PROVE  /\ state[t] = "TERMINATED" /\ t # next /\ c = BSP
             /\ \A d \in CPUs : current[d] # t
             /\ state'[t] = "UNUSED" /\ pid'[t] = 0 /\ root'[t] = None
  <2>1. c = BSP /\ state[t] = "TERMINATED" /\ t # current[BSP] /\ Confirmed(c)[t] = None
    <3>1. (c = BSP \/ R = {}) /\ R \subseteq Reapable(Confirmed(c))
      BY Zenon DEF ReapAndSwitch
    <3>2. t \in Reapable(Confirmed(c))
      BY <3>1
    <3> QED BY <3>1, <3>2 DEF Reapable
  <2>2. t # next
    BY <1>2, <2>1 DEF ReapAndSwitch, Selectable
  <2>3. ASSUME NEW d \in CPUs, current[d] = t PROVE FALSE
    BY <1>1, <1>2, <2>1, <2>3 DEF Confirmed
  <2>4. state'[t] = "UNUSED"
    BY <2>1, <2>2 DEF ReapAndSwitch
  <2>5. pid'[t] = 0 /\ root'[t] = None
    BY DEF ReapAndSwitch
  <2> QED BY <2>1, <2>2, <2>3, <2>4, <2>5
<1>4. ASSUME next # None
      PROVE  /\ state[next] = "READY" /\ state'[next] = "RUNNING"
             /\ affinity[next] \in {ANY, c} /\ owner'[next] = c
             /\ \A d \in CPUs : d # c => current[d] # next
             /\ next \in Threads
  <2>1. next \in Threads /\ state[next] = "READY" /\ Confirmed(c)[next] = None
        /\ affinity[next] \in {ANY, c}
    BY <1>4 DEF ReapAndSwitch, Selectable
  <2>2. next \notin R
    BY <1>3
  <2>3. state'[next] = "RUNNING" /\ owner'[next] = c
    BY <2>1, <2>2 DEF ReapAndSwitch
  <2>4. ASSUME NEW d \in CPUs, d # c, current[d] = next PROVE FALSE
    BY <1>1, <1>2, <1>4, <2>1, <2>4 DEF Confirmed
  <2> QED BY <2>1, <2>3, <2>4
<1>5. ASSUME NEW t \in Threads \ R
      PROVE  /\ pid'[t] = pid[t] /\ root'[t] = root[t] /\ affinity'[t] = affinity[t]
             /\ t # next => state'[t] = IF t = current[c] /\ state[t] = "RUNNING" THEN "READY" ELSE state[t]
             /\ t # next => owner'[t] \in {owner[t], None}
             /\ t # next => \A d \in CPUs : owner[t] = d /\ d # c => owner'[t] = d
  <2>1. t # next => state'[t] = IF t = current[c] /\ state[t] = "RUNNING" THEN "READY" ELSE state[t]
    BY DEF ReapAndSwitch
  <2> QED BY <2>1 DEF ReapAndSwitch, Confirmed
<1>6. /\ \A d \in CPUs : d # c => current'[d] = current[d] /\ cr3'[d] = cr3[d] /\ tlb'[d] = tlb[d]
      /\ current'[c] = next /\ cr3'[c] = RootToLoad(next)
  BY DEF ReapAndSwitch, TypeOK
<1> QED BY <1>3, <1>4, <1>5, <1>6 DEF ReapedAway, Selected, LeftAlone, Loaded

\* What a call knows stays true.
LEMMA CallStep ==
  ASSUME ProcessAssumption, TypeOK, SpaceInv, CallInv, CurrentInv, HoldersAreCounted, [Next]_vars
  PROVE  CallInv'
<1>1. ASSUME NEW r \in Roots, Create(r)
      PROVE  CallInv'
  BY <1>1 DEF Create, threadVars, cpuVars, CallInv, SpaceInv, Masked, Creating, Changing,
      Registered, TypeOK, CPUs, BSP, ANY, Pids
<1>2. ASSUME NEW p \in Pids, Destroy(p)
      PROVE  CallInv'
  <2>1. \A k \in Callers : call[k].pid # p
    BY <1>2, Unheld DEF Destroy
  <2> QED BY <1>2, <2>1 DEF Destroy, Destroyable, threadVars, cpuVars, CallInv, Registered,
      TypeOK, Pids
<1>3. ASSUME NEW k \in Callers, NEW p \in Pids, Hold(k, p)
      PROVE  CallInv'
  BY <1>3 DEF Hold, memoryVars, threadVars, cpuVars, CallInv, SpaceInv, Masked, Idle,
      Creating, Changing, Registered, TypeOK, CPUs, BSP, ANY, Pids
<1>4. ASSUME NEW k \in Callers, Drop(k)
      PROVE  CallInv'
  BY <1>4 DEF Drop, memoryVars, threadVars, cpuVars, CallInv, SpaceInv, Masked, Idle,
      Creating, Changing, Registered, TypeOK, CPUs, BSP, ANY, Pids
<1>5. ASSUME NEW k \in Callers, NEW p \in Pids, NEW a \in Addresses,
             NEW new \in freeFrames \cup {None}, NEW old \in Frames \cup {None},
             Change(k, p, a, new, old)
      PROVE  CallInv'
  BY <1>5 DEF Change, threadVars, cpuVars, CallInv, SpaceInv, Masked, Creating, Changing,
      Registered, TypeOK, CPUs, BSP, ANY, Pids
<1>6. ASSUME NEW k \in Callers, Send(k)
      PROVE  CallInv'
  BY <1>6 DEF Send, registryVars, memoryVars, threadVars, cpuVars, CallInv, SpaceInv, Masked,
      Creating, Changing, Registered, TypeOK, CPUs, BSP, ANY, Pids
<1>7. ASSUME NEW k \in Callers, NEW c \in CPUs, Acknowledge(k, c)
      PROVE  CallInv'
  BY <1>7 DEF Acknowledge, registryVars, memoryVars, threadVars, CallInv, SpaceInv, Masked,
      Creating, Changing, Registered, TypeOK, CPUs, BSP, ANY, Pids
<1>8. ASSUME NEW k \in Callers, Unpin(k)
      PROVE  CallInv'
  BY <1>8 DEF Unpin, threadVars, cpuVars, CallInv, SpaceInv, Masked, Idle, Creating, Changing,
      Registered, TypeOK, CPUs, BSP, ANY, Pids
<1>9. ASSUME NEW k \in Callers, NEW p \in Pids, Retain(k, p)
      PROVE  CallInv'
  BY <1>9 DEF Retain, memoryVars, threadVars, cpuVars, CallInv, SpaceInv, Masked, Idle,
      Creating, Changing, Registered, TypeOK, CPUs, BSP, ANY, Pids
<1>10. ASSUME NEW k \in Callers, Borrow(k)
      PROVE  CallInv'
  BY <1>10 DEF Borrow, registryVars, memoryVars, threadVars, cpuVars, CallInv, SpaceInv,
      Masked, Creating, Changing, Registered, TypeOK, CPUs, BSP, ANY, Pids
<1>11. ASSUME NEW k \in Callers, NEW t \in Threads, CreateBase(k, t)
      PROVE  CallInv'
  BY <1>11 DEF CreateBase, BirthAffinity, registryVars, memoryVars, cpuVars, CallInv,
      SpaceInv, Masked, Creating, Changing, Registered, TypeOK, CPUs, BSP, ANY, Pids
<1>12. ASSUME NEW k \in Callers, CreateFails(k)
      PROVE  CallInv'
  BY <1>12 DEF CreateFails, AfterFailure, memoryVars, threadVars, cpuVars, CallInv, SpaceInv,
      Masked, Idle, Creating, Changing, Registered, TypeOK, CPUs, BSP, ANY, Pids
<1>13. ASSUME NEW k \in Callers, NEW where \in CPUs \cup {ANY}, Attach(k, where)
      PROVE  CallInv'
  BY <1>13 DEF Attach, registryVars, memoryVars, cpuVars, CallInv, SpaceInv, Masked, Idle,
      Creating, Changing, Registered, TypeOK, CPUs, BSP, ANY, Pids
<1>14. ASSUME NEW c \in CPUs, NEW R \in SUBSET Threads,
             NEW next \in Threads \cup {None}, ReapAndSwitch(c, R, next)
      PROVE  CallInv'
  <2>0. /\ ReapedAway(c, R, next) /\ Selected(c, next)
        /\ LeftAlone(c, R, next) /\ Loaded(c, next)
    BY <1>14, Switched
  <2>1. UNCHANGED <<call, space>>
    BY <1>14 DEF ReapAndSwitch
  <2>2. ASSUME NEW k \in Callers, call[k].at = "created"
        PROVE  LET t == call[k].arg IN
               /\ t \in Threads /\ state'[t] = "READY" /\ owner'[t] = None
               /\ affinity'[t] = BSP /\ pid'[t] = 0
    <3> DEFINE t == call[k].arg
    <3>1. /\ t \in Threads /\ state[t] = "READY" /\ owner[t] = None
          /\ affinity[t] = BSP /\ pid[t] = 0
      BY <2>2 DEF CallInv
    <3>2. c # BSP
      BY <1>14, <2>2 DEF ReapAndSwitch, Masked, Creating
    <3>3. t # next
      BY <3>1, <3>2, <2>0 DEF BSP, ANY, ProcessAssumption, ReapedAway, Selected, LeftAlone,
          Loaded
    <3>4. t \notin R
      BY <3>1, <2>0 DEF ReapedAway, Selected, LeftAlone, Loaded
    <3>5. /\ pid'[t] = pid[t] /\ affinity'[t] = affinity[t]
          /\ state'[t] = IF t = current[c] /\ state[t] = "RUNNING" THEN "READY" ELSE state[t]
          /\ owner'[t] \in {owner[t], None}
      <4> HIDE DEF t
      <4> QED BY <2>0, <3>1, <3>3, <3>4 DEF LeftAlone
    <3> QED BY <3>1, <3>5
  <2> QED BY <2>1, <2>2 DEF CallInv, Registered
<1>15. ASSUME NEW c \in CPUs, Exit(c)
      PROVE  CallInv'
  BY <1>15 DEF Exit, registryVars, memoryVars, cpuVars, CallInv, SpaceInv, Masked, Creating,
      Changing, Registered, TypeOK, CPUs, BSP, ANY, Pids
<1>16. ASSUME NEW c \in CPUs, NEW a \in Addresses, Fill(c, a)
      PROVE  CallInv'
  BY <1>16 DEF Fill, registryVars, memoryVars, threadVars, CallInv, SpaceInv, Masked,
      Creating, Changing, Registered, TypeOK, CPUs, BSP, ANY, Pids
<1>17. ASSUME NEW c \in CPUs, NEW a \in Addresses, StartCopy(c, a)
      PROVE  CallInv'
  BY <1>17 DEF StartCopy, registryVars, memoryVars, threadVars, CallInv, SpaceInv, Masked,
      Creating, Changing, Registered, TypeOK, CPUs, BSP, ANY, Pids
<1>18. ASSUME NEW c \in CPUs, EndCopy(c)
      PROVE  CallInv'
  BY <1>18 DEF EndCopy, registryVars, memoryVars, threadVars, CallInv, SpaceInv, Masked,
      Creating, Changing, Registered, TypeOK, CPUs, BSP, ANY, Pids
<1>19. ASSUME UNCHANGED vars
      PROVE  CallInv'
  BY <1>19 DEF vars, registryVars, memoryVars, threadVars, cpuVars, CallInv, SpaceInv,
      Masked, Creating, Changing, Registered, TypeOK, CPUs, BSP, ANY, Pids
<1> QED
  BY <1>1, <1>2, <1>3, <1>4, <1>5, <1>6, <1>7, <1>8, <1>9, <1>10,
     <1>11, <1>12, <1>13, <1>14, <1>15, <1>16, <1>17, <1>18, <1>19
  DEF Next, Registry, Caller, Cpu, MapPage, RemapPage, UnmapPage, Interrupt

\* A thread and its process stay together.
LEMMA ThreadStep ==
  ASSUME ProcessAssumption, TypeOK, SpaceInv, CallInv, ThreadInv, CurrentInv,
         HoldersAreCounted, [Next]_vars
  PROVE  ThreadInv'
<1>1. ASSUME NEW r \in Roots, Create(r)
      PROVE  ThreadInv'
  BY <1>1 DEF Create, threadVars, cpuVars, ThreadInv, CallInv, SpaceInv, Creating, Changing,
      Registered, TypeOK, CPUs, BSP, ANY, Pids
<1>2. ASSUME NEW p \in Pids, Destroy(p)
      PROVE  ThreadInv'
  <2>1. \A t \in Threads : pid[t] # p
    BY <1>2, Unheld DEF Destroy
  <2> QED BY <1>2, <2>1 DEF Destroy, Destroyable, threadVars, cpuVars, ThreadInv, Registered,
      TypeOK, Pids
<1>3. ASSUME NEW k \in Callers, NEW p \in Pids, Hold(k, p)
      PROVE  ThreadInv'
  BY <1>3 DEF Hold, memoryVars, threadVars, cpuVars, ThreadInv, CallInv, SpaceInv, Creating,
      Changing, Idle, Registered, TypeOK, CPUs, BSP, ANY, Pids
<1>4. ASSUME NEW k \in Callers, Drop(k)
      PROVE  ThreadInv'
  BY <1>4 DEF Drop, memoryVars, threadVars, cpuVars, ThreadInv, CallInv, SpaceInv, Creating,
      Changing, Idle, Registered, TypeOK, CPUs, BSP, ANY, Pids
<1>5. ASSUME NEW k \in Callers, NEW p \in Pids, NEW a \in Addresses,
             NEW new \in freeFrames \cup {None}, NEW old \in Frames \cup {None},
             Change(k, p, a, new, old)
      PROVE  ThreadInv'
  BY <1>5 DEF Change, threadVars, cpuVars, ThreadInv, CallInv, SpaceInv, Creating, Changing,
      Registered, TypeOK, CPUs, BSP, ANY, Pids
<1>6. ASSUME NEW k \in Callers, Send(k)
      PROVE  ThreadInv'
  BY <1>6 DEF Send, registryVars, memoryVars, threadVars, cpuVars, ThreadInv, CallInv,
      SpaceInv, Creating, Changing, Registered, TypeOK, CPUs, BSP, ANY, Pids
<1>7. ASSUME NEW k \in Callers, NEW c \in CPUs, Acknowledge(k, c)
      PROVE  ThreadInv'
  BY <1>7 DEF Acknowledge, registryVars, memoryVars, threadVars, ThreadInv, CallInv, SpaceInv,
      Creating, Changing, Registered, TypeOK, CPUs, BSP, ANY, Pids
<1>8. ASSUME NEW k \in Callers, Unpin(k)
      PROVE  ThreadInv'
  BY <1>8 DEF Unpin, threadVars, cpuVars, ThreadInv, CallInv, SpaceInv, Creating, Changing,
      Idle, Registered, TypeOK, CPUs, BSP, ANY, Pids
<1>9. ASSUME NEW k \in Callers, NEW p \in Pids, Retain(k, p)
      PROVE  ThreadInv'
  BY <1>9 DEF Retain, memoryVars, threadVars, cpuVars, ThreadInv, CallInv, SpaceInv, Creating,
      Changing, Idle, Registered, TypeOK, CPUs, BSP, ANY, Pids
<1>10. ASSUME NEW k \in Callers, Borrow(k)
      PROVE  ThreadInv'
  BY <1>10 DEF Borrow, registryVars, memoryVars, threadVars, cpuVars, ThreadInv, CallInv,
      SpaceInv, Creating, Changing, Registered, TypeOK, CPUs, BSP, ANY, Pids
<1>11. ASSUME NEW k \in Callers, NEW t \in Threads, CreateBase(k, t)
      PROVE  ThreadInv'
  BY <1>11 DEF CreateBase, BirthAffinity, registryVars, memoryVars, cpuVars, ThreadInv,
      CallInv, SpaceInv, Creating, Changing, Registered, TypeOK, CPUs, BSP, ANY, Pids
<1>12. ASSUME NEW k \in Callers, CreateFails(k)
      PROVE  ThreadInv'
  BY <1>12 DEF CreateFails, AfterFailure, memoryVars, threadVars, cpuVars, ThreadInv, CallInv,
      SpaceInv, Creating, Changing, Idle, Registered, TypeOK, CPUs, BSP, ANY, Pids
<1>13. ASSUME NEW k \in Callers, NEW where \in CPUs \cup {ANY}, Attach(k, where)
      PROVE  ThreadInv'
  BY <1>13 DEF Attach, registryVars, memoryVars, cpuVars, ThreadInv, CallInv, SpaceInv,
      Creating, Changing, Idle, Registered, TypeOK, CPUs, BSP, ANY, Pids
<1>14. ASSUME NEW c \in CPUs, NEW R \in SUBSET Threads,
             NEW next \in Threads \cup {None}, ReapAndSwitch(c, R, next)
      PROVE  ThreadInv'
  <2>0. /\ ReapedAway(c, R, next) /\ Selected(c, next)
        /\ LeftAlone(c, R, next) /\ Loaded(c, next)
    BY <1>14, Switched
  <2>1. UNCHANGED <<call, space>>
    BY <1>14 DEF ReapAndSwitch
  <2>2. \A t \in R : state'[t] = "UNUSED" /\ pid'[t] = 0
    BY <2>0 DEF ReapedAway, Selected, LeftAlone, Loaded
  <2>3. ASSUME NEW t \in Threads \ R
        PROVE  /\ pid'[t] = pid[t] /\ root'[t] = root[t]
               /\ state'[t] = "UNUSED" <=> state[t] = "UNUSED"
    <3>1. pid'[t] = pid[t] /\ root'[t] = root[t]
      BY <2>0 DEF ReapedAway, Selected, LeftAlone, Loaded
    <3>2. CASE t = next
      BY <3>1, <3>2, <2>0 DEF ProcessAssumption, ReapedAway, Selected, LeftAlone, Loaded
    <3>3. CASE t # next
      <4>1. state'[t] = IF t = current[c] /\ state[t] = "RUNNING" THEN "READY" ELSE state[t]
        BY <3>3, <2>0 DEF ReapedAway, Selected, LeftAlone, Loaded
      <4> QED BY <3>1, <4>1
    <3> QED BY <3>2, <3>3
  <2> QED BY <2>1, <2>2, <2>3 DEF ThreadInv, Registered
<1>15. ASSUME NEW c \in CPUs, Exit(c)
      PROVE  ThreadInv'
  BY <1>15 DEF Exit, registryVars, memoryVars, cpuVars, ThreadInv, CallInv, SpaceInv,
      Creating, Changing, Registered, TypeOK, CPUs, BSP, ANY, Pids
<1>16. ASSUME NEW c \in CPUs, NEW a \in Addresses, Fill(c, a)
      PROVE  ThreadInv'
  BY <1>16 DEF Fill, registryVars, memoryVars, threadVars, ThreadInv, CallInv, SpaceInv,
      Creating, Changing, Registered, TypeOK, CPUs, BSP, ANY, Pids
<1>17. ASSUME NEW c \in CPUs, NEW a \in Addresses, StartCopy(c, a)
      PROVE  ThreadInv'
  BY <1>17 DEF StartCopy, registryVars, memoryVars, threadVars, ThreadInv, CallInv, SpaceInv,
      Creating, Changing, Registered, TypeOK, CPUs, BSP, ANY, Pids
<1>18. ASSUME NEW c \in CPUs, EndCopy(c)
      PROVE  ThreadInv'
  BY <1>18 DEF EndCopy, registryVars, memoryVars, threadVars, ThreadInv, CallInv, SpaceInv,
      Creating, Changing, Registered, TypeOK, CPUs, BSP, ANY, Pids
<1>19. ASSUME UNCHANGED vars
      PROVE  ThreadInv'
  BY <1>19 DEF vars, registryVars, memoryVars, threadVars, cpuVars, ThreadInv, CallInv,
      SpaceInv, Creating, Changing, Registered, TypeOK, CPUs, BSP, ANY, Pids
<1> QED
  BY <1>1, <1>2, <1>3, <1>4, <1>5, <1>6, <1>7, <1>8, <1>9, <1>10,
     <1>11, <1>12, <1>13, <1>14, <1>15, <1>16, <1>17, <1>18, <1>19
  DEF Next, Registry, Caller, Cpu, MapPage, RemapPage, UnmapPage, Interrupt

\* A CPU runs a thread that is its own, in the root of its process.
LEMMA CurrentStep ==
  ASSUME ProcessAssumption, TypeOK, SpaceInv, CallInv, ThreadInv, CurrentInv, [Next]_vars
  PROVE  CurrentInv'
<1>1. ASSUME NEW r \in Roots, Create(r)
      PROVE  CurrentInv'
  BY <1>1 DEF Create, threadVars, cpuVars, CurrentInv, CallInv, ThreadInv, Creating, Changing,
      Registered, TypeOK, CPUs, BSP, ANY, Pids, Masked
<1>2. ASSUME NEW p \in Pids, Destroy(p)
      PROVE  CurrentInv'
  BY <1>2 DEF Destroy, Destroyable, threadVars, cpuVars, CurrentInv, CallInv, ThreadInv,
      Creating, Changing, Registered, TypeOK, CPUs, BSP, ANY, Pids, Masked
<1>3. ASSUME NEW k \in Callers, NEW p \in Pids, Hold(k, p)
      PROVE  CurrentInv'
  BY <1>3 DEF Hold, memoryVars, threadVars, cpuVars, CurrentInv, CallInv, ThreadInv, Creating,
      Changing, Idle, Registered, TypeOK, CPUs, BSP, ANY, Pids, Masked
<1>4. ASSUME NEW k \in Callers, Drop(k)
      PROVE  CurrentInv'
  BY <1>4 DEF Drop, memoryVars, threadVars, cpuVars, CurrentInv, CallInv, ThreadInv, Creating,
      Changing, Idle, Registered, TypeOK, CPUs, BSP, ANY, Pids, Masked
<1>5. ASSUME NEW k \in Callers, NEW p \in Pids, NEW a \in Addresses,
             NEW new \in freeFrames \cup {None}, NEW old \in Frames \cup {None},
             Change(k, p, a, new, old)
      PROVE  CurrentInv'
  BY <1>5 DEF Change, threadVars, cpuVars, CurrentInv, CallInv, ThreadInv, Creating, Changing,
      Registered, TypeOK, CPUs, BSP, ANY, Pids, Masked
<1>6. ASSUME NEW k \in Callers, Send(k)
      PROVE  CurrentInv'
  BY <1>6 DEF Send, registryVars, memoryVars, threadVars, cpuVars, CurrentInv, CallInv,
      ThreadInv, Creating, Changing, Registered, TypeOK, CPUs, BSP, ANY, Pids, Masked
<1>7. ASSUME NEW k \in Callers, NEW c \in CPUs, Acknowledge(k, c)
      PROVE  CurrentInv'
  BY <1>7 DEF Acknowledge, registryVars, memoryVars, threadVars, CurrentInv, CallInv,
      ThreadInv, Creating, Changing, Registered, TypeOK, CPUs, BSP, ANY, Pids, Masked
<1>8. ASSUME NEW k \in Callers, Unpin(k)
      PROVE  CurrentInv'
  BY <1>8 DEF Unpin, threadVars, cpuVars, CurrentInv, CallInv, ThreadInv, Creating, Changing,
      Idle, Registered, TypeOK, CPUs, BSP, ANY, Pids, Masked
<1>9. ASSUME NEW k \in Callers, NEW p \in Pids, Retain(k, p)
      PROVE  CurrentInv'
  BY <1>9 DEF Retain, memoryVars, threadVars, cpuVars, CurrentInv, CallInv, ThreadInv,
      Creating, Changing, Idle, Registered, TypeOK, CPUs, BSP, ANY, Pids, Masked
<1>10. ASSUME NEW k \in Callers, Borrow(k)
      PROVE  CurrentInv'
  BY <1>10 DEF Borrow, registryVars, memoryVars, threadVars, cpuVars, CurrentInv, CallInv,
      ThreadInv, Creating, Changing, Registered, TypeOK, CPUs, BSP, ANY, Pids, Masked
<1>11. ASSUME NEW k \in Callers, NEW t \in Threads, CreateBase(k, t)
      PROVE  CurrentInv'
  BY <1>11 DEF CreateBase, BirthAffinity, registryVars, memoryVars, cpuVars, CurrentInv,
      CallInv, ThreadInv, Creating, Changing, Registered, TypeOK, CPUs, BSP, ANY, Pids, Masked
<1>12. ASSUME NEW k \in Callers, CreateFails(k)
      PROVE  CurrentInv'
  BY <1>12 DEF CreateFails, AfterFailure, memoryVars, threadVars, cpuVars, CurrentInv,
      CallInv, ThreadInv, Creating, Changing, Idle, Registered, TypeOK, CPUs, BSP, ANY, Pids,
      Masked
<1>13. ASSUME NEW k \in Callers, NEW where \in CPUs \cup {ANY}, Attach(k, where)
      PROVE  CurrentInv'
  BY <1>13 DEF Attach, registryVars, memoryVars, cpuVars, CurrentInv, CallInv, ThreadInv,
      Creating, Changing, Idle, Registered, TypeOK, CPUs, BSP, ANY, Pids, Masked
<1>14. ASSUME NEW c \in CPUs, NEW R \in SUBSET Threads,
             NEW next \in Threads \cup {None}, ReapAndSwitch(c, R, next)
      PROVE  CurrentInv'
  <2>0. /\ ReapedAway(c, R, next) /\ Selected(c, next)
        /\ LeftAlone(c, R, next) /\ Loaded(c, next)
    BY <1>14, Switched
  <2>1. UNCHANGED <<call, space, reading>> /\ ~Masked(c)
    BY <1>14 DEF ReapAndSwitch
  <2>2. ASSUME NEW d \in CPUs, d # c
        PROVE  /\ current'[d] = None => cr3'[d] = KernelRoot /\ reading'[d] = None
               /\ current'[d] # None =>
                    /\ owner'[current'[d]] = d
                    /\ state'[current'[d]] \in {"RUNNING", "TERMINATED"}
                    /\ pid'[current'[d]] # 0
                    /\ cr3'[d] = root'[current'[d]]
    <3>1. current'[d] = current[d] /\ cr3'[d] = cr3[d] /\ reading'[d] = reading[d]
      BY <2>1, <2>2, <2>0 DEF ReapedAway, Selected, LeftAlone, Loaded
    <3>2. ASSUME current[d] # None
          PROVE  /\ owner'[current[d]] = d
                 /\ state'[current[d]] \in {"RUNNING", "TERMINATED"}
                 /\ pid'[current[d]] # 0
                 /\ cr3[d] = root'[current[d]]
      <4> DEFINE t == current[d]
      <4>1. t \in Threads
        BY <3>2 DEF TypeOK
      <4>2. /\ owner[t] = d /\ state[t] \in {"RUNNING", "TERMINATED"}
            /\ pid[t] # 0 /\ cr3[d] = root[t]
        BY <3>2 DEF CurrentInv
      <4>3. t \notin R /\ t # next
        BY <2>2, <3>2, <2>0 DEF ReapedAway, Selected, LeftAlone, Loaded
      <4>4. t # current[c]
        <5>1. current[c] # None => owner[current[c]] = c
          BY DEF CurrentInv
        <5> QED BY <2>2, <3>2, <4>2, <5>1
      <4>5. /\ pid'[t] = pid[t] /\ root'[t] = root[t]
            /\ state'[t] = IF t = current[c] /\ state[t] = "RUNNING" THEN "READY" ELSE state[t]
            /\ owner'[t] = d
        <5>1. t \in Threads \ R
          BY <4>1, <4>3
        <5> HIDE DEF t
        <5> QED BY <2>2, <4>2, <4>3, <5>1, <2>0 DEF ReapedAway, Selected, LeftAlone, Loaded
      <4>6. state'[t] = state[t]
        BY <4>4, <4>5
      <4> QED BY <4>2, <4>5, <4>6
    <3> QED BY <2>1, <3>1, <3>2 DEF CurrentInv
  <2>3. /\ current'[c] = None => cr3'[c] = KernelRoot /\ reading'[c] = None
        /\ current'[c] # None =>
             /\ owner'[current'[c]] = c
             /\ state'[current'[c]] \in {"RUNNING", "TERMINATED"}
             /\ pid'[current'[c]] # 0
             /\ cr3'[c] = root'[current'[c]]
    <3>1. current'[c] = next /\ cr3'[c] = RootToLoad(next) /\ reading'[c] = None
      BY <2>1, <2>0 DEF Masked, ReapedAway, Selected, LeftAlone, Loaded
    <3>2. CASE next = None
      BY <3>1, <3>2 DEF RootToLoad
    <3>3. CASE next # None
      <4>1. next \in Threads /\ state[next] = "READY" /\ affinity[next] \in {ANY, c}
        BY <3>3, <2>0 DEF ReapedAway, Selected, LeftAlone, Loaded
      <4>2. next \notin R
        BY <2>0 DEF ReapedAway, Selected, LeftAlone, Loaded
      <4>3. owner'[next] = c /\ state'[next] = "RUNNING"
        BY <3>3, <2>0 DEF ReapedAway, Selected, LeftAlone, Loaded
      <4>4. pid'[next] = pid[next] /\ root'[next] = root[next]
        BY <4>1, <4>2, <2>0 DEF ReapedAway, Selected, LeftAlone, Loaded
      <4>5. pid[next] # 0
        <5>1. SUFFICES ASSUME pid[next] = 0 PROVE FALSE
          OBVIOUS
        <5>2. PICK k \in Callers : call[k].at = "created" /\ call[k].arg = next
          BY <4>1, <5>1 DEF ThreadInv
        <5>3. affinity[next] = BSP
          BY <5>2 DEF CallInv
        <5>4. c # BSP
          BY <2>1, <5>2 DEF Masked, Creating
        <5> QED BY <4>1, <5>3, <5>4 DEF BSP, ANY
      <4>6. RootToLoad(next) = root[next]
        BY <3>3, <4>5 DEF RootToLoad
      <4> QED BY <3>1, <3>3, <4>3, <4>4, <4>5, <4>6
    <3> QED BY <3>2, <3>3
  <2> QED BY <2>2, <2>3 DEF CurrentInv
<1>15. ASSUME NEW c \in CPUs, Exit(c)
      PROVE  CurrentInv'
  BY <1>15 DEF Exit, registryVars, memoryVars, cpuVars, CurrentInv, CallInv, ThreadInv,
      Creating, Changing, Registered, TypeOK, CPUs, BSP, ANY, Pids, Masked
<1>16. ASSUME NEW c \in CPUs, NEW a \in Addresses, Fill(c, a)
      PROVE  CurrentInv'
  BY <1>16 DEF Fill, registryVars, memoryVars, threadVars, CurrentInv, CallInv, ThreadInv,
      Creating, Changing, Registered, TypeOK, CPUs, BSP, ANY, Pids, Masked
<1>17. ASSUME NEW c \in CPUs, NEW a \in Addresses, StartCopy(c, a)
      PROVE  CurrentInv'
  BY <1>17 DEF StartCopy, registryVars, memoryVars, threadVars, CurrentInv, CallInv,
      ThreadInv, Creating, Changing, Registered, TypeOK, CPUs, BSP, ANY, Pids, Masked
<1>18. ASSUME NEW c \in CPUs, EndCopy(c)
      PROVE  CurrentInv'
  BY <1>18 DEF EndCopy, registryVars, memoryVars, threadVars, CurrentInv, CallInv, ThreadInv,
      Creating, Changing, Registered, TypeOK, CPUs, BSP, ANY, Pids, Masked
<1>19. ASSUME UNCHANGED vars
      PROVE  CurrentInv'
  BY <1>19 DEF vars, registryVars, memoryVars, threadVars, cpuVars, CurrentInv, CallInv,
      ThreadInv, Creating, Changing, Registered, TypeOK, CPUs, BSP, ANY, Pids, Masked
<1> QED
  BY <1>1, <1>2, <1>3, <1>4, <1>5, <1>6, <1>7, <1>8, <1>9, <1>10,
     <1>11, <1>12, <1>13, <1>14, <1>15, <1>16, <1>17, <1>18, <1>19
  DEF Next, Registry, Caller, Cpu, MapPage, RemapPage, UnmapPage, Interrupt

\* Roots are not shared.
LEMMA SpaceStep ==
  ASSUME ProcessAssumption, TypeOK, SpaceInv, [Next]_vars
  PROVE  SpaceInv'
<1>1. ASSUME NEW r \in Roots, Create(r)
      PROVE  SpaceInv'
  BY <1>1 DEF Create, threadVars, cpuVars, SpaceInv, Registered, TypeOK, Pids
<1>2. ASSUME NEW p \in Pids, Destroy(p)
      PROVE  SpaceInv'
  BY <1>2 DEF Destroy, Destroyable, threadVars, cpuVars, SpaceInv, Registered, TypeOK, Pids
<1>3. ASSUME NEW k \in Callers, NEW p \in Pids, Hold(k, p)
      PROVE  SpaceInv'
  BY <1>3 DEF Hold, memoryVars, threadVars, cpuVars, SpaceInv, Registered, TypeOK, Pids
<1>4. ASSUME NEW k \in Callers, Drop(k)
      PROVE  SpaceInv'
  BY <1>4 DEF Drop, memoryVars, threadVars, cpuVars, SpaceInv, Registered, TypeOK, Pids
<1>5. ASSUME NEW k \in Callers, NEW p \in Pids, NEW a \in Addresses,
             NEW new \in freeFrames \cup {None}, NEW old \in Frames \cup {None},
             Change(k, p, a, new, old)
      PROVE  SpaceInv'
  BY <1>5 DEF Change, threadVars, cpuVars, SpaceInv, Registered, TypeOK, Pids
<1>6. ASSUME NEW k \in Callers, Send(k)
      PROVE  SpaceInv'
  BY <1>6 DEF Send, registryVars, memoryVars, threadVars, cpuVars, SpaceInv, Registered,
      TypeOK, Pids
<1>7. ASSUME NEW k \in Callers, NEW c \in CPUs, Acknowledge(k, c)
      PROVE  SpaceInv'
  BY <1>7 DEF Acknowledge, registryVars, memoryVars, threadVars, SpaceInv, Registered, TypeOK,
      Pids
<1>8. ASSUME NEW k \in Callers, Unpin(k)
      PROVE  SpaceInv'
  BY <1>8 DEF Unpin, threadVars, cpuVars, SpaceInv, Registered, TypeOK, Pids
<1>9. ASSUME NEW k \in Callers, NEW p \in Pids, Retain(k, p)
      PROVE  SpaceInv'
  BY <1>9 DEF Retain, memoryVars, threadVars, cpuVars, SpaceInv, Registered, TypeOK, Pids
<1>10. ASSUME NEW k \in Callers, Borrow(k)
      PROVE  SpaceInv'
  BY <1>10 DEF Borrow, registryVars, memoryVars, threadVars, cpuVars, SpaceInv, Registered,
      TypeOK, Pids
<1>11. ASSUME NEW k \in Callers, NEW t \in Threads, CreateBase(k, t)
      PROVE  SpaceInv'
  BY <1>11 DEF CreateBase, BirthAffinity, registryVars, memoryVars, cpuVars, SpaceInv,
      Registered, TypeOK, Pids
<1>12. ASSUME NEW k \in Callers, CreateFails(k)
      PROVE  SpaceInv'
  BY <1>12 DEF CreateFails, AfterFailure, memoryVars, threadVars, cpuVars, SpaceInv,
      Registered, TypeOK, Pids
<1>13. ASSUME NEW k \in Callers, NEW where \in CPUs \cup {ANY}, Attach(k, where)
      PROVE  SpaceInv'
  BY <1>13 DEF Attach, registryVars, memoryVars, cpuVars, SpaceInv, Registered, TypeOK, Pids
<1>14. ASSUME NEW c \in CPUs, NEW R \in SUBSET Threads,
             NEW next \in Threads \cup {None}, ReapAndSwitch(c, R, next)
      PROVE  SpaceInv'
  BY <1>14 DEF ReapAndSwitch, Confirmed, Selectable, RootToLoad, Reapable, Released,
      memoryVars, SpaceInv, Registered, TypeOK, Pids
<1>15. ASSUME NEW c \in CPUs, Exit(c)
      PROVE  SpaceInv'
  BY <1>15 DEF Exit, registryVars, memoryVars, cpuVars, SpaceInv, Registered, TypeOK, Pids
<1>16. ASSUME NEW c \in CPUs, NEW a \in Addresses, Fill(c, a)
      PROVE  SpaceInv'
  BY <1>16 DEF Fill, registryVars, memoryVars, threadVars, SpaceInv, Registered, TypeOK, Pids
<1>17. ASSUME NEW c \in CPUs, NEW a \in Addresses, StartCopy(c, a)
      PROVE  SpaceInv'
  BY <1>17 DEF StartCopy, registryVars, memoryVars, threadVars, SpaceInv, Registered, TypeOK,
      Pids
<1>18. ASSUME NEW c \in CPUs, EndCopy(c)
      PROVE  SpaceInv'
  BY <1>18 DEF EndCopy, registryVars, memoryVars, threadVars, SpaceInv, Registered, TypeOK, Pids
<1>19. ASSUME UNCHANGED vars
      PROVE  SpaceInv'
  BY <1>19 DEF vars, registryVars, memoryVars, threadVars, cpuVars, SpaceInv,
      Registered, TypeOK, Pids
<1> QED
  BY <1>1, <1>2, <1>3, <1>4, <1>5, <1>6, <1>7, <1>8, <1>9, <1>10,
     <1>11, <1>12, <1>13, <1>14, <1>15, <1>16, <1>17, <1>18, <1>19
  DEF Next, Registry, Caller, Cpu, MapPage, RemapPage, UnmapPage, Interrupt

\* Frames are not shared.
LEMMA FrameStep ==
  ASSUME ProcessAssumption, TypeOK, SpaceInv, CallInv, FrameInv, [Next]_vars
  PROVE  FrameInv'
<1>1. ASSUME NEW r \in Roots, Create(r)
      PROVE  FrameInv'
  BY <1>1 DEF Create, threadVars, cpuVars, FrameInv, SpaceInv, CallInv, Creating, Changing,
      Registered, TypeOK, Pids
<1>2. ASSUME NEW p \in Pids, Destroy(p)
      PROVE  FrameInv'
  BY <1>2 DEF Destroy, Destroyable, threadVars, cpuVars, FrameInv, SpaceInv, CallInv,
      Creating, Changing, Registered, TypeOK, Pids
<1>3. ASSUME NEW k \in Callers, NEW p \in Pids, Hold(k, p)
      PROVE  FrameInv'
  BY <1>3 DEF Hold, memoryVars, threadVars, cpuVars, FrameInv, SpaceInv, CallInv, Idle,
      Creating, Changing, Registered, TypeOK, Pids
<1>4. ASSUME NEW k \in Callers, Drop(k)
      PROVE  FrameInv'
  BY <1>4 DEF Drop, memoryVars, threadVars, cpuVars, FrameInv, SpaceInv, CallInv, Idle,
      Creating, Changing, Registered, TypeOK, Pids
<1>5. ASSUME NEW k \in Callers, NEW p \in Pids, NEW a \in Addresses,
             NEW new \in freeFrames \cup {None}, NEW old \in Frames \cup {None},
             Change(k, p, a, new, old)
      PROVE  FrameInv'
  BY <1>5 DEF Change, threadVars, cpuVars, FrameInv, SpaceInv, CallInv, Creating, Changing,
      Registered, TypeOK, Pids
<1>6. ASSUME NEW k \in Callers, Send(k)
      PROVE  FrameInv'
  BY <1>6 DEF Send, registryVars, memoryVars, threadVars, cpuVars, FrameInv, SpaceInv,
      CallInv, Creating, Changing, Registered, TypeOK, Pids
<1>7. ASSUME NEW k \in Callers, NEW c \in CPUs, Acknowledge(k, c)
      PROVE  FrameInv'
  BY <1>7 DEF Acknowledge, registryVars, memoryVars, threadVars, FrameInv, SpaceInv, CallInv,
      Creating, Changing, Registered, TypeOK, Pids
<1>8. ASSUME NEW k \in Callers, Unpin(k)
      PROVE  FrameInv'
  BY <1>8 DEF Unpin, threadVars, cpuVars, FrameInv, SpaceInv, CallInv, Idle, Creating,
      Changing, Registered, TypeOK, Pids
<1>9. ASSUME NEW k \in Callers, NEW p \in Pids, Retain(k, p)
      PROVE  FrameInv'
  BY <1>9 DEF Retain, memoryVars, threadVars, cpuVars, FrameInv, SpaceInv, CallInv, Idle,
      Creating, Changing, Registered, TypeOK, Pids
<1>10. ASSUME NEW k \in Callers, Borrow(k)
      PROVE  FrameInv'
  BY <1>10 DEF Borrow, registryVars, memoryVars, threadVars, cpuVars, FrameInv, SpaceInv,
      CallInv, Creating, Changing, Registered, TypeOK, Pids
<1>11. ASSUME NEW k \in Callers, NEW t \in Threads, CreateBase(k, t)
      PROVE  FrameInv'
  BY <1>11 DEF CreateBase, BirthAffinity, registryVars, memoryVars, cpuVars, FrameInv,
      SpaceInv, CallInv, Creating, Changing, Registered, TypeOK, Pids
<1>12. ASSUME NEW k \in Callers, CreateFails(k)
      PROVE  FrameInv'
  BY <1>12 DEF CreateFails, AfterFailure, memoryVars, threadVars, cpuVars, FrameInv, SpaceInv,
      CallInv, Idle, Creating, Changing, Registered, TypeOK, Pids
<1>13. ASSUME NEW k \in Callers, NEW where \in CPUs \cup {ANY}, Attach(k, where)
      PROVE  FrameInv'
  BY <1>13 DEF Attach, registryVars, memoryVars, cpuVars, FrameInv, SpaceInv, CallInv, Idle,
      Creating, Changing, Registered, TypeOK, Pids
<1>14. ASSUME NEW c \in CPUs, NEW R \in SUBSET Threads,
             NEW next \in Threads \cup {None}, ReapAndSwitch(c, R, next)
      PROVE  FrameInv'
  BY <1>14 DEF ReapAndSwitch, Confirmed, Selectable, RootToLoad, Reapable, Released,
      memoryVars, FrameInv, SpaceInv, CallInv, Creating, Changing, Registered, TypeOK, Pids
<1>15. ASSUME NEW c \in CPUs, Exit(c)
      PROVE  FrameInv'
  BY <1>15 DEF Exit, registryVars, memoryVars, cpuVars, FrameInv, SpaceInv, CallInv, Creating,
      Changing, Registered, TypeOK, Pids
<1>16. ASSUME NEW c \in CPUs, NEW a \in Addresses, Fill(c, a)
      PROVE  FrameInv'
  BY <1>16 DEF Fill, registryVars, memoryVars, threadVars, FrameInv, SpaceInv, CallInv,
      Creating, Changing, Registered, TypeOK, Pids
<1>17. ASSUME NEW c \in CPUs, NEW a \in Addresses, StartCopy(c, a)
      PROVE  FrameInv'
  BY <1>17 DEF StartCopy, registryVars, memoryVars, threadVars, FrameInv, SpaceInv, CallInv,
      Creating, Changing, Registered, TypeOK, Pids
<1>18. ASSUME NEW c \in CPUs, EndCopy(c)
      PROVE  FrameInv'
  BY <1>18 DEF EndCopy, registryVars, memoryVars, threadVars, FrameInv, SpaceInv, CallInv,
      Creating, Changing, Registered, TypeOK, Pids
<1>19. ASSUME UNCHANGED vars
      PROVE  FrameInv'
  BY <1>19 DEF vars, registryVars, memoryVars, threadVars, cpuVars, FrameInv, SpaceInv,
      CallInv, Creating, Changing, Registered, TypeOK, Pids
<1> QED
  BY <1>1, <1>2, <1>3, <1>4, <1>5, <1>6, <1>7, <1>8, <1>9, <1>10,
     <1>11, <1>12, <1>13, <1>14, <1>15, <1>16, <1>17, <1>18, <1>19
  DEF Next, Registry, Caller, Cpu, MapPage, RemapPage, UnmapPage, Interrupt

\* A loaded root belongs to a process that some thread refers to.
LEMMA LoadedRoots ==
  ASSUME ProcessAssumption, TypeOK, HoldersAreCounted, ThreadInv, CurrentInv,
         NEW c \in CPUs, cr3[c] # KernelRoot
  PROVE  \E p \in Pids : Registered(p) /\ space[p] = cr3[c] /\ refs[p] > 0
<1> DEFINE t == current[c]
           p == pid[t]
<1>1. t \in Threads /\ p # 0 /\ cr3[c] = root[t]
  BY DEF CurrentInv, TypeOK
<1>2. p \in Pids /\ Registered(p) /\ root[t] = space[p]
  BY <1>1 DEF ThreadInv, TypeOK, Registered
<1>3. t \in ThreadsOf(p) /\ IsFiniteSet(ThreadsOf(p)) /\ IsFiniteSet(CallersWith(p))
  BY <1>1, FS_Subset DEF ThreadsOf, CallersWith, ProcessAssumption
<1>4. /\ Cardinality(ThreadsOf(p)) \in Nat /\ Cardinality(CallersWith(p)) \in Nat
      /\ Cardinality(ThreadsOf(p)) # 0
  BY <1>3, FS_CardinalityType, FS_EmptySet
<1>5. refs[p] = Cardinality(ThreadsOf(p)) + Cardinality(CallersWith(p))
  BY <1>2 DEF HoldersAreCounted
<1>6. refs[p] > 0
  BY <1>4, <1>5
<1> QED BY <1>1, <1>2, <1>6

\* Nothing changes for a CPU that keeps its root while what it may use is kept.
LEMMA UseKept ==
  ASSUME TypeOK, UseInv, UNCHANGED <<cr3, tlb, reading>>,
         \A c \in CPUs, a \in Addresses, f \in Frames :
           cr3[c] \in Roots /\ MayUse(c, a, f) => MayUse(c, a, f)'
  PROVE  UseInv'
BY DEF UseInv, TypeOK

\* Calls that change no page do not matter for that.
LEMMA OtherCalls ==
  ASSUME TypeOK, UseInv, UNCHANGED <<pte, cr3, tlb, reading>>,
         \A k \in Callers : call[k].at \in Changing => call'[k] = call[k]
  PROVE  UseInv'
<1>1. ASSUME NEW c \in CPUs, NEW a \in Addresses, NEW f \in Frames, MayUse(c, a, f)
      PROVE  MayUse(c, a, f)'
  <2>1. CASE pte[cr3[c]][a] = f
    BY <2>1 DEF MayUse
  <2>2. CASE pte[cr3[c]][a] # f
    <3>1. PICK k \in Callers : /\ call[k].at = "changed" \/ c \in call[k].waiting
                               /\ call[k].at \in Changing /\ call[k].root = cr3[c]
                               /\ call[k].arg = a /\ call[k].old = f
      BY <1>1, <2>2 DEF MayUse
    <3> QED BY <3>1 DEF MayUse
  <2> QED BY <2>1, <2>2
<1> QED BY <1>1, UseKept

\* What a CPU uses of a process is still in its page tables, or about to be taken
\* from the CPU.
LEMMA UseStep ==
  ASSUME ProcessAssumption, TypeOK, HoldersAreCounted, SpaceInv, CallInv, ThreadInv,
         CurrentInv, FrameInv, UseInv, [Next]_vars
  PROVE  UseInv'
<1>1. ASSUME NEW r \in Roots, Create(r)
      PROVE  UseInv'
  <2>1. \A c \in CPUs : cr3[c] # r
    BY <1>1, LoadedRoots DEF Create, SpaceInv, Registered, ProcessAssumption
  <2>2. UNCHANGED <<cr3, tlb, reading, call>> /\ \A s \in Roots : s # r => pte'[s] = pte[s]
    BY <1>1 DEF Create, cpuVars, TypeOK
  <2>3. ASSUME NEW c \in CPUs, NEW a \in Addresses, NEW f \in Frames,
               cr3[c] \in Roots, MayUse(c, a, f)
        PROVE  MayUse(c, a, f)'
    <3>1. pte'[cr3'[c]] = pte[cr3[c]]
      BY <2>1, <2>2, <2>3
    <3> QED BY <2>2, <2>3, <3>1 DEF MayUse
  <2> QED BY <2>2, <2>3, UseKept
<1>2. ASSUME NEW p \in Pids, Destroy(p)
      PROVE  UseInv'
  BY <1>2 DEF Destroy, Destroyable, threadVars, cpuVars, UseInv, MayUse, SpaceInv, CallInv,
      Creating, Changing, Registered, TypeOK, Pids, Masked
<1>3. ASSUME NEW k \in Callers, NEW p \in Pids, Hold(k, p)
      PROVE  UseInv'
  <2>1. \A l \in Callers : call[l].at \in Changing => call'[l] = call[l]
    BY <1>3 DEF Hold, Creating, Changing, TypeOK
  <2> QED BY <1>3, <2>1, OtherCalls DEF Hold, memoryVars, threadVars, cpuVars
<1>4. ASSUME NEW k \in Callers, Drop(k)
      PROVE  UseInv'
  <2>1. \A l \in Callers : call[l].at \in Changing => call'[l] = call[l]
    BY <1>4 DEF Drop, Creating, Changing, TypeOK
  <2> QED BY <1>4, <2>1, OtherCalls DEF Drop, memoryVars, threadVars, cpuVars
<1>5. ASSUME NEW k \in Callers, NEW p \in Pids, NEW a \in Addresses,
             NEW new \in freeFrames \cup {None}, NEW old \in Frames \cup {None},
             Change(k, p, a, new, old)
      PROVE  UseInv'
  <2>1. ASSUME NEW d \in CPUs, NEW b \in Addresses, NEW f \in Frames,
               cr3[d] \in Roots, MayUse(d, b, f)
        PROVE  MayUse(d, b, f)'
    <3>1. CASE pte[cr3[d]][b] = f
      <4>1. CASE cr3[d] = space[p] /\ b = a
        <5>1. call'[k].at = "changed" /\ call'[k].root = space[p] /\ call'[k].arg = a /\ call'[k].old = old
          BY <1>5 DEF Change, TypeOK
        <5>2. old = f
          BY <1>5, <3>1, <4>1 DEF Change
        <5> QED BY <1>5, <4>1, <5>1, <5>2 DEF Change, MayUse, Changing, cpuVars
      <4>2. CASE ~(cr3[d] = space[p] /\ b = a)
        BY <1>5, <2>1, <3>1, <4>2 DEF Change, MayUse, Registered, cpuVars, TypeOK
      <4> QED BY <4>1, <4>2
    <3>2. CASE pte[cr3[d]][b] # f
      <4>1. PICK l \in Callers : /\ call[l].at = "changed" \/ d \in call[l].waiting
                                 /\ call[l].at \in Changing /\ call[l].root = cr3[d]
                                 /\ call[l].arg = b /\ call[l].old = f
        BY <2>1, <3>2 DEF MayUse
      <4>2. call'[l] = call[l]
        BY <1>5, <4>1 DEF Change, Changing, TypeOK
      <4> QED BY <1>5, <4>1, <4>2 DEF Change, MayUse, cpuVars
    <3> QED BY <3>1, <3>2
  <2>2. UNCHANGED <<cr3, tlb, reading>>
    BY <1>5 DEF Change, cpuVars
  <2> QED BY <2>1, <2>2, UseKept
<1>6. ASSUME NEW k \in Callers, Send(k)
      PROVE  UseInv'
  <2>1. ASSUME NEW d \in CPUs, NEW b \in Addresses, NEW f \in Frames,
               cr3[d] \in Roots, MayUse(d, b, f)
        PROVE  MayUse(d, b, f)'
    <3>1. CASE pte[cr3[d]][b] = f
      BY <1>6, <3>1 DEF Send, MayUse, memoryVars, cpuVars
    <3>2. CASE pte[cr3[d]][b] # f
      <4>1. PICK l \in Callers : /\ call[l].at = "changed" \/ d \in call[l].waiting
                                 /\ call[l].at \in Changing /\ call[l].root = cr3[d]
                                 /\ call[l].arg = b /\ call[l].old = f
        BY <2>1, <3>2 DEF MayUse
      <4>2. CASE l = k
        <5>1. /\ call'[k].at = "sent" /\ call'[k].waiting = Targets(call[k].root)
              /\ call'[k].root = call[k].root /\ call'[k].arg = call[k].arg /\ call'[k].old = call[k].old
          BY <1>6 DEF Send, TypeOK, Calls
        <5>2. d \in call'[k].waiting
          BY <4>1, <4>2, <5>1 DEF Targets
        <5> QED BY <1>6, <4>1, <4>2, <5>1, <5>2 DEF Send, MayUse, Changing, cpuVars
      <4>3. CASE l # k
        <5>1. call'[l] = call[l]
          BY <1>6, <4>3 DEF Send, TypeOK
        <5> QED BY <1>6, <4>1, <5>1 DEF Send, MayUse, cpuVars
      <4> QED BY <4>2, <4>3
    <3> QED BY <3>1, <3>2
  <2>2. UNCHANGED <<cr3, tlb, reading>>
    BY <1>6 DEF Send, cpuVars
  <2> QED BY <2>1, <2>2, UseKept
<1>7. ASSUME NEW k \in Callers, NEW c \in CPUs, Acknowledge(k, c)
      PROVE  UseInv'
  <2>1. /\ UNCHANGED <<pte, cr3, reading>> /\ reading[c] = None
        /\ \A d \in CPUs : d # c => tlb'[d] = tlb[d]
        /\ \A b \in Addresses : tlb'[c][b] = IF b = call[k].arg /\ cr3[c] = call[k].root
                                             THEN None ELSE tlb[c][b]
    BY <1>7 DEF Acknowledge, Masked, memoryVars, TypeOK
  <2>2. /\ call'[k] = [call[k] EXCEPT !.waiting = @ \ {c}]
        /\ \A l \in Callers : l # k => call'[l] = call[l]
    BY <1>7 DEF Acknowledge, TypeOK
  <2>3. call[k].at = "sent"
    BY <1>7 DEF Acknowledge, CallInv
  <2>4. ASSUME NEW d \in CPUs, NEW b \in Addresses, NEW f \in Frames,
               cr3[d] \in Roots, MayUse(d, b, f),
               ~(d = c /\ b = call[k].arg /\ cr3[c] = call[k].root)
        PROVE  MayUse(d, b, f)'
    <3>1. CASE pte[cr3[d]][b] = f
      BY <2>1, <3>1 DEF MayUse
    <3>2. CASE pte[cr3[d]][b] # f
      <4>1. PICK l \in Callers : /\ call[l].at = "changed" \/ d \in call[l].waiting
                                 /\ call[l].at \in Changing /\ call[l].root = cr3[d]
                                 /\ call[l].arg = b /\ call[l].old = f
        BY <2>4, <3>2 DEF MayUse
      <4>2. CASE l = k
        <5>1. d # c /\ d \in call[k].waiting
          BY <2>3, <2>4, <4>1, <4>2
        <5>2. /\ d \in call'[k].waiting /\ call'[k].at = "sent" /\ call'[k].root = cr3[d]
              /\ call'[k].arg = b /\ call'[k].old = f
          BY <2>2, <2>3, <4>1, <4>2, <5>1 DEF TypeOK, Calls
        <5> QED BY <2>1, <5>2 DEF MayUse, Changing
      <4>3. CASE l # k
        BY <2>1, <2>2, <4>1, <4>3 DEF MayUse
      <4> QED BY <4>2, <4>3
    <3> QED BY <3>1, <3>2
  <2>5. ASSUME NEW d \in CPUs, NEW b \in Addresses, tlb'[d][b] # None
        PROVE  cr3'[d] \in Roots /\ MayUse(d, b, tlb[d][b])' /\ tlb'[d][b] = tlb[d][b]
    <3>1. tlb'[d][b] = tlb[d][b] /\ ~(d = c /\ b = call[k].arg /\ cr3[c] = call[k].root)
      BY <2>1, <2>5
    <3>2. cr3[d] \in Roots /\ MayUse(d, b, tlb[d][b]) /\ tlb[d][b] \in Frames
      BY <2>5, <3>1 DEF UseInv, TypeOK
    <3>3. cr3'[d] \in Roots
      BY <2>1, <3>2
    <3> DEFINE f == tlb[d][b]
    <3> HIDE DEF f
    <3> QED BY <2>4, <3>1, <3>2, <3>3
  <2>6. ASSUME NEW d \in CPUs, reading'[d] # None
        PROVE  cr3'[d] \in Roots /\ \E b \in Addresses : MayUse(d, b, reading[d])'
    <3>1. d # c /\ reading[d] # None
      BY <2>1, <2>6
    <3>2. cr3[d] \in Roots /\ reading[d] \in Frames
      BY <3>1 DEF UseInv, TypeOK
    <3>3. PICK b \in Addresses : MayUse(d, b, reading[d])
      BY <3>1 DEF UseInv
    <3> QED BY <2>1, <2>4, <3>1, <3>2, <3>3
  <2> QED BY <2>1, <2>5, <2>6 DEF UseInv
<1>8. ASSUME NEW k \in Callers, Unpin(k)
      PROVE  UseInv'
  <2>1. ASSUME NEW d \in CPUs, NEW b \in Addresses, NEW f \in Frames,
               cr3[d] \in Roots, MayUse(d, b, f)
        PROVE  MayUse(d, b, f)'
    <3>1. CASE pte[cr3[d]][b] = f
      BY <1>8, <3>1 DEF Unpin, MayUse, cpuVars
    <3>2. CASE pte[cr3[d]][b] # f
      <4>1. PICK l \in Callers : /\ call[l].at = "changed" \/ d \in call[l].waiting
                                 /\ call[l].at \in Changing /\ call[l].root = cr3[d]
                                 /\ call[l].arg = b /\ call[l].old = f
        BY <2>1, <3>2 DEF MayUse
      <4>2. l # k
        BY <1>8, <4>1 DEF Unpin
      <4>3. call'[l] = call[l]
        BY <1>8, <4>2 DEF Unpin, TypeOK
      <4> QED BY <1>8, <4>1, <4>3 DEF Unpin, MayUse, cpuVars
    <3> QED BY <3>1, <3>2
  <2>2. UNCHANGED <<cr3, tlb, reading>>
    BY <1>8 DEF Unpin, cpuVars
  <2> QED BY <2>1, <2>2, UseKept
<1>9. ASSUME NEW k \in Callers, NEW p \in Pids, Retain(k, p)
      PROVE  UseInv'
  <2>1. \A l \in Callers : call[l].at \in Changing => call'[l] = call[l]
    BY <1>9 DEF Retain, Creating, Changing, TypeOK
  <2> QED BY <1>9, <2>1, OtherCalls DEF Retain, memoryVars, threadVars, cpuVars
<1>10. ASSUME NEW k \in Callers, Borrow(k)
      PROVE  UseInv'
  <2>1. \A l \in Callers : call[l].at \in Changing => call'[l] = call[l]
    BY <1>10 DEF Borrow, Creating, Changing, TypeOK
  <2> QED BY <1>10, <2>1, OtherCalls DEF Borrow, registryVars, memoryVars, threadVars, cpuVars
<1>11. ASSUME NEW k \in Callers, NEW t \in Threads, CreateBase(k, t)
      PROVE  UseInv'
  <2>1. \A l \in Callers : call[l].at \in Changing => call'[l] = call[l]
    BY <1>11 DEF CreateBase, Creating, Changing, TypeOK
  <2> QED BY <1>11, <2>1, OtherCalls DEF CreateBase, registryVars, memoryVars, cpuVars
<1>12. ASSUME NEW k \in Callers, CreateFails(k)
      PROVE  UseInv'
  <2>1. \A l \in Callers : call[l].at \in Changing => call'[l] = call[l]
    BY <1>12 DEF CreateFails, Creating, Changing, TypeOK
  <2> QED BY <1>12, <2>1, OtherCalls DEF CreateFails, memoryVars, threadVars, cpuVars
<1>13. ASSUME NEW k \in Callers, NEW where \in CPUs \cup {ANY}, Attach(k, where)
      PROVE  UseInv'
  <2>1. \A l \in Callers : call[l].at \in Changing => call'[l] = call[l]
    BY <1>13 DEF Attach, Creating, Changing, TypeOK
  <2> QED BY <1>13, <2>1, OtherCalls DEF Attach, registryVars, memoryVars, cpuVars
<1>14. ASSUME NEW c \in CPUs, NEW R \in SUBSET Threads,
             NEW next \in Threads \cup {None}, ReapAndSwitch(c, R, next)
      PROVE  UseInv'
  <2>1. /\ UNCHANGED <<pte, call, reading>> /\ reading[c] = None
        /\ \A d \in CPUs : d # c => cr3'[d] = cr3[d] /\ tlb'[d] = tlb[d]
        /\ tlb'[c] = IF cr3'[c] = cr3[c] THEN tlb[c] ELSE [b \in Addresses |-> None]
    BY <1>14 DEF ReapAndSwitch, memoryVars, Masked, TypeOK
  <2>2. ASSUME NEW d \in CPUs, cr3'[d] = cr3[d], NEW b \in Addresses, NEW f \in Frames,
               MayUse(d, b, f)
        PROVE  MayUse(d, b, f)'
    BY <2>1, <2>2 DEF MayUse
  <2>3. ASSUME NEW d \in CPUs, NEW b \in Addresses, tlb'[d][b] # None
        PROVE  cr3'[d] \in Roots /\ MayUse(d, b, tlb[d][b])' /\ tlb'[d][b] = tlb[d][b]
    <3>1. tlb'[d][b] = tlb[d][b] /\ cr3'[d] = cr3[d]
      BY <2>1, <2>3
    <3>2. cr3[d] \in Roots /\ MayUse(d, b, tlb[d][b]) /\ tlb[d][b] \in Frames
      BY <2>3, <3>1 DEF UseInv, TypeOK
    <3>3. cr3'[d] \in Roots
      BY <3>1, <3>2
    <3> QED BY <2>2, <3>1, <3>2, <3>3
  <2>4. ASSUME NEW d \in CPUs, reading'[d] # None
        PROVE  cr3'[d] \in Roots /\ \E b \in Addresses : MayUse(d, b, reading[d])'
    <3>1. d # c /\ reading[d] # None
      BY <2>1, <2>4
    <3>2. cr3[d] \in Roots /\ reading[d] \in Frames
      BY <3>1 DEF UseInv, TypeOK
    <3>3. PICK b \in Addresses : MayUse(d, b, reading[d])
      BY <3>1 DEF UseInv
    <3> QED BY <2>1, <2>2, <3>1, <3>2, <3>3
  <2> QED BY <2>1, <2>3, <2>4 DEF UseInv
<1>15. ASSUME NEW c \in CPUs, Exit(c)
      PROVE  UseInv'
  BY <1>15 DEF Exit, registryVars, memoryVars, cpuVars, UseInv, MayUse, SpaceInv, CallInv,
      Creating, Changing, Registered, TypeOK, Pids, Masked
<1>16. ASSUME NEW c \in CPUs, NEW a \in Addresses, Fill(c, a)
      PROVE  UseInv'
  BY <1>16 DEF Fill, registryVars, memoryVars, threadVars, UseInv, MayUse, SpaceInv, CallInv,
      Creating, Changing, Registered, TypeOK, Pids, Masked
<1>17. ASSUME NEW c \in CPUs, NEW a \in Addresses, StartCopy(c, a)
      PROVE  UseInv'
  <2>1. UNCHANGED <<pte, call, cr3, tlb>>
    BY <1>17 DEF StartCopy, memoryVars
  <2>2. \A f : \A d \in CPUs, b \in Addresses : MayUse(d, b, f)' <=> MayUse(d, b, f)
    BY <2>1 DEF MayUse
  <2>3. cr3[c] \in Roots /\ MayUse(c, a, pte[cr3[c]][a])
    BY <1>17 DEF StartCopy, Registered, TypeOK, MayUse
  <2>4. \A d \in CPUs : reading'[d] = IF d = c THEN pte[cr3[c]][a] ELSE reading[d]
    BY <1>17 DEF StartCopy, TypeOK
  <2>5. ASSUME NEW d \in CPUs, reading'[d] # None
        PROVE  cr3[d] \in Roots /\ \E b \in Addresses : MayUse(d, b, reading'[d])
    BY <2>3, <2>4, <2>5 DEF UseInv
  <2> QED BY <2>1, <2>2, <2>5 DEF UseInv
<1>18. ASSUME NEW c \in CPUs, EndCopy(c)
      PROVE  UseInv'
  BY <1>18 DEF EndCopy, registryVars, memoryVars, threadVars, UseInv, MayUse, SpaceInv,
      CallInv, Creating, Changing, Registered, TypeOK, Pids, Masked
<1>19. ASSUME UNCHANGED vars
      PROVE  UseInv'
  BY <1>19 DEF vars, registryVars, memoryVars, threadVars, cpuVars, UseInv, MayUse,
      SpaceInv, CallInv, Creating, Changing, Registered, TypeOK, Pids, Masked
<1> QED
  BY <1>1, <1>2, <1>3, <1>4, <1>5, <1>6, <1>7, <1>8, <1>9, <1>10,
     <1>11, <1>12, <1>13, <1>14, <1>15, <1>16, <1>17, <1>18, <1>19
  DEF Next, Registry, Caller, Cpu, MapPage, RemapPage, UnmapPage, Interrupt

LEMMA DisjointSum ==
  ASSUME NEW S, IsFiniteSet(S), NEW T, IsFiniteSet(T), S \cap T = {}
  PROVE  Cardinality(S \cup T) = Cardinality(S) + Cardinality(T)
<1>1. Cardinality(S) \in Nat /\ Cardinality(T) \in Nat
  BY FS_CardinalityType
<1>2. Cardinality(S \cup T) = Cardinality(S) + Cardinality(T) - Cardinality(S \cap T)
  BY FS_Union
<1>3. Cardinality(S \cap T) = 0
  BY FS_EmptySet
<1> QED BY <1>1, <1>2, <1>3

\* The references of the threads that are reaped are there to be released.
LEMMA ReleaseOK ==
  ASSUME ProcessAssumption, TypeOK, HoldersAreCounted, NEW R \in SUBSET Threads, NEW p \in Pids
  PROVE  /\ refs[p] - Cardinality({t \in R : pid[t] = p}) \in Nat
         /\ refs[p] - Cardinality({t \in R : pid[t] = p})
              = Cardinality(ThreadsOf(p) \ R) + Cardinality(CallersWith(p))
<1> DEFINE S == {t \in R : pid[t] = p}
<1>1. IsFiniteSet(ThreadsOf(p)) /\ S \subseteq ThreadsOf(p) /\ ThreadsOf(p) \ S = ThreadsOf(p) \ R
  BY FS_Subset DEF ThreadsOf, ProcessAssumption
<1>2. IsFiniteSet(S) /\ IsFiniteSet(ThreadsOf(p) \ R) /\ IsFiniteSet(CallersWith(p))
  BY <1>1, FS_Subset DEF CallersWith, ProcessAssumption
<1>3. /\ Cardinality(S) \in Nat /\ Cardinality(ThreadsOf(p) \ R) \in Nat
      /\ Cardinality(CallersWith(p)) \in Nat
  BY <1>2, FS_CardinalityType
<1>4. S \cup (ThreadsOf(p) \ R) = ThreadsOf(p) /\ S \cap (ThreadsOf(p) \ R) = {}
  BY <1>1
<1>5. Cardinality(ThreadsOf(p)) = Cardinality(S) + Cardinality(ThreadsOf(p) \ R)
  <2> HIDE DEF S
  <2> QED BY <1>2, <1>4, DisjointSum
<1>6. refs[p] = Cardinality(ThreadsOf(p)) + Cardinality(CallersWith(p))
  BY DEF HoldersAreCounted
<1> HIDE DEF S
<1>7. /\ refs[p] - Cardinality(S) \in Nat
      /\ refs[p] - Cardinality(S) = Cardinality(ThreadsOf(p) \ R) + Cardinality(CallersWith(p))
  BY <1>3, <1>5, <1>6
<1> QED BY <1>7 DEF S

\* Types.
LEMMA TypeStep ==
  ASSUME ProcessAssumption, TypeOK, HoldersAreCounted, CallInv, ThreadInv, CurrentInv, [Next]_vars
  PROVE  TypeOK'
<1>1. ASSUME NEW r \in Roots, Create(r)
      PROVE  TypeOK'
  BY <1>1 DEF Create, Pids, ProcessAssumption, threadVars, cpuVars, TypeOK
<1>2. ASSUME NEW p \in Pids, Destroy(p)
      PROVE  TypeOK'
  BY <1>2 DEF Destroy, Registered, Destroyable, threadVars, cpuVars, TypeOK
<1>3. ASSUME NEW k \in Callers, NEW p \in Pids, Hold(k, p)
      PROVE  TypeOK'
  <2> DEFINE new == [Idle EXCEPT !.at = "holding", !.pid = p]
  <2>1. new \in Calls
    <3>1. call[k] \in Calls
      BY DEF TypeOK
    <3> QED BY <1>3, <3>1 DEF Hold, Idle, Calls
  <2>2. call' = [call EXCEPT ![k] = new]
    BY <1>3 DEF Hold
  <2>3. call' \in [Callers -> Calls]
    <3> HIDE DEF new
    <3> QED BY <2>1, <2>2 DEF TypeOK
  <2>4. refs' \in [Pids -> Nat]
    BY <1>3 DEF Hold, TypeOK
  <2> QED BY <1>3, <2>3, <2>4 DEF Hold, memoryVars, threadVars, cpuVars, TypeOK
<1>4. ASSUME NEW k \in Callers, Drop(k)
      PROVE  TypeOK'
  <2> DEFINE new == Idle
  <2>1. new \in Calls
    <3>1. call[k] \in Calls
      BY DEF TypeOK
    <3> QED BY <1>4, <3>1 DEF Drop, Idle, Calls
  <2>2. call' = [call EXCEPT ![k] = new]
    BY <1>4 DEF Drop
  <2>3. call' \in [Callers -> Calls]
    <3> HIDE DEF new
    <3> QED BY <2>1, <2>2 DEF TypeOK
  <2>4. refs' \in [Pids -> Nat]
    BY <1>4 DEF Drop, Registered, TypeOK
  <2> QED BY <1>4, <2>3, <2>4 DEF Drop, memoryVars, threadVars, cpuVars, TypeOK
<1>5. ASSUME NEW k \in Callers, NEW p \in Pids, NEW a \in Addresses,
             NEW new \in freeFrames \cup {None}, NEW old \in Frames \cup {None},
             Change(k, p, a, new, old)
      PROVE  TypeOK'
  <2> DEFINE record == [at |-> "changed", pid |-> p, root |-> space[p], arg |-> a,
                    old |-> old, waiting |-> {}]
  <2>1. record \in Calls
    <3>1. call[k] \in Calls
      BY DEF TypeOK
    <3> QED BY <1>5, <3>1 DEF Change, Calls, Changing, TypeOK, Registered
  <2>2. call' = [call EXCEPT ![k] = record]
    BY <1>5 DEF Change
  <2>3. call' \in [Callers -> Calls]
    <3> HIDE DEF record
    <3> QED BY <2>1, <2>2 DEF TypeOK
  <2>4. pins' \in [Pids -> Nat]
    BY <1>5 DEF Change, TypeOK
  <2>5. pte' \in [Roots -> [Addresses -> Frames \cup {None}]]
    BY <1>5 DEF Change, TypeOK, Registered
  <2> QED BY <1>5, <2>3, <2>4, <2>5 DEF Change, threadVars, cpuVars, TypeOK
<1>6. ASSUME NEW k \in Callers, Send(k)
      PROVE  TypeOK'
  <2> DEFINE new == [call[k] EXCEPT !.at = "sent", !.waiting = Targets(call[k].root)]
  <2>1. new \in Calls
    <3>1. call[k] \in Calls
      BY DEF TypeOK
    <3> QED BY <1>6, <3>1 DEF Send, Changing, Targets, Calls
  <2>2. call' = [call EXCEPT ![k] = new]
    BY <1>6 DEF Send
  <2>3. call' \in [Callers -> Calls]
    <3> HIDE DEF new
    <3> QED BY <2>1, <2>2 DEF TypeOK
  <2> QED BY <1>6, <2>3 DEF Send, registryVars, memoryVars, threadVars, cpuVars, TypeOK
<1>7. ASSUME NEW k \in Callers, NEW c \in CPUs, Acknowledge(k, c)
      PROVE  TypeOK'
  <2> DEFINE new == [call[k] EXCEPT !.waiting = @ \ {c}]
  <2>1. new \in Calls
    <3>1. call[k] \in Calls
      BY DEF TypeOK
    <3> QED BY <1>7, <3>1 DEF Acknowledge, Calls
  <2>2. call' = [call EXCEPT ![k] = new]
    BY <1>7 DEF Acknowledge
  <2>3. call' \in [Callers -> Calls]
    <3> HIDE DEF new
    <3> QED BY <2>1, <2>2 DEF TypeOK
  <2>4. tlb' \in [CPUs -> [Addresses -> Frames \cup {None}]]
    <3>1. call[k].arg \in Addresses
      BY <1>7 DEF Acknowledge, CallInv, Changing
    <3> QED BY <1>7, <3>1 DEF Acknowledge, TypeOK
  <2> QED BY <1>7, <2>3, <2>4 DEF Acknowledge, registryVars, memoryVars, threadVars, TypeOK
<1>8. ASSUME NEW k \in Callers, Unpin(k)
      PROVE  TypeOK'
  <2> DEFINE new == Idle
  <2>1. new \in Calls
    <3>1. call[k] \in Calls
      BY DEF TypeOK
    <3> QED BY <1>8, <3>1 DEF Unpin, Idle, Calls
  <2>2. call' = [call EXCEPT ![k] = new]
    BY <1>8 DEF Unpin
  <2>3. call' \in [Callers -> Calls]
    <3> HIDE DEF new
    <3> QED BY <2>1, <2>2 DEF TypeOK
  <2>4. pins' \in [Pids -> Nat]
    BY <1>8 DEF Unpin, Registered, TypeOK
  <2>5. freeFrames' \subseteq Frames
    BY <1>8 DEF Unpin, TypeOK, Calls
  <2> QED BY <1>8, <2>3, <2>4, <2>5 DEF Unpin, threadVars, cpuVars, TypeOK
<1>9. ASSUME NEW k \in Callers, NEW p \in Pids, Retain(k, p)
      PROVE  TypeOK'
  <2> DEFINE new == [Idle EXCEPT !.at = "retained", !.pid = p]
  <2>1. new \in Calls
    <3>1. call[k] \in Calls
      BY DEF TypeOK
    <3> QED BY <1>9, <3>1 DEF Retain, Idle, Creating, Calls
  <2>2. call' = [call EXCEPT ![k] = new]
    BY <1>9 DEF Retain
  <2>3. call' \in [Callers -> Calls]
    <3> HIDE DEF new
    <3> QED BY <2>1, <2>2 DEF TypeOK
  <2>4. refs' \in [Pids -> Nat]
    BY <1>9 DEF Retain, TypeOK
  <2> QED BY <1>9, <2>3, <2>4 DEF Retain, memoryVars, threadVars, cpuVars, TypeOK
<1>10. ASSUME NEW k \in Callers, Borrow(k)
      PROVE  TypeOK'
  <2> DEFINE new == [call[k] EXCEPT !.at = "borrowed", !.root = space[call[k].pid]]
  <2>1. new \in Calls
    <3>1. call[k] \in Calls
      BY DEF TypeOK
    <3> QED BY <1>10, <3>1 DEF Borrow, Calls, Creating, Registered, TypeOK
  <2>2. call' = [call EXCEPT ![k] = new]
    BY <1>10 DEF Borrow
  <2>3. call' \in [Callers -> Calls]
    <3> HIDE DEF new
    <3> QED BY <2>1, <2>2 DEF TypeOK
  <2> QED BY <1>10, <2>3 DEF Borrow, registryVars, memoryVars, threadVars, cpuVars, TypeOK
<1>11. ASSUME NEW k \in Callers, NEW t \in Threads, CreateBase(k, t)
      PROVE  TypeOK'
  <2> DEFINE new == [call[k] EXCEPT !.at = "created", !.arg = t]
  <2>1. new \in Calls
    <3>1. call[k] \in Calls
      BY DEF TypeOK
    <3> QED BY <1>11, <3>1 DEF CreateBase, Creating, Calls
  <2>2. call' = [call EXCEPT ![k] = new]
    BY <1>11 DEF CreateBase
  <2>3. call' \in [Callers -> Calls]
    <3> HIDE DEF new
    <3> QED BY <2>1, <2>2 DEF TypeOK
  <2>4. /\ state' \in [Threads -> {"UNUSED", "READY", "RUNNING", "TERMINATED"}]
        /\ owner' \in [Threads -> CPUs \cup {None}]
        /\ affinity' \in [Threads -> CPUs \cup {ANY}]
        /\ pid' \in [Threads -> Pids \cup {0}] /\ root' \in [Threads -> Roots \cup {None}]
    BY <1>11 DEF CreateBase, BirthAffinity, TypeOK, ProcessAssumption, BSP, CPUs
  <2> QED BY <1>11, <2>3, <2>4 DEF CreateBase, registryVars, memoryVars, cpuVars, TypeOK
<1>12. ASSUME NEW k \in Callers, CreateFails(k)
      PROVE  TypeOK'
  <2> DEFINE new == Idle
  <2>1. new \in Calls
    <3>1. call[k] \in Calls
      BY DEF TypeOK
    <3> QED BY <1>12, <3>1 DEF CreateFails, Idle, Calls
  <2>2. call' = [call EXCEPT ![k] = new]
    BY <1>12 DEF CreateFails
  <2>3. call' \in [Callers -> Calls]
    <3> HIDE DEF new
    <3> QED BY <2>1, <2>2 DEF TypeOK
  <2>4. refs' \in [Pids -> Nat]
    BY <1>12 DEF CreateFails, AfterFailure, Registered, TypeOK
  <2> QED BY <1>12, <2>3, <2>4 DEF CreateFails, memoryVars, threadVars, cpuVars, TypeOK
<1>13. ASSUME NEW k \in Callers, NEW where \in CPUs \cup {ANY}, Attach(k, where)
      PROVE  TypeOK'
  <2> DEFINE new == Idle
  <2>1. new \in Calls
    <3>1. call[k] \in Calls
      BY DEF TypeOK
    <3> QED BY <1>13, <3>1 DEF Attach, Idle, Calls
  <2>2. call' = [call EXCEPT ![k] = new]
    BY <1>13 DEF Attach
  <2>3. call' \in [Callers -> Calls]
    <3> HIDE DEF new
    <3> QED BY <2>1, <2>2 DEF TypeOK
  <2>4. /\ state' \in [Threads -> {"UNUSED", "READY", "RUNNING", "TERMINATED"}]
        /\ owner' \in [Threads -> CPUs \cup {None}]
        /\ affinity' \in [Threads -> CPUs \cup {ANY}]
        /\ pid' \in [Threads -> Pids \cup {0}] /\ root' \in [Threads -> Roots \cup {None}]
    BY <1>13 DEF Attach, TypeOK, Calls, CallInv
  <2> QED BY <1>13, <2>3, <2>4 DEF Attach, registryVars, memoryVars, cpuVars, TypeOK
<1>14. ASSUME NEW c \in CPUs, NEW R \in SUBSET Threads,
             NEW next \in Threads \cup {None}, ReapAndSwitch(c, R, next)
      PROVE  TypeOK'
  <2>1. refs' \in [Pids -> Nat]
    <3>1. ASSUME NEW p \in Pids
          PROVE  refs[p] - Cardinality({t \in R : pid[t] = p}) \in Nat
      BY ReleaseOK
    <3> QED BY <1>14, <3>1 DEF ReapAndSwitch, Released
  <2>2. state' \in [Threads -> {"UNUSED", "READY", "RUNNING", "TERMINATED"}]
    <3>1. state' = [t \in Threads |-> state'[t]]
      BY <1>14 DEF ReapAndSwitch
    <3>2. /\ ReapedAway(c, R, next) /\ Selected(c, next) /\ LeftAlone(c, R, next)
      BY <1>14, Switched
    <3>3. ASSUME NEW t \in Threads
          PROVE  state'[t] \in {"UNUSED", "READY", "RUNNING", "TERMINATED"}
      <4>1. CASE t \in R
        BY <3>2, <4>1 DEF ReapedAway
      <4>2. CASE t = next
        BY <3>2, <4>2 DEF Selected, ProcessAssumption
      <4>3. CASE t \notin R /\ t # next
        <5>1. state'[t] = IF t = current[c] /\ state[t] = "RUNNING" THEN "READY" ELSE state[t]
          BY <3>2, <4>3 DEF LeftAlone
        <5> QED BY <5>1 DEF TypeOK
      <4> QED BY <4>1, <4>2, <4>3
    <3> QED BY <3>1, <3>3
  <2>3. owner' \in [Threads -> CPUs \cup {None}]
    BY <1>14 DEF ReapAndSwitch, Confirmed, TypeOK
  <2>4. /\ affinity' \in [Threads -> CPUs \cup {ANY}]
        /\ pid' \in [Threads -> Pids \cup {0}] /\ root' \in [Threads -> Roots \cup {None}]
    BY <1>14 DEF ReapAndSwitch, TypeOK
  <2>5. RootToLoad(next) \in Roots \cup {KernelRoot}
    BY DEF RootToLoad, ThreadInv, Registered, TypeOK
  <2>6. current' \in [CPUs -> Threads \cup {None}] /\ cr3' \in [CPUs -> Roots \cup {KernelRoot}]
    BY <1>14, <2>5 DEF ReapAndSwitch, TypeOK
  <2>7. tlb' \in [CPUs -> [Addresses -> Frames \cup {None}]]
    BY <1>14 DEF ReapAndSwitch, TypeOK
  <2>8. UNCHANGED <<nextId, space, pins, memoryVars, reading, call>>
    BY <1>14 DEF ReapAndSwitch
  <2> QED BY <2>1, <2>2, <2>3, <2>4, <2>6, <2>7, <2>8 DEF memoryVars, TypeOK
<1>15. ASSUME NEW c \in CPUs, Exit(c)
      PROVE  TypeOK'
  BY <1>15 DEF Exit, registryVars, memoryVars, cpuVars, TypeOK
<1>16. ASSUME NEW c \in CPUs, NEW a \in Addresses, Fill(c, a)
      PROVE  TypeOK'
  BY <1>16 DEF Fill, registryVars, memoryVars, threadVars, TypeOK
<1>17. ASSUME NEW c \in CPUs, NEW a \in Addresses, StartCopy(c, a)
      PROVE  TypeOK'
  BY <1>17 DEF StartCopy, registryVars, memoryVars, threadVars, TypeOK
<1>18. ASSUME NEW c \in CPUs, EndCopy(c)
      PROVE  TypeOK'
  BY <1>18 DEF EndCopy, registryVars, memoryVars, threadVars, TypeOK
<1>19. ASSUME UNCHANGED vars
      PROVE  TypeOK'
  BY <1>19 DEF vars, registryVars, memoryVars, threadVars, cpuVars, TypeOK
<1> QED
  BY <1>1, <1>2, <1>3, <1>4, <1>5, <1>6, <1>7, <1>8, <1>9, <1>10,
     <1>11, <1>12, <1>13, <1>14, <1>15, <1>16, <1>17, <1>18, <1>19
  DEF Next, Registry, Caller, Cpu, MapPage, RemapPage, UnmapPage, Interrupt

\* A count of the holders follows its set.
LEMMA OneMore ==
  ASSUME NEW S, IsFiniteSet(S), NEW x, x \notin S
  PROVE  Cardinality(S \cup {x}) = Cardinality(S) + 1
BY FS_AddElement

LEMMA OneLess ==
  ASSUME NEW S, IsFiniteSet(S), NEW x \in S
  PROVE  Cardinality(S \ {x}) = Cardinality(S) - 1
BY FS_RemoveElement

LEMMA Finite ==
  ASSUME ProcessAssumption, NEW p
  PROVE  /\ IsFiniteSet(ThreadsOf(p)) /\ IsFiniteSet(CallersWith(p)) /\ IsFiniteSet(ChangesOf(p))
         /\ Cardinality(ThreadsOf(p)) \in Nat /\ Cardinality(CallersWith(p)) \in Nat
         /\ Cardinality(ChangesOf(p)) \in Nat
<1>1. IsFiniteSet(ThreadsOf(p)) /\ IsFiniteSet(CallersWith(p)) /\ IsFiniteSet(ChangesOf(p))
  BY FS_Subset DEF ThreadsOf, CallersWith, ChangesOf, ProcessAssumption
<1> QED BY <1>1, FS_CardinalityType

LEMMA CountsKept ==
  ASSUME HoldersAreCounted, UNCHANGED <<refs, pins>>,
         \A p \in Pids : /\ ThreadsOf(p)' = ThreadsOf(p) /\ CallersWith(p)' = CallersWith(p)
                        /\ ChangesOf(p)' = ChangesOf(p)
  PROVE  HoldersAreCounted'
BY DEF HoldersAreCounted

\* The counts stay exact.
LEMMA CountStep ==
  ASSUME ProcessAssumption, TypeOK, HoldersAreCounted, CallInv, ThreadInv, [Next]_vars
  PROVE  HoldersAreCounted'
<1>1. ASSUME NEW r \in Roots, Create(r)
      PROVE  HoldersAreCounted'
  <2>1. \A p \in Pids : /\ ThreadsOf(p)' = ThreadsOf(p) /\ CallersWith(p)' = CallersWith(p)
                       /\ ChangesOf(p)' = ChangesOf(p)
    BY <1>1 DEF Create, ThreadsOf, CallersWith, ChangesOf, Creating, Changing, TypeOK, Calls,
        threadVars, cpuVars
  <2>2. UNCHANGED <<refs, pins>>
    BY <1>1 DEF Create, threadVars, cpuVars
  <2> QED BY <2>1, <2>2, CountsKept
<1>2. ASSUME NEW p \in Pids, Destroy(p)
      PROVE  HoldersAreCounted'
  <2>1. \A q \in Pids : /\ ThreadsOf(q)' = ThreadsOf(q) /\ CallersWith(q)' = CallersWith(q)
                       /\ ChangesOf(q)' = ChangesOf(q)
    BY <1>2 DEF Destroy, ThreadsOf, CallersWith, ChangesOf, Creating, Changing, TypeOK, Calls,
        threadVars, cpuVars
  <2>2. UNCHANGED <<refs, pins>>
    BY <1>2 DEF Destroy, threadVars, cpuVars
  <2> QED BY <2>1, <2>2, CountsKept
<1>3. ASSUME NEW k \in Callers, NEW p \in Pids, Hold(k, p)
      PROVE  HoldersAreCounted'
  <2>1. p \in Pids
    OBVIOUS
  <2>2. k \notin CallersWith(p)
    BY <1>3, <2>1 DEF Hold, ThreadsOf, CallersWith, ChangesOf, Creating, Changing, CallInv,
        Pids, Registered, TypeOK
  <2>3. ASSUME NEW q \in Pids
        PROVE  /\ ThreadsOf(q)' = ThreadsOf(q)
               /\ CallersWith(q)' = IF q = p THEN CallersWith(p) \cup {k} ELSE CallersWith(q)
               /\ ChangesOf(q)' = ChangesOf(q)
    BY <1>3, <2>1 DEF Hold, ThreadsOf, CallersWith, ChangesOf, Creating, Changing, Idle,
        CallInv, Pids, TypeOK, threadVars
  <2>4. refs' = [refs EXCEPT ![p] = @ + 1] /\ UNCHANGED pins
    BY <1>3 DEF Hold
  <2>5. ASSUME NEW q \in Pids
        PROVE  /\ refs'[q] = Cardinality(ThreadsOf(q)') + Cardinality(CallersWith(q)')
               /\ pins'[q] = Cardinality(ChangesOf(q)')
    <3>1. /\ refs[q] = Cardinality(ThreadsOf(q)) + Cardinality(CallersWith(q))
          /\ pins[q] = Cardinality(ChangesOf(q))
      BY DEF HoldersAreCounted
    <3>2. Cardinality(CallersWith(p) \cup {k}) = Cardinality(CallersWith(p)) + 1
      BY <2>2, Finite, OneMore
    <3>3. /\ Cardinality(ThreadsOf(q)) \in Nat /\ Cardinality(CallersWith(q)) \in Nat
         /\ Cardinality(ChangesOf(q)) \in Nat
      BY Finite
    <3>4. CASE q = p
      <4>1. /\ ThreadsOf(q)' = ThreadsOf(q) /\ CallersWith(q)' = CallersWith(p) \cup {k}
            /\ ChangesOf(q)' = ChangesOf(q)
        BY <2>3, <3>4
      <4>2. refs'[q] = refs[p] + 1 /\ pins'[q] = pins[q]
        BY <2>1, <2>4, <3>4 DEF TypeOK
      <4> QED BY <3>1, <3>2, <3>3, <3>4, <4>1, <4>2
    <3>5. CASE q # p
      <4>1. /\ ThreadsOf(q)' = ThreadsOf(q) /\ CallersWith(q)' = CallersWith(q)
            /\ ChangesOf(q)' = ChangesOf(q)
        BY <2>3, <3>5
      <4>2. refs'[q] = refs[q] /\ pins'[q] = pins[q]
        BY <2>1, <2>4, <3>5 DEF TypeOK
      <4> QED BY <3>1, <3>2, <3>3, <3>5, <4>1, <4>2
    <3> QED BY <3>4, <3>5
  <2> QED BY <2>5 DEF HoldersAreCounted
<1>4. ASSUME NEW k \in Callers, Drop(k)
      PROVE  HoldersAreCounted'
  <2> DEFINE p == call[k].pid
  <2>1. p \in Pids
    BY <1>4 DEF Drop, Registered
  <2>2. k \in CallersWith(p)
    BY <1>4, <2>1 DEF Drop, ThreadsOf, CallersWith, ChangesOf, Creating, Changing, CallInv,
        Pids, Registered, TypeOK
  <2>3. ASSUME NEW q \in Pids
        PROVE  /\ ThreadsOf(q)' = ThreadsOf(q)
               /\ CallersWith(q)' = IF q = p THEN CallersWith(p) \ {k} ELSE CallersWith(q)
               /\ ChangesOf(q)' = ChangesOf(q)
    BY <1>4, <2>1 DEF Drop, ThreadsOf, CallersWith, ChangesOf, Creating, Changing, Idle,
        CallInv, Pids, TypeOK, threadVars
  <2>4. refs' = [refs EXCEPT ![p] = @ - 1] /\ UNCHANGED pins
    BY <1>4 DEF Drop
  <2>5. ASSUME NEW q \in Pids
        PROVE  /\ refs'[q] = Cardinality(ThreadsOf(q)') + Cardinality(CallersWith(q)')
               /\ pins'[q] = Cardinality(ChangesOf(q)')
    <3>1. /\ refs[q] = Cardinality(ThreadsOf(q)) + Cardinality(CallersWith(q))
          /\ pins[q] = Cardinality(ChangesOf(q))
      BY DEF HoldersAreCounted
    <3>2. Cardinality(CallersWith(p) \ {k}) = Cardinality(CallersWith(p)) - 1
      BY <2>2, Finite, OneLess
    <3>3. /\ Cardinality(ThreadsOf(q)) \in Nat /\ Cardinality(CallersWith(q)) \in Nat
         /\ Cardinality(ChangesOf(q)) \in Nat
      BY Finite
    <3> HIDE DEF p
    <3>4. CASE q = p
      <4>1. /\ ThreadsOf(q)' = ThreadsOf(q) /\ CallersWith(q)' = CallersWith(p) \ {k}
            /\ ChangesOf(q)' = ChangesOf(q)
        BY <2>3, <3>4
      <4>2. refs'[q] = refs[p] - 1 /\ pins'[q] = pins[q]
        BY <2>1, <2>4, <3>4 DEF TypeOK
      <4> QED BY <3>1, <3>2, <3>3, <3>4, <4>1, <4>2
    <3>5. CASE q # p
      <4>1. /\ ThreadsOf(q)' = ThreadsOf(q) /\ CallersWith(q)' = CallersWith(q)
            /\ ChangesOf(q)' = ChangesOf(q)
        BY <2>3, <3>5
      <4>2. refs'[q] = refs[q] /\ pins'[q] = pins[q]
        BY <2>1, <2>4, <3>5 DEF TypeOK
      <4> QED BY <3>1, <3>2, <3>3, <3>5, <4>1, <4>2
    <3> QED BY <3>4, <3>5
  <2> QED BY <2>5 DEF HoldersAreCounted
<1>5. ASSUME NEW k \in Callers, NEW p \in Pids, NEW a \in Addresses,
             NEW new \in freeFrames \cup {None}, NEW old \in Frames \cup {None},
             Change(k, p, a, new, old)
      PROVE  HoldersAreCounted'
  <2>1. p \in Pids
    OBVIOUS
  <2>2. k \notin ChangesOf(p)
    BY <1>5, <2>1 DEF Change, ThreadsOf, CallersWith, ChangesOf, Creating, Changing, CallInv,
        Pids, Registered, TypeOK
  <2>3. ASSUME NEW q \in Pids
        PROVE  /\ ThreadsOf(q)' = ThreadsOf(q)
               /\ CallersWith(q)' = CallersWith(q)
               /\ ChangesOf(q)' = IF q = p THEN ChangesOf(p) \cup {k} ELSE ChangesOf(q)
    BY <1>5, <2>1 DEF Change, ThreadsOf, CallersWith, ChangesOf, Creating, Changing, CallInv,
        Pids, TypeOK, threadVars
  <2>4. pins' = [pins EXCEPT ![p] = @ + 1] /\ UNCHANGED refs
    BY <1>5 DEF Change
  <2>5. ASSUME NEW q \in Pids
        PROVE  /\ refs'[q] = Cardinality(ThreadsOf(q)') + Cardinality(CallersWith(q)')
               /\ pins'[q] = Cardinality(ChangesOf(q)')
    <3>1. /\ refs[q] = Cardinality(ThreadsOf(q)) + Cardinality(CallersWith(q))
          /\ pins[q] = Cardinality(ChangesOf(q))
      BY DEF HoldersAreCounted
    <3>2. Cardinality(ChangesOf(p) \cup {k}) = Cardinality(ChangesOf(p)) + 1
      BY <2>2, Finite, OneMore
    <3>3. /\ Cardinality(ThreadsOf(q)) \in Nat /\ Cardinality(CallersWith(q)) \in Nat
         /\ Cardinality(ChangesOf(q)) \in Nat
      BY Finite
    <3>4. CASE q = p
      <4>1. /\ ThreadsOf(q)' = ThreadsOf(q) /\ CallersWith(q)' = CallersWith(q)
            /\ ChangesOf(q)' = ChangesOf(p) \cup {k}
        BY <2>3, <3>4
      <4>2. pins'[q] = pins[p] + 1 /\ refs'[q] = refs[q]
        BY <2>1, <2>4, <3>4 DEF TypeOK
      <4> QED BY <3>1, <3>2, <3>3, <3>4, <4>1, <4>2
    <3>5. CASE q # p
      <4>1. /\ ThreadsOf(q)' = ThreadsOf(q) /\ CallersWith(q)' = CallersWith(q)
            /\ ChangesOf(q)' = ChangesOf(q)
        BY <2>3, <3>5
      <4>2. pins'[q] = pins[q] /\ refs'[q] = refs[q]
        BY <2>1, <2>4, <3>5 DEF TypeOK
      <4> QED BY <3>1, <3>2, <3>3, <3>5, <4>1, <4>2
    <3> QED BY <3>4, <3>5
  <2> QED BY <2>5 DEF HoldersAreCounted
<1>6. ASSUME NEW k \in Callers, Send(k)
      PROVE  HoldersAreCounted'
  <2>1. \A p \in Pids : /\ ThreadsOf(p)' = ThreadsOf(p) /\ CallersWith(p)' = CallersWith(p)
                       /\ ChangesOf(p)' = ChangesOf(p)
    BY <1>6 DEF Send, ThreadsOf, CallersWith, ChangesOf, Creating, Changing, TypeOK, Calls,
        registryVars, memoryVars, threadVars, cpuVars
  <2>2. UNCHANGED <<refs, pins>>
    BY <1>6 DEF Send, registryVars, memoryVars, threadVars, cpuVars
  <2> QED BY <2>1, <2>2, CountsKept
<1>7. ASSUME NEW k \in Callers, NEW c \in CPUs, Acknowledge(k, c)
      PROVE  HoldersAreCounted'
  <2>1. \A p \in Pids : /\ ThreadsOf(p)' = ThreadsOf(p) /\ CallersWith(p)' = CallersWith(p)
                       /\ ChangesOf(p)' = ChangesOf(p)
    BY <1>7 DEF Acknowledge, ThreadsOf, CallersWith, ChangesOf, Creating, Changing, TypeOK,
        Calls, registryVars, memoryVars, threadVars
  <2>2. UNCHANGED <<refs, pins>>
    BY <1>7 DEF Acknowledge, registryVars, memoryVars, threadVars
  <2> QED BY <2>1, <2>2, CountsKept
<1>8. ASSUME NEW k \in Callers, Unpin(k)
      PROVE  HoldersAreCounted'
  <2> DEFINE p == call[k].pid
  <2>1. p \in Pids
    BY <1>8 DEF Unpin, Registered
  <2>2. k \in ChangesOf(p)
    BY <1>8, <2>1 DEF Unpin, ThreadsOf, CallersWith, ChangesOf, Creating, Changing, CallInv,
        Pids, Registered, TypeOK
  <2>3. ASSUME NEW q \in Pids
        PROVE  /\ ThreadsOf(q)' = ThreadsOf(q)
               /\ CallersWith(q)' = CallersWith(q)
               /\ ChangesOf(q)' = IF q = p THEN ChangesOf(p) \ {k} ELSE ChangesOf(q)
    BY <1>8, <2>1 DEF Unpin, ThreadsOf, CallersWith, ChangesOf, Creating, Changing, Idle,
        CallInv, Pids, TypeOK, threadVars
  <2>4. pins' = [pins EXCEPT ![p] = @ - 1] /\ UNCHANGED refs
    BY <1>8 DEF Unpin
  <2>5. ASSUME NEW q \in Pids
        PROVE  /\ refs'[q] = Cardinality(ThreadsOf(q)') + Cardinality(CallersWith(q)')
               /\ pins'[q] = Cardinality(ChangesOf(q)')
    <3>1. /\ refs[q] = Cardinality(ThreadsOf(q)) + Cardinality(CallersWith(q))
          /\ pins[q] = Cardinality(ChangesOf(q))
      BY DEF HoldersAreCounted
    <3>2. Cardinality(ChangesOf(p) \ {k}) = Cardinality(ChangesOf(p)) - 1
      BY <2>2, Finite, OneLess
    <3>3. /\ Cardinality(ThreadsOf(q)) \in Nat /\ Cardinality(CallersWith(q)) \in Nat
         /\ Cardinality(ChangesOf(q)) \in Nat
      BY Finite
    <3> HIDE DEF p
    <3>4. CASE q = p
      <4>1. /\ ThreadsOf(q)' = ThreadsOf(q) /\ CallersWith(q)' = CallersWith(q)
            /\ ChangesOf(q)' = ChangesOf(p) \ {k}
        BY <2>3, <3>4
      <4>2. pins'[q] = pins[p] - 1 /\ refs'[q] = refs[q]
        BY <2>1, <2>4, <3>4 DEF TypeOK
      <4> QED BY <3>1, <3>2, <3>3, <3>4, <4>1, <4>2
    <3>5. CASE q # p
      <4>1. /\ ThreadsOf(q)' = ThreadsOf(q) /\ CallersWith(q)' = CallersWith(q)
            /\ ChangesOf(q)' = ChangesOf(q)
        BY <2>3, <3>5
      <4>2. pins'[q] = pins[q] /\ refs'[q] = refs[q]
        BY <2>1, <2>4, <3>5 DEF TypeOK
      <4> QED BY <3>1, <3>2, <3>3, <3>5, <4>1, <4>2
    <3> QED BY <3>4, <3>5
  <2> QED BY <2>5 DEF HoldersAreCounted
<1>9. ASSUME NEW k \in Callers, NEW p \in Pids, Retain(k, p)
      PROVE  HoldersAreCounted'
  <2>1. p \in Pids
    OBVIOUS
  <2>2. k \notin CallersWith(p)
    BY <1>9, <2>1 DEF Retain, ThreadsOf, CallersWith, ChangesOf, Creating, Changing, CallInv,
        Pids, Registered, TypeOK
  <2>3. ASSUME NEW q \in Pids
        PROVE  /\ ThreadsOf(q)' = ThreadsOf(q)
               /\ CallersWith(q)' = IF q = p THEN CallersWith(p) \cup {k} ELSE CallersWith(q)
               /\ ChangesOf(q)' = ChangesOf(q)
    BY <1>9, <2>1 DEF Retain, ThreadsOf, CallersWith, ChangesOf, Creating, Changing, Idle,
        CallInv, Pids, TypeOK, threadVars
  <2>4. refs' = [refs EXCEPT ![p] = @ + 1] /\ UNCHANGED pins
    BY <1>9 DEF Retain
  <2>5. ASSUME NEW q \in Pids
        PROVE  /\ refs'[q] = Cardinality(ThreadsOf(q)') + Cardinality(CallersWith(q)')
               /\ pins'[q] = Cardinality(ChangesOf(q)')
    <3>1. /\ refs[q] = Cardinality(ThreadsOf(q)) + Cardinality(CallersWith(q))
          /\ pins[q] = Cardinality(ChangesOf(q))
      BY DEF HoldersAreCounted
    <3>2. Cardinality(CallersWith(p) \cup {k}) = Cardinality(CallersWith(p)) + 1
      BY <2>2, Finite, OneMore
    <3>3. /\ Cardinality(ThreadsOf(q)) \in Nat /\ Cardinality(CallersWith(q)) \in Nat
         /\ Cardinality(ChangesOf(q)) \in Nat
      BY Finite
    <3>4. CASE q = p
      <4>1. /\ ThreadsOf(q)' = ThreadsOf(q) /\ CallersWith(q)' = CallersWith(p) \cup {k}
            /\ ChangesOf(q)' = ChangesOf(q)
        BY <2>3, <3>4
      <4>2. refs'[q] = refs[p] + 1 /\ pins'[q] = pins[q]
        BY <2>1, <2>4, <3>4 DEF TypeOK
      <4> QED BY <3>1, <3>2, <3>3, <3>4, <4>1, <4>2
    <3>5. CASE q # p
      <4>1. /\ ThreadsOf(q)' = ThreadsOf(q) /\ CallersWith(q)' = CallersWith(q)
            /\ ChangesOf(q)' = ChangesOf(q)
        BY <2>3, <3>5
      <4>2. refs'[q] = refs[q] /\ pins'[q] = pins[q]
        BY <2>1, <2>4, <3>5 DEF TypeOK
      <4> QED BY <3>1, <3>2, <3>3, <3>5, <4>1, <4>2
    <3> QED BY <3>4, <3>5
  <2> QED BY <2>5 DEF HoldersAreCounted
<1>10. ASSUME NEW k \in Callers, Borrow(k)
      PROVE  HoldersAreCounted'
  <2>1. \A p \in Pids : /\ ThreadsOf(p)' = ThreadsOf(p) /\ CallersWith(p)' = CallersWith(p)
                       /\ ChangesOf(p)' = ChangesOf(p)
    BY <1>10 DEF Borrow, ThreadsOf, CallersWith, ChangesOf, Creating, Changing, TypeOK, Calls,
        registryVars, memoryVars, threadVars, cpuVars
  <2>2. UNCHANGED <<refs, pins>>
    BY <1>10 DEF Borrow, registryVars, memoryVars, threadVars, cpuVars
  <2> QED BY <2>1, <2>2, CountsKept
<1>11. ASSUME NEW k \in Callers, NEW t \in Threads, CreateBase(k, t)
      PROVE  HoldersAreCounted'
  <2>1. \A p \in Pids : /\ ThreadsOf(p)' = ThreadsOf(p) /\ CallersWith(p)' = CallersWith(p)
                       /\ ChangesOf(p)' = ChangesOf(p)
    BY <1>11 DEF CreateBase, ThreadInv, Pids, ThreadsOf, CallersWith, ChangesOf, Creating,
        Changing, TypeOK, Calls, registryVars, memoryVars, cpuVars
  <2>2. UNCHANGED <<refs, pins>>
    BY <1>11 DEF CreateBase, registryVars, memoryVars, cpuVars
  <2> QED BY <2>1, <2>2, CountsKept
<1>12. ASSUME NEW k \in Callers, CreateFails(k)
      PROVE  HoldersAreCounted'
  <2> DEFINE p == call[k].pid
  <2>1. p \in Pids
    BY <1>12 DEF CreateFails, Registered
  <2>2. k \in CallersWith(p)
    BY <1>12, <2>1 DEF CreateFails, ThreadsOf, CallersWith, ChangesOf, Creating, Changing,
        CallInv, Pids, Registered, TypeOK
  <2>3. ASSUME NEW q \in Pids
        PROVE  /\ ThreadsOf(q)' = ThreadsOf(q)
               /\ CallersWith(q)' = IF q = p THEN CallersWith(p) \ {k} ELSE CallersWith(q)
               /\ ChangesOf(q)' = ChangesOf(q)
    BY <1>12, <2>1 DEF CreateFails, ThreadsOf, CallersWith, ChangesOf, Creating, Changing,
        Idle, CallInv, Pids, TypeOK, threadVars
  <2>4. refs' = [refs EXCEPT ![p] = @ - 1] /\ UNCHANGED pins
    BY <1>12 DEF CreateFails, AfterFailure
  <2>5. ASSUME NEW q \in Pids
        PROVE  /\ refs'[q] = Cardinality(ThreadsOf(q)') + Cardinality(CallersWith(q)')
               /\ pins'[q] = Cardinality(ChangesOf(q)')
    <3>1. /\ refs[q] = Cardinality(ThreadsOf(q)) + Cardinality(CallersWith(q))
          /\ pins[q] = Cardinality(ChangesOf(q))
      BY DEF HoldersAreCounted
    <3>2. Cardinality(CallersWith(p) \ {k}) = Cardinality(CallersWith(p)) - 1
      BY <2>2, Finite, OneLess
    <3>3. /\ Cardinality(ThreadsOf(q)) \in Nat /\ Cardinality(CallersWith(q)) \in Nat
         /\ Cardinality(ChangesOf(q)) \in Nat
      BY Finite
    <3> HIDE DEF p
    <3>4. CASE q = p
      <4>1. /\ ThreadsOf(q)' = ThreadsOf(q) /\ CallersWith(q)' = CallersWith(p) \ {k}
            /\ ChangesOf(q)' = ChangesOf(q)
        BY <2>3, <3>4
      <4>2. refs'[q] = refs[p] - 1 /\ pins'[q] = pins[q]
        BY <2>1, <2>4, <3>4 DEF TypeOK
      <4> QED BY <3>1, <3>2, <3>3, <3>4, <4>1, <4>2
    <3>5. CASE q # p
      <4>1. /\ ThreadsOf(q)' = ThreadsOf(q) /\ CallersWith(q)' = CallersWith(q)
            /\ ChangesOf(q)' = ChangesOf(q)
        BY <2>3, <3>5
      <4>2. refs'[q] = refs[q] /\ pins'[q] = pins[q]
        BY <2>1, <2>4, <3>5 DEF TypeOK
      <4> QED BY <3>1, <3>2, <3>3, <3>5, <4>1, <4>2
    <3> QED BY <3>4, <3>5
  <2> QED BY <2>5 DEF HoldersAreCounted
<1>13. ASSUME NEW k \in Callers, NEW where \in CPUs \cup {ANY}, Attach(k, where)
      PROVE  HoldersAreCounted'
  <2> DEFINE p == call[k].pid
  <2>1. p \in Pids
    BY <1>13 DEF Attach, CallInv, Registered
  <2>2. call[k].arg \notin ThreadsOf(p) /\ k \in CallersWith(p)
    BY <1>13, <2>1 DEF Attach, ThreadsOf, CallersWith, ChangesOf, Creating, Changing, CallInv,
        Pids, Registered, TypeOK
  <2>3. ASSUME NEW q \in Pids
        PROVE  /\ ThreadsOf(q)' = IF q = p THEN ThreadsOf(p) \cup {call[k].arg} ELSE ThreadsOf(q)
               /\ CallersWith(q)' = IF q = p THEN CallersWith(p) \ {k} ELSE CallersWith(q)
               /\ ChangesOf(q)' = ChangesOf(q)
    BY <1>13, <2>1 DEF Attach, ThreadsOf, CallersWith, ChangesOf, Creating, Changing, Idle,
        CallInv, Pids, TypeOK
  <2>4. UNCHANGED <<refs, pins>>
    BY <1>13 DEF Attach, registryVars
  <2>5. ASSUME NEW q \in Pids
        PROVE  /\ refs'[q] = Cardinality(ThreadsOf(q)') + Cardinality(CallersWith(q)')
               /\ pins'[q] = Cardinality(ChangesOf(q)')
    <3>1. /\ refs[q] = Cardinality(ThreadsOf(q)) + Cardinality(CallersWith(q))
          /\ pins[q] = Cardinality(ChangesOf(q))
      BY DEF HoldersAreCounted
    <3>2. Cardinality(ThreadsOf(p) \cup {call[k].arg}) = Cardinality(ThreadsOf(p)) + 1
      BY <2>2, Finite, OneMore
    <3>3. Cardinality(CallersWith(p) \ {k}) = Cardinality(CallersWith(p)) - 1
      BY <2>2, Finite, OneLess
    <3>4. /\ Cardinality(ThreadsOf(q)) \in Nat /\ Cardinality(CallersWith(q)) \in Nat
         /\ Cardinality(ChangesOf(q)) \in Nat
      BY Finite
    <3> HIDE DEF p
    <3>5. CASE q = p
      <4>1. /\ ThreadsOf(q)' = ThreadsOf(p) \cup {call[k].arg} /\ CallersWith(q)' = CallersWith(p) \ {k}
            /\ ChangesOf(q)' = ChangesOf(q)
        BY <2>3, <3>5
      <4>2. refs'[q] = refs[q] /\ pins'[q] = pins[q]
        BY <2>1, <2>4, <3>5 DEF TypeOK
      <4> QED BY <3>1, <3>2, <3>3, <3>4, <3>5, <4>1, <4>2
    <3>6. CASE q # p
      <4>1. /\ ThreadsOf(q)' = ThreadsOf(q) /\ CallersWith(q)' = CallersWith(q)
            /\ ChangesOf(q)' = ChangesOf(q)
        BY <2>3, <3>6
      <4>2. refs'[q] = refs[q] /\ pins'[q] = pins[q]
        BY <2>1, <2>4, <3>6 DEF TypeOK
      <4> QED BY <3>1, <3>2, <3>3, <3>4, <3>6, <4>1, <4>2
    <3> QED BY <3>5, <3>6
  <2> QED BY <2>5 DEF HoldersAreCounted
<1>14. ASSUME NEW c \in CPUs, NEW R \in SUBSET Threads,
             NEW next \in Threads \cup {None}, ReapAndSwitch(c, R, next)
      PROVE  HoldersAreCounted'
  <2>1. ASSUME NEW p \in Pids
        PROVE  /\ ThreadsOf(p)' = ThreadsOf(p) \ R
               /\ CallersWith(p)' = CallersWith(p) /\ ChangesOf(p)' = ChangesOf(p)
    BY <1>14 DEF ReapAndSwitch, ThreadsOf, CallersWith, ChangesOf, Pids
  <2>2. ASSUME NEW p \in Pids
        PROVE  refs'[p] = refs[p] - Cardinality({t \in R : pid[t] = p}) /\ pins'[p] = pins[p]
    BY <1>14 DEF ReapAndSwitch, Released
  <2> QED BY <2>1, <2>2, ReleaseOK DEF HoldersAreCounted
<1>15. ASSUME NEW c \in CPUs, Exit(c)
      PROVE  HoldersAreCounted'
  <2>1. \A p \in Pids : /\ ThreadsOf(p)' = ThreadsOf(p) /\ CallersWith(p)' = CallersWith(p)
                       /\ ChangesOf(p)' = ChangesOf(p)
    BY <1>15 DEF Exit, ThreadsOf, CallersWith, ChangesOf, Creating, Changing, TypeOK, Calls,
        registryVars, memoryVars, cpuVars
  <2>2. UNCHANGED <<refs, pins>>
    BY <1>15 DEF Exit, registryVars, memoryVars, cpuVars
  <2> QED BY <2>1, <2>2, CountsKept
<1>16. ASSUME NEW c \in CPUs, NEW a \in Addresses, Fill(c, a)
      PROVE  HoldersAreCounted'
  <2>1. \A p \in Pids : /\ ThreadsOf(p)' = ThreadsOf(p) /\ CallersWith(p)' = CallersWith(p)
                       /\ ChangesOf(p)' = ChangesOf(p)
    BY <1>16 DEF Fill, ThreadsOf, CallersWith, ChangesOf, Creating, Changing, TypeOK, Calls,
        registryVars, memoryVars, threadVars
  <2>2. UNCHANGED <<refs, pins>>
    BY <1>16 DEF Fill, registryVars, memoryVars, threadVars
  <2> QED BY <2>1, <2>2, CountsKept
<1>17. ASSUME NEW c \in CPUs, NEW a \in Addresses, StartCopy(c, a)
      PROVE  HoldersAreCounted'
  <2>1. \A p \in Pids : /\ ThreadsOf(p)' = ThreadsOf(p) /\ CallersWith(p)' = CallersWith(p)
                       /\ ChangesOf(p)' = ChangesOf(p)
    BY <1>17 DEF StartCopy, ThreadsOf, CallersWith, ChangesOf, Creating, Changing, TypeOK,
        Calls, registryVars, memoryVars, threadVars
  <2>2. UNCHANGED <<refs, pins>>
    BY <1>17 DEF StartCopy, registryVars, memoryVars, threadVars
  <2> QED BY <2>1, <2>2, CountsKept
<1>18. ASSUME NEW c \in CPUs, EndCopy(c)
      PROVE  HoldersAreCounted'
  <2>1. \A p \in Pids : /\ ThreadsOf(p)' = ThreadsOf(p) /\ CallersWith(p)' = CallersWith(p)
                       /\ ChangesOf(p)' = ChangesOf(p)
    BY <1>18 DEF EndCopy, ThreadsOf, CallersWith, ChangesOf, Creating, Changing, TypeOK,
        Calls, registryVars, memoryVars, threadVars
  <2>2. UNCHANGED <<refs, pins>>
    BY <1>18 DEF EndCopy, registryVars, memoryVars, threadVars
  <2> QED BY <2>1, <2>2, CountsKept
<1>19. ASSUME UNCHANGED vars
      PROVE  HoldersAreCounted'
  <2>1. \A p \in Pids : /\ ThreadsOf(p)' = ThreadsOf(p) /\ CallersWith(p)' = CallersWith(p)
                       /\ ChangesOf(p)' = ChangesOf(p)
    BY <1>19 DEF vars, ThreadsOf, CallersWith, ChangesOf, Creating, Changing, TypeOK, Calls,
        registryVars, memoryVars, threadVars, cpuVars
  <2>2. UNCHANGED <<refs, pins>>
    BY <1>19 DEF vars, registryVars, memoryVars, threadVars, cpuVars
  <2> QED BY <2>1, <2>2, CountsKept
<1> QED
  BY <1>1, <1>2, <1>3, <1>4, <1>5, <1>6, <1>7, <1>8, <1>9, <1>10,
     <1>11, <1>12, <1>13, <1>14, <1>15, <1>16, <1>17, <1>18, <1>19
  DEF Next, Registry, Caller, Cpu, MapPage, RemapPage, UnmapPage, Interrupt

LEMMA Established ==
  ASSUME ProcessAssumption, Init
  PROVE  IInv
<1>1. TypeOK
  BY DEF Init, TypeOK, Idle, Calls, CPUs, ANY, Pids, ProcessAssumption
<1>2. HoldersAreCounted
  <2>1. ASSUME NEW p \in Pids
        PROVE  ThreadsOf(p) = {} /\ CallersWith(p) = {} /\ ChangesOf(p) = {}
    BY DEF Init, ThreadsOf, CallersWith, ChangesOf, Idle, Creating, Changing, Pids
  <2>2. Cardinality({}) = 0
    BY FS_EmptySet
  <2>3. \A p \in Pids : refs[p] = 0 /\ pins[p] = 0
    BY DEF Init
  <2>4. ASSUME NEW p \in Pids
        PROVE  /\ refs[p] = Cardinality(ThreadsOf(p)) + Cardinality(CallersWith(p))
               /\ pins[p] = Cardinality(ChangesOf(p))
    BY <2>1, <2>2, <2>3
  <2> QED BY <2>4 DEF HoldersAreCounted
<1>3. CallInv
  BY DEF Init, CallInv, Idle, Creating, Changing
<1>4. ThreadInv /\ CurrentInv
  BY DEF Init, ThreadInv, CurrentInv
<1>5. SpaceInv
  BY DEF Init, SpaceInv, Registered, ProcessAssumption
<1>6. FrameInv
  BY DEF Init, FrameInv, Registered, Idle, Changing
<1>7. UseInv
  BY DEF Init, UseInv
<1> QED BY <1>1, <1>2, <1>3, <1>4, <1>5, <1>6, <1>7 DEF IInv

LEMMA Kept ==
  ASSUME ProcessAssumption, IInv, [Next]_vars
  PROVE  IInv'
BY CallStep, ThreadStep, CurrentStep, SpaceStep, FrameStep, UseStep, TypeStep, CountStep DEF
    IInv

LEMMA Invariance == Spec => []IInv
<1>1. Init => IInv
  BY ProcessAssumption, Established
<1>2. IInv /\ [Next]_vars => IInv'
  BY ProcessAssumption, Kept
<1> QED BY <1>1, <1>2, PTL DEF Spec

-----------------------------------------------------------------------------
\* The types.
THEOREM ProcessTypes == Spec => []TypeOK
<1>1. IInv => TypeOK
  BY DEF IInv
<1> QED BY <1>1, Invariance, PTL

\* process_release and process_vm_unpin never find a count at zero, and a
\* process whose counts are zero has no holder.
THEOREM CountsAreExact == Spec => []HoldersAreCounted
<1>1. IInv => HoldersAreCounted
  BY DEF IInv
<1> QED BY <1>1, Invariance, PTL

\* process_destroy never frees the tables that some CPU has in CR3.
THEOREM LoadedRootsStayLive == Spec => []LoadedRootsLive
<1>1. IInv => LoadedRootsLive
  <2>1. SUFFICES ASSUME IInv, NEW c \in CPUs, cr3[c] # KernelRoot
                 PROVE  \E p \in Pids : space[p] = cr3[c] /\ refs[p] > 0
    BY DEF LoadedRootsLive
  <2> QED BY <2>1, ProcessAssumption, LoadedRoots DEF IInv
<1> QED BY <1>1, Invariance, PTL

\* A process being remapped keeps its tables until the shootdown has ended.
THEOREM ChangesKeepTables == Spec => []ChangesKeepTheirSpace
<1>1. IInv => ChangesKeepTheirSpace
  BY DEF IInv, CallInv, ChangesKeepTheirSpace
<1> QED BY <1>1, Invariance, PTL

\* A process thread only runs with the root of its own process.
THEOREM ThreadsStayInTheirSpace == Spec => []ThreadsRunInTheirSpace
<1>1. IInv => ThreadsRunInTheirSpace
  BY DEF IInv, TypeOK, CurrentInv, ThreadInv, ThreadsRunInTheirSpace
<1> QED BY <1>1, Invariance, PTL

\* A frame that the PMM can hand out is out of every table, TLB and copy.
THEOREM FreeFramesStayUnused == Spec => []FreeFramesAreUnused
<1>1. ASSUME IInv, NEW f \in freeFrames
      PROVE  /\ \A p \in Pids, a \in Addresses : Registered(p) => pte[space[p]][a] # f
             /\ \A c \in CPUs, a \in Addresses : cr3[c] \in Roots => ~MayUse(c, a, f)
  <2>1. f \in Frames /\ f # None
    BY <1>1, ProcessAssumption DEF IInv, TypeOK, ProcessAssumption
  <2>2. \A p \in Pids, a \in Addresses : Registered(p) => pte[space[p]][a] # f
    BY <1>1, <2>1 DEF IInv, FrameInv
  <2>3. ASSUME NEW c \in CPUs, NEW a \in Addresses, cr3[c] \in Roots, MayUse(c, a, f)
        PROVE  FALSE
    <3>1. cr3[c] # KernelRoot
      BY <2>3, ProcessAssumption DEF ProcessAssumption
    <3>2. PICK p \in Pids : Registered(p) /\ space[p] = cr3[c]
      BY <1>1, <3>1, ProcessAssumption, LoadedRoots DEF IInv
    <3>3. pte[cr3[c]][a] # f
      BY <2>2, <3>2
    <3>4. PICK k \in Callers : call[k].at \in Changing /\ call[k].old = f
      BY <2>3, <3>3 DEF MayUse
    <3> QED BY <1>1, <2>1, <3>4 DEF IInv, FrameInv
  <2> QED BY <2>2, <2>3
<1>2. IInv => FreeFramesAreUnused
  <2>1. SUFFICES ASSUME IInv, NEW f \in freeFrames
                 PROVE  /\ \A p \in Pids, a \in Addresses : Registered(p) => pte[space[p]][a] # f
                        /\ \A c \in CPUs : reading[c] # f /\ \A a \in Addresses : tlb[c][a] # f
    BY DEF FreeFramesAreUnused
  <2>2. f # None
    BY <2>1, ProcessAssumption DEF IInv, TypeOK, ProcessAssumption
  <2>3. ASSUME NEW c \in CPUs PROVE reading[c] # f /\ \A a \in Addresses : tlb[c][a] # f
    BY <1>1, <2>1, <2>2 DEF IInv, UseInv
  <2> QED BY <1>1, <2>1, <2>3
<1> QED BY <1>2, Invariance, PTL
====
