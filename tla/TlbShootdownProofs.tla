------------------------ MODULE TlbShootdownProofs ------------------------
(***************************************************************************)
(* The shootdown protocol, for every number of CPUs, tasks, pages, roots   *)
(* and generations.                                                        *)
(*                                                                         *)
(* BasicInv holds whether requests give up or not.  SoundInv holds until   *)
(* the first one does, which is what NobodyGivesUp says: a late interrupt  *)
(* of a request that gave up is answered with the generation of the next   *)
(* one, see README.md.                                                     *)
(***************************************************************************)
EXTENDS TlbShootdown, FiniteSetTheorems, TLAPS

USE TlbAssumption

Holding == {"locked", "numbered", "addressed", "sending"}

\* One task at a time is past tlb_shootdown_lock_irq; it stays on its CPU, and
\* never asks that one.
LockInv ==
  /\ \A t \in Tasks : pc[t] \in Holding <=> lock = t
  /\ \A t \in Tasks : pc[t] # "idle" => page[t] \in Pages
  /\ \A t \in Tasks : lock = t => at[t] \in CPUs
  /\ \A t \in Tasks : pc[t] = "sending" => at[t] \notin left

\* The answers to expect and the slots not looked at yet are different CPUs.
RoomInv == expected + Cardinality(left) <= Cardinality(CPUs)

\* A TLB has private pages of the loaded root only.
CacheInv == \A c \in CPUs : \A p \in cached[c] : Shared(p) \/ RootOf[p] = cr3[c]

\* The table of roots is late only for a CPU inside the scheduler, and such a
\* CPU holds no private page then.
KnownInv ==
  \A c \in CPUs : \/ known[c] \in {NoRoot, cr3[c]}
                  \/ c \in loading /\ \A p \in cached[c] : Shared(p)

\* An outdated translation is still in its TLB.
OutdatedInv ==
  \A t \in Tasks : /\ \A c \in outdated[t] : page[t] \in cached[c]
                   /\ pc[t] \in {"idle", "failed"} => outdated[t] = {}

BasicInv == TypeOK /\ LockInv /\ RoomInv /\ CacheInv /\ KnownInv /\ OutdatedInv

\* A request ends at TLB_SHOOTDOWN_SPIN_LIMIT or at an ICR that stays busy.
GivesUp == \E t \in Tasks : GiveUp(t)
NobodyGivesUp == [][~GivesUp]_vars

\* What holds as long as no request gives up.  A CPU was asked when its
\* interrupt is pending or its acknowledgement has the current generation.
Asked(t) == {d \in CPUs \ {at[t]} : ipi[d] \/ ack[d] = gen}

\* No acknowledgement is from the future, so a new generation has none.
AckInv ==
  /\ \A c \in CPUs : ack[c] <= gen
  /\ \A t \in Tasks : pc[t] \in {"numbered", "addressed"} => \A c \in CPUs : ack[c] # gen

\* The requester expects as many answers as it asked for, one for each CPU.
SendingInv ==
  \A t \in Tasks : pc[t] = "sending" =>
    /\ expected = Cardinality(Asked(t))
    /\ \A d \in CPUs : ipi[d] => ack[d] # gen
    /\ \A d \in left : ~ipi[d] /\ ack[d] # gen
    /\ Shared(page[t]) => left \in {{}, CPUs \ {at[t]}}

\* The mailbox is complete before the first interrupt is sent.
MailInv ==
  \A t \in Tasks :
    /\ pc[t] = "addressed" => mailbox.page = page[t]
    /\ pc[t] = "sending" => mailbox.page = page[t] /\ mailbox.root = RootOf[page[t]]

\* A CPU whose translation is outdated has not been passed over: it is still to
\* be looked at, or its interrupt is pending.
ToldInv ==
  \A t \in Tasks : pc[t] = "sending" =>
    \A c \in outdated[t] : c \in left \/ ipi[c]

SoundInv ==
  /\ \A t \in Tasks : pc[t] # "failed"
  /\ IpisBelongToTheRequest /\ AckInv /\ SendingInv /\ MailInv /\ ToldInv

\* Sets of CPUs are finite.
LEMMA CpuCounts ==
  ASSUME NEW S, S \subseteq CPUs
  PROVE  /\ IsFiniteSet(S) /\ Cardinality(S) \in Nat
         /\ Cardinality(S) <= Cardinality(CPUs) /\ Cardinality(CPUs) \in Nat
BY FS_Subset, FS_CardinalityType

LEMMA OneFewer ==
  ASSUME NEW S, S \subseteq CPUs, NEW d \in S
  PROVE  Cardinality(S \ {d}) = Cardinality(S) - 1
BY CpuCounts, FS_RemoveElement

-----------------------------------------------------------------------------
(* The part that timeouts do not touch.                                    *)

LEMMA TypeStep ==
  ASSUME BasicInv, [Next]_vars
  PROVE  TypeOK'
<1>1. ASSUME NEW c \in CPUs, NEW r \in Roots, Load(c, r) PROVE TypeOK'
  BY <1>1 DEF Load, BasicInv, TypeOK, LockInv, RoomInv, cpuVars, requestVars, taskVars
<1>2. ASSUME NEW c \in CPUs, PublishRoot(c) PROVE TypeOK'
  BY <1>2 DEF PublishRoot, BasicInv, TypeOK, LockInv, RoomInv, cpuVars, requestVars,
     taskVars
<1>3. ASSUME NEW c \in CPUs, NEW p \in Pages, Fill(c, p) PROVE TypeOK'
  BY <1>3 DEF Fill, BasicInv, TypeOK, LockInv, RoomInv, cpuVars, requestVars, taskVars
<1>4. ASSUME NEW c \in CPUs, HandleIpi(c) PROVE TypeOK'
  BY <1>4 DEF HandleIpi, Invalidate, BasicInv, TypeOK, LockInv, RoomInv, cpuVars,
     requestVars, taskVars
<1>5. ASSUME NEW t \in Tasks, NEW p \in PagesOf[t], ChangePrivate(t, p) PROVE TypeOK'
  BY <1>5 DEF ChangePrivate, Change, BasicInv, TypeOK, LockInv, RoomInv, cpuVars,
     requestVars, taskVars
<1>6. ASSUME NEW t \in Tasks, NEW p \in PagesOf[t], NEW c \in CPUs, ChangeShared(t, p, c)
     PROVE  TypeOK'
  BY <1>6 DEF ChangeShared, Change, BasicInv, TypeOK, LockInv, RoomInv, cpuVars,
     requestVars, taskVars
<1>7. ASSUME NEW t \in Tasks, NEW c \in CPUs, Lock(t, c) PROVE TypeOK'
  BY <1>7 DEF Lock, BasicInv, TypeOK, LockInv, RoomInv, cpuVars, requestVars, taskVars
<1>8. ASSUME NEW t \in Tasks, Number(t) PROVE TypeOK'
  BY <1>8 DEF Number, NextGeneration, BasicInv, TypeOK, LockInv, RoomInv, cpuVars,
     requestVars, taskVars
<1>9. ASSUME NEW t \in Tasks, WriteAddress(t) PROVE TypeOK'
  BY <1>9 DEF WriteAddress, BasicInv, TypeOK, LockInv, RoomInv, cpuVars, requestVars,
     taskVars
<1>10. ASSUME NEW t \in Tasks, WriteRoot(t) PROVE TypeOK'
  <2>1. at[t] \in CPUs /\ page[t] \in Pages
    BY <1>10 DEF WriteRoot, BasicInv, LockInv, Holding
  <2>2. mailbox' \in [page : Pages \cup {None}, root : Roots \cup {NoRoot}]
    BY <1>10, <2>1 DEF WriteRoot, BasicInv, TypeOK
  <2>3. cached' \in [CPUs -> SUBSET Pages] /\ outdated' \in [Tasks -> SUBSET CPUs]
    BY <1>10 DEF WriteRoot, Invalidate, BasicInv, TypeOK
  <2>4. expected' \in 0 .. Cardinality(CPUs) /\ left' \subseteq CPUs
    BY <1>10, CpuCounts DEF WriteRoot
  <2>5. known' \in [CPUs -> Roots \cup {NoRoot}]
    BY <1>10, <2>1 DEF WriteRoot, BasicInv, TypeOK
  <2> QED BY <1>10, <2>1, <2>2, <2>3, <2>4, <2>5 DEF WriteRoot, BasicInv, TypeOK
<1>11. ASSUME NEW t \in Tasks, Broadcast(t) PROVE TypeOK'
  <2>1. at[t] \in CPUs
    BY <1>11 DEF Broadcast, BasicInv, LockInv, Holding
  <2>2. Cardinality(CPUs) - 1 \in 0 .. Cardinality(CPUs)
    <3>1. /\ Cardinality(CPUs \ {at[t]}) = Cardinality(CPUs) - 1
          /\ Cardinality(CPUs \ {at[t]}) \in Nat /\ Cardinality(CPUs) \in Nat
      BY <2>1, CpuCounts, OneFewer
    <3> QED BY <3>1
  <2> QED BY <1>11, <2>2 DEF Broadcast, BasicInv, TypeOK, cpuVars, taskVars
<1>12. ASSUME NEW t \in Tasks, SendNext(t) PROVE TypeOK'
  <2>1. PICK d \in left : /\ left' = left \ {d}
                           /\ \/ UNCHANGED <<ipi, expected>>
                              \/ expected' = expected + 1 /\ ipi' = [ipi EXCEPT ![d] = TRUE]
    BY <1>12 DEF SendNext
  <2>2. /\ d \in CPUs /\ left \subseteq CPUs /\ expected \in 0 .. Cardinality(CPUs)
        /\ ipi \in [CPUs -> BOOLEAN]
    BY DEF BasicInv, TypeOK
  <2>3. Cardinality(left \ {d}) = Cardinality(left) - 1 /\ Cardinality(left \ {d}) \in Nat
        /\ Cardinality(left) \in Nat /\ Cardinality(CPUs) \in Nat
    BY <2>2, CpuCounts, OneFewer
  <2>4. expected + 1 \in 0 .. Cardinality(CPUs)
    BY <2>2, <2>3 DEF BasicInv, RoomInv
  <2>5. expected' \in 0 .. Cardinality(CPUs)
    BY <2>1, <2>2, <2>4
  <2>6. ipi' \in [CPUs -> BOOLEAN]
    BY <2>1, <2>2
  <2> QED BY <1>12, <2>1, <2>2, <2>5, <2>6 DEF SendNext, BasicInv, TypeOK, taskVars
<1>13. ASSUME NEW t \in Tasks, Complete(t) PROVE TypeOK'
  BY <1>13 DEF Complete, Release, BasicInv, TypeOK, LockInv, RoomInv, cpuVars, requestVars,
     taskVars
<1>14. ASSUME NEW t \in Tasks, GiveUp(t) PROVE TypeOK'
  BY <1>14 DEF GiveUp, Release, BasicInv, TypeOK, LockInv, RoomInv, cpuVars, requestVars,
     taskVars
<1>15. ASSUME NEW t \in Tasks, CarryOn(t) PROVE TypeOK'
  BY <1>15 DEF CarryOn, BasicInv, TypeOK, LockInv, RoomInv, cpuVars, requestVars, taskVars
<1>16. CASE UNCHANGED vars
  BY <1>16 DEF vars, BasicInv, TypeOK, LockInv, RoomInv, cpuVars, requestVars, taskVars
<1> QED BY <1>1, <1>2, <1>3, <1>4, <1>5, <1>6, <1>7, <1>8, <1>9, <1>10, <1>11, <1>12,
   <1>13, <1>14, <1>15, <1>16 DEF Next, Cpu, Request

\* Only Lock, Complete and GiveUp pass the lock on.
LEMMA LockStep ==
  ASSUME BasicInv, [Next]_vars
  PROVE  LockInv'
<1>1. CASE UNCHANGED <<pc, lock, page, at, left>>
  BY <1>1 DEF BasicInv, TypeOK, LockInv, Holding
<1>2. ASSUME NEW t \in Tasks, NEW p \in PagesOf[t], ChangePrivate(t, p) PROVE LockInv'
  BY <1>2 DEF ChangePrivate, Change, BasicInv, TypeOK, LockInv, Holding, cpuVars,
     requestVars, taskVars
<1>3. ASSUME NEW t \in Tasks, NEW p \in PagesOf[t], NEW c \in CPUs, ChangeShared(t, p, c)
     PROVE  LockInv'
  BY <1>3 DEF ChangeShared, Change, BasicInv, TypeOK, LockInv, Holding, cpuVars,
     requestVars, taskVars
<1>4. ASSUME NEW t \in Tasks, NEW c \in CPUs, Lock(t, c) PROVE LockInv'
  BY <1>4 DEF Lock, BasicInv, TypeOK, LockInv, Holding, cpuVars, requestVars, taskVars
<1>5. ASSUME NEW t \in Tasks, Number(t) PROVE LockInv'
  BY <1>5 DEF Number, NextGeneration, BasicInv, TypeOK, LockInv, Holding, cpuVars,
     requestVars, taskVars
<1>6. ASSUME NEW t \in Tasks, WriteAddress(t) PROVE LockInv'
  BY <1>6 DEF WriteAddress, BasicInv, TypeOK, LockInv, Holding, cpuVars, requestVars,
     taskVars
<1>7. ASSUME NEW t \in Tasks, WriteRoot(t) PROVE LockInv'
  BY <1>7 DEF WriteRoot, Invalidate, BasicInv, TypeOK, LockInv, Holding, cpuVars,
     requestVars, taskVars
<1>8. ASSUME NEW t \in Tasks, Broadcast(t) PROVE LockInv'
  BY <1>8 DEF Broadcast, BasicInv, TypeOK, LockInv, Holding, cpuVars, requestVars, taskVars
<1>9. ASSUME NEW t \in Tasks, SendNext(t) PROVE LockInv'
  BY <1>9 DEF SendNext, BasicInv, TypeOK, LockInv, Holding, cpuVars, requestVars, taskVars
<1>10. ASSUME NEW t \in Tasks, Complete(t) PROVE LockInv'
  BY <1>10 DEF Complete, Release, BasicInv, TypeOK, LockInv, Holding, cpuVars, requestVars,
     taskVars
<1>11. ASSUME NEW t \in Tasks, GiveUp(t) PROVE LockInv'
  BY <1>11 DEF GiveUp, Release, BasicInv, TypeOK, LockInv, Holding, cpuVars, requestVars,
     taskVars
<1>12. ASSUME NEW t \in Tasks, CarryOn(t) PROVE LockInv'
  BY <1>12 DEF CarryOn, BasicInv, TypeOK, LockInv, Holding, cpuVars, requestVars, taskVars
<1>13. ASSUME NEW c \in CPUs,
             \/ \E r \in Roots : Load(c, r)
             \/ PublishRoot(c)
             \/ \E p \in Pages : Fill(c, p)
             \/ HandleIpi(c)
      PROVE  UNCHANGED <<pc, lock, page, at, left>>
  BY <1>13, Zenon DEF Load, PublishRoot, Fill, HandleIpi, Invalidate, cpuVars, requestVars,
     taskVars
<1>14. CASE UNCHANGED vars
  BY <1>1, <1>14, Zenon DEF vars, cpuVars, requestVars, taskVars
<1> QED BY <1>1, <1>2, <1>3, <1>4, <1>5, <1>6, <1>7, <1>8, <1>9, <1>10, <1>11, <1>12,
   <1>13, <1>14 DEF Next, Cpu, Request

\* A CPU that is looked at is counted once.
LEMMA RoomStep ==
  ASSUME BasicInv, [Next]_vars
  PROVE  RoomInv'
<1>1. CASE UNCHANGED <<expected, left>>
  BY <1>1 DEF BasicInv, RoomInv
<1>2. ASSUME NEW t \in Tasks, WriteRoot(t) PROVE RoomInv'
  BY <1>2, CpuCounts DEF WriteRoot, RoomInv
<1>3. ASSUME NEW t \in Tasks, Broadcast(t) PROVE RoomInv'
  BY <1>3, CpuCounts, FS_EmptySet DEF Broadcast, RoomInv
<1>4. ASSUME NEW t \in Tasks, SendNext(t) PROVE RoomInv'
  <2>1. PICK d \in left : /\ left' = left \ {d}
                           /\ \/ UNCHANGED <<ipi, expected>>
                              \/ expected' = expected + 1 /\ ipi' = [ipi EXCEPT ![d] = TRUE]
    BY <1>4 DEF SendNext
  <2>2. /\ d \in CPUs /\ left \subseteq CPUs /\ expected \in 0 .. Cardinality(CPUs)
        /\ ipi \in [CPUs -> BOOLEAN]
    BY DEF BasicInv, TypeOK
  <2>3. Cardinality(left \ {d}) = Cardinality(left) - 1 /\ Cardinality(left \ {d}) \in Nat
        /\ Cardinality(left) \in Nat /\ Cardinality(CPUs) \in Nat
    BY <2>2, CpuCounts, OneFewer
  <2> QED BY <2>1, <2>2, <2>3 DEF BasicInv, RoomInv
<1>5. ASSUME NEW c \in CPUs,
             \/ \E r \in Roots : Load(c, r)
             \/ PublishRoot(c)
             \/ \E p \in Pages : Fill(c, p)
             \/ HandleIpi(c)
      PROVE  UNCHANGED <<expected, left>>
  BY <1>5, Zenon DEF Load, PublishRoot, Fill, HandleIpi, Invalidate, cpuVars, requestVars,
     taskVars
<1>6. ASSUME NEW t \in Tasks,
             \/ \E p \in PagesOf[t] : ChangePrivate(t, p)
             \/ \E p \in PagesOf[t], c \in CPUs : ChangeShared(t, p, c)
             \/ \E c \in CPUs : Lock(t, c)
             \/ Number(t)
             \/ WriteAddress(t)
             \/ Complete(t)
             \/ GiveUp(t)
             \/ CarryOn(t)
      PROVE  UNCHANGED <<expected, left>>
  BY <1>6, Zenon DEF ChangePrivate, ChangeShared, Lock, Number, WriteAddress, Complete,
     GiveUp, CarryOn, Change, NextGeneration, Release, cpuVars, requestVars, taskVars
<1>7. CASE UNCHANGED vars
  BY <1>1, <1>7, Zenon DEF vars, cpuVars, requestVars, taskVars
<1> QED BY <1>1, <1>2, <1>3, <1>4, <1>5, <1>6, <1>7 DEF Next, Cpu, Request

\* A CR3 write to another root drops the private pages of the old one.
LEMMA CacheStep ==
  ASSUME BasicInv, [Next]_vars
  PROVE  CacheInv'
<1>1. CASE UNCHANGED <<cached, cr3>>
  BY <1>1 DEF BasicInv, TypeOK, CacheInv, Shared
<1>2. ASSUME NEW c \in CPUs, NEW r \in Roots, Load(c, r) PROVE CacheInv'
  BY <1>2 DEF Load, BasicInv, TypeOK, CacheInv, Shared, cpuVars, requestVars, taskVars
<1>3. ASSUME NEW c \in CPUs, NEW p \in Pages, Fill(c, p) PROVE CacheInv'
  BY <1>3 DEF Fill, BasicInv, TypeOK, CacheInv, Shared, cpuVars, requestVars, taskVars
<1>4. ASSUME NEW c \in CPUs, HandleIpi(c) PROVE CacheInv'
  BY <1>4 DEF HandleIpi, Invalidate, BasicInv, TypeOK, CacheInv, Shared, cpuVars,
     requestVars, taskVars
<1>5. ASSUME NEW t \in Tasks, WriteRoot(t) PROVE CacheInv'
  BY <1>5 DEF WriteRoot, Invalidate, BasicInv, TypeOK, CacheInv, Shared, cpuVars,
     requestVars, taskVars
<1>6. ASSUME NEW c \in CPUs,
             \/ PublishRoot(c)
      PROVE  UNCHANGED <<cached, cr3>>
  BY <1>6, Zenon DEF PublishRoot, cpuVars, requestVars, taskVars
<1>7. ASSUME NEW t \in Tasks,
             \/ \E p \in PagesOf[t] : ChangePrivate(t, p)
             \/ \E p \in PagesOf[t], c \in CPUs : ChangeShared(t, p, c)
             \/ \E c \in CPUs : Lock(t, c)
             \/ Number(t)
             \/ WriteAddress(t)
             \/ Broadcast(t)
             \/ SendNext(t)
             \/ Complete(t)
             \/ GiveUp(t)
             \/ CarryOn(t)
      PROVE  UNCHANGED <<cached, cr3>>
  BY <1>7, Zenon DEF ChangePrivate, ChangeShared, Lock, Number, WriteAddress, Broadcast,
     SendNext, Complete, GiveUp, CarryOn, Change, NextGeneration, Release, cpuVars,
     requestVars, taskVars
<1>8. CASE UNCHANGED vars
  BY <1>1, <1>8, Zenon DEF vars, cpuVars, requestVars, taskVars
<1> QED BY <1>1, <1>2, <1>3, <1>4, <1>5, <1>6, <1>7, <1>8 DEF Next, Cpu, Request

\* A root is published late only by a CPU that has just flushed its TLB.
LEMMA KnownStep ==
  ASSUME BasicInv, [Next]_vars
  PROVE  KnownInv'
<1>1. CASE UNCHANGED <<cached, cr3, known, loading>>
  BY <1>1 DEF BasicInv, TypeOK, LockInv, Holding, KnownInv, Shared, Open
<1>2. ASSUME NEW c \in CPUs, NEW r \in Roots, Load(c, r) PROVE KnownInv'
  BY <1>2 DEF Load, BasicInv, TypeOK, LockInv, Holding, KnownInv, Shared, Open, cpuVars,
     requestVars, taskVars
<1>3. ASSUME NEW c \in CPUs, PublishRoot(c) PROVE KnownInv'
  BY <1>3 DEF PublishRoot, BasicInv, TypeOK, LockInv, Holding, KnownInv, Shared, Open,
     cpuVars, requestVars, taskVars
<1>4. ASSUME NEW c \in CPUs, NEW p \in Pages, Fill(c, p) PROVE KnownInv'
  BY <1>4 DEF Fill, BasicInv, TypeOK, LockInv, Holding, KnownInv, Shared, Open, cpuVars,
     requestVars, taskVars
<1>5. ASSUME NEW c \in CPUs, HandleIpi(c) PROVE KnownInv'
  BY <1>5 DEF HandleIpi, Invalidate, BasicInv, TypeOK, LockInv, Holding, KnownInv, Shared,
     Open, cpuVars, requestVars, taskVars
<1>6. ASSUME NEW t \in Tasks, WriteRoot(t) PROVE KnownInv'
  BY <1>6 DEF WriteRoot, Invalidate, BasicInv, TypeOK, LockInv, Holding, KnownInv, Shared,
     Open, cpuVars, requestVars, taskVars
<1>7. ASSUME NEW t \in Tasks,
             \/ \E p \in PagesOf[t] : ChangePrivate(t, p)
             \/ \E p \in PagesOf[t], c \in CPUs : ChangeShared(t, p, c)
             \/ \E c \in CPUs : Lock(t, c)
             \/ Number(t)
             \/ WriteAddress(t)
             \/ Broadcast(t)
             \/ SendNext(t)
             \/ Complete(t)
             \/ GiveUp(t)
             \/ CarryOn(t)
      PROVE  UNCHANGED <<cached, cr3, known, loading>>
  BY <1>7, Zenon DEF ChangePrivate, ChangeShared, Lock, Number, WriteAddress, Broadcast,
     SendNext, Complete, GiveUp, CarryOn, Change, NextGeneration, Release, cpuVars,
     requestVars, taskVars
<1>8. CASE UNCHANGED vars
  BY <1>1, <1>8, Zenon DEF vars, cpuVars, requestVars, taskVars
<1> QED BY <1>1, <1>2, <1>3, <1>4, <1>5, <1>6, <1>7, <1>8 DEF Next, Cpu, Request

\* An entry that leaves a TLB is no longer outdated.
LEMMA OutdatedStep ==
  ASSUME BasicInv, [Next]_vars
  PROVE  OutdatedInv'
<1>1. CASE UNCHANGED <<cached, outdated, page, pc>>
  BY <1>1 DEF BasicInv, TypeOK, LockInv, Holding, OutdatedInv
<1>2. ASSUME NEW c \in CPUs, NEW r \in Roots, Load(c, r) PROVE OutdatedInv'
  <2>1. CASE r = cr3[c]
    BY <1>2, <2>1 DEF Load, BasicInv, OutdatedInv
  <2>2. CASE r # cr3[c]
    <3>1. /\ cached' = [cached EXCEPT ![c] = {}]
          /\ outdated' = [u \in Tasks |-> outdated[u] \ {c}] /\ page' = page /\ pc' = pc
      BY <1>2, <2>2 DEF Load
    <3> QED BY <3>1 DEF BasicInv, TypeOK, OutdatedInv
  <2> QED BY <2>1, <2>2
<1>3. ASSUME NEW c \in CPUs, NEW p \in Pages, Fill(c, p) PROVE OutdatedInv'
  BY <1>3 DEF Fill, BasicInv, TypeOK, LockInv, Holding, OutdatedInv, cpuVars, requestVars,
     taskVars
<1>4. ASSUME NEW c \in CPUs, HandleIpi(c) PROVE OutdatedInv'
  <2>1. CASE Handled(c)
    <3>1. /\ cached' = [d \in CPUs |-> cached[d] \ (IF d \in {c} THEN {mailbox.page} ELSE {})]
          /\ outdated' = [u \in Tasks |-> outdated[u] \ (IF page[u] = mailbox.page THEN {c} ELSE {})]
          /\ page' = page /\ pc' = pc
      BY <1>4, <2>1 DEF HandleIpi, Invalidate
    <3> QED BY <3>1 DEF BasicInv, TypeOK, OutdatedInv
  <2>2. CASE ~Handled(c)
    BY <1>4, <2>2 DEF HandleIpi, BasicInv, OutdatedInv
  <2> QED BY <2>1, <2>2
<1>5. ASSUME NEW t \in Tasks, NEW p \in PagesOf[t], ChangePrivate(t, p)
     PROVE  OutdatedInv'
  BY <1>5 DEF ChangePrivate, Change, BasicInv, TypeOK, LockInv, Holding, OutdatedInv,
     cpuVars, requestVars, taskVars
<1>6. ASSUME NEW t \in Tasks, NEW p \in PagesOf[t], NEW c \in CPUs, ChangeShared(t, p, c)
     PROVE  OutdatedInv'
  BY <1>6 DEF ChangeShared, Change, BasicInv, TypeOK, LockInv, Holding, OutdatedInv,
     cpuVars, requestVars, taskVars
<1>7. ASSUME NEW t \in Tasks, NEW c \in CPUs, Lock(t, c) PROVE OutdatedInv'
  BY <1>7 DEF Lock, BasicInv, TypeOK, LockInv, Holding, OutdatedInv, cpuVars, requestVars,
     taskVars
<1>8. ASSUME NEW t \in Tasks, Number(t) PROVE OutdatedInv'
  BY <1>8 DEF Number, NextGeneration, BasicInv, TypeOK, LockInv, Holding, OutdatedInv,
     cpuVars, requestVars, taskVars
<1>9. ASSUME NEW t \in Tasks, WriteAddress(t) PROVE OutdatedInv'
  BY <1>9 DEF WriteAddress, BasicInv, TypeOK, LockInv, Holding, OutdatedInv, cpuVars,
     requestVars, taskVars
<1>10. ASSUME NEW t \in Tasks, WriteRoot(t) PROVE OutdatedInv'
  BY <1>10 DEF WriteRoot, Invalidate, BasicInv, TypeOK, LockInv, Holding, OutdatedInv,
     cpuVars, requestVars, taskVars
<1>11. ASSUME NEW t \in Tasks, Complete(t) PROVE OutdatedInv'
  BY <1>11 DEF Complete, Release, BasicInv, TypeOK, LockInv, Holding, OutdatedInv, cpuVars,
     requestVars, taskVars
<1>12. ASSUME NEW t \in Tasks, GiveUp(t) PROVE OutdatedInv'
  BY <1>12 DEF GiveUp, Release, BasicInv, TypeOK, LockInv, Holding, OutdatedInv, cpuVars,
     requestVars, taskVars
<1>13. ASSUME NEW t \in Tasks, CarryOn(t) PROVE OutdatedInv'
  BY <1>13 DEF CarryOn, BasicInv, TypeOK, LockInv, Holding, OutdatedInv, cpuVars,
     requestVars, taskVars
<1>14. ASSUME NEW c \in CPUs,
             \/ PublishRoot(c)
      PROVE  UNCHANGED <<cached, outdated, page, pc>>
  BY <1>14, Zenon DEF PublishRoot, cpuVars, requestVars, taskVars
<1>15. ASSUME NEW t \in Tasks,
             \/ Broadcast(t)
             \/ SendNext(t)
      PROVE  UNCHANGED <<cached, outdated, page, pc>>
  BY <1>15, Zenon DEF Broadcast, SendNext, cpuVars, requestVars, taskVars
<1>16. CASE UNCHANGED vars
  BY <1>1, <1>16, Zenon DEF vars, cpuVars, requestVars, taskVars
<1> QED BY <1>1, <1>2, <1>3, <1>4, <1>5, <1>6, <1>7, <1>8, <1>9, <1>10, <1>11, <1>12,
   <1>13, <1>14, <1>15, <1>16 DEF Next, Cpu, Request

-----------------------------------------------------------------------------
(* The part that holds while nobody gives up.                              *)

\* Matched counts answers only; as many as were asked for means all of them, and
\* asking for none means that there was nobody to ask.
LEMMA AllAnswered ==
  ASSUME BasicInv, SoundInv, NEW t \in Tasks, Complete(t)
  PROVE  \A d \in CPUs : ~ipi[d]
<1>1. /\ pc[t] = "sending" /\ lock = t /\ at[t] \in CPUs
      /\ expected \in {0, Cardinality({d \in CPUs \ {at[t]} : ack[d] = gen})}
  BY DEF Complete, Matched, BasicInv, LockInv, Holding
<1>2. /\ expected = Cardinality(Asked(t)) /\ \A d \in CPUs : ipi[d] => ack[d] # gen
  BY <1>1 DEF SoundInv, SendingInv
<1>3. IsFiniteSet(Asked(t))
  BY CpuCounts DEF Asked
<1>4. {d \in CPUs \ {at[t]} : ack[d] = gen} \in SUBSET Asked(t)
  BY DEF Asked
<1>5. Asked(t) = {d \in CPUs \ {at[t]} : ack[d] = gen}
  <2>1. CASE expected = 0
    BY <1>2, <1>3, <1>4, <2>1, FS_EmptySet
  <2>2. CASE expected # 0
    BY <1>1, <1>2, <1>3, <1>4, <2>2, FS_Subset
  <2> QED BY <2>1, <2>2
<1>6. \A d \in CPUs : ipi[d] => d \in Asked(t)
  BY <1>1 DEF SoundInv, IpisBelongToTheRequest, Asked
<1> QED BY <1>2, <1>5, <1>6

\* An outdated private page is of the root its CPU has loaded and, unless nobody
\* knows, is known to have loaded.
LEMMA OutdatedIsLoaded ==
  ASSUME BasicInv, NEW t \in Tasks, NEW c \in outdated[t]
  PROVE  /\ page[t] \in Pages /\ c \in CPUs
         /\ ~Shared(page[t]) => RootOf[page[t]] = cr3[c] /\ known[c] \in {NoRoot, cr3[c]}
<1>1. page[t] \in cached[c] /\ c \in CPUs
  BY DEF BasicInv, TypeOK, OutdatedInv
<1> QED BY <1>1 DEF BasicInv, TypeOK, CacheInv, KnownInv

\* What the lock holder does not see leaves its count alone.
LEMMA SendingKept ==
  ASSUME SendingInv, UNCHANGED <<ipi, ack, gen, expected, left>>,
         \A u \in Tasks : pc'[u] = "sending" =>
           pc[u] = "sending" /\ at'[u] = at[u] /\ page'[u] = page[u]
  PROVE  SendingInv'
<1> SUFFICES ASSUME NEW u \in Tasks, pc'[u] = "sending"
             PROVE  /\ expected' = Cardinality(Asked(u)')
                    /\ \A d \in CPUs : ipi'[d] => ack'[d] # gen'
                    /\ \A d \in left' : ~ipi'[d] /\ ack'[d] # gen'
                    /\ Shared(page'[u]) => left' \in {{}, CPUs \ {at'[u]}}
  BY DEF SendingInv, Asked, Shared
<1>1. pc[u] = "sending" /\ at'[u] = at[u] /\ page'[u] = page[u]
  OBVIOUS
<1>2. Asked(u)' = Asked(u)
  BY <1>1 DEF Asked
<1> QED BY <1>1, <1>2 DEF SendingInv

\* Whoever holds the lock is alone.
LEMMA OneSender ==
  ASSUME BasicInv, NEW t \in Tasks, pc[t] \in Holding
  PROVE  /\ lock = t /\ at[t] \in CPUs /\ page[t] \in Pages
         /\ \A u \in Tasks \ {t} : pc[u] # "sending"
BY DEF BasicInv, LockInv, Holding

\* No task has failed before.
LEMMA NoFailStep ==
  ASSUME ~GivesUp, BasicInv, SoundInv, [Next]_vars
  PROVE  \A u \in Tasks : pc'[u] # "failed"
<1>1. CASE UNCHANGED <<pc>>
  BY <1>1 DEF SoundInv, BasicInv, TypeOK
<1>2. ASSUME NEW t \in Tasks, NEW p \in PagesOf[t], ChangePrivate(t, p)
     PROVE  \A u \in Tasks : pc'[u] # "failed"
  BY <1>2 DEF ChangePrivate, Change, SoundInv, BasicInv, TypeOK, cpuVars, requestVars,
     taskVars
<1>3. ASSUME NEW t \in Tasks, NEW p \in PagesOf[t], NEW c \in CPUs, ChangeShared(t, p, c)
     PROVE  \A u \in Tasks : pc'[u] # "failed"
  BY <1>3 DEF ChangeShared, Change, SoundInv, BasicInv, TypeOK, cpuVars, requestVars,
     taskVars
<1>4. ASSUME NEW t \in Tasks, NEW c \in CPUs, Lock(t, c)
     PROVE  \A u \in Tasks : pc'[u] # "failed"
  BY <1>4 DEF Lock, SoundInv, BasicInv, TypeOK, cpuVars, requestVars, taskVars
<1>5. ASSUME NEW t \in Tasks, Number(t) PROVE \A u \in Tasks : pc'[u] # "failed"
  BY <1>5 DEF Number, NextGeneration, SoundInv, BasicInv, TypeOK, cpuVars, requestVars,
     taskVars
<1>6. ASSUME NEW t \in Tasks, WriteAddress(t) PROVE \A u \in Tasks : pc'[u] # "failed"
  BY <1>6 DEF WriteAddress, SoundInv, BasicInv, TypeOK, cpuVars, requestVars, taskVars
<1>7. ASSUME NEW t \in Tasks, WriteRoot(t) PROVE \A u \in Tasks : pc'[u] # "failed"
  BY <1>7 DEF WriteRoot, Invalidate, SoundInv, BasicInv, TypeOK, cpuVars, requestVars,
     taskVars
<1>8. ASSUME NEW t \in Tasks, Complete(t) PROVE \A u \in Tasks : pc'[u] # "failed"
  BY <1>8 DEF Complete, Release, SoundInv, BasicInv, TypeOK, cpuVars, requestVars, taskVars
<1>9. ASSUME NEW t \in Tasks, GiveUp(t) PROVE \A u \in Tasks : pc'[u] # "failed"
  BY <1>9 DEF GivesUp
<1>10. ASSUME NEW t \in Tasks, CarryOn(t) PROVE \A u \in Tasks : pc'[u] # "failed"
  BY <1>10 DEF CarryOn, SoundInv, BasicInv, TypeOK, cpuVars, requestVars, taskVars
<1>11. ASSUME NEW c \in CPUs,
             \/ \E r \in Roots : Load(c, r)
             \/ PublishRoot(c)
             \/ \E p \in Pages : Fill(c, p)
             \/ HandleIpi(c)
      PROVE  UNCHANGED <<pc>>
  BY <1>11, Zenon DEF Load, PublishRoot, Fill, HandleIpi, Invalidate, cpuVars, requestVars,
     taskVars
<1>12. ASSUME NEW t \in Tasks,
             \/ Broadcast(t)
             \/ SendNext(t)
      PROVE  UNCHANGED <<pc>>
  BY <1>12, Zenon DEF Broadcast, SendNext, cpuVars, requestVars, taskVars
<1>13. CASE UNCHANGED vars
  BY <1>1, <1>13, Zenon DEF vars, cpuVars, requestVars, taskVars
<1> QED BY <1>1, <1>2, <1>3, <1>4, <1>5, <1>6, <1>7, <1>8, <1>9, <1>10, <1>11, <1>12,
   <1>13 DEF Next, Cpu, Request

\* Only the current generation is acknowledged, and a wrap resets all of them.
LEMMA AckStep ==
  ASSUME ~GivesUp, BasicInv, SoundInv, [Next]_vars
  PROVE  AckInv'
<1>1. CASE UNCHANGED <<ack, gen, pc>>
  BY <1>1 DEF SoundInv, BasicInv, TypeOK, AckInv, LockInv, Holding, IpisBelongToTheRequest
<1>2. ASSUME NEW c \in CPUs, HandleIpi(c) PROVE AckInv'
  BY <1>2 DEF HandleIpi, Invalidate, SoundInv, BasicInv, TypeOK, AckInv, LockInv, Holding,
     IpisBelongToTheRequest, cpuVars, requestVars, taskVars
<1>3. ASSUME NEW t \in Tasks, NEW p \in PagesOf[t], ChangePrivate(t, p) PROVE AckInv'
  BY <1>3 DEF ChangePrivate, Change, SoundInv, BasicInv, TypeOK, AckInv, LockInv, Holding,
     IpisBelongToTheRequest, cpuVars, requestVars, taskVars
<1>4. ASSUME NEW t \in Tasks, NEW p \in PagesOf[t], NEW c \in CPUs, ChangeShared(t, p, c)
     PROVE  AckInv'
  BY <1>4 DEF ChangeShared, Change, SoundInv, BasicInv, TypeOK, AckInv, LockInv, Holding,
     IpisBelongToTheRequest, cpuVars, requestVars, taskVars
<1>5. ASSUME NEW t \in Tasks, NEW c \in CPUs, Lock(t, c) PROVE AckInv'
  BY <1>5 DEF Lock, SoundInv, BasicInv, TypeOK, AckInv, LockInv, Holding,
     IpisBelongToTheRequest, cpuVars, requestVars, taskVars
<1>6. ASSUME NEW t \in Tasks, Number(t) PROVE AckInv'
  BY <1>6 DEF Number, NextGeneration, SoundInv, BasicInv, TypeOK, AckInv, LockInv, Holding,
     IpisBelongToTheRequest, cpuVars, requestVars, taskVars
<1>7. ASSUME NEW t \in Tasks, WriteAddress(t) PROVE AckInv'
  BY <1>7 DEF WriteAddress, SoundInv, BasicInv, TypeOK, AckInv, LockInv, Holding,
     IpisBelongToTheRequest, cpuVars, requestVars, taskVars
<1>8. ASSUME NEW t \in Tasks, WriteRoot(t) PROVE AckInv'
  BY <1>8 DEF WriteRoot, Invalidate, SoundInv, BasicInv, TypeOK, AckInv, LockInv, Holding,
     IpisBelongToTheRequest, cpuVars, requestVars, taskVars
<1>9. ASSUME NEW t \in Tasks, Complete(t) PROVE AckInv'
  BY <1>9 DEF Complete, Release, SoundInv, BasicInv, TypeOK, AckInv, LockInv, Holding,
     IpisBelongToTheRequest, cpuVars, requestVars, taskVars
<1>10. ASSUME NEW t \in Tasks, CarryOn(t) PROVE AckInv'
  BY <1>10 DEF CarryOn, SoundInv, BasicInv, TypeOK, AckInv, LockInv, Holding,
     IpisBelongToTheRequest, cpuVars, requestVars, taskVars
<1>11. ASSUME NEW c \in CPUs,
             \/ \E r \in Roots : Load(c, r)
             \/ PublishRoot(c)
             \/ \E p \in Pages : Fill(c, p)
      PROVE  UNCHANGED <<ack, gen, pc>>
  BY <1>11, Zenon DEF Load, PublishRoot, Fill, cpuVars, requestVars, taskVars
<1>12. ASSUME NEW t \in Tasks,
             \/ Broadcast(t)
             \/ SendNext(t)
      PROVE  UNCHANGED <<ack, gen, pc>>
  BY <1>12, Zenon DEF Broadcast, SendNext, cpuVars, requestVars, taskVars
<1>13. CASE UNCHANGED vars
  BY <1>1, <1>13, Zenon DEF vars, cpuVars, requestVars, taskVars
<1> QED BY <1>1, <1>2, <1>3, <1>4, <1>5, <1>6, <1>7, <1>8, <1>9, <1>10, <1>11, <1>12,
   <1>13 DEF Next, Cpu, Request, GivesUp

\* The lock is released when no interrupt is pending any more (AllAnswered).
LEMMA IpiStep ==
  ASSUME ~GivesUp, BasicInv, SoundInv, [Next]_vars
  PROVE  IpisBelongToTheRequest'
<1>1. CASE UNCHANGED <<ipi, lock, pc, at>>
  BY <1>1 DEF SoundInv, BasicInv, TypeOK, LockInv, Holding, IpisBelongToTheRequest
<1>2. ASSUME NEW c \in CPUs, HandleIpi(c) PROVE IpisBelongToTheRequest'
  BY <1>2 DEF HandleIpi, Invalidate, SoundInv, BasicInv, TypeOK, LockInv, Holding,
     IpisBelongToTheRequest, cpuVars, requestVars, taskVars
<1>3. ASSUME NEW t \in Tasks, NEW p \in PagesOf[t], ChangePrivate(t, p)
     PROVE  IpisBelongToTheRequest'
  BY <1>3 DEF ChangePrivate, Change, SoundInv, BasicInv, TypeOK, LockInv, Holding,
     IpisBelongToTheRequest, cpuVars, requestVars, taskVars
<1>4. ASSUME NEW t \in Tasks, NEW p \in PagesOf[t], NEW c \in CPUs, ChangeShared(t, p, c)
     PROVE  IpisBelongToTheRequest'
  BY <1>4 DEF ChangeShared, Change, SoundInv, BasicInv, TypeOK, LockInv, Holding,
     IpisBelongToTheRequest, cpuVars, requestVars, taskVars
<1>5. ASSUME NEW t \in Tasks, NEW c \in CPUs, Lock(t, c) PROVE IpisBelongToTheRequest'
  BY <1>5 DEF Lock, SoundInv, BasicInv, TypeOK, LockInv, Holding, IpisBelongToTheRequest,
     cpuVars, requestVars, taskVars
<1>6. ASSUME NEW t \in Tasks, Number(t) PROVE IpisBelongToTheRequest'
  BY <1>6 DEF Number, NextGeneration, SoundInv, BasicInv, TypeOK, LockInv, Holding,
     IpisBelongToTheRequest, cpuVars, requestVars, taskVars
<1>7. ASSUME NEW t \in Tasks, WriteAddress(t) PROVE IpisBelongToTheRequest'
  BY <1>7 DEF WriteAddress, SoundInv, BasicInv, TypeOK, LockInv, Holding,
     IpisBelongToTheRequest, cpuVars, requestVars, taskVars
<1>8. ASSUME NEW t \in Tasks, WriteRoot(t) PROVE IpisBelongToTheRequest'
  BY <1>8 DEF WriteRoot, Invalidate, SoundInv, BasicInv, TypeOK, LockInv, Holding,
     IpisBelongToTheRequest, cpuVars, requestVars, taskVars
<1>9. ASSUME NEW t \in Tasks, Broadcast(t) PROVE IpisBelongToTheRequest'
  BY <1>9 DEF Broadcast, SoundInv, BasicInv, TypeOK, LockInv, Holding,
     IpisBelongToTheRequest, cpuVars, requestVars, taskVars
<1>10. ASSUME NEW t \in Tasks, SendNext(t) PROVE IpisBelongToTheRequest'
  BY <1>10 DEF SendNext, SoundInv, BasicInv, TypeOK, LockInv, Holding,
     IpisBelongToTheRequest, cpuVars, requestVars, taskVars
<1>11. ASSUME NEW t \in Tasks, Complete(t) PROVE IpisBelongToTheRequest'
  BY <1>11, AllAnswered DEF Complete, IpisBelongToTheRequest, cpuVars
<1>12. ASSUME NEW t \in Tasks, GiveUp(t) PROVE IpisBelongToTheRequest'
  BY <1>12 DEF GivesUp
<1>13. ASSUME NEW t \in Tasks, CarryOn(t) PROVE IpisBelongToTheRequest'
  BY <1>13 DEF CarryOn, SoundInv, BasicInv, TypeOK, LockInv, Holding,
     IpisBelongToTheRequest, cpuVars, requestVars, taskVars
<1>14. ASSUME NEW c \in CPUs,
             \/ \E r \in Roots : Load(c, r)
             \/ PublishRoot(c)
             \/ \E p \in Pages : Fill(c, p)
      PROVE  UNCHANGED <<ipi, lock, pc, at>>
  BY <1>14, Zenon DEF Load, PublishRoot, Fill, cpuVars, requestVars, taskVars
<1>15. CASE UNCHANGED vars
  BY <1>1, <1>15, Zenon DEF vars, cpuVars, requestVars, taskVars
<1> QED BY <1>1, <1>2, <1>3, <1>4, <1>5, <1>6, <1>7, <1>8, <1>9, <1>10, <1>11, <1>12,
   <1>13, <1>14, <1>15 DEF Next, Cpu, Request

\* Each CPU that is asked is counted when its interrupt is sent, and stays
\* asked when it answers.
LEMMA SendingStep ==
  ASSUME ~GivesUp, BasicInv, SoundInv, [Next]_vars
  PROVE  SendingInv'
<1>1. CASE UNCHANGED <<ipi, ack, gen, expected, left, pc, at, page>>
  BY <1>1, SendingKept DEF SoundInv
<1>2. ASSUME NEW c \in CPUs, HandleIpi(c) PROVE SendingInv'
  <2>1. /\ ipi[c]
        /\ ipi' = [ipi EXCEPT ![c] = FALSE]
        /\ ack' = [ack EXCEPT ![c] = gen]
        /\ UNCHANGED <<gen, expected, left, pc, at, page>>
    BY <1>2 DEF HandleIpi, requestVars
  <2>2. ipi \in [CPUs -> BOOLEAN] /\ DOMAIN ack = CPUs
    BY DEF BasicInv, TypeOK
  <2>3. /\ ~ipi'[c] /\ ack'[c] = gen
        /\ \A d \in CPUs : d # c => ipi'[d] = ipi[d] /\ ack'[d] = ack[d]
    BY <2>1, <2>2
  <2>4. ASSUME NEW t \in Tasks, pc[t] = "sending"
        PROVE  Asked(t)' = Asked(t) /\ c \notin left
    <3>1. SendingInv
      BY DEF SoundInv
    <3>2. Asked(t)' = Asked(t)
      BY <2>1, <2>3 DEF Asked
    <3> QED BY <2>1, <2>4, <3>1, <3>2 DEF SendingInv
  <2>5. \A d \in left : d \in CPUs
    BY DEF BasicInv, TypeOK
  <2> QED BY <2>1, <2>3, <2>4, <2>5 DEF SoundInv, SendingInv
<1>3. ASSUME NEW t \in Tasks, NEW p \in PagesOf[t], ChangePrivate(t, p)
     PROVE  SendingInv'
  <2>1. UNCHANGED <<ipi, ack, gen, expected, left>>
    BY <1>3 DEF ChangePrivate, Change, cpuVars, requestVars
  <2>2. \A u \in Tasks : u # t => pc'[u] = pc[u] /\ at'[u] = at[u] /\ page'[u] = page[u]
    BY <1>3 DEF ChangePrivate, Change, BasicInv, TypeOK
  <2>3. pc'[t] # "sending"
    BY <1>3 DEF ChangePrivate, Change, BasicInv, TypeOK
  <2> QED BY <2>1, <2>2, <2>3, SendingKept DEF SoundInv
<1>4. ASSUME NEW t \in Tasks, NEW p \in PagesOf[t], NEW c \in CPUs, ChangeShared(t, p, c)
     PROVE  SendingInv'
  <2>1. UNCHANGED <<ipi, ack, gen, expected, left>>
    BY <1>4 DEF ChangeShared, Change, cpuVars, requestVars
  <2>2. \A u \in Tasks : u # t => pc'[u] = pc[u] /\ at'[u] = at[u] /\ page'[u] = page[u]
    BY <1>4 DEF ChangeShared, Change, BasicInv, TypeOK
  <2>3. pc'[t] # "sending"
    BY <1>4 DEF ChangeShared, Change, BasicInv, TypeOK
  <2> QED BY <2>1, <2>2, <2>3, SendingKept DEF SoundInv
<1>5. ASSUME NEW t \in Tasks, NEW c \in CPUs, Lock(t, c) PROVE SendingInv'
  BY <1>5 DEF Lock, SoundInv, BasicInv, TypeOK, LockInv, Holding, AckInv, SendingInv,
     Asked, IpisBelongToTheRequest, cpuVars, requestVars, taskVars
<1>6. ASSUME NEW t \in Tasks, Number(t) PROVE SendingInv'
  BY <1>6 DEF Number, NextGeneration, SoundInv, BasicInv, TypeOK, LockInv, Holding, AckInv,
     SendingInv, Asked, IpisBelongToTheRequest, cpuVars, requestVars, taskVars
<1>7. ASSUME NEW t \in Tasks, WriteAddress(t) PROVE SendingInv'
  BY <1>7 DEF WriteAddress, SoundInv, BasicInv, TypeOK, LockInv, Holding, AckInv,
     SendingInv, Asked, IpisBelongToTheRequest, cpuVars, requestVars, taskVars
<1>8. ASSUME NEW t \in Tasks, WriteRoot(t) PROVE SendingInv'
  <2> SUFFICES ASSUME NEW u \in Tasks, pc'[u] = "sending"
               PROVE  /\ expected' = Cardinality(Asked(u)')
                      /\ \A d \in CPUs : ipi'[d] => ack'[d] # gen'
                      /\ \A d \in left' : ~ipi'[d] /\ ack'[d] # gen'
                      /\ Shared(page'[u]) => left' \in {{}, CPUs \ {at'[u]}}
    BY DEF SendingInv, Asked, Shared
  <2>1. /\ pc[t] = "addressed" /\ left' = CPUs \ {at[t]} /\ expected' = 0
        /\ pc' = [pc EXCEPT ![t] = "sending"] /\ UNCHANGED <<ipi, ack, gen, at, page>>
    BY <1>8 DEF WriteRoot
  <2>2. u = t
    BY <2>1, OneSender DEF BasicInv, TypeOK, Holding
  <2>3. \A d \in CPUs : ~ipi[d] /\ ack[d] # gen
    BY <2>1, OneSender DEF SoundInv, AckInv, IpisBelongToTheRequest, Holding
  <2>4. Asked(t)' = {}
    BY <2>1, <2>3 DEF Asked
  <2> QED BY <2>1, <2>2, <2>3, <2>4, FS_EmptySet
<1>9. ASSUME NEW t \in Tasks, Broadcast(t) PROVE SendingInv'
  <2> SUFFICES ASSUME NEW u \in Tasks, pc'[u] = "sending"
               PROVE  /\ expected' = Cardinality(Asked(u)')
                      /\ \A d \in CPUs : ipi'[d] => ack'[d] # gen'
                      /\ \A d \in left' : ~ipi'[d] /\ ack'[d] # gen'
                      /\ Shared(page'[u]) => left' \in {{}, CPUs \ {at'[u]}}
    BY DEF SendingInv, Asked, Shared
  <2>1. /\ pc[t] = "sending" /\ left # {} /\ Shared(page[t]) /\ left' = {}
        /\ ipi' = [c \in CPUs |-> ipi[c] \/ c \in left]
        /\ expected' = Cardinality(CPUs) - 1 /\ UNCHANGED <<ack, gen, at, page, pc>>
    BY <1>9 DEF Broadcast, taskVars
  <2>2. /\ u = t /\ lock = t /\ at[t] \in CPUs /\ left \subseteq CPUs /\ at[t] \notin left
    BY <2>1, OneSender DEF BasicInv, TypeOK, LockInv, Holding
  <2>3. /\ expected = Cardinality(Asked(t))
        /\ \A d \in CPUs : ipi[d] => ack[d] # gen
        /\ \A d \in left : ~ipi[d] /\ ack[d] # gen
        /\ Shared(page[t]) => left \in {{}, CPUs \ {at[t]}}
    BY <2>1 DEF SoundInv, SendingInv
  <2>4. Asked(t)' = CPUs \ {at[t]}
    BY <2>1, <2>2, <2>3 DEF Asked
  <2>5. expected' = Cardinality(Asked(t)')
    BY <2>1, <2>2, <2>4, OneFewer
  <2>6. \A d \in CPUs : ipi'[d] => ack[d] # gen
    BY <2>1, <2>3
  <2> QED BY <2>1, <2>2, <2>5, <2>6
<1>10. ASSUME NEW t \in Tasks, SendNext(t) PROVE SendingInv'
  <2> SUFFICES ASSUME NEW u \in Tasks, pc'[u] = "sending"
               PROVE  /\ expected' = Cardinality(Asked(u)')
                      /\ \A d \in CPUs : ipi'[d] => ack'[d] # gen'
                      /\ \A d \in left' : ~ipi'[d] /\ ack'[d] # gen'
                      /\ Shared(page'[u]) => left' \in {{}, CPUs \ {at'[u]}}
    BY DEF SendingInv, Asked, Shared
  <2>1. /\ pc[t] = "sending" /\ ~Shared(page[t]) /\ UNCHANGED <<ack, gen, at, page, pc>>
        /\ \E d \in left :
             /\ left' = left \ {d}
             /\ \/ ipi' = [ipi EXCEPT ![d] = TRUE] /\ expected' = expected + 1
                \/ UNCHANGED <<ipi, expected>>
    BY <1>10, Zenon DEF SendNext, taskVars
  <2>2. /\ u = t /\ lock = t /\ at[t] \in CPUs /\ left \subseteq CPUs /\ at[t] \notin left
    BY <2>1, OneSender DEF BasicInv, TypeOK, LockInv, Holding
  <2>3. /\ expected = Cardinality(Asked(t))
        /\ \A d \in CPUs : ipi[d] => ack[d] # gen
        /\ \A d \in left : ~ipi[d] /\ ack[d] # gen
        /\ Shared(page[t]) => left \in {{}, CPUs \ {at[t]}}
    BY <2>1 DEF SoundInv, SendingInv
  <2>4. PICK d \in left :
          /\ left' = left \ {d}
          /\ \/ ipi' = [ipi EXCEPT ![d] = TRUE] /\ expected' = expected + 1
             \/ UNCHANGED <<ipi, expected>>
    BY <2>1
  <2>5. ipi \in [CPUs -> BOOLEAN] /\ d \in CPUs \ {at[t]} /\ d \notin Asked(t)
    BY <2>2, <2>3 DEF BasicInv, TypeOK, Asked
  <2>6. CASE ipi' = [ipi EXCEPT ![d] = TRUE] /\ expected' = expected + 1
    <3>1. Asked(t)' = Asked(t) \cup {d}
      BY <2>1, <2>5, <2>6 DEF Asked
    <3>2. Cardinality(Asked(t) \cup {d}) = Cardinality(Asked(t)) + 1
      <4>1. IsFiniteSet(Asked(t))
        BY CpuCounts DEF Asked
      <4> QED BY <2>5, <4>1, FS_AddElement
    <3>3. expected' = Cardinality(Asked(t)')
      BY <2>3, <2>6, <3>1, <3>2
    <3> QED BY <2>1, <2>2, <2>3, <2>4, <2>5, <2>6, <3>3
  <2>7. CASE UNCHANGED <<ipi, expected>>
    <3>1. Asked(t)' = Asked(t)
      BY <2>1, <2>7 DEF Asked
    <3> QED BY <2>1, <2>2, <2>3, <2>4, <2>7, <3>1
  <2> QED BY <2>4, <2>6, <2>7
<1>11. ASSUME NEW t \in Tasks, Complete(t) PROVE SendingInv'
  BY <1>11 DEF Complete, Release, SoundInv, BasicInv, TypeOK, LockInv, Holding, AckInv,
     SendingInv, Asked, IpisBelongToTheRequest, cpuVars, requestVars, taskVars
<1>12. ASSUME NEW t \in Tasks, GiveUp(t) PROVE SendingInv'
  BY <1>12 DEF GivesUp
<1>13. ASSUME NEW t \in Tasks, CarryOn(t) PROVE SendingInv'
  BY <1>13 DEF CarryOn, SoundInv, BasicInv, TypeOK, LockInv, Holding, AckInv, SendingInv,
     Asked, IpisBelongToTheRequest, cpuVars, requestVars, taskVars
<1>14. ASSUME NEW c \in CPUs,
             \/ \E r \in Roots : Load(c, r)
             \/ PublishRoot(c)
             \/ \E p \in Pages : Fill(c, p)
      PROVE  UNCHANGED <<ipi, ack, gen, expected, left, pc, at, page>>
  BY <1>14, Zenon DEF Load, PublishRoot, Fill, cpuVars, requestVars, taskVars
<1>15. CASE UNCHANGED vars
  BY <1>1, <1>15, Zenon DEF vars, cpuVars, requestVars, taskVars
<1> QED BY <1>1, <1>2, <1>3, <1>4, <1>5, <1>6, <1>7, <1>8, <1>9, <1>10, <1>11, <1>12,
   <1>13, <1>14, <1>15 DEF Next, Cpu, Request

\* Only the lock holder writes the mailbox, before it sends.
LEMMA MailStep ==
  ASSUME ~GivesUp, BasicInv, SoundInv, [Next]_vars
  PROVE  MailInv'
<1>1. CASE UNCHANGED <<mailbox, pc, page>>
  BY <1>1 DEF SoundInv, BasicInv, TypeOK, LockInv, Holding, MailInv
<1>2. ASSUME NEW t \in Tasks, NEW p \in PagesOf[t], ChangePrivate(t, p) PROVE MailInv'
  BY <1>2 DEF ChangePrivate, Change, SoundInv, BasicInv, TypeOK, LockInv, Holding, MailInv,
     cpuVars, requestVars, taskVars
<1>3. ASSUME NEW t \in Tasks, NEW p \in PagesOf[t], NEW c \in CPUs, ChangeShared(t, p, c)
     PROVE  MailInv'
  BY <1>3 DEF ChangeShared, Change, SoundInv, BasicInv, TypeOK, LockInv, Holding, MailInv,
     cpuVars, requestVars, taskVars
<1>4. ASSUME NEW t \in Tasks, NEW c \in CPUs, Lock(t, c) PROVE MailInv'
  BY <1>4 DEF Lock, SoundInv, BasicInv, TypeOK, LockInv, Holding, MailInv, cpuVars,
     requestVars, taskVars
<1>5. ASSUME NEW t \in Tasks, Number(t) PROVE MailInv'
  BY <1>5 DEF Number, NextGeneration, SoundInv, BasicInv, TypeOK, LockInv, Holding,
     MailInv, cpuVars, requestVars, taskVars
<1>6. ASSUME NEW t \in Tasks, WriteAddress(t) PROVE MailInv'
  BY <1>6 DEF WriteAddress, SoundInv, BasicInv, TypeOK, LockInv, Holding, MailInv, cpuVars,
     requestVars, taskVars
<1>7. ASSUME NEW t \in Tasks, WriteRoot(t) PROVE MailInv'
  BY <1>7 DEF WriteRoot, Invalidate, SoundInv, BasicInv, TypeOK, LockInv, Holding, MailInv,
     cpuVars, requestVars, taskVars
<1>8. ASSUME NEW t \in Tasks, Complete(t) PROVE MailInv'
  BY <1>8 DEF Complete, Release, SoundInv, BasicInv, TypeOK, LockInv, Holding, MailInv,
     cpuVars, requestVars, taskVars
<1>9. ASSUME NEW t \in Tasks, GiveUp(t) PROVE MailInv'
  BY <1>9 DEF GivesUp
<1>10. ASSUME NEW t \in Tasks, CarryOn(t) PROVE MailInv'
  BY <1>10 DEF CarryOn, SoundInv, BasicInv, TypeOK, LockInv, Holding, MailInv, cpuVars,
     requestVars, taskVars
<1>11. ASSUME NEW c \in CPUs,
             \/ \E r \in Roots : Load(c, r)
             \/ PublishRoot(c)
             \/ \E p \in Pages : Fill(c, p)
             \/ HandleIpi(c)
      PROVE  UNCHANGED <<mailbox, pc, page>>
  BY <1>11, Zenon DEF Load, PublishRoot, Fill, HandleIpi, Invalidate, cpuVars, requestVars,
     taskVars
<1>12. ASSUME NEW t \in Tasks,
             \/ Broadcast(t)
             \/ SendNext(t)
      PROVE  UNCHANGED <<mailbox, pc, page>>
  BY <1>12, Zenon DEF Broadcast, SendNext, cpuVars, requestVars, taskVars
<1>13. CASE UNCHANGED vars
  BY <1>1, <1>13, Zenon DEF vars, cpuVars, requestVars, taskVars
<1> QED BY <1>1, <1>2, <1>3, <1>4, <1>5, <1>6, <1>7, <1>8, <1>9, <1>10, <1>11, <1>12,
   <1>13 DEF Next, Cpu, Request

\* The handler invalidates before it acknowledges, and a CPU that is passed over
\* by SendNext does not have the page.
LEMMA ToldStep ==
  ASSUME ~GivesUp, BasicInv, SoundInv, [Next]_vars
  PROVE  ToldInv'
<1>1. CASE UNCHANGED <<outdated, ipi, left, pc>>
  BY <1>1 DEF SoundInv, BasicInv, TypeOK, LockInv, Holding, ToldInv
<1>2. ASSUME NEW c \in CPUs, NEW r \in Roots, Load(c, r) PROVE ToldInv'
  <2>1. /\ UNCHANGED <<ipi, left, pc>>
        /\ \A u \in Tasks : outdated'[u] \subseteq outdated[u]
    BY <1>2 DEF Load, requestVars, BasicInv, TypeOK
  <2> QED BY <2>1 DEF SoundInv, ToldInv
<1>3. ASSUME NEW c \in CPUs, HandleIpi(c) PROVE ToldInv'
  <2>1. /\ ipi' = [ipi EXCEPT ![c] = FALSE] /\ UNCHANGED <<left, pc>>
        /\ \A u \in Tasks : outdated'[u] \subseteq outdated[u]
    BY <1>3 DEF HandleIpi, Invalidate, requestVars, BasicInv, TypeOK
  <2>2. ASSUME NEW u \in Tasks, pc[u] = "sending", c \in outdated[u] PROVE c \notin outdated'[u]
    <3>1. mailbox.page = page[u] /\ mailbox.root = RootOf[page[u]]
      BY <2>2 DEF SoundInv, MailInv
    <3>2. mailbox.root \in {NoRoot, cr3[c]}
      BY <2>2, <3>1, OutdatedIsLoaded DEF Shared
    <3>3. outdated' = [v \in Tasks |-> outdated[v] \ (IF page[v] = mailbox.page THEN {c} ELSE {})]
      BY <1>3, <3>2 DEF HandleIpi, Handled, Invalidate
    <3> QED BY <3>1, <3>3
  <2> QED BY <2>1, <2>2 DEF SoundInv, BasicInv, TypeOK, ToldInv
<1>4. ASSUME NEW t \in Tasks, NEW p \in PagesOf[t], ChangePrivate(t, p) PROVE ToldInv'
  BY <1>4 DEF ChangePrivate, Change, SoundInv, BasicInv, TypeOK, LockInv, Holding, ToldInv,
     cpuVars, requestVars, taskVars
<1>5. ASSUME NEW t \in Tasks, NEW p \in PagesOf[t], NEW c \in CPUs, ChangeShared(t, p, c)
     PROVE  ToldInv'
  BY <1>5 DEF ChangeShared, Change, SoundInv, BasicInv, TypeOK, LockInv, Holding, ToldInv,
     cpuVars, requestVars, taskVars
<1>6. ASSUME NEW t \in Tasks, NEW c \in CPUs, Lock(t, c) PROVE ToldInv'
  BY <1>6 DEF Lock, SoundInv, BasicInv, TypeOK, LockInv, Holding, ToldInv, cpuVars,
     requestVars, taskVars
<1>7. ASSUME NEW t \in Tasks, Number(t) PROVE ToldInv'
  BY <1>7 DEF Number, NextGeneration, SoundInv, BasicInv, TypeOK, LockInv, Holding,
     ToldInv, cpuVars, requestVars, taskVars
<1>8. ASSUME NEW t \in Tasks, WriteAddress(t) PROVE ToldInv'
  BY <1>8 DEF WriteAddress, SoundInv, BasicInv, TypeOK, LockInv, Holding, ToldInv, cpuVars,
     requestVars, taskVars
<1>9. ASSUME NEW t \in Tasks, WriteRoot(t) PROVE ToldInv'
  <2>1. /\ pc[t] = "addressed" /\ left' = CPUs \ {at[t]} /\ pc' = [pc EXCEPT ![t] = "sending"]
        /\ UNCHANGED <<ipi, at, page>>
    BY <1>9 DEF WriteRoot
  <2>2. \A u \in Tasks \ {t} : pc'[u] # "sending"
    BY <2>1, OneSender DEF BasicInv, TypeOK, Holding
  <2>3. at[t] \notin outdated'[t]
    <3>1. CASE Shared(page[t]) \/ cr3[at[t]] = RootOf[page[t]]
      BY <1>9, <3>1 DEF WriteRoot, Invalidate
    <3>2. CASE ~(Shared(page[t]) \/ cr3[at[t]] = RootOf[page[t]])
      <4>1. outdated' = outdated
        BY <1>9, <3>2 DEF WriteRoot
      <4> QED BY <3>2, <4>1, OutdatedIsLoaded
    <3> QED BY <3>1, <3>2
  <2>4. outdated'[t] \subseteq CPUs
    BY <1>9 DEF WriteRoot, Invalidate, BasicInv, TypeOK
  <2> QED BY <2>1, <2>2, <2>3, <2>4 DEF ToldInv
<1>10. ASSUME NEW t \in Tasks, Broadcast(t) PROVE ToldInv'
  BY <1>10 DEF Broadcast, SoundInv, BasicInv, TypeOK, LockInv, Holding, ToldInv, cpuVars,
     requestVars, taskVars
<1>11. ASSUME NEW t \in Tasks, SendNext(t) PROVE ToldInv'
  <2>1. /\ ~Shared(page[t]) /\ UNCHANGED <<outdated, pc>> /\ pc[t] = "sending"
        /\ \E d \in left :
             /\ left' = left \ {d}
             /\ \/ ipi' = [ipi EXCEPT ![d] = TRUE]
                \/ ipi' = ipi /\ ~IsTarget(d, page[t])
    BY <1>11, Zenon DEF SendNext, taskVars
  <2>2. PICK d \in left :
          /\ left' = left \ {d}
          /\ \/ ipi' = [ipi EXCEPT ![d] = TRUE]
             \/ ipi' = ipi /\ ~IsTarget(d, page[t])
    BY <2>1
  <2>3. ipi' = ipi => d \notin outdated[t] \/ ipi[d]
    <3>1. d \in outdated[t] => IsTarget(d, page[t])
      BY <2>1, OutdatedIsLoaded DEF IsTarget
    <3>2. ~IsTarget(d, page[t]) \/ ipi'[d]
      BY <2>2 DEF BasicInv, TypeOK
    <3> QED BY <3>1, <3>2
  <2>4. \A u \in Tasks \ {t} : pc[u] # "sending"
    BY <2>1, OneSender DEF Holding
  <2>5. \A c \in CPUs : ipi[c] => ipi'[c]
    BY <2>2 DEF BasicInv, TypeOK
  <2>6. \A c \in outdated[t] : c \in left \/ ipi[c]
    BY <2>1 DEF SoundInv, ToldInv
  <2>7. \A c \in outdated[t] : c \in left' \/ ipi'[c]
    BY <2>2, <2>3, <2>5, <2>6 DEF BasicInv, TypeOK
  <2> QED BY <2>1, <2>4, <2>7 DEF ToldInv
<1>12. ASSUME NEW t \in Tasks, Complete(t) PROVE ToldInv'
  BY <1>12 DEF Complete, Release, SoundInv, BasicInv, TypeOK, LockInv, Holding, ToldInv,
     cpuVars, requestVars, taskVars
<1>13. ASSUME NEW t \in Tasks, GiveUp(t) PROVE ToldInv'
  BY <1>13 DEF GivesUp
<1>14. ASSUME NEW t \in Tasks, CarryOn(t) PROVE ToldInv'
  BY <1>14 DEF CarryOn, SoundInv, BasicInv, TypeOK, LockInv, Holding, ToldInv, cpuVars,
     requestVars, taskVars
<1>15. ASSUME NEW c \in CPUs,
             \/ PublishRoot(c)
             \/ \E p \in Pages : Fill(c, p)
      PROVE  UNCHANGED <<outdated, ipi, left, pc>>
  BY <1>15, Zenon DEF PublishRoot, Fill, cpuVars, requestVars, taskVars
<1>16. CASE UNCHANGED vars
  BY <1>1, <1>16, Zenon DEF vars, cpuVars, requestVars, taskVars
<1> QED BY <1>1, <1>2, <1>3, <1>4, <1>5, <1>6, <1>7, <1>8, <1>9, <1>10, <1>11, <1>12,
   <1>13, <1>14, <1>15, <1>16 DEF Next, Cpu, Request

-----------------------------------------------------------------------------
(* The theorems.                                                           *)

LEMMA InitBasic == Init => BasicInv
<1> SUFFICES ASSUME Init PROVE BasicInv
  OBVIOUS
<1>1. TypeOK
  <2>1. Cardinality(CPUs) \in Nat
    BY FS_CardinalityType
  <2>2. 0 \in 0 .. Cardinality(CPUs) /\ 0 \in 0 .. GenMax
    BY <2>1
  <2> QED BY <2>2 DEF Init, TypeOK
<1>2. RoomInv
  BY CpuCounts, FS_EmptySet DEF Init, RoomInv
<1>3. LockInv /\ CacheInv /\ KnownInv /\ OutdatedInv
  BY DEF Init, LockInv, CacheInv, KnownInv, OutdatedInv, Holding
<1> QED BY <1>1, <1>2, <1>3 DEF BasicInv

LEMMA InitSound == Init => SoundInv
  BY DEF Init, SoundInv, IpisBelongToTheRequest, AckInv, SendingInv, MailInv, ToldInv

LEMMA BasicStep == BasicInv /\ [Next]_vars => BasicInv'
  BY TypeStep, LockStep, RoomStep, CacheStep, KnownStep, OutdatedStep DEF BasicInv

LEMMA SoundStep == ~GivesUp /\ BasicInv /\ SoundInv /\ [Next]_vars => SoundInv'
  BY NoFailStep, AckStep, IpiStep, SendingStep, MailStep, ToldStep DEF SoundInv

LEMMA BasicInvariance == Spec => []BasicInv
  BY InitBasic, BasicStep, PTL DEF Spec

LEMMA SoundInvariance == Spec /\ NobodyGivesUp => [](BasicInv /\ SoundInv)
<1>1. ASSUME BasicInv, UNCHANGED vars PROVE ~GivesUp
  BY <1>1 DEF GivesUp, GiveUp, BasicInv, TypeOK, vars, taskVars
<1>2. BasicInv /\ SoundInv /\ [Next]_vars /\ [~GivesUp]_vars => (BasicInv /\ SoundInv)'
  BY <1>1, BasicStep, SoundStep
<1> QED BY <1>2, InitBasic, InitSound, PTL DEF Spec, NobodyGivesUp

\* Without the limit (MayTimeOut) there is no giving up.
LEMMA GivingUpNeedsTheLimit == ASSUME ~MayTimeOut PROVE NobodyGivesUp
<1>1. ~GivesUp
  BY DEF GivesUp, GiveUp
<1> QED BY <1>1, PTL DEF NobodyGivesUp

\* The variables keep their types, timeouts or not: a generation never leaves
\* 0 .. GenMax and no request expects more answers than there are CPUs.
THEOREM TypeCorrect == Spec => []TypeOK
<1>1. BasicInv => TypeOK
  BY DEF BasicInv
<1> QED BY <1>1, BasicInvariance, PTL

\* Timeouts or not, TLB_SHOOTDOWN_CPU_ROOT never hides a CPU that holds a
\* translation of a private page: what the requester reads there is NoRoot, or
\* the CPU's CR3, or the CPU is inside the scheduler with a flushed TLB.
THEOREM RootsAreKnown == Spec => []KnownInv
<1>1. BasicInv => KnownInv
  BY DEF BasicInv
<1> QED BY <1>1, BasicInvariance, PTL

\* Until a request gives up every pending interrupt is the lock holder's, so
\* the handler of vector 0x45 reads a mailbox that nobody is writing.
THEOREM IpisAreOfTheRequest == Spec /\ NobodyGivesUp => []IpisBelongToTheRequest
<1>1. SoundInv => IpisBelongToTheRequest
  BY DEF SoundInv
<1> QED BY <1>1, SoundInvariance, PTL

\* Until a request gives up tlb_shootdown_page returns true only when no TLB
\* holds a translation older than the change: the frame may be reused.
THEOREM RequestsCompleteCoherent == Spec /\ NobodyGivesUp => CompletesCoherent
<1>1. ASSUME BasicInv, SoundInv, [Next]_vars, NEW t \in Tasks,
             pc[t] = "sending", pc'[t] = "idle"
      PROVE  outdated[t] = {}
  <2>1. Complete(t)
    <3>1. ASSUME NEW c \in CPUs, Cpu(c) PROVE FALSE
      <4>1. pc' = pc
        BY <3>1, Zenon DEF Cpu, Load, PublishRoot, Fill, HandleIpi, taskVars
      <4> QED BY <1>1, <4>1
    <3>2. ASSUME NEW u \in Tasks, Request(u), u # t \/ ~Complete(u) PROVE FALSE
      <4>1. CASE Complete(u)
        BY <1>1, <3>2, <4>1 DEF Complete, BasicInv, TypeOK
      <4>2. CASE CarryOn(u)
        BY <1>1, <4>2 DEF CarryOn, SoundInv
      <4>3. CASE ~Complete(u) /\ ~CarryOn(u)
        <5>1. \/ pc' = pc
              \/ \E st \in {"changed", "locked", "numbered", "addressed", "sending", "failed"} :
                   pc' = [pc EXCEPT ![u] = st]
          BY <3>2, <4>3 DEF Request, ChangePrivate, ChangeShared, Change, Lock, Number,
             WriteAddress, WriteRoot, Broadcast, SendNext, GiveUp, taskVars
        <5> QED BY <1>1, <5>1 DEF BasicInv, TypeOK
      <4> QED BY <4>1, <4>2, <4>3
    <3>3. CASE UNCHANGED vars
      BY <1>1, <3>3 DEF vars, taskVars
    <3> QED BY <1>1, <3>1, <3>2, <3>3 DEF Next
  <2>2. \A d \in CPUs : ~ipi[d]
    BY <1>1, <2>1, AllAnswered
  <2>3. left = {}
    BY <2>1 DEF Complete
  <2>4. outdated[t] \subseteq CPUs /\ \A c \in outdated[t] : c \in left \/ ipi[c]
    BY <1>1 DEF BasicInv, TypeOK, SoundInv, ToldInv
  <2> QED BY <2>2, <2>3, <2>4
<1>2. BasicInv /\ SoundInv /\ [Next]_vars =>
        [\A t \in Tasks : pc[t] = "sending" /\ pc'[t] = "idle" => outdated[t] = {}]_vars
  BY <1>1
<1> QED BY <1>2, SoundInvariance, PTL DEF Spec, CompletesCoherent

=============================================================================
