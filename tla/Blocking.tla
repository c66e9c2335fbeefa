------------------------------ MODULE Blocking ------------------------------
(***************************************************************************)
(* Threads that block: the deadline table of kernel/src/scheduler/         *)
(* sleep.sotlas and the ring of kernel/src/scheduler/wait_queue.sotlas.    *)
(*                                                                         *)
(* Both are protected by IF=0 on the BSP and by nothing else; their        *)
(* contract is that only threads pinned to the BSP use them.  A call up to *)
(* its `sti; int 0x43` is one step, and so is the switch it ends in.  The  *)
(* scan of the deadline table in the timer interrupt is one step per slot  *)
(* and two where it wakes, since scheduler_wake_thread publishes READY to  *)
(* all CPUs before the slot is cleared.  Which thread runs is the business *)
(* of module Scheduler: here any READY thread may be dispatched.           *)
(*                                                                         *)
(* Operators whose name starts with Faulty are plausible defects of the    *)
(* definition that follows them; no action uses them.                      *)
(***************************************************************************)
EXTENDS Integers, Sequences, FiniteSets

CONSTANTS NumCPUs,     \* processors, the BSP is CPU 0
          NumThreads,  \* threads that may block, boot (id 0) among them
          QueueCap,    \* KERNEL_WAIT_QUEUE_CAPACITY
          SleepCap,    \* SCHEDULER_SLEEP_CAPACITY
          Durations,   \* arguments of scheduler_sleep_ticks
          MaxTick      \* SCHEDULER_SLEEP_MAX_TICK, also where the clock stops

ASSUME NumCPUsAssumption    == NumCPUs \in Nat \ {0}
ASSUME NumThreadsAssumption == NumThreads \in Nat \ {0}
ASSUME QueueCapAssumption   == QueueCap \in Nat \ {0}
ASSUME SleepCapAssumption   == SleepCap \in Nat
ASSUME DurationsAssumption  == Durations \subseteq Nat \ {0}
ASSUME MaxTickAssumption    == MaxTick \in Nat

CPUs == 0 .. NumCPUs - 1
BSP == 0
Threads == 0 .. NumThreads - 1
NONE == -1
SleepSlots == 0 .. SleepCap - 1
Positions == 0 .. QueueCap - 1

VARIABLES
  state,    \* SCHEDULER_THREADS[].state of each thread
  run,      \* the thread each CPU executes, NONE for an idle thread or runtime
  ring,     \* KernelWaitQueue.thread_ids (0 is also the boot thread's id)
  head,     \* KernelWaitQueue.head
  tail,     \* KernelWaitQueue.tail
  count,    \* KernelWaitQueue.count
  sleeper,  \* SCHEDULER_SLEEP_THREAD_IDS where SCHEDULER_SLEEP_ACTIVE, else NONE
  wakeTick, \* SCHEDULER_SLEEP_WAKE_TICKS
  tick,     \* SCHEDULER_SLEEP_CURRENT_TICK
  scan,     \* the slot the timer interrupt of the BSP looks at, NONE outside it
  woken,    \* that slot's thread was made READY, the slot is not cleared yet
  pc,       \* where each thread is in the blocking calls
  deadline, \* local wake_tick of scheduler_sleep_ticks
  result    \* what the last scheduler_sleep_ticks of each thread returned

queueVars == <<ring, head, tail, count>>
sleepVars == <<sleeper, wakeTick>>
timerVars == <<tick, scan, woken>>
callVars == <<pc, deadline, result>>
vars == <<state, run, queueVars, sleepVars, timerVars, callVars>>

TypeOK ==
  /\ state \in [Threads -> {"ready", "running", "blocked"}]
  /\ run \in [CPUs -> Threads \cup {NONE}]
  /\ ring \in [Positions -> Threads]
  /\ head \in Positions /\ tail \in Positions /\ count \in 0 .. QueueCap
  /\ sleeper \in [SleepSlots -> Threads \cup {NONE}]
  /\ wakeTick \in [SleepSlots -> 0 .. MaxTick]
  /\ tick \in 0 .. MaxTick
  /\ scan \in SleepSlots \cup {NONE}
  /\ woken \in BOOLEAN
  /\ pc \in [Threads -> {"code", "waiting", "asleep"}]
  /\ deadline \in [Threads -> 0 .. MaxTick]
  /\ result \in [Threads -> {"none", "true", "false"}]

Init ==
  /\ state = [t \in Threads |-> IF t = 0 THEN "running" ELSE "ready"]
  /\ run = [c \in CPUs |-> IF c = BSP THEN 0 ELSE NONE]
  /\ ring = [p \in Positions |-> 0]
  /\ head = 0 /\ tail = 0 /\ count = 0
  /\ sleeper = [k \in SleepSlots |-> NONE]
  /\ wakeTick = [k \in SleepSlots |-> 0]
  /\ tick = 0 /\ scan = NONE /\ woken = FALSE
  /\ pc = [t \in Threads |-> "code"]
  /\ deadline = [t \in Threads |-> 0]
  /\ result = [t \in Threads |-> "none"]

\* CPU c executes the code of thread t (the BSP is not in its timer interrupt).
Executes(c, t) == run[c] = t /\ t # NONE /\ (c = BSP => scan = NONE)

\* Blocking on c: block_current and the switch away, in one interrupt.
BlockOn(c, t) ==
  /\ state' = [state EXCEPT ![t] = "blocked"]
  /\ run' = [run EXCEPT ![c] = NONE]
-----------------------------------------------------------------------------
(* Wait queue.                                                             *)

FaultyAdvance(p) == IF p = QueueCap - 1 THEN p ELSE p + 1
Advance(p) == (p + 1) % QueueCap

Room == count < QueueCap

\* scheduler_wait_queue_sleep.  With a full queue it returns false at once; its
\* rollback needs a block_current that refuses, which only an idle thread meets.
QueueSleep(c, t) ==
  /\ Executes(c, t) /\ pc[t] = "code" /\ Room
  /\ ring' = [ring EXCEPT ![tail] = t]
  /\ tail' = Advance(tail)
  /\ count' = count + 1
  /\ pc' = [pc EXCEPT ![t] = "waiting"]
  /\ BlockOn(c, t)
  /\ UNCHANGED <<head, sleepVars, timerVars, deadline, result>>

\* The thread was dispatched again: the call returns true.
QueueResume(c, t) ==
  /\ Executes(c, t) /\ pc[t] = "waiting"
  /\ pc' = [pc EXCEPT ![t] = "code"]
  /\ UNCHANGED <<state, run, queueVars, sleepVars, timerVars, deadline, result>>

\* The waiting ids, oldest first.
Waiting == [i \in 1 .. count |-> ring[(head + i - 1) % QueueCap]]

\* Wake-one drains ids that scheduler_wake_thread refuses until one is woken:
\* it pops n ids, the last of which is the first BLOCKED one.
Wakeable(t) == state[t] = "blocked"
FaultyPopsOfWakeOne == count
PopsOfWakeOne ==
  CHOOSE n \in 1 .. count :
    /\ \A i \in 1 .. n - 1 : ~Wakeable(Waiting[i])
    /\ n = count \/ Wakeable(Waiting[n])

\* n pops: the cells are zeroed and the BLOCKED ones of their threads wake.
Pop(n) ==
  /\ ring' = [p \in Positions |->
                IF \E i \in 0 .. n - 1 : p = (head + i) % QueueCap THEN 0 ELSE ring[p]]
  /\ head' = (head + n) % QueueCap
  /\ count' = count - n
  /\ state' = [t \in Threads |->
                 IF Wakeable(t) /\ \E i \in 1 .. n : Waiting[i] = t THEN "ready" ELSE state[t]]

WakeOne(c, t) ==
  /\ Executes(c, t) /\ pc[t] = "code" /\ count > 0
  /\ Pop(PopsOfWakeOne)
  /\ UNCHANGED <<run, tail, sleepVars, timerVars, callVars>>

WakeAll(c, t) ==
  /\ Executes(c, t) /\ pc[t] = "code" /\ count > 0
  /\ Pop(count)
  /\ UNCHANGED <<run, tail, sleepVars, timerVars, callVars>>
-----------------------------------------------------------------------------
(* Sleep.                                                                  *)

FreeSleepSlots == {k \in SleepSlots : sleeper[k] = NONE}
First(S) == CHOOSE k \in S : \A j \in S : k <= j
AsleepIn(t) == {k \in SleepSlots : sleeper[k] = t}

\* scheduler_sleep_ticks up to its switch.
SleepTicks(c, t, d) ==
  /\ Executes(c, t) /\ pc[t] = "code"
  /\ AsleepIn(t) = {} /\ d <= MaxTick - tick /\ FreeSleepSlots # {}
  /\ LET k == First(FreeSleepSlots) IN
     /\ sleeper' = [sleeper EXCEPT ![k] = t]
     /\ wakeTick' = [wakeTick EXCEPT ![k] = tick + d]
  /\ deadline' = [deadline EXCEPT ![t] = tick + d]
  /\ pc' = [pc EXCEPT ![t] = "asleep"]
  /\ result' = [result EXCEPT ![t] = "none"]
  /\ BlockOn(c, t)
  /\ UNCHANGED <<queueVars, timerVars>>

\* It refuses: the thread already sleeps, the deadline would overflow, or the
\* table is full.
SleepRefuses(c, t, d) ==
  /\ Executes(c, t) /\ pc[t] = "code"
  /\ AsleepIn(t) # {} \/ d > MaxTick - tick \/ FreeSleepSlots = {}
  /\ result' = [result EXCEPT ![t] = "false"]
  /\ UNCHANGED <<state, run, queueVars, sleepVars, timerVars, pc, deadline>>

\* After the switch back: a slot that is still there means an early wake.
SleepVerify(c, t) ==
  /\ Executes(c, t) /\ pc[t] = "asleep"
  /\ sleeper' = [k \in SleepSlots |-> IF k \in AsleepIn(t) THEN NONE ELSE sleeper[k]]
  /\ wakeTick' = [k \in SleepSlots |-> IF k \in AsleepIn(t) THEN 0 ELSE wakeTick[k]]
  /\ result' = [result EXCEPT ![t] =
                  IF AsleepIn(t) = {} /\ tick >= deadline[t] THEN "true" ELSE "false"]
  /\ pc' = [pc EXCEPT ![t] = "code"]
  /\ deadline' = [deadline EXCEPT ![t] = 0]
  /\ UNCHANGED <<state, run, queueVars, timerVars>>

\* scheduler_sleep_on_timer_tick, slot after slot.
TickBegin ==
  /\ scan = NONE /\ SleepCap > 0
  /\ tick' = IF tick < MaxTick THEN tick + 1 ELSE tick
  /\ scan' = 0
  /\ UNCHANGED <<state, run, queueVars, sleepVars, woken, callVars>>

FaultyDue(k) == tick + 1 >= wakeTick[k]
Due(k) == tick >= wakeTick[k]

WakeIsDue == sleeper[scan] # NONE /\ Due(scan) /\ Wakeable(sleeper[scan])

TickWakes ==
  /\ scan # NONE /\ ~woken /\ WakeIsDue
  /\ state' = [state EXCEPT ![sleeper[scan]] = "ready"]
  /\ woken' = TRUE
  /\ UNCHANGED <<run, queueVars, sleepVars, tick, scan, callVars>>

\* A slot is cleared only when its thread was woken; any other one is kept.
FaultyNextScan == IF scan >= SleepCap - 2 THEN NONE ELSE scan + 1
NextScan == IF scan = SleepCap - 1 THEN NONE ELSE scan + 1

TickAdvances ==
  /\ scan # NONE
  /\ woken \/ ~WakeIsDue
  /\ sleeper' = [sleeper EXCEPT ![scan] = IF woken THEN NONE ELSE @]
  /\ wakeTick' = [wakeTick EXCEPT ![scan] = IF woken THEN 0 ELSE @]
  /\ woken' = FALSE
  /\ scan' = NextScan
  /\ UNCHANGED <<state, run, queueVars, tick, callVars>>
-----------------------------------------------------------------------------
(* The scheduler, as these calls see it.                                   *)

\* The contract: threads that block are pinned to the BSP.
FaultyMayRunOn(c, t) == t # 0 \/ c = BSP
MayRunOn(c, t) == c = BSP

Dispatch(c, t) ==
  /\ run[c] = NONE /\ (c = BSP => scan = NONE)
  /\ state[t] = "ready" /\ MayRunOn(c, t)
  /\ state' = [state EXCEPT ![t] = "running"]
  /\ run' = [run EXCEPT ![c] = t]
  /\ UNCHANGED <<queueVars, sleepVars, timerVars, callVars>>

Preempt(c, t) ==
  /\ Executes(c, t)
  /\ state' = [state EXCEPT ![t] = "ready"]
  /\ run' = [run EXCEPT ![c] = NONE]
  /\ UNCHANGED <<queueVars, sleepVars, timerVars, callVars>>

Tick == TickBegin \/ TickWakes \/ TickAdvances
Returns(c, t) == QueueResume(c, t) \/ SleepVerify(c, t)
Calls(c, t) ==
  \/ QueueSleep(c, t) \/ WakeOne(c, t) \/ WakeAll(c, t)
  \/ \E d \in Durations : SleepTicks(c, t, d) \/ SleepRefuses(c, t, d)

Next == \/ Tick
        \/ \E c \in CPUs, t \in Threads :
             Calls(c, t) \/ Returns(c, t) \/ Dispatch(c, t) \/ Preempt(c, t)

Spec == Init /\ [][Next]_vars
-----------------------------------------------------------------------------
Registrations(t) ==
  {<<"queue", i>> : i \in {j \in 1 .. count : Waiting[j] = t}}
  \cup {<<"sleep", k>> : k \in AsleepIn(t) \ (IF woken THEN {scan} ELSE {})}

\* A blocked thread is registered in exactly one place that will wake it, and
\* nobody else is registered: no wakeup is lost and no stale id wakes a thread
\* from a later block.
BlockedIsRegistered ==
  \A t \in Threads :
    Cardinality(Registrations(t)) = (IF state[t] = "blocked" THEN 1 ELSE 0)

\* A call of scheduler_sleep_ticks that blocked returns true, hence neither
\* early nor because of another wakeup, however the tick interleaves.
SleepIsComplete ==
  [][\A t \in Threads : pc[t] = "asleep" /\ pc'[t] = "code" => result'[t] = "true"]_vars

\* The ring is a queue: an operation appends one id or removes ids at the front.
RingIsFifo ==
  [][\/ Waiting' = Waiting
     \/ \E t \in Threads : Waiting' = Append(Waiting, t)
     \/ \E n \in 1 .. count : Waiting' = SubSeq(Waiting, n + 1, count)]_vars

\* Wake-one wakes one thread, the longest waiting one.
WakeOneWakesOldest ==
  [][(\E c \in CPUs, t \in Threads : WakeOne(c, t)) =>
       state' = [state EXCEPT ![Waiting[1]] = "ready"]]_vars

-----------------------------------------------------------------------------
(* The BSP keeps taking timer interrupts and finishes them; each ends in    *)
(* the scheduler, which preempts and dispatches every READY thread          *)
(* (Scheduler's ReadyIsDispatched) and lets it finish the call it is in.    *)
Fairness ==
  /\ WF_vars(Tick)
  /\ SF_vars(\E t \in Threads : Preempt(BSP, t))
  /\ \A t \in Threads : SF_vars(Dispatch(BSP, t)) /\ SF_vars(Returns(BSP, t))

FairSpec == Spec /\ Fairness

\* Every sleeper returns, whatever other threads do meanwhile.
SleeperReturns == \A t \in Threads : pc[t] = "asleep" ~> pc[t] = "code"
=============================================================================
