---- MODULE TlbShootdown ----
(***************************************************************************)
(* The TLB shootdown of memory/tlb_shootdown.sotlas: a task changes a page *)
(* table entry, publishes the page under the shootdown lock, interrupts    *)
(* the CPUs that may hold the old translation and waits until as many CPUs *)
(* acknowledged the request's generation.                                  *)
(*                                                                         *)
(* Requests are made by tasks, which migrate between CPUs while interrupts *)
(* are enabled.  A page is an address together with the root it belongs    *)
(* to; RootOf[p] = NoRoot (the code's 0) is a page every root shares.      *)
(* Changes of private pages come from process/registry.sotlas, which has   *)
(* released its lock before the shootdown; changes of shared pages come    *)
(* from active_page_tables.sotlas, which keeps its lock and IF=0.          *)
(*                                                                         *)
(* All CPUs are in the active set: the model starts after                  *)
(* smp_release_aps_for_scheduler returned true.                            *)
(***************************************************************************)
EXTENDS Integers, FiniteSets

CONSTANTS
  CPUs,             \* CPU slots
  Tasks,            \* the threads that change page tables
  Pages,
  Roots,            \* CR3 values
  NoRoot,           \* the code's root 0: shared page, or unknown CR3
  RootOf,           \* the root a page belongs to
  PagesOf,          \* the pages a task changes
  KernelRoot,       \* the CR3 every CPU starts with
  GenMax,           \* the largest generation (2^32 - 1 in the code)
  MayTimeOut,       \* BOOLEAN: TLB_SHOOTDOWN_SPIN_LIMIT can be reached
  None              \* no task, no CPU

ASSUME TlbAssumption ==
  /\ CPUs \subseteq Nat
  /\ IsFiniteSet(CPUs)
  /\ KernelRoot \in Roots
  /\ NoRoot \notin Roots
  /\ RootOf \in [Pages -> Roots \cup {NoRoot}]
  /\ PagesOf \in [Tasks -> SUBSET Pages]
  /\ GenMax \in Nat \ {0}
  /\ MayTimeOut \in BOOLEAN
  /\ None \notin CPUs \cup Tasks

VARIABLES
  cr3,        \* [CPUs -> Roots]
  known,      \* TLB_SHOOTDOWN_CPU_ROOT
  loading,    \* CPUs inside the scheduler: CR3 written, not yet published
  cached,     \* [CPUs -> SUBSET Pages]: the translations in each TLB
  ipi,        \* [CPUs -> BOOLEAN]: vector 0x45 pending
  ack,        \* TLB_SHOOTDOWN_ACK
  lock,       \* the task holding TLB_SHOOTDOWN_LOCK
  tableLock,  \* the task holding ACTIVE_PAGE_TABLE_LOCK
  gen,        \* TLB_SHOOTDOWN_GENERATION
  mailbox,    \* TLB_SHOOTDOWN_ADDRESS_* and TLB_SHOOTDOWN_ROOT_*
  left,       \* the slots the lock holder has not looked at yet
  expected,   \* the acknowledgements it waits for
  pc, at, page, \* per task: where it is, its CPU while IF=0, its page
  outdated    \* per task: the CPUs whose entry is older than its change

cpuVars == <<cr3, known, loading, cached, ipi, ack>>
requestVars == <<gen, mailbox, left, expected>>
taskVars == <<pc, at, page, outdated>>
vars == <<cpuVars, lock, tableLock, requestVars, taskVars>>

Shared(p) == RootOf[p] = NoRoot

TypeOK ==
  /\ cr3 \in [CPUs -> Roots]
  /\ known \in [CPUs -> Roots \cup {NoRoot}]
  /\ loading \subseteq CPUs
  /\ cached \in [CPUs -> SUBSET Pages]
  /\ ipi \in [CPUs -> BOOLEAN]
  /\ ack \in [CPUs -> 0..GenMax]
  /\ lock \in Tasks \cup {None}
  /\ tableLock \in Tasks \cup {None}
  /\ gen \in 0..GenMax
  /\ mailbox \in [page : Pages \cup {None}, root : Roots \cup {NoRoot}]
  /\ left \subseteq CPUs
  /\ expected \in 0..Cardinality(CPUs)
  /\ pc \in [Tasks -> {"idle", "changed", "locked", "numbered", "addressed",
                       "sending", "failed"}]
  /\ at \in [Tasks -> CPUs \cup {None}]
  /\ page \in [Tasks -> Pages \cup {None}]
  /\ outdated \in [Tasks -> SUBSET CPUs]

Init ==
  /\ cr3 = [c \in CPUs |-> KernelRoot]
  /\ known = [c \in CPUs |-> NoRoot]
  /\ loading = {}
  /\ cached = [c \in CPUs |-> {}]
  /\ ipi = [c \in CPUs |-> FALSE]
  /\ ack = [c \in CPUs |-> 0]
  /\ lock = None
  /\ tableLock = None
  /\ gen = 0
  /\ mailbox = [page |-> None, root |-> NoRoot]
  /\ left = {}
  /\ expected = 0
  /\ pc = [t \in Tasks |-> "idle"]
  /\ at = [t \in Tasks |-> None]
  /\ page = [t \in Tasks |-> None]
  /\ outdated = [t \in Tasks |-> {}]

\* Interrupts are enabled on c.
Open(c) == c \notin loading /\ \A t \in Tasks : at[t] # c

\* TLBs without p on the CPUs of D, and what the requests then still miss.
Invalidate(D, p) ==
  /\ cached' = [c \in CPUs |-> cached[c] \ (IF c \in D THEN {p} ELSE {})]
  /\ outdated' = [t \in Tasks |-> outdated[t] \ (IF page[t] = p THEN D ELSE {})]

--------------------------------------------------------------------------
(* The CPUs: the scheduler, the MMU and the interrupt handler *)

\* scheduler_select_slot and scheduler_initialize write CR3 only if it differs;
\* the write drops every non-global translation.  The root is published when
\* the scheduler is done, still with IF=0.
Load(c, r) ==
  /\ Open(c)
  /\ cr3' = [cr3 EXCEPT ![c] = r]
  /\ loading' = loading \cup {c}
  /\ IF r = cr3[c] THEN UNCHANGED <<cached, outdated>>
     ELSE /\ cached' = [cached EXCEPT ![c] = {}]
          /\ outdated' = [t \in Tasks |-> outdated[t] \ {c}]
  /\ UNCHANGED <<known, ipi, ack, lock, tableLock, requestVars, pc, at, page>>

PublishRoot(c) ==
  /\ c \in loading
  /\ known' = [known EXCEPT ![c] = cr3[c]]
  /\ loading' = loading \ {c}
  /\ UNCHANGED <<cr3, cached, ipi, ack, lock, tableLock, requestVars, taskVars>>

\* The MMU caches the current entry of a page the CPU uses.  Inside the
\* scheduler no private page is used; speculative walks are left out.
Fill(c, p) ==
  /\ p \notin cached[c]
  /\ Shared(p) \/ (RootOf[p] = cr3[c] /\ c \notin loading)
  /\ cached' = [cached EXCEPT ![c] = @ \cup {p}]
  /\ UNCHANGED <<cr3, known, loading, ipi, ack, lock, tableLock, requestVars, taskVars>>

\* tlb_shootdown_handle_ipi, one step: without a timeout nobody writes the
\* mailbox while an IPI is pending (IpisBelongToTheRequest).
FaultyHandled(c) == mailbox.root = cr3[c]
Handled(c) == mailbox.root \in {NoRoot, cr3[c]}

HandleIpi(c) ==
  /\ ipi[c]
  /\ Open(c)
  /\ ipi' = [ipi EXCEPT ![c] = FALSE]
  /\ known' = [known EXCEPT ![c] = cr3[c]]
  /\ IF Handled(c) THEN Invalidate({c}, mailbox.page) ELSE UNCHANGED <<cached, outdated>>
  /\ ack' = [ack EXCEPT ![c] = gen]
  /\ UNCHANGED <<cr3, loading, lock, tableLock, requestVars, pc, at, page>>

--------------------------------------------------------------------------
(* The requests *)

Change(t, p) ==
  /\ pc[t] = "idle"
  /\ pc' = [pc EXCEPT ![t] = "changed"]
  /\ page' = [page EXCEPT ![t] = p]
  /\ outdated' = [outdated EXCEPT ![t] = {c \in CPUs : p \in cached[c]}]
  /\ UNCHANGED <<cpuVars, lock, requestVars>>

\* process_map/remap/unmap_user_page: the entry is written under the registry
\* lock, which is released, and IF=1 again, before the shootdown.
ChangePrivate(t, p) ==
  /\ ~Shared(p)
  /\ \E c \in CPUs : Open(c)
  /\ Change(t, p)
  /\ UNCHANGED <<tableLock, at>>

\* active_runtime_map/remap/unmap: IF=0 from here to the end of the request.
ChangeShared(t, p, c) ==
  /\ Shared(p)
  /\ tableLock = None
  /\ Open(c)
  /\ Change(t, p)
  /\ tableLock' = t
  /\ at' = [at EXCEPT ![t] = c]

\* tlb_shootdown_lock_irq restores the caller's IF between its tries.
Lock(t, c) ==
  /\ pc[t] = "changed"
  /\ lock = None
  /\ \/ at[t] = c
     \/ at[t] = None /\ Open(c)
  /\ lock' = t
  /\ at' = [at EXCEPT ![t] = c]
  /\ pc' = [pc EXCEPT ![t] = "locked"]
  /\ UNCHANGED <<cpuVars, tableLock, requestVars, page, outdated>>

\* tlb_shootdown_next_generation: 0 is skipped, and on a wrap all
\* acknowledgements are reset.
FaultyNextGeneration ==
  /\ gen' = (gen % GenMax) + 1
  /\ UNCHANGED ack
NextGeneration ==
  IF gen = GenMax
  THEN /\ gen' = 1
       /\ ack' = [c \in CPUs |-> 0]
  ELSE /\ gen' = gen + 1
       /\ UNCHANGED ack

Number(t) ==
  /\ pc[t] = "locked"
  /\ NextGeneration
  /\ pc' = [pc EXCEPT ![t] = "numbered"]
  /\ UNCHANGED <<cr3, known, loading, cached, ipi, lock, tableLock, mailbox, left,
                 expected, at, page, outdated>>

WriteAddress(t) ==
  /\ pc[t] = "numbered"
  /\ mailbox' = [mailbox EXCEPT !.page = page[t]]
  /\ pc' = [pc EXCEPT ![t] = "addressed"]
  /\ UNCHANGED <<cpuVars, lock, tableLock, gen, left, expected, at, page, outdated>>

\* The rest of tlb_shootdown_publish, the requester's own INVLPG and its own
\* entry of the root table, which only lock holders read.
WriteRoot(t) ==
  LET c == at[t] IN
  /\ pc[t] = "addressed"
  /\ mailbox' = [mailbox EXCEPT !.root = RootOf[page[t]]]
  /\ known' = [known EXCEPT ![c] = cr3[c]]
  /\ IF Shared(page[t]) \/ cr3[c] = RootOf[page[t]]
     THEN Invalidate({c}, page[t]) ELSE UNCHANGED <<cached, outdated>>
  /\ left' = CPUs \ {c}
  /\ expected' = 0
  /\ pc' = [pc EXCEPT ![t] = "sending"]
  /\ UNCHANGED <<cr3, loading, ipi, ack, lock, tableLock, gen, at, page>>

\* A shared page: the shorthand "all excluding self" and active_count - 1.
Broadcast(t) ==
  /\ pc[t] = "sending"
  /\ left # {}
  /\ Shared(page[t])
  /\ ipi' = [c \in CPUs |-> ipi[c] \/ c \in left]
  /\ left' = {}
  /\ expected' = Cardinality(CPUs) - 1
  /\ UNCHANGED <<cr3, known, loading, cached, ack, lock, tableLock, gen, mailbox, taskVars>>

\* A private page: tlb_shootdown_send_address_space_targets, slot by slot.
IsTarget(d, p) == known[d] \in {NoRoot, RootOf[p]}

SendNext(t) ==
  /\ pc[t] = "sending"
  /\ ~Shared(page[t])
  /\ \E d \in left :
       /\ \A e \in left : d <= e
       /\ left' = left \ {d}
       /\ IF IsTarget(d, page[t])
          THEN /\ ipi' = [ipi EXCEPT ![d] = TRUE]
               /\ expected' = expected + 1
          ELSE UNCHANGED <<ipi, expected>>
  /\ UNCHANGED <<cr3, known, loading, cached, ack, lock, tableLock, gen, mailbox, taskVars>>

\* tlb_shootdown_wait_ack: nobody was asked, or as many active CPUs, targeted or
\* not, show the generation as were asked.
Matched(c) == expected \in {0, Cardinality({d \in CPUs \ {c} : ack[d] = gen})}

\* Both locks are released and IF restored.
FaultyRelease(t) ==
  /\ lock' = lock
  /\ tableLock' = IF tableLock = t THEN None ELSE tableLock
  /\ at' = [at EXCEPT ![t] = None]
Release(t) ==
  /\ lock' = None
  /\ tableLock' = IF tableLock = t THEN None ELSE tableLock
  /\ at' = [at EXCEPT ![t] = None]

Complete(t) ==
  /\ pc[t] = "sending"
  /\ left = {}
  /\ Matched(at[t])
  /\ Release(t)
  /\ pc' = [pc EXCEPT ![t] = "idle"]
  /\ page' = [page EXCEPT ![t] = None]
  /\ outdated' = [outdated EXCEPT ![t] = {}]
  /\ UNCHANGED <<cpuVars, requestVars>>

\* The spin limit, or an ICR that stays busy: the request returns false.
GiveUp(t) ==
  /\ MayTimeOut
  /\ pc[t] = "sending"
  /\ left # {} \/ ~Matched(at[t])
  /\ Release(t)
  /\ pc' = [pc EXCEPT ![t] = "failed"]
  /\ outdated' = [outdated EXCEPT ![t] = {}]
  /\ UNCHANGED <<cpuVars, requestVars, page>>

\* active_runtime_* hand the false to their caller, which goes on; the
\* process registry stops its thread for ever in that case.
CarryOn(t) ==
  /\ pc[t] = "failed"
  /\ Shared(page[t])
  /\ pc' = [pc EXCEPT ![t] = "idle"]
  /\ page' = [page EXCEPT ![t] = None]
  /\ UNCHANGED <<cpuVars, lock, tableLock, requestVars, at, outdated>>

--------------------------------------------------------------------------
Cpu(c) ==
  \/ \E r \in Roots : Load(c, r)
  \/ PublishRoot(c)
  \/ \E p \in Pages : Fill(c, p)
  \/ HandleIpi(c)

Request(t) ==
  \/ \E p \in PagesOf[t] : ChangePrivate(t, p)
  \/ \E p \in PagesOf[t], c \in CPUs : ChangeShared(t, p, c)
  \/ \E c \in CPUs : Lock(t, c)
  \/ Number(t)
  \/ WriteAddress(t)
  \/ WriteRoot(t)
  \/ Broadcast(t)
  \/ SendNext(t)
  \/ Complete(t)
  \/ GiveUp(t)
  \/ CarryOn(t)

Next == (\E c \in CPUs : Cpu(c)) \/ (\E t \in Tasks : Request(t))

Spec == Init /\ [][Next]_vars

\* A CPU leaves the scheduler and takes a pending interrupt when it can; the
\* scheduler may keep disabling interrupts, so the handler needs SF.  The
\* holder's steps need only its own CPU.  The lock is an unfair exchange, and
\* a waiting task is assumed to win it eventually (SF).
Fairness ==
  /\ \A c \in CPUs : WF_vars(PublishRoot(c)) /\ SF_vars(HandleIpi(c))
  /\ \A t \in Tasks :
       /\ SF_vars(\E c \in CPUs : Lock(t, c))
       /\ WF_vars(Number(t) \/ WriteAddress(t) \/ WriteRoot(t) \/ Broadcast(t)
                  \/ SendNext(t) \/ Complete(t) \/ GiveUp(t))

FairSpec == Spec /\ Fairness

--------------------------------------------------------------------------
(* Properties *)

\* When a request returns true no TLB holds a translation older than its
\* change: the frame may be reused (tlb_shootdown_page's last line).
CompletesCoherent ==
  [][\A t \in Tasks : pc[t] = "sending" /\ pc'[t] = "idle" => outdated[t] = {}]_vars

\* A pending shootdown interrupt belongs to the request that holds the lock
\* and is still waiting, so the handler reads a mailbox nobody is writing
\* and acknowledges the page it invalidated (irq.sotlas, vector 0x45).
IpisBelongToTheRequest ==
  \A c \in CPUs : ipi[c] => lock # None /\ pc[lock] = "sending" /\ c # at[lock]

\* Every request that changed an entry comes to an end: it gets the lock and
\* its acknowledgements, or runs into the spin limit and gives the lock back.
RequestsEnd == \A t \in Tasks : pc[t] = "changed" ~> pc[t] \in {"idle", "failed"}

====
