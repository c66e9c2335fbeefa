---- MODULE StackCache ----
(***************************************************************************)
(* The cache of retired thread stacks, scheduler/stack_cache.sotlas, store *)
(* by store.  It takes no lock.  scheduler_create_kernel_thread uses it    *)
(* with interrupts enabled on the BSP; the reaper uses it inside the BSP's *)
(* timer interrupt, so it runs between any two stores of the creator and   *)
(* is itself one step.  Module Scheduler is composed with these steps.     *)
(* The specification's names start with Cache because BspTablesProofs also *)
(* extends Blocking, whose tables live under the same rule.                *)
(***************************************************************************)
EXTENDS Integers

CONSTANTS
  Stacks,    \* the stacks of all threads
  Capacity,  \* SCHEDULER_STACK_CACHE_CAPACITY
  PagesOf,   \* how many pages a stack has
  NoStack    \* address 0

ASSUME StackCacheAssumption ==
  /\ Capacity \in Nat \ {0}
  /\ PagesOf \in [Stacks -> Nat \ {0}]
  /\ NoStack \notin Stacks

VARIABLES
  bases, pages,  \* SCHEDULER_STACK_CACHE_BASES and _PAGES
  free,          \* the stacks the PMM has
  used,          \* the stacks of threads, running or terminated
  at, index, want, held  \* the creator: where it is, its index, size and stack

cacheVars == <<bases, pages, free, used, at, index, want, held>>

Entries == 0..(Capacity - 1)
Sizes == {PagesOf[s] : s \in Stacks}
Cached == {bases[e] : e \in Entries} \ {NoStack}

CacheTypeOK ==
  /\ bases \in [Entries -> Stacks \cup {NoStack}]
  /\ pages \in [Entries -> Sizes \cup {0}]
  /\ free \subseteq Stacks
  /\ used \subseteq Stacks
  /\ at \in {"idle", "scan", "clearBase", "clearPages", "reused", "allocated",
             "put", "storeBase", "storePages"}
  /\ index \in 0..Capacity
  /\ want \in Nat
  /\ held \in Stacks \cup {NoStack}

CacheInit ==
  /\ bases = [e \in Entries |-> NoStack]
  /\ pages = [e \in Entries |-> 0]
  /\ free = Stacks
  /\ used = {}
  /\ at = "idle"
  /\ index = 0
  /\ want = 0
  /\ held = NoStack

IsFirstEmpty(e) ==
  bases[e] = NoStack /\ \A d \in 0..(e - 1) : bases[d] # NoStack

Full == \A e \in Entries : bases[e] # NoStack

--------------------------------------------------------------------------
(* The creator, scheduler_create_kernel_thread_with_affinity *)

Create(n) ==
  /\ at = "idle"
  /\ at' = "scan"
  /\ index' = 0
  /\ want' = n
  /\ UNCHANGED <<bases, pages, free, used, held>>

\* One round of the loop of scheduler_stack_cache_take.  An entry with a base
\* changes only here, so its three loads are one step.
Look ==
  /\ at = "scan"
  /\ index < Capacity
  /\ IF bases[index] # NoStack /\ pages[index] = want
     THEN /\ held' = bases[index]
          /\ at' = "clearBase"
          /\ UNCHANGED index
     ELSE /\ index' = index + 1
          /\ UNCHANGED <<held, at>>
  /\ UNCHANGED <<bases, pages, free, used, want>>

ClearBase ==
  /\ at = "clearBase"
  /\ bases' = [bases EXCEPT ![index] = NoStack]
  /\ at' = "clearPages"
  /\ UNCHANGED <<pages, free, used, index, want, held>>

ClearPages ==
  /\ at = "clearPages"
  /\ pages' = [pages EXCEPT ![index] = 0]
  /\ at' = "reused"
  /\ UNCHANGED <<bases, free, used, index, want, held>>

\* The cache had none: pmm_alloc_pages, or create returns 0.
Allocate ==
  /\ at = "scan"
  /\ index = Capacity
  /\ \/ \E s \in free : PagesOf[s] = want /\ held' = s /\ free' = free \ {s}
                       /\ at' = "allocated"
     \/ at' = "idle" /\ UNCHANGED <<held, free>>
  /\ UNCHANGED <<bases, pages, used, index, want>>

Publish ==
  /\ at \in {"reused", "allocated"}
  /\ used' = used \cup {held}
  /\ held' = NoStack
  /\ at' = "idle"
  /\ UNCHANGED <<bases, pages, free, index, want>>

\* scheduler_return_unpublished_stack: a stack from the cache is put there; the
\* PMM takes back its latest allocation only (the choice here).
GiveBack ==
  /\ at \in {"reused", "allocated"}
  /\ \/ at = "allocated" /\ free' = free \cup {held} /\ held' = NoStack /\ at' = "idle"
     \/ at' = "put" /\ UNCHANGED <<free, held>>
  /\ UNCHANGED <<bases, pages, used, index, want>>

\* scheduler_stack_cache_put of the creator; its false is ignored.
PutFind ==
  /\ at = "put"
  /\ \/ /\ Full \/ held \in Cached
        /\ at' = "idle"
        /\ held' = NoStack
        /\ UNCHANGED index
     \/ /\ held \notin Cached
        /\ \E e \in Entries : IsFirstEmpty(e) /\ index' = e
        /\ at' = "storeBase"
        /\ UNCHANGED held
  /\ UNCHANGED <<bases, pages, free, used, want>>

StoreBase ==
  /\ at = "storeBase"
  /\ bases' = [bases EXCEPT ![index] = held]
  /\ at' = "storePages"
  /\ UNCHANGED <<pages, free, used, index, want, held>>

StorePages ==
  /\ at = "storePages"
  /\ pages' = [pages EXCEPT ![index] = PagesOf[held]]
  /\ held' = NoStack
  /\ at' = "idle"
  /\ UNCHANGED <<bases, free, used, index, want>>

--------------------------------------------------------------------------
(* The reaper, inside the timer interrupt of the BSP *)

PagesPut(e, s) == [pages EXCEPT ![e] = PagesOf[s]]

FaultyKept(s) == used
Kept(s) == used \ {s}

\* The PMM or else the cache takes the stack of a terminated thread; if
\* neither does, the reaper tries again at the next tick.
Reap(s) ==
  /\ s \in used
  /\ used' = Kept(s)
  /\ \/ free' = free \cup {s} /\ UNCHANGED <<bases, pages>>
     \/ /\ s \notin Cached
        /\ \E e \in Entries : /\ IsFirstEmpty(e)
                              /\ bases' = [bases EXCEPT ![e] = s]
                              /\ pages' = PagesPut(e, s)
        /\ UNCHANGED free
  /\ UNCHANGED <<at, index, want, held>>

CacheNext ==
  \/ \E n \in Sizes : Create(n)
  \/ Look
  \/ ClearBase
  \/ ClearPages
  \/ Allocate
  \/ Publish
  \/ GiveBack
  \/ PutFind
  \/ StoreBase
  \/ StorePages
  \/ \E s \in Stacks : Reap(s)

CacheSpec == CacheInit /\ [][CacheNext]_cacheVars

--------------------------------------------------------------------------
(* Properties *)

\* Whatever the reaper does between the creator's stores, no stack is in two
\* entries, or in an entry and with the PMM or a thread, or with two of them.
OneHolder ==
  /\ free \cap used = {}
  /\ Cached \cap (free \cup used) = {}
  /\ held \notin free \cup used
  /\ \A e, d \in Entries : bases[e] = bases[d] /\ bases[e] # NoStack => e = d
  /\ at \notin {"clearBase", "storePages"} => held \notin Cached

\* The inductive form of OneHolder: what the creator holds at each of its
\* stores, between which the reaper may fill any empty entry.
HeldOK ==
  /\ at \in {"idle", "scan"} <=> held = NoStack
  /\ at \in {"clearBase", "clearPages", "storeBase", "storePages"} => index \in Entries
  /\ at \in {"clearBase", "storePages"} => bases[index] = held

CacheIInv == CacheTypeOK /\ OneHolder /\ HeldOK

====
