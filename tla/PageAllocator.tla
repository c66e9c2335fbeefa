---------------------------- MODULE PageAllocator ----------------------------
(***************************************************************************)
(* What the physical memory manager promises its callers: it hands out     *)
(* runs of adjacent free pages, takes back only pages that are out, and    *)
(* refuses a plain request only when it has no run for it.  A refusal      *)
(* changes nothing.                                                        *)
(***************************************************************************)
EXTENDS Naturals, FiniteSets

CONSTANT Counts  \* the numbers of pages that calls ask for

VARIABLES free,  \* the pages that are in
          out,   \* the pages that are out
          call   \* the last call: what it asked for and the pages it moved

Run(b, n) == b .. b + n - 1
\* A call of kind k for n pages that moved the pages of `run`.
Call(k, n, run) == [kind |-> k, count |-> n, pages |-> run]
NO_CALL == Call("none", 0, {})
Requests == {"alloc", "aligned", "constrained"}

Init == free = {} /\ out = {} /\ call = NO_CALL

\* Activation puts some memory in, once nothing is in or out.
Open == free = {} /\ out = {} /\ UNCHANGED <<out, call>>
\* One that fails takes it all away again.
Close == free' = {} /\ out' = {} /\ call' = NO_CALL

Grant(k, n) ==
  \E b \in free :
    /\ Run(b, n) \subseteq free
    /\ free' = free \ Run(b, n) /\ out' = out \cup Run(b, n)
    /\ call' = Call(k, n, Run(b, n))

Return(n) ==
  \E b \in out :
    /\ Run(b, n) \subseteq out
    /\ free' = free \cup Run(b, n) /\ out' = out \ Run(b, n)
    /\ call' = Call("free", n, Run(b, n))

\* Only a plain request must have a reason to be refused.
Refuse(k, n) ==
  /\ k = "alloc" => ~\E b \in free : Run(b, n) \subseteq free
  /\ call' = Call(k, n, {})
  /\ UNCHANGED <<free, out>>

Next ==
  \/ Open \/ Close
  \/ \E n \in Counts :
       \/ Return(n) \/ Refuse("free", n)
       \/ \E k \in Requests : Grant(k, n) \/ Refuse(k, n)

Spec == Init /\ [][Next]_<<free, out, call>>
=============================================================================
