--------------------------- MODULE ContextHandoff ---------------------------
(***************************************************************************)
(* What the scheduler promises about execution contexts (kernel stacks),   *)
(* with no slots, states, affinities or locks: a CPU moves from one        *)
(* context to another in two phases and nobody else touches either of them *)
(* in between; a context is recycled only while no CPU is in it or on its  *)
(* way into or out of it.                                                  *)
(***************************************************************************)
CONSTANTS CPU,        \* the processors
          Context,    \* the stacks
          Start(_)    \* the context each CPU starts in

VARIABLES at,    \* the context each CPU executes in
          to,    \* the context it is moving to, at[c] when it is not moving
          live   \* the contexts of existing threads

handoffVars == <<at, to, live>>

Init ==
  /\ at = [c \in CPU |-> Start(c)]
  /\ to = at
  /\ live \subseteq Context /\ \A c \in CPU : Start(c) \in live

Untouched(x, Cs) == \A c \in Cs : x \notin {at[c], to[c]}

Begin(c, x) ==
  /\ to[c] = at[c] /\ x \in live
  /\ Untouched(x, CPU \ {c})
  /\ to' = [to EXCEPT ![c] = x]
  /\ UNCHANGED <<at, live>>

Finish(c) ==
  /\ at' = [at EXCEPT ![c] = to[c]]
  /\ UNCHANGED <<to, live>>

Publish(x) ==
  /\ x \in Context \ live
  /\ live' = live \cup {x}
  /\ UNCHANGED <<at, to>>

Retire(x) ==
  /\ x \in live /\ Untouched(x, CPU)
  /\ live' = live \ {x}
  /\ UNCHANGED <<at, to>>

Next ==
  \/ \E c \in CPU, x \in Context : Begin(c, x)
  \/ \E c \in CPU : Finish(c)
  \/ \E x \in Context : Publish(x) \/ Retire(x)

Spec == Init /\ [][Next]_handoffVars
=============================================================================
