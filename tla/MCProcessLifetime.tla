---- MODULE MCProcessLifetime ----
(***************************************************************************)
(* Constants for the model checking of ProcessLifetime.                    *)
(***************************************************************************)
EXTENDS ProcessLifetime, TLC

CONSTANTS r1, r2, f1, f2, t1, t2, k1, k2, a1

Symmetry == Permutations({r1, r2}) \cup Permutations({f1, f2}) \cup Permutations({t1, t2})
            \cup Permutations({k1, k2})
====
