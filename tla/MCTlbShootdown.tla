---- MODULE MCTlbShootdown ----
EXTENDS TlbShootdown

CONSTANTS k, r, p1, s1, t1, t2

MixedPages == [p \in {p1, s1} |-> IF p = s1 THEN NoRoot ELSE r]

AnyPage == [t \in Tasks |-> Pages]
OneEach == [t \in {t1, t2} |-> IF t = t1 THEN {p1} ELSE {s1}]
====
