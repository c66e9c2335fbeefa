---- MODULE MCStackCache ----
EXTENDS StackCache

CONSTANTS s1, s2, s3

TwoSizes == [s \in {s1, s2, s3} |-> IF s = s3 THEN 2 ELSE 1]
====
