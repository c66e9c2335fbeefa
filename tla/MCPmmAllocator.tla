--------------------------- MODULE MCPmmAllocator ---------------------------
(* Inventories: a region across the low-memory limit, one of a single page  *)
(* and one longer than its bitmap; memory with room for one run of two      *)
(* pages; memory with no region to track.                                   *)
EXTENDS PmmAllocator
Conv(b, n) == [base |-> b, size |-> n]
MCInventories == { <<Conv(1, 5), Conv(7, 1), Conv(9, 6)>>,
                   <<Conv(2, 4), Conv(0, 2), Conv(9, 2)>>,
                   <<Conv(0, 2), Conv(7, 1), Conv(9, 1)>> }
MCConstraints == {[align |-> 2, max |-> 11, boundary |-> 4]}
=============================================================================
