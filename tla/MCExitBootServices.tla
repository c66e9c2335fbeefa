------------------------ MODULE MCExitBootServices ------------------------
(* Model values for ExitBootServices, and the exhaustive check of the       *)
(* lookup its callback uses: a word of four pages, and page counts whose    *)
(* byte count fits, just wraps to 0, and wraps past it.                     *)
EXTENDS ExitBootServices, FinalMapLookup
MCKeys == 1 .. 4
MCBuffers == 1 .. 2

PageStarts == {n \in Words : n % Page = 0}
SmallDescriptors ==
  [physical : PageStarts, virtual : PageStarts, pages : {0, 1, 2, 4, 5}]
SmallMaps == UNION {[1 .. n -> SmallDescriptors] : n \in 0 .. 2}

\* The lookup agrees with the map on every small map and address.
ASSUME LookupAgreesWithTheMap ==
  \A map \in SmallMaps, a \in Words :
    AnswerIsInTheMap(map, a) /\ ZeroMeansAbsent(map, a)
=============================================================================
