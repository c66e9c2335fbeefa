---------------------------- MODULE MCSmpBringup ----------------------------
(* Topologies for SmpBringup: APs with the id 0, which an empty entry of the *)
(* tables has too, in different places, an AP named twice, and no AP.        *)
EXTENDS SmpBringup
MCApIds == {0, 2, 3}
MCTopologies == {<<>>, <<2, 0, 3>>, <<0, 3>>, <<3, 3>>}
=============================================================================
