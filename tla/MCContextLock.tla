---------------------------- MODULE MCContextLock ----------------------------
(* Two graphs, of one control thread each. *)
EXTENDS ContextLock

CONSTANTS c1, c2, g1, g2

MCControls == {c1, c2}
MCGraphs == {g1, g2}
MCOwnerOf == [g \in MCGraphs |-> IF g = g1 THEN c1 ELSE c2]
=============================================================================
