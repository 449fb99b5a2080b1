---------------------------- MODULE MCTimedPatch ----------------------------
(* Patches of one kind of object, two of them where they can get in each     *)
(* other's way, and of two kinds.                                            *)
EXTENDS TimedPatch

CONSTANTS d1, k1, l1, p1, p2, t1, a1, a2, controller, m1, m2, m3, m4

MCDelayObjects == {d1}
MCMetros == {k1}
MCLines == {l1}
MCPipes == {p1, p2}
MCPlayers == {t1}
MCTables == {a1, a2}
MCObjects == {d1, k1, l1, p1, p2, t1, controller}
MCPatches == {{d1, k1}, {l1}, {d1, p1}, {p1, p2}, {t1}}
MCMessages == {m1, m2, m3, m4}
MCSymmetry == Permutations(MCMessages) \cup Permutations(MCTables)
MCDirectTimes == {1}
MCPlayDurations == {-1, 0, 2}
=============================================================================
