--------------------------- MODULE MCTimedObjects ---------------------------
(* Instances of TimedObjects for TLC. *)
EXTENDS TimedObjects

CONSTANTS delay, pipe, controller, m1, m2, m3

MCObjects == {delay, pipe, controller}
MCTrackers == {delay, pipe}
MCTimedOutlet == [o \in MCTrackers |-> IF o = delay THEN 0 ELSE 1]
MCMessages == {m1, m2, m3}
MCDirectTimes == {-1, 0, 2}
=============================================================================
