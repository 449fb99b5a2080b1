-------------------------- MODULE MCContextRegistry --------------------------
(* Signals: two send~ of one name, of which none is removed, and one of      *)
(* another.  Lines: a catch~ with its throw~s and a delay line.  Tables: a   *)
(* table, its reader, and receivers of messages.  The second graph of the    *)
(* signals and tables comes and goes.                                        *)
EXTENDS ContextRegistry

CONSTANTS
    g1, g2, h1, h2, \* graphs
    s1, s2, s3, r1, r2, r3, c1, t1, t2, w1, d1, a1, p1, m1, m2

Signals == {s1, s2, s3, r1, r2, r3}
Lines == {c1, t1, t2, w1, d1}
Tables == {a1, p1, m1, m2}
MCObjects == Signals \cup Lines \cup Tables
MCGraphs == {g1, g2, h1, h2}
MCPatches == {Signals, Lines, Tables}

MCKindOf == [o \in Objects |->
    CASE o \in {s1, s2, s3} -> "send~"
      [] o \in {r1, r2, r3} -> "receive~"
      [] o = c1 -> "catch~"
      [] o \in {t1, t2} -> "throw~"
      [] o = w1 -> "delwrite~"
      [] o = d1 -> "delread~"
      [] o = a1 -> "table"
      [] o = p1 -> "tabread"
      [] o \in {m1, m2} -> "receive"]
MCNameOf == [o \in Objects |-> IF o \in {s3, r2, r3} THEN "b" ELSE "a"]
MCGraphOf == [o \in Objects |->
    CASE o \in {s1, s2, r1, r3, a1, m1} -> g1
      [] o \in {s3, r2, p1, m2} -> g2
      [] o \in {c1, t1, w1} -> h1
      [] o \in {t2, d1} -> h2]

\* Where it removes none of the lines and tables, what the host does to these
\* patches is among what the context can follow.
ASSUME MCAssumption ==
    Removable \cap (Lines \cup {a1}) = {} =>
        LeaversHaveCase /\ SendsThatLeaveAreAlone
=============================================================================
