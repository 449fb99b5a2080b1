----------------------------- MODULE GraphProofs -----------------------------
(***************************************************************************)
(* What holds of the graphs of a context whatever a host does with them:   *)
(* mutual exclusion by the context's lock, for any number of threads,      *)
(* graphs and nested calls (ContextLock), and the two ends of each         *)
(* connection of a graph, for any objects (Connections).                   *)
(***************************************************************************)
EXTENDS ContextLock, Connections, FiniteSetTheorems, SequenceTheorems,
        WellFoundedInduction, TLAPS

-----------------------------------------------------------------------------
(***************************************************************************)
(* The lock.                                                               *)
(***************************************************************************)

\* The calls that call others, and those about one graph.
Callers == {"process", "edit", "control", "create"}
Lasting == {"edit", "control", "create"}
AboutGraph == {"attach", "unattach", "delete", "edit", "control", "create"}

\* Only the innermost call of a thread is not in its body.  process() and the
\* calls that change the flag of a graph are made by the host, so they are the
\* outermost; and only a graph's owner is in a call about it.
WellNested(list, t) ==
    \A i \in 1 .. Len(list) :
        /\ i < Len(list) =>
               list[i].at = "body" /\ list[i].kind \in Callers
        /\ list[i].kind \in {"process", "attach", "unattach", "delete"} => i = 1
        /\ list[i].kind \in AboutGraph =>
               list[i].graph \in Graphs /\ OwnerOf[list[i].graph] = t

Nesting == \A t \in Threads : WellNested(calls[t], t)

\* The lock that nobody has has not been taken.
FreeOrTaken == contextLock.owner = NOBODY <=> contextLock.count = 0

\* The inductive invariant.
Counted == TypeOK /\ Nesting /\ FreeOrTaken /\ LockCountsCalls

-----------------------------------------------------------------------------
LEMMA LockingIsFinite ==
    ASSUME TypeOK, NEW t \in Threads
    PROVE  IsFiniteSet(Locking(t)) /\ Cardinality(Locking(t)) \in Nat
PROOF
<1>1. Len(calls[t]) \in Nat
  BY DEF TypeOK
<1>2. IsFiniteSet(1 .. Len(calls[t]))
  BY <1>1, FS_Interval
<1>3. Locking(t) \in SUBSET (1 .. Len(calls[t]))
  BY DEF Locking
<1> QED
  BY <1>2, <1>3, FS_Subset, FS_CardinalityType

\* A step that changes neither the lock nor what has taken it.
LEMMA SameCount ==
    ASSUME LockCountsCalls, contextLock' = contextLock,
           \A t \in Threads : Locking(t)' = Locking(t)
    PROVE  LockCountsCalls'
PROOF
  BY DEF LockCountsCalls

\* What has taken the lock depends on the calls and the flags only.
LEMMA LockingOfSame ==
    ASSUME NEW t, calls'[t] = calls[t],
           isAttachedToContext' = isAttachedToContext
    PROVE  Locking(t)' = Locking(t)
PROOF
  BY DEF Locking, Locks

\* The innermost call of a thread that is in one.
LEMMA CurrentCall ==
    ASSUME TypeOK, NEW t \in Threads, InCall(t)
    PROVE  /\ Len(calls[t]) \in Nat \ {0}
           /\ Current(t) = calls[t][Len(calls[t])]
           /\ Current(t) \in Calls
           /\ calls[t] \in Seq(Calls)
PROOF
  BY DEF TypeOK, InCall, Current, Last

-----------------------------------------------------------------------------
(***************************************************************************)
(* The steps.                                                              *)
(***************************************************************************)

\* The host calls.
LEMMA EnterCounted ==
    ASSUME Counted, NEW t \in Threads, NEW kind \in Kinds,
           NEW graph \in Graphs \cup {NOBODY}, Enter(t, kind, graph),
           kind \in AboutGraph => graph \in Graphs /\ OwnerOf[graph] = t
    PROVE  Counted'
PROOF
<1> DEFINE call == NewCall(kind, graph)
<1>1. /\ calls \in [Threads -> Seq(Calls)]
      /\ calls[t] = <<>>
      /\ calls' = [calls EXCEPT ![t] = <<call>>]
      /\ UNCHANGED <<contextLock, isAttachedToContext, graphList, deleted>>
  BY DEF Enter, InCall, Counted, TypeOK
<1>2. /\ call \in Calls /\ call.at = "begin" /\ call.next = 1
      /\ call.kind = kind /\ call.graph = graph
  BY LockAssumption DEF NewCall, Calls
<1> HIDE DEF call
<1>3. /\ calls'[t] = <<call>> /\ Len(calls'[t]) = 1 /\ calls'[t][1] = call
      /\ \A u \in Threads \ {t} : calls'[u] = calls[u]
  BY <1>1
<1>4. TypeOK'
  <2>1. calls' \in [Threads -> Seq(Calls)]
    BY <1>1, <1>2
  <2>2. Len(graphList) \in Nat
    BY DEF Counted, TypeOK
  <2>3. ASSUME NEW u \in Threads, NEW i \in 1 .. Len(calls'[u])
        PROVE  calls'[u][i].next <= Len(graphList) + 1
    <3>1. CASE u = t
      BY <1>2, <1>3, <2>2, <2>3, <3>1
    <3>2. CASE u # t
      BY <1>3, <2>3, <3>2 DEF Counted, TypeOK
    <3> QED
      BY <3>1, <3>2
  <2> QED
    BY <1>1, <2>1, <2>3 DEF Counted, TypeOK
<1>5. Nesting'
  <2>1. WellNested(calls'[t], t)
    <3>1. kind \in AboutGraph => graph \in Graphs /\ OwnerOf[graph] = t
      OBVIOUS
    <3> QED
      BY <1>2, <1>3, <3>1 DEF WellNested
  <2> QED
    BY <1>3, <2>1 DEF Counted, Nesting
<1>6. \A u \in Threads : Locking(u)' = Locking(u)
  <2>1. Locking(t) = {} /\ Locking(t)' = {}
    BY <1>1, <1>2, <1>3 DEF Locking
  <2> QED
    BY <1>1, <1>3, <2>1, LockingOfSame
<1> QED
  BY <1>1, <1>4, <1>5, <1>6, SameCount DEF Counted, FreeOrTaken

\* A call calls another.
LEMMA EnterNestedCounted ==
    ASSUME Counted, NEW t \in Threads, NEW kind \in {"edit", "external"},
           NEW graph \in Graphs \cup {NOBODY}, EnterNested(t, kind, graph),
           Current(t).kind \in Callers,
           kind = "edit" => graph \in Graphs /\ OwnerOf[graph] = t
    PROVE  Counted'
PROOF
<1> DEFINE call == NewCall(kind, graph)
           n == Len(calls[t])
           outer == [Current(t) EXCEPT !.nested = @ + 1]
<1>1. /\ n \in Nat \ {0}
      /\ Current(t) = calls[t][n] /\ Current(t) \in Calls
      /\ Current(t).at = "body" /\ Current(t).nested < MaxNested
      /\ calls \in [Threads -> Seq(Calls)]
      /\ UNCHANGED <<contextLock, isAttachedToContext, graphList, deleted>>
  BY CurrentCall DEF EnterNested, At, Counted, TypeOK
<1>2. /\ call \in Calls /\ call.at = "begin" /\ call.next = 1
      /\ call.kind = kind /\ call.graph = graph
  BY LockAssumption DEF NewCall, Calls, Kinds
<1>3. /\ outer \in Calls /\ outer.at = "body" /\ outer.next = Current(t).next
      /\ outer.kind = Current(t).kind /\ outer.graph = Current(t).graph
  <2> DEFINE c == Current(t)
  <2>1. c \in Calls /\ c.at = "body" /\ c.nested < MaxNested
    BY <1>1
  <2> HIDE DEF c
  <2>2. c.nested + 1 \in 0 .. MaxNested
    BY <2>1, LockAssumption DEF Calls
  <2>3. [c EXCEPT !.nested = @ + 1] \in Calls
    BY <2>1, <2>2 DEF Calls
  <2> QED
    BY <2>1, <2>3 DEF c, Calls
<1>4. calls'[t] = Append([calls[t] EXCEPT ![n] = outer], call)
  BY <1>1 DEF EnterNested
<1> HIDE DEF call, outer
<1>5. /\ calls'[t] \in Seq(Calls)
      /\ Len(calls'[t]) = n + 1
      /\ \A i \in 1 .. n + 1 :
             calls'[t][i] = IF i = n + 1 THEN call
                            ELSE IF i = n THEN outer ELSE calls[t][i]
  BY <1>1, <1>2, <1>3, <1>4
<1>6. \A u \in Threads \ {t} : calls'[u] = calls[u]
  BY <1>1 DEF EnterNested
<1>7. TypeOK'
  <2>1. calls' \in [Threads -> Seq(Calls)]
    BY <1>1, <1>5, <1>6 DEF EnterNested
  <2>2. \A i \in 1 .. n + 1 : calls'[t][i].next <= Len(graphList) + 1
    <3>1. /\ \A i \in 1 .. n : calls[t][i].next <= Len(graphList) + 1
          /\ Len(graphList) \in Nat
      BY DEF Counted, TypeOK
    <3>2. call.next = 1 /\ outer.next = calls[t][n].next
      BY <1>1, <1>2, <1>3
    <3> QED
      BY <1>1, <1>5, <3>1, <3>2
  <2>3. ASSUME NEW u \in Threads, NEW i \in 1 .. Len(calls'[u])
        PROVE  calls'[u][i].next <= Len(graphList) + 1
    <3>1. CASE u = t
      <4>1. i \in 1 .. n + 1
        BY <1>5, <2>3, <3>1
      <4>2. calls'[t][i].next <= Len(graphList) + 1
        BY <2>2, <4>1
      <4> QED
        BY <3>1, <4>2
    <3>2. CASE u # t
      BY <1>6, <2>3, <3>2 DEF Counted, TypeOK
    <3> QED
      BY <3>1, <3>2
  <2>4. UNCHANGED <<contextLock, isAttachedToContext, graphList, deleted>>
    BY DEF EnterNested
  <2> QED
    BY <2>1, <2>3, <2>4 DEF Counted, TypeOK
<1>8. Nesting'
  <2>1. WellNested(calls[t], t)
    BY DEF Counted, Nesting
  <2>2. WellNested(calls'[t], t)
    <3>1. /\ kind \notin {"process", "attach", "unattach", "delete"}
          /\ kind \in AboutGraph => graph \in Graphs /\ OwnerOf[graph] = t
      BY DEF AboutGraph
    <3> QED
      BY <1>1, <1>2, <1>3, <1>5, <2>1, <3>1 DEF WellNested
  <2> QED
    BY <1>6, <2>2 DEF Counted, Nesting
<1>9. \A u \in Threads : Locking(u)' = Locking(u)
  <2>1. Locking(t)' = Locking(t)
    BY <1>1, <1>2, <1>3, <1>5 DEF Locking, Locks
  <2> QED
    BY <1>1, <1>6, <2>1, LockingOfSame
<1> QED
  BY <1>1, <1>7, <1>8, <1>9, SameCount DEF Counted, FreeOrTaken

\* The innermost call of a thread goes on, and the list of graphs may grow.
LEMMA GoesOn ==
    ASSUME Counted, NEW t \in Threads, InCall(t), NEW call \in Calls,
           call.kind = Current(t).kind, call.graph = Current(t).graph,
           calls' = [calls EXCEPT ![t][Len(calls[t])] = call],
           contextLock' \in [owner : Threads \cup {NOBODY}, count : Nat],
           isAttachedToContext' \in SUBSET Graphs, deleted' \in SUBSET Graphs,
           graphList' \in Seq(Graphs), Len(graphList) <= Len(graphList'),
           call.next <= Len(graphList') + 1
    PROVE  /\ TypeOK' /\ Nesting'
           /\ Len(calls'[t]) = Len(calls[t])
           /\ \A i \in 1 .. Len(calls[t]) :
                  calls'[t][i] = IF i = Len(calls[t]) THEN call ELSE calls[t][i]
           /\ \A u \in Threads \ {t} : calls'[u] = calls[u]
PROOF
<1> DEFINE n == Len(calls[t])
<1>1. /\ n \in Nat \ {0}
      /\ calls[t] \in Seq(Calls)
      /\ Current(t) = calls[t][n]
      /\ calls \in [Threads -> Seq(Calls)]
  BY CurrentCall DEF Counted, TypeOK
<1>2. calls'[t] = [calls[t] EXCEPT ![n] = call]
  BY <1>1
<1>3. /\ calls'[t] \in Seq(Calls)
      /\ Len(calls'[t]) = n
      /\ \A i \in 1 .. n : calls'[t][i] = IF i = n THEN call ELSE calls[t][i]
  BY <1>1, <1>2
<1>4. \A u \in Threads \ {t} : calls'[u] = calls[u]
  BY <1>1
<1>5. TypeOK'
  <2>1. calls' \in [Threads -> Seq(Calls)]
    BY <1>1, <1>3, <1>4
  <2>2. \A u \in Threads : \A i \in 1 .. Len(calls[u]) :
            /\ calls[u][i].next \in Nat
            /\ calls[u][i].next <= Len(graphList) + 1
    <3>1. \A u \in Threads : \A i \in 1 .. Len(calls[u]) : calls[u][i] \in Calls
      BY DEF Counted, TypeOK
    <3> QED
      BY <3>1 DEF Counted, TypeOK, Calls
  <2>3. Len(graphList) \in Nat /\ Len(graphList') \in Nat
    BY DEF Counted, TypeOK
  <2>4. \A i \in 1 .. n : calls'[t][i].next <= Len(graphList') + 1
    BY <1>1, <1>3, <2>2, <2>3
  <2>5. ASSUME NEW u \in Threads \ {t}, NEW i \in 1 .. Len(calls'[u])
        PROVE  calls'[u][i].next <= Len(graphList') + 1
    <3>1. calls'[u] = calls[u]
      BY <1>4
    <3>2. i \in 1 .. Len(calls[u])
      BY <3>1
    <3> QED
      BY <2>2, <2>3, <3>1, <3>2
  <2> QED
    BY <1>3, <2>1, <2>4, <2>5 DEF TypeOK
<1>6. Nesting'
  <2>1. WellNested(calls[t], t)
    BY DEF Counted, Nesting
  <2>2. WellNested(calls'[t], t)
    BY <1>1, <1>3, <2>1 DEF WellNested, Callers, Lasting, AboutGraph
  <2> QED
    BY <1>4, <2>2 DEF Counted, Nesting
<1> QED
  BY <1>3, <1>4, <1>5, <1>6

\* A call that is past its beginning goes on, and no flag changes that other
\* calls have looked at.
LEMMA BodyCounted ==
    ASSUME Counted, NEW t \in Threads, InCall(t), NEW call \in Calls,
           call.kind = Current(t).kind, call.graph = Current(t).graph,
           call.at # "begin", Current(t).at # "begin",
           calls' = [calls EXCEPT ![t][Len(calls[t])] = call],
           contextLock' = contextLock,
           isAttachedToContext' \in SUBSET Graphs, deleted' \in SUBSET Graphs,
           graphList' \in Seq(Graphs), Len(graphList) <= Len(graphList'),
           call.next <= Len(graphList') + 1,
           \A u \in Threads : \A i \in 1 .. Len(calls[u]) :
               calls[u][i].kind \in Lasting =>
                   (calls[u][i].graph \in isAttachedToContext'
                        <=> calls[u][i].graph \in isAttachedToContext)
    PROVE  Counted'
PROOF
<1> DEFINE n == Len(calls[t])
<1>1. /\ TypeOK' /\ Nesting'
      /\ Len(calls'[t]) = n
      /\ \A i \in 1 .. n : calls'[t][i] = IF i = n THEN call ELSE calls[t][i]
      /\ \A u \in Threads \ {t} : calls'[u] = calls[u]
  <2>1. contextLock' \in [owner : Threads \cup {NOBODY}, count : Nat]
    BY DEF Counted, TypeOK
  <2> QED
    BY <2>1, GoesOn
<1>2. n \in Nat \ {0} /\ Current(t) = calls[t][n]
  BY CurrentCall DEF Counted
<1>3. Locking(t)' = Locking(t)
  BY <1>1, <1>2 DEF Locking, Locks, Lasting
<1>4. \A u \in Threads \ {t} : Locking(u)' = Locking(u)
  BY <1>1 DEF Locking, Locks, Lasting
<1> QED
  BY <1>1, <1>3, <1>4, SameCount DEF Counted, FreeOrTaken

\* The innermost call goes to another place.
LEMMA GoesTo ==
    ASSUME Counted, NEW t \in Threads, InCall(t),
           NEW where \in {"begin", "body", "end"}, GoTo(t, where)
    PROVE  LET call == [Current(t) EXCEPT !.at = where]
           IN  /\ call \in Calls
               /\ call.kind = Current(t).kind /\ call.graph = Current(t).graph
               /\ call.at = where
               /\ call.next = Current(t).next
               /\ call.next <= Len(graphList) + 1
               /\ calls' = [calls EXCEPT ![t][Len(calls[t])] = call]
PROOF
<1> DEFINE c == Current(t)
<1>1. /\ c \in Calls /\ c = calls[t][Len(calls[t])]
      /\ Len(calls[t]) \in Nat \ {0}
  BY CurrentCall DEF Counted
<1>2. c.next <= Len(graphList) + 1
  BY <1>1 DEF Counted, TypeOK
<1>3. calls' = [calls EXCEPT ![t][Len(calls[t])] = [c EXCEPT !.at = where]]
  BY <1>1 DEF GoTo
<1> HIDE DEF c
<1>4. [c EXCEPT !.at = where] \in Calls
  BY <1>1 DEF Calls
<1> QED
  BY <1>1, <1>2, <1>3, <1>4 DEF c, Calls

\* A call of a thread whose lock is held by this thread, or by none, begins.
LEMMA BeginCounted ==
    ASSUME Counted, NEW t \in Threads, Begin(t)
    PROVE  Counted'
PROOF
<1> DEFINE n == Len(calls[t])
           call == [Current(t) EXCEPT !.at = "body"]
<1>1. /\ InCall(t) /\ Current(t).at = "begin"
      /\ GoTo(t, "body")
      /\ UNCHANGED <<isAttachedToContext, graphList, deleted>>
      /\ IF Locks(Current(t)) THEN Lock(t) ELSE UNCHANGED contextLock
  BY DEF Begin, At
<1>2. /\ n \in Nat \ {0} /\ Current(t) = calls[t][n]
      /\ Current(t) \in Calls
  BY <1>1, CurrentCall DEF Counted
<1>3. /\ call \in Calls
      /\ call.kind = Current(t).kind /\ call.graph = Current(t).graph
      /\ call.at = "body"
      /\ call.next <= Len(graphList) + 1
      /\ calls' = [calls EXCEPT ![t][n] = call]
  BY <1>1, GoesTo
<1> HIDE DEF call
<1>4. /\ contextLock \in [owner : Threads \cup {NOBODY}, count : Nat]
      /\ contextLock' \in [owner : Threads \cup {NOBODY}, count : Nat]
  BY <1>1 DEF Counted, TypeOK, Lock
<1>5. /\ TypeOK' /\ Nesting'
      /\ Len(calls'[t]) = n
      /\ \A i \in 1 .. n : calls'[t][i] = IF i = n THEN call ELSE calls[t][i]
      /\ \A u \in Threads \ {t} : calls'[u] = calls[u]
  <2>1. /\ isAttachedToContext' \in SUBSET Graphs /\ deleted' \in SUBSET Graphs
        /\ graphList' \in Seq(Graphs) /\ Len(graphList) <= Len(graphList')
        /\ call.next <= Len(graphList') + 1
    BY <1>1, <1>3 DEF Counted, TypeOK
  <2> QED
    BY <1>1, <1>3, <1>4, <2>1, GoesOn
<1>6. \A u \in Threads \ {t} : Locking(u)' = Locking(u)
  BY <1>1, <1>5, LockingOfSame
<1>7. Locking(t)' = IF Locks(Current(t)) THEN Locking(t) \cup {n} ELSE Locking(t)
  BY <1>1, <1>2, <1>3, <1>5 DEF Locking, Locks
<1>8. n \notin Locking(t)
  BY <1>1, <1>2 DEF Locking
<1>9. CASE ~ Locks(Current(t))
  BY <1>1, <1>5, <1>6, <1>7, <1>9, SameCount DEF Counted, FreeOrTaken
<1>10. CASE Locks(Current(t))
  <2>1. Cardinality(Locking(t)') = Cardinality(Locking(t)) + 1
    BY <1>7, <1>8, <1>10, LockingIsFinite, FS_AddElement DEF Counted
  <2>2. /\ contextLock.owner \in {NOBODY, t}
        /\ contextLock'.owner = t
        /\ contextLock'.count = contextLock.count + 1
    BY <1>1, <1>10 DEF Lock
  <2>3. NOBODY # t /\ contextLock.count \in Nat
    BY <1>4, LockAssumption
  <2>4. \A u \in Threads \ {t} : Cardinality(Locking(u)) = 0
    BY <2>2, LockAssumption DEF Counted, LockCountsCalls
  <2>5. Cardinality(Locking(t)) = contextLock.count
    BY <2>2, <2>3 DEF Counted, LockCountsCalls, FreeOrTaken
  <2>6. LockCountsCalls'
    BY <1>6, <2>1, <2>2, <2>4, <2>5 DEF LockCountsCalls
  <2>7. FreeOrTaken'
    BY <2>2, <2>3 DEF FreeOrTaken
  <2> QED
    BY <1>5, <2>6, <2>7 DEF Counted
<1> QED
  BY <1>9, <1>10

\* A call returns, and gives the lock back if it has taken it.
LEMMA ReturnCounted ==
    ASSUME Counted, NEW t \in Threads, Return(t)
    PROVE  Counted'
PROOF
<1> DEFINE n == Len(calls[t])
<1>1. /\ InCall(t) /\ Current(t).at = "end"
      /\ calls' = [calls EXCEPT ![t] = Front(calls[t])]
      /\ UNCHANGED <<isAttachedToContext, graphList, deleted>>
      /\ IF Locks(Current(t)) THEN Unlock(t) ELSE UNCHANGED contextLock
  BY DEF Return, At
<1>2. /\ n \in Nat \ {0} /\ Current(t) = calls[t][n]
      /\ calls[t] \in Seq(Calls)
      /\ calls \in [Threads -> Seq(Calls)]
  BY <1>1, CurrentCall DEF Counted, TypeOK
<1>3. /\ calls'[t] \in Seq(Calls)
      /\ Len(calls'[t]) = n - 1
      /\ \A i \in 1 .. n - 1 : calls'[t][i] = calls[t][i]
      /\ \A u \in Threads \ {t} : calls'[u] = calls[u]
  <2>1. calls'[t] = SubSeq(calls[t], 1, n - 1)
    BY <1>1, <1>2 DEF Front
  <2>2. /\ 1 \in Int /\ n - 1 \in Int
        /\ \A i \in 1 .. n - 1 : calls[t][i] \in Calls
    BY <1>2
  <2> DEFINE s == calls[t]
             m == n - 1
             f == SubSeq(s, 1, m)
  <2> HIDE DEF m, s
  <2>3. /\ m \in Int
        /\ \A i \in 1 .. m : s[i] \in Calls
    BY <2>2 DEF m, s
  <2>4. /\ f \in Seq(Calls)
        /\ Len(f) = IF 1 <= m THEN m - 1 + 1 ELSE 0
        /\ \A i \in 1 .. m - 1 + 1 : f[i] = s[1 + i - 1]
    BY <2>3, SubSeqProperties
  <2> HIDE DEF f
  <2>5. /\ Len(f) = m /\ \A i \in 1 .. m : f[i] = s[i]
    <3>1. m \in Nat
      BY <1>2 DEF m
    <3>2. ASSUME NEW i \in 1 .. m
          PROVE  f[i] = s[i]
      <4>1. i \in 1 .. m - 1 + 1 /\ 1 + i - 1 = i
        BY <2>3
      <4> QED
        BY <2>4, <4>1
    <3> QED
      BY <2>4, <3>1, <3>2
  <2>6. \A u \in Threads \ {t} : calls'[u] = calls[u]
    BY <1>1, <1>2
  <2> QED
    <3>1. calls'[t] = f
      BY <2>1 DEF f, m, s
    <3>2. m = n - 1 /\ s = calls[t]
      BY DEF m, s
    <3> QED
      BY <2>4, <2>5, <2>6, <3>1, <3>2
<1>4. /\ contextLock \in [owner : Threads \cup {NOBODY}, count : Nat]
      /\ Cardinality(Locking(t)) \in Nat
  BY LockingIsFinite DEF Counted, TypeOK
<1>5. Nesting'
  <2>1. WellNested(calls[t], t)
    BY DEF Counted, Nesting
  <2> DEFINE s == calls[t]
             f == calls'[t]
  <2>2. /\ Len(s) = n /\ n \in Nat \ {0} /\ Len(f) = n - 1
        /\ \A i \in 1 .. n - 1 : f[i] = s[i]
    BY <1>2, <1>3
  <2>3. WellNested(s, t)
    BY <2>1
  <2> HIDE DEF s, f
  <2>4. \A i \in 1 .. n - 1 : i \in 1 .. n /\ (i < n - 1 => i < n)
    BY <2>2
  <2>5. WellNested(f, t)
    BY <2>2, <2>3, <2>4 DEF WellNested, Callers, Lasting, AboutGraph
  <2>6. WellNested(calls'[t], t)
    BY <2>5 DEF f
  <2> QED
    BY <1>3, <2>6 DEF Counted, Nesting
<1>6. ASSUME contextLock' \in [owner : Threads \cup {NOBODY}, count : Nat]
      PROVE  TypeOK'
  <2>1. calls' \in [Threads -> Seq(Calls)]
    BY <1>1, <1>2, <1>3
  <2>2. \A i \in 1 .. n - 1 : calls'[t][i].next <= Len(graphList') + 1
    BY <1>1, <1>2, <1>3 DEF Counted, TypeOK
  <2> QED
    BY <1>1, <1>3, <1>6, <2>1, <2>2 DEF Counted, TypeOK
<1>7. \A u \in Threads \ {t} : Locking(u)' = Locking(u)
  BY <1>1, <1>3, LockingOfSame
<1>8. Locking(t)' = Locking(t) \ {n}
  BY <1>1, <1>2, <1>3 DEF Locking, Locks
<1>9. n \in Locking(t) <=> Locks(Current(t))
  BY <1>1, <1>2 DEF Locking
<1>10. CASE ~ Locks(Current(t))
  <2>1. Locking(t)' = Locking(t)
    BY <1>8, <1>9, <1>10
  <2> QED
    BY <1>1, <1>4, <1>5, <1>6, <1>7, <1>10, <2>1, SameCount
       DEF Counted, FreeOrTaken
<1>11. CASE Locks(Current(t))
  <2>1. Cardinality(Locking(t)') = Cardinality(Locking(t)) - 1
    BY <1>8, <1>9, <1>11, LockingIsFinite, FS_RemoveElement DEF Counted
  <2>2. Cardinality(Locking(t)) # 0
    BY <1>9, <1>11, LockingIsFinite, FS_EmptySet DEF Counted
  <2>3. contextLock.owner = t /\ Cardinality(Locking(t)) = contextLock.count
    BY <2>2 DEF Counted, LockCountsCalls
  <2>4. contextLock' = [owner |-> IF contextLock.count = 1 THEN NOBODY ELSE t,
                        count |-> contextLock.count - 1]
    BY <1>1, <1>11, <2>3 DEF Unlock
  <2>5. contextLock.count \in Nat /\ contextLock.count # 0 /\ NOBODY # t
    BY <1>4, <2>2, <2>3, LockAssumption
  <2>6. /\ contextLock' \in [owner : Threads \cup {NOBODY}, count : Nat]
        /\ FreeOrTaken'
    BY <2>4, <2>5 DEF FreeOrTaken
  <2>7. \A u \in Threads \ {t} : Cardinality(Locking(u)') = 0
    BY <1>7, <2>3 DEF Counted, LockCountsCalls
  <2>8. LockCountsCalls'
    <3>1. \A u \in Threads \ {t} : contextLock'.owner # u
      BY <2>4, LockAssumption
    <3>2. Cardinality(Locking(t)') =
              IF contextLock'.owner = t THEN contextLock'.count ELSE 0
      BY <2>1, <2>3, <2>4, <2>5
    <3> QED
      BY <2>7, <3>1, <3>2 DEF LockCountsCalls
  <2> QED
    BY <1>5, <1>6, <2>6, <2>8 DEF Counted
<1> QED
  BY <1>10, <1>11

\* The flag of a graph changes in a call of its owner, who is in no other.
LEMMA FlagCounted ==
    ASSUME Counted, NEW t \in Threads, At(t, "body"),
           Current(t).kind \in {"attach", "unattach"}, GoTo(t, "end"),
           isAttachedToContext' \in
               {isAttachedToContext \cup {Current(t).graph},
                isAttachedToContext \ {Current(t).graph}},
           graphList' \in {graphList, Append(graphList, Current(t).graph)},
           UNCHANGED <<contextLock, deleted>>
    PROVE  Counted'
PROOF
<1> DEFINE n == Len(calls[t])
           call == [Current(t) EXCEPT !.at = "end"]
           g == Current(t).graph
<1>1. /\ InCall(t) /\ Current(t).at = "body"
      /\ n \in Nat \ {0} /\ Current(t) = calls[t][n]
  BY CurrentCall DEF At, Counted
<1>2. /\ call \in Calls
      /\ call.kind = Current(t).kind /\ call.graph = g
      /\ call.at = "end"
      /\ call.next \in Nat /\ call.next <= Len(graphList) + 1
      /\ calls' = [calls EXCEPT ![t][n] = call]
  BY <1>1, GoesTo DEF Calls
<1>3. n = 1 /\ g \in Graphs /\ OwnerOf[g] = t
  <2>1. WellNested(calls[t], t) /\ n \in 1 .. Len(calls[t])
    BY <1>1 DEF Counted, Nesting
  <2> QED
    BY <1>1, <2>1 DEF WellNested, Callers, Lasting, AboutGraph
<1> HIDE DEF call, g
<1>4. /\ isAttachedToContext' \in SUBSET Graphs /\ deleted' \in SUBSET Graphs
      /\ graphList' \in Seq(Graphs) /\ Len(graphList) <= Len(graphList')
      /\ call.next <= Len(graphList') + 1
  <2>1. /\ isAttachedToContext \in SUBSET Graphs /\ deleted \in SUBSET Graphs
        /\ graphList \in Seq(Graphs) /\ Len(graphList) \in Nat
    BY DEF Counted, TypeOK
  <2>2. \/ graphList' = graphList
        \/ graphList' = Append(graphList, g)
    BY DEF g
  <2>3. isAttachedToContext' \in SUBSET Graphs
    BY <1>3, <2>1 DEF g
  <2>4. CASE graphList' = graphList
    BY <1>2, <2>1, <2>3, <2>4
  <2>5. CASE graphList' = Append(graphList, g)
    <3>1. graphList' \in Seq(Graphs) /\ Len(graphList') = Len(graphList) + 1
      BY <1>3, <2>1, <2>5
    <3> QED
      BY <1>2, <2>1, <2>3, <3>1
  <2> QED
    BY <2>2, <2>4, <2>5
<1>5. ASSUME NEW u \in Threads, NEW i \in 1 .. Len(calls[u]),
             calls[u][i].kind \in Lasting
      PROVE  calls[u][i].graph \in isAttachedToContext'
                 <=> calls[u][i].graph \in isAttachedToContext
  <2>1. OwnerOf[calls[u][i].graph] = u
    <3>1. calls[u][i].kind \in AboutGraph /\ WellNested(calls[u], u)
      BY <1>5 DEF Counted, Nesting, AboutGraph, Lasting
    <3> QED
      BY <3>1 DEF WellNested
  <2>2. u # t
    BY <1>1, <1>3, <1>5 DEF Lasting
  <2> QED
    BY <1>3, <2>1, <2>2 DEF g
<1> QED
  BY <1>1, <1>2, <1>4, <1>5, BodyCounted DEF g

-----------------------------------------------------------------------------
(***************************************************************************)
(* The theorems.                                                           *)
(***************************************************************************)

LEMMA CountedInit == Init => Counted
PROOF
<1> SUFFICES ASSUME Init
             PROVE  Counted
  OBVIOUS
<1>1. /\ \A t \in Threads : calls[t] = <<>> /\ Len(calls[t]) = 0
      /\ \A t \in Threads : Locking(t) = {}
  BY DEF Init, Locking
<1>2. TypeOK /\ Nesting /\ FreeOrTaken
  BY <1>1 DEF Init, TypeOK, Nesting, WellNested, FreeOrTaken
<1>3. LockCountsCalls
  BY <1>1, FS_EmptySet DEF Init, LockCountsCalls
<1> QED
  BY <1>2, <1>3 DEF Counted

\* Whatever calls the host makes, and whatever they call.
LEMMA HostCounted ==
    ASSUME Counted, NEW t \in Threads, HostStep(t)
    PROVE  Counted'
PROOF
<1>1. CASE t = Audio /\ CallProcess
  BY <1>1, EnterCounted DEF CallProcess, Kinds, AboutGraph, Lasting
<1>2. ASSUME NEW k \in HostCalls, NEW g \in Graphs, CallGraph(t, k, g)
      PROVE  Counted'
  BY <1>2, LockAssumption, EnterCounted DEF CallGraph
<1>3. CASE CallExternal(t)
  BY <1>3, EnterCounted, EnterNestedCounted
     DEF CallExternal, Kinds, Callers, AboutGraph, Lasting
<1>4. CASE CallNestedEdit(t)
  <2>1. /\ InCall(t) /\ Current(t).kind \in Lasting
        /\ EnterNested(t, "edit", Current(t).graph)
    BY <1>4 DEF CallNestedEdit, Lasting
  <2>2. Current(t).graph \in Graphs /\ OwnerOf[Current(t).graph] = t
    <3>1. /\ WellNested(calls[t], t)
          /\ Len(calls[t]) \in 1 .. Len(calls[t])
          /\ Current(t) = calls[t][Len(calls[t])]
      BY <2>1, CurrentCall DEF Counted, Nesting
    <3> QED
      BY <2>1, <3>1 DEF WellNested, Callers, Lasting, AboutGraph
  <2> QED
    BY <2>1, <2>2, EnterNestedCounted DEF Callers, Lasting
<1> QED
  BY <1>1, <1>2, <1>3, <1>4 DEF HostStep

\* Whatever a call does.
LEMMA CallCounted ==
    ASSUME Counted, NEW t \in Threads, CallStep(t)
    PROVE  Counted'
PROOF
<1>1. CASE Begin(t)
  BY <1>1, BeginCounted
<1>2. CASE Attach(t)
  BY <1>2, FlagCounted DEF Attach
<1>3. CASE Unattach(t)
  BY <1>3, FlagCounted DEF Unattach
<1>4. CASE Delete(t) \/ EndBody(t)
  <2> DEFINE call == [Current(t) EXCEPT !.at = "end"]
  <2>1. /\ InCall(t) /\ Current(t).at = "body" /\ GoTo(t, "end")
        /\ UNCHANGED <<contextLock, isAttachedToContext, graphList>>
    BY <1>4 DEF Delete, EndBody, At
  <2>2. /\ call \in Calls
        /\ call.kind = Current(t).kind /\ call.graph = Current(t).graph
        /\ call.at = "end" /\ call.next <= Len(graphList) + 1
        /\ calls' = [calls EXCEPT ![t][Len(calls[t])] = call]
    BY <2>1, GoesTo
  <2> HIDE DEF call
  <2>3. deleted' \in SUBSET Graphs
    <3>1. CASE EndBody(t)
      BY <3>1 DEF EndBody, Counted, TypeOK
    <3>2. CASE Delete(t)
      <4>1. /\ WellNested(calls[t], t)
            /\ Len(calls[t]) \in 1 .. Len(calls[t])
            /\ Current(t) = calls[t][Len(calls[t])]
        BY <2>1, CurrentCall DEF Counted, Nesting
      <4>2. Current(t).graph \in Graphs
        BY <3>2, <4>1 DEF Delete, WellNested, AboutGraph
      <4> QED
        BY <3>2, <4>2 DEF Delete, Counted, TypeOK
    <3> QED
      BY <1>4, <3>1, <3>2
  <2>4. /\ isAttachedToContext' \in SUBSET Graphs
        /\ graphList' \in Seq(Graphs) /\ Len(graphList) <= Len(graphList')
        /\ call.next <= Len(graphList') + 1
    BY <2>1, <2>2 DEF Counted, TypeOK
  <2> QED
    BY <2>1, <2>2, <2>3, <2>4, BodyCounted
<1>5. CASE t = Audio /\ ProcessGraph
  <2> DEFINE call == [Current(t) EXCEPT !.next = @ + 1]
             c == Current(t)
  <2>1. /\ InCall(t) /\ c.at = "body" /\ c.kind = "process"
        /\ c.next <= Len(graphList)
        /\ calls' = [calls EXCEPT ![t][1].next = @ + 1]
        /\ UNCHANGED <<contextLock, isAttachedToContext, graphList, deleted>>
    BY <1>5 DEF ProcessGraph, At
  <2>2. /\ WellNested(calls[t], t)
        /\ Len(calls[t]) \in 1 .. Len(calls[t])
        /\ c = calls[t][Len(calls[t])]
        /\ c \in Calls
    BY <2>1, CurrentCall DEF Counted, Nesting
  <2>3. Len(calls[t]) = 1
    BY <2>1, <2>2 DEF WellNested, Callers, Lasting, AboutGraph
  <2>4. calls' = [calls EXCEPT ![t][Len(calls[t])] = call]
    BY <2>1, <2>2, <2>3
  <2> HIDE DEF c
  <2>5. /\ call \in Calls
        /\ call.kind = c.kind /\ call.graph = c.graph /\ call.at = "body"
        /\ call.next = c.next + 1
    BY <2>1, <2>2 DEF c, Calls
  <2>6. Len(graphList) \in Nat
    BY DEF Counted, TypeOK
  <2>7. /\ isAttachedToContext' \in SUBSET Graphs /\ deleted' \in SUBSET Graphs
        /\ graphList' \in Seq(Graphs) /\ Len(graphList) <= Len(graphList')
        /\ call.next <= Len(graphList') + 1
    BY <2>1, <2>2, <2>5, <2>6 DEF Counted, TypeOK, Calls
  <2> HIDE DEF call
  <2> QED
    BY <2>1, <2>4, <2>5, <2>7, BodyCounted DEF c
<1>6. CASE Return(t)
  BY <1>6, ReturnCounted
<1> QED
  BY <1>1, <1>2, <1>3, <1>4, <1>5, <1>6 DEF CallStep

LEMMA CountedNext ==
    ASSUME Counted, [Next]_vars
    PROVE  Counted'
PROOF
<1>1. CASE Next
  BY <1>1, HostCounted, CallCounted DEF Next
<1>2. CASE UNCHANGED vars
  <2>1. \A t \in Threads : Locking(t)' = Locking(t)
    BY <1>2 DEF vars, Locking, Locks
  <2> QED
    BY <1>2, <2>1, SameCount
       DEF vars, Counted, TypeOK, Nesting, FreeOrTaken
<1> QED
  BY <1>1, <1>2

\* A thread that is in a graph, or guarded in the context, has the lock.
LEMMA CountedExclusive == Counted => Exclusive
PROOF
<1> SUFFICES ASSUME Counted, NEW t \in Threads, NEW u \in Threads, t # u
             PROVE  /\ \A g \in Graphs : ~ (Uses(t, g) /\ Uses(u, g))
                    /\ \A i \in 1 .. Len(calls[t]),
                          j \in 1 .. Len(calls[u]) :
                           /\ UsesContext(calls[t][i])
                           /\ UsesContext(calls[u][j])
                           => Unguarded(calls[t][i]) \/ Unguarded(calls[u][j])
  BY DEF Exclusive
<1>1. ASSUME NEW v \in Threads, NEW i \in 1 .. Len(calls[v]),
             calls[v][i].at = "body", Locks(calls[v][i])
      PROVE  contextLock.owner = v
  <2>1. i \in Locking(v)
    BY <1>1 DEF Locking
  <2>2. Cardinality(Locking(v)) # 0
    BY <2>1, LockingIsFinite, FS_EmptySet DEF Counted
  <2> QED
    BY <2>2 DEF Counted, LockCountsCalls
<1>2. ASSUME NEW v \in Threads, NEW i \in 1 .. Len(calls[v]),
             UsesContext(calls[v][i]), ~ Unguarded(calls[v][i])
      PROVE  contextLock.owner = v
  <2>1. calls[v][i].kind \in Kinds
    <3>1. calls[v] \in Seq(Calls)
      BY DEF Counted, TypeOK
    <3>2. calls[v][i] \in Calls
      BY <3>1
    <3> QED
      BY <3>2 DEF Calls
  <2> QED
    BY <1>1, <1>2, <2>1 DEF UsesContext, Unguarded, Locks, Kinds
<1>3. ASSUME NEW v \in Threads, NEW g \in Graphs, Uses(v, g)
      PROVE  contextLock.owner = v
  BY <1>1, <1>3 DEF Uses, Locks
<1> QED
  BY <1>2, <1>3

LEMMA AlwaysCounted == Spec => []Counted
PROOF
<1>1. Init => Counted
  BY CountedInit
<1>2. Counted /\ [Next]_vars => Counted'
  BY CountedNext
<1> QED
  BY <1>1, <1>2, PTL DEF Spec

\* The lock has been taken as often as the thread that has it is in calls that
\* took it, for any number of threads and any nesting of their calls
\* (lockContextIfAttached, unlockContextIfAttached).
THEOREM LockCorrect == Spec => []LockCountsCalls
PROOF
<1>1. Counted => LockCountsCalls
  BY DEF Counted
<1> QED
  BY <1>1, AlwaysCounted, PTL

\* No two threads are in an attached graph at a time, nor in the context but
\* for the calls that use it without its lock, however the host attaches,
\* unattaches and edits its graphs meanwhile.
THEOREM ExclusionCorrect == Spec => []Exclusive
PROOF
<1>1. Counted => Exclusive
  BY CountedExclusive
<1> QED
  BY <1>1, AlwaysCounted, PTL

-----------------------------------------------------------------------------
(***************************************************************************)
(* Connections: what is left of a list, and how often it has an element.   *)
(***************************************************************************)

\* A non-empty set of numbers has a least one.
LEMMA FirstOf ==
    ASSUME NEW T, T \subseteq Nat, T # {}
    PROVE  \E i \in T : \A j \in T : i <= j
PROOF
<1> DEFINE R == OpToRel(<, Nat)
<1>1. IsWellFoundedOn(R, Nat)
  BY NatLessThanWellFounded
<1>2. \A i, j \in Nat : <<i, j>> \notin R => j <= i
  BY DEF OpToRel
<1> HIDE DEF R
<1>3. \E i \in T : \A j \in T : ~ (<<j, i>> \in R)
  BY <1>1, WFMin
<1> QED
  BY <1>2, <1>3

\* What is left of the first n elements, from what is left of those before.
LeftOf(list, gone, left, n) ==
    IF n = 0 THEN <<>>
    ELSE IF list[n] \in gone THEN left[n - 1]
    ELSE Append(left[n - 1], list[n])

IsLeft(list, gone, left, m) ==
    left = [n \in 0 .. m |-> LeftOf(list, gone, left, n)]

\* Without is well defined: for a list of m elements there is such a function
\* if there is one for m - 1.
LEMMA LeftIsDefined ==
    ASSUME NEW list, NEW gone, NEW m \in Nat
    PROVE  \E left : IsLeft(list, gone, left, m)
PROOF
<1> DEFINE Undefined == {n \in Nat : ~ \E left : IsLeft(list, gone, left, n)}
<1>1. SUFFICES ASSUME Undefined # {}
               PROVE  FALSE
  OBVIOUS
<1>2. PICK k \in Undefined : \A n \in Undefined : k <= n
  <2>1. Undefined \subseteq Nat
    OBVIOUS
  <2> HIDE DEF Undefined
  <2> QED
    BY <1>1, <2>1, FirstOf
<1>3. k # 0
  <2> DEFINE none == [n \in 0 .. 0 |-> <<>>]
  <2>1. IsLeft(list, gone, none, 0)
    BY DEF IsLeft, LeftOf
  <2> QED
    BY <2>1
<1>4. k - 1 \in Nat /\ k - 1 \notin Undefined
  BY <1>2, <1>3
<1>5. PICK left : IsLeft(list, gone, left, k - 1)
  BY <1>4
<1> DEFINE longer == [n \in 0 .. k |-> LeftOf(list, gone, left, n)]
<1>6. ASSUME NEW n \in 0 .. k
      PROVE  LeftOf(list, gone, left, n) = LeftOf(list, gone, longer, n)
  <2>1. CASE n = 0
    BY <2>1 DEF LeftOf
  <2>2. CASE n # 0
    <3>1. n - 1 \in 0 .. k - 1 /\ n - 1 \in 0 .. k
      BY <2>2, <1>4
    <3>2. left[n - 1] = LeftOf(list, gone, left, n - 1)
      BY <3>1, <1>5 DEF IsLeft
    <3>3. longer[n - 1] = left[n - 1]
      BY <3>1, <3>2
    <3> HIDE DEF longer
    <3> QED
      BY <3>3 DEF LeftOf
  <2> QED
    BY <2>1, <2>2
<1>7. IsLeft(list, gone, longer, k)
  BY <1>6 DEF IsLeft
<1> QED
  BY <1>7

LEMMA TimesIsNumber ==
    ASSUME NEW S, NEW list \in Seq(S), NEW e
    PROVE  Times(e, list) \in Nat /\ IsFiniteSet({n \in DOMAIN list : list[n] = e})
PROOF
<1>1. DOMAIN list = 1 .. Len(list) /\ Len(list) \in Nat
  OBVIOUS
<1>2. IsFiniteSet(1 .. Len(list))
  BY <1>1, FS_Interval
<1>3. IsFiniteSet({n \in DOMAIN list : list[n] = e})
  BY <1>1, <1>2, FS_Subset
<1> QED
  BY <1>3, FS_CardinalityType DEF Times

\* One more of what is put at the end.
LEMMA TimesOfAppend ==
    ASSUME NEW S, NEW list \in Seq(S), NEW x \in S, NEW e
    PROVE  Times(e, Append(list, x)) = Times(e, list) + IF e = x THEN 1 ELSE 0
PROOF
<1> DEFINE at == {n \in DOMAIN list : list[n] = e}
           longer == Append(list, x)
           atLonger == {n \in DOMAIN longer : longer[n] = e}
           n == Len(list) + 1
<1>1. /\ DOMAIN list = 1 .. Len(list) /\ Len(list) \in Nat
      /\ DOMAIN longer = 1 .. n /\ n \in Nat /\ longer[n] = x
      /\ \A i \in 1 .. Len(list) : longer[i] = list[i]
  OBVIOUS
<1>2. n \notin at /\ \A i \in DOMAIN longer : i = n \/ i \in DOMAIN list
  BY <1>1
<1>3. IsFiniteSet(at) /\ Cardinality(at) \in Nat
  BY TimesIsNumber DEF Times
<1> HIDE DEF longer
<1>6. Times(e, list) = Cardinality(at) /\ Times(e, longer) = Cardinality(atLonger)
  BY DEF Times
<1>4. CASE e = x
  <2>1. atLonger = at \cup {n}
    BY <1>1, <1>2, <1>4
  <2>2. Cardinality(at \cup {n}) = Cardinality(at) + 1
    <3> HIDE DEF at, n
    <3> QED
      BY <1>2, <1>3, FS_AddElement
  <2> HIDE DEF at, atLonger
  <2> QED
    BY <1>4, <1>6, <2>1, <2>2 DEF longer
<1>5. CASE e # x
  <2>1. atLonger = at
    BY <1>1, <1>2, <1>5
  <2> HIDE DEF at, atLonger
  <2> QED
    BY <1>3, <1>5, <1>6, <2>1 DEF longer
<1> QED
  BY <1>4, <1>5

LEMMA TimesOfNone ==
    ASSUME NEW e
    PROVE  Times(e, <<>>) = 0
PROOF
<1>1. {n \in DOMAIN <<>> : <<>>[n] = e} = {}
  OBVIOUS
<1> QED
  BY <1>1, FS_EmptySet DEF Times

\* What is left of a list has nothing of what was removed, and all the rest
\* as often as it was there.
LEMMA WithoutKeepsTheRest ==
    ASSUME NEW S, NEW list \in Seq(S), NEW gone
    PROVE  /\ Without(list, gone) \in Seq(S)
           /\ \A e : Times(e, Without(list, gone)) =
                         IF e \in gone THEN 0 ELSE Times(e, list)
PROOF
<1> DEFINE left == CHOOSE f : IsLeft(list, gone, f, Len(list))
<1>1. Len(list) \in Nat /\ list \in [1 .. Len(list) -> S]
  OBVIOUS
<1>2. IsLeft(list, gone, left, Len(list))
  BY <1>1, LeftIsDefined
<1>3. Without(list, gone) = left[Len(list)]
  BY DEF Without, IsLeft, LeftOf
<1> HIDE DEF left
<1>4. \A n \in 0 .. Len(list) : left[n] = LeftOf(list, gone, left, n)
  BY <1>2 DEF IsLeft
<1> DEFINE First(n) == SubSeq(list, 1, n)
           Right(n) == /\ left[n] \in Seq(S)
                       /\ \A e : Times(e, left[n]) =
                              IF e \in gone THEN 0 ELSE Times(e, First(n))
           Wrong == {n \in 0 .. Len(list) : ~ Right(n)}
<1>5. Right(0)
  <2>1. left[0] = <<>> /\ First(0) = <<>>
    BY <1>1, <1>4 DEF LeftOf
  <2>2. <<>> \in Seq(S)
    OBVIOUS
  <2> QED
    BY <2>1, <2>2, TimesOfNone
<1>6. ASSUME NEW n \in 1 .. Len(list), Right(n - 1)
      PROVE  Right(n)
  <2>1. n - 1 \in 0 .. Len(list) /\ n \in 0 .. Len(list) /\ n # 0
    BY <1>1
  <2>2. list[n] \in S /\ First(n - 1) \in Seq(S)
    BY <1>1
  <2>3. First(n) = Append(First(n - 1), list[n])
    BY <1>1
  <2>4. \A e : Times(e, First(n)) =
                   Times(e, First(n - 1)) + IF e = list[n] THEN 1 ELSE 0
    <3> HIDE DEF First
    <3> QED
      BY <2>2, <2>3, TimesOfAppend
  <2>5. \A e : Times(e, First(n - 1)) \in Nat
    BY <2>2, TimesIsNumber
  <2> HIDE DEF First
  <2>6. CASE list[n] \in gone
    <3>1. left[n] = left[n - 1]
      BY <1>4, <2>1, <2>6 DEF LeftOf
    <3>2. \A e : e \notin gone => Times(e, First(n)) = Times(e, First(n - 1))
      BY <2>4, <2>5, <2>6
    <3> QED
      BY <1>6, <3>1, <3>2
  <2>7. CASE list[n] \notin gone
    <3>1. left[n] = Append(left[n - 1], list[n])
      BY <1>4, <2>1, <2>7 DEF LeftOf
    <3>2. left[n] \in Seq(S)
      BY <1>6, <2>2, <3>1
    <3>3. \A e : Times(e, left[n]) =
                     Times(e, left[n - 1]) + IF e = list[n] THEN 1 ELSE 0
      BY <1>6, <2>2, <3>1, TimesOfAppend
    <3>4. \A e : e \in gone => Times(e, left[n]) = 0
      BY <1>6, <2>7, <3>3
    <3>5. \A e : e \notin gone => Times(e, left[n]) = Times(e, First(n))
      BY <1>6, <2>4, <3>3
    <3> QED
      BY <3>2, <3>4, <3>5
  <2> QED
    BY <2>6, <2>7
<1>7. \A n \in 0 .. Len(list) : Right(n)
  <2>1. SUFFICES ASSUME Wrong # {}
                 PROVE  FALSE
    OBVIOUS
  <2>2. PICK n \in Wrong : \A m \in Wrong : n <= m
    <3>1. Wrong \subseteq Nat
      OBVIOUS
    <3> HIDE DEF Wrong
    <3> QED
      BY <2>1, <3>1, FirstOf
  <2>3. n \in 0 .. Len(list) /\ ~ Right(n)
    OBVIOUS
  <2> HIDE DEF Right
  <2>4. n # 0
    BY <1>5, <2>3
  <2>5. n \in 1 .. Len(list) /\ n - 1 \in 0 .. Len(list) /\ ~ (n <= n - 1)
    BY <1>1, <2>3, <2>4
  <2>6. Right(n - 1)
    BY <2>2, <2>5
  <2> QED
    BY <1>6, <2>3, <2>5, <2>6
<1>8. First(Len(list)) = list /\ Len(list) \in 0 .. Len(list)
  BY <1>1
<1> QED
  BY <1>3, <1>7, <1>8

-----------------------------------------------------------------------------
(***************************************************************************)
(* Inlets and outlets.                                                     *)
(***************************************************************************)

LEMMA LetsAreCounted ==
    ASSUME NEW o \in Nodes
    PROVE  /\ NumInlets(o) \in Nat /\ NumOutlets(o) \in Nat
           /\ Kind[o] = "graph" =>
                  /\ LetsOf(o, InletList[o], {"inlet", "inlet~"})
                  /\ LetsOf(o, OutletList[o], {"outlet", "outlet~"})
PROOF
<1>1. /\ MessageInlets[o] \in Nat /\ DspInlets[o] \in Nat
      /\ Outlets[o] \in Nat
  BY ConnectionAssumption
<1>2. Kind[o] = "graph" =>
          /\ LetsOf(o, InletList[o], {"inlet", "inlet~"})
          /\ LetsOf(o, OutletList[o], {"outlet", "outlet~"})
  BY ConnectionAssumption
<1>3. Kind[o] = "graph" => Len(InletList[o]) \in Nat /\ Len(OutletList[o]) \in Nat
  BY <1>2 DEF LetsOf
<1> QED
  BY <1>1, <1>2, <1>3 DEF NumInlets, NumOutlets

\* An inlet keeps its connections at an inlet that there is.
LEMMA InletIsKept ==
    ASSUME NEW t \in Nodes, NEW i \in 1 .. NumInlets(t)
    PROVE  /\ InletOf(t, i)[1] \in Nodes
           /\ InletOf(t, i)[2] \in 1 .. NumInlets(InletOf(t, i)[1])
PROOF
<1>1. CASE Kind[t] = "graph"
  <2>1. InletList[t] \in Seq(Nodes) /\ i \in 1 .. Len(InletList[t])
    BY <1>1, LetsAreCounted DEF LetsOf, NumInlets
  <2>2. InletList[t][i] \in Nodes
    BY <2>1
  <2>3. Kind[InletList[t][i]] \in {"inlet", "inlet~"}
    BY <1>1, <2>1, LetsAreCounted DEF LetsOf
  <2>4. NumInlets(InletList[t][i]) = 1
    BY <2>2, <2>3, ConnectionAssumption
  <2> QED
    BY <1>1, <2>2, <2>4 DEF InletOf
<1> QED
  BY <1>1 DEF InletOf

LEMMA OutletIsKept ==
    ASSUME NEW o \in Nodes, NEW k \in 1 .. NumOutlets(o)
    PROVE  /\ OutletOf(o, k)[1] \in Nodes
           /\ OutletOf(o, k)[2] \in 1 .. NumOutlets(OutletOf(o, k)[1])
PROOF
<1>1. CASE Kind[o] = "graph"
  <2>1. OutletList[o] \in Seq(Nodes) /\ k \in 1 .. Len(OutletList[o])
    BY <1>1, LetsAreCounted DEF LetsOf, NumOutlets
  <2>2. OutletList[o][k] \in Nodes
    BY <2>1
  <2>3. Kind[OutletList[o][k]] \in {"outlet", "outlet~"}
    BY <1>1, <2>1, LetsAreCounted DEF LetsOf
  <2>4. NumOutlets(OutletList[o][k]) = 1
    BY <2>2, <2>3, ConnectionAssumption
  <2> QED
    BY <1>1, <2>2, <2>4 DEF OutletOf
<1> QED
  BY <1>1 DEF OutletOf

\* Two inlets keep their connections at one place only if one is of a graph
\* and the other of what lets into that graph.
LEMMA InletsKeptTogether ==
    ASSUME NEW t \in Nodes, NEW i \in 1 .. NumInlets(t),
           NEW u \in Nodes, NEW j \in 1 .. NumInlets(u),
           InletOf(t, i) = InletOf(u, j)
    PROVE  \/ t = u /\ i = j
           \/ Kind[t] = "graph" /\ GraphOf[u] = t /\ Kind[u] \in {"inlet", "inlet~"}
           \/ Kind[u] = "graph" /\ GraphOf[t] = u /\ Kind[t] \in {"inlet", "inlet~"}
PROOF
<1>1. ASSUME NEW g \in Nodes, NEW n \in 1 .. NumInlets(g), Kind[g] = "graph"
      PROVE  /\ GraphOf[InletList[g][n]] = g
             /\ Kind[InletList[g][n]] \in {"inlet", "inlet~"}
             /\ InletOf(g, n) = <<InletList[g][n], 1>>
             /\ \A m \in 1 .. NumInlets(g) :
                    InletList[g][n] = InletList[g][m] => n = m
  BY <1>1, LetsAreCounted DEF LetsOf, NumInlets, InletOf
<1>2. CASE Kind[t] = "graph" /\ Kind[u] = "graph"
  BY <1>1, <1>2
<1>3. CASE Kind[t] = "graph" /\ Kind[u] # "graph"
  <2>1. InletOf(u, j) = <<u, j>>
    BY <1>3 DEF InletOf
  <2>2. /\ InletOf(t, i) = <<InletList[t][i], 1>>
        /\ GraphOf[InletList[t][i]] = t
        /\ Kind[InletList[t][i]] \in {"inlet", "inlet~"}
    BY <1>1, <1>3
  <2>3. u = InletList[t][i]
    BY <2>1, <2>2
  <2> QED
    BY <1>3, <2>2, <2>3
<1>4. CASE Kind[t] # "graph" /\ Kind[u] = "graph"
  <2>1. InletOf(t, i) = <<t, i>>
    BY <1>4 DEF InletOf
  <2>2. /\ InletOf(u, j) = <<InletList[u][j], 1>>
        /\ GraphOf[InletList[u][j]] = u
        /\ Kind[InletList[u][j]] \in {"inlet", "inlet~"}
    BY <1>1, <1>4
  <2>3. t = InletList[u][j]
    <3>1. <<t, i>> = <<InletList[u][j], 1>>
      BY <2>1, <2>2
    <3> QED
      BY <3>1
  <2> QED
    BY <1>4, <2>2, <2>3
<1>5. CASE Kind[t] # "graph" /\ Kind[u] # "graph"
  BY <1>5 DEF InletOf
<1> QED
  BY <1>2, <1>3, <1>4, <1>5

LEMMA OutletsKeptTogether ==
    ASSUME NEW o \in Nodes, NEW k \in 1 .. NumOutlets(o),
           NEW p \in Nodes, NEW l \in 1 .. NumOutlets(p),
           OutletOf(o, k) = OutletOf(p, l)
    PROVE  \/ o = p /\ k = l
           \/ Kind[o] = "graph" /\ GraphOf[p] = o /\ Kind[p] \in {"outlet", "outlet~"}
           \/ Kind[p] = "graph" /\ GraphOf[o] = p /\ Kind[o] \in {"outlet", "outlet~"}
PROOF
<1>1. ASSUME NEW g \in Nodes, NEW n \in 1 .. NumOutlets(g), Kind[g] = "graph"
      PROVE  /\ GraphOf[OutletList[g][n]] = g
             /\ Kind[OutletList[g][n]] \in {"outlet", "outlet~"}
             /\ OutletOf(g, n) = <<OutletList[g][n], 1>>
             /\ \A m \in 1 .. NumOutlets(g) :
                    OutletList[g][n] = OutletList[g][m] => n = m
  BY <1>1, LetsAreCounted DEF LetsOf, NumOutlets, OutletOf
<1>2. CASE Kind[o] = "graph" /\ Kind[p] = "graph"
  BY <1>1, <1>2
<1>3. CASE Kind[o] = "graph" /\ Kind[p] # "graph"
  <2>1. OutletOf(p, l) = <<p, l>>
    BY <1>3 DEF OutletOf
  <2>2. /\ OutletOf(o, k) = <<OutletList[o][k], 1>>
        /\ GraphOf[OutletList[o][k]] = o
        /\ Kind[OutletList[o][k]] \in {"outlet", "outlet~"}
    BY <1>1, <1>3
  <2>3. p = OutletList[o][k]
    BY <2>1, <2>2
  <2> QED
    BY <1>3, <2>2, <2>3
<1>4. CASE Kind[o] # "graph" /\ Kind[p] = "graph"
  <2>1. OutletOf(o, k) = <<o, k>>
    BY <1>4 DEF OutletOf
  <2>2. /\ OutletOf(p, l) = <<OutletList[p][l], 1>>
        /\ GraphOf[OutletList[p][l]] = p
        /\ Kind[OutletList[p][l]] \in {"outlet", "outlet~"}
    BY <1>1, <1>4
  <2>3. o = OutletList[p][l]
    <3>1. <<o, k>> = <<OutletList[p][l], 1>>
      BY <2>1, <2>2
    <3> QED
      BY <3>1
  <2> QED
    BY <1>4, <2>2, <2>3
<1>5. CASE Kind[o] # "graph" /\ Kind[p] # "graph"
  BY <1>5 DEF OutletOf
<1> QED
  BY <1>2, <1>3, <1>4, <1>5

\* Of the objects of one graph, no two inlets, nor two outlets, do.
LEMMA InletsDiffer ==
    ASSUME NEW t \in Nodes, NEW i \in 1 .. NumInlets(t),
           NEW u \in Nodes, NEW j \in 1 .. NumInlets(u),
           InletOf(t, i) = InletOf(u, j), GraphOf[t] = GraphOf[u]
    PROVE  t = u /\ i = j
PROOF
  BY InletsKeptTogether, ConnectionAssumption

LEMMA OutletsDiffer ==
    ASSUME NEW o \in Nodes, NEW k \in 1 .. NumOutlets(o),
           NEW p \in Nodes, NEW l \in 1 .. NumOutlets(p),
           OutletOf(o, k) = OutletOf(p, l), GraphOf[o] = GraphOf[p]
    PROVE  o = p /\ k = l
PROOF
  BY OutletsKeptTogether, ConnectionAssumption

-----------------------------------------------------------------------------
(***************************************************************************)
(* Both ends of the connections.                                           *)
(***************************************************************************)

Ends == Nodes \X Nat

\* Each inlet and each outlet has its list.
Lists ==
    /\ patch \subseteq Nodes
    /\ incoming = [t \in Nodes |-> [i \in 1 .. NumInlets(t) |-> incoming[t][i]]]
    /\ outgoing = [o \in Nodes |-> [k \in 1 .. NumOutlets(o) |-> outgoing[o][k]]]
    /\ \A t \in Nodes : \A i \in 1 .. NumInlets(t) : incoming[t][i] \in Seq(Ends)
    /\ \A o \in Nodes : \A k \in 1 .. NumOutlets(o) : outgoing[o][k] \in Seq(Ends)

\* How often the inlet knows of a connection, and how often the outlet does.
AtInlet(o, k, t, i) ==
    Times(<<o, k>>, incoming[InletOf(t, i)[1]][InletOf(t, i)[2]])
AtOutlet(o, k, t, i) ==
    Times(<<t, i>>, outgoing[OutletOf(o, k)[1]][OutletOf(o, k)[2]])

Agrees(o, k, t, i) == AtInlet(o, k, t, i) = AtOutlet(o, k, t, i)

\* What a connection is forgotten by, and how.
LEMMA Forgotten ==
    ASSUME Lists, NEW some, Disconnect(some),
           NEW o \in Nodes, NEW k \in 1 .. NumOutlets(o),
           NEW t \in Nodes, NEW i \in 1 .. NumInlets(t)
    PROVE  /\ AtInlet(o, k, t, i)' =
                  IF \E d \in some : /\ <<d[1], d[2]>> = <<o, k>>
                                     /\ InletOf(d[3], d[4]) = InletOf(t, i)
                  THEN 0 ELSE AtInlet(o, k, t, i)
           /\ AtOutlet(o, k, t, i)' =
                  IF \E d \in some : /\ <<d[3], d[4]>> = <<t, i>>
                                     /\ OutletOf(d[1], d[2]) = OutletOf(o, k)
                  THEN 0 ELSE AtOutlet(o, k, t, i)
PROOF
<1> DEFINE u == InletOf(t, i)[1]
           j == InletOf(t, i)[2]
           p == OutletOf(o, k)[1]
           l == OutletOf(o, k)[2]
<1>1. u \in Nodes /\ j \in 1 .. NumInlets(u) /\ InletOf(t, i) = <<u, j>>
  BY InletIsKept DEF InletOf
<1>2. p \in Nodes /\ l \in 1 .. NumOutlets(p) /\ OutletOf(o, k) = <<p, l>>
  BY OutletIsKept DEF OutletOf
<1>3. incoming'[u][j] = Without(incoming[u][j], LeadTo(some, u, j))
  BY <1>1 DEF Disconnect
<1>4. outgoing'[p][l] = Without(outgoing[p][l], LedToFrom(some, p, l))
  BY <1>2 DEF Disconnect
<1>5. incoming[u][j] \in Seq(Ends) /\ outgoing[p][l] \in Seq(Ends)
  BY <1>1, <1>2 DEF Lists
<1>6. <<o, k>> \in LeadTo(some, u, j) <=>
          \E d \in some : <<d[1], d[2]>> = <<o, k>> /\ InletOf(d[3], d[4]) = <<u, j>>
  BY DEF LeadTo
<1>7. <<t, i>> \in LedToFrom(some, p, l) <=>
          \E d \in some : <<d[3], d[4]>> = <<t, i>> /\ OutletOf(d[1], d[2]) = <<p, l>>
  BY DEF LedToFrom
<1> HIDE DEF u, j, p, l
<1>8. \A e : Times(e, incoming'[u][j]) =
                 IF e \in LeadTo(some, u, j) THEN 0 ELSE Times(e, incoming[u][j])
  BY <1>3, <1>5, WithoutKeepsTheRest
<1>9. \A e : Times(e, outgoing'[p][l]) =
                 IF e \in LedToFrom(some, p, l) THEN 0 ELSE Times(e, outgoing[p][l])
  BY <1>4, <1>5, WithoutKeepsTheRest
<1>10. /\ AtInlet(o, k, t, i) = Times(<<o, k>>, incoming[u][j])
       /\ AtInlet(o, k, t, i)' = Times(<<o, k>>, incoming'[u][j])
  BY DEF AtInlet, u, j
<1>11. /\ AtOutlet(o, k, t, i) = Times(<<t, i>>, outgoing[p][l])
       /\ AtOutlet(o, k, t, i)' = Times(<<t, i>>, outgoing'[p][l])
  BY DEF AtOutlet, p, l
<1>12. /\ AtInlet(o, k, t, i)' = IF <<o, k>> \in LeadTo(some, u, j) THEN 0
                                 ELSE AtInlet(o, k, t, i)
       /\ AtOutlet(o, k, t, i)' = IF <<t, i>> \in LedToFrom(some, p, l) THEN 0
                                  ELSE AtOutlet(o, k, t, i)
  BY <1>8, <1>9, <1>10, <1>11
<1> QED
  BY <1>1, <1>2, <1>6, <1>7, <1>12

LEMMA ListsStay ==
    ASSUME Lists, NEW some, Disconnect(some), patch' \subseteq patch
    PROVE  Lists'
PROOF
<1>1. \A t \in Nodes : \A i \in 1 .. NumInlets(t) :
          /\ incoming'[t][i] = Without(incoming[t][i], LeadTo(some, t, i))
          /\ incoming'[t][i] \in Seq(Ends)
  BY WithoutKeepsTheRest DEF Lists, Disconnect
<1>2. \A o \in Nodes : \A k \in 1 .. NumOutlets(o) :
          /\ outgoing'[o][k] = Without(outgoing[o][k], LedToFrom(some, o, k))
          /\ outgoing'[o][k] \in Seq(Ends)
  BY WithoutKeepsTheRest DEF Lists, Disconnect
<1>3. /\ incoming' = [t \in Nodes |-> [i \in 1 .. NumInlets(t) |-> incoming'[t][i]]]
      /\ outgoing' = [o \in Nodes |-> [k \in 1 .. NumOutlets(o) |-> outgoing'[o][k]]]
  BY DEF Disconnect
<1> QED
  BY <1>1, <1>2, <1>3 DEF Lists

\* What both ends know of.
KnownToBoth(o, k, t, i) ==
    GraphOf[o] = GraphOf[t] /\ Takes(t, i, ConnectionType(o, k)) /\ OneMessageOutlet(o)

\* The invariant.
Connected ==
    /\ Lists
    /\ \A o, t \in patch :
           \A k \in 1 .. NumOutlets(o), i \in 1 .. NumInlets(t) :
               KnownToBoth(o, k, t, i) => Agrees(o, k, t, i)

LEMMA ConnectedAtFirst ==
    ASSUME Unconnected
    PROVE  Connected
PROOF
<1>1. Lists
  <2>1. /\ \A t \in Nodes : \A i \in 1 .. NumInlets(t) : incoming[t][i] = <<>>
        /\ \A o \in Nodes : \A k \in 1 .. NumOutlets(o) : outgoing[o][k] = <<>>
    BY DEF Unconnected
  <2>2. patch \subseteq Nodes
    BY ConnectionAssumption DEF Unconnected
  <2>3. <<>> \in Seq(Ends)
    OBVIOUS
  <2>4. /\ incoming = [t \in Nodes |-> [i \in 1 .. NumInlets(t) |-> incoming[t][i]]]
        /\ outgoing = [o \in Nodes |-> [k \in 1 .. NumOutlets(o) |-> outgoing[o][k]]]
    BY DEF Unconnected
  <2> QED
    BY <2>1, <2>2, <2>3, <2>4 DEF Lists
<1>2. ASSUME NEW o \in patch, NEW t \in patch,
             NEW k \in 1 .. NumOutlets(o), NEW i \in 1 .. NumInlets(t)
      PROVE  Agrees(o, k, t, i)
  <2>1. o \in Nodes /\ t \in Nodes
    BY <1>1 DEF Lists
  <2>2. incoming[InletOf(t, i)[1]][InletOf(t, i)[2]] = <<>>
    BY <2>1, InletIsKept DEF Unconnected
  <2>3. outgoing[OutletOf(o, k)[1]][OutletOf(o, k)[2]] = <<>>
    BY <2>1, OutletIsKept DEF Unconnected
  <2> QED
    BY <2>2, <2>3, TimesOfNone DEF Agrees, AtInlet, AtOutlet
<1> QED
  BY <1>1, <1>2 DEF Connected

\* A connection that is made is kept at both ends, at the same two places
\* that are looked at for it later, unless the inlet refuses it or it is kept
\* at another outlet; and no other connection is kept with it.
LEMMA ConnectionIsKept ==
    ASSUME Connected, NEW o \in patch, NEW t \in patch,
           NEW k \in 1 .. NumOutlets(o), NEW i \in 1 .. NumInlets(t),
           addConnection(o, k, t, i)
    PROVE  Connected'
PROOF
<1> DEFINE u == InletOf(t, i)[1]
           j == InletOf(t, i)[2]
           kept == IF Kind[o] = "graph" /\ ConnectionType(o, k) = "MESSAGE"
                   THEN i ELSE k
           taken == Takes(t, i, ConnectionType(o, k))
           p == OutletOf(o, kept)[1]
           l == OutletOf(o, kept)[2]
<1>1. o \in Nodes /\ t \in Nodes /\ GraphOf[o] = GraphOf[t] /\ patch' = patch
  BY DEF Connected, Lists, addConnection, Connectable
<1>2. u \in Nodes /\ j \in 1 .. NumInlets(u) /\ InletOf(t, i) = <<u, j>>
  BY <1>1, InletIsKept DEF InletOf
<1>3. kept \in 1 .. NumOutlets(o)
  <2>1. CASE Kind[o] = "graph" /\ ConnectionType(o, k) = "MESSAGE"
    <3>1. i <= Len(OutletList[o]) /\ NumOutlets(o) = Len(OutletList[o])
      BY <1>1, <2>1 DEF addConnection, Connectable, NumOutlets
    <3>2. i \in Nat /\ i >= 1 /\ Len(OutletList[o]) \in Nat
      BY <1>1, <2>1, LetsAreCounted DEF NumOutlets
    <3> QED
      BY <2>1, <3>1, <3>2
  <2> QED
    BY <2>1
<1>4. OneMessageOutlet(o) => kept = k
  <2>1. CASE Kind[o] = "graph" /\ ConnectionType(o, k) = "MESSAGE"
    <3>1. OneMessageOutlet(o) => NumOutlets(o) = 1
      BY <2>1 DEF OneMessageOutlet
    <3> QED
      BY <1>3, <2>1, <3>1
  <2> QED
    BY <2>1
<1>5. incoming' = IF taken THEN [incoming EXCEPT ![u][j] = Append(@, <<o, k>>)]
                  ELSE incoming
  BY DEF addConnection
<1>6. outgoing' = [outgoing EXCEPT ![p][l] = Append(@, <<t, i>>)]
  BY DEF addConnection, NewOutletOf
<1>7. <<o, k>> \in Ends /\ <<t, i>> \in Ends
  BY <1>1, LetsAreCounted DEF Ends
<1> HIDE DEF kept
<1>8. p \in Nodes /\ l \in 1 .. NumOutlets(p) /\ OutletOf(o, kept) = <<p, l>>
  BY <1>1, <1>3, OutletIsKept DEF OutletOf
<1> HIDE DEF taken
<1> HIDE DEF u, j, p, l
<1>9. \A v \in Nodes : \A m \in 1 .. NumInlets(v) :
          /\ incoming[v][m] \in Seq(Ends)
          /\ incoming'[v][m] = IF taken /\ v = u /\ m = j
                               THEN Append(incoming[v][m], <<o, k>>)
                               ELSE incoming[v][m]
  BY <1>5 DEF Connected, Lists
<1>10. \A q \in Nodes : \A n \in 1 .. NumOutlets(q) :
          /\ outgoing[q][n] \in Seq(Ends)
          /\ outgoing'[q][n] = IF q = p /\ n = l THEN Append(outgoing[q][n], <<t, i>>)
                               ELSE outgoing[q][n]
  BY <1>6 DEF Connected, Lists
<1>11. Lists'
  <2>1. /\ \A v \in Nodes : \A m \in 1 .. NumInlets(v) : incoming'[v][m] \in Seq(Ends)
        /\ \A q \in Nodes : \A n \in 1 .. NumOutlets(q) : outgoing'[q][n] \in Seq(Ends)
    <3>1. \A e \in Ends : \A list \in Seq(Ends) : Append(list, e) \in Seq(Ends)
      OBVIOUS
    <3> QED
      BY <1>7, <1>9, <1>10, <3>1
  <2>2. incoming' = [v \in Nodes |-> [m \in 1 .. NumInlets(v) |-> incoming'[v][m]]]
    BY <1>2, <1>5 DEF Connected, Lists
  <2>3. outgoing' = [q \in Nodes |-> [n \in 1 .. NumOutlets(q) |-> outgoing'[q][n]]]
    BY <1>8, <1>6 DEF Connected, Lists
  <2>4. patch' \subseteq Nodes
    BY <1>1 DEF Connected, Lists
  <2> QED
    BY <2>1, <2>2, <2>3, <2>4 DEF Lists
<1>12. ASSUME NEW q \in patch, NEW v \in patch,
              NEW n \in 1 .. NumOutlets(q), NEW m \in 1 .. NumInlets(v),
              KnownToBoth(q, n, v, m)
       PROVE  Agrees(q, n, v, m)'
  <2> DEFINE same == q = o /\ n = k /\ v = t /\ m = i
  <2>1. q \in Nodes /\ v \in Nodes
    BY DEF Connected, Lists
  <2>2. Agrees(q, n, v, m)
    BY <1>12 DEF Connected
  <2>3. GraphOf[q] = GraphOf[v]
    BY <1>12 DEF KnownToBoth
  <2>4. same => taken /\ kept = k
    BY <1>4, <1>12 DEF KnownToBoth, taken
  <2>5. AtInlet(q, n, v, m)' = AtInlet(q, n, v, m) + (IF same THEN 1 ELSE 0)
    <3> DEFINE w == InletOf(v, m)[1]
               h == InletOf(v, m)[2]
    <3>1. w \in Nodes /\ h \in 1 .. NumInlets(w) /\ InletOf(v, m) = <<w, h>>
      BY <2>1, InletIsKept DEF InletOf
    <3>2. q = o /\ n = k /\ w = u /\ h = j => v = t /\ m = i
      <4>1. SUFFICES ASSUME q = o, w = u, h = j
                     PROVE  v = t /\ m = i
        OBVIOUS
      <4>2. InletOf(v, m) = InletOf(t, i)
        BY <1>2, <3>1, <4>1
      <4> QED
        BY <1>1, <2>1, <2>3, <4>1, <4>2, InletsDiffer
    <3>3. v = t /\ m = i => w = u /\ h = j
      BY DEF u, j
    <3> HIDE DEF w, h
    <3>4. /\ incoming[w][h] \in Seq(Ends)
          /\ incoming'[w][h] = IF taken /\ w = u /\ h = j
                               THEN Append(incoming[w][h], <<o, k>>)
                               ELSE incoming[w][h]
      BY <1>9, <3>1
    <3>5. Times(<<q, n>>, incoming'[w][h]) =
              Times(<<q, n>>, incoming[w][h])
                  + (IF taken /\ w = u /\ h = j /\ <<q, n>> = <<o, k>> THEN 1 ELSE 0)
      <4>1. Times(<<q, n>>, incoming[w][h]) \in Nat
        BY <3>4, TimesIsNumber
      <4>2. Times(<<q, n>>, Append(incoming[w][h], <<o, k>>)) =
                Times(<<q, n>>, incoming[w][h])
                    + (IF <<q, n>> = <<o, k>> THEN 1 ELSE 0)
        BY <1>7, <3>4, TimesOfAppend
      <4> QED
        BY <3>4, <4>1, <4>2
    <3>6. /\ AtInlet(q, n, v, m) = Times(<<q, n>>, incoming[w][h])
          /\ AtInlet(q, n, v, m)' = Times(<<q, n>>, incoming'[w][h])
      BY DEF AtInlet, w, h
    <3> QED
      BY <2>4, <3>2, <3>3, <3>5, <3>6
  <2>6. AtOutlet(q, n, v, m)' = AtOutlet(q, n, v, m) + (IF same THEN 1 ELSE 0)
    <3> DEFINE w == OutletOf(q, n)[1]
               h == OutletOf(q, n)[2]
    <3>1. w \in Nodes /\ h \in 1 .. NumOutlets(w) /\ OutletOf(q, n) = <<w, h>>
      BY <2>1, OutletIsKept DEF OutletOf
    <3>2. v = t /\ m = i /\ w = p /\ h = l => q = o /\ n = kept
      <4>1. SUFFICES ASSUME v = t, w = p, h = l
                     PROVE  q = o /\ n = kept
        OBVIOUS
      <4>2. OutletOf(q, n) = OutletOf(o, kept)
        BY <1>8, <3>1, <4>1
      <4> QED
        BY <1>1, <1>3, <2>1, <2>3, <4>1, <4>2, OutletsDiffer
    <3>3. q = o /\ n = kept => w = p /\ h = l
      BY DEF p, l
    <3> HIDE DEF w, h
    <3>4. /\ outgoing[w][h] \in Seq(Ends)
          /\ outgoing'[w][h] = IF w = p /\ h = l THEN Append(outgoing[w][h], <<t, i>>)
                               ELSE outgoing[w][h]
      BY <1>10, <3>1
    <3>5. Times(<<v, m>>, outgoing'[w][h]) =
              Times(<<v, m>>, outgoing[w][h])
                  + (IF w = p /\ h = l /\ <<v, m>> = <<t, i>> THEN 1 ELSE 0)
      <4>1. Times(<<v, m>>, outgoing[w][h]) \in Nat
        BY <3>4, TimesIsNumber
      <4>2. Times(<<v, m>>, Append(outgoing[w][h], <<t, i>>)) =
                Times(<<v, m>>, outgoing[w][h])
                    + (IF <<v, m>> = <<t, i>> THEN 1 ELSE 0)
        BY <1>7, <3>4, TimesOfAppend
      <4> QED
        BY <3>4, <4>1, <4>2
    <3>6. /\ AtOutlet(q, n, v, m) = Times(<<v, m>>, outgoing[w][h])
          /\ AtOutlet(q, n, v, m)' = Times(<<v, m>>, outgoing'[w][h])
      BY DEF AtOutlet, w, h
    <3>7. q = o /\ v = t => kept = k
      BY <1>4, <1>12 DEF KnownToBoth
    <3> QED
      BY <3>2, <3>3, <3>5, <3>6, <3>7
  <2> HIDE DEF same
  <2> QED
    BY <2>2, <2>5, <2>6 DEF Agrees
<1> QED
  BY <1>1, <1>11, <1>12 DEF Connected

\* A connection that is removed is forgotten by both ends, and no other is.
LEMMA ConnectionIsForgotten ==
    ASSUME Connected, NEW o \in patch, NEW t \in patch,
           NEW k \in 1 .. NumOutlets(o), NEW i \in 1 .. NumInlets(t),
           removeConnection(o, k, t, i)
    PROVE  Connected'
PROOF
<1> DEFINE some == {<<o, k, t, i>>}
<1>1. /\ Lists /\ o \in Nodes /\ t \in Nodes /\ GraphOf[o] = GraphOf[t]
      /\ patch' = patch /\ Disconnect(some)
  BY DEF Connected, Lists, removeConnection
<1> HIDE DEF some
<1>2. Lists'
  BY <1>1, ListsStay
<1>3. ASSUME NEW q \in patch, NEW v \in patch,
             NEW n \in 1 .. NumOutlets(q), NEW m \in 1 .. NumInlets(v),
             KnownToBoth(q, n, v, m)
      PROVE  Agrees(q, n, v, m)'
  <2>1. q \in Nodes /\ v \in Nodes
    BY <1>1 DEF Lists
  <2>2. Agrees(q, n, v, m) /\ GraphOf[q] = GraphOf[v]
    BY <1>3 DEF Connected, KnownToBoth
  <2>3. (\E d \in some : /\ <<d[1], d[2]>> = <<q, n>>
                         /\ InletOf(d[3], d[4]) = InletOf(v, m))
            <=> q = o /\ n = k /\ v = t /\ m = i
    <3>1. q = o /\ InletOf(t, i) = InletOf(v, m) => v = t /\ m = i
      BY <1>1, <2>1, <2>2, InletsDiffer
    <3> QED
      BY <3>1 DEF some
  <2>4. (\E d \in some : /\ <<d[3], d[4]>> = <<v, m>>
                         /\ OutletOf(d[1], d[2]) = OutletOf(q, n))
            <=> q = o /\ n = k /\ v = t /\ m = i
    <3>1. v = t /\ OutletOf(o, k) = OutletOf(q, n) => q = o /\ n = k
      BY <1>1, <2>1, <2>2, OutletsDiffer
    <3> QED
      BY <3>1 DEF some
  <2>5. /\ AtInlet(q, n, v, m)' = IF q = o /\ n = k /\ v = t /\ m = i THEN 0
                                  ELSE AtInlet(q, n, v, m)
        /\ AtOutlet(q, n, v, m)' = IF q = o /\ n = k /\ v = t /\ m = i THEN 0
                                   ELSE AtOutlet(q, n, v, m)
    BY <1>1, <2>1, <2>3, <2>4, Forgotten
  <2> QED
    BY <2>2, <2>5 DEF Agrees
<1> QED
  BY <1>1, <1>2, <1>3 DEF Connected

\* What is connected to an object that is removed forgets it, and nothing
\* else: what remains keeps its connections elsewhere.
LEMMA ObjectIsForgotten ==
    ASSUME Connected, NEW o \in patch, removeObject(o)
    PROVE  Connected'
PROOF
<1> DEFINE some == IncomingConnections(o) \cup OutgoingConnections(o)
<1>1. /\ Lists /\ o \in Nodes /\ Disconnect(some) /\ patch' = patch \ Deleted(o)
      /\ Kind[o] \in {"dsp", "message", "graph"}
  BY DEF Connected, Lists, removeObject
<1>2. ASSUME NEW d \in some
      PROVE  \/ d[3] = o /\ d[4] \in 1 .. NumInlets(o)
             \/ d[1] = o /\ d[2] \in 1 .. NumOutlets(o)
  BY DEF IncomingConnections, OutgoingConnections
<1> HIDE DEF some
<1>3. Lists'
  BY <1>1, ListsStay
<1>4. ASSUME NEW q \in patch', NEW v \in patch',
             NEW n \in 1 .. NumOutlets(q), NEW m \in 1 .. NumInlets(v),
             KnownToBoth(q, n, v, m)
      PROVE  Agrees(q, n, v, m)'
  <2>1. /\ q \in patch /\ v \in patch /\ q \in Nodes /\ v \in Nodes
        /\ q # o /\ v # o
        /\ Kind[o] = "graph" => GraphOf[q] # o /\ GraphOf[v] # o
    BY <1>1 DEF Lists, Deleted
  <2>2. Agrees(q, n, v, m)
    BY <1>4, <2>1 DEF Connected
  <2>3. ~ \E d \in some : /\ <<d[1], d[2]>> = <<q, n>>
                          /\ InletOf(d[3], d[4]) = InletOf(v, m)
    <3>1. SUFFICES ASSUME NEW d \in some, d[1] = q,
                          InletOf(d[3], d[4]) = InletOf(v, m)
                   PROVE  FALSE
      OBVIOUS
    <3>2. d[3] = o /\ d[4] \in 1 .. NumInlets(o)
      BY <1>2, <2>1, <3>1
    <3>3. InletOf(o, d[4]) = InletOf(v, m)
      BY <3>1, <3>2
    <3> QED
      BY <1>1, <2>1, <3>2, <3>3, InletsKeptTogether
  <2>4. ~ \E d \in some : /\ <<d[3], d[4]>> = <<v, m>>
                          /\ OutletOf(d[1], d[2]) = OutletOf(q, n)
    <3>1. SUFFICES ASSUME NEW d \in some, d[3] = v,
                          OutletOf(d[1], d[2]) = OutletOf(q, n)
                   PROVE  FALSE
      OBVIOUS
    <3>2. d[1] = o /\ d[2] \in 1 .. NumOutlets(o)
      BY <1>2, <2>1, <3>1
    <3>3. OutletOf(o, d[2]) = OutletOf(q, n)
      BY <3>1, <3>2
    <3> QED
      BY <1>1, <2>1, <3>2, <3>3, OutletsKeptTogether
  <2>5. /\ AtInlet(q, n, v, m)' = AtInlet(q, n, v, m)
        /\ AtOutlet(q, n, v, m)' = AtOutlet(q, n, v, m)
    BY <1>1, <2>1, <2>3, <2>4, Forgotten
  <2> QED
    BY <2>2, <2>5 DEF Agrees
<1> QED
  BY <1>3, <1>4 DEF Connected

\* Both ends of a connection know of it, as often as it was made, whatever is
\* connected, disconnected and removed, and whatever connections besides it
\* are refused by an inlet that has no list for them, or kept at another
\* outlet of their graph (PdGraph::addConnection).
THEOREM ConnectionsCorrect == Connecting => []EndsAgree
PROOF
<1>1. Unconnected => Connected
  BY ConnectedAtFirst
<1>2. ASSUME Connected, [Reconnect]_connections
      PROVE  Connected'
  <2>1. ASSUME NEW o \in patch, NEW t \in patch,
               NEW k \in 1 .. NumOutlets(o), NEW i \in 1 .. NumInlets(t),
               addConnection(o, k, t, i)
        PROVE  Connected'
    BY <1>2, <2>1, ConnectionIsKept
  <2>2. ASSUME NEW o \in patch, NEW t \in patch,
               NEW k \in 1 .. NumOutlets(o), NEW i \in 1 .. NumInlets(t),
               removeConnection(o, k, t, i)
        PROVE  Connected'
    BY <1>2, <2>2, ConnectionIsForgotten
  <2>3. ASSUME NEW o \in patch, removeObject(o)
        PROVE  Connected'
    BY <1>2, <2>3, ObjectIsForgotten
  <2>4. CASE UNCHANGED connections
    BY <1>2, <2>4
       DEF connections, Connected, Lists, KnownToBoth, Agrees, AtInlet, AtOutlet
  <2> QED
    BY <1>2, <2>1, <2>2, <2>3, <2>4 DEF Reconnect, AddOrRemove
<1>3. Connected => EndsAgree
  BY DEF Connected, EndsAgree, KnownToBoth, Agrees, AtInlet, AtOutlet
<1> QED
  BY <1>1, <1>2, <1>3, PTL DEF Connecting

==============================================================================
