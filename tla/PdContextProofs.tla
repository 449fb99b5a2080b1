-------------------------- MODULE PdContextProofs --------------------------
(***************************************************************************)
(* What insertMessage, removeMessage and pop do to the entries of a queue, *)
(* for queues of any length, and what scheduleMessage, cancelMessage and   *)
(* process() do to the queue and the heap.                                 *)
(***************************************************************************)
EXTENDS PdContext, SequenceTheorems, WellFoundedInduction, TLAPS

\* A walk down a list stops at the first position that it is looking for.
LEMMA FirstOf ==
    ASSUME NEW T, T \subseteq Nat, T # {}
    PROVE  \E i \in T : \A j \in T : i <= j
PROOF
<1> DEFINE R == OpToRel(<, Nat)
<1>1. IsWellFoundedOn(R, Nat)
  BY NatLessThanWellFounded
<1>2. \A i, j \in Nat : <<i, j>> \notin R => j <= i
  BY DEF OpToRel
<1> HIDE DEF R
<1>3. \E i \in T : \A j \in T : ~ (<<j, i>> \in R)
  BY <1>1, WFMin
<1> QED
  BY <1>2, <1>3

\* A walk that starts at a and goes on from each place but the last gets to
\* all of them.
LEMMA UpTo ==
    ASSUME NEW a \in Nat, NEW b \in Nat, NEW T, a \in T,
           \A k \in a + 1 .. b : k - 1 \in T => k \in T
    PROVE  a .. b \subseteq T
PROOF
<1> DEFINE D == {k \in a .. b : k \notin T}
<1> SUFFICES ASSUME D # {}
             PROVE  FALSE
  OBVIOUS
<1>1. D \subseteq Nat
  OBVIOUS
<1>2. PICK k \in D : \A j \in D : k <= j
  <2> HIDE DEF D
  <2> QED
    BY <1>1, FirstOf
<1>3. k \in a .. b /\ k \notin T /\ k # a
  OBVIOUS
<1>4. k \in a + 1 .. b /\ k - 1 \in a .. b /\ ~ (k <= k - 1)
  BY <1>3
<1>5. k - 1 \notin D
  BY <1>2, <1>4
<1> QED
  BY <1>3, <1>4, <1>5

-----------------------------------------------------------------------------
(***************************************************************************)
(* What the library's InsertAt and RemoveAt do, element by element.        *)
(***************************************************************************)

\* t is s with e put in at position i.
IsInserted(t, s, i, e) ==
    /\ Len(t) = Len(s) + 1
    /\ \A j \in 1 .. Len(s) + 1 :
           t[j] = IF j < i THEN s[j] ELSE IF j = i THEN e ELSE s[j - 1]

\* t is s without its element at position i.
IsRemoved(t, s, i) ==
    /\ Len(t) = Len(s) - 1
    /\ \A j \in 1 .. Len(s) - 1 : t[j] = IF j < i THEN s[j] ELSE s[j + 1]

\* list::insert moves the elements from the insertion point on by one.
LEMMA InsertAtElements ==
    ASSUME NEW S, NEW s \in Seq(S), NEW e \in S, NEW i \in 1 .. Len(s) + 1
    PROVE  /\ InsertAt(s, i, e) \in Seq(S)
           /\ IsInserted(InsertAt(s, i, e), s, i, e)
PROOF
<1> DEFINE a == SubSeq(s, 1, i - 1)
           b == SubSeq(s, i, Len(s))
           c == a \o <<e>>
           d == c \o b
<1>1. /\ Len(s) \in Nat
      /\ i \in Int
      /\ \A j \in 1 .. Len(s) : s[j] \in S
  BY LenProperties, ElementOfSeq
<1>2. /\ a \in Seq(S)
      /\ Len(a) = i - 1
      /\ \A j \in 1 .. i - 1 : a[j] = s[j]
  <2>1. \A j \in 1 .. i - 1 : s[j] \in S
    BY <1>1
  <2> QED
    BY <1>1, <2>1, SubSeqProperties
<1>3. /\ b \in Seq(S)
      /\ Len(b) = Len(s) - i + 1
      /\ \A j \in 1 .. Len(s) - i + 1 : b[j] = s[i + j - 1]
  <2>1. \A j \in i .. Len(s) : s[j] \in S
    BY <1>1
  <2> QED
    BY <1>1, <2>1, SubSeqProperties
<1> HIDE DEF a, b
<1>4. /\ <<e>> \in Seq(S)
      /\ Len(<<e>>) = 1
      /\ <<e>>[1] = e
  OBVIOUS
<1>5. /\ c \in Seq(S)
      /\ Len(c) = i
      /\ \A j \in 1 .. i : c[j] = IF j < i THEN s[j] ELSE e
  <2> DEFINE u == <<e>>
  <2>1. u \in Seq(S) /\ Len(u) = 1 /\ u[1] = e
    BY <1>4
  <2>2. c = a \o u
    OBVIOUS
  <2> HIDE DEF u, c
  <2>3. /\ c \in Seq(S)
        /\ Len(c) = Len(a) + Len(u)
        /\ \A j \in 1 .. Len(a) + Len(u) :
               c[j] = IF j <= Len(a) THEN a[j] ELSE u[j - Len(a)]
    BY <1>2, <2>1, <2>2, ConcatProperties
  <2>4. Len(a) + Len(u) = i
    BY <1>1, <1>2, <2>1
  <2>5. ASSUME NEW j \in 1 .. i
        PROVE  c[j] = IF j < i THEN s[j] ELSE e
    <3>1. CASE j < i
      BY <1>1, <1>2, <2>3, <2>4, <3>1
    <3>2. CASE j = i
      BY <1>1, <1>2, <2>1, <2>3, <2>4, <3>2
    <3> QED
      BY <1>1, <3>1, <3>2
  <2> QED
    BY <2>3, <2>4, <2>5
<1> HIDE DEF c
<1>6. /\ d \in Seq(S)
      /\ Len(d) = Len(c) + Len(b)
      /\ \A j \in 1 .. Len(c) + Len(b) :
             d[j] = IF j <= Len(c) THEN c[j] ELSE b[j - Len(c)]
  BY <1>3, <1>5, ConcatProperties
<1>7. InsertAt(s, i, e) = d
  BY DEF InsertAt, a, b, c
<1> HIDE DEF d
<1>8. Len(d) = Len(s) + 1
  BY <1>1, <1>3, <1>5, <1>6
<1>9. ASSUME NEW j \in 1 .. Len(s) + 1
      PROVE  d[j] = IF j < i THEN s[j] ELSE IF j = i THEN e ELSE s[j - 1]
  <2>1. CASE j <= i
    <3>1. d[j] = c[j]
      BY <1>1, <1>3, <1>5, <1>6, <2>1
    <3> QED
      BY <1>1, <1>5, <2>1, <3>1
  <2>2. CASE j > i
    <3>1. d[j] = b[j - i]
      BY <1>1, <1>3, <1>5, <1>6, <2>2
    <3>2. j - i \in 1 .. Len(s) - i + 1 /\ i + (j - i) - 1 = j - 1
      BY <1>1, <2>2
    <3>3. b[j - i] = s[i + (j - i) - 1]
      BY <1>3, <3>2
    <3>4. ~ (j < i) /\ j # i
      BY <1>1, <2>2
    <3> QED
      BY <3>1, <3>2, <3>3, <3>4
  <2>3. j <= i \/ j > i
    BY <1>1
  <2> QED
    BY <2>1, <2>2, <2>3
<1> QED
  BY <1>6, <1>7, <1>8, <1>9 DEF IsInserted

\* list::erase moves the elements behind the erased one by one.
LEMMA RemoveAtElements ==
    ASSUME NEW S, NEW s \in Seq(S), NEW i \in 1 .. Len(s)
    PROVE  /\ RemoveAt(s, i) \in Seq(S)
           /\ IsRemoved(RemoveAt(s, i), s, i)
PROOF
<1> DEFINE a == SubSeq(s, 1, i - 1)
           b == SubSeq(s, i + 1, Len(s))
           d == a \o b
<1>1. /\ Len(s) \in Nat
      /\ i \in Int
      /\ \A j \in 1 .. Len(s) : s[j] \in S
  BY LenProperties, ElementOfSeq
<1>2. /\ a \in Seq(S)
      /\ Len(a) = i - 1
      /\ \A j \in 1 .. i - 1 : a[j] = s[j]
  <2>1. \A j \in 1 .. i - 1 : s[j] \in S
    BY <1>1
  <2> QED
    BY <1>1, <2>1, SubSeqProperties
<1>3. /\ b \in Seq(S)
      /\ Len(b) = Len(s) - i
      /\ \A j \in 1 .. Len(s) - i : b[j] = s[i + j]
  <2>1. \A j \in i + 1 .. Len(s) : s[j] \in S
    BY <1>1
  <2>2. /\ b \in Seq(S)
        /\ Len(b) = IF i + 1 <= Len(s) THEN Len(s) - (i + 1) + 1 ELSE 0
        /\ \A j \in 1 .. Len(s) - (i + 1) + 1 : b[j] = s[i + 1 + j - 1]
    BY <1>1, <2>1, SubSeqProperties
  <2> QED
    BY <1>1, <2>2
<1> HIDE DEF a, b
<1>4. /\ d \in Seq(S)
      /\ Len(d) = Len(a) + Len(b)
      /\ \A j \in 1 .. Len(a) + Len(b) :
             d[j] = IF j <= Len(a) THEN a[j] ELSE b[j - Len(a)]
  BY <1>2, <1>3, ConcatProperties
<1>5. RemoveAt(s, i) = d
  BY DEF RemoveAt, a, b
<1> HIDE DEF d
<1>6. Len(d) = Len(s) - 1
  BY <1>1, <1>2, <1>3, <1>4
<1>7. ASSUME NEW j \in 1 .. Len(s) - 1
      PROVE  d[j] = IF j < i THEN s[j] ELSE s[j + 1]
  <2>1. CASE j < i
    <3>1. j \in 1 .. Len(a) + Len(b) /\ j <= Len(a) /\ j \in 1 .. i - 1
      BY <1>1, <1>2, <1>3, <2>1
    <3>2. d[j] = a[j] /\ a[j] = s[j]
      BY <1>2, <1>4, <3>1
    <3> QED
      BY <2>1, <3>2
  <2>2. CASE j >= i
    <3>1. d[j] = b[j - (i - 1)]
      <4>1. j \in 1 .. Len(a) + Len(b) /\ ~ (j <= Len(a))
        BY <1>1, <1>2, <1>3, <2>2
      <4> QED
        BY <1>2, <1>4, <4>1
    <3>2. j - (i - 1) \in 1 .. Len(s) - i /\ i + (j - (i - 1)) = j + 1
      BY <1>1, <2>2
    <3>3. b[j - (i - 1)] = s[i + (j - (i - 1))]
      BY <1>3, <3>2
    <3>4. ~ (j < i)
      BY <1>1, <2>2
    <3> QED
      BY <3>1, <3>2, <3>3, <3>4
  <2>3. j < i \/ j >= i
    BY <1>1
  <2> QED
    BY <2>1, <2>2, <2>3
<1> QED
  BY <1>4, <1>5, <1>6, <1>7 DEF IsRemoved

-----------------------------------------------------------------------------
(***************************************************************************)
(* What an insertion and a removal do to the set of entries, to the        *)
(* messages pointed to and to the order.                                   *)
(***************************************************************************)

EntriesOf(queue) == {queue[i] : i \in 1 .. Len(queue)}

\* The messages of a queue are those of its entries.
LEMMA MessagesOfEntries ==
    ASSUME NEW queue
    PROVE  MessagesOf(queue) = {x.message : x \in EntriesOf(queue)}
  BY DEF MessagesOf, EntriesOf

\* One entry more, and a message that was not in the queue is in it once.
LEMMA InsertedEntries ==
    ASSUME NEW S, NEW s \in Seq(S), NEW t \in Seq(S), NEW e \in S,
           NEW i \in 1 .. Len(s) + 1, IsInserted(t, s, i, e)
    PROVE  /\ EntriesOf(t) = EntriesOf(s) \cup {e}
           /\ PointsOnce(s) /\ e.message \notin MessagesOf(s) => PointsOnce(t)
PROOF
<1>1. Len(s) \in Nat /\ i \in Int
  BY LenProperties
<1>2. EntriesOf(t) \subseteq EntriesOf(s) \cup {e}
  <2>1. ASSUME NEW j \in 1 .. Len(t)
        PROVE  t[j] \in EntriesOf(s) \cup {e}
    <3>1. j < i \/ j = i \/ j > i
      BY <1>1
    <3>2. CASE j < i
      <4>1. t[j] = s[j] /\ j \in 1 .. Len(s)
        BY <1>1, <3>2 DEF IsInserted
      <4> QED
        BY <4>1 DEF EntriesOf
    <3>3. CASE j = i
      BY <1>1, <3>3 DEF IsInserted
    <3>4. CASE j > i
      <4>1. t[j] = s[j - 1] /\ j - 1 \in 1 .. Len(s)
        BY <1>1, <3>4 DEF IsInserted
      <4> QED
        BY <4>1 DEF EntriesOf
    <3> QED
      BY <3>1, <3>2, <3>3, <3>4
  <2> QED
    BY <2>1 DEF EntriesOf
<1>3. EntriesOf(s) \cup {e} \subseteq EntriesOf(t)
  <2>1. ASSUME NEW j \in 1 .. Len(s)
        PROVE  s[j] \in EntriesOf(t)
    <3>1. CASE j < i
      <4>1. t[j] = s[j] /\ j \in 1 .. Len(t)
        BY <1>1, <3>1 DEF IsInserted
      <4> QED
        BY <4>1 DEF EntriesOf
    <3>2. CASE ~ (j < i)
      <4>1. j + 1 \in 1 .. Len(s) + 1 /\ ~ (j + 1 < i) /\ j + 1 # i
        BY <1>1, <3>2
      <4>2. t[j + 1] = s[j + 1 - 1] /\ j + 1 \in 1 .. Len(t)
        BY <4>1 DEF IsInserted
      <4>3. j + 1 - 1 = j
        BY <1>1
      <4> QED
        BY <4>2, <4>3 DEF EntriesOf
    <3> QED
      BY <3>1, <3>2
  <2>2. t[i] = e /\ i \in 1 .. Len(t)
    BY <1>1 DEF IsInserted
  <2> QED
    BY <2>1, <2>2 DEF EntriesOf
<1>4. ASSUME PointsOnce(s), e.message \notin MessagesOf(s)
      PROVE  PointsOnce(t)
  <2>1. SUFFICES ASSUME NEW j \in 1 .. Len(s) + 1, NEW k \in 1 .. Len(s) + 1,
                        j < k, t[j].message = t[k].message
                 PROVE  FALSE
    <3>1. \A j, k \in 1 .. Len(s) + 1 : j < k \/ k < j \/ j = k
      BY <1>1
    <3> QED
      BY <2>1, <3>1 DEF PointsOnce, IsInserted
  <2>2. \A l \in 1 .. Len(s) : s[l].message # e.message
    BY <1>4 DEF MessagesOf
  <2>3. CASE k < i
    BY <1>1, <1>4, <2>1, <2>3 DEF PointsOnce, IsInserted
  <2>4. CASE k = i
    BY <1>1, <2>1, <2>2, <2>4 DEF IsInserted
  <2>5. CASE k > i
    <3>1. t[k] = s[k - 1] /\ k - 1 \in 1 .. Len(s)
      BY <1>1, <2>5 DEF IsInserted
    <3>2. CASE j < i
      <4>1. t[j] = s[j] /\ j \in 1 .. Len(s) /\ j # k - 1
        BY <1>1, <2>5, <3>2 DEF IsInserted
      <4> QED
        BY <1>4, <2>1, <3>1, <4>1 DEF PointsOnce
    <3>3. CASE j = i
      BY <1>1, <2>1, <2>2, <3>1, <3>3 DEF IsInserted
    <3>4. CASE j > i
      <4>1. t[j] = s[j - 1] /\ j - 1 \in 1 .. Len(s) /\ j - 1 # k - 1
        BY <1>1, <2>1, <3>4 DEF IsInserted
      <4> QED
        BY <1>4, <2>1, <3>1, <4>1 DEF PointsOnce
    <3>5. j < i \/ j = i \/ j > i
      BY <1>1
    <3> QED
      BY <3>2, <3>3, <3>4, <3>5
  <2>6. k < i \/ k = i \/ k > i
    BY <1>1
  <2> QED
    BY <2>3, <2>4, <2>5, <2>6
<1> QED
  BY <1>2, <1>3, <1>4

\* One entry less, when no two entries have the same message.
LEMMA RemovedEntries ==
    ASSUME NEW S, NEW s \in Seq(S), NEW t \in Seq(S),
           NEW i \in 1 .. Len(s), IsRemoved(t, s, i), PointsOnce(s)
    PROVE  /\ EntriesOf(t) = EntriesOf(s) \ {s[i]}
           /\ PointsOnce(t)
PROOF
<1> DEFINE Old(j) == IF j < i THEN j ELSE j + 1
<1>1. Len(s) \in Nat /\ i \in Int
  BY LenProperties
<1>2. \A j \in 1 .. Len(t) :
          /\ Old(j) \in 1 .. Len(s)
          /\ Old(j) # i
          /\ t[j] = s[Old(j)]
  BY <1>1 DEF IsRemoved
<1>3. \A k \in 1 .. Len(s) :
          k # i => \E j \in 1 .. Len(t) : Old(j) = k
  <2> SUFFICES ASSUME NEW k \in 1 .. Len(s), k # i
               PROVE  \E j \in 1 .. Len(t) : Old(j) = k
    OBVIOUS
  <2>1. CASE k < i
    BY <1>1, <2>1 DEF IsRemoved
  <2>2. CASE k > i
    <3>1. k - 1 \in 1 .. Len(t) /\ Old(k - 1) = k
      BY <1>1, <2>2 DEF IsRemoved
    <3> QED
      BY <3>1
  <2> QED
    BY <1>1, <2>1, <2>2
<1>4. \A j, k \in 1 .. Len(t) : Old(j) = Old(k) => j = k
  BY <1>1 DEF IsRemoved
<1> HIDE DEF Old
<1>5. \A k \in 1 .. Len(s) : s[k] = s[i] => k = i
  BY DEF PointsOnce
<1>6. EntriesOf(t) = EntriesOf(s) \ {s[i]}
  <2>1. \A j \in 1 .. Len(t) : t[j] \in EntriesOf(s) \ {s[i]}
    BY <1>2, <1>5 DEF EntriesOf
  <2>2. \A k \in 1 .. Len(s) : s[k] # s[i] => s[k] \in EntriesOf(t)
    BY <1>2, <1>3 DEF EntriesOf
  <2> QED
    BY <2>1, <2>2 DEF EntriesOf
<1>7. PointsOnce(t)
  BY <1>2, <1>4 DEF PointsOnce
<1> QED
  BY <1>6, <1>7

\* The order of a queue depends on the messages in it that are not left aside.
LEMMA OrderedOfSame ==
    ASSUME NEW queue, NEW before, NEW after, NEW moved, NEW moved2,
           MessagesOf(queue) \cap moved \subseteq moved2,
           \A m \in MessagesOf(queue) \ moved2 : after[m] = before[m],
           OrderedExcept(queue, before, moved)
    PROVE  OrderedExcept(queue, after, moved2)
  BY DEF OrderedExcept, MessagesOf

\* An insertion where insertMessage stops keeps the queue ordered, provided
\* that the messages left aside are not later than the new one.
LEMMA InsertedOrdered ==
    ASSUME NEW M, NEW S, \A x \in S : x.message \in M,
           NEW timestamp \in [M -> Int], NEW moved,
           NEW s \in Seq(S), NEW t \in Seq(S), NEW e \in S,
           NEW i \in 1 .. Len(s) + 1, IsInserted(t, s, i, e),
           InsertionPoint(s, e.message, timestamp, i),
           OrderedExcept(s, timestamp, moved),
           \A m \in MessagesOf(s) \cap moved :
               timestamp[m] <= timestamp[e.message]
    PROVE  OrderedExcept(t, timestamp, moved)
PROOF
<1>1. /\ Len(s) \in Nat
      /\ i \in Int
      /\ \A j \in 1 .. Len(s) : timestamp[s[j].message] \in Int
      /\ timestamp[e.message] \in Int
  BY LenProperties, ElementOfSeq
<1>2. SUFFICES ASSUME NEW j \in 1 .. Len(s) + 1, NEW k \in 1 .. Len(s) + 1,
                      j < k,
                      t[j].message \notin moved, t[k].message \notin moved
               PROVE  timestamp[t[j].message] <= timestamp[t[k].message]
  BY DEF OrderedExcept, IsInserted
<1>3. CASE k < i
  <2>1. t[j] = s[j] /\ t[k] = s[k] /\ j \in 1 .. Len(s) /\ k \in 1 .. Len(s)
    BY <1>1, <1>2, <1>3 DEF IsInserted
  <2> QED
    BY <1>2, <2>1 DEF OrderedExcept
<1>4. CASE k = i
  <2>1. t[j] = s[j] /\ t[k] = e /\ j \in 1 .. i - 1
    BY <1>1, <1>2, <1>4 DEF IsInserted
  <2> QED
    BY <2>1 DEF InsertionPoint
<1>5. CASE k > i
  <2>1. t[k] = s[k - 1] /\ k - 1 \in 1 .. Len(s) /\ i \in 1 .. Len(s)
    BY <1>1, <1>5 DEF IsInserted
  <2>2. CASE j < i
    <3>1. t[j] = s[j] /\ j \in 1 .. Len(s) /\ j < k - 1
      BY <1>1, <1>5, <2>2 DEF IsInserted
    <3> QED
      BY <1>2, <2>1, <3>1 DEF OrderedExcept
  <2>3. CASE j = i
    <3>1. t[j] = e
      BY <2>3 DEF IsInserted
    <3>2. timestamp[e.message] < timestamp[s[i].message]
      BY <1>1, <2>1 DEF InsertionPoint
    <3>3. s[i].message \notin moved
      <4>1. s[i].message \in MessagesOf(s)
        BY <2>1 DEF MessagesOf
      <4>2. ~ (timestamp[s[i].message] <= timestamp[e.message])
        BY <1>1, <2>1, <3>2
      <4> QED
        BY <4>1, <4>2
    <3>4. i < k - 1 => timestamp[s[i].message] <= timestamp[s[k - 1].message]
      BY <1>2, <2>1, <3>3 DEF OrderedExcept
    <3>5. i = k - 1 \/ i < k - 1
      BY <1>1, <1>5
    <3> QED
      BY <1>1, <2>1, <3>1, <3>2, <3>4, <3>5
  <2>4. CASE j > i
    <3>1. t[j] = s[j - 1] /\ j - 1 \in 1 .. Len(s) /\ j - 1 < k - 1
      BY <1>1, <1>2, <2>4 DEF IsInserted
    <3> QED
      BY <1>2, <2>1, <3>1 DEF OrderedExcept
  <2>5. j < i \/ j = i \/ j > i
    BY <1>1
  <2> QED
    BY <2>2, <2>3, <2>4, <2>5
<1>6. k < i \/ k = i \/ k > i
  BY <1>1
<1> QED
  BY <1>3, <1>4, <1>5, <1>6

\* A removal keeps the queue ordered.
LEMMA RemovedOrdered ==
    ASSUME NEW S, NEW s \in Seq(S), NEW t \in Seq(S),
           NEW i \in 1 .. Len(s), IsRemoved(t, s, i),
           NEW timestamp, NEW moved, OrderedExcept(s, timestamp, moved)
    PROVE  OrderedExcept(t, timestamp, moved)
PROOF
<1> DEFINE Old(j) == IF j < i THEN j ELSE j + 1
<1>1. Len(s) \in Nat /\ i \in Int
  BY LenProperties
<1>2. \A j \in 1 .. Len(t) : Old(j) \in 1 .. Len(s) /\ t[j] = s[Old(j)]
  BY <1>1 DEF IsRemoved
<1>3. \A j, k \in 1 .. Len(t) : j < k => Old(j) < Old(k)
  BY <1>1 DEF IsRemoved
<1> HIDE DEF Old
<1> QED
  BY <1>2, <1>3 DEF OrderedExcept

\* An insertion leaves the messages there are in their order.
LEMMA InsertedBefore ==
    ASSUME NEW S, NEW s \in Seq(S), NEW t \in Seq(S), NEW e,
           NEW i \in 1 .. Len(s) + 1, IsInserted(t, s, i, e),
           NEW m, NEW n, Before(s, m, n)
    PROVE  Before(t, m, n)
PROOF
<1> DEFINE New(j) == IF j < i THEN j ELSE j + 1
<1>1. Len(s) \in Nat /\ i \in Int
  BY LenProperties
<1>2. ASSUME NEW j \in 1 .. Len(s)
      PROVE  New(j) \in 1 .. Len(t) /\ t[New(j)] = s[j]
  <2>1. CASE j < i
    BY <1>1, <2>1 DEF IsInserted
  <2>2. CASE ~ (j < i)
    <3>1. j + 1 \in 1 .. Len(s) + 1 /\ ~ (j + 1 < i) /\ j + 1 # i
      BY <1>1, <2>2
    <3>2. t[j + 1] = s[j + 1 - 1] /\ j + 1 \in 1 .. Len(t)
      BY <3>1 DEF IsInserted
    <3>3. j + 1 - 1 = j
      BY <1>1
    <3> QED
      BY <2>2, <3>2, <3>3
  <2> QED
    BY <2>1, <2>2
<1>3. \A j, k \in 1 .. Len(s) : j < k => New(j) < New(k)
  BY <1>1
<1> HIDE DEF New
<1> QED
  BY <1>2, <1>3 DEF Before

\* So does a removal leave the others.
LEMMA RemovedBefore ==
    ASSUME NEW S, NEW s \in Seq(S), NEW t \in Seq(S),
           NEW i \in 1 .. Len(s), IsRemoved(t, s, i),
           NEW m, NEW n, m # s[i].message, n # s[i].message, Before(s, m, n)
    PROVE  Before(t, m, n)
PROOF
<1> DEFINE New(j) == IF j < i THEN j ELSE j - 1
<1>1. Len(s) \in Nat /\ i \in Int
  BY LenProperties
<1>2. ASSUME NEW j \in 1 .. Len(s), j # i
      PROVE  New(j) \in 1 .. Len(t) /\ t[New(j)] = s[j]
  <2>1. CASE j < i
    BY <1>1, <2>1 DEF IsRemoved
  <2>2. CASE j > i
    <3>1. j - 1 \in 1 .. Len(s) - 1 /\ ~ (j - 1 < i)
      BY <1>1, <2>2
    <3>2. t[j - 1] = s[j - 1 + 1] /\ j - 1 \in 1 .. Len(t)
      BY <3>1 DEF IsRemoved
    <3>3. j - 1 + 1 = j
      BY <1>1
    <3> QED
      BY <1>1, <2>2, <3>2, <3>3
  <2> QED
    BY <1>1, <1>2, <2>1, <2>2
<1>3. \A j, k \in 1 .. Len(s) : j < k /\ j # i /\ k # i => New(j) < New(k)
  BY <1>1
<1> HIDE DEF New
<1>4. PICK j, k \in 1 .. Len(s) : j < k /\ s[j].message = m /\ s[k].message = n
  BY DEF Before
<1>5. j # i /\ k # i
  BY <1>4
<1> QED
  BY <1>2, <1>3, <1>4, <1>5 DEF Before

\* A new message comes after those that are due no later, if the others from
\* its place on are not earlier than the one there.
LEMMA InsertedBehind ==
    ASSUME NEW M, NEW S, \A x \in S : x.message \in M,
           NEW timestamp \in [M -> Int], NEW moved,
           NEW s \in Seq(S), NEW t \in Seq(S), NEW e \in S,
           NEW i \in 1 .. Len(s) + 1, IsInserted(t, s, i, e),
           InsertionPoint(s, e.message, timestamp, i),
           OrderedExcept(s, timestamp, moved),
           \A m \in MessagesOf(s) \cap moved :
               timestamp[m] <= timestamp[e.message],
           NEW m \in MessagesOf(s) \ moved,
           timestamp[m] <= timestamp[e.message]
    PROVE  Before(t, m, e.message)
PROOF
<1>1. /\ Len(s) \in Nat
      /\ i \in Int
      /\ \A j \in 1 .. Len(s) : timestamp[s[j].message] \in Int
      /\ timestamp[e.message] \in Int
  BY LenProperties, ElementOfSeq
<1>2. PICK j \in 1 .. Len(s) : s[j].message = m
  BY DEF MessagesOf
<1>3. ASSUME j >= i
      PROVE  FALSE
  <2>1. i \in 1 .. Len(s) /\ timestamp[e.message] < timestamp[s[i].message]
    BY <1>1, <1>3 DEF InsertionPoint
  <2>2. s[i].message \notin moved
    <3>1. s[i].message \in MessagesOf(s)
      BY <2>1 DEF MessagesOf
    <3>2. ~ (timestamp[s[i].message] <= timestamp[e.message])
      BY <1>1, <2>1
    <3> QED
      BY <3>1, <3>2
  <2>3. i < j => timestamp[s[i].message] <= timestamp[s[j].message]
    BY <1>2, <2>1, <2>2 DEF OrderedExcept
  <2>4. i = j \/ i < j
    BY <1>1, <1>3
  <2> QED
    BY <1>1, <1>2, <2>1, <2>3, <2>4
<1>4. j < i
  BY <1>1, <1>3
<1>5. t[j] = s[j] /\ t[i] = e /\ j \in 1 .. Len(t) /\ i \in 1 .. Len(t)
  BY <1>1, <1>4 DEF IsInserted
<1> QED
  BY <1>2, <1>4, <1>5 DEF Before

-----------------------------------------------------------------------------
(***************************************************************************)
(* insertMessage, removeMessage and pop.                                   *)
(***************************************************************************)

\* insertMessage finds a place, whatever the order of the queue is.
THEOREM InsertMessageInserts ==
    ASSUME NEW M, NEW S, \A x \in S : x.message \in M,
           NEW timestamp \in [M -> Int],
           NEW queue \in Seq(S), NEW object, NEW outlet, NEW message,
           Entry(object, outlet, message) \in S
    PROVE  LET e == Entry(object, outlet, message)
               result == InsertMessage(queue, object, outlet, message,
                                       timestamp)
           IN  /\ result \in Seq(S)
               /\ \E i \in 1 .. Len(queue) + 1 :
                      /\ InsertionPoint(queue, message, timestamp, i)
                      /\ IsInserted(result, queue, i, e)
PROOF
<1> DEFINE e == Entry(object, outlet, message)
           T == {i \in 1 .. Len(queue) + 1 :
                     i <= Len(queue) =>
                         timestamp[message] < timestamp[queue[i].message]}
<1>1. /\ Len(queue) \in Nat
      /\ \A j \in 1 .. Len(queue) : timestamp[queue[j].message] \in Int
      /\ message \in M
      /\ timestamp[message] \in Int
  BY LenProperties, ElementOfSeq DEF Entry
<1>2. T \subseteq Nat /\ T # {}
  <2>1. Len(queue) + 1 \in T
    BY <1>1
  <2> QED
    BY <1>1, <2>1
<1>3. PICK i \in T : \A j \in T : i <= j
  BY <1>2, FirstOf
<1>4. InsertionPoint(queue, message, timestamp, i)
  <2>1. ASSUME NEW j \in 1 .. i - 1
        PROVE  timestamp[queue[j].message] <= timestamp[message]
    <3>1. j \in 1 .. Len(queue) + 1 /\ ~ (i <= j) /\ j \in 1 .. Len(queue)
      BY <1>1, <1>3
    <3>2. j \notin T
      BY <1>3, <3>1
    <3> QED
      BY <1>1, <3>1, <3>2
  <2> QED
    BY <1>3, <2>1 DEF InsertionPoint
<1> DEFINE k == CHOOSE p \in 1 .. Len(queue) + 1 :
                    InsertionPoint(queue, message, timestamp, p)
<1>5. /\ k \in 1 .. Len(queue) + 1
      /\ InsertionPoint(queue, message, timestamp, k)
  BY <1>3, <1>4
<1>6. InsertMessage(queue, object, outlet, message, timestamp)
          = InsertAt(queue, k, e)
  BY DEF InsertMessage
<1> HIDE DEF k, e
<1>7. /\ InsertAt(queue, k, e) \in Seq(S)
      /\ IsInserted(InsertAt(queue, k, e), queue, k, e)
  <2>1. e \in S
    BY DEF e
  <2> QED
    BY <1>5, <2>1, InsertAtElements
<1> QED
  BY <1>5, <1>6, <1>7 DEF e

\* removeMessage removes one entry if there is one to remove.
THEOREM RemoveMessageRemoves ==
    ASSUME NEW S, NEW queue \in Seq(S), NEW object, NEW outlet, NEW message
    PROVE  LET e == Entry(object, outlet, message)
               result == RemoveMessage(queue, object, outlet, message)
           IN  /\ result \in Seq(S)
               /\ \/ e \notin EntriesOf(queue) /\ result = queue
                  \/ \E i \in 1 .. Len(queue) :
                         queue[i] = e /\ IsRemoved(result, queue, i)
PROOF
<1> DEFINE e == Entry(object, outlet, message)
           result == RemoveMessage(queue, object, outlet, message)
<1>1. CASE e \notin EntriesOf(queue)
  <2>1. result = queue
    BY <1>1 DEF RemoveMessage, EntriesOf
  <2> QED
    BY <1>1, <2>1
<1>2. CASE e \in EntriesOf(queue)
  <2> DEFINE T == {i \in 1 .. Len(queue) : queue[i] = e}
  <2>1. T \subseteq Nat /\ T # {}
    BY <1>2, LenProperties DEF EntriesOf
  <2>2. PICK i \in T : \A j \in T : i <= j
    BY <2>1, FirstOf
  <2>3. FirstMatch(queue, e, i)
    BY <2>2, LenProperties DEF FirstMatch
  <2> DEFINE k == CHOOSE p \in 1 .. Len(queue) : FirstMatch(queue, e, p)
  <2>4. k \in 1 .. Len(queue) /\ FirstMatch(queue, e, k)
    BY <2>2, <2>3
  <2>5. result = RemoveAt(queue, k)
    BY <2>2 DEF RemoveMessage
  <2> HIDE DEF k, result
  <2>6. result \in Seq(S) /\ IsRemoved(result, queue, k)
    BY <2>4, <2>5, RemoveAtElements
  <2> QED
    BY <2>4, <2>6 DEF FirstMatch, result
<1> QED
  BY <1>1, <1>2

\* pop removes the first entry.
THEOREM PopRemoves ==
    ASSUME NEW S, NEW queue \in Seq(S), queue # <<>>
    PROVE  /\ Pop(queue) \in Seq(S)
           /\ 1 \in 1 .. Len(queue)
           /\ Peek(queue) = queue[1]
           /\ IsRemoved(Pop(queue), queue, 1)
PROOF
<1>1. Len(queue) \in Nat \ {0}
  BY EmptySeq
<1>2. /\ Pop(queue) \in Seq(S)
      /\ Len(Pop(queue)) = Len(queue) - 1
      /\ \A j \in 1 .. Len(Pop(queue)) : Pop(queue)[j] = queue[j + 1]
  BY HeadTailProperties DEF Pop
<1>3. \A j \in 1 .. Len(queue) - 1 : ~ (j < 1)
  BY <1>1
<1> QED
  BY <1>1, <1>2, <1>3 DEF IsRemoved, Peek

-----------------------------------------------------------------------------
(***************************************************************************)
(* The queue and the heap as one value.                                    *)
(***************************************************************************)

Contexts == [queue : Seq(Entries),
             live : SUBSET Messages,
             timestamp : [Messages -> Int]]

\* The queue and the messages in `out', which are not queued, are the heap.
Sound(c, out) ==
    /\ c \in Contexts
    /\ PointsOnce(c.queue)
    /\ c.live = MessagesOf(c.queue) \cup out
    /\ out \cap MessagesOf(c.queue) = {}

\* d has the timestamps of c but for a message.
Timestamps(d, c, message, time) ==
    \A m \in Messages :
        d.timestamp[m] = IF m = message THEN time ELSE c.timestamp[m]

\* The queue of d is that of c with an entry put in where insertMessage does.
PutInPlace(d, c, e) ==
    \E i \in 1 .. Len(c.queue) + 1 :
        /\ InsertionPoint(c.queue, e.message, d.timestamp, i)
        /\ IsInserted(d.queue, c.queue, i, e)

\* The fields of a context, and the messages of its entries.
LEMMA ContextFields ==
    ASSUME NEW c \in Contexts
    PROVE  /\ c.queue \in Seq(Entries)
           /\ c.live \subseteq Messages
           /\ c.timestamp \in [Messages -> Int]
           /\ EntriesOf(c.queue) \subseteq Entries
           /\ MessagesOf(c.queue) \subseteq Messages
PROOF
<1>1. /\ c.queue \in Seq(Entries)
      /\ c.live \subseteq Messages
      /\ c.timestamp \in [Messages -> Int]
  BY DEF Contexts
<1>2. \A i \in 1 .. Len(c.queue) : c.queue[i] \in Entries
  BY <1>1, ElementOfSeq
<1>3. \A x \in Entries : x.message \in Messages
  BY DEF Entries
<1> QED
  BY <1>1, <1>2, <1>3 DEF EntriesOf, MessagesOf

\* Setting the timestamp of a message.
LEMMA SetTimestampFields ==
    ASSUME NEW c \in Contexts, NEW message, NEW time \in Int
    PROVE  /\ SetTimestamp(c, message, time) \in Contexts
           /\ SetTimestamp(c, message, time).queue = c.queue
           /\ SetTimestamp(c, message, time).live = c.live
           /\ \A m \in Messages :
                  SetTimestamp(c, message, time).timestamp[m] =
                      IF m = message THEN time ELSE c.timestamp[m]
  BY DEF Contexts, SetTimestamp

\* Freeing a message.
LEMMA FreeMessageFields ==
    ASSUME NEW c \in Contexts, NEW message
    PROVE  /\ FreeMessage(c, message) \in Contexts
           /\ FreeMessage(c, message).queue = c.queue
           /\ FreeMessage(c, message).live = c.live \ {message}
           /\ \A m \in Messages \ {message} :
                  FreeMessage(c, message).timestamp[m] = c.timestamp[m]
PROOF
<1> DEFINE kept == [c EXCEPT !.live = @ \ {message}]
           ts == [m \in Messages |->
                      IF m = message THEN 0 ELSE c.timestamp[m]]
<1>1. /\ kept \in Contexts
      /\ kept.queue = c.queue
      /\ kept.live = c.live \ {message}
  BY DEF Contexts
<1>2. /\ ts \in [Messages -> Int]
      /\ \A m \in Messages \ {message} : ts[m] = c.timestamp[m]
  BY DEF Contexts
<1>3. FreeMessage(c, message) = [kept EXCEPT !.timestamp = ts]
  BY DEF FreeMessage
<1> HIDE DEF kept, ts
<1> QED
  BY <1>1, <1>2, <1>3 DEF Contexts

\* scheduleMessage adds one entry, for a message that was not on the heap, at
\* the place insertMessage finds.
LEMMA ScheduleMessageSound ==
    ASSUME NEW c, NEW out, Sound(c, out),
           NEW object \in Objects, NEW outlet \in Outlets,
           NEW message \in Fresh(c), NEW time \in Int
    PROVE  LET d == ScheduleMessage(c, object, outlet, message, time)
               e == Entry(object, outlet, message)
           IN  /\ Sound(d, out)
               /\ message \notin MessagesOf(c.queue) \cup out
               /\ EntriesOf(d.queue) = EntriesOf(c.queue) \cup {e}
               /\ MessagesOf(d.queue) = MessagesOf(c.queue) \cup {message}
               /\ Timestamps(d, c, message, time)
               /\ PutInPlace(d, c, e)
PROOF
<1> DEFINE d == ScheduleMessage(c, object, outlet, message, time)
           e == Entry(object, outlet, message)
           s == SetTimestamp(c, message, time)
<1>1. c \in Contexts /\ message \in Messages /\ message \notin c.live
  BY DEF Sound, Fresh
<1>2. e \in Entries /\ e.message = message
  BY <1>1 DEF Entries, Entry
<1>3. /\ s \in Contexts
      /\ s.queue = c.queue
      /\ s.live = c.live
      /\ \A m \in Messages :
             s.timestamp[m] = IF m = message THEN time ELSE c.timestamp[m]
  BY <1>1, SetTimestampFields
<1> HIDE DEF s
<1>4. /\ d.queue = InsertMessage(c.queue, object, outlet, message,
                                 s.timestamp)
      /\ d.live = c.live \cup {message}
      /\ d.timestamp = s.timestamp
      /\ d.queue \in Seq(Entries) => d \in Contexts
  <2> DEFINE copied == [s EXCEPT !.live = @ \cup {message}]
  <2>1. d = [copied EXCEPT !.queue = InsertMessage(@, object, outlet, message,
                                                   copied.timestamp)]
    BY DEF ScheduleMessage, s
  <2>2. /\ copied \in Contexts
        /\ copied.queue = c.queue
        /\ copied.live = c.live \cup {message}
        /\ copied.timestamp = s.timestamp
    BY <1>1, <1>3 DEF Contexts
  <2> HIDE DEF copied, d
  <2> QED
    BY <2>1, <2>2 DEF Contexts
<1>5. c.queue \in Seq(Entries) /\ s.timestamp \in [Messages -> Int]
  BY <1>1, <1>3, ContextFields
<1>6. \A x \in Entries : x.message \in Messages
  BY DEF Entries
<1>7. /\ d.queue \in Seq(Entries)
      /\ \E i \in 1 .. Len(c.queue) + 1 :
             /\ InsertionPoint(c.queue, message, s.timestamp, i)
             /\ IsInserted(d.queue, c.queue, i, e)
  <2> DEFINE q == c.queue
             ts == s.timestamp
             r == InsertMessage(q, object, outlet, message, ts)
  <2>1. q \in Seq(Entries) /\ ts \in [Messages -> Int] /\ d.queue = r
    BY <1>4, <1>5
  <2>2. Entry(object, outlet, message) \in Entries
    BY <1>2
  <2> HIDE DEF q, ts
  <2>3. /\ r \in Seq(Entries)
        /\ \E i \in 1 .. Len(q) + 1 :
               /\ InsertionPoint(q, message, ts, i)
               /\ IsInserted(r, q, i, Entry(object, outlet, message))
    BY <1>6, <2>1, <2>2, InsertMessageInserts
  <2> QED
    BY <2>1, <2>3 DEF q, ts
<1>8. message \notin MessagesOf(c.queue) \cup out
  BY <1>1 DEF Sound
<1>9. /\ EntriesOf(d.queue) = EntriesOf(c.queue) \cup {e}
      /\ PointsOnce(d.queue)
  BY <1>2, <1>5, <1>7, <1>8, InsertedEntries DEF Sound
<1>10. MessagesOf(d.queue) = MessagesOf(c.queue) \cup {message}
  BY <1>2, <1>9, MessagesOfEntries
<1>11. d \in Contexts
  BY <1>4, <1>7
<1>12. Sound(d, out)
  BY <1>4, <1>8, <1>9, <1>10, <1>11 DEF Sound
<1>13. Timestamps(d, c, message, time)
  BY <1>3, <1>4 DEF Timestamps
<1>14. PutInPlace(d, c, e)
  BY <1>2, <1>4, <1>7 DEF PutInPlace
<1> QED
  BY <1>8, <1>9, <1>10, <1>12, <1>13, <1>14

\* cancelMessage of no message, or of one that the queue has, takes its entry
\* out and nothing else.
LEMMA CancelMessageSound ==
    ASSUME NEW c, NEW out, Sound(c, out), NEW object, NEW outlet, NEW message,
           \/ message = NULL
           \/ Entry(object, outlet, message) \in EntriesOf(c.queue)
    PROVE  LET d == CancelMessage(c, object, outlet, message)
               e == Entry(object, outlet, message)
           IN  /\ Sound(d, out)
               /\ EntriesOf(d.queue) = EntriesOf(c.queue) \ {e}
               /\ MessagesOf(d.queue) = MessagesOf(c.queue) \ {message}
               /\ message \notin out
               /\ \A m \in Messages \ {message} :
                      d.timestamp[m] = c.timestamp[m]
               /\ \/ d.queue = c.queue
                  \/ \E i \in 1 .. Len(c.queue) :
                         IsRemoved(d.queue, c.queue, i)
PROOF
<1> DEFINE d == CancelMessage(c, object, outlet, message)
           e == Entry(object, outlet, message)
           r == RemoveMessage(c.queue, object, outlet, message)
<1>1. /\ c \in Contexts
      /\ c.queue \in Seq(Entries)
      /\ EntriesOf(c.queue) \subseteq Entries
      /\ c.live \subseteq Messages
  BY ContextFields DEF Sound
<1>2. \A x \in Entries : x.message \in Messages
  BY DEF Entries
<1>3. e.message = message
  BY DEF Entry
<1>4. CASE message = NULL
  <2>1. d = c
    BY <1>4 DEF CancelMessage
  <2>2. NULL \notin Messages
    BY ContextAssumption
  <2>3. e \notin EntriesOf(c.queue)
    BY <1>1, <1>2, <1>3, <1>4, <2>2
  <2>4. message \notin MessagesOf(c.queue) \cup out
    BY <1>1, <1>4, <2>2 DEF Sound
  <2> QED
    BY <2>1, <2>3, <2>4
<1>5. CASE message # NULL /\ e \in EntriesOf(c.queue)
  <2>1. /\ r \in Seq(Entries)
        /\ \E i \in 1 .. Len(c.queue) :
               c.queue[i] = e /\ IsRemoved(r, c.queue, i)
    BY <1>1, <1>5, RemoveMessageRemoves
  <2>2. EntriesOf(r) = EntriesOf(c.queue) \ {e} /\ PointsOnce(r)
    BY <1>1, <2>1, RemovedEntries DEF Sound
  <2>3. \A x \in EntriesOf(c.queue) : x.message = message => x = e
    BY <1>3, <1>5 DEF Sound, PointsOnce, EntriesOf
  <2>4. MessagesOf(r) = MessagesOf(c.queue) \ {message}
    BY <1>3, <2>2, <2>3, MessagesOfEntries
  <2> DEFINE s == [c EXCEPT !.queue = r]
  <2>5. /\ s \in Contexts
        /\ s.queue = r
        /\ s.live = c.live
        /\ s.timestamp = c.timestamp
    BY <1>1, <2>1 DEF Contexts
  <2>6. d = FreeMessage(s, message)
    BY <1>5 DEF CancelMessage
  <2> HIDE DEF s, d, r
  <2>7. /\ d \in Contexts
        /\ d.queue = r
        /\ d.live = c.live \ {message}
        /\ \A m \in Messages \ {message} : d.timestamp[m] = c.timestamp[m]
    BY <2>5, <2>6, FreeMessageFields
  <2>8. message \in MessagesOf(c.queue)
    BY <1>3, <1>5, MessagesOfEntries
  <2>9. Sound(d, out) /\ message \notin out
    BY <2>2, <2>4, <2>7, <2>8 DEF Sound
  <2> QED
    BY <2>1, <2>2, <2>4, <2>7, <2>9 DEF d
<1> QED
  BY <1>4, <1>5

\* process() takes the first entry out; its message stays on the heap.
LEMMA PoppedSound ==
    ASSUME Sound(ctx, {}), ~ IsEmpty(ctx.queue), blockStartTimestamp \in Int,
           NEW entry, entry = Peek(ctx.queue)
    PROVE  /\ Sound(Popped(entry), {entry.message})
           /\ entry \in EntriesOf(ctx.queue)
           /\ entry.message \in Messages
           /\ EntriesOf(Popped(entry).queue) = EntriesOf(ctx.queue) \ {entry}
           /\ \A m \in Messages :
                  Popped(entry).timestamp[m] =
                      IF m = entry.message THEN DeliveryTime(m)
                                           ELSE ctx.timestamp[m]
           /\ entry = ctx.queue[1] /\ 1 \in 1 .. Len(ctx.queue)
           /\ IsRemoved(Popped(entry).queue, ctx.queue, 1)
PROOF
<1> DEFINE m0 == entry.message
           q == ctx.queue
           s == SetTimestamp(ctx, m0, DeliveryTime(m0))
           d == Popped(entry)
<1>1. ctx \in Contexts /\ q \in Seq(Entries) /\ PointsOnce(q)
  BY ContextFields DEF Sound
<1>2. /\ Pop(q) \in Seq(Entries)
      /\ 1 \in 1 .. Len(q)
      /\ entry = q[1]
      /\ IsRemoved(Pop(q), q, 1)
  BY <1>1, PopRemoves DEF IsEmpty
<1>3. /\ entry \in EntriesOf(q)
      /\ m0 \in Messages
      /\ m0 \in MessagesOf(q)
  BY <1>1, <1>2, ContextFields DEF EntriesOf, MessagesOf
<1>4. EntriesOf(Pop(q)) = EntriesOf(q) \ {entry} /\ PointsOnce(Pop(q))
  BY <1>1, <1>2, RemovedEntries
<1>5. \A x \in EntriesOf(q) : x.message = m0 => x = entry
  BY <1>1, <1>2 DEF PointsOnce, EntriesOf
<1>6. MessagesOf(Pop(q)) = MessagesOf(q) \ {m0}
  BY <1>4, <1>5, MessagesOfEntries
<1>7. DeliveryTime(m0) \in Int
  BY <1>1, <1>3, ContextFields DEF DeliveryTime
<1>8. /\ s \in Contexts
      /\ s.queue = q
      /\ s.live = ctx.live
      /\ \A m \in Messages :
             s.timestamp[m] = IF m = m0 THEN DeliveryTime(m)
                                        ELSE ctx.timestamp[m]
  BY <1>1, <1>7, SetTimestampFields
<1>9. d = [s EXCEPT !.queue = Pop(@)]
  BY DEF Popped
<1> HIDE DEF s, d
<1>10. /\ d \in Contexts
       /\ d.queue = Pop(q)
       /\ d.live = ctx.live
       /\ d.timestamp = s.timestamp
  BY <1>2, <1>8, <1>9 DEF Contexts
<1>11. Sound(d, {m0})
  BY <1>3, <1>4, <1>6, <1>10 DEF Sound
<1> QED
  BY <1>2, <1>3, <1>4, <1>8, <1>10, <1>11 DEF d

\* The messages queued in c but those in `gone' are queued in d, with the
\* timestamps they had and in the order they had.
KeptBut(d, c, gone) ==
    \A m \in MessagesOf(c.queue) \ gone :
        /\ m \in MessagesOf(d.queue)
        /\ d.timestamp[m] = c.timestamp[m]
        /\ \A n \in MessagesOf(c.queue) \ gone :
               Before(c.queue, m, n) => Before(d.queue, m, n)

\* Two changes, one after the other.
LEMMA KeptTwice ==
    ASSUME NEW b, NEW c, NEW d, NEW gone, NEW gone2,
           KeptBut(c, b, gone), KeptBut(d, c, gone2)
    PROVE  KeptBut(d, b, gone \cup gone2)
  BY DEF KeptBut

LEMMA ScheduleMessageKeeps ==
    ASSUME NEW c, NEW out, Sound(c, out),
           NEW object \in Objects, NEW outlet \in Outlets,
           NEW message \in Fresh(c), NEW time \in Int
    PROVE  KeptBut(ScheduleMessage(c, object, outlet, message, time), c, {})
PROOF
<1> DEFINE d == ScheduleMessage(c, object, outlet, message, time)
           e == Entry(object, outlet, message)
<1>1. /\ Sound(d, out)
      /\ message \notin MessagesOf(c.queue) \cup out
      /\ MessagesOf(d.queue) = MessagesOf(c.queue) \cup {message}
      /\ Timestamps(d, c, message, time)
      /\ PutInPlace(d, c, e)
  BY ONLY Sound(c, out), object \in Objects, outlet \in Outlets,
          message \in Fresh(c), time \in Int, ScheduleMessageSound
<1> HIDE DEF d, e
<1>2. /\ c.queue \in Seq(Entries)
      /\ d.queue \in Seq(Entries)
      /\ MessagesOf(c.queue) \subseteq Messages
  BY <1>1, ContextFields DEF Sound
<1>3. PICK i \in 1 .. Len(c.queue) + 1 : IsInserted(d.queue, c.queue, i, e)
  BY <1>1 DEF PutInPlace
<1>4. \A m, n : Before(c.queue, m, n) => Before(d.queue, m, n)
  BY <1>2, <1>3, InsertedBefore
<1>5. KeptBut(d, c, {})
  BY <1>1, <1>2, <1>4 DEF KeptBut, Timestamps
<1> QED
  BY <1>5 DEF d

LEMMA CancelMessageKeeps ==
    ASSUME NEW c, NEW out, Sound(c, out), NEW object, NEW outlet, NEW message,
           \/ message = NULL
           \/ Entry(object, outlet, message) \in EntriesOf(c.queue)
    PROVE  KeptBut(CancelMessage(c, object, outlet, message), c, {message})
PROOF
<1> DEFINE d == CancelMessage(c, object, outlet, message)
<1>1. /\ Sound(d, out)
      /\ MessagesOf(d.queue) = MessagesOf(c.queue) \ {message}
      /\ \A m \in Messages \ {message} : d.timestamp[m] = c.timestamp[m]
      /\ \/ d.queue = c.queue
         \/ \E i \in 1 .. Len(c.queue) : IsRemoved(d.queue, c.queue, i)
  BY CancelMessageSound
<1> HIDE DEF d
<1>2. /\ c.queue \in Seq(Entries)
      /\ d.queue \in Seq(Entries)
      /\ MessagesOf(c.queue) \subseteq Messages
  BY <1>1, ContextFields DEF Sound
<1>3. ASSUME NEW i \in 1 .. Len(c.queue), IsRemoved(d.queue, c.queue, i)
      PROVE  c.queue[i].message = message
  <2>1. SUFFICES ASSUME c.queue[i].message # message
                 PROVE  FALSE
    OBVIOUS
  <2>2. c.queue[i].message \in MessagesOf(d.queue)
    BY <1>1, <2>1 DEF MessagesOf
  <2>3. PICK j \in 1 .. Len(d.queue) : d.queue[j].message = c.queue[i].message
    BY <2>2 DEF MessagesOf
  <2>4. PICK k \in 1 .. Len(c.queue) : k # i /\ d.queue[j] = c.queue[k]
    BY <1>2, <1>3, LenProperties DEF IsRemoved
  <2> QED
    BY <2>3, <2>4 DEF Sound, PointsOnce
<1>4. ASSUME NEW m, NEW n, m # message, n # message, Before(c.queue, m, n)
      PROVE  Before(d.queue, m, n)
  BY <1>1, <1>2, <1>3, <1>4, RemovedBefore
<1>5. KeptBut(d, c, {message})
  BY <1>1, <1>2, <1>4 DEF KeptBut
<1> QED
  BY <1>5 DEF d

LEMMA PoppedKeeps ==
    ASSUME Sound(ctx, {}), ~ IsEmpty(ctx.queue), blockStartTimestamp \in Int,
           NEW entry, entry = Peek(ctx.queue)
    PROVE  KeptBut(Popped(entry), ctx, {entry.message})
PROOF
<1> DEFINE d == Popped(entry)
<1>1. /\ Sound(d, {entry.message})
      /\ EntriesOf(d.queue) = EntriesOf(ctx.queue) \ {entry}
      /\ \A m \in Messages \ {entry.message} :
             d.timestamp[m] = ctx.timestamp[m]
      /\ entry = ctx.queue[1] /\ 1 \in 1 .. Len(ctx.queue)
      /\ IsRemoved(d.queue, ctx.queue, 1)
  BY PoppedSound
<1> HIDE DEF d
<1>2. /\ ctx.queue \in Seq(Entries)
      /\ d.queue \in Seq(Entries)
      /\ MessagesOf(ctx.queue) \subseteq Messages
  BY <1>1, ContextFields DEF Sound
<1>3. \A m \in MessagesOf(ctx.queue) \ {entry.message} :
          m \in MessagesOf(d.queue)
  BY <1>1, MessagesOfEntries
<1>4. ASSUME NEW m, NEW n, m # entry.message, n # entry.message,
             Before(ctx.queue, m, n)
      PROVE  Before(d.queue, m, n)
  <2> DEFINE q == ctx.queue
             r == d.queue
  <2>1. /\ q \in Seq(Entries) /\ r \in Seq(Entries) /\ 1 \in 1 .. Len(q)
        /\ IsRemoved(r, q, 1) /\ m # q[1].message /\ n # q[1].message
        /\ Before(q, m, n)
    BY <1>1, <1>2, <1>4
  <2> HIDE DEF q, r
  <2>2. Before(r, m, n)
    BY ONLY <2>1, RemovedBefore
  <2> QED
    BY <2>2 DEF r
<1>5. KeptBut(d, ctx, {entry.message})
  BY <1>1, <1>2, <1>3, <1>4 DEF KeptBut
<1> QED
  BY <1>5 DEF d

LEMMA SetTimestampKeeps ==
    ASSUME NEW c \in Contexts, NEW message, NEW time \in Int
    PROVE  KeptBut(SetTimestamp(c, message, time), c, {message})
  BY SetTimestampFields, ContextFields DEF KeptBut

LEMMA FreeMessageKeeps ==
    ASSUME NEW c \in Contexts, NEW message, message \notin MessagesOf(c.queue)
    PROVE  KeptBut(FreeMessage(c, message), c, {})
  BY FreeMessageFields, ContextFields DEF KeptBut

-----------------------------------------------------------------------------
(***************************************************************************)
(* The order of the queue.                                                 *)
(***************************************************************************)

\* A message that is not earlier than those left aside.
LEMMA ScheduleInOrder ==
    ASSUME NEW c, NEW out, Sound(c, out),
           NEW object \in Objects, NEW outlet \in Outlets,
           NEW message \in Fresh(c), NEW time \in Int,
           NEW moved, OrderedExcept(c.queue, c.timestamp, moved),
           \A m \in MessagesOf(c.queue) \cap moved : c.timestamp[m] <= time
    PROVE  LET d == ScheduleMessage(c, object, outlet, message, time)
           IN  OrderedExcept(d.queue, d.timestamp, moved)
PROOF
<1> DEFINE d == ScheduleMessage(c, object, outlet, message, time)
           e == Entry(object, outlet, message)
<1>1. /\ Sound(d, out)
      /\ message \notin MessagesOf(c.queue) \cup out
      /\ Timestamps(d, c, message, time)
      /\ PutInPlace(d, c, e)
  BY ONLY Sound(c, out), object \in Objects, outlet \in Outlets,
          message \in Fresh(c), time \in Int, ScheduleMessageSound
<1> HIDE DEF d
<1>2. /\ c.queue \in Seq(Entries)
      /\ d.queue \in Seq(Entries)
      /\ d.timestamp \in [Messages -> Int]
      /\ MessagesOf(c.queue) \subseteq Messages
  BY <1>1, ContextFields DEF Sound
<1>3. e \in Entries /\ e.message = message /\ message \in Messages
  BY DEF Entries, Entry, Fresh
<1>4. \A m \in MessagesOf(c.queue) : d.timestamp[m] = c.timestamp[m]
  BY <1>1, <1>2 DEF Timestamps
<1>5. OrderedExcept(c.queue, d.timestamp, moved)
  BY <1>4, OrderedOfSame
<1>6. PICK i \in 1 .. Len(c.queue) + 1 :
          /\ InsertionPoint(c.queue, e.message, d.timestamp, i)
          /\ IsInserted(d.queue, c.queue, i, e)
  BY <1>1 DEF PutInPlace
<1>7. \A m \in MessagesOf(c.queue) \cap moved :
          d.timestamp[m] <= d.timestamp[e.message]
  BY <1>1, <1>3, <1>4 DEF Timestamps
<1>8. \A x \in Entries : x.message \in Messages
  BY DEF Entries
<1> HIDE DEF e
<1>9. OrderedExcept(d.queue, d.timestamp, moved)
  BY ONLY <1>2, <1>3, <1>5, <1>6, <1>7, <1>8, InsertedOrdered
<1> QED
  BY <1>9 DEF d

\* It is behind those that are not later than it.
LEMMA BehindTheEarlier ==
    ASSUME NEW c, NEW out, Sound(c, out),
           NEW object \in Objects, NEW outlet \in Outlets,
           NEW message \in Fresh(c), NEW time \in Int,
           NEW moved, OrderedExcept(c.queue, c.timestamp, moved),
           \A m \in MessagesOf(c.queue) \cap moved : c.timestamp[m] <= time,
           NEW m \in MessagesOf(c.queue) \ moved, c.timestamp[m] <= time
    PROVE  Before(ScheduleMessage(c, object, outlet, message, time).queue, m,
                  message)
PROOF
<1> DEFINE d == ScheduleMessage(c, object, outlet, message, time)
           e == Entry(object, outlet, message)
<1>1. /\ Sound(d, out)
      /\ message \notin MessagesOf(c.queue) \cup out
      /\ Timestamps(d, c, message, time)
      /\ PutInPlace(d, c, e)
  BY ONLY Sound(c, out), object \in Objects, outlet \in Outlets,
          message \in Fresh(c), time \in Int, ScheduleMessageSound
<1> HIDE DEF d
<1>2. /\ c.queue \in Seq(Entries)
      /\ d.queue \in Seq(Entries)
      /\ d.timestamp \in [Messages -> Int]
      /\ MessagesOf(c.queue) \subseteq Messages
  BY <1>1, ContextFields DEF Sound
<1>3. e \in Entries /\ e.message = message /\ message \in Messages
  BY DEF Entries, Entry, Fresh
<1>4. /\ \A x \in MessagesOf(c.queue) : d.timestamp[x] = c.timestamp[x]
      /\ d.timestamp[e.message] = time
  BY <1>1, <1>2, <1>3 DEF Timestamps
<1>5. OrderedExcept(c.queue, d.timestamp, moved)
  BY <1>4, OrderedOfSame
<1>6. PICK i \in 1 .. Len(c.queue) + 1 :
          /\ InsertionPoint(c.queue, e.message, d.timestamp, i)
          /\ IsInserted(d.queue, c.queue, i, e)
  BY <1>1 DEF PutInPlace
<1>7. /\ \A x \in MessagesOf(c.queue) \cap moved :
             d.timestamp[x] <= d.timestamp[e.message]
      /\ m \in MessagesOf(c.queue) \ moved
      /\ d.timestamp[m] <= d.timestamp[e.message]
  BY <1>4
<1>8. \A x \in Entries : x.message \in Messages
  BY DEF Entries
<1> HIDE DEF e
<1>9. Before(d.queue, m, e.message)
  BY ONLY <1>2, <1>3, <1>5, <1>6, <1>7, <1>8, InsertedBehind
<1> QED
  BY <1>3, <1>9 DEF d

\* A message taken out no longer needs to be left aside.
LEMMA CancelInOrder ==
    ASSUME NEW c, NEW out, Sound(c, out), NEW object, NEW outlet, NEW message,
           \/ message = NULL
           \/ Entry(object, outlet, message) \in EntriesOf(c.queue),
           NEW moved, OrderedExcept(c.queue, c.timestamp, moved)
    PROVE  LET d == CancelMessage(c, object, outlet, message)
           IN  OrderedExcept(d.queue, d.timestamp, moved \ {message})
PROOF
<1> DEFINE d == CancelMessage(c, object, outlet, message)
<1>1. /\ Sound(d, out)
      /\ MessagesOf(d.queue) = MessagesOf(c.queue) \ {message}
      /\ \A m \in Messages \ {message} : d.timestamp[m] = c.timestamp[m]
      /\ \/ d.queue = c.queue
         \/ \E i \in 1 .. Len(c.queue) : IsRemoved(d.queue, c.queue, i)
  BY CancelMessageSound
<1> HIDE DEF d
<1>2. /\ c.queue \in Seq(Entries)
      /\ d.queue \in Seq(Entries)
      /\ MessagesOf(d.queue) \subseteq Messages
  BY <1>1, ContextFields DEF Sound
<1>3. OrderedExcept(d.queue, c.timestamp, moved)
  BY <1>1, <1>2, RemovedOrdered
<1>4. \A m \in MessagesOf(d.queue) : d.timestamp[m] = c.timestamp[m]
  BY <1>1, <1>2
<1>5. MessagesOf(d.queue) \cap moved \subseteq moved \ {message}
  BY <1>1
<1>6. OrderedExcept(d.queue, d.timestamp, moved \ {message})
  BY ONLY <1>3, <1>4, <1>5, OrderedOfSame
<1> QED
  BY <1>6 DEF d

\* The messages behind the first of a sorted queue are not earlier.
LEMMA FirstIsEarliest ==
    ASSUME NEW queue, NEW timestamp, OrderedExcept(queue, timestamp, {}),
           Len(queue) \in Nat, 1 \in 1 .. Len(queue),
           \A x \in MessagesOf(queue) : timestamp[x] \in Int,
           NEW m \in MessagesOf(queue)
    PROVE  timestamp[queue[1].message] <= timestamp[m]
PROOF
<1>1. PICK i \in 1 .. Len(queue) : queue[i].message = m
  BY DEF MessagesOf
<1>2. CASE i = 1
  <2>1. timestamp[m] \in Int
    OBVIOUS
  <2> QED
    BY <1>1, <1>2, <2>1
<1>3. CASE i > 1
  BY <1>1, <1>3 DEF OrderedExcept
<1> QED
  BY <1>2, <1>3

-----------------------------------------------------------------------------
(***************************************************************************)
(* list::remove.                                                           *)
(***************************************************************************)

\* w has the first n elements of the list but message, in their order.
HasOthers(w, list, n, message) ==
    /\ \A k \in 1 .. Len(w) :
           \E j \in 1 .. n : w[k] = list[j] /\ list[j] # message
    /\ \A j \in 1 .. n :
           list[j] # message => \E k \in 1 .. Len(w) : w[k] = list[j]
    /\ \A k, l \in 1 .. Len(w) :
           k < l => \E i, j \in 1 .. n :
                        i < j /\ w[k] = list[i] /\ w[l] = list[j]

\* The next element is dropped or put behind the others.
LEMMA OthersOfNext ==
    ASSUME NEW S, NEW list \in Seq(S), NEW message,
           NEW n \in 1 .. Len(list), NEW w \in Seq(S),
           HasOthers(w, list, n - 1, message)
    PROVE  /\ list[n] = message => HasOthers(w, list, n, message)
           /\ list[n] # message =>
                  /\ Append(w, list[n]) \in Seq(S)
                  /\ HasOthers(Append(w, list[n]), list, n, message)
PROOF
<1>1. Len(list) \in Nat /\ n \in Nat /\ n \in 1 .. n /\ Len(w) \in Nat
  BY LenProperties
<1>2. \A j \in 1 .. n : j \in 1 .. n - 1 \/ j = n
  BY <1>1
<1>3. \A j \in 1 .. n - 1 : j \in 1 .. n /\ j < n
  BY <1>1
<1>4. ASSUME list[n] = message
      PROVE  HasOthers(w, list, n, message)
  BY <1>2, <1>3, <1>4 DEF HasOthers
<1>5. ASSUME list[n] # message
      PROVE  /\ Append(w, list[n]) \in Seq(S)
             /\ HasOthers(Append(w, list[n]), list, n, message)
  <2> DEFINE v == Append(w, list[n])
  <2>1. list[n] \in S
    BY ElementOfSeq
  <2>2. /\ v \in Seq(S)
        /\ Len(v) = Len(w) + 1
        /\ \A k \in 1 .. Len(w) : v[k] = w[k]
        /\ v[Len(w) + 1] = list[n]
    BY <2>1, AppendProperties
  <2> HIDE DEF v
  <2>3. \A k \in 1 .. Len(v) : k \in 1 .. Len(w) \/ k = Len(w) + 1
    BY <1>1, <2>2
  <2>4. \A k \in 1 .. Len(v) :
            \E j \in 1 .. n : v[k] = list[j] /\ list[j] # message
    <3> SUFFICES ASSUME NEW k \in 1 .. Len(v)
                 PROVE  \E j \in 1 .. n : v[k] = list[j] /\ list[j] # message
      OBVIOUS
    <3>1. CASE k \in 1 .. Len(w)
      <4>1. PICK j \in 1 .. n - 1 : w[k] = list[j] /\ list[j] # message
        BY <3>1 DEF HasOthers
      <4> QED
        BY <1>3, <2>2, <3>1, <4>1
    <3>2. CASE k = Len(w) + 1
      BY <1>1, <1>5, <2>2, <3>2
    <3> QED
      BY <2>3, <3>1, <3>2
  <2>5. \A j \in 1 .. n :
            list[j] # message => \E k \in 1 .. Len(v) : v[k] = list[j]
    <3> SUFFICES ASSUME NEW j \in 1 .. n, list[j] # message
                 PROVE  \E k \in 1 .. Len(v) : v[k] = list[j]
      OBVIOUS
    <3>1. CASE j = n
      <4>1. Len(w) + 1 \in 1 .. Len(v)
        BY <1>1, <2>2
      <4> QED
        BY <2>2, <3>1, <4>1
    <3>2. CASE j \in 1 .. n - 1
      <4>1. PICK k \in 1 .. Len(w) : w[k] = list[j]
        BY <3>2 DEF HasOthers
      <4>2. k \in 1 .. Len(v) /\ v[k] = w[k]
        BY <1>1, <2>2
      <4> QED
        BY <4>1, <4>2
    <3> QED
      BY <1>2, <3>1, <3>2
  <2>6. ASSUME NEW k \in 1 .. Len(v), NEW l \in 1 .. Len(v), k < l
        PROVE  \E i, j \in 1 .. n : i < j /\ v[k] = list[i] /\ v[l] = list[j]
    <3>1. k \in 1 .. Len(w) /\ v[k] = w[k]
      BY <1>1, <2>2, <2>3, <2>6
    <3>2. CASE l \in 1 .. Len(w)
      <4>1. PICK i \in 1 .. n - 1, j \in 1 .. n - 1 :
                i < j /\ w[k] = list[i] /\ w[l] = list[j]
        BY <2>6, <3>1, <3>2 DEF HasOthers
      <4>2. v[l] = w[l]
        BY <2>2, <3>2
      <4> QED
        BY <1>3, <3>1, <4>1, <4>2
    <3>3. CASE l = Len(w) + 1
      <4>1. PICK i \in 1 .. n - 1 : w[k] = list[i]
        BY <3>1 DEF HasOthers
      <4>2. i < n /\ i \in 1 .. n
        BY <1>3
      <4> QED
        BY <1>1, <2>2, <3>1, <3>3, <4>1, <4>2
    <3> QED
      BY <2>3, <3>2, <3>3
  <2> QED
    BY <2>2, <2>4, <2>5, <2>6 DEF HasOthers, v
<1> QED
  BY <1>4, <1>5

\* What list::remove leaves, for lists of any length.
LEMMA WithoutRemoves ==
    ASSUME NEW S, NEW list \in Seq(S), NEW message
    PROVE  /\ Without(list, message) \in Seq(S)
           /\ HasOthers(Without(list, message), list, Len(list), message)
PROOF
<1> DEFINE L == Len(list)
           Next1(g, n) == IF n = 0 THEN <<>>
                          ELSE IF list[n] = message THEN g[n - 1]
                          ELSE Append(g[n - 1], list[n])
           Right(g, k) == \A n \in 0 .. k :
                              /\ g[n] = Next1(g, n)
                              /\ HasOthers(g[n], list, n, message)
           Runs(k) == \E g \in [0 .. k -> Seq(S)] : Right(g, k)
           T == {k \in 0 .. L : Runs(k)}
<1>1. L \in Nat
  BY LenProperties
<1>2. 0 .. L \subseteq T
  <2>1. Runs(0)
    <3> DEFINE g == [n \in 0 .. 0 |-> <<>>]
    <3>1. <<>> \in Seq(S) /\ Len(<<>>) = 0
      BY EmptySeq
    <3>2. g \in [0 .. 0 -> Seq(S)] /\ \A n \in 0 .. 0 : n = 0 /\ g[n] = <<>>
      BY <3>1
    <3>3. HasOthers(<<>>, list, 0, message)
      BY <3>1 DEF HasOthers
    <3> HIDE DEF g
    <3>4. Right(g, 0)
      BY <3>2, <3>3
    <3> QED
      BY <3>2, <3>4
  <2>2. ASSUME NEW k \in 1 .. L, Runs(k - 1)
        PROVE  Runs(k)
    <3>1. k - 1 \in 0 .. L /\ k \in Nat /\ k # 0
      BY <1>1
    <3>2. PICK g \in [0 .. k - 1 -> Seq(S)] : Right(g, k - 1)
      BY <2>2
    <3>4. g[k - 1] \in Seq(S) /\ HasOthers(g[k - 1], list, k - 1, message)
      BY <3>1, <3>2
    <3> DEFINE e == IF list[k] = message THEN g[k - 1]
                                         ELSE Append(g[k - 1], list[k])
               h == [n \in 0 .. k |-> IF n < k THEN g[n] ELSE e]
    <3>5. e \in Seq(S) /\ HasOthers(e, list, k, message)
      BY <3>1, <3>4, OthersOfNext
    <3>6. h \in [0 .. k -> Seq(S)]
      BY <3>1, <3>5
    <3>7. ASSUME NEW n \in 0 .. k
          PROVE  h[n] = Next1(h, n) /\ HasOthers(h[n], list, n, message)
      <4>1. CASE n = k
        <5>1. h[n] = e /\ h[n - 1] = g[n - 1]
          BY <3>1, <4>1
        <5> QED
          BY <3>1, <3>5, <4>1, <5>1
      <4>2. CASE n < k
        <5>1. n \in 0 .. k - 1
          BY <3>1, <4>2
        <5>2. h[n] = g[n] /\ n # 0 => h[n - 1] = g[n - 1]
          BY <3>1, <4>2
        <5>3. g[n] = Next1(g, n) /\ HasOthers(g[n], list, n, message)
          BY <3>2, <5>1
        <5>4. h[n] = g[n]
          BY <4>2
        <5> QED
          BY <5>2, <5>3, <5>4
      <4> QED
        BY <3>1, <4>1, <4>2
    <3> HIDE DEF h
    <3>8. Right(h, k)
      BY <3>7
    <3> QED
      BY <3>6, <3>8
  <2> HIDE DEF Runs
  <2>3. 0 \in T /\ \A k \in 0 + 1 .. L : k - 1 \in T => k \in T
    BY <1>1, <2>1, <2>2
  <2> HIDE DEF T
  <2> QED
    BY <1>1, <2>3, UpTo
<1>3. PICK g \in [0 .. L -> Seq(S)] : Right(g, L)
  <2> HIDE DEF Runs
  <2>1. Runs(L)
    BY <1>1, <1>2
  <2> QED
    BY <2>1 DEF Runs
<1> DEFINE kept == CHOOSE f : f = [n \in 0 .. L |-> Next1(f, n)]
<1>4. kept = [n \in 0 .. L |-> Next1(kept, n)]
  <2>1. g = [n \in 0 .. L |-> Next1(g, n)]
    BY <1>3
  <2> QED
    BY <2>1
<1>5. Without(list, message) = kept[L]
  BY DEF Without
<1> HIDE DEF kept
<1> DEFINE B == {n \in 0 .. L : kept[n] = g[n]}
<1>6. 0 .. L \subseteq B
  <2>1. \A k \in 0 .. L : kept[k] = Next1(kept, k) /\ g[k] = Next1(g, k)
    BY <1>3, <1>4
  <2>2. 0 \in B
    BY <1>1, <2>1
  <2>3. ASSUME NEW k \in 0 + 1 .. L, k - 1 \in B
        PROVE  k \in B
    <3>1. k \in 0 .. L /\ k # 0 /\ kept[k - 1] = g[k - 1]
      BY <1>1, <2>3
    <3>2. Next1(kept, k) = Next1(g, k)
      BY <3>1
    <3> QED
      BY <2>1, <3>1, <3>2
  <2> HIDE DEF B
  <2> QED
    BY <1>1, <2>2, <2>3, UpTo
<1>7. kept[L] = g[L] /\ L \in 0 .. L
  BY <1>1, <1>6
<1> QED
  BY <1>3, <1>5, <1>7

=============================================================================
