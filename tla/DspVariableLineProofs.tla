----------------------- MODULE DspVariableLineProofs -----------------------
(***************************************************************************)
(* The list of a [vline~] is its course, for any number of them, any       *)
(* segments and any delays.                                                *)
(***************************************************************************)
EXTENDS DspVariableLine, PdContextProofs

\* The message that process() has popped and not yet freed.
Popping == {inFlight} \ {NULL}

\* What o has in the queue, all of it with the outlet it cancels with, is in
\* its list, in the order of the queue.
IsCourse(o, list, c) ==
    /\ list \in Seq(Messages)
    /\ {x \in EntriesOf(c.queue) : x.object = o}
           = {Entry(o, 0, list[j]) : j \in 1 .. Len(list)}
    /\ \A j, k \in 1 .. Len(list) :
           j < k => Before(c.queue, list[j], list[k])

\* The pending segments are others than the present one, and each is for a
\* request of its own, of which there were n.
IsNumbered(list, numbers, present, n) ==
    /\ present \in 0 .. n
    /\ \A j \in 1 .. Len(list) :
           numbers[list[j]] \in 1 .. n /\ numbers[list[j]] # present
    /\ \A j, k \in 1 .. Len(list) :
           numbers[list[j]] = numbers[list[k]] => j = k

\* None is due later than the last that was asked for.
IsUntil(list, timestamp, last) ==
    \A j \in 1 .. Len(list) : timestamp[list[j]] <= last

Fine(o, list, c, numbers, present, n, last) ==
    /\ IsCourse(o, list, c)
    /\ IsNumbered(list, numbers, present, n)
    /\ IsUntil(list, c.timestamp, last)

Typed ==
    /\ blockStartTimestamp \in Int
    /\ now \in Int
    /\ path \in [VLines -> Nat]
    /\ requests \in [VLines -> Nat]
    /\ asked \in [Messages -> Nat]
    /\ lastStart \in [VLines -> Int]
    /\ messageList \in [VLines -> Seq(Messages)]

\* The inductive invariant.  The order of the queue is what puts a new
\* segment behind those that stay in the list; the requests are what tells
\* that a segment that is performed is not pending: its address may be.
OnCourse ==
    /\ Typed
    /\ Sound(ctx, Popping)
    /\ cascade = "none" => inFlight = NULL
    /\ OrderedExcept(ctx.queue, ctx.timestamp, {})
    /\ \A o \in VLines : Fine(o, messageList[o], ctx, asked, path[o],
                              requests[o], lastStart[o])

-----------------------------------------------------------------------------
(***************************************************************************)
(* clearAllMessagesAtOrAfter and clearAllMessagesFrom.                     *)
(***************************************************************************)

\* The first n elements of a list.
LEMMA FirstElements ==
    ASSUME NEW S, NEW list \in Seq(S), NEW n \in 0 .. Len(list)
    PROVE  /\ SubSeq(list, 1, n) \in Seq(S)
           /\ Len(SubSeq(list, 1, n)) = n
           /\ \A j \in 1 .. n : SubSeq(list, 1, n)[j] = list[j]
PROOF
<1>1. Len(list) \in Nat /\ n \in Nat
  BY LenProperties
<1>2. \A j \in 1 .. n : list[j] \in S
  BY <1>1, ElementOfSeq
<1> QED
  BY <1>1, <1>2, SubSeqProperties

\* What stays in the list are its first elements, up to the last that is not
\* later than the new segment.
LEMMA KeptIsFirst ==
    ASSUME NEW list \in Seq(Messages), NEW time \in Int,
           ctx.timestamp \in [Messages -> Int]
    PROVE  \E n \in 0 .. Len(list) :
               /\ Kept(list, time) = SubSeq(list, 1, n)
               /\ \A j \in 1 .. n : ctx.timestamp[list[j]] <= time
PROOF
<1>1. Len(list) \in Nat
  BY LenProperties
<1>2. \A j \in 1 .. Len(list) : ctx.timestamp[list[j]] \in Int
  BY ElementOfSeq
<1>3. CASE \E i \in 1 .. Len(list) : LaterFrom(list, time, i)
  <2> DEFINE i == CHOOSE k \in 1 .. Len(list) : LaterFrom(list, time, k)
  <2>1. i \in 1 .. Len(list) /\ LaterFrom(list, time, i)
    BY <1>3
  <2>2. Kept(list, time) = SubSeq(list, 1, i - 1)
    BY <1>3 DEF Kept
  <2> HIDE DEF i
  <2>3. i - 1 \in 0 .. Len(list)
    BY <1>1, <2>1
  <2> QED
    BY <2>1, <2>2, <2>3 DEF LaterFrom
<1>4. CASE ~ \E i \in 1 .. Len(list) : LaterFrom(list, time, i)
  <2> DEFINE T == {i \in 1 .. Len(list) : ctx.timestamp[list[i]] > time}
  <2>1. T = {}
    <3>1. SUFFICES ASSUME T # {}
                   PROVE  FALSE
      OBVIOUS
    <3>2. T \subseteq Nat
      BY <1>1
    <3>3. PICK i \in T : \A j \in T : i <= j
      <4> HIDE DEF T
      <4> QED
        BY <3>1, <3>2, FirstOf
    <3>4. \A j \in 1 .. i - 1 : j \in 1 .. Len(list) /\ j \notin T
      BY <1>1, <3>3
    <3>5. LaterFrom(list, time, i)
      BY <1>2, <3>3, <3>4 DEF LaterFrom
    <3> QED
      BY <1>4, <3>3, <3>5
  <2>2. \A j \in 1 .. Len(list) : ctx.timestamp[list[j]] <= time
    BY <1>2, <2>1
  <2>3. Kept(list, time) = list
    BY <1>4 DEF Kept
  <2>4. SubSeq(list, 1, Len(list)) = list
    <3>1. SubSeq(list, 1, Len(list)) \in Seq(Messages)
          /\ Len(SubSeq(list, 1, Len(list))) = Len(list)
          /\ \A j \in 1 .. Len(list) : SubSeq(list, 1, Len(list))[j] = list[j]
      BY <1>1, FirstElements
    <3> QED
      BY <3>1, SeqEqual
  <2>5. Len(list) \in 0 .. Len(list)
    BY <1>1
  <2> QED
    BY <2>2, <2>3, <2>4, <2>5
<1> QED
  BY <1>3, <1>4

\* The context when the elements of o's list from n + 1 to k are cancelled.
IsCleared(c, o, list, n, k) ==
    LET gone == {list[j] : j \in n + 1 .. k}
    IN  /\ Sound(c, Popping)
        /\ OrderedExcept(c.queue, c.timestamp, {})
        /\ EntriesOf(c.queue)
               = EntriesOf(ctx.queue) \ {Entry(o, 0, m) : m \in gone}
        /\ KeptBut(c, ctx, gone)

\* One more of them.
LEMMA ClearedNext ==
    ASSUME NEW o, NEW list \in Seq(Messages), NEW n \in Nat,
           NEW k \in n + 1 .. Len(list), NEW c,
           IsCleared(c, o, list, n, k - 1),
           Entry(o, 0, list[k]) \in EntriesOf(ctx.queue),
           \A j \in n + 1 .. k - 1 : list[j] # list[k]
    PROVE  IsCleared(CancelMessage(c, o, 0, list[k]), o, list, n, k)
PROOF
<1> DEFINE gone == {list[j] : j \in n + 1 .. k - 1}
           gone2 == {list[j] : j \in n + 1 .. k}
           m == list[k]
           d == CancelMessage(c, o, 0, m)
<1>1. gone2 = gone \cup {m} /\ m \notin gone
  <2>1. Len(list) \in Nat
    BY LenProperties
  <2>2. \A j \in n + 1 .. k : j \in n + 1 .. k - 1 \/ j = k
    BY <2>1
  <2>3. k \in n + 1 .. k /\ \A j \in n + 1 .. k - 1 : j \in n + 1 .. k
    BY <2>1
  <2> QED
    BY <2>2, <2>3
<1>2. /\ Sound(c, Popping)
      /\ OrderedExcept(c.queue, c.timestamp, {})
      /\ EntriesOf(c.queue)
             = EntriesOf(ctx.queue) \ {Entry(o, 0, x) : x \in gone}
      /\ KeptBut(c, ctx, gone)
  BY DEF IsCleared
<1>3. Entry(o, 0, m) \in EntriesOf(ctx.queue)
  OBVIOUS
<1> HIDE DEF gone, gone2, m
<1>4. Entry(o, 0, m) \in EntriesOf(c.queue)
  BY <1>1, <1>2, <1>3 DEF Entry
<1>5. /\ Sound(d, Popping)
      /\ EntriesOf(d.queue) = EntriesOf(c.queue) \ {Entry(o, 0, m)}
  BY ONLY <1>2, <1>4, CancelMessageSound
<1>6. KeptBut(d, c, {m})
  BY ONLY <1>2, <1>4, CancelMessageKeeps
<1>7. OrderedExcept(d.queue, d.timestamp, {} \ {m})
  BY ONLY <1>2, <1>4, CancelInOrder
<1> HIDE DEF d
<1>8. KeptBut(d, ctx, gone2)
  BY <1>1, <1>2, <1>6, KeptTwice
<1>9. EntriesOf(d.queue)
          = EntriesOf(ctx.queue) \ {Entry(o, 0, x) : x \in gone2}
  BY <1>1, <1>2, <1>5
<1>10. OrderedExcept(d.queue, d.timestamp, {})
  BY <1>7 DEF OrderedExcept
<1> QED
  BY <1>5, <1>8, <1>9, <1>10 DEF IsCleared, gone2, d, m

\* All of them, one after the other.
LEMMA AllCleared ==
    ASSUME Sound(ctx, Popping), OrderedExcept(ctx.queue, ctx.timestamp, {}),
           NEW o, NEW list \in Seq(Messages), NEW n \in 0 .. Len(list),
           \A k \in n + 1 .. Len(list) :
               /\ Entry(o, 0, list[k]) \in EntriesOf(ctx.queue)
               /\ \A j \in n + 1 .. k - 1 : list[j] # list[k]
    PROVE  IsCleared(ClearFrom(o, list, n), o, list, n, Len(list))
PROOF
<1> DEFINE L == Len(list)
           Next1(g, k) == IF k = n THEN ctx
                          ELSE CancelMessage(g[k - 1], o, 0, list[k])
           Right(g, k) == \A i \in n .. k :
                              /\ g[i] = Next1(g, i)
                              /\ IsCleared(g[i], o, list, n, i)
           Runs(k) == \E g \in [n .. k -> Contexts] : Right(g, k)
           T == {k \in n .. L : Runs(k)}
<1>1. L \in Nat /\ n \in Nat /\ n \in n .. L /\ L \in n .. L
  BY LenProperties
<1>2. \A c, k : IsCleared(c, o, list, n, k) => c \in Contexts
  BY DEF IsCleared, Sound
<1>3. n .. L \subseteq T
  <2>1. Runs(n)
    <3> DEFINE g == [i \in n .. n |-> ctx]
    <3>1. IsCleared(ctx, o, list, n, n)
      <4>1. {list[j] : j \in n + 1 .. n} = {}
        BY <1>1
      <4>2. EntriesOf(ctx.queue)
                = EntriesOf(ctx.queue) \ {Entry(o, 0, m) : m \in {}}
        OBVIOUS
      <4>3. KeptBut(ctx, ctx, {})
        BY DEF KeptBut
      <4> QED
        BY <4>1, <4>2, <4>3 DEF IsCleared
    <3>2. /\ g \in [n .. n -> Contexts]
          /\ \A i \in n .. n : i = n /\ g[i] = ctx
      BY <1>1, <1>2, <3>1
    <3> HIDE DEF g
    <3>3. Right(g, n)
      BY <3>1, <3>2
    <3> QED
      BY <3>2, <3>3
  <2>2. ASSUME NEW k \in n + 1 .. L, Runs(k - 1)
        PROVE  Runs(k)
    <3>1. k \in Nat /\ k # n /\ k - 1 \in n .. k - 1 /\ ~ (k <= k - 1)
      BY <1>1
    <3>2. PICK g \in [n .. k - 1 -> Contexts] : Right(g, k - 1)
      BY <2>2
    <3> DEFINE e == CancelMessage(g[k - 1], o, 0, list[k])
               h == [i \in n .. k |-> IF i < k THEN g[i] ELSE e]
    <3>3. IsCleared(g[k - 1], o, list, n, k - 1)
      BY <3>1, <3>2
    <3>4. IsCleared(e, o, list, n, k)
      BY <1>1, <3>3, ClearedNext
    <3> HIDE DEF e
    <3>5. h \in [n .. k -> Contexts]
      <4>1. ASSUME NEW i \in n .. k, i < k
            PROVE  i \in n .. k - 1
        BY <1>1, <3>1, <4>1
      <4> QED
        BY <1>2, <3>2, <3>4, <4>1
    <3>6. ASSUME NEW i \in n .. k
          PROVE  h[i] = Next1(h, i) /\ IsCleared(h[i], o, list, n, i)
      <4>1. CASE i = k
        <5>1. h[i] = e /\ h[i - 1] = g[i - 1]
          BY <1>1, <3>1, <4>1
        <5> QED
          BY <3>1, <3>4, <4>1, <5>1 DEF e
      <4>2. CASE i < k
        <5>1. i \in n .. k - 1 /\ (i # n => i - 1 \in n .. k /\ i - 1 < k)
          BY <1>1, <3>1, <4>2
        <5>2. h[i] = g[i] /\ (i # n => h[i - 1] = g[i - 1])
          BY <4>2, <5>1
        <5>3. g[i] = Next1(g, i) /\ IsCleared(g[i], o, list, n, i)
          BY <3>2, <5>1
        <5> HIDE DEF h
        <5> QED
          BY <5>2, <5>3
      <4> QED
        BY <1>1, <3>1, <4>1, <4>2
    <3> HIDE DEF h
    <3>7. Right(h, k)
      BY <3>6
    <3> QED
      BY <3>5, <3>7
  <2> HIDE DEF Runs
  <2>3. n \in T /\ \A k \in n + 1 .. L : k - 1 \in T => k \in T
    BY <1>1, <2>1, <2>2
  <2> HIDE DEF T
  <2> QED
    BY <1>1, <2>3, UpTo
<1>4. PICK g \in [n .. L -> Contexts] : Right(g, L)
  <2> HIDE DEF Runs
  <2>1. Runs(L)
    BY <1>1, <1>3
  <2> QED
    BY <2>1 DEF Runs
<1> DEFINE cleared == CHOOSE f : f = [k \in n .. L |-> Next1(f, k)]
<1>5. cleared = [k \in n .. L |-> Next1(cleared, k)]
  <2>1. g = [k \in n .. L |-> Next1(g, k)]
    BY <1>4
  <2> QED
    BY <2>1
<1>6. ClearFrom(o, list, n) = cleared[L]
  BY DEF ClearFrom
<1> HIDE DEF cleared
<1> DEFINE B == {k \in n .. L : cleared[k] = g[k]}
<1>7. n .. L \subseteq B
  <2>1. \A k \in n .. L : cleared[k] = Next1(cleared, k) /\ g[k] = Next1(g, k)
    BY <1>4, <1>5
  <2>2. n \in B
    BY <1>1, <2>1
  <2>3. ASSUME NEW k \in n + 1 .. L, k - 1 \in B
        PROVE  k \in B
    <3>1. k \in n .. L /\ k # n /\ cleared[k - 1] = g[k - 1]
      BY <1>1, <2>3
    <3>2. Next1(cleared, k) = Next1(g, k)
      BY <3>1
    <3> QED
      BY <2>1, <3>1, <3>2
  <2> HIDE DEF B
  <2> QED
    BY <1>1, <2>2, <2>3, UpTo
<1>8. cleared[L] = g[L] /\ L \in n .. L
  BY <1>1, <1>7
<1> QED
  BY <1>4, <1>6, <1>8

-----------------------------------------------------------------------------
(***************************************************************************)
(* What a change of the queue and the heap leaves of a course.             *)
(***************************************************************************)

\* An entry is its object, outlet and message.
LEMMA EntryFields ==
    ASSUME NEW o, NEW n, NEW m
    PROVE  /\ Entry(o, n, m).object = o
           /\ Entry(o, n, m).message = m
           /\ \A p, k, x : Entry(o, n, m) = Entry(p, k, x) => o = p /\ m = x
  BY DEF Entry

\* What is in a list is queued, once.
LEMMA CourseIsQueued ==
    ASSUME NEW o, NEW list, NEW c, NEW out, Sound(c, out),
           IsCourse(o, list, c)
    PROVE  /\ Len(list) \in Nat
           /\ \A j \in 1 .. Len(list) :
                  /\ list[j] \in Messages
                  /\ Entry(o, 0, list[j]) \in EntriesOf(c.queue)
                  /\ list[j] \in MessagesOf(c.queue)
                  /\ list[j] \in c.live
                  /\ \A k \in 1 .. Len(list) : list[j] = list[k] => j = k
PROOF
<1>1. Len(list) \in Nat /\ \A j \in 1 .. Len(list) : list[j] \in Messages
  BY LenProperties, ElementOfSeq DEF IsCourse
<1>2. ASSUME NEW j \in 1 .. Len(list)
      PROVE  Entry(o, 0, list[j]) \in EntriesOf(c.queue)
  BY DEF IsCourse
<1>3. ASSUME NEW j \in 1 .. Len(list)
      PROVE  list[j] \in MessagesOf(c.queue)
  BY <1>2, MessagesOfEntries, EntryFields
<1>4. ASSUME NEW m, Before(c.queue, m, m)
      PROVE  FALSE
  <2>1. PICK i \in 1 .. Len(c.queue), k \in 1 .. Len(c.queue) :
            i < k /\ c.queue[i].message = m /\ c.queue[k].message = m
    BY <1>4 DEF Before
  <2>2. i = k
    BY <2>1 DEF Sound, PointsOnce
  <2> QED
    BY <2>1, <2>2
<1>5. ASSUME NEW j \in 1 .. Len(list), NEW k \in 1 .. Len(list),
             list[j] = list[k], j # k
      PROVE  FALSE
  <2>1. j < k \/ k < j
    BY <1>1, <1>5
  <2> QED
    BY <1>4, <1>5, <2>1 DEF IsCourse
<1> QED
  BY <1>1, <1>2, <1>3, <1>5 DEF Sound

\* Two objects share no message.
LEMMA CoursesApart ==
    ASSUME NEW o, NEW p, o # p, NEW l, NEW list, NEW c, NEW out, Sound(c, out),
           IsCourse(o, l, c), IsCourse(p, list, c),
           NEW i \in 1 .. Len(l), NEW j \in 1 .. Len(list)
    PROVE  l[i] # list[j]
PROOF
<1>1. /\ Entry(o, 0, l[i]) \in EntriesOf(c.queue)
      /\ Entry(p, 0, list[j]) \in EntriesOf(c.queue)
  BY CourseIsQueued
<1>2. \A x, y \in EntriesOf(c.queue) : x.message = y.message => x = y
  BY DEF Sound, PointsOnce, EntriesOf
<1> QED
  BY <1>1, <1>2, EntryFields

\* A course goes on when none of its messages are taken out and none are put
\* in.
LEMMA FineStays ==
    ASSUME NEW o, NEW list, NEW c, NEW out, Sound(c, out), NEW d, NEW gone,
           KeptBut(d, c, gone), NEW numbers, NEW numbers2, NEW present, NEW n,
           NEW last, Fine(o, list, c, numbers, present, n, last),
           {x \in EntriesOf(d.queue) : x.object = o}
               = {x \in EntriesOf(c.queue) : x.object = o},
           \A j \in 1 .. Len(list) : list[j] \notin gone,
           \A j \in 1 .. Len(list) : numbers2[list[j]] = numbers[list[j]]
    PROVE  Fine(o, list, d, numbers2, present, n, last)
PROOF
<1>1. IsCourse(o, list, c)
  BY DEF Fine
<1>2. \A j \in 1 .. Len(list) : list[j] \in MessagesOf(c.queue) \ gone
  BY <1>1, CourseIsQueued
<1>3. IsCourse(o, list, d)
  BY <1>1, <1>2 DEF IsCourse, KeptBut
<1>4. IsUntil(list, d.timestamp, last)
  BY <1>2 DEF Fine, IsUntil, KeptBut
<1>5. IsNumbered(list, numbers2, present, n)
  BY DEF Fine, IsNumbered
<1> QED
  BY <1>3, <1>4, <1>5 DEF Fine

\* The first elements of a list, when the others are cancelled.
LEMMA FineFirst ==
    ASSUME NEW o, NEW list, Sound(ctx, Popping), NEW i \in 0 .. Len(list),
           NEW d, IsCleared(d, o, list, i, Len(list)),
           NEW numbers, NEW numbers2, NEW present, NEW n, NEW last, NEW last2,
           Fine(o, list, ctx, numbers, present, n, last),
           \A j \in 1 .. i : /\ numbers2[list[j]] = numbers[list[j]]
                             /\ ctx.timestamp[list[j]] <= last2
    PROVE  Fine(o, SubSeq(list, 1, i), d, numbers2, present, n, last2)
PROOF
<1> DEFINE first == SubSeq(list, 1, i)
           gone == {list[j] : j \in i + 1 .. Len(list)}
<1>1. IsCourse(o, list, ctx)
  BY DEF Fine
<1>2. /\ Len(list) \in Nat
      /\ \A j \in 1 .. Len(list) :
             /\ list[j] \in MessagesOf(ctx.queue)
             /\ \A k \in 1 .. Len(list) : list[j] = list[k] => j = k
  BY <1>1, CourseIsQueued
<1>3. /\ first \in Seq(Messages)
      /\ Len(first) = i
      /\ \A j \in 1 .. i : first[j] = list[j]
  BY <1>1, FirstElements DEF IsCourse
<1>4. /\ EntriesOf(d.queue)
             = EntriesOf(ctx.queue) \ {Entry(o, 0, m) : m \in gone}
      /\ KeptBut(d, ctx, gone)
  BY DEF IsCleared
<1> HIDE DEF first
<1>5. \A j \in 1 .. i : j \in 1 .. Len(list) /\ list[j] \notin gone
  <2>1. \A j \in 1 .. i : j \in 1 .. Len(list)
    BY <1>2
  <2>2. \A j \in 1 .. i, k \in i + 1 .. Len(list) :
            j # k /\ k \in 1 .. Len(list)
    BY <1>2
  <2> QED
    BY <1>2, <2>1, <2>2
<1>6. {x \in EntriesOf(d.queue) : x.object = o}
          = {Entry(o, 0, first[j]) : j \in 1 .. Len(first)}
  <2>1. {x \in EntriesOf(ctx.queue) : x.object = o}
            = {Entry(o, 0, list[j]) : j \in 1 .. Len(list)}
    BY <1>1 DEF IsCourse
  <2>2. \A j \in 1 .. Len(list) : j \in 1 .. i \/ list[j] \in gone
    BY <1>2
  <2>3. \A j \in 1 .. i : Entry(o, 0, list[j]) \notin {Entry(o, 0, m) : m \in gone}
    <3> HIDE DEF gone
    <3> QED
      BY <1>5, EntryFields
  <2> HIDE DEF gone
  <2>4. {x \in EntriesOf(d.queue) : x.object = o}
            = {Entry(o, 0, list[j]) : j \in 1 .. Len(list)}
                  \ {Entry(o, 0, m) : m \in gone}
    BY <1>4, <2>1
  <2>5. {Entry(o, 0, list[j]) : j \in 1 .. Len(list)}
            \ {Entry(o, 0, m) : m \in gone}
            = {Entry(o, 0, list[j]) : j \in 1 .. i}
    BY <1>5, <2>2, <2>3
  <2>6. {Entry(o, 0, list[j]) : j \in 1 .. i}
            = {Entry(o, 0, first[j]) : j \in 1 .. Len(first)}
    BY <1>3
  <2> QED
    BY <2>4, <2>5, <2>6
<1> HIDE DEF gone
<1>7. IsCourse(o, first, d)
  <2>1. ASSUME NEW j \in 1 .. Len(first), NEW k \in 1 .. Len(first), j < k
        PROVE  Before(d.queue, first[j], first[k])
    <3>1. Before(ctx.queue, list[j], list[k])
      BY <1>1, <1>3, <1>5, <2>1 DEF IsCourse
    <3> QED
      BY <1>2, <1>3, <1>4, <1>5, <3>1 DEF KeptBut
  <2> QED
    BY <1>3, <1>6, <2>1 DEF IsCourse
<1>8. IsUntil(first, d.timestamp, last2)
  BY <1>2, <1>3, <1>4, <1>5 DEF IsUntil, KeptBut
<1>9. IsNumbered(first, numbers2, present, n)
  <2>1. IsNumbered(list, numbers, present, n)
    BY DEF Fine
  <2> QED
    BY <1>3, <1>5, <2>1 DEF IsNumbered
<1> QED
  BY <1>7, <1>8, <1>9 DEF Fine, first

\* A segment put behind the others.
LEMMA FineAppended ==
    ASSUME NEW o \in VLines, NEW list, NEW c, NEW out, Sound(c, out),
           OrderedExcept(c.queue, c.timestamp, {}),
           NEW numbers, NEW numbers2, NEW present, NEW n \in Nat,
           NEW time \in Int, Fine(o, list, c, numbers, present, n, time),
           NEW message \in Fresh(c), numbers2[message] = n + 1,
           \A j \in 1 .. Len(list) : numbers2[list[j]] = numbers[list[j]]
    PROVE  Fine(o, Append(list, message),
                ScheduleMessage(c, o, 0, message, time),
                numbers2, present, n + 1, time)
PROOF
<1> DEFINE d == ScheduleMessage(c, o, 0, message, time)
           new == Append(list, message)
           L == Len(list)
<1>1. o \in Objects /\ 0 \in Outlets /\ message \in Messages
  BY VLineAssumption DEF Fresh
<1>2. IsCourse(o, list, c)
  BY DEF Fine
<1>3. /\ L \in Nat
      /\ \A j \in 1 .. L : /\ list[j] \in Messages
                           /\ list[j] \in MessagesOf(c.queue)
                           /\ c.timestamp[list[j]] <= time
  BY <1>2, CourseIsQueued DEF Fine, IsUntil
<1>4. /\ EntriesOf(d.queue) = EntriesOf(c.queue) \cup {Entry(o, 0, message)}
      /\ message \notin MessagesOf(c.queue)
      /\ Timestamps(d, c, message, time)
  BY ONLY <1>1, Sound(c, out), message \in Fresh(c), time \in Int,
          ScheduleMessageSound
<1>5. KeptBut(d, c, {})
  BY ONLY <1>1, Sound(c, out), message \in Fresh(c), time \in Int,
          ScheduleMessageKeeps
<1>6. \A j \in 1 .. L : Before(d.queue, list[j], message)
  <2>1. \A m \in MessagesOf(c.queue) \cap {} : c.timestamp[m] <= time
    OBVIOUS
  <2>2. ASSUME NEW m \in MessagesOf(c.queue) \ {}, c.timestamp[m] <= time
        PROVE  Before(d.queue, m, message)
    BY ONLY <1>1, <2>1, <2>2, Sound(c, out), message \in Fresh(c),
            time \in Int, OrderedExcept(c.queue, c.timestamp, {}),
            BehindTheEarlier
  <2> QED
    BY <1>3, <2>2
<1>7. /\ new \in Seq(Messages)
      /\ Len(new) = L + 1
      /\ \A j \in 1 .. L : new[j] = list[j]
      /\ new[L + 1] = message
  BY <1>1, <1>2, AppendProperties DEF IsCourse
<1> HIDE DEF d, new, L
<1>8. \A j \in 1 .. L + 1 : j \in 1 .. L \/ j = L + 1
  BY <1>3
<1>9. IsCourse(o, new, d)
  <2>1. {x \in EntriesOf(d.queue) : x.object = o}
            = {Entry(o, 0, new[j]) : j \in 1 .. Len(new)}
    <3>1. {x \in EntriesOf(c.queue) : x.object = o}
              = {Entry(o, 0, list[j]) : j \in 1 .. L}
      BY <1>2 DEF IsCourse, L
    <3>2. {x \in EntriesOf(d.queue) : x.object = o}
              = {Entry(o, 0, list[j]) : j \in 1 .. L} \cup {Entry(o, 0, message)}
      BY <1>4, <3>1, EntryFields
    <3>3. \A j \in 1 .. L : j \in 1 .. L + 1
      BY <1>3
    <3>4. L + 1 \in 1 .. L + 1
      BY <1>3
    <3> QED
      BY <1>7, <1>8, <3>2, <3>3, <3>4
  <2>2. ASSUME NEW j \in 1 .. Len(new), NEW k \in 1 .. Len(new), j < k
        PROVE  Before(d.queue, new[j], new[k])
    <3>1. j \in 1 .. L
      BY <1>3, <1>7, <2>2
    <3>2. CASE k \in 1 .. L
      <4>1. Before(c.queue, list[j], list[k])
        BY <1>2, <2>2, <3>1, <3>2 DEF IsCourse, L
      <4> QED
        BY <1>3, <1>5, <1>7, <3>1, <3>2, <4>1 DEF KeptBut
    <3>3. CASE k = L + 1
      BY <1>6, <1>7, <3>1, <3>3
    <3> QED
      BY <1>7, <1>8, <3>2, <3>3
  <2> QED
    BY <1>7, <2>1, <2>2 DEF IsCourse
<1>10. IsUntil(new, d.timestamp, time)
  <2>1. \A j \in 1 .. L : d.timestamp[list[j]] = c.timestamp[list[j]]
    BY <1>3, <1>5 DEF KeptBut
  <2>2. d.timestamp[message] = time
    BY <1>1, <1>4 DEF Timestamps
  <2> QED
    BY <1>3, <1>7, <1>8, <2>1, <2>2 DEF IsUntil
<1>11. IsNumbered(new, numbers2, present, n + 1)
  <2>1. /\ present \in 0 .. n
        /\ \A j \in 1 .. L :
               numbers2[list[j]] \in 1 .. n /\ numbers2[list[j]] # present
        /\ \A j, k \in 1 .. L :
               numbers2[list[j]] = numbers2[list[k]] => j = k
    BY DEF Fine, IsNumbered, L
  <2>2. \A i \in 0 .. n : i \in 0 .. n + 1 /\ i # n + 1
    OBVIOUS
  <2>3. \A i \in 1 .. n : i \in 1 .. n + 1 /\ i # n + 1
    OBVIOUS
  <2>4. n + 1 \in 1 .. n + 1
    OBVIOUS
  <2> QED
    BY <1>7, <1>8, <2>1, <2>2, <2>3, <2>4 DEF IsNumbered
<1> QED
  BY <1>9, <1>10, <1>11 DEF Fine, d, new

-----------------------------------------------------------------------------
(***************************************************************************)
(* The handlers of a vline~.                                               *)
(***************************************************************************)

\* What clearAllMessagesFrom leaves of every course.
LEMMA ClearedCourses ==
    ASSUME OnCourse, NEW o \in VLines, NEW n \in 0 .. Len(messageList[o])
    PROVE  LET c == ClearFrom(o, messageList[o], n)
           IN  /\ Sound(c, Popping)
               /\ OrderedExcept(c.queue, c.timestamp, {})
               /\ AskedAfter(c) \in [Messages -> Nat]
               /\ \A p \in VLines \ {o} :
                      Fine(p, messageList[p], c, AskedAfter(c), path[p],
                           requests[p], lastStart[p])
               /\ \A last : (\A j \in 1 .. n :
                                 ctx.timestamp[messageList[o][j]] <= last)
                      => Fine(o, SubSeq(messageList[o], 1, n), c,
                              AskedAfter(c), path[o], requests[o], last)
PROOF
<1> DEFINE list == messageList[o]
           c == ClearFrom(o, list, n)
           gone == {list[j] : j \in n + 1 .. Len(list)}
<1>1. /\ Sound(ctx, Popping)
      /\ OrderedExcept(ctx.queue, ctx.timestamp, {})
      /\ asked \in [Messages -> Nat]
      /\ \A p \in VLines : Fine(p, messageList[p], ctx, asked, path[p],
                                requests[p], lastStart[p])
  BY DEF OnCourse, Typed
<1>2. \A p \in VLines : IsCourse(p, messageList[p], ctx)
  BY <1>1 DEF Fine
<1> HIDE DEF list
<1>3. /\ list \in Seq(Messages)
      /\ Len(list) \in Nat
      /\ \A k \in 1 .. Len(list) :
             /\ list[k] \in MessagesOf(ctx.queue)
             /\ Entry(o, 0, list[k]) \in EntriesOf(ctx.queue)
             /\ \A j \in 1 .. Len(list) : list[j] = list[k] => j = k
  <2>1. IsCourse(o, list, ctx)
    BY <1>2 DEF list
  <2>2. list \in Seq(Messages)
    BY <2>1 DEF IsCourse
  <2> QED
    BY <1>1, <2>1, <2>2, CourseIsQueued
<1>4. \A k \in n + 1 .. Len(list) :
          /\ Entry(o, 0, list[k]) \in EntriesOf(ctx.queue)
          /\ \A j \in n + 1 .. k - 1 : list[j] # list[k]
  <2>1. ASSUME NEW k \in n + 1 .. Len(list)
        PROVE  /\ k \in 1 .. Len(list)
               /\ \A j \in n + 1 .. k - 1 : j \in 1 .. Len(list) /\ j # k
    BY <1>3 DEF list
  <2> QED
    BY <1>3, <2>1
<1>5. n \in 0 .. Len(list)
  BY DEF list
<1>6. IsCleared(c, o, list, n, Len(list))
  BY ONLY <1>1, <1>3, <1>4, <1>5, AllCleared
<1> HIDE DEF c
<1>7. /\ Sound(c, Popping)
      /\ OrderedExcept(c.queue, c.timestamp, {})
      /\ EntriesOf(c.queue)
             = EntriesOf(ctx.queue) \ {Entry(o, 0, m) : m \in gone}
      /\ KeptBut(c, ctx, gone)
  BY <1>6 DEF IsCleared
<1>8. \A m \in Messages \cap MessagesOf(c.queue) : AskedAfter(c)[m] = asked[m]
  BY <1>7 DEF AskedAfter, Sound
<1>9. AskedAfter(c) \in [Messages -> Nat]
  BY <1>1 DEF AskedAfter
<1>10. ASSUME NEW p \in VLines \ {o}
       PROVE  Fine(p, messageList[p], c, AskedAfter(c), path[p],
                   requests[p], lastStart[p])
  <2> DEFINE l == messageList[p]
  <2>1. /\ IsCourse(p, l, ctx) /\ IsCourse(o, list, ctx) /\ p # o
        /\ Fine(p, l, ctx, asked, path[p], requests[p], lastStart[p])
    BY <1>1, <1>2 DEF list
  <2> HIDE DEF l
  <2>2. \A j \in 1 .. Len(l) : l[j] \in Messages /\ l[j] \in MessagesOf(ctx.queue)
    BY <1>1, <2>1, CourseIsQueued
  <2>3. \A j \in 1 .. Len(l) : l[j] \notin gone
    <3>1. \A i \in 1 .. Len(list), j \in 1 .. Len(l) : list[i] # l[j]
      BY <1>1, <2>1, CoursesApart
    <3>2. \A i \in n + 1 .. Len(list) : i \in 1 .. Len(list)
      BY <1>3, <1>5
    <3> QED
      BY <3>1, <3>2
  <2>4. \A j \in 1 .. Len(l) : AskedAfter(c)[l[j]] = asked[l[j]]
    BY <1>7, <1>8, <2>2, <2>3 DEF KeptBut
  <2>5. {x \in EntriesOf(c.queue) : x.object = p}
            = {x \in EntriesOf(ctx.queue) : x.object = p}
    BY <1>7, EntryFields
  <2> HIDE DEF gone
  <2>6. Fine(p, l, c, AskedAfter(c), path[p], requests[p], lastStart[p])
    BY <1>1, <1>7, <2>1, <2>3, <2>4, <2>5, FineStays
  <2> QED
    BY <2>6 DEF l
<1>11. ASSUME NEW last,
              \A j \in 1 .. n : ctx.timestamp[list[j]] <= last
       PROVE  Fine(o, SubSeq(list, 1, n), c, AskedAfter(c), path[o],
                   requests[o], last)
  <2>1. ASSUME NEW j \in 1 .. n
        PROVE  AskedAfter(c)[list[j]] = asked[list[j]]
    <3>1. j \in 1 .. Len(list)
      BY <1>3, <1>5
    <3>2. list[j] \notin gone
      <4>1. \A k \in n + 1 .. Len(list) : k \in 1 .. Len(list) /\ k # j
        BY <1>3, <1>5
      <4> QED
        BY <1>3, <3>1, <4>1
    <3>3. list[j] \in MessagesOf(c.queue) /\ list[j] \in Messages
      BY <1>3, <1>7, <3>1, <3>2, ElementOfSeq DEF KeptBut
    <3> QED
      BY <1>8, <3>3
  <2>2. Fine(o, list, ctx, asked, path[o], requests[o], lastStart[o])
    BY <1>1 DEF list
  <2> QED
    BY <1>1, <1>5, <1>6, <1>11, <2>1, <2>2, FineFirst
<1> QED
  BY <1>7, <1>9, <1>10, <1>11 DEF list, c

\* A segment, whether it starts at once or waits behind those that are kept.
LEMMA SegmentOnCourse ==
    ASSUME OnCourse, NEW o \in VLines, NEW delay \in LineDelays,
           NEW message \in Messages, Segment(o, delay, message)
    PROVE  OnCourse'
PROOF
<1> DEFINE list == messageList[o]
           start == now + delay
           kept == Kept(list, start)
           c == ClearFrom(o, list, Len(kept))
           request == requests[o] + 1
           numbers == AskedAfter(c)
<1>1. /\ list \in Seq(Messages)
      /\ start \in Int
      /\ requests[o] \in Nat
      /\ ctx.timestamp \in [Messages -> Int]
  BY VLineAssumption, ContextFields DEF OnCourse, Typed, Sound
<1>2. PICK n \in 0 .. Len(list) :
          /\ kept = SubSeq(list, 1, n)
          /\ \A j \in 1 .. n : ctx.timestamp[list[j]] <= start
  <2> HIDE DEF list, start
  <2> QED
    BY <1>1, KeptIsFirst
<1>3. kept \in Seq(Messages) /\ Len(kept) = n
  <2> HIDE DEF list, kept
  <2> QED
    BY <1>1, <1>2, FirstElements
<1>4. c = ClearFrom(o, list, n)
  BY <1>3
<1>5. /\ Sound(c, Popping)
      /\ OrderedExcept(c.queue, c.timestamp, {})
      /\ numbers \in [Messages -> Nat]
      /\ \A p \in VLines \ {o} : Fine(p, messageList[p], c, numbers, path[p],
                                      requests[p], lastStart[p])
      /\ Fine(o, kept, c, numbers, path[o], requests[o], start)
  <2>1. LET e == ClearFrom(o, messageList[o], n)
        IN  /\ Sound(e, Popping)
            /\ OrderedExcept(e.queue, e.timestamp, {})
            /\ AskedAfter(e) \in [Messages -> Nat]
            /\ \A p \in VLines \ {o} :
                   Fine(p, messageList[p], e, AskedAfter(e), path[p],
                        requests[p], lastStart[p])
            /\ \A last : (\A j \in 1 .. n :
                              ctx.timestamp[messageList[o][j]] <= last)
                   => Fine(o, SubSeq(messageList[o], 1, n), e,
                           AskedAfter(e), path[o], requests[o], last)
    BY ClearedCourses
  <2>2. Fine(o, SubSeq(list, 1, n), c, numbers, path[o], requests[o], start)
    <3> HIDE DEF start, kept
    <3> QED
      BY <1>2, <1>4, <2>1
  <2> HIDE DEF start, kept
  <2> QED
    BY <1>2, <1>4, <2>1, <2>2
<1>6. /\ cascade' = "direct"
      /\ requests' = [requests EXCEPT ![o] = request]
      /\ lastStart' = [lastStart EXCEPT ![o] = start]
      /\ UNCHANGED <<blockStartTimestamp, now, inFlight>>
      /\ \/ /\ ctx' = c
            /\ messageList' = [messageList EXCEPT ![o] = kept]
            /\ path' = [path EXCEPT ![o] = request]
            /\ asked' = numbers
         \/ /\ message \in Fresh(c)
            /\ ctx' = ScheduleMessage(c, o, 0, message, start)
            /\ messageList' = [messageList EXCEPT ![o] = Append(kept, message)]
            /\ path' = path
            /\ asked' = [numbers EXCEPT ![message] = request]
  BY DEF Segment, Consuming
<1>7. Typed /\ Popping' = Popping
  BY <1>6 DEF OnCourse, Popping
<1> HIDE DEF list, start, kept, c, numbers
<1>8. /\ request \in Nat
      /\ request # 0
      /\ \A i \in 1 .. requests[o] : i \in 1 .. request /\ i # request
      /\ request \in 0 .. request
  BY <1>1
<1>9. CASE /\ ctx' = c
           /\ messageList' = [messageList EXCEPT ![o] = kept]
           /\ path' = [path EXCEPT ![o] = request]
           /\ asked' = numbers
  <2>1. Fine(o, kept, c, numbers, request, request, start)
    <3>1. IsNumbered(kept, numbers, path[o], requests[o])
      BY <1>5 DEF Fine
    <3>2. IsNumbered(kept, numbers, request, request)
      <4> HIDE DEF request
      <4> QED
        BY <1>8, <3>1 DEF IsNumbered
    <3> QED
      BY <1>5, <3>2 DEF Fine
  <2>2. Typed'
    <3> HIDE DEF request
    <3> QED
      BY <1>1, <1>3, <1>5, <1>6, <1>7, <1>8, <1>9 DEF Typed
  <2>3. ASSUME NEW p \in VLines
        PROVE  Fine(p, messageList'[p], ctx', asked', path'[p], requests'[p],
                    lastStart'[p])
    <3> HIDE DEF request
    <3>1. CASE p = o
      <4>1. /\ messageList'[p] = kept /\ path'[p] = request
            /\ requests'[p] = request /\ lastStart'[p] = start
        BY <1>6, <1>7, <1>9, <3>1 DEF Typed
      <4> QED
        BY <1>9, <2>1, <3>1, <4>1
    <3>2. CASE p # o
      <4>1. /\ messageList'[p] = messageList[p] /\ path'[p] = path[p]
            /\ requests'[p] = requests[p] /\ lastStart'[p] = lastStart[p]
        BY <1>6, <1>7, <1>9, <3>2 DEF Typed
      <4> QED
        BY <1>5, <1>9, <3>2, <4>1
    <3> QED
      BY <3>1, <3>2
  <2> QED
    BY <1>5, <1>6, <1>7, <1>9, <2>2, <2>3 DEF OnCourse
<1>10. CASE /\ message \in Fresh(c)
            /\ ctx' = ScheduleMessage(c, o, 0, message, start)
            /\ messageList' = [messageList EXCEPT ![o] = Append(kept, message)]
            /\ path' = path
            /\ asked' = [numbers EXCEPT ![message] = request]
  <2> DEFINE d == ScheduleMessage(c, o, 0, message, start)
  <2>1. o \in Objects /\ 0 \in Outlets
    BY VLineAssumption
  <2>2. /\ Sound(d, Popping)
        /\ message \notin MessagesOf(c.queue) \cup Popping
        /\ EntriesOf(d.queue) = EntriesOf(c.queue) \cup {Entry(o, 0, message)}
    <3>1. Sound(c, Popping) /\ start \in Int /\ message \in Fresh(c)
      BY <1>1, <1>5, <1>10
    <3> QED
      BY ONLY <2>1, <3>1, ScheduleMessageSound
  <2>3. KeptBut(d, c, {})
    BY ONLY <1>1, <1>5, <1>10, <2>1, ScheduleMessageKeeps
  <2>4. OrderedExcept(d.queue, d.timestamp, {})
    <3>1. \A m \in MessagesOf(c.queue) \cap {} : c.timestamp[m] <= start
      OBVIOUS
    <3> QED
      BY ONLY <1>1, <1>5, <1>10, <2>1, <3>1, ScheduleInOrder
  <2>5. /\ asked'[message] = request
        /\ \A m \in Messages \ {message} : asked'[m] = numbers[m]
    BY <1>5, <1>10
  <2>6. ASSUME NEW p \in VLines, NEW l, IsCourse(p, l, c)
        PROVE  \A j \in 1 .. Len(l) : asked'[l[j]] = numbers[l[j]]
    BY <1>5, <2>2, <2>5, <2>6, CourseIsQueued
  <2>7. Fine(o, Append(kept, message), d, asked', path[o], request, start)
    <3>1. \A j \in 1 .. Len(kept) : asked'[kept[j]] = numbers[kept[j]]
      BY <1>5, <2>6 DEF Fine
    <3>2. requests[o] \in Nat /\ asked'[message] = requests[o] + 1
      BY <1>1, <2>5
    <3>3. start \in Int /\ message \in Fresh(c) /\ Sound(c, Popping)
      BY <1>1, <1>5, <1>10
    <3>4. /\ OrderedExcept(c.queue, c.timestamp, {})
          /\ Fine(o, kept, c, numbers, path[o], requests[o], start)
      BY <1>5
    <3> QED
      BY ONLY <3>1, <3>2, <3>3, <3>4, o \in VLines, FineAppended
  <2> HIDE DEF d
  <2>8. ASSUME NEW p \in VLines \ {o}
        PROVE  Fine(p, messageList[p], d, asked', path[p], requests[p],
                    lastStart[p])
    <3> DEFINE l == messageList[p]
    <3>1. Fine(p, l, c, numbers, path[p], requests[p], lastStart[p])
      BY <1>5
    <3> HIDE DEF l
    <3>2. \A j \in 1 .. Len(l) : asked'[l[j]] = numbers[l[j]]
      BY <2>6, <3>1 DEF Fine
    <3>3. {x \in EntriesOf(d.queue) : x.object = p}
              = {x \in EntriesOf(c.queue) : x.object = p}
      BY <2>2, EntryFields
    <3>4. \A j \in 1 .. Len(l) : l[j] \notin {}
      OBVIOUS
    <3>5. Fine(p, l, d, asked', path[p], requests[p], lastStart[p])
      BY ONLY <1>5, <2>3, <3>1, <3>2, <3>3, <3>4, FineStays
    <3> QED
      BY <3>5 DEF l
  <2>9. Append(kept, message) \in Seq(Messages)
    BY <1>3, AppendProperties
  <2>10. Typed'
    <3> HIDE DEF request
    <3> QED
      BY <1>1, <1>5, <1>6, <1>7, <1>8, <1>10, <2>9 DEF Typed
  <2>11. ASSUME NEW p \in VLines
         PROVE  Fine(p, messageList'[p], ctx', asked', path'[p], requests'[p],
                     lastStart'[p])
    <3> HIDE DEF request
    <3>1. CASE p = o
      <4>1. /\ messageList'[p] = Append(kept, message) /\ path'[p] = path[p]
            /\ requests'[p] = request /\ lastStart'[p] = start
        BY <1>6, <1>7, <1>10, <3>1 DEF Typed
      <4> QED
        BY <1>10, <2>7, <3>1, <4>1 DEF d
    <3>2. CASE p # o
      <4>1. /\ messageList'[p] = messageList[p] /\ path'[p] = path[p]
            /\ requests'[p] = requests[p] /\ lastStart'[p] = lastStart[p]
        BY <1>6, <1>7, <1>10, <3>2 DEF Typed
      <4> QED
        BY <1>10, <2>8, <3>2, <4>1 DEF d
    <3> QED
      BY <3>1, <3>2
  <2>12. ctx' = d
    BY <1>10 DEF d
  <2> QED
    BY <1>6, <1>7, <2>2, <2>4, <2>10, <2>11, <2>12 DEF OnCourse
<1> QED
  BY <1>6, <1>9, <1>10

\* "stop" leaves nothing of the course.
LEMMA StopOnCourse ==
    ASSUME OnCourse, NEW o \in VLines, Stop(o)
    PROVE  OnCourse'
PROOF
<1> DEFINE list == messageList[o]
           c == ClearFrom(o, list, 0)
<1>1. /\ cascade' = "direct"
      /\ ctx' = c
      /\ asked' = AskedAfter(c)
      /\ messageList' = [messageList EXCEPT ![o] = <<>>]
      /\ path' = [path EXCEPT ![o] = 0]
      /\ UNCHANGED <<blockStartTimestamp, now, inFlight, requests, lastStart>>
  BY DEF Stop, Consuming, AskedAfter
<1>2. /\ Typed
      /\ list \in Seq(Messages)
      /\ Popping' = Popping
  BY <1>1 DEF OnCourse, Typed, Popping
<1>3. 0 \in 0 .. Len(list)
  BY <1>2, LenProperties
<1>4. /\ Sound(c, Popping)
      /\ OrderedExcept(c.queue, c.timestamp, {})
      /\ AskedAfter(c) \in [Messages -> Nat]
      /\ \A p \in VLines \ {o} :
             Fine(p, messageList[p], c, AskedAfter(c), path[p], requests[p],
                  lastStart[p])
      /\ Fine(o, SubSeq(list, 1, 0), c, AskedAfter(c), path[o], requests[o],
              lastStart[o])
  <2>1. \A j \in 1 .. 0 : ctx.timestamp[messageList[o][j]] <= lastStart[o]
    OBVIOUS
  <2> QED
    BY <1>3, <2>1, ClearedCourses
<1>5. SubSeq(list, 1, 0) = <<>>
  <2> HIDE DEF list
  <2>1. SubSeq(list, 1, 0) \in Seq(Messages) /\ Len(SubSeq(list, 1, 0)) = 0
    BY <1>2, <1>3, FirstElements
  <2> QED
    BY <2>1, EmptySeq
<1> HIDE DEF list, c
<1>6. Fine(o, <<>>, c, AskedAfter(c), 0, requests[o], lastStart[o])
  <2>1. requests[o] \in Nat
    BY <1>2 DEF Typed
  <2>2. IsNumbered(<<>>, AskedAfter(c), 0, requests[o])
    BY <2>1 DEF IsNumbered
  <2> QED
    BY <1>4, <1>5, <2>2 DEF Fine
<1>7. Typed'
  BY <1>1, <1>2, <1>4 DEF Typed
<1>8. ASSUME NEW p \in VLines
      PROVE  Fine(p, messageList'[p], ctx', asked', path'[p], requests'[p],
                  lastStart'[p])
  <2>1. CASE p = o
    <3>1. messageList'[p] = <<>> /\ path'[p] = 0
      BY <1>1, <1>2, <2>1 DEF Typed
    <3> QED
      BY <1>1, <1>6, <2>1, <3>1
  <2>2. CASE p # o
    <3>1. messageList'[p] = messageList[p] /\ path'[p] = path[p]
      BY <1>1, <1>2, <2>2 DEF Typed
    <3> QED
      BY <1>1, <1>4, <2>2, <3>1
  <2> QED
    BY <2>1, <2>2
<1> QED
  BY <1>1, <1>2, <1>4, <1>7, <1>8 DEF OnCourse

\* A course without the message that is sent, whose request is performed.
LEMMA FineWithout ==
    ASSUME NEW o, NEW list, NEW c, NEW out, Sound(c, out), NEW d,
           NEW numbers, NEW present, NEW n, NEW last,
           Fine(o, list, c, numbers, present, n, last),
           NEW i \in 1 .. Len(list), KeptBut(d, c, {list[i]}),
           EntriesOf(d.queue) = EntriesOf(c.queue) \ {Entry(o, 0, list[i])},
           n \in Nat
    PROVE  Fine(o, Without(list, list[i]), d, numbers, numbers[list[i]], n,
                last)
PROOF
<1> DEFINE m == list[i]
           w == Without(list, m)
           L == Len(list)
<1>1. IsCourse(o, list, c) /\ IsNumbered(list, numbers, present, n)
      /\ IsUntil(list, c.timestamp, last)
  BY DEF Fine
<1>2. /\ L \in Nat
      /\ \A j \in 1 .. L : /\ list[j] \in MessagesOf(c.queue)
                           /\ \A k \in 1 .. L : list[j] = list[k] => j = k
  BY <1>1, CourseIsQueued
<1>3. w \in Seq(Messages) /\ HasOthers(w, list, L, m)
  <2>1. list \in Seq(Messages)
    BY <1>1 DEF IsCourse
  <2>2. /\ Without(list, m) \in Seq(Messages)
        /\ HasOthers(Without(list, m), list, Len(list), m)
    <3> HIDE DEF m
    <3> QED
      BY ONLY <2>1, WithoutRemoves
  <2> QED
    BY <2>2
<1> HIDE DEF m, w, L
<1>4. /\ \A k \in 1 .. Len(w) : \E j \in 1 .. L : w[k] = list[j] /\ list[j] # m
      /\ \A j \in 1 .. L : list[j] # m => \E k \in 1 .. Len(w) : w[k] = list[j]
      /\ \A k, l \in 1 .. Len(w) :
             k < l => \E j, h \in 1 .. L :
                          j < h /\ w[k] = list[j] /\ w[l] = list[h]
  BY <1>3 DEF HasOthers
<1>5. KeptBut(d, c, {m}) /\ m = list[i] /\ i \in 1 .. L
  BY DEF m, L
<1>6. {x \in EntriesOf(d.queue) : x.object = o}
          = {Entry(o, 0, w[k]) : k \in 1 .. Len(w)}
  <2>1. {x \in EntriesOf(d.queue) : x.object = o}
            = {Entry(o, 0, list[j]) : j \in 1 .. L} \ {Entry(o, 0, m)}
    BY <1>1 DEF IsCourse, m, L
  <2>2. \A j \in 1 .. L :
            list[j] # m => Entry(o, 0, list[j]) # Entry(o, 0, m)
    BY EntryFields
  <2>3. {Entry(o, 0, list[j]) : j \in 1 .. L} \ {Entry(o, 0, m)}
            \subseteq {Entry(o, 0, w[k]) : k \in 1 .. Len(w)}
    BY <1>4
  <2>4. {Entry(o, 0, w[k]) : k \in 1 .. Len(w)}
            \subseteq {Entry(o, 0, list[j]) : j \in 1 .. L} \ {Entry(o, 0, m)}
    BY <1>4, <2>2
  <2> QED
    BY <2>1, <2>3, <2>4
<1>7. ASSUME NEW k \in 1 .. Len(w), NEW l \in 1 .. Len(w), k < l
      PROVE  Before(d.queue, w[k], w[l])
  <2>1. PICK j \in 1 .. L, h \in 1 .. L :
            j < h /\ w[k] = list[j] /\ w[l] = list[h]
    BY <1>4, <1>7
  <2>2. list[j] # m /\ list[h] # m
    BY <1>4, <2>1
  <2>3. Before(c.queue, list[j], list[h])
    BY <1>1, <2>1 DEF IsCourse, L
  <2> QED
    BY <1>2, <1>5, <2>1, <2>2, <2>3 DEF KeptBut
<1>8. IsCourse(o, w, d)
  BY <1>3, <1>6, <1>7 DEF IsCourse
<1>9. \A j, k \in 1 .. L : /\ numbers[list[j]] \in 1 .. n
                           /\ numbers[list[j]] = numbers[list[k]] => j = k
  BY <1>1 DEF IsNumbered, L
<1>10. IsNumbered(w, numbers, numbers[m], n)
  <2>1. numbers[m] \in 0 .. n
    BY <1>5, <1>9
  <2>2. ASSUME NEW k \in 1 .. Len(w)
        PROVE  numbers[w[k]] \in 1 .. n /\ numbers[w[k]] # numbers[m]
    <3>1. PICK j \in 1 .. L : w[k] = list[j] /\ list[j] # m
      BY <1>4
    <3>2. j # i
      BY <1>5, <3>1
    <3>3. numbers[list[j]] # numbers[list[i]]
      BY <1>5, <1>9, <3>2
    <3> QED
      BY <1>5, <1>9, <3>1, <3>3
  <2>3. ASSUME NEW k \in 1 .. Len(w), NEW l \in 1 .. Len(w), k < l
        PROVE  numbers[w[k]] # numbers[w[l]]
    <3>1. PICK j \in 1 .. L, h \in 1 .. L :
              j < h /\ w[k] = list[j] /\ w[l] = list[h]
      BY <1>4, <2>3
    <3>2. j # h
      BY <1>2, <3>1
    <3> QED
      BY <1>9, <3>1, <3>2
  <2>4. ASSUME NEW k \in 1 .. Len(w), NEW l \in 1 .. Len(w),
               numbers[w[k]] = numbers[w[l]]
        PROVE  k = l
    <3>1. Len(w) \in Nat
      BY <1>3, LenProperties
    <3>2. k < l \/ l < k \/ k = l
      BY <3>1
    <3> QED
      BY <2>3, <2>4, <3>2
  <2> QED
    BY <2>1, <2>2, <2>4 DEF IsNumbered
<1>11. IsUntil(w, d.timestamp, last)
  <2>1. ASSUME NEW k \in 1 .. Len(w)
        PROVE  d.timestamp[w[k]] <= last
    <3>1. PICK j \in 1 .. L : w[k] = list[j] /\ list[j] # m
      BY <1>4
    <3>2. d.timestamp[list[j]] = c.timestamp[list[j]]
      BY <1>2, <1>5, <3>1 DEF KeptBut
    <3>3. c.timestamp[list[j]] <= last
      BY <1>1 DEF IsUntil, L
    <3> QED
      BY <3>1, <3>2, <3>3
  <2> QED
    BY <2>1 DEF IsUntil
<1> QED
  BY <1>8, <1>10, <1>11 DEF Fine, w, m

\* process() sends the first message of the queue.
LEMMA SendOnCourse ==
    ASSUME OnCourse, NEW entry, SendMessage(entry)
    PROVE  OnCourse'
PROOF
<1> DEFINE d == Popped(entry)
           gone == {entry.message}
<1>1. /\ phase = "messages"
      /\ ~ IsEmpty(ctx.queue)
      /\ entry = Peek(ctx.queue)
      /\ cascade = "none"
      /\ cascade' = "process"
      /\ now' = DeliveryTime(entry.message)
      /\ inFlight' = entry.message
      /\ ctx' = d
      /\ UNCHANGED <<blockStartTimestamp, requests, asked, lastStart>>
  BY DEF SendMessage, Dispatch, Due
<1>2. /\ messageList' = [o \in VLines |->
                             IF o = entry.object
                             THEN Without(messageList[o], entry.message)
                             ELSE messageList[o]]
      /\ path' = [o \in VLines |-> IF o = entry.object
                                   THEN asked[entry.message] ELSE path[o]]
  BY DEF SendMessage
<1>3. Sound(ctx, {}) /\ blockStartTimestamp \in Int /\ Typed
  <2>1. Popping = {}
    BY <1>1 DEF OnCourse, Popping
  <2> QED
    BY <2>1 DEF OnCourse, Typed
<1>4. /\ Sound(d, gone)
      /\ entry.message \in Messages
      /\ EntriesOf(d.queue) = EntriesOf(ctx.queue) \ {entry}
      /\ entry \in EntriesOf(ctx.queue)
      /\ \A m \in Messages : d.timestamp[m] = IF m = entry.message
                                              THEN DeliveryTime(m)
                                              ELSE ctx.timestamp[m]
      /\ 1 \in 1 .. Len(ctx.queue)
      /\ IsRemoved(d.queue, ctx.queue, 1)
  BY <1>1, <1>3, PoppedSound
<1>5. KeptBut(d, ctx, gone)
  BY <1>1, <1>3, PoppedKeeps
<1>6. Popping' = gone
  BY <1>1, <1>4, ContextAssumption DEF Popping
<1> HIDE DEF d
<1>7. OrderedExcept(d.queue, d.timestamp, {})
  <2>1. ctx.queue \in Seq(Entries) /\ d.queue \in Seq(Entries)
    BY <1>3, <1>4, ContextFields DEF Sound
  <2>2. OrderedExcept(ctx.queue, ctx.timestamp, {})
    BY DEF OnCourse
  <2>3. OrderedExcept(d.queue, ctx.timestamp, {})
    BY <1>4, <2>1, <2>2, RemovedOrdered
  <2>4. \A m \in MessagesOf(d.queue) \ {} : d.timestamp[m] = ctx.timestamp[m]
    BY <1>4, ContextFields DEF Sound
  <2>5. MessagesOf(d.queue) \cap {} \subseteq {}
    OBVIOUS
  <2> QED
    BY ONLY <2>3, <2>4, <2>5, OrderedOfSame
<1>8. DeliveryTime(entry.message) \in Int
  BY <1>3, <1>4, ContextFields DEF DeliveryTime, Sound
<1>9. ASSUME NEW o \in VLines, o = entry.object
      PROVE  Fine(o, Without(messageList[o], entry.message), d, asked,
                  asked[entry.message], requests[o], lastStart[o])
  <2> DEFINE list == messageList[o]
             m == entry.message
  <2>1. /\ Fine(o, list, ctx, asked, path[o], requests[o], lastStart[o])
        /\ requests[o] \in Nat
    BY <1>3 DEF OnCourse, Typed
  <2> HIDE DEF list, m
  <2>2. PICK i \in 1 .. Len(list) : entry = Entry(o, 0, list[i])
    BY <1>4, <1>9, <2>1 DEF Fine, IsCourse
  <2>3. m = list[i]
    BY <2>2, EntryFields DEF m
  <2>4. /\ KeptBut(d, ctx, {list[i]})
        /\ EntriesOf(d.queue) = EntriesOf(ctx.queue) \ {Entry(o, 0, list[i])}
    BY <1>4, <1>5, <2>2, <2>3 DEF m
  <2>5. Fine(o, Without(list, list[i]), d, asked, asked[list[i]],
             requests[o], lastStart[o])
    BY ONLY <1>3, <2>1, <2>4, FineWithout
  <2> QED
    BY <2>3, <2>5 DEF list, m
<1>10. ASSUME NEW o \in VLines, o # entry.object
       PROVE  Fine(o, messageList[o], d, asked, path[o], requests[o],
                   lastStart[o])
  <2> DEFINE list == messageList[o]
  <2>1. Fine(o, list, ctx, asked, path[o], requests[o], lastStart[o])
    BY DEF OnCourse
  <2> HIDE DEF list
  <2>2. {x \in EntriesOf(d.queue) : x.object = o}
            = {x \in EntriesOf(ctx.queue) : x.object = o}
    BY <1>4, <1>10
  <2>3. \A j \in 1 .. Len(list) : list[j] \notin gone
    <3>1. \A x, y \in EntriesOf(ctx.queue) : x.message = y.message => x = y
      BY <1>3 DEF Sound, PointsOnce, EntriesOf
    <3>2. \A j \in 1 .. Len(list) :
              Entry(o, 0, list[j]) \in EntriesOf(ctx.queue)
      BY <1>3, <2>1, CourseIsQueued DEF Fine
    <3> QED
      BY <1>4, <1>10, <3>1, <3>2, EntryFields
  <2>4. \A j \in 1 .. Len(list) : asked[list[j]] = asked[list[j]]
    OBVIOUS
  <2> HIDE DEF gone
  <2>5. Fine(o, list, d, asked, path[o], requests[o], lastStart[o])
    BY ONLY <1>3, <1>5, <2>1, <2>2, <2>3, <2>4, FineStays
  <2> QED
    BY <2>5 DEF list
<1>11. ASSUME NEW o \in VLines
       PROVE  Fine(o, messageList'[o], ctx', asked', path'[o], requests'[o],
                   lastStart'[o])
  BY <1>1, <1>2, <1>9, <1>10
<1>12. Typed'
  <2>1. ASSUME NEW o \in VLines
        PROVE  messageList'[o] \in Seq(Messages)
    BY <1>11 DEF Fine, IsCourse
  <2> QED
    BY <1>1, <1>2, <1>3, <1>4, <1>8, <2>1 DEF Typed
<1>13. Sound(ctx', Popping')
  BY <1>1, <1>4, <1>6
<1> QED
  BY <1>1, <1>7, <1>11, <1>12, <1>13 DEF OnCourse

\* process() frees the message it sent.
LEMMA ReturnOnCourse ==
    ASSUME OnCourse, Return
    PROVE  OnCourse'
PROOF
<1> DEFINE d == FreeMessage(ctx, inFlight)
<1>1. /\ ctx' = d
      /\ inFlight' = NULL
      /\ now' = 0
      /\ asked' = AskedAfter(d)
      /\ UNCHANGED <<blockStartTimestamp, messageList, path, requests,
                     lastStart>>
  BY DEF Return, EndCascade, AskedAfter
<1>2. Typed /\ Sound(ctx, Popping) /\ ctx \in Contexts
  BY DEF OnCourse, Sound
<1>3. /\ d \in Contexts
      /\ d.queue = ctx.queue
      /\ d.live = ctx.live \ {inFlight}
      /\ \A m \in Messages \ {inFlight} : d.timestamp[m] = ctx.timestamp[m]
  BY <1>2, FreeMessageFields
<1>4. inFlight \notin MessagesOf(ctx.queue)
  BY <1>2, ContextFields, ContextAssumption DEF Sound, Popping
<1>5. KeptBut(d, ctx, {})
  BY <1>2, <1>4, FreeMessageKeeps
<1> HIDE DEF d
<1>6. Popping' = {}
  BY <1>1 DEF Popping
<1>7. Sound(d, {})
  BY <1>2, <1>3, <1>4 DEF Sound, Popping
<1>8. OrderedExcept(d.queue, d.timestamp, {})
  <2>1. OrderedExcept(ctx.queue, ctx.timestamp, {})
    BY DEF OnCourse
  <2>2. \A m \in MessagesOf(ctx.queue) \ {} : d.timestamp[m] = ctx.timestamp[m]
    BY <1>5 DEF KeptBut
  <2>3. MessagesOf(ctx.queue) \cap {} \subseteq {}
    OBVIOUS
  <2>4. OrderedExcept(ctx.queue, d.timestamp, {})
    BY ONLY <2>1, <2>2, <2>3, OrderedOfSame
  <2> QED
    BY <1>3, <2>4
<1>9. ASSUME NEW o \in VLines
      PROVE  Fine(o, messageList[o], d, AskedAfter(d), path[o], requests[o],
                  lastStart[o])
  <2> DEFINE list == messageList[o]
  <2>1. Fine(o, list, ctx, asked, path[o], requests[o], lastStart[o])
    BY DEF OnCourse
  <2> HIDE DEF list
  <2>2. \A j \in 1 .. Len(list) :
            list[j] \in Messages /\ list[j] \in MessagesOf(ctx.queue)
    BY <1>2, <2>1, CourseIsQueued DEF Fine
  <2>3. \A j \in 1 .. Len(list) : AskedAfter(d)[list[j]] = asked[list[j]]
    BY <1>2, <1>3, <1>4, <2>2 DEF AskedAfter, Sound
  <2>4. \A j \in 1 .. Len(list) : list[j] \notin {}
    OBVIOUS
  <2>5. {x \in EntriesOf(d.queue) : x.object = o}
            = {x \in EntriesOf(ctx.queue) : x.object = o}
    BY <1>3
  <2>6. Fine(o, list, d, AskedAfter(d), path[o], requests[o], lastStart[o])
    BY ONLY <1>2, <1>5, <2>1, <2>3, <2>4, <2>5, FineStays
  <2> QED
    BY <2>6 DEF list
<1>10. Typed'
  BY <1>1, <1>2 DEF Typed, AskedAfter
<1> QED
  BY <1>1, <1>6, <1>7, <1>8, <1>9, <1>10 DEF OnCourse

\* An external message, which is no object's of the patch.
LEMMA ExternalOnCourse ==
    ASSUME OnCourse, UNCHANGED vlineVars,
           NEW n \in Outlets, NEW t \in DirectTimes, NEW m \in Fresh(ctx),
           ScheduleExternal(n, t, m)
    PROVE  OnCourse'
PROOF
<1> DEFINE d == ScheduleMessage(ctx, SendController, n, m, t)
<1>1. /\ ctx' = d
      /\ UNCHANGED <<blockStartTimestamp, cascade, now, inFlight, messageList,
                     path, requests, asked, lastStart>>
  BY DEF ScheduleExternal, vlineVars
<1>2. /\ SendController \in Objects
      /\ \A o \in VLines : o # SendController
      /\ t \in Int
  BY ContextAssumption, VLineAssumption
<1>3. /\ Sound(ctx, Popping)
      /\ OrderedExcept(ctx.queue, ctx.timestamp, {})
  BY DEF OnCourse
<1>4. /\ Sound(d, Popping)
      /\ EntriesOf(d.queue)
             = EntriesOf(ctx.queue) \cup {Entry(SendController, n, m)}
  BY <1>2, <1>3, ScheduleMessageSound
<1>5. KeptBut(d, ctx, {})
  BY <1>2, <1>3, ScheduleMessageKeeps
<1>6. OrderedExcept(d.queue, d.timestamp, {})
  <2>1. \A x \in MessagesOf(ctx.queue) \cap {} : ctx.timestamp[x] <= t
    OBVIOUS
  <2> QED
    BY <1>2, <1>3, <2>1, ScheduleInOrder
<1> HIDE DEF d
<1>7. ASSUME NEW o \in VLines
      PROVE  Fine(o, messageList[o], d, asked, path[o], requests[o],
                  lastStart[o])
  <2> DEFINE list == messageList[o]
  <2>1. Fine(o, list, ctx, asked, path[o], requests[o], lastStart[o])
    BY DEF OnCourse
  <2> HIDE DEF list
  <2>2. {x \in EntriesOf(d.queue) : x.object = o}
            = {x \in EntriesOf(ctx.queue) : x.object = o}
    BY <1>2, <1>4, EntryFields
  <2>3. \A j \in 1 .. Len(list) :
            list[j] \notin {} /\ asked[list[j]] = asked[list[j]]
    OBVIOUS
  <2>4. Fine(o, list, d, asked, path[o], requests[o], lastStart[o])
    BY ONLY <1>3, <1>5, <2>1, <2>2, <2>3, FineStays
  <2> QED
    BY <2>4 DEF list
<1>8. Typed' /\ Popping' = Popping
  BY <1>1 DEF OnCourse, Typed, Popping
<1> QED
  BY <1>1, <1>4, <1>6, <1>7, <1>8 DEF OnCourse

\* The steps that leave the queue and the heap alone.
LEMMA QuietOnCourse ==
    ASSUME OnCourse, UNCHANGED <<ctx, inFlight, vlineVars>>,
           \/ \E t \in DirectTimes : BeginCascade(t)
           \/ BeginProcess
           \/ BeginDsp
           \/ EndProcess
           \/ UNCHANGED vars
    PROVE  OnCourse'
PROOF
<1>1. Typed'
  BY ContextAssumption
     DEF OnCourse, Typed, vlineVars, BeginCascade, BeginProcess, BeginDsp,
         EndProcess, vars, contextVars, nextBlockStartTimestamp
<1>2. cascade' = "none" => cascade = "none"
  BY DEF BeginCascade, BeginProcess, BeginDsp, EndProcess, vars, contextVars
<1>3. Popping' = Popping
  BY DEF Popping
<1> QED
  BY <1>1, <1>2, <1>3 DEF OnCourse, vlineVars

LEMMA OnCourseNext ==
    ASSUME OnCourse, [Next]_vars
    PROVE  OnCourse'
PROOF
<1>1. ASSUME NEW o \in VLines, VLineStep(o)
      PROVE  OnCourse'
  BY <1>1, SegmentOnCourse, StopOnCourse DEF VLineStep
<1>2. ASSUME NEW entry \in Entries, SendMessage(entry)
      PROVE  OnCourse'
  BY <1>2, SendOnCourse
<1>3. CASE Return
  BY <1>3, ReturnOnCourse
<1>4. CASE ContextStep /\ UNCHANGED vlineVars
  <2>1. ASSUME NEW n \in Outlets, NEW t \in DirectTimes, NEW m \in Fresh(ctx),
               ScheduleExternal(n, t, m)
        PROVE  OnCourse'
    BY <1>4, <2>1, ExternalOnCourse
  <2>2. CASE \/ \E t \in DirectTimes : BeginCascade(t)
             \/ BeginProcess
             \/ BeginDsp
             \/ EndProcess
    <3>1. UNCHANGED <<ctx, inFlight>>
      BY <2>2 DEF BeginCascade, BeginProcess, BeginDsp, EndProcess
    <3> QED
      BY <1>4, <2>2, <3>1, QuietOnCourse
  <2> QED
    BY <1>4, <2>1, <2>2 DEF ContextStep
<1>5. CASE UNCHANGED vars
  <2>1. UNCHANGED <<ctx, inFlight, vlineVars>>
    BY <1>5 DEF vars, contextVars
  <2> QED
    BY <1>5, <2>1, QuietOnCourse
<1> QED
  BY <1>1, <1>2, <1>3, <1>4, <1>5 DEF Next

LEMMA InitOnCourse ==
    ASSUME Init
    PROVE  OnCourse
PROOF
<1>1. /\ ctx \in Contexts
      /\ ctx.queue = <<>>
      /\ ctx.live = {}
      /\ inFlight = NULL
  BY DEF Init, ContextInit, Contexts
<1>2. MessagesOf(ctx.queue) = {} /\ EntriesOf(ctx.queue) = {}
  BY <1>1 DEF MessagesOf, EntriesOf
<1>3. Popping = {}
  BY <1>1 DEF Popping
<1>4. Sound(ctx, {})
  BY <1>1, <1>2 DEF Sound, PointsOnce
<1>5. OrderedExcept(ctx.queue, ctx.timestamp, {})
  BY <1>1 DEF OrderedExcept
<1>6. ASSUME NEW o \in VLines
      PROVE  Fine(o, <<>>, ctx, asked, 0, 0, 0)
  BY <1>2 DEF Fine, IsCourse, IsNumbered, IsUntil
<1>7. Typed
  BY DEF Init, ContextInit, Typed
<1>8. ASSUME NEW o \in VLines
      PROVE  Fine(o, messageList[o], ctx, asked, path[o], requests[o],
                  lastStart[o])
  BY <1>6 DEF Init
<1> QED
  BY <1>1, <1>3, <1>4, <1>5, <1>7, <1>8 DEF OnCourse

\* What the invariant says of a list is what the runs check.
LEMMA OnCourseIsIt ==
    ASSUME OnCourse
    PROVE  ListIsItsCourse
PROOF
<1>1. Sound(ctx, Popping) /\ Typed
  BY DEF OnCourse
<1>2. HeapIsQueuePlusInFlight
  <2>1. inFlight \notin MessagesOf(ctx.queue)
    BY <1>1, ContextFields, ContextAssumption DEF Sound, Popping
  <2> QED
    BY <1>1, <2>1 DEF HeapIsQueuePlusInFlight, Sound, Popping, Queued
<1>3. ASSUME NEW o \in VLines
      PROVE  LET list == messageList[o]
                 queued == {i \in 1 .. Len(ctx.queue) :
                                ctx.queue[i].object = o}
             IN  /\ {ctx.queue[i] : i \in queued}
                        = {Entry(o, 0, m) : m \in Range(list)}
                 /\ \A j, k \in 1 .. Len(list) :
                        j < k => Before(ctx.queue, list[j], list[k])
                 /\ \A m \in Range(list) :
                        asked[m] # path[o] /\ ctx.timestamp[m] <= lastStart[o]
  <2> DEFINE list == messageList[o]
  <2>1. Fine(o, list, ctx, asked, path[o], requests[o], lastStart[o])
        /\ list \in Seq(Messages)
    BY <1>1 DEF OnCourse, Typed
  <2> HIDE DEF list
  <2>2. Range(list) = {list[j] : j \in 1 .. Len(list)}
    BY <2>1 DEF Range
  <2>3. {ctx.queue[i] : i \in {k \in 1 .. Len(ctx.queue) :
                                   ctx.queue[k].object = o}}
            = {x \in EntriesOf(ctx.queue) : x.object = o}
    BY DEF EntriesOf
  <2>4. {ctx.queue[i] : i \in {k \in 1 .. Len(ctx.queue) :
                                   ctx.queue[k].object = o}}
            = {Entry(o, 0, m) : m \in Range(list)}
    BY <2>1, <2>2, <2>3 DEF Fine, IsCourse
  <2>5. \A m \in Range(list) :
            asked[m] # path[o] /\ ctx.timestamp[m] <= lastStart[o]
    BY <2>1, <2>2 DEF Fine, IsNumbered, IsUntil
  <2>6. \A j, k \in 1 .. Len(list) :
            j < k => Before(ctx.queue, list[j], list[k])
    BY <2>1 DEF Fine, IsCourse
  <2> QED
    BY <2>4, <2>5, <2>6 DEF list
<1> QED
  BY <1>2, <1>3 DEF ListIsItsCourse, ListIsQueued, NewestIsLast

\* The list of a vline~ has exactly its queued messages, in the order of the
\* queue, so that the one process() sends is the first; nothing in it is later
\* than the last segment asked for, and what is performed is not pending
\* (DspVariableLine::clearAllMessagesFrom, ::sendMessage).  It holds of delays
\* of either sign, and of several vline~ that share one queue.
THEOREM CourseCorrect == Spec => []ListIsItsCourse
PROOF
<1>1. Init => OnCourse
  BY InitOnCourse
<1>2. OnCourse /\ [Next]_vars => OnCourse'
  BY OnCourseNext
<1>3. OnCourse => ListIsItsCourse
  BY OnCourseIsIt
<1> QED
  BY <1>1, <1>2, <1>3, PTL DEF Spec

=============================================================================
