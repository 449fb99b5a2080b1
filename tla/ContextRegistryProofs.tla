------------------------ MODULE ContextRegistryProofs ------------------------
(***************************************************************************)
(* Whatever objects a patch has and however they are spread over graphs:   *)
(* the context forgets what unregisterObject has a case for, and the buses *)
(* and readers find what they should as long as nothing else is removed or *)
(* unattached.                                                             *)
(***************************************************************************)
EXTENDS ContextRegistry, SequenceTheorems, WellFoundedInduction, TLAPS

Buffers == [object : Objects, buffer : {"output", "input"}]

SourcesOf(o) ==
    {p \in Objects : KindOf[p] = SourceKind[KindOf[o]] /\ NameOf[p] = NameOf[o]}
OfKind(k) == {o \in Objects : KindOf[o] = k}
ListedAs(k) == {o \in OfKind(k) : k # "receive"}
ThrowsTo(c) == {t \in OfKind("throw~") : NameOf[t] = NameOf[c]}
ReceiversOf(n) ==
    {o \in Objects : NameOf[o] = n /\ KindOf[o] \in {"receive", "table"}}

\* The kinds of which the first of a name is the source of the readers.
SourceKinds == {"send~", "delwrite~", "table"}

\* Whether a list has an object of a name.
Has(r, kind, name) == \E p \in ToSet(r.lists[kind]) : NameOf[p] = name

Registries ==
    [lists : [Kinds -> Seq(Objects)],
     source : [Objects -> {NONE} \cup Buffers],
     throwList : [Objects -> Seq(Objects)],
     receivers : [Names -> SUBSET Objects]]

\* Nothing that is kept is gone, and a reader of something is listed.
Kept(r, gone) ==
    /\ \A k \in Kinds : ToSet(r.lists[k]) \subseteq ListedAs(k) \ gone
    /\ \A n \in Names : r.receivers[n] \subseteq ReceiversOf(n) \ gone
    /\ \A o \in Objects : ToSet(r.throwList[o]) \subseteq OfKind("throw~")
    /\ \A o \in Objects :
           r.source[o] # NONE =>
               /\ KindOf[o] \in Readers
               /\ r.source[o].object \in SourcesOf(o) \ gone
               /\ o \in ToSet(r.lists[KindOf[o]])

\* The buses are those of the objects in A.
Reached(r, A) ==
    /\ ToSet(r.lists["throw~"]) = A \cap OfKind("throw~")
    /\ IsInjective(r.lists["throw~"])
    /\ ToSet(r.lists["catch~"]) \subseteq A \cap OfKind("catch~")
    /\ \A c, d \in ToSet(r.lists["catch~"]) : NameOf[c] = NameOf[d] => c = d
    /\ \A c \in ToSet(r.lists["catch~"]) :
           /\ ToSet(r.throwList[c]) = A \cap ThrowsTo(c)
           /\ IsInjective(r.throwList[c])
    /\ \A o \in Objects \ ToSet(r.lists["catch~"]) : r.throwList[o] = <<>>
    /\ \A n \in Names : r.receivers[n] = A \cap ReceiversOf(n)

\* The readers in A read from sources in A.
Linked(r, A) ==
    /\ \A k \in Readers : ToSet(r.lists[k]) = A \cap OfKind(k)
    /\ \A k \in SourceKinds :
           /\ ToSet(r.lists[k]) \subseteq A \cap OfKind(k)
           /\ \A o \in A \cap OfKind(k) : Has(r, k, NameOf[o])
    /\ \A o \in Objects :
           IF KindOf[o] \in Readers /\ o \in A /\ A \cap SourcesOf(o) # {}
           THEN r.source[o] # NONE /\ r.source[o].object \in A \cap SourcesOf(o)
           ELSE r.source[o] = NONE

\* The objects of attached graphs.
Attached ==
    {o \in Objects : /\ GraphOf[o] \in isAttachedToContext
                     /\ o \in ToSet(nodeList[GraphOf[o]])}

Typed ==
    /\ patch \in Patches
    /\ deleted \subseteq Removable
    /\ isAttachedToContext \subseteq Graphs
    /\ nodeList \in [Graphs -> Seq(Objects)]
    /\ \A g \in Graphs : /\ ToSet(nodeList[g]) \subseteq
                                {o \in patch \ deleted : GraphOf[o] = g}
                         /\ IsInjective(nodeList[g])
    /\ registry \in Registries

-----------------------------------------------------------------------------
(* Lists, and calls for the objects of a list in turn.                     *)

\* A non-empty set of numbers has a least one.
LEMMA FirstOf ==
    ASSUME NEW T, T \subseteq Nat, T # {}
    PROVE  \E i \in T : \A j \in T : i <= j
PROOF
<1> DEFINE R == OpToRel(<, Nat)
<1>1. IsWellFoundedOn(R, Nat)
  BY NatLessThanWellFounded
<1>2. \A i, j \in Nat : <<i, j>> \notin R => j <= i
  BY DEF OpToRel
<1> HIDE DEF R
<1>3. \E i \in T : \A j \in T : ~ (<<j, i>> \in R)
  BY <1>1, WFMin
<1> QED
  BY <1>2, <1>3

\* A set that has a, and with each number before b the next, has them all.
LEMMA UpTo ==
    ASSUME NEW a \in Nat, NEW b \in Nat, NEW T, a \in T,
           \A k \in a + 1 .. b : k - 1 \in T => k \in T
    PROVE  a .. b \subseteq T
PROOF
<1> DEFINE D == {k \in a .. b : k \notin T}
<1> SUFFICES ASSUME D # {}
             PROVE  FALSE
  OBVIOUS
<1>1. D \subseteq Nat
  OBVIOUS
<1>2. PICK k \in D : \A j \in D : k <= j
  <2> HIDE DEF D
  <2> QED
    BY <1>1, FirstOf
<1>3. k \in a .. b /\ k \notin T /\ k # a
  OBVIOUS
<1>4. k \in a + 1 .. b /\ k - 1 \in a .. b /\ ~ (k <= k - 1)
  BY <1>3
<1>5. k - 1 \notin D
  BY <1>2, <1>4
<1> QED
  BY <1>3, <1>4, <1>5

\* The results of L calls in turn, the first of which finds d.
Results(L, D, F, d) ==
    {h \in [0 .. L -> D] :
         h[0] = d /\ \A n \in 1 .. L : h[n] = F[<<n, h[n - 1]>>]}

\* There are results of as many calls in turn as one likes.
LEMMA CallsInTurn ==
    ASSUME NEW L \in Nat, NEW D, NEW F \in [(1 .. L) \X D -> D], NEW d \in D
    PROVE  Results(L, D, F, d) # {}
PROOF
<1> DEFINE Runs(k) == \E h \in [0 .. k -> D] :
                          /\ h[0] = d
                          /\ \A n \in 1 .. k : h[n] = F[<<n, h[n - 1]>>]
           T == {k \in 0 .. L : Runs(k)}
<1>1. Runs(0)
  <2> DEFINE h == [n \in 0 .. 0 |-> d]
  <2>1. h \in [0 .. 0 -> D] /\ h[0] = d
    OBVIOUS
  <2> HIDE DEF h
  <2>2. \A n \in 1 .. 0 : h[n] = F[<<n, h[n - 1]>>]
    OBVIOUS
  <2> QED
    BY <2>1, <2>2
<1>2. ASSUME NEW k \in 1 .. L, Runs(k - 1)
      PROVE  Runs(k)
  <2>1. PICK g \in [0 .. k - 1 -> D] :
            /\ g[0] = d
            /\ \A n \in 1 .. k - 1 : g[n] = F[<<n, g[n - 1]>>]
    BY <1>2
  <2> DEFINE e == F[<<k, g[k - 1]>>]
             h == [n \in 0 .. k |-> IF n < k THEN g[n] ELSE e]
  <2>2. g[k - 1] \in D /\ e \in D
    <3>1. k - 1 \in 0 .. k - 1
      OBVIOUS
    <3>2. g[k - 1] \in D
      BY <3>1
    <3> QED
      BY <3>2
  <2> HIDE DEF e
  <2>3. h \in [0 .. k -> D]
    <3>1. ASSUME NEW n \in 0 .. k
          PROVE  (IF n < k THEN g[n] ELSE e) \in D
      <4>1. CASE n < k
        <5>1. n \in 0 .. k - 1
          BY <4>1
        <5> QED
          BY <4>1, <5>1
      <4> QED
        BY <2>2, <4>1
    <3> QED
      BY <3>1
  <2>4. h[0] = d
    BY <2>1
  <2>5. ASSUME NEW n \in 1 .. k
        PROVE  h[n] = F[<<n, h[n - 1]>>]
    <3>1. h[n - 1] = g[n - 1]
      BY <2>5
    <3>2. CASE n < k
      <4>1. n \in 1 .. k - 1 /\ h[n] = g[n]
        BY <3>2
      <4> QED
        BY <2>1, <3>1, <4>1
    <3>3. CASE n = k
      <4>1. h[n] = e
        BY <3>3
      <4> QED
        BY <3>1, <3>3, <4>1 DEF e
    <3> QED
      BY <3>2, <3>3
  <2> HIDE DEF h
  <2> QED
    BY <2>3, <2>4, <2>5
<1> HIDE DEF Runs
<1>3. 0 \in T /\ \A k \in 0 + 1 .. L : k - 1 \in T => k \in T
  BY <1>1, <1>2
<1>4. 0 .. L \subseteq T
  <2> HIDE DEF T
  <2> QED
    BY <1>3, UpTo
<1>5. Runs(L)
  BY <1>4
<1> QED
  BY <1>5 DEF Runs, Results

\* What has been added to a list is on it.
LEMMA ToSetAppend ==
    ASSUME NEW D, NEW s \in Seq(D), NEW e \in D
    PROVE  /\ Append(s, e) \in Seq(D)
           /\ ToSet(Append(s, e)) = ToSet(s) \cup {e}
           /\ IsInjective(s) /\ e \notin ToSet(s) => IsInjective(Append(s, e))
PROOF
<1> DEFINE t == Append(s, e)
<1>1. /\ Len(s) \in Nat /\ t \in Seq(D)
      /\ Len(t) = Len(s) + 1
      /\ DOMAIN s = 1 .. Len(s) /\ DOMAIN t = 1 .. Len(s) + 1
      /\ \A i \in 1 .. Len(s) : t[i] = s[i]
      /\ t[Len(s) + 1] = e
  BY AppendProperties, LenProperties
<1> HIDE DEF t
<1>2. ToSet(t) = ToSet(s) \cup {e}
  BY <1>1 DEF ToSet
<1>3. ASSUME IsInjective(s), e \notin ToSet(s)
      PROVE  IsInjective(t)
  <2> SUFFICES ASSUME NEW i \in 1 .. Len(s) + 1, NEW j \in 1 .. Len(s) + 1,
                      t[i] = t[j]
               PROVE  i = j
    BY <1>1 DEF IsInjective
  <2>1. \A k \in 1 .. Len(s) : t[k] # e
    BY <1>1, <1>3 DEF ToSet
  <2>2. CASE i = Len(s) + 1 \/ j = Len(s) + 1
    BY <1>1, <2>1, <2>2
  <2>3. CASE i \in 1 .. Len(s) /\ j \in 1 .. Len(s)
    BY <1>1, <1>3, <2>3 DEF IsInjective
  <2> QED
    BY <1>1, <2>2, <2>3
<1> QED
  BY <1>1, <1>2, <1>3 DEF t

\* The empty list has nothing on it.
LEMMA ToSetEmpty == ToSet(<<>>) = {} /\ IsInjective(<<>>)
PROOF
  BY DEF ToSet, IsInjective

\* What is on a list is of its kind, the first of it with the others.
LEMMA ToSetElements ==
    ASSUME NEW D, NEW s \in Seq(D)
    PROVE  ToSet(s) \subseteq D /\ (s # <<>> => Head(s) \in ToSet(s))
PROOF
<1>1. /\ Len(s) \in Nat /\ DOMAIN s = 1 .. Len(s)
      /\ \A i \in 1 .. Len(s) : s[i] \in D
  BY LenProperties, ElementOfSeq
<1>2. ASSUME s # <<>>
      PROVE  Head(s) \in ToSet(s)
  <2>1. Head(s) = s[1] /\ Len(s) # 0
    BY <1>2, EmptySeq, HeadTailProperties
  <2> QED
    BY <1>1, <2>1 DEF ToSet
<1> QED
  BY <1>1, <1>2 DEF ToSet

\* One list behind the other has what they have.
LEMMA ToSetConcat ==
    ASSUME NEW D, NEW s \in Seq(D), NEW t \in Seq(D)
    PROVE  /\ s \o t \in Seq(D)
           /\ ToSet(s \o t) = ToSet(s) \cup ToSet(t)
           /\ s = <<>> => s \o t = t
PROOF
<1> DEFINE u == s \o t
<1>1. /\ Len(s) \in Nat /\ Len(t) \in Nat /\ u \in Seq(D)
      /\ DOMAIN s = 1 .. Len(s) /\ DOMAIN t = 1 .. Len(t)
      /\ DOMAIN u = 1 .. Len(s) + Len(t)
      /\ \A i \in 1 .. Len(s) + Len(t) :
             u[i] = IF i <= Len(s) THEN s[i] ELSE t[i - Len(s)]
  BY ConcatProperties, LenProperties
<1> HIDE DEF u
<1>2. ToSet(u) \subseteq ToSet(s) \cup ToSet(t)
  <2> SUFFICES ASSUME NEW i \in 1 .. Len(s) + Len(t)
               PROVE  u[i] \in ToSet(s) \cup ToSet(t)
    BY <1>1 DEF ToSet
  <2>1. CASE i <= Len(s)
    BY <1>1, <2>1 DEF ToSet
  <2>2. CASE ~ (i <= Len(s))
    <3>1. i - Len(s) \in 1 .. Len(t)
      BY <1>1, <2>2
    <3> QED
      BY <1>1, <2>2, <3>1 DEF ToSet
  <2> QED
    BY <2>1, <2>2
<1>3. ToSet(s) \subseteq ToSet(u)
  <2> SUFFICES ASSUME NEW i \in 1 .. Len(s)
               PROVE  s[i] \in ToSet(u)
    BY <1>1 DEF ToSet
  <2>1. i \in 1 .. Len(s) + Len(t) /\ u[i] = s[i]
    BY <1>1
  <2> QED
    BY <1>1, <2>1 DEF ToSet
<1>4. ToSet(t) \subseteq ToSet(u)
  <2> SUFFICES ASSUME NEW i \in 1 .. Len(t)
               PROVE  t[i] \in ToSet(u)
    BY <1>1 DEF ToSet
  <2>1. /\ Len(s) + i \in 1 .. Len(s) + Len(t) /\ ~ (Len(s) + i <= Len(s))
        /\ (Len(s) + i) - Len(s) = i
    BY <1>1
  <2>2. u[Len(s) + i] = t[i]
    BY <1>1, <2>1
  <2> QED
    BY <1>1, <2>1, <2>2 DEF ToSet
<1>5. s = <<>> => u = t
  BY ConcatEmptySeq DEF u
<1> QED
  BY <1>1, <1>2, <1>3, <1>4, <1>5 DEF u

\* list::remove and the filters leave what they are to leave.
LEMMA ThoseAreThose ==
    ASSUME NEW D, NEW list \in Seq(D), NEW S
    PROVE  /\ Those(list, S) \in Seq(D)
           /\ ToSet(Those(list, S)) = ToSet(list) \cap S
           /\ IsInjective(list) => IsInjective(Those(list, S))
PROOF
<1> DEFINE L == Len(list)
           G(n, s) == IF list[n] \in S THEN Append(s, list[n]) ELSE s
           F == [x \in (1 .. L) \X Seq(D) |-> G(x[1], x[2])]
<1>1. /\ L \in Nat /\ DOMAIN list = 1 .. L
      /\ \A i \in 1 .. L : list[i] \in D
      /\ <<>> \in Seq(D)
  BY LenProperties, ElementOfSeq, EmptySeq
<1>2. \A n \in 1 .. L, s \in Seq(D) : G(n, s) \in Seq(D) /\ F[<<n, s>>] = G(n, s)
  BY <1>1, AppendProperties
<1>3. F \in [(1 .. L) \X Seq(D) -> Seq(D)]
  BY <1>2
<1> HIDE DEF F
<1>4. PICK h \in [0 .. L -> Seq(D)] :
          h[0] = <<>> /\ \A n \in 1 .. L : h[n] = F[<<n, h[n - 1]>>]
  <2> DEFINE Q == Seq(D)
             d == <<>>
  <2>1. L \in Nat /\ d \in Q /\ F \in [(1 .. L) \X Q -> Q]
    BY <1>1, <1>3
  <2> HIDE DEF L, Q, d
  <2>2. Results(L, Q, F, d) # {}
    BY <2>1, CallsInTurn
  <2> QED
    BY <2>2 DEF Q, d, Results
<1>5. \A n \in 1 .. L : h[n] = G(n, h[n - 1])
  <2> SUFFICES ASSUME NEW n \in 1 .. L
               PROVE  h[n] = G(n, h[n - 1])
    OBVIOUS
  <2>1. n - 1 \in 0 .. L
    BY <1>1
  <2>2. h[n - 1] \in Seq(D)
    BY <2>1
  <2> QED
    BY <1>2, <1>4, <2>2
<1> DEFINE Next1(f, n) == IF n = 0 THEN <<>>
                          ELSE IF list[n] \in S THEN Append(f[n - 1], list[n])
                          ELSE f[n - 1]
           those == CHOOSE f : f = [n \in 0 .. L |-> Next1(f, n)]
<1>6. those = [n \in 0 .. L |-> Next1(those, n)]
  <2>1. ASSUME NEW n \in 0 .. L
        PROVE  h[n] = Next1(h, n)
    <3>1. CASE n = 0
      BY <1>4, <3>1
    <3>2. CASE n # 0
      <4>1. n \in 1 .. L
        BY <1>1, <3>2
      <4> QED
        BY <1>5, <3>2, <4>1
    <3> QED
      BY <3>1, <3>2
  <2>2. h = [n \in 0 .. L |-> Next1(h, n)]
    BY <2>1
  <2> QED
    BY <2>2
<1>7. Those(list, S) = those[L]
  BY DEF Those
<1> HIDE DEF those
<1>8. those[0] = <<>> /\ \A n \in 1 .. L : those[n] = G(n, those[n - 1])
  <2>1. \A n \in 0 .. L : those[n] = Next1(those, n)
    BY <1>6
  <2>2. ASSUME NEW n \in 1 .. L
        PROVE  those[n] = G(n, those[n - 1])
    <3>1. n \in 0 .. L /\ n # 0
      BY <1>1
    <3> QED
      BY <2>1, <3>1
  <2> QED
    BY <1>1, <2>1, <2>2
<1> DEFINE Before(n) == {list[i] : i \in 1 .. n}
           Differ(n) == \A i, j \in 1 .. n : list[i] = list[j] => i = j
           Right(n) == /\ those[n] \in Seq(D)
                       /\ ToSet(those[n]) = Before(n) \cap S
                       /\ Differ(n) => IsInjective(those[n])
           T == {n \in 0 .. L : Right(n)}
<1>9. Right(0)
  BY <1>1, <1>8, ToSetEmpty
<1>10. ASSUME NEW n \in 1 .. L, Right(n - 1)
       PROVE  Right(n)
  <2> DEFINE s == those[n - 1]
             e == list[n]
  <2>1. /\ s \in Seq(D) /\ e \in D
        /\ ToSet(s) = Before(n - 1) \cap S
        /\ Differ(n - 1) => IsInjective(s)
        /\ those[n] = IF e \in S THEN Append(s, e) ELSE s
    BY <1>1, <1>8, <1>10
  <2>2. Before(n) = Before(n - 1) \cup {e}
    BY <1>1
  <2>3. Differ(n) => Differ(n - 1) /\ e \notin Before(n - 1)
    BY <1>1
  <2> HIDE DEF s, e, Before, Differ
  <2>4. /\ Append(s, e) \in Seq(D)
        /\ ToSet(Append(s, e)) = ToSet(s) \cup {e}
        /\ IsInjective(s) /\ e \notin ToSet(s) => IsInjective(Append(s, e))
    BY <2>1, ToSetAppend
  <2> QED
    BY <2>1, <2>2, <2>3, <2>4
<1> HIDE DEF Right
<1>11. 0 \in T /\ \A n \in 0 + 1 .. L : n - 1 \in T => n \in T
  BY <1>1, <1>9, <1>10
<1>12. 0 .. L \subseteq T
  <2> HIDE DEF T, L
  <2> QED
    BY <1>1, <1>11, UpTo
<1>13. Right(L)
  BY <1>1, <1>12
<1>14. Before(L) = ToSet(list) /\ (IsInjective(list) => Differ(L))
  BY <1>1 DEF ToSet, IsInjective
<1> QED
  BY <1>7, <1>13, <1>14 DEF Right

-----------------------------------------------------------------------------
(* What each call does to the registries.                                  *)

\* Where a reader of each kind looks.
LEMMA KindsAre ==
    /\ \A o \in Objects : KindOf[o] \in Kinds /\ NameOf[o] \in Names
    /\ SourceKind["receive~"] = "send~"
    /\ SourceKind["delread~"] = "delwrite~"
    /\ SourceKind["tabread"] = "table"
    /\ Readers \subseteq Kinds
    /\ \A k \in Readers : SourceKind[k] \in {"send~", "delwrite~", "table"}
PROOF
<1>1. \A o \in Objects : KindOf[o] \in Kinds /\ NameOf[o] \in Names
  BY RegistryAssumption DEF Names
<1>2. /\ SourceKind["receive~"] = "send~"
      /\ SourceKind["delread~"] = "delwrite~"
      /\ SourceKind["tabread"] = "table"
  BY DEF SourceKind, Readers
<1> QED
  BY <1>1, <1>2 DEF Readers, Kinds

\* The parts of a registry.
LEMMA PartsOf ==
    ASSUME NEW r \in Registries
    PROVE  /\ \A k \in Kinds : /\ r.lists[k] \in Seq(Objects)
                               /\ ToSet(r.lists[k]) \subseteq Objects
           /\ \A o \in Objects : /\ r.source[o] \in {NONE} \cup Buffers
                                 /\ r.throwList[o] \in Seq(Objects)
           /\ \A n \in Names : r.receivers[n] \subseteq Objects
PROOF
<1>1. /\ r.lists \in [Kinds -> Seq(Objects)]
      /\ r.source \in [Objects -> {NONE} \cup Buffers]
      /\ r.throwList \in [Objects -> Seq(Objects)]
      /\ r.receivers \in [Names -> SUBSET Objects]
  BY DEF Registries
<1>2. \A k \in Kinds : r.lists[k] \in Seq(Objects)
  BY <1>1
<1>3. \A k \in Kinds : ToSet(r.lists[k]) \subseteq Objects
  BY <1>2, ToSetElements
<1> QED
  BY <1>1, <1>2, <1>3

\* The walk over a list for a name finds what has the name.
LEMMA NamedAre ==
    ASSUME NEW r \in Registries, NEW kind \in Kinds, NEW name
    PROVE  LET named == Named(r, kind, name)
           IN  /\ named \in Seq(Objects)
               /\ ToSet(named) =
                      {o \in ToSet(r.lists[kind]) : NameOf[o] = name}
               /\ IsInjective(r.lists[kind]) => IsInjective(named)
PROOF
<1> DEFINE list == r.lists[kind]
           S == {o \in Objects : NameOf[o] = name}
<1>1. list \in Seq(Objects) /\ ToSet(list) \subseteq Objects
  BY PartsOf
<1>2. Named(r, kind, name) = Those(list, S)
  BY DEF Named
<1>3. ToSet(list) \cap S = {o \in ToSet(list) : NameOf[o] = name}
  BY <1>1
<1> HIDE DEF S, list
<1>4. /\ Those(list, S) \in Seq(Objects)
      /\ ToSet(Those(list, S)) = ToSet(list) \cap S
      /\ IsInjective(list) => IsInjective(Those(list, S))
  BY <1>1, ThoseAreThose
<1> QED
  BY <1>2, <1>3, <1>4 DEF list

\* The first of a name is one of it, and there is none only if none has it.
LEMMA FirstIs ==
    ASSUME NEW r \in Registries, NEW kind \in Kinds, NEW name
    PROVE  LET first == First(r, kind, name)
           IN  IF \E o \in ToSet(r.lists[kind]) : NameOf[o] = name
               THEN /\ first # NONE /\ first \in Objects
                    /\ first \in ToSet(r.lists[kind]) /\ NameOf[first] = name
               ELSE first = NONE
PROOF
<1> DEFINE named == Named(r, kind, name)
<1>1. /\ named \in Seq(Objects)
      /\ ToSet(named) = {o \in ToSet(r.lists[kind]) : NameOf[o] = name}
  BY NamedAre
<1>2. First(r, kind, name) = IF named = <<>> THEN NONE ELSE Head(named)
  BY DEF First
<1> HIDE DEF named
<1>3. CASE named = <<>>
  BY <1>1, <1>2, <1>3, ToSetEmpty
<1>4. CASE named # <<>>
  <2>1. Head(named) \in ToSet(named) /\ ToSet(named) \subseteq Objects
    BY <1>1, <1>4, ToSetElements
  <2> QED
    BY <1>1, <1>2, <1>4, <2>1, RegistryAssumption
<1> QED
  BY <1>3, <1>4

\* Of two registries, all but the lists.
SameButLists(q, r) ==
    /\ q.source = r.source
    /\ q.throwList = r.throwList
    /\ q.receivers = r.receivers

\* The object is put on the list of its kind.
LEMMA EnlistedIs ==
    ASSUME NEW r \in Registries, NEW o \in Objects
    PROVE  LET q == Enlisted(r, o)
               k == KindOf[o]
           IN  /\ q \in Registries
               /\ SameButLists(q, r)
               /\ ToSet(q.lists[k]) = ToSet(r.lists[k]) \cup {o}
               /\ IsInjective(r.lists[k]) /\ o \notin ToSet(r.lists[k]) =>
                      IsInjective(q.lists[k])
               /\ \A l \in Kinds \ {k} : q.lists[l] = r.lists[l]
PROOF
<1> DEFINE q == Enlisted(r, o)
           k == KindOf[o]
           s == Append(r.lists[k], o)
<1>1. k \in Kinds /\ r.lists[k] \in Seq(Objects)
  BY KindsAre, PartsOf
<1>2. /\ s \in Seq(Objects)
      /\ ToSet(s) = ToSet(r.lists[k]) \cup {o}
      /\ IsInjective(r.lists[k]) /\ o \notin ToSet(r.lists[k]) =>
             IsInjective(s)
  <2> HIDE DEF k
  <2> QED
    BY <1>1, ToSetAppend
<1>3. q = [r EXCEPT !.lists = [r.lists EXCEPT ![k] = s]]
  BY DEF Enlisted
<1> HIDE DEF k, s, q
<1>4. q \in Registries
  BY <1>1, <1>2, <1>3 DEF Registries
<1>5. q.lists[k] = s /\ \A l \in Kinds \ {k} : q.lists[l] = r.lists[l]
  BY <1>1, <1>3 DEF Registries
<1>6. SameButLists(q, r)
  BY <1>3 DEF Registries, SameButLists
<1> QED
  BY <1>2, <1>4, <1>5, <1>6 DEF k, q

\* The object is taken off the list of its kind.
LEMMA DelistedIs ==
    ASSUME NEW r \in Registries, NEW o \in Objects
    PROVE  LET q == Delisted(r, o)
               k == KindOf[o]
           IN  /\ q \in Registries
               /\ SameButLists(q, r)
               /\ ToSet(q.lists[k]) = ToSet(r.lists[k]) \ {o}
               /\ \A l \in Kinds \ {k} : q.lists[l] = r.lists[l]
PROOF
<1> DEFINE q == Delisted(r, o)
           k == KindOf[o]
           S == Objects \ {o}
           s == Those(r.lists[k], S)
<1>1. /\ k \in Kinds /\ r.lists[k] \in Seq(Objects)
      /\ ToSet(r.lists[k]) \subseteq Objects
  BY KindsAre, PartsOf
<1>2. s \in Seq(Objects) /\ ToSet(s) = ToSet(r.lists[k]) \cap S
  <2> HIDE DEF k, S
  <2> QED
    BY <1>1, ThoseAreThose
<1>3. q = [r EXCEPT !.lists = [r.lists EXCEPT ![k] = s]]
  BY DEF Delisted
<1>4. ToSet(s) = ToSet(r.lists[k]) \ {o}
  BY <1>1, <1>2
<1> HIDE DEF k, s, q
<1>5. q \in Registries
  BY <1>1, <1>2, <1>3 DEF Registries
<1>6. q.lists[k] = s /\ \A l \in Kinds \ {k} : q.lists[l] = r.lists[l]
  BY <1>1, <1>3 DEF Registries
<1>7. SameButLists(q, r)
  BY <1>3 DEF Registries, SameButLists
<1> QED
  BY <1>4, <1>5, <1>6, <1>7 DEF k, q

\* Of two registries, all but the sources.
SameButSource(q, r) ==
    /\ q.lists = r.lists
    /\ q.throwList = r.throwList
    /\ q.receivers = r.receivers

\* The reader is on its list and looks for what the source is.
ReadsAs(r, p, o) ==
    /\ KindOf[p] \in Readers
    /\ o \in SourcesOf(p)
    /\ p \in ToSet(r.lists[KindOf[p]])

\* The readers of a source are told.
LEMMA RedirectedIs ==
    ASSUME NEW r \in Registries, NEW o \in Objects,
           NEW source \in {NONE} \cup Buffers
    PROVE  LET q == Redirected(r, o, source)
           IN  /\ q \in Registries
               /\ SameButSource(q, r)
               /\ \A p \in Objects :
                      q.source[p] = IF ReadsAs(r, p, o) THEN source
                                    ELSE r.source[p]
PROOF
<1> DEFINE q == Redirected(r, o, source)
           Told(p) == /\ KindOf[p] \in Readers
                      /\ SourceKind[KindOf[p]] = KindOf[o]
                      /\ p \in ToSet(Named(r, KindOf[p], NameOf[o]))
           f == [p \in Objects |-> IF Told(p) THEN source ELSE r.source[p]]
<1>1. q = [r EXCEPT !.source = f]
  BY DEF Redirected
<1>2. ASSUME NEW p \in Objects
      PROVE  Told(p) <=> ReadsAs(r, p, o)
  <2>1. CASE KindOf[p] \in Readers
    <3>1. KindOf[p] \in Kinds
      BY KindsAre
    <3>2. ToSet(Named(r, KindOf[p], NameOf[o])) =
              {t \in ToSet(r.lists[KindOf[p]]) : NameOf[t] = NameOf[o]}
      BY <3>1, NamedAre
    <3> QED
      BY <3>2 DEF ReadsAs, SourcesOf
  <2> QED
    BY <2>1 DEF ReadsAs
<1> HIDE DEF Told
<1>3. f \in [Objects -> {NONE} \cup Buffers]
  BY PartsOf
<1> HIDE DEF q
<1>4. q \in Registries
  <2> HIDE DEF f
  <2> QED
    BY <1>1, <1>3 DEF Registries
<1>5. q.source = f /\ SameButSource(q, r)
  <2> HIDE DEF f
  <2> QED
    BY <1>1 DEF Registries, SameButSource
<1>6. \A p \in Objects : q.source[p] = IF ReadsAs(r, p, o) THEN source
                                       ELSE r.source[p]
  BY <1>2, <1>5
<1> QED
  BY <1>4, <1>5, <1>6 DEF q

\* A buffer is of an object.
LEMMA BuffersAre ==
    /\ \A o \in Objects : /\ Output(o) \in Buffers /\ Output(o).object = o
                          /\ Input(o) \in Buffers /\ Input(o).object = o
    /\ NONE \notin Buffers
    /\ \A b \in Buffers : b.object \in Objects
PROOF
  BY RegistryAssumption DEF Output, Input, Buffers

\* A source that is the first of its name is listed, and its readers get it.
LEMMA SourceRegistered ==
    ASSUME NEW r \in Registries, NEW o \in Objects, KindOf[o] \in SourceKinds
    PROVE  LET q == RegisterSource(r, o)
               k == KindOf[o]
           IN  IF Has(r, k, NameOf[o]) THEN q = r
               ELSE /\ q \in Registries
                    /\ ToSet(q.lists[k]) = ToSet(r.lists[k]) \cup {o}
                    /\ \A l \in Kinds \ {k} : q.lists[l] = r.lists[l]
                    /\ q.throwList = r.throwList
                    /\ q.receivers = r.receivers
                    /\ \A p \in Objects :
                           q.source[p] = IF ReadsAs(r, p, o) THEN Output(o)
                                         ELSE r.source[p]
PROOF
<1> DEFINE q == RegisterSource(r, o)
           k == KindOf[o]
           e == Enlisted(r, o)
           t == Redirected(e, o, Output(o))
<1>1. k \in Kinds
  BY KindsAre
<1>2. Has(r, k, NameOf[o]) <=> First(r, k, NameOf[o]) # NONE
  BY <1>1, FirstIs DEF Has
<1>3. q = IF Has(r, k, NameOf[o]) THEN r ELSE t
  BY <1>2 DEF RegisterSource
<1>4. /\ e \in Registries
      /\ SameButLists(e, r)
      /\ ToSet(e.lists[k]) = ToSet(r.lists[k]) \cup {o}
      /\ \A l \in Kinds \ {k} : e.lists[l] = r.lists[l]
  BY EnlistedIs
<1>5. /\ t \in Registries
      /\ SameButSource(t, e)
      /\ \A p \in Objects :
             t.source[p] = IF ReadsAs(e, p, o) THEN Output(o) ELSE e.source[p]
  <2>1. Output(o) \in {NONE} \cup Buffers
    BY BuffersAre
  <2> HIDE DEF e
  <2> QED
    BY <1>4, <2>1, RedirectedIs
<1>6. \A p \in Objects : ReadsAs(e, p, o) <=> ReadsAs(r, p, o)
  <2>1. k \notin Readers
    BY DEF SourceKinds, Readers
  <2> HIDE DEF e, k
  <2> QED
    BY <1>4, <2>1, KindsAre DEF ReadsAs
<1> HIDE DEF t, e, q, k
<1>7. CASE Has(r, k, NameOf[o])
  BY <1>3, <1>7 DEF q, k
<1>8. CASE ~ Has(r, k, NameOf[o])
  <2>1. q = t
    BY <1>3, <1>8
  <2> QED
    BY <1>4, <1>5, <1>6, <1>8, <2>1 DEF SameButLists, SameButSource, q, k
<1> QED
  BY <1>7, <1>8

\* A reader is listed and reads the first source of its name.
LEMMA ReaderRegistered ==
    ASSUME NEW r \in Registries, NEW o \in Objects, KindOf[o] \in Readers
    PROVE  LET q == RegisterReader(r, o)
               k == KindOf[o]
               sources == ToSet(r.lists[SourceKind[k]])
           IN  /\ q \in Registries
               /\ ToSet(q.lists[k]) = ToSet(r.lists[k]) \cup {o}
               /\ \A l \in Kinds \ {k} : q.lists[l] = r.lists[l]
               /\ q.throwList = r.throwList
               /\ q.receivers = r.receivers
               /\ \A p \in Objects \ {o} : q.source[p] = r.source[p]
               /\ IF Has(r, SourceKind[k], NameOf[o])
                  THEN /\ q.source[o] # NONE
                       /\ q.source[o].object \in sources
                       /\ NameOf[q.source[o].object] = NameOf[o]
                  ELSE q.source[o] \in {NONE, r.source[o]}
PROOF
<1> DEFINE q == RegisterReader(r, o)
           k == KindOf[o]
           e == Enlisted(r, o)
           found == First(r, SourceKind[k], NameOf[o])
           b == IF found # NONE
                THEN IF k = "receive~" THEN Input(found) ELSE Output(found)
                ELSE IF k = "receive~" THEN e.source[o] ELSE NONE
<1>1. k \in Kinds /\ SourceKind[k] \in Kinds
  BY KindsAre DEF Kinds
<1>2. IF Has(r, SourceKind[k], NameOf[o])
      THEN /\ found # NONE /\ found \in Objects
           /\ found \in ToSet(r.lists[SourceKind[k]])
           /\ NameOf[found] = NameOf[o]
      ELSE found = NONE
  BY <1>1, FirstIs DEF Has
<1>3. /\ e \in Registries
      /\ SameButLists(e, r)
      /\ ToSet(e.lists[k]) = ToSet(r.lists[k]) \cup {o}
      /\ \A l \in Kinds \ {k} : e.lists[l] = r.lists[l]
  BY EnlistedIs
<1>4. q = [e EXCEPT !.source = [e.source EXCEPT ![o] = b]]
  BY DEF RegisterReader
<1>5. IF Has(r, SourceKind[k], NameOf[o])
      THEN b \in Buffers /\ b.object = found
      ELSE b \in {NONE, r.source[o]}
  <2> HIDE DEF found, e
  <2> QED
    BY <1>2, <1>3, BuffersAre DEF SameButLists
<1>6. b \in {NONE} \cup Buffers
  BY <1>5, PartsOf
<1> HIDE DEF b, e, q, k, found
<1>7. q \in Registries
  BY <1>3, <1>4, <1>6 DEF Registries
<1>8. SameButSource(q, e) /\ q.source = [e.source EXCEPT ![o] = b]
  BY <1>3, <1>4 DEF Registries, SameButSource
<1>9. q.source[o] = b /\ \A p \in Objects \ {o} : q.source[p] = r.source[p]
  BY <1>3, <1>8 DEF Registries, SameButLists
<1> QED
  BY <1>2, <1>3, <1>5, <1>7, <1>8, <1>9, BuffersAre
  DEF SameButLists, SameButSource, q, k

\* A catch~ that is the first of its name gets the throw~s of its name.
LEMMA CatchRegistered ==
    ASSUME NEW r \in Registries, NEW o \in Objects, KindOf[o] = "catch~"
    PROVE  LET q == RegisterCatch(r, o)
               throws == {t \in ToSet(r.lists["throw~"]) :
                              NameOf[t] = NameOf[o]}
           IN  IF Has(r, "catch~", NameOf[o]) THEN q = r
               ELSE /\ q \in Registries
                    /\ ToSet(q.lists["catch~"]) =
                           ToSet(r.lists["catch~"]) \cup {o}
                    /\ \A l \in Kinds \ {"catch~"} : q.lists[l] = r.lists[l]
                    /\ q.source = r.source
                    /\ q.receivers = r.receivers
                    /\ \A p \in Objects \ {o} : q.throwList[p] = r.throwList[p]
                    /\ ToSet(q.throwList[o]) =
                           ToSet(r.throwList[o]) \cup throws
                    /\ r.throwList[o] = <<>> /\ IsInjective(r.lists["throw~"])
                       => IsInjective(q.throwList[o])
PROOF
<1> DEFINE q == RegisterCatch(r, o)
           e == Enlisted(r, o)
           named == Named(r, "throw~", NameOf[o])
           s == r.throwList[o] \o named
           t == [e EXCEPT !.throwList = [e.throwList EXCEPT ![o] = s]]
<1>1. "catch~" \in Kinds /\ "throw~" \in Kinds
  BY DEF Kinds
<1>2. Has(r, "catch~", NameOf[o]) <=> First(r, "catch~", NameOf[o]) # NONE
  BY <1>1, FirstIs DEF Has
<1>3. /\ e \in Registries
      /\ SameButLists(e, r)
      /\ ToSet(e.lists["catch~"]) = ToSet(r.lists["catch~"]) \cup {o}
      /\ \A l \in Kinds \ {"catch~"} : e.lists[l] = r.lists[l]
  BY EnlistedIs
<1>4. q = IF Has(r, "catch~", NameOf[o]) THEN r ELSE t
  <2>1. e.throwList = r.throwList
    BY <1>3 DEF SameButLists
  <2> QED
    BY <1>2, <2>1 DEF RegisterCatch
<1>5. /\ named \in Seq(Objects)
      /\ ToSet(named) = {p \in ToSet(r.lists["throw~"]) :
                             NameOf[p] = NameOf[o]}
      /\ IsInjective(r.lists["throw~"]) => IsInjective(named)
  BY <1>1, NamedAre
<1> HIDE DEF named
<1>6. /\ s \in Seq(Objects)
      /\ ToSet(s) = ToSet(r.throwList[o]) \cup ToSet(named)
      /\ r.throwList[o] = <<>> => s = named
  BY <1>5, PartsOf, ToSetConcat
<1> HIDE DEF e, s, q
<1>7. t \in Registries
  BY <1>3, <1>6 DEF Registries
<1>8. /\ t.lists = e.lists /\ t.source = e.source /\ t.receivers = e.receivers
      /\ t.throwList[o] = s
      /\ \A p \in Objects \ {o} : t.throwList[p] = e.throwList[p]
  BY <1>3 DEF Registries
<1> HIDE DEF t
<1>9. CASE Has(r, "catch~", NameOf[o])
  BY <1>4, <1>9 DEF q
<1>10. CASE ~ Has(r, "catch~", NameOf[o])
  <2>1. q = t
    BY <1>4, <1>10
  <2> QED
    BY <1>3, <1>5, <1>6, <1>7, <1>8, <1>10, <2>1 DEF SameButLists, q
<1> QED
  BY <1>9, <1>10

\* A throw~ is listed and added to the catch~ of its name.
LEMMA ThrowRegistered ==
    ASSUME NEW r \in Registries, NEW o \in Objects, KindOf[o] = "throw~"
    PROVE  LET q == RegisterThrow(r, o)
               old == r.lists["throw~"]
           IN  /\ q \in Registries
               /\ ToSet(q.lists["throw~"]) = ToSet(old) \cup {o}
               /\ IsInjective(old) /\ o \notin ToSet(old) =>
                      IsInjective(q.lists["throw~"])
               /\ \A l \in Kinds \ {"throw~"} : q.lists[l] = r.lists[l]
               /\ q.source = r.source
               /\ q.receivers = r.receivers
               /\ IF Has(r, "catch~", NameOf[o])
                  THEN \E c \in ToSet(r.lists["catch~"]) :
                           /\ c \in Objects /\ NameOf[c] = NameOf[o]
                           /\ \A p \in Objects \ {c} :
                                  q.throwList[p] = r.throwList[p]
                           /\ ToSet(q.throwList[c]) =
                                  ToSet(r.throwList[c]) \cup {o}
                           /\ IsInjective(r.throwList[c])
                              /\ o \notin ToSet(r.throwList[c]) =>
                                  IsInjective(q.throwList[c])
                  ELSE q.throwList = r.throwList
PROOF
<1> DEFINE q == RegisterThrow(r, o)
           e == Enlisted(r, o)
           c == First(r, "catch~", NameOf[o])
           s == Append(r.throwList[c], o)
           t == [e EXCEPT !.throwList = [e.throwList EXCEPT ![c] = s]]
<1>1. "catch~" \in Kinds /\ "throw~" \in Kinds
  BY DEF Kinds
<1>2. IF Has(r, "catch~", NameOf[o])
      THEN /\ c # NONE /\ c \in Objects
           /\ c \in ToSet(r.lists["catch~"]) /\ NameOf[c] = NameOf[o]
      ELSE c = NONE
  BY <1>1, FirstIs DEF Has
<1>3. /\ e \in Registries
      /\ SameButLists(e, r)
      /\ ToSet(e.lists["throw~"]) = ToSet(r.lists["throw~"]) \cup {o}
      /\ IsInjective(r.lists["throw~"]) /\ o \notin ToSet(r.lists["throw~"]) =>
             IsInjective(e.lists["throw~"])
      /\ \A l \in Kinds \ {"throw~"} : e.lists[l] = r.lists[l]
  BY EnlistedIs
<1>4. q = IF c = NONE THEN e ELSE t
  <2>1. e.throwList = r.throwList
    BY <1>3 DEF SameButLists
  <2> QED
    BY <2>1 DEF RegisterThrow
<1> HIDE DEF e, c, q
<1>5. CASE Has(r, "catch~", NameOf[o])
  <2>1. q = t /\ c \in Objects
    BY <1>2, <1>4, <1>5
  <2>2. /\ s \in Seq(Objects)
        /\ ToSet(s) = ToSet(r.throwList[c]) \cup {o}
        /\ IsInjective(r.throwList[c]) /\ o \notin ToSet(r.throwList[c]) =>
               IsInjective(s)
    BY <2>1, PartsOf, ToSetAppend
  <2> HIDE DEF s
  <2>3. t \in Registries
    BY <1>3, <2>1, <2>2 DEF Registries
  <2>4. /\ t.lists = e.lists /\ t.source = e.source /\ t.receivers = e.receivers
        /\ t.throwList[c] = s
        /\ \A p \in Objects \ {c} : t.throwList[p] = e.throwList[p]
    BY <1>3, <2>1 DEF Registries
  <2> HIDE DEF t
  <2> QED
    BY <1>2, <1>3, <1>5, <2>1, <2>2, <2>3, <2>4 DEF SameButLists, q
<1>6. CASE ~ Has(r, "catch~", NameOf[o])
  <2>1. q = e
    BY <1>2, <1>4, <1>6
  <2> QED
    BY <1>3, <1>6, <2>1 DEF SameButLists, q
<1> QED
  BY <1>5, <1>6

\* A receiver is added to those of its name.
LEMMA ReceivingIs ==
    ASSUME NEW r \in Registries, NEW o \in Objects
    PROVE  LET q == Receiving(r, o)
           IN  /\ q \in Registries
               /\ q.lists = r.lists
               /\ q.source = r.source
               /\ q.throwList = r.throwList
               /\ q.receivers[NameOf[o]] = r.receivers[NameOf[o]] \cup {o}
               /\ \A n \in Names \ {NameOf[o]} :
                      q.receivers[n] = r.receivers[n]
PROOF
<1>1. NameOf[o] \in Names
  BY KindsAre
<1> QED
  BY <1>1 DEF Receiving, Registries

-----------------------------------------------------------------------------
(* Nothing that the context keeps is gone.                                 *)

\* A source is not gone, and its readers are listed.
LEMMA KeptSource ==
    ASSUME NEW r \in Registries, NEW gone, Kept(r, gone),
           NEW o \in Objects \ gone, KindOf[o] \in SourceKinds
    PROVE  RegisterSource(r, o) \in Registries /\ Kept(RegisterSource(r, o), gone)
PROOF
<1> DEFINE q == RegisterSource(r, o)
           k == KindOf[o]
<1>1. IF Has(r, k, NameOf[o]) THEN q = r
      ELSE /\ q \in Registries
           /\ ToSet(q.lists[k]) = ToSet(r.lists[k]) \cup {o}
           /\ \A l \in Kinds \ {k} : q.lists[l] = r.lists[l]
           /\ q.throwList = r.throwList
           /\ q.receivers = r.receivers
           /\ \A p \in Objects :
                  q.source[p] = IF ReadsAs(r, p, o) THEN Output(o)
                                ELSE r.source[p]
  BY SourceRegistered
<1>2. k \in Kinds \ Readers /\ o \in ListedAs(k)
  BY KindsAre DEF SourceKinds, Readers, OfKind, ListedAs
<1> HIDE DEF q, k
<1>3. CASE Has(r, k, NameOf[o])
  BY <1>1, <1>3 DEF q
<1>4. CASE ~ Has(r, k, NameOf[o])
  <2>1. \A l \in Kinds : ToSet(q.lists[l]) \subseteq ListedAs(l) \ gone
    BY <1>1, <1>2, <1>4 DEF Kept
  <2>2. ASSUME NEW p \in Objects, q.source[p] # NONE
        PROVE  /\ KindOf[p] \in Readers
               /\ q.source[p].object \in SourcesOf(p) \ gone
               /\ p \in ToSet(q.lists[KindOf[p]])
    <3>1. CASE ReadsAs(r, p, o)
      BY <1>1, <1>2, <1>4, <3>1, BuffersAre, KindsAre DEF ReadsAs
    <3>2. CASE ~ ReadsAs(r, p, o)
      <4>1. q.source[p] = r.source[p]
        BY <1>1, <1>4, <3>2
      <4>2. /\ KindOf[p] \in Readers
            /\ r.source[p].object \in SourcesOf(p) \ gone
            /\ p \in ToSet(r.lists[KindOf[p]])
        BY <2>2, <4>1 DEF Kept
      <4> QED
        BY <1>1, <1>2, <1>4, <4>1, <4>2, KindsAre
    <3> QED
      BY <3>1, <3>2
  <2> QED
    BY <1>1, <1>4, <2>1, <2>2 DEF Kept, q
<1> QED
  BY <1>3, <1>4

\* A reader is not gone, and what it reads is listed.
LEMMA KeptReader ==
    ASSUME NEW r \in Registries, NEW gone, Kept(r, gone),
           NEW o \in Objects \ gone, KindOf[o] \in Readers
    PROVE  RegisterReader(r, o) \in Registries /\ Kept(RegisterReader(r, o), gone)
PROOF
<1> DEFINE q == RegisterReader(r, o)
           k == KindOf[o]
           sources == ToSet(r.lists[SourceKind[k]])
<1>1. /\ q \in Registries
      /\ ToSet(q.lists[k]) = ToSet(r.lists[k]) \cup {o}
      /\ \A l \in Kinds \ {k} : q.lists[l] = r.lists[l]
      /\ q.throwList = r.throwList
      /\ q.receivers = r.receivers
      /\ \A p \in Objects \ {o} : q.source[p] = r.source[p]
      /\ IF Has(r, SourceKind[k], NameOf[o])
         THEN /\ q.source[o] # NONE
              /\ q.source[o].object \in sources
              /\ NameOf[q.source[o].object] = NameOf[o]
         ELSE q.source[o] \in {NONE, r.source[o]}
  BY ReaderRegistered
<1>2. k \in Kinds /\ SourceKind[k] \in Kinds /\ o \in ListedAs(k)
  BY KindsAre DEF Kinds, Readers, OfKind, ListedAs
<1>3. sources \subseteq OfKind(SourceKind[k]) \ gone
  BY <1>2 DEF Kept, ListedAs
<1> HIDE DEF q, sources
<1>4. \A l \in Kinds : ToSet(q.lists[l]) \subseteq ListedAs(l) \ gone
  <2> HIDE DEF k
  <2> QED
    BY <1>1, <1>2 DEF Kept
<1>5. ASSUME NEW p \in Objects, q.source[p] # NONE
      PROVE  /\ KindOf[p] \in Readers
             /\ q.source[p].object \in SourcesOf(p) \ gone
             /\ p \in ToSet(q.lists[KindOf[p]])
  <2>1. CASE q.source[p] = r.source[p]
    <3>1. /\ KindOf[p] \in Readers
          /\ r.source[p].object \in SourcesOf(p) \ gone
          /\ p \in ToSet(r.lists[KindOf[p]])
      BY <1>5, <2>1 DEF Kept
    <3>2. KindOf[p] \in Kinds
      BY KindsAre
    <3> QED
      BY <1>1, <2>1, <3>1, <3>2
  <2>2. CASE q.source[p] # r.source[p]
    <3>1. /\ p = o
          /\ q.source[o].object \in sources
          /\ NameOf[q.source[o].object] = NameOf[o]
      BY <1>1, <1>5, <2>2
    <3>2. q.source[o].object \in SourcesOf(o) \ gone
      BY <1>3, <3>1 DEF SourcesOf, OfKind
    <3> QED
      BY <1>1, <3>1, <3>2
  <2> QED
    BY <2>1, <2>2
<1> HIDE DEF k
<1> QED
  BY <1>1, <1>4, <1>5 DEF Kept, q

\* The ends of a bus are not gone.
LEMMA KeptBus ==
    ASSUME NEW r \in Registries, NEW gone, Kept(r, gone), NEW o \in Objects \ gone
    PROVE  /\ KindOf[o] = "catch~" =>
                  /\ RegisterCatch(r, o) \in Registries
                  /\ Kept(RegisterCatch(r, o), gone)
           /\ KindOf[o] = "throw~" =>
                  /\ RegisterThrow(r, o) \in Registries
                  /\ Kept(RegisterThrow(r, o), gone)
           /\ KindOf[o] \in {"receive", "table"} =>
                  Receiving(r, o) \in Registries /\ Kept(Receiving(r, o), gone)
PROOF
<1>0. /\ "catch~" \in Kinds \ Readers /\ "throw~" \in Kinds \ Readers
      /\ KindOf[o] \in {"catch~", "throw~"} => o \in ListedAs(KindOf[o])
  BY DEF Kinds, Readers, OfKind, ListedAs
<1>1. ASSUME KindOf[o] = "catch~"
      PROVE  RegisterCatch(r, o) \in Registries /\ Kept(RegisterCatch(r, o), gone)
  <2> DEFINE q == RegisterCatch(r, o)
             throws == {t \in ToSet(r.lists["throw~"]) : NameOf[t] = NameOf[o]}
  <2>1. IF Has(r, "catch~", NameOf[o]) THEN q = r
        ELSE /\ q \in Registries
             /\ ToSet(q.lists["catch~"]) = ToSet(r.lists["catch~"]) \cup {o}
             /\ \A l \in Kinds \ {"catch~"} : q.lists[l] = r.lists[l]
             /\ q.source = r.source
             /\ q.receivers = r.receivers
             /\ \A p \in Objects \ {o} : q.throwList[p] = r.throwList[p]
             /\ ToSet(q.throwList[o]) = ToSet(r.throwList[o]) \cup throws
    BY <1>1, CatchRegistered
  <2>2. throws \subseteq OfKind("throw~")
    BY <1>0 DEF Kept, ListedAs
  <2> HIDE DEF q, throws
  <2>3. CASE Has(r, "catch~", NameOf[o])
    BY <2>1, <2>3 DEF q
  <2>4. CASE ~ Has(r, "catch~", NameOf[o])
    <3>1. \A l \in Kinds : ToSet(q.lists[l]) \subseteq ListedAs(l) \ gone
      BY <1>0, <1>1, <2>1, <2>4 DEF Kept
    <3>2. \A p \in Objects : ToSet(q.throwList[p]) \subseteq OfKind("throw~")
      BY <2>1, <2>2, <2>4 DEF Kept
    <3>3. \A l \in Readers : q.lists[l] = r.lists[l]
      BY <1>0, <2>1, <2>4, KindsAre
    <3> QED
      BY <2>1, <2>4, <3>1, <3>2, <3>3 DEF Kept, q
  <2> QED
    BY <2>3, <2>4
<1>2. ASSUME KindOf[o] = "throw~"
      PROVE  RegisterThrow(r, o) \in Registries /\ Kept(RegisterThrow(r, o), gone)
  <2> DEFINE q == RegisterThrow(r, o)
  <2>1. /\ q \in Registries
        /\ ToSet(q.lists["throw~"]) = ToSet(r.lists["throw~"]) \cup {o}
        /\ \A l \in Kinds \ {"throw~"} : q.lists[l] = r.lists[l]
        /\ q.source = r.source
        /\ q.receivers = r.receivers
        /\ IF Has(r, "catch~", NameOf[o])
           THEN \E c \in ToSet(r.lists["catch~"]) :
                    /\ c \in Objects /\ NameOf[c] = NameOf[o]
                    /\ \A p \in Objects \ {c} : q.throwList[p] = r.throwList[p]
                    /\ ToSet(q.throwList[c]) = ToSet(r.throwList[c]) \cup {o}
           ELSE q.throwList = r.throwList
    BY <1>2, ThrowRegistered
  <2> HIDE DEF q
  <2>2. \A l \in Kinds : ToSet(q.lists[l]) \subseteq ListedAs(l) \ gone
    BY <1>0, <1>2, <2>1 DEF Kept
  <2>3. \A p \in Objects : ToSet(q.throwList[p]) \subseteq OfKind("throw~")
    <3>0. o \in OfKind("throw~")
      BY <1>2 DEF OfKind
    <3>1. CASE Has(r, "catch~", NameOf[o])
      BY <2>1, <3>0, <3>1 DEF Kept
    <3>2. CASE ~ Has(r, "catch~", NameOf[o])
      BY <2>1, <3>2 DEF Kept
    <3> QED
      BY <3>1, <3>2
  <2>4. \A l \in Readers : q.lists[l] = r.lists[l]
    BY <1>0, <2>1, KindsAre
  <2> QED
    BY <2>1, <2>2, <2>3, <2>4 DEF Kept, q
<1>3. ASSUME KindOf[o] \in {"receive", "table"}
      PROVE  Receiving(r, o) \in Registries /\ Kept(Receiving(r, o), gone)
  <2> DEFINE q == Receiving(r, o)
  <2>1. /\ q \in Registries
        /\ q.lists = r.lists
        /\ q.source = r.source
        /\ q.throwList = r.throwList
        /\ q.receivers[NameOf[o]] = r.receivers[NameOf[o]] \cup {o}
        /\ \A n \in Names \ {NameOf[o]} : q.receivers[n] = r.receivers[n]
    BY ReceivingIs
  <2> HIDE DEF q
  <2>2. o \in ReceiversOf(NameOf[o])
    BY <1>3 DEF ReceiversOf
  <2>3. \A n \in Names : q.receivers[n] \subseteq ReceiversOf(n) \ gone
    BY <2>1, <2>2 DEF Kept
  <2> QED
    BY <2>1, <2>3 DEF Kept, q
<1> QED
  BY <1>1, <1>2, <1>3

\* What is registered is not gone.
LEMMA KeptRegister ==
    ASSUME NEW r \in Registries, NEW gone, Kept(r, gone), NEW o \in Objects \ gone
    PROVE  registerObject(r, o) \in Registries /\ Kept(registerObject(r, o), gone)
PROOF
<1>1. CASE KindOf[o] \in {"send~", "delwrite~"}
  <2>1. registerObject(r, o) = RegisterSource(r, o)
    BY <1>1 DEF registerObject, Readers
  <2>2. KindOf[o] \in SourceKinds
    BY <1>1 DEF SourceKinds
  <2> QED
    BY <2>1, <2>2, KeptSource
<1>2. CASE KindOf[o] = "table"
  <2>1. registerObject(r, o) = RegisterSource(Receiving(r, o), o)
    BY <1>2 DEF registerObject, Readers
  <2>2. KindOf[o] \in SourceKinds
    BY <1>2 DEF SourceKinds
  <2>3. Receiving(r, o) \in Registries /\ Kept(Receiving(r, o), gone)
    BY <1>2, KeptBus
  <2> QED
    BY <2>1, <2>2, <2>3, KeptSource
<1>3. CASE KindOf[o] \in Readers
  <2>1. registerObject(r, o) = RegisterReader(r, o)
    BY <1>3 DEF registerObject, Readers
  <2> QED
    BY <1>3, <2>1, KeptReader
<1>4. CASE KindOf[o] = "catch~"
  <2>1. registerObject(r, o) = RegisterCatch(r, o)
    BY <1>4 DEF registerObject, Readers
  <2> QED
    BY <1>4, <2>1, KeptBus
<1>5. CASE KindOf[o] = "throw~"
  <2>1. registerObject(r, o) = RegisterThrow(r, o)
    BY <1>5 DEF registerObject, Readers
  <2> QED
    BY <1>5, <2>1, KeptBus
<1>6. CASE KindOf[o] = "receive"
  <2>1. registerObject(r, o) = Receiving(r, o)
    BY <1>6 DEF registerObject, Readers
  <2> QED
    BY <1>6, <2>1, KeptBus
<1> QED
  BY <1>1, <1>2, <1>3, <1>4, <1>5, <1>6, KindsAre DEF Kinds

\* What is unregistered is taken off the lists if there is a case for it.
LEMMA UnregisteredIs ==
    ASSUME NEW r \in Registries, NEW o \in Objects
    PROVE  LET q == unregisterObject(r, o)
               k == KindOf[o]
           IN  /\ q \in Registries
               /\ q.throwList = r.throwList
               /\ IF k \in {"send~", "receive~", "tabread"}
                  THEN /\ ToSet(q.lists[k]) = ToSet(r.lists[k]) \ {o}
                       /\ \A l \in Kinds \ {k} : q.lists[l] = r.lists[l]
                  ELSE q.lists = r.lists
               /\ IF k = "send~"
                  THEN \A p \in Objects :
                           q.source[p] = IF ReadsAs(r, p, o) THEN NONE
                                         ELSE r.source[p]
                  ELSE IF k \in {"receive~", "tabread"}
                  THEN /\ q.source[o] = NONE
                       /\ \A p \in Objects \ {o} : q.source[p] = r.source[p]
                  ELSE q.source = r.source
               /\ IF k = "receive"
                  THEN /\ q.receivers[NameOf[o]] = r.receivers[NameOf[o]] \ {o}
                       /\ \A n \in Names \ {NameOf[o]} :
                              q.receivers[n] = r.receivers[n]
                  ELSE q.receivers = r.receivers
PROOF
<1> DEFINE q == unregisterObject(r, o)
           k == KindOf[o]
           d == Delisted(r, o)
<1>1. /\ d \in Registries
      /\ SameButLists(d, r)
      /\ ToSet(d.lists[k]) = ToSet(r.lists[k]) \ {o}
      /\ \A l \in Kinds \ {k} : d.lists[l] = r.lists[l]
  BY DelistedIs
<1>2. CASE k = "send~"
  <2> DEFINE t == Redirected(d, o, NONE)
  <2>1. q = t
    BY <1>2 DEF unregisterObject
  <2> HIDE DEF d
  <2>2. /\ t \in Registries
        /\ SameButSource(t, d)
        /\ \A p \in Objects :
               t.source[p] = IF ReadsAs(d, p, o) THEN NONE ELSE d.source[p]
    BY <1>1, RedirectedIs
  <2>3. \A p \in Objects : ReadsAs(d, p, o) <=> ReadsAs(r, p, o)
    <3>1. k \notin Readers
      BY <1>2 DEF Readers
    <3> HIDE DEF k
    <3> QED
      BY <1>1, <3>1, KindsAre DEF ReadsAs
  <2> HIDE DEF t, q
  <2> QED
    BY <1>1, <1>2, <2>1, <2>2, <2>3 DEF SameButLists, SameButSource, q
<1>3. CASE k \in {"receive~", "tabread"}
  <2>1. q = [d EXCEPT !.source = [d.source EXCEPT ![o] = NONE]]
    BY <1>3 DEF unregisterObject
  <2> HIDE DEF d, q
  <2>2. /\ q \in Registries
        /\ q.lists = d.lists
        /\ q.throwList = d.throwList
        /\ q.receivers = d.receivers
        /\ q.source[o] = NONE
        /\ \A p \in Objects \ {o} : q.source[p] = d.source[p]
    BY <1>1, <2>1 DEF Registries
  <2> QED
    BY <1>1, <1>3, <2>2 DEF SameButLists, q
<1>4. CASE k = "receive"
  <2> DEFINE S == r.receivers[NameOf[o]] \ {o}
  <2>1. NameOf[o] \in Names
    BY KindsAre
  <2>2. q = [r EXCEPT !.receivers = [r.receivers EXCEPT ![NameOf[o]] = S]]
    BY <1>4 DEF unregisterObject
  <2>3. S \in SUBSET Objects
    BY <2>1, PartsOf
  <2> HIDE DEF S, q
  <2>4. /\ q \in Registries
        /\ q.lists = r.lists
        /\ q.throwList = r.throwList
        /\ q.source = r.source
        /\ q.receivers[NameOf[o]] = S
        /\ \A n \in Names \ {NameOf[o]} : q.receivers[n] = r.receivers[n]
    BY <2>1, <2>2, <2>3 DEF Registries
  <2> QED
    BY <1>4, <2>4 DEF S, q
<1>5. CASE k \notin HaveCase
  <2>1. q = r
    BY <1>5 DEF unregisterObject, HaveCase
  <2> QED
    BY <1>5, <2>1 DEF HaveCase
<1> QED
  BY <1>2, <1>3, <1>4, <1>5 DEF HaveCase

\* What is unregistered and has a case may go.
LEMMA KeptUnregister ==
    ASSUME NEW r \in Registries, NEW gone, Kept(r, gone), NEW o \in Objects
    PROVE  LET q == unregisterObject(r, o)
           IN  /\ q \in Registries
               /\ Kept(q, gone)
               /\ KindOf[o] \in HaveCase => Kept(q, gone \cup {o})
PROOF
<1> DEFINE q == unregisterObject(r, o)
           k == KindOf[o]
<1>1. /\ q \in Registries
      /\ q.throwList = r.throwList
      /\ IF k \in {"send~", "receive~", "tabread"}
         THEN /\ ToSet(q.lists[k]) = ToSet(r.lists[k]) \ {o}
              /\ \A l \in Kinds \ {k} : q.lists[l] = r.lists[l]
         ELSE q.lists = r.lists
      /\ IF k = "send~"
         THEN \A p \in Objects :
                  q.source[p] = IF ReadsAs(r, p, o) THEN NONE ELSE r.source[p]
         ELSE IF k \in {"receive~", "tabread"}
         THEN /\ q.source[o] = NONE
              /\ \A p \in Objects \ {o} : q.source[p] = r.source[p]
         ELSE q.source = r.source
      /\ IF k = "receive"
         THEN /\ q.receivers[NameOf[o]] = r.receivers[NameOf[o]] \ {o}
              /\ \A n \in Names \ {NameOf[o]} : q.receivers[n] = r.receivers[n]
         ELSE q.receivers = r.receivers
  BY UnregisteredIs
<1> HIDE DEF q
<1>2. ASSUME k \in HaveCase
      PROVE  Kept(q, gone \cup {o})
  <2>1. ASSUME NEW l \in Kinds
        PROVE  ToSet(q.lists[l]) \subseteq ListedAs(l) \ (gone \cup {o})
    <3>1. ToSet(r.lists[l]) \subseteq ListedAs(l) \ gone
      BY DEF Kept
    <3>2. ToSet(q.lists[l]) \subseteq ToSet(r.lists[l])
      BY <1>1
    <3>3. o \notin ToSet(q.lists[l])
      <4>1. CASE l = k
        BY <1>1, <1>2, <3>1, <4>1 DEF HaveCase, ListedAs
      <4>2. CASE l # k
        BY <3>1, <3>2, <4>2 DEF ListedAs, OfKind
      <4> QED
        BY <4>1, <4>2
    <3> QED
      BY <3>1, <3>2, <3>3
  <2>2. ASSUME NEW n \in Names
        PROVE  q.receivers[n] \subseteq ReceiversOf(n) \ (gone \cup {o})
    <3>1. r.receivers[n] \subseteq ReceiversOf(n) \ gone
      BY DEF Kept
    <3>2. o \in ReceiversOf(n) => k = "receive" /\ n = NameOf[o]
      BY <1>2 DEF ReceiversOf, HaveCase
    <3> QED
      BY <1>1, <3>1, <3>2
  <2>3. ASSUME NEW p \in Objects, q.source[p] # NONE
        PROVE  /\ KindOf[p] \in Readers
               /\ q.source[p].object \in SourcesOf(p) \ (gone \cup {o})
               /\ p \in ToSet(q.lists[KindOf[p]])
    <3>1. q.source[p] = r.source[p]
      BY <1>1, <2>3
    <3>2. /\ KindOf[p] \in Readers
          /\ r.source[p].object \in SourcesOf(p) \ gone
          /\ p \in ToSet(r.lists[KindOf[p]])
      BY <2>3, <3>1 DEF Kept
    <3>3. /\ KindOf[p] \in Kinds
          /\ \A t \in SourcesOf(p) : KindOf[t] \in SourceKinds
      BY <3>2, KindsAre DEF SourcesOf, SourceKinds
    <3>4. p \in ToSet(q.lists[KindOf[p]])
      <4>1. CASE k = "send~"
        BY <1>1, <3>2, <3>3, <4>1 DEF Readers
      <4>2. CASE k \in {"receive~", "tabread"}
        BY <1>1, <2>3, <3>2, <3>3, <4>2
      <4>3. CASE k = "receive"
        BY <1>1, <3>2, <4>3
      <4> QED
        BY <1>2, <4>1, <4>2, <4>3 DEF HaveCase
    <3>5. r.source[p].object # o
      <4>1. CASE k = "send~"
        BY <1>1, <2>3, <3>2, <4>1 DEF ReadsAs
      <4>2. CASE k # "send~"
        BY <1>2, <3>2, <3>3, <4>2 DEF HaveCase, SourceKinds
      <4> QED
        BY <4>1, <4>2
    <3> QED
      BY <3>1, <3>2, <3>4, <3>5
  <2> HIDE DEF k
  <2> QED
    BY <1>1, <2>1, <2>2, <2>3 DEF Kept
<1>3. Kept(q, gone \cup {o}) => Kept(q, gone)
  BY DEF Kept
<1>4. k \notin HaveCase => q.lists = r.lists /\ q.source = r.source
                           /\ q.receivers = r.receivers
  BY <1>1 DEF HaveCase
<1>5. k \notin HaveCase => Kept(q, gone)
  BY <1>1, <1>4 DEF Kept
<1> QED
  BY <1>1, <1>2, <1>3, <1>5 DEF q

\* Registries are left whatever is registered.
LEMMA RegisterTyped ==
    ASSUME NEW r \in Registries, NEW o \in Objects
    PROVE  registerObject(r, o) \in Registries
PROOF
<1>1. ASSUME NEW q \in Registries, KindOf[o] \in SourceKinds
      PROVE  RegisterSource(q, o) \in Registries
  BY <1>1, SourceRegistered
<1>2. CASE KindOf[o] \in {"send~", "delwrite~"}
  BY <1>1, <1>2 DEF registerObject, Readers, SourceKinds
<1>3. CASE KindOf[o] = "table"
  <2>1. Receiving(r, o) \in Registries
    BY ReceivingIs
  <2> QED
    BY <1>1, <1>3, <2>1 DEF registerObject, Readers, SourceKinds
<1>4. CASE KindOf[o] \in Readers
  BY <1>4, ReaderRegistered DEF registerObject, Readers
<1>5. CASE KindOf[o] = "catch~"
  BY <1>5, CatchRegistered DEF registerObject, Readers
<1>6. CASE KindOf[o] = "throw~"
  BY <1>6, ThrowRegistered DEF registerObject, Readers
<1>7. CASE KindOf[o] = "receive"
  BY <1>7, ReceivingIs DEF registerObject, Readers
<1> QED
  BY <1>2, <1>3, <1>4, <1>5, <1>6, <1>7, KindsAre DEF Kinds

\* The registries before and after each call for the objects of a list.
RegisteredInTurn(after, r, list) ==
    /\ after[0] = r
    /\ \A n \in 1 .. Len(list) :
           after[n] = registerObject(after[n - 1], list[n])
    /\ registerAll(r, list) = after[Len(list)]
UnregisteredInTurn(after, r, list) ==
    /\ after[0] = r
    /\ \A n \in 1 .. Len(list) :
           after[n] = unregisterObject(after[n - 1], list[n])
    /\ unregisterAll(r, list) = after[Len(list)]

\* Attaching a graph registers its objects in turn.
LEMMA AllRegistered ==
    ASSUME NEW r \in Registries, NEW list \in Seq(Objects)
    PROVE  \E after : RegisteredInTurn(after, r, list)
PROOF
<1> DEFINE L == Len(list)
           F == [x \in (1 .. L) \X Registries |->
                     registerObject(x[2], list[x[1]])]
<1>1. L \in Nat /\ \A n \in 1 .. L : list[n] \in Objects
  BY LenProperties, ElementOfSeq
<1>2. ASSUME NEW n \in 1 .. L, NEW q \in Registries
      PROVE  /\ registerObject(q, list[n]) \in Registries
             /\ F[<<n, q>>] = registerObject(q, list[n])
  <2>1. list[n] \in Objects
    BY <1>1
  <2>2. registerObject(q, list[n]) \in Registries
    BY <2>1, RegisterTyped
  <2> QED
    BY <2>2
<1>3. F \in [(1 .. L) \X Registries -> Registries]
  BY <1>2
<1> HIDE DEF F
<1>4. PICK h \in [0 .. L -> Registries] :
          h[0] = r /\ \A n \in 1 .. L : h[n] = F[<<n, h[n - 1]>>]
  <2> HIDE DEF L
  <2>1. Results(L, Registries, F, r) # {}
    BY <1>1, <1>3, CallsInTurn
  <2> QED
    BY <2>1 DEF Results
<1>5. ASSUME NEW n \in 1 .. L
      PROVE  h[n] = registerObject(h[n - 1], list[n])
  <2>1. n - 1 \in 0 .. L
    BY <1>1
  <2>2. h[n - 1] \in Registries
    BY <2>1
  <2> QED
    BY <1>2, <1>4, <2>2
<1> DEFINE Next1(f, n) == IF n = 0 THEN r ELSE registerObject(f[n - 1], list[n])
           after == CHOOSE f : f = [n \in 0 .. L |-> Next1(f, n)]
<1>6. after = [n \in 0 .. L |-> Next1(after, n)]
  <2>1. ASSUME NEW n \in 0 .. L
        PROVE  h[n] = Next1(h, n)
    <3>1. CASE n = 0
      BY <1>4, <3>1
    <3>2. CASE n # 0
      <4>1. n \in 1 .. L
        BY <1>1, <3>2
      <4> QED
        BY <1>5, <3>2, <4>1
    <3> QED
      BY <3>1, <3>2
  <2>2. h = [n \in 0 .. L |-> Next1(h, n)]
    BY <2>1
  <2> QED
    BY <2>2
<1>7. registerAll(r, list) = after[L]
  BY DEF registerAll
<1> HIDE DEF after
<1>8. /\ DOMAIN after = 0 .. L
      /\ after[0] = r
      /\ \A n \in 1 .. L : after[n] = registerObject(after[n - 1], list[n])
  <2>1. \A n \in 0 .. L : after[n] = Next1(after, n)
    BY <1>6
  <2>2. DOMAIN after = 0 .. L
    BY <1>6
  <2>3. ASSUME NEW n \in 1 .. L
        PROVE  after[n] = registerObject(after[n - 1], list[n])
    <3>1. n \in 0 .. L /\ n # 0
      BY <1>1
    <3> QED
      BY <2>1, <3>1
  <2> QED
    BY <1>1, <2>1, <2>2, <2>3
<1> QED
  BY <1>7, <1>8 DEF RegisteredInTurn

\* Unattaching a graph unregisters its objects in turn.
LEMMA AllUnregistered ==
    ASSUME NEW r \in Registries, NEW list \in Seq(Objects)
    PROVE  \E after : UnregisteredInTurn(after, r, list)
PROOF
<1> DEFINE L == Len(list)
           F == [x \in (1 .. L) \X Registries |->
                     unregisterObject(x[2], list[x[1]])]
<1>1. L \in Nat /\ \A n \in 1 .. L : list[n] \in Objects
  BY LenProperties, ElementOfSeq
<1>2. ASSUME NEW n \in 1 .. L, NEW q \in Registries
      PROVE  /\ unregisterObject(q, list[n]) \in Registries
             /\ F[<<n, q>>] = unregisterObject(q, list[n])
  <2>1. list[n] \in Objects
    BY <1>1
  <2>2. unregisterObject(q, list[n]) \in Registries
    BY <2>1, UnregisteredIs
  <2> QED
    BY <2>2
<1>3. F \in [(1 .. L) \X Registries -> Registries]
  BY <1>2
<1> HIDE DEF F
<1>4. PICK h \in [0 .. L -> Registries] :
          h[0] = r /\ \A n \in 1 .. L : h[n] = F[<<n, h[n - 1]>>]
  <2> HIDE DEF L
  <2>1. Results(L, Registries, F, r) # {}
    BY <1>1, <1>3, CallsInTurn
  <2> QED
    BY <2>1 DEF Results
<1>5. ASSUME NEW n \in 1 .. L
      PROVE  h[n] = unregisterObject(h[n - 1], list[n])
  <2>1. n - 1 \in 0 .. L
    BY <1>1
  <2>2. h[n - 1] \in Registries
    BY <2>1
  <2> QED
    BY <1>2, <1>4, <2>2
<1> DEFINE Next1(f, n) == IF n = 0 THEN r ELSE unregisterObject(f[n - 1], list[n])
           after == CHOOSE f : f = [n \in 0 .. L |-> Next1(f, n)]
<1>6. after = [n \in 0 .. L |-> Next1(after, n)]
  <2>1. ASSUME NEW n \in 0 .. L
        PROVE  h[n] = Next1(h, n)
    <3>1. CASE n = 0
      BY <1>4, <3>1
    <3>2. CASE n # 0
      <4>1. n \in 1 .. L
        BY <1>1, <3>2
      <4> QED
        BY <1>5, <3>2, <4>1
    <3> QED
      BY <3>1, <3>2
  <2>2. h = [n \in 0 .. L |-> Next1(h, n)]
    BY <2>1
  <2> QED
    BY <2>2
<1>7. unregisterAll(r, list) = after[L]
  BY DEF unregisterAll
<1> HIDE DEF after
<1>8. /\ DOMAIN after = 0 .. L
      /\ after[0] = r
      /\ \A n \in 1 .. L : after[n] = unregisterObject(after[n - 1], list[n])
  <2>1. \A n \in 0 .. L : after[n] = Next1(after, n)
    BY <1>6
  <2>2. DOMAIN after = 0 .. L
    BY <1>6
  <2>3. ASSUME NEW n \in 1 .. L
        PROVE  after[n] = unregisterObject(after[n - 1], list[n])
    <3>1. n \in 0 .. L /\ n # 0
      BY <1>1
    <3> QED
      BY <2>1, <3>1
  <2> QED
    BY <1>1, <2>1, <2>2, <2>3
<1> QED
  BY <1>7, <1>8 DEF UnregisteredInTurn

-----------------------------------------------------------------------------
(* The buses reach all their ends.                                         *)

BusKinds == {"catch~", "throw~", "receive", "table"}

\* What has nothing to do with the buses does nothing to them.
LEMMA ReachedStays ==
    ASSUME NEW r, NEW q, NEW A, NEW B, Reached(r, A),
           A \subseteq Objects, B \subseteq Objects,
           \A o \in Objects : KindOf[o] \in BusKinds => (o \in A <=> o \in B),
           q.lists["throw~"] = r.lists["throw~"],
           q.lists["catch~"] = r.lists["catch~"],
           q.throwList = r.throwList, q.receivers = r.receivers
    PROVE  Reached(q, B)
PROOF
<1>1. /\ A \cap OfKind("throw~") = B \cap OfKind("throw~")
      /\ A \cap OfKind("catch~") = B \cap OfKind("catch~")
      /\ \A c : A \cap ThrowsTo(c) = B \cap ThrowsTo(c)
      /\ \A n : A \cap ReceiversOf(n) = B \cap ReceiversOf(n)
  BY DEF OfKind, ThrowsTo, ReceiversOf, BusKinds
<1> QED
  BY <1>1 DEF Reached

\* Messages to a name reach a receiver of it from then on.
LEMMA ReachedReceiving ==
    ASSUME NEW r \in Registries, NEW A \in SUBSET Objects, Reached(r, A),
           NEW o \in Objects, KindOf[o] \in {"receive", "table"}
    PROVE  Reached(Receiving(r, o), A \cup {o})
PROOF
<1> DEFINE q == Receiving(r, o)
<1>1. /\ q \in Registries
      /\ q.lists = r.lists
      /\ q.source = r.source
      /\ q.throwList = r.throwList
      /\ q.receivers[NameOf[o]] = r.receivers[NameOf[o]] \cup {o}
      /\ \A n \in Names \ {NameOf[o]} : q.receivers[n] = r.receivers[n]
  BY ReceivingIs
<1> HIDE DEF q
<1>2. /\ (A \cup {o}) \cap OfKind("throw~") = A \cap OfKind("throw~")
      /\ (A \cup {o}) \cap OfKind("catch~") = A \cap OfKind("catch~")
      /\ \A c : (A \cup {o}) \cap ThrowsTo(c) = A \cap ThrowsTo(c)
  BY DEF OfKind, ThrowsTo
<1>3. ASSUME NEW n \in Names
      PROVE  q.receivers[n] = (A \cup {o}) \cap ReceiversOf(n)
  <2>1. r.receivers[n] = A \cap ReceiversOf(n)
    BY DEF Reached
  <2>2. o \in ReceiversOf(n) <=> n = NameOf[o]
    BY DEF ReceiversOf
  <2> QED
    BY <1>1, <2>1, <2>2
<1> QED
  BY <1>1, <1>2, <1>3 DEF Reached, q

\* A catch~ reaches the throw~s that are there.
LEMMA ReachedCatch ==
    ASSUME NEW r \in Registries, NEW A \in SUBSET Objects, Reached(r, A),
           NEW o \in Objects \ A, KindOf[o] = "catch~"
    PROVE  Reached(RegisterCatch(r, o), A \cup {o})
PROOF
<1> DEFINE q == RegisterCatch(r, o)
           B == A \cup {o}
           throws == {t \in ToSet(r.lists["throw~"]) : NameOf[t] = NameOf[o]}
<1>1. IF Has(r, "catch~", NameOf[o]) THEN q = r
      ELSE /\ q \in Registries
           /\ ToSet(q.lists["catch~"]) = ToSet(r.lists["catch~"]) \cup {o}
           /\ \A l \in Kinds \ {"catch~"} : q.lists[l] = r.lists[l]
           /\ q.source = r.source
           /\ q.receivers = r.receivers
           /\ \A p \in Objects \ {o} : q.throwList[p] = r.throwList[p]
           /\ ToSet(q.throwList[o]) = ToSet(r.throwList[o]) \cup throws
           /\ r.throwList[o] = <<>> /\ IsInjective(r.lists["throw~"])
              => IsInjective(q.throwList[o])
  BY CatchRegistered
<1> HIDE DEF q
<1>2. /\ B \cap OfKind("throw~") = A \cap OfKind("throw~")
      /\ B \cap OfKind("catch~") = (A \cap OfKind("catch~")) \cup {o}
      /\ \A c : B \cap ThrowsTo(c) = A \cap ThrowsTo(c)
      /\ \A n : B \cap ReceiversOf(n) = A \cap ReceiversOf(n)
  BY DEF OfKind, ThrowsTo, ReceiversOf
<1> HIDE DEF B
<1>3. CASE Has(r, "catch~", NameOf[o])
  <2>1. ToSet(r.lists["catch~"]) \subseteq B \cap OfKind("catch~")
    BY <1>2 DEF Reached
  <2> QED
    BY <1>1, <1>2, <1>3, <2>1 DEF Reached, q, B
<1>4. CASE ~ Has(r, "catch~", NameOf[o])
  <2>1. "throw~" \in Kinds \ {"catch~"} /\ "catch~" \in Kinds
    BY DEF Kinds
  <2>2. q.lists["throw~"] = r.lists["throw~"]
    BY <1>1, <1>4, <2>1
  <2>3. ToSet(q.lists["catch~"]) = ToSet(r.lists["catch~"]) \cup {o}
    BY <1>1, <1>4
  <2>4. /\ o \notin ToSet(r.lists["catch~"])
        /\ ToSet(r.lists["catch~"]) \subseteq Objects
        /\ r.throwList[o] = <<>>
    <3>1. o \notin ToSet(r.lists["catch~"])
      BY DEF Reached
    <3> QED
      BY <2>1, <3>1, PartsOf DEF Reached
  <2>5. /\ ToSet(q.throwList[o]) = B \cap ThrowsTo(o)
        /\ IsInjective(q.throwList[o])
    <3>1. throws = A \cap ThrowsTo(o)
      BY DEF Reached, ThrowsTo, OfKind
    <3>2. ToSet(q.throwList[o]) = ToSet(r.throwList[o]) \cup throws
      BY <1>1, <1>4
    <3>3. ToSet(r.throwList[o]) = {}
      BY <2>4, ToSetEmpty
    <3>4. IsInjective(q.throwList[o])
      BY <1>1, <1>4, <2>4 DEF Reached
    <3> QED
      BY <1>2, <3>1, <3>2, <3>3, <3>4
  <2>6. ASSUME NEW c \in ToSet(q.lists["catch~"])
        PROVE  /\ ToSet(q.throwList[c]) = B \cap ThrowsTo(c)
               /\ IsInjective(q.throwList[c])
    <3>1. CASE c = o
      BY <2>5, <3>1
    <3>2. CASE c # o
      <4>1. c \in ToSet(r.lists["catch~"]) /\ c \in Objects \ {o}
        BY <2>3, <2>4, <3>2
      <4>2. q.throwList[c] = r.throwList[c]
        BY <1>1, <1>4, <4>1
      <4> QED
        BY <1>2, <4>1, <4>2 DEF Reached
    <3> QED
      BY <3>1, <3>2
  <2>7. ASSUME NEW c \in ToSet(q.lists["catch~"]),
               NEW d \in ToSet(q.lists["catch~"]), NameOf[c] = NameOf[d]
        PROVE  c = d
    BY <1>4, <2>3, <2>7 DEF Reached, Has
  <2>8. \A p \in Objects \ ToSet(q.lists["catch~"]) : q.throwList[p] = <<>>
    BY <1>1, <1>4, <2>3 DEF Reached
  <2>9. /\ ToSet(q.lists["throw~"]) = B \cap OfKind("throw~")
        /\ IsInjective(q.lists["throw~"])
        /\ ToSet(q.lists["catch~"]) \subseteq B \cap OfKind("catch~")
        /\ \A n \in Names : q.receivers[n] = B \cap ReceiversOf(n)
    BY <1>1, <1>2, <1>4, <2>2, <2>3 DEF Reached
  <2> QED
    BY <2>6, <2>7, <2>8, <2>9 DEF Reached, q, B
<1> QED
  BY <1>3, <1>4

\* A throw~ reaches the catch~ that is there.
LEMMA ReachedThrow ==
    ASSUME NEW r \in Registries, NEW A \in SUBSET Objects, Reached(r, A),
           NEW o \in Objects \ A, KindOf[o] = "throw~"
    PROVE  Reached(RegisterThrow(r, o), A \cup {o})
PROOF
<1> DEFINE q == RegisterThrow(r, o)
           B == A \cup {o}
           catches == ToSet(r.lists["catch~"])
<1>1. /\ q \in Registries
      /\ ToSet(q.lists["throw~"]) = ToSet(r.lists["throw~"]) \cup {o}
      /\ IsInjective(r.lists["throw~"]) /\ o \notin ToSet(r.lists["throw~"]) =>
             IsInjective(q.lists["throw~"])
      /\ \A l \in Kinds \ {"throw~"} : q.lists[l] = r.lists[l]
      /\ q.source = r.source
      /\ q.receivers = r.receivers
      /\ IF Has(r, "catch~", NameOf[o])
         THEN \E c \in catches :
                  /\ c \in Objects /\ NameOf[c] = NameOf[o]
                  /\ \A p \in Objects \ {c} : q.throwList[p] = r.throwList[p]
                  /\ ToSet(q.throwList[c]) = ToSet(r.throwList[c]) \cup {o}
                  /\ IsInjective(r.throwList[c])
                     /\ o \notin ToSet(r.throwList[c]) =>
                         IsInjective(q.throwList[c])
         ELSE q.throwList = r.throwList
  BY ThrowRegistered
<1> HIDE DEF q
<1>2. /\ B \cap OfKind("throw~") = (A \cap OfKind("throw~")) \cup {o}
      /\ B \cap OfKind("catch~") = A \cap OfKind("catch~")
      /\ \A n : B \cap ReceiversOf(n) = A \cap ReceiversOf(n)
  BY DEF OfKind, ReceiversOf
<1>3. \A c : B \cap ThrowsTo(c) = IF NameOf[c] = NameOf[o]
                                  THEN (A \cap ThrowsTo(c)) \cup {o}
                                  ELSE A \cap ThrowsTo(c)
  BY DEF ThrowsTo, OfKind
<1>4. /\ "catch~" \in Kinds \ {"throw~"}
      /\ q.lists["catch~"] = r.lists["catch~"]
      /\ catches \subseteq Objects
  <2>1. "catch~" \in Kinds \ {"throw~"}
    BY DEF Kinds
  <2> QED
    BY <1>1, <2>1, PartsOf
<1> HIDE DEF B
<1>5. ASSUME NEW c \in catches
      PROVE  /\ ToSet(q.throwList[c]) = B \cap ThrowsTo(c)
             /\ IsInjective(q.throwList[c])
  <2>1. ToSet(r.throwList[c]) = A \cap ThrowsTo(c) /\ IsInjective(r.throwList[c])
    BY DEF Reached
  <2>2. CASE NameOf[c] = NameOf[o]
    <3>1. PICK d \in catches :
              /\ NameOf[d] = NameOf[o]
              /\ ToSet(q.throwList[d]) = ToSet(r.throwList[d]) \cup {o}
              /\ IsInjective(r.throwList[d]) /\ o \notin ToSet(r.throwList[d])
                 => IsInjective(q.throwList[d])
      BY <1>1, <2>2 DEF Has
    <3>2. d = c
      BY <2>2, <3>1 DEF Reached
    <3> QED
      BY <1>3, <2>1, <2>2, <3>1, <3>2
  <2>3. CASE NameOf[c] # NameOf[o]
    <3>1. q.throwList[c] = r.throwList[c]
      BY <1>1, <1>4, <2>3
    <3> QED
      BY <1>3, <2>1, <2>3, <3>1
  <2> QED
    BY <2>2, <2>3
<1>6. ASSUME NEW p \in Objects \ catches
      PROVE  q.throwList[p] = <<>>
  <2>1. r.throwList[p] = <<>>
    BY DEF Reached
  <2> QED
    BY <1>1, <2>1
<1>7. /\ ToSet(q.lists["throw~"]) = B \cap OfKind("throw~")
      /\ IsInjective(q.lists["throw~"])
  BY <1>1, <1>2 DEF Reached
<1>8. /\ catches \subseteq B \cap OfKind("catch~")
      /\ \A c, d \in catches : NameOf[c] = NameOf[d] => c = d
      /\ \A n \in Names : q.receivers[n] = B \cap ReceiversOf(n)
  BY <1>1, <1>2 DEF Reached
<1> QED
  BY <1>4, <1>5, <1>6, <1>7, <1>8 DEF Reached, q, B

\* The buses reach what is registered, whatever it is.
LEMMA ReachedRegister ==
    ASSUME NEW r \in Registries, NEW A \in SUBSET Objects, Reached(r, A),
           NEW o \in Objects \ A
    PROVE  Reached(registerObject(r, o), A \cup {o})
PROOF
<1> DEFINE B == A \cup {o}
<1>1. /\ "throw~" \in Kinds /\ "catch~" \in Kinds
      /\ "throw~" \notin Readers \cup SourceKinds
      /\ "catch~" \notin Readers \cup SourceKinds
  BY DEF Kinds, Readers, SourceKinds
<1>2. ASSUME NEW p \in Registries, KindOf[o] \in SourceKinds,
             NEW C \in SUBSET Objects, Reached(p, C)
      PROVE  Reached(RegisterSource(p, o), C)
  <2> DEFINE q == RegisterSource(p, o)
  <2>1. /\ q.lists["throw~"] = p.lists["throw~"]
        /\ q.lists["catch~"] = p.lists["catch~"]
        /\ q.throwList = p.throwList /\ q.receivers = p.receivers
    BY <1>1, <1>2, SourceRegistered
  <2> HIDE DEF q
  <2>2. Reached(q, C)
    BY <1>2, <2>1, ReachedStays
  <2> QED
    BY <2>2 DEF q
<1>3. KindOf[o] \notin BusKinds => Reached(r, B)
  <2> SUFFICES ASSUME KindOf[o] \notin BusKinds
               PROVE  Reached(r, B)
    OBVIOUS
  <2>1. B \subseteq Objects
        /\ \A p \in Objects : KindOf[p] \in BusKinds => (p \in A <=> p \in B)
    OBVIOUS
  <2> HIDE DEF B
  <2> QED
    BY <2>1, ReachedStays
<1>4. CASE KindOf[o] \in {"send~", "delwrite~"}
  <2>1. KindOf[o] \in SourceKinds /\ KindOf[o] \notin BusKinds
    BY <1>4 DEF SourceKinds, BusKinds
  <2>2. registerObject(r, o) = RegisterSource(r, o)
    BY <1>4 DEF registerObject, Readers
  <2>3. Reached(r, B) /\ B \in SUBSET Objects
    BY <1>3, <2>1
  <2> HIDE DEF B
  <2>4. Reached(RegisterSource(r, o), B)
    BY <1>2, <2>1, <2>3
  <2> QED
    BY <2>2, <2>4 DEF B
<1>5. CASE KindOf[o] = "table"
  <2> DEFINE p == Receiving(r, o)
  <2>1. registerObject(r, o) = RegisterSource(p, o)
    BY <1>5 DEF registerObject, Readers
  <2>2. KindOf[o] \in SourceKinds /\ B \in SUBSET Objects
    BY <1>5 DEF SourceKinds
  <2>3. p \in Registries /\ Reached(p, B)
    BY <1>5, ReachedReceiving, ReceivingIs
  <2> HIDE DEF p, B
  <2>4. Reached(RegisterSource(p, o), B)
    BY <1>2, <2>2, <2>3
  <2> QED
    BY <2>1, <2>4 DEF B
<1>6. CASE KindOf[o] \in Readers
  <2> DEFINE q == RegisterReader(r, o)
  <2>1. registerObject(r, o) = q
    BY <1>6 DEF registerObject, Readers
  <2>2. /\ q.lists["throw~"] = r.lists["throw~"]
        /\ q.lists["catch~"] = r.lists["catch~"]
        /\ q.throwList = r.throwList /\ q.receivers = r.receivers
    BY <1>1, <1>6, ReaderRegistered
  <2>3. Reached(r, B) /\ B \in SUBSET Objects
    BY <1>3, <1>6 DEF Readers, BusKinds
  <2> HIDE DEF q, B
  <2>4. Reached(q, B)
    BY <2>2, <2>3, ReachedStays
  <2> QED
    BY <2>1, <2>4 DEF B
<1>7. CASE KindOf[o] = "catch~"
  <2>1. registerObject(r, o) = RegisterCatch(r, o)
    BY <1>7 DEF registerObject, Readers
  <2> QED
    BY <1>7, <2>1, ReachedCatch
<1>8. CASE KindOf[o] = "throw~"
  <2>1. registerObject(r, o) = RegisterThrow(r, o)
    BY <1>8 DEF registerObject, Readers
  <2> QED
    BY <1>8, <2>1, ReachedThrow
<1>9. CASE KindOf[o] = "receive"
  <2>1. registerObject(r, o) = Receiving(r, o)
    BY <1>9 DEF registerObject, Readers
  <2> QED
    BY <1>9, <2>1, ReachedReceiving
<1> QED
  BY <1>4, <1>5, <1>6, <1>7, <1>8, <1>9, KindsAre DEF Kinds

\* The buses lose what is unregistered.
LEMMA ReachedUnregister ==
    ASSUME NEW r \in Registries, NEW A \in SUBSET Objects, Reached(r, A),
           NEW o \in Objects, KindOf[o] \in HaveCase
    PROVE  Reached(unregisterObject(r, o), A \ {o})
PROOF
<1> DEFINE q == unregisterObject(r, o)
           k == KindOf[o]
           B == A \ {o}
<1>1. /\ q.throwList = r.throwList
      /\ IF k \in {"send~", "receive~", "tabread"}
         THEN \A l \in Kinds \ {k} : q.lists[l] = r.lists[l]
         ELSE q.lists = r.lists
      /\ IF k = "receive"
         THEN /\ q.receivers[NameOf[o]] = r.receivers[NameOf[o]] \ {o}
              /\ \A n \in Names \ {NameOf[o]} : q.receivers[n] = r.receivers[n]
         ELSE q.receivers = r.receivers
  BY UnregisteredIs
<1>2. /\ q.lists["throw~"] = r.lists["throw~"]
      /\ q.lists["catch~"] = r.lists["catch~"]
  <2>1. k \notin {"throw~", "catch~"} /\ {"throw~", "catch~"} \subseteq Kinds
    BY DEF HaveCase, Kinds
  <2> HIDE DEF q, k
  <2> QED
    BY <1>1, <2>1
<1> HIDE DEF q
<1>3. CASE k = "receive"
  <2>1. /\ B \cap OfKind("throw~") = A \cap OfKind("throw~")
        /\ B \cap OfKind("catch~") = A \cap OfKind("catch~")
        /\ \A c : B \cap ThrowsTo(c) = A \cap ThrowsTo(c)
    BY <1>3 DEF OfKind, ThrowsTo
  <2>2. ASSUME NEW n \in Names
        PROVE  q.receivers[n] = B \cap ReceiversOf(n)
    <3>1. r.receivers[n] = A \cap ReceiversOf(n)
      BY DEF Reached
    <3>2. n # NameOf[o] => o \notin ReceiversOf(n)
      BY DEF ReceiversOf
    <3> QED
      BY <1>1, <1>3, <3>1, <3>2
  <2> HIDE DEF B
  <2> QED
    BY <1>1, <1>2, <2>1, <2>2 DEF Reached, q, B
<1>4. CASE k # "receive"
  <2>1. B \subseteq Objects
        /\ \A p \in Objects : KindOf[p] \in BusKinds => (p \in A <=> p \in B)
    BY <1>4 DEF HaveCase, BusKinds
  <2>2. q.receivers = r.receivers /\ q.throwList = r.throwList
    BY <1>1, <1>4
  <2> HIDE DEF B, k
  <2>3. Reached(q, B)
    BY <1>2, <2>1, <2>2, ReachedStays
  <2> QED
    BY <2>3 DEF q, B
<1> QED
  BY <1>3, <1>4

-----------------------------------------------------------------------------
(* The readers read from their sources.                                    *)

\* What has nothing to do with the readers does nothing to them.
LEMMA LinkedStays ==
    ASSUME NEW r, NEW q, NEW A, NEW B, Linked(r, A),
           A \subseteq Objects, B \subseteq Objects,
           \A o \in Objects :
               KindOf[o] \in Readers \cup SourceKinds => (o \in A <=> o \in B),
           \A k \in Readers \cup SourceKinds : q.lists[k] = r.lists[k],
           q.source = r.source
    PROVE  Linked(q, B)
PROOF
<1>1. /\ \A k \in Readers \cup SourceKinds :
             A \cap OfKind(k) = B \cap OfKind(k)
      /\ \A o \in Objects : KindOf[o] \in Readers => (o \in A <=> o \in B)
  BY DEF OfKind
<1>2. \A o \in Objects : KindOf[o] \in Readers =>
                             A \cap SourcesOf(o) = B \cap SourcesOf(o)
  <2>1. \A k \in Readers : SourceKind[k] \in SourceKinds
    BY KindsAre DEF SourceKinds
  <2> QED
    BY <2>1 DEF SourcesOf
<1>3. \A k \in SourceKinds : \A name : Has(q, k, name) <=> Has(r, k, name)
  BY DEF Has
<1>4. \A k \in Readers : ToSet(q.lists[k]) = B \cap OfKind(k)
  BY <1>1 DEF Linked
<1>5. \A k \in SourceKinds :
          /\ ToSet(q.lists[k]) \subseteq B \cap OfKind(k)
          /\ \A o \in B \cap OfKind(k) : Has(q, k, NameOf[o])
  BY <1>1, <1>3 DEF Linked
<1>6. \A o \in Objects :
          IF KindOf[o] \in Readers /\ o \in B /\ B \cap SourcesOf(o) # {}
          THEN q.source[o] # NONE /\ q.source[o].object \in B \cap SourcesOf(o)
          ELSE q.source[o] = NONE
  BY <1>1, <1>2 DEF Linked
<1> QED
  BY <1>4, <1>5, <1>6 DEF Linked

\* A reader finds a source on the lists if there is one.
LEMMA LinkedHas ==
    ASSUME NEW r, NEW A \in SUBSET Objects, Linked(r, A),
           NEW o \in Objects, KindOf[o] \in Readers
    PROVE  Has(r, SourceKind[KindOf[o]], NameOf[o]) <=> A \cap SourcesOf(o) # {}
PROOF
<1> DEFINE k == SourceKind[KindOf[o]]
<1>1. k \in SourceKinds
  BY KindsAre DEF SourceKinds
<1>2. SourcesOf(o) = {p \in OfKind(k) : NameOf[p] = NameOf[o]}
  BY DEF SourcesOf, OfKind
<1> HIDE DEF k
<1>3. ASSUME Has(r, k, NameOf[o])
      PROVE  A \cap SourcesOf(o) # {}
  BY <1>1, <1>2, <1>3 DEF Linked, Has
<1>4. ASSUME NEW p \in A \cap SourcesOf(o)
      PROVE  Has(r, k, NameOf[o])
  <2>1. p \in A \cap OfKind(k) /\ NameOf[p] = NameOf[o]
    BY <1>2
  <2> QED
    BY <1>1, <2>1 DEF Linked
<1> QED
  BY <1>3, <1>4 DEF k

\* A source is read by the readers that are there.
LEMMA LinkedSource ==
    ASSUME NEW r \in Registries, NEW A \in SUBSET Objects, Linked(r, A),
           NEW o \in Objects \ A, KindOf[o] \in SourceKinds
    PROVE  Linked(RegisterSource(r, o), A \cup {o})
PROOF
<1> DEFINE q == RegisterSource(r, o)
           k == KindOf[o]
           B == A \cup {o}
<1>1. IF Has(r, k, NameOf[o]) THEN q = r
      ELSE /\ ToSet(q.lists[k]) = ToSet(r.lists[k]) \cup {o}
           /\ \A l \in Kinds \ {k} : q.lists[l] = r.lists[l]
           /\ \A p \in Objects :
                  q.source[p] = IF ReadsAs(r, p, o) THEN Output(o)
                                ELSE r.source[p]
  BY SourceRegistered
<1>2. k \in Kinds \ Readers /\ SourceKinds \subseteq Kinds \ Readers
  BY KindsAre DEF SourceKinds, Readers, Kinds
<1>3. /\ \A l \in Kinds \ {k} : B \cap OfKind(l) = A \cap OfKind(l)
      /\ B \cap OfKind(k) = (A \cap OfKind(k)) \cup {o}
      /\ \A p \in Objects : KindOf[p] \in Readers => (p \in B <=> p \in A)
  BY <1>2 DEF OfKind
<1>4. ASSUME NEW p \in Objects, KindOf[p] \in Readers
      PROVE  IF p \in A /\ A \cap SourcesOf(p) # {}
             THEN r.source[p] # NONE /\ r.source[p].object \in A \cap SourcesOf(p)
             ELSE r.source[p] = NONE
  BY <1>4 DEF Linked
<1>5. \A p \in Objects : KindOf[p] \notin Readers => r.source[p] = NONE
  BY DEF Linked
<1> HIDE DEF q, k, B
<1>6. CASE Has(r, k, NameOf[o])
  <2>1. \A l \in Readers : ToSet(r.lists[l]) = B \cap OfKind(l)
    BY <1>2, <1>3, KindsAre DEF Linked
  <2>2. \A l \in SourceKinds :
            /\ ToSet(r.lists[l]) \subseteq B \cap OfKind(l)
            /\ \A p \in B \cap OfKind(l) : Has(r, l, NameOf[p])
    BY <1>2, <1>3, <1>6 DEF Linked
  <2>3. ASSUME NEW p \in Objects
        PROVE  IF KindOf[p] \in Readers /\ p \in B /\ B \cap SourcesOf(p) # {}
               THEN /\ r.source[p] # NONE
                    /\ r.source[p].object \in B \cap SourcesOf(p)
               ELSE r.source[p] = NONE
    <3>1. CASE KindOf[p] \notin Readers
      BY <1>5, <3>1
    <3>2. CASE KindOf[p] \in Readers
      <4>1. B \cap SourcesOf(p) # {} => A \cap SourcesOf(p) # {}
        <5>1. CASE o \in SourcesOf(p)
          <6>1. Has(r, SourceKind[KindOf[p]], NameOf[p])
            BY <1>6, <5>1 DEF SourcesOf, k
          <6> QED
            BY <3>2, <6>1, LinkedHas
        <5>2. CASE o \notin SourcesOf(p)
          BY <5>2 DEF B
        <5> QED
          BY <5>1, <5>2
      <4>2. A \cap SourcesOf(p) \subseteq B \cap SourcesOf(p)
        BY DEF B
      <4> QED
        BY <1>3, <1>4, <3>2, <4>1, <4>2
    <3> QED
      BY <3>1, <3>2
  <2>4. Linked(r, B)
    BY <2>1, <2>2, <2>3 DEF Linked
  <2> QED
    BY <1>1, <1>6, <2>4 DEF q, B
<1>7. CASE ~ Has(r, k, NameOf[o])
  <2>1. /\ ToSet(q.lists[k]) = ToSet(r.lists[k]) \cup {o}
        /\ \A l \in Kinds \ {k} : q.lists[l] = r.lists[l]
        /\ \A p \in Objects :
               q.source[p] = IF ReadsAs(r, p, o) THEN Output(o) ELSE r.source[p]
    BY <1>1, <1>7
  <2>2. \A l \in Readers : ToSet(q.lists[l]) = B \cap OfKind(l)
    BY <1>2, <1>3, <2>1, KindsAre DEF Linked
  <2>3. ASSUME NEW l \in SourceKinds
        PROVE  /\ ToSet(q.lists[l]) \subseteq B \cap OfKind(l)
               /\ \A p \in B \cap OfKind(l) : Has(q, l, NameOf[p])
    <3>1. /\ ToSet(r.lists[l]) \subseteq A \cap OfKind(l)
          /\ \A p \in A \cap OfKind(l) : Has(r, l, NameOf[p])
      BY DEF Linked
    <3>2. CASE l = k
      BY <1>3, <2>1, <3>1, <3>2 DEF Has
    <3>3. CASE l # k
      <4>1. l \in Kinds \ {k}
        BY <1>2, <3>3
      <4> QED
        BY <1>3, <2>1, <3>1, <4>1 DEF Has
    <3> QED
      BY <3>2, <3>3
  <2>4. ASSUME NEW p \in Objects
        PROVE  IF KindOf[p] \in Readers /\ p \in B /\ B \cap SourcesOf(p) # {}
               THEN /\ q.source[p] # NONE
                    /\ q.source[p].object \in B \cap SourcesOf(p)
               ELSE q.source[p] = NONE
    <3>1. CASE KindOf[p] \notin Readers
      BY <1>5, <2>1, <3>1 DEF ReadsAs
    <3>2. CASE KindOf[p] \in Readers
      <4>1. ReadsAs(r, p, o) <=> o \in SourcesOf(p) /\ p \in A
        <5>1. ToSet(r.lists[KindOf[p]]) = A \cap OfKind(KindOf[p])
          BY <3>2 DEF Linked
        <5> QED
          BY <3>2, <5>1 DEF ReadsAs, OfKind
      <4>2. CASE ReadsAs(r, p, o)
        <5>1. q.source[p] = Output(o)
          BY <2>1, <4>2
        <5>2. o \in B \cap SourcesOf(p) /\ p \in B
          BY <4>1, <4>2 DEF B
        <5> QED
          BY <3>2, <5>1, <5>2, BuffersAre
      <4>3. CASE ~ ReadsAs(r, p, o)
        <5>1. q.source[p] = r.source[p]
          BY <2>1, <4>3
        <5>2. p \in A => A \cap SourcesOf(p) = B \cap SourcesOf(p)
          BY <4>1, <4>3 DEF B
        <5> QED
          BY <1>3, <1>4, <3>2, <5>1, <5>2
      <4> QED
        BY <4>2, <4>3
    <3> QED
      BY <3>1, <3>2
  <2>5. Linked(q, B)
    BY <2>2, <2>3, <2>4 DEF Linked
  <2> QED
    BY <2>5 DEF q, B
<1> QED
  BY <1>6, <1>7

\* A reader reads the source that is there.
LEMMA LinkedReader ==
    ASSUME NEW r \in Registries, NEW A \in SUBSET Objects, Linked(r, A),
           NEW o \in Objects \ A, KindOf[o] \in Readers
    PROVE  Linked(RegisterReader(r, o), A \cup {o})
PROOF
<1> DEFINE q == RegisterReader(r, o)
           k == KindOf[o]
           B == A \cup {o}
           sources == ToSet(r.lists[SourceKind[k]])
<1>1. /\ ToSet(q.lists[k]) = ToSet(r.lists[k]) \cup {o}
      /\ \A l \in Kinds \ {k} : q.lists[l] = r.lists[l]
      /\ \A p \in Objects \ {o} : q.source[p] = r.source[p]
      /\ IF Has(r, SourceKind[k], NameOf[o])
         THEN /\ q.source[o] # NONE
              /\ q.source[o].object \in sources
              /\ NameOf[q.source[o].object] = NameOf[o]
         ELSE q.source[o] \in {NONE, r.source[o]}
  BY ReaderRegistered
<1>2. /\ k \in Kinds /\ k \notin SourceKinds /\ SourceKind[k] \in SourceKinds
      /\ SourceKinds \subseteq Kinds \ {k} /\ Readers \subseteq Kinds
  BY KindsAre DEF SourceKinds, Readers, Kinds
<1>3. /\ \A l \in Kinds \ {k} : B \cap OfKind(l) = A \cap OfKind(l)
      /\ B \cap OfKind(k) = (A \cap OfKind(k)) \cup {o}
  BY DEF OfKind
<1>4. \A p \in Objects : KindOf[p] \in Readers =>
                             B \cap SourcesOf(p) = A \cap SourcesOf(p)
  <2>1. \A l \in Readers : SourceKind[l] \in SourceKinds
    BY KindsAre DEF SourceKinds
  <2> QED
    BY <1>2, <2>1 DEF SourcesOf
<1> HIDE DEF q, B, sources
<1>5. \A l \in Readers : ToSet(q.lists[l]) = B \cap OfKind(l)
  <2> SUFFICES ASSUME NEW l \in Readers
               PROVE  ToSet(q.lists[l]) = B \cap OfKind(l)
    OBVIOUS
  <2>1. ToSet(r.lists[l]) = A \cap OfKind(l)
    BY DEF Linked
  <2> HIDE DEF k
  <2> QED
    BY <1>1, <1>2, <1>3, <2>1
<1>6. ASSUME NEW l \in SourceKinds
      PROVE  /\ ToSet(q.lists[l]) \subseteq B \cap OfKind(l)
             /\ \A p \in B \cap OfKind(l) : Has(q, l, NameOf[p])
  <2>1. /\ ToSet(r.lists[l]) \subseteq A \cap OfKind(l)
        /\ \A p \in A \cap OfKind(l) : Has(r, l, NameOf[p])
    BY DEF Linked
  <2>2. q.lists[l] = r.lists[l] /\ B \cap OfKind(l) = A \cap OfKind(l)
    BY <1>1, <1>2, <1>3
  <2> QED
    BY <2>1, <2>2 DEF Has
<1>7. ASSUME NEW p \in Objects
      PROVE  IF KindOf[p] \in Readers /\ p \in B /\ B \cap SourcesOf(p) # {}
             THEN /\ q.source[p] # NONE
                  /\ q.source[p].object \in B \cap SourcesOf(p)
             ELSE q.source[p] = NONE
  <2>1. CASE p # o
    <3>1. q.source[p] = r.source[p] /\ (p \in B <=> p \in A)
      BY <1>1, <2>1 DEF B
    <3> QED
      BY <1>4, <3>1 DEF Linked
  <2>2. CASE p = o
    <3>1. Has(r, SourceKind[k], NameOf[o]) <=> B \cap SourcesOf(o) # {}
      BY <1>4, LinkedHas
    <3>2. r.source[o] = NONE
      BY DEF Linked
    <3>3. sources \subseteq A \cap OfKind(SourceKind[k])
      BY <1>2 DEF Linked, sources
    <3>4. Has(r, SourceKind[k], NameOf[o])
          => q.source[o].object \in B \cap SourcesOf(o)
      BY <1>1, <3>3 DEF SourcesOf, OfKind, B
    <3>5. o \in B
      BY DEF B
    <3> QED
      BY <1>1, <2>2, <3>1, <3>2, <3>4, <3>5
  <2> QED
    BY <2>1, <2>2
<1>8. Linked(q, B)
  BY <1>5, <1>6, <1>7 DEF Linked
<1> QED
  BY <1>8 DEF q, B

\* The readers read from their sources, whatever is registered.
LEMMA LinkedRegister ==
    ASSUME NEW r \in Registries, NEW A \in SUBSET Objects, Linked(r, A),
           NEW o \in Objects \ A
    PROVE  Linked(registerObject(r, o), A \cup {o})
PROOF
<1> DEFINE B == A \cup {o}
           q == registerObject(r, o)
<1>1. CASE KindOf[o] \in {"send~", "delwrite~"}
  <2>1. q = RegisterSource(r, o) /\ KindOf[o] \in SourceKinds
    BY <1>1 DEF registerObject, Readers, SourceKinds
  <2> QED
    BY <2>1, LinkedSource
<1>2. CASE KindOf[o] = "table"
  <2> DEFINE p == Receiving(r, o)
  <2>1. q = RegisterSource(p, o) /\ KindOf[o] \in SourceKinds
    BY <1>2 DEF registerObject, Readers, SourceKinds
  <2>2. p \in Registries /\ p.lists = r.lists /\ p.source = r.source
    BY ReceivingIs
  <2> HIDE DEF p
  <2>3. Linked(p, A)
    BY <2>2, LinkedStays
  <2>4. Linked(RegisterSource(p, o), B)
    BY <2>1, <2>2, <2>3, LinkedSource
  <2> QED
    BY <2>1, <2>4
<1>3. CASE KindOf[o] \in Readers
  <2>1. q = RegisterReader(r, o)
    BY <1>3 DEF registerObject, Readers
  <2> QED
    BY <1>3, <2>1, LinkedReader
<1>4. CASE KindOf[o] \in {"catch~", "throw~", "receive"}
  <2>1. /\ B \subseteq Objects
        /\ \A p \in Objects :
               KindOf[p] \in Readers \cup SourceKinds => (p \in A <=> p \in B)
    BY <1>4 DEF Readers, SourceKinds
  <2>2. Readers \cup SourceKinds \subseteq Kinds \ {"catch~", "throw~"}
    BY DEF Readers, SourceKinds, Kinds
  <2>3. /\ \A l \in Readers \cup SourceKinds : q.lists[l] = r.lists[l]
        /\ q.source = r.source
    <3>1. CASE KindOf[o] = "catch~"
      <4>1. q = RegisterCatch(r, o)
        BY <3>1 DEF registerObject, Readers
      <4> HIDE DEF q
      <4> QED
        BY <2>2, <3>1, <4>1, CatchRegistered
    <3>2. CASE KindOf[o] = "throw~"
      <4>1. q = RegisterThrow(r, o)
        BY <3>2 DEF registerObject, Readers
      <4> HIDE DEF q
      <4> QED
        BY <2>2, <3>2, <4>1, ThrowRegistered
    <3>3. CASE KindOf[o] = "receive"
      <4>1. q = Receiving(r, o)
        BY <3>3 DEF registerObject, Readers
      <4> HIDE DEF q
      <4> QED
        BY <4>1, ReceivingIs
    <3> QED
      BY <1>4, <3>1, <3>2, <3>3
  <2> HIDE DEF q, B
  <2>4. Linked(q, B)
    BY <2>1, <2>3, LinkedStays
  <2> QED
    BY <2>4 DEF q, B
<1> QED
  BY <1>1, <1>2, <1>3, <1>4, KindsAre DEF Kinds

\* What is unregistered reads nothing, and nothing reads from a send~ that was
\* the only one of its name.
LEMMA LinkedUnregister ==
    ASSUME NEW r \in Registries, NEW A \in SUBSET Objects, Linked(r, A),
           NEW o \in Objects, KindOf[o] \in HaveCase,
           KindOf[o] = "send~" =>
               \A p \in A \cap OfKind("send~") : NameOf[p] = NameOf[o] => p = o
    PROVE  Linked(unregisterObject(r, o), A \ {o})
PROOF
<1> DEFINE q == unregisterObject(r, o)
           k == KindOf[o]
           B == A \ {o}
<1>1. /\ IF k \in {"send~", "receive~", "tabread"}
         THEN /\ ToSet(q.lists[k]) = ToSet(r.lists[k]) \ {o}
              /\ \A l \in Kinds \ {k} : q.lists[l] = r.lists[l]
         ELSE q.lists = r.lists
      /\ IF k = "send~"
         THEN \A p \in Objects :
                  q.source[p] = IF ReadsAs(r, p, o) THEN NONE ELSE r.source[p]
         ELSE IF k \in {"receive~", "tabread"}
         THEN /\ q.source[o] = NONE
              /\ \A p \in Objects \ {o} : q.source[p] = r.source[p]
         ELSE q.source = r.source
  BY UnregisteredIs
<1>2. /\ Readers \subseteq Kinds /\ SourceKinds \subseteq Kinds
      /\ "send~" \in SourceKinds \ Readers
      /\ {"receive~", "tabread"} \subseteq Readers \ SourceKinds
      /\ Readers \cap SourceKinds = {}
      /\ "receive" \notin Readers \cup SourceKinds
      /\ \A l \in Readers : SourceKind[l] \in SourceKinds
  BY KindsAre DEF Readers, SourceKinds, Kinds
<1>3. /\ \A l \in Kinds \ {k} : B \cap OfKind(l) = A \cap OfKind(l)
      /\ B \cap OfKind(k) = (A \cap OfKind(k)) \ {o}
  BY DEF OfKind
<1> HIDE DEF q
<1>4. CASE k = "receive"
  <2>1. /\ B \subseteq Objects
        /\ \A p \in Objects :
               KindOf[p] \in Readers \cup SourceKinds => (p \in A <=> p \in B)
    BY <1>2, <1>4
  <2>2. q.lists = r.lists /\ q.source = r.source
    BY <1>1, <1>4
  <2> HIDE DEF B, k
  <2>3. Linked(q, B)
    BY <2>1, <2>2, LinkedStays
  <2> QED
    BY <2>3 DEF q, B
<1>5. CASE k \in {"receive~", "tabread"}
  <2> HIDE DEF B
  <2>1. ASSUME NEW l \in Readers
        PROVE  ToSet(q.lists[l]) = B \cap OfKind(l)
    <3>1. ToSet(r.lists[l]) = A \cap OfKind(l) /\ l \in Kinds
      BY <1>2 DEF Linked
    <3> HIDE DEF k
    <3> QED
      BY <1>1, <1>3, <1>5, <3>1
  <2>2. ASSUME NEW l \in SourceKinds
        PROVE  /\ ToSet(q.lists[l]) \subseteq B \cap OfKind(l)
               /\ \A p \in B \cap OfKind(l) : Has(q, l, NameOf[p])
    <3>1. /\ ToSet(r.lists[l]) \subseteq A \cap OfKind(l)
          /\ \A p \in A \cap OfKind(l) : Has(r, l, NameOf[p])
      BY DEF Linked
    <3>2. l \in Kinds \ {k}
      BY <1>2, <1>5
    <3>3. q.lists[l] = r.lists[l] /\ B \cap OfKind(l) = A \cap OfKind(l)
      BY <1>1, <1>3, <1>5, <3>2
    <3> QED
      BY <3>1, <3>3 DEF Has
  <2>3. ASSUME NEW p \in Objects
        PROVE  IF KindOf[p] \in Readers /\ p \in B /\ B \cap SourcesOf(p) # {}
               THEN /\ q.source[p] # NONE
                    /\ q.source[p].object \in B \cap SourcesOf(p)
               ELSE q.source[p] = NONE
    <3>1. KindOf[p] \in Readers => B \cap SourcesOf(p) = A \cap SourcesOf(p)
      BY <1>2, <1>5 DEF SourcesOf, B
    <3>2. CASE p = o
      BY <1>1, <1>5, <3>2 DEF B
    <3>3. CASE p # o
      <4>1. q.source[p] = r.source[p] /\ (p \in B <=> p \in A)
        BY <1>1, <1>2, <1>5, <3>3 DEF B
      <4> QED
        BY <3>1, <4>1 DEF Linked
    <3> QED
      BY <3>2, <3>3
  <2>4. Linked(q, B)
    BY <2>1, <2>2, <2>3 DEF Linked
  <2> QED
    BY <2>4 DEF q, B
<1>6. CASE k = "send~"
  <2>1. \A p \in A \cap OfKind("send~") : NameOf[p] = NameOf[o] => p = o
    BY <1>6
  <2> HIDE DEF B
  <2>2. ASSUME NEW l \in Readers
        PROVE  ToSet(q.lists[l]) = B \cap OfKind(l)
    <3>1. ToSet(r.lists[l]) = A \cap OfKind(l) /\ l \in Kinds \ {k}
      BY <1>2, <1>6 DEF Linked
    <3>2. q.lists[l] = r.lists[l]
      BY <1>1, <1>6, <3>1
    <3> QED
      BY <1>3, <3>1, <3>2
  <2>3. ASSUME NEW l \in SourceKinds
        PROVE  /\ ToSet(q.lists[l]) \subseteq B \cap OfKind(l)
               /\ \A p \in B \cap OfKind(l) : Has(q, l, NameOf[p])
    <3>1. /\ ToSet(r.lists[l]) \subseteq A \cap OfKind(l)
          /\ \A p \in A \cap OfKind(l) : Has(r, l, NameOf[p])
      BY DEF Linked
    <3>2. CASE l = k
      <4>1. ToSet(q.lists[l]) = ToSet(r.lists[l]) \ {o}
        BY <1>1, <1>6, <3>2
      <4>2. ASSUME NEW p \in B \cap OfKind(l)
            PROVE  Has(q, l, NameOf[p])
        <5>1. p \in A \cap OfKind(l) /\ p # o
          BY DEF B
        <5>2. PICK t \in ToSet(r.lists[l]) : NameOf[t] = NameOf[p]
          BY <3>1, <5>1 DEF Has
        <5>3. t # o
          BY <1>6, <2>1, <3>2, <5>1, <5>2
        <5> QED
          BY <4>1, <5>2, <5>3 DEF Has
      <4> QED
        BY <1>3, <3>1, <3>2, <4>1, <4>2
    <3>3. CASE l # k
      <4>1. l \in Kinds \ {k}
        BY <1>2, <3>3
      <4>2. q.lists[l] = r.lists[l] /\ B \cap OfKind(l) = A \cap OfKind(l)
        BY <1>1, <1>3, <1>6, <4>1
      <4> QED
        BY <3>1, <4>2 DEF Has
    <3> QED
      BY <3>2, <3>3
  <2>4. ASSUME NEW p \in Objects
        PROVE  IF KindOf[p] \in Readers /\ p \in B /\ B \cap SourcesOf(p) # {}
               THEN /\ q.source[p] # NONE
                    /\ q.source[p].object \in B \cap SourcesOf(p)
               ELSE q.source[p] = NONE
    <3>1. q.source[p] = IF ReadsAs(r, p, o) THEN NONE ELSE r.source[p]
      BY <1>1, <1>6
    <3>2. CASE KindOf[p] \notin Readers
      BY <3>1, <3>2 DEF Linked
    <3>3. CASE KindOf[p] \in Readers
      <4>1. p \in B <=> p \in A
        BY <1>2, <1>6, <3>3 DEF B
      <4>2. ReadsAs(r, p, o) <=> o \in SourcesOf(p) /\ p \in A
        <5>1. ToSet(r.lists[KindOf[p]]) = A \cap OfKind(KindOf[p])
          BY <3>3 DEF Linked
        <5> QED
          BY <3>3, <5>1 DEF ReadsAs, OfKind
      <4>3. IF p \in A /\ A \cap SourcesOf(p) # {}
            THEN /\ r.source[p] # NONE
                 /\ r.source[p].object \in A \cap SourcesOf(p)
            ELSE r.source[p] = NONE
        BY <3>3 DEF Linked
      <4>4. CASE o \in SourcesOf(p)
        <5>1. B \cap SourcesOf(p) = {}
          BY <1>6, <2>1, <4>4 DEF SourcesOf, OfKind, B
        <5> QED
          BY <3>1, <4>2, <4>3, <4>4, <5>1
      <4>5. CASE o \notin SourcesOf(p)
        <5>1. B \cap SourcesOf(p) = A \cap SourcesOf(p)
          BY <4>5 DEF B
        <5> QED
          BY <3>1, <3>3, <4>1, <4>2, <4>3, <4>5, <5>1
      <4> QED
        BY <4>4, <4>5
    <3> QED
      BY <3>2, <3>3
  <2>5. Linked(q, B)
    BY <2>2, <2>3, <2>4 DEF Linked
  <2> QED
    BY <2>5 DEF q, B
<1> QED
  BY <1>4, <1>5, <1>6 DEF HaveCase

\* A list has what is at its places.
LEMMA ListIs ==
    ASSUME NEW list \in Seq(Objects)
    PROVE  /\ Len(list) \in Nat
           /\ ToSet(list) = {list[i] : i \in 1 .. Len(list)}
           /\ \A n \in 1 .. Len(list) : list[n] \in ToSet(list) \cap Objects
           /\ IsInjective(list) =>
                  \A i, j \in 1 .. Len(list) : list[i] = list[j] => i = j
PROOF
<1>1. /\ Len(list) \in Nat /\ DOMAIN list = 1 .. Len(list)
      /\ \A n \in 1 .. Len(list) : list[n] \in Objects
  BY LenProperties, ElementOfSeq
<1> QED
  BY <1>1 DEF ToSet, IsInjective

\* Registries are left by as many calls as one likes.
LEMMA AllTyped ==
    ASSUME NEW r \in Registries, NEW list \in Seq(Objects)
    PROVE  /\ registerAll(r, list) \in Registries
           /\ unregisterAll(r, list) \in Registries
PROOF
<1> DEFINE L == Len(list)
<1>1. L \in Nat /\ \A n \in 1 .. L : list[n] \in Objects
  BY ListIs
<1>2. registerAll(r, list) \in Registries
  <2>1. PICK after : RegisteredInTurn(after, r, list)
    BY AllRegistered
  <2> DEFINE T == {n \in 0 .. L : after[n] \in Registries}
  <2>2. 0 \in T
    BY <1>1, <2>1 DEF RegisteredInTurn
  <2>3. ASSUME NEW n \in 0 + 1 .. L, n - 1 \in T
        PROVE  n \in T
    <3>1. after[n] = registerObject(after[n - 1], list[n])
      BY <2>1 DEF RegisteredInTurn
    <3>2. after[n - 1] \in Registries /\ list[n] \in Objects
      BY <1>1, <2>3
    <3>3. after[n] \in Registries
      BY <3>1, <3>2, RegisterTyped
    <3> QED
      BY <3>3
  <2> HIDE DEF T
  <2>4. 0 .. L \subseteq T
    BY <1>1, <2>2, <2>3, UpTo
  <2>5. L \in T
    BY <1>1, <2>4
  <2> QED
    BY <2>1, <2>5 DEF T, RegisteredInTurn
<1>3. unregisterAll(r, list) \in Registries
  <2>1. PICK after : UnregisteredInTurn(after, r, list)
    BY AllUnregistered
  <2> DEFINE T == {n \in 0 .. L : after[n] \in Registries}
  <2>2. 0 \in T
    BY <1>1, <2>1 DEF UnregisteredInTurn
  <2>3. ASSUME NEW n \in 0 + 1 .. L, n - 1 \in T
        PROVE  n \in T
    <3>1. after[n] = unregisterObject(after[n - 1], list[n])
      BY <2>1 DEF UnregisteredInTurn
    <3>2. after[n - 1] \in Registries /\ list[n] \in Objects
      BY <1>1, <2>3
    <3>3. after[n] \in Registries
      BY <3>1, <3>2, UnregisteredIs
    <3> QED
      BY <3>3
  <2> HIDE DEF T
  <2>4. 0 .. L \subseteq T
    BY <1>1, <2>2, <2>3, UpTo
  <2>5. L \in T
    BY <1>1, <2>4
  <2> QED
    BY <2>1, <2>5 DEF T, UnregisteredInTurn
<1> QED
  BY <1>2, <1>3

-----------------------------------------------------------------------------
(* What holds for one object holds for the objects of a graph in turn.     *)

\* Nothing that is kept is gone, whatever is attached and unattached.
LEMMA KeptAll ==
    ASSUME NEW r \in Registries, NEW gone, Kept(r, gone),
           NEW list \in Seq(Objects)
    PROVE  /\ ToSet(list) \cap gone = {} =>
                  /\ registerAll(r, list) \in Registries
                  /\ Kept(registerAll(r, list), gone)
           /\ unregisterAll(r, list) \in Registries
           /\ Kept(unregisterAll(r, list), gone)
PROOF
<1> DEFINE L == Len(list)
<1>1. /\ L \in Nat
      /\ \A n \in 1 .. L : list[n] \in ToSet(list) \cap Objects
  BY ListIs
<1>2. ASSUME ToSet(list) \cap gone = {}
      PROVE  /\ registerAll(r, list) \in Registries
             /\ Kept(registerAll(r, list), gone)
  <2>1. PICK after : RegisteredInTurn(after, r, list)
    BY AllRegistered
  <2> DEFINE T == {n \in 0 .. L : after[n] \in Registries /\ Kept(after[n], gone)}
  <2>2. 0 \in T
    BY <1>1, <2>1 DEF RegisteredInTurn
  <2>3. ASSUME NEW n \in 0 + 1 .. L, n - 1 \in T
        PROVE  n \in T
    <3>1. after[n] = registerObject(after[n - 1], list[n])
      BY <2>1 DEF RegisteredInTurn
    <3>2. list[n] \in Objects \ gone
      BY <1>1, <1>2
    <3>3. after[n - 1] \in Registries /\ Kept(after[n - 1], gone)
      BY <2>3
    <3>4. after[n] \in Registries /\ Kept(after[n], gone)
      BY <3>1, <3>2, <3>3, KeptRegister
    <3> QED
      BY <3>4
  <2> HIDE DEF T
  <2>4. 0 .. L \subseteq T
    BY <1>1, <2>2, <2>3, UpTo
  <2>5. L \in T
    BY <1>1, <2>4
  <2> QED
    BY <2>1, <2>5 DEF T, RegisteredInTurn
<1>3. unregisterAll(r, list) \in Registries /\ Kept(unregisterAll(r, list), gone)
  <2>1. PICK after : UnregisteredInTurn(after, r, list)
    BY AllUnregistered
  <2> DEFINE T == {n \in 0 .. L : after[n] \in Registries /\ Kept(after[n], gone)}
  <2>2. 0 \in T
    BY <1>1, <2>1 DEF UnregisteredInTurn
  <2>3. ASSUME NEW n \in 0 + 1 .. L, n - 1 \in T
        PROVE  n \in T
    <3>1. after[n] = unregisterObject(after[n - 1], list[n])
      BY <2>1 DEF UnregisteredInTurn
    <3>2. list[n] \in Objects
      BY <1>1
    <3>3. after[n - 1] \in Registries /\ Kept(after[n - 1], gone)
      BY <2>3
    <3>4. after[n] \in Registries /\ Kept(after[n], gone)
      BY <3>1, <3>2, <3>3, KeptUnregister
    <3> QED
      BY <3>4
  <2> HIDE DEF T
  <2>4. 0 .. L \subseteq T
    BY <1>1, <2>2, <2>3, UpTo
  <2>5. L \in T
    BY <1>1, <2>4
  <2> QED
    BY <2>1, <2>5 DEF T, UnregisteredInTurn
<1> QED
  BY <1>2, <1>3

\* The objects of a list up to a place.
UpToPlace(list, n) == {list[i] : i \in 1 .. n}

\* The buses reach all of a graph that is attached.
LEMMA ReachedRegisteredAll ==
    ASSUME NEW r \in Registries, NEW A \in SUBSET Objects, Reached(r, A),
           NEW list \in Seq(Objects),
           IsInjective(list), ToSet(list) \cap A = {}
    PROVE  Reached(registerAll(r, list), A \cup ToSet(list))
PROOF
<1> DEFINE L == Len(list)
           In(n) == A \cup UpToPlace(list, n)
<1>1. /\ L \in Nat
      /\ ToSet(list) = UpToPlace(list, L)
      /\ \A n \in 1 .. L : list[n] \in ToSet(list) \cap Objects
  BY ListIs DEF UpToPlace
<1>2. \A i, j \in 1 .. L : list[i] = list[j] => i = j
  BY ListIs
<1>3. PICK after : RegisteredInTurn(after, r, list)
  BY AllRegistered
<1> DEFINE T == {n \in 0 .. L : /\ after[n] \in Registries
                                /\ Reached(after[n], In(n))}
<1>4. 0 \in T
  <2>1. In(0) = A /\ after[0] = r
    BY <1>3 DEF RegisteredInTurn, UpToPlace
  <2> HIDE DEF In
  <2> QED
    BY <1>1, <2>1
<1>5. ASSUME NEW n \in 0 + 1 .. L, n - 1 \in T
      PROVE  n \in T
  <2>1. after[n] = registerObject(after[n - 1], list[n])
    BY <1>3 DEF RegisteredInTurn
  <2>2. /\ In(n) = In(n - 1) \cup {list[n]}
        /\ In(n - 1) \subseteq Objects
    <3>1. UpToPlace(list, n) = UpToPlace(list, n - 1) \cup {list[n]}
      BY <1>1 DEF UpToPlace
    <3>2. UpToPlace(list, n - 1) \subseteq Objects
      BY <1>1 DEF UpToPlace
    <3> QED
      BY <3>1, <3>2
  <2>3. after[n - 1] \in Registries /\ Reached(after[n - 1], In(n - 1))
    BY <1>5
  <2>4. list[n] \in Objects \ (A \cup UpToPlace(list, n - 1))
    BY <1>1, <1>2 DEF UpToPlace
  <2>5. list[n] \in Objects
    BY <1>1
  <2>6. Reached(after[n], In(n - 1) \cup {list[n]})
    <3> DEFINE C == In(n - 1)
               q == after[n - 1]
               o == list[n]
    <3>1. q \in Registries /\ C \in SUBSET Objects /\ Reached(q, C)
      BY <2>2, <2>3
    <3>2. o \in Objects \ C
      BY <2>4
    <3> HIDE DEF C, q, o
    <3>4. Reached(registerObject(q, o), C \cup {o})
      BY <3>1, <3>2, ReachedRegister
    <3> QED
      BY <2>1, <3>4 DEF C, q, o
  <2>7. after[n] \in Registries
    BY <2>1, <2>3, <2>5, RegisterTyped
  <2>8. n \in 0 .. L /\ Reached(after[n], In(n))
    <3> HIDE DEF In, L
    <3> QED
      BY <1>1, <1>5, <2>2, <2>6
  <2> QED
    BY <2>7, <2>8
<1> HIDE DEF T
<1>6. 0 .. L \subseteq T
  BY <1>1, <1>4, <1>5, UpTo
<1>7. L \in T
  BY <1>1, <1>6
<1> QED
  BY <1>1, <1>3, <1>7 DEF T, RegisteredInTurn

\* The buses lose all of a graph that is unattached.
LEMMA ReachedUnregisteredAll ==
    ASSUME NEW r \in Registries, NEW A \in SUBSET Objects, Reached(r, A),
           NEW list \in Seq(Objects),
           \A o \in ToSet(list) : KindOf[o] \in HaveCase
    PROVE  Reached(unregisterAll(r, list), A \ ToSet(list))
PROOF
<1> DEFINE L == Len(list)
           In(n) == A \ UpToPlace(list, n)
<1>1. /\ L \in Nat
      /\ ToSet(list) = UpToPlace(list, L)
      /\ \A n \in 1 .. L : list[n] \in ToSet(list) \cap Objects
  BY ListIs DEF UpToPlace
<1>3. PICK after : UnregisteredInTurn(after, r, list)
  BY AllUnregistered
<1> DEFINE T == {n \in 0 .. L : /\ after[n] \in Registries
                                /\ Reached(after[n], In(n))}
<1>4. 0 \in T
  <2>1. In(0) = A /\ after[0] = r
    BY <1>3 DEF UnregisteredInTurn, UpToPlace
  <2> HIDE DEF In
  <2> QED
    BY <1>1, <2>1
<1>5. ASSUME NEW n \in 0 + 1 .. L, n - 1 \in T
      PROVE  n \in T
  <2>1. after[n] = unregisterObject(after[n - 1], list[n])
    BY <1>3 DEF UnregisteredInTurn
  <2>2. /\ In(n) = In(n - 1) \ {list[n]}
        /\ In(n - 1) \subseteq Objects
    <3>1. UpToPlace(list, n) = UpToPlace(list, n - 1) \cup {list[n]}
      BY <1>1 DEF UpToPlace
    <3>2. UpToPlace(list, n - 1) \subseteq Objects
      BY <1>1 DEF UpToPlace
    <3> QED
      BY <3>1, <3>2
  <2>3. after[n - 1] \in Registries /\ Reached(after[n - 1], In(n - 1))
    BY <1>5
  <2>4. KindOf[list[n]] \in HaveCase
    BY <1>1
  <2>5. list[n] \in Objects
    BY <1>1
  <2>6. Reached(after[n], In(n - 1) \ {list[n]})
    <3> DEFINE C == In(n - 1)
               q == after[n - 1]
               o == list[n]
    <3>1. q \in Registries /\ C \in SUBSET Objects /\ Reached(q, C)
      BY <2>2, <2>3
    <3>2. o \in Objects /\ KindOf[o] \in HaveCase
      BY <2>4, <2>5
    <3> HIDE DEF C, q, o
    <3>4. Reached(unregisterObject(q, o), C \ {o})
      BY <3>1, <3>2, ReachedUnregister
    <3> QED
      BY <2>1, <3>4 DEF C, q, o
  <2>7. after[n] \in Registries
    BY <2>1, <2>3, <2>5, UnregisteredIs
  <2>8. n \in 0 .. L /\ Reached(after[n], In(n))
    <3> HIDE DEF In, L
    <3> QED
      BY <1>1, <1>5, <2>2, <2>6
  <2> QED
    BY <2>7, <2>8
<1> HIDE DEF T
<1>6. 0 .. L \subseteq T
  BY <1>1, <1>4, <1>5, UpTo
<1>7. L \in T
  BY <1>1, <1>6
<1> QED
  BY <1>1, <1>3, <1>7 DEF T, UnregisteredInTurn

\* The readers of a graph that is attached read what is there.
LEMMA LinkedRegisteredAll ==
    ASSUME NEW r \in Registries, NEW A \in SUBSET Objects, Linked(r, A),
           NEW list \in Seq(Objects),
           IsInjective(list), ToSet(list) \cap A = {}
    PROVE  Linked(registerAll(r, list), A \cup ToSet(list))
PROOF
<1> DEFINE L == Len(list)
           In(n) == A \cup UpToPlace(list, n)
<1>1. /\ L \in Nat
      /\ ToSet(list) = UpToPlace(list, L)
      /\ \A n \in 1 .. L : list[n] \in ToSet(list) \cap Objects
  BY ListIs DEF UpToPlace
<1>2. \A i, j \in 1 .. L : list[i] = list[j] => i = j
  BY ListIs
<1>3. PICK after : RegisteredInTurn(after, r, list)
  BY AllRegistered
<1> DEFINE T == {n \in 0 .. L : /\ after[n] \in Registries
                                /\ Linked(after[n], In(n))}
<1>4. 0 \in T
  <2>1. In(0) = A /\ after[0] = r
    BY <1>3 DEF RegisteredInTurn, UpToPlace
  <2> HIDE DEF In
  <2> QED
    BY <1>1, <2>1
<1>5. ASSUME NEW n \in 0 + 1 .. L, n - 1 \in T
      PROVE  n \in T
  <2>1. after[n] = registerObject(after[n - 1], list[n])
    BY <1>3 DEF RegisteredInTurn
  <2>2. /\ In(n) = In(n - 1) \cup {list[n]}
        /\ In(n - 1) \subseteq Objects
    <3>1. UpToPlace(list, n) = UpToPlace(list, n - 1) \cup {list[n]}
      BY <1>1 DEF UpToPlace
    <3>2. UpToPlace(list, n - 1) \subseteq Objects
      BY <1>1 DEF UpToPlace
    <3> QED
      BY <3>1, <3>2
  <2>3. after[n - 1] \in Registries /\ Linked(after[n - 1], In(n - 1))
    BY <1>5
  <2>4. list[n] \in Objects \ (A \cup UpToPlace(list, n - 1))
    BY <1>1, <1>2 DEF UpToPlace
  <2>5. list[n] \in Objects
    BY <1>1
  <2>6. Linked(after[n], In(n - 1) \cup {list[n]})
    <3> DEFINE C == In(n - 1)
               q == after[n - 1]
               o == list[n]
    <3>1. q \in Registries /\ C \in SUBSET Objects /\ Linked(q, C)
      BY <2>2, <2>3
    <3>2. o \in Objects \ C
      BY <2>4
    <3> HIDE DEF C, q, o
    <3>4. Linked(registerObject(q, o), C \cup {o})
      BY <3>1, <3>2, LinkedRegister
    <3> QED
      BY <2>1, <3>4 DEF C, q, o
  <2>7. after[n] \in Registries
    BY <2>1, <2>3, <2>5, RegisterTyped
  <2>8. n \in 0 .. L /\ Linked(after[n], In(n))
    <3> HIDE DEF In, L
    <3> QED
      BY <1>1, <1>5, <2>2, <2>6
  <2> QED
    BY <2>7, <2>8
<1> HIDE DEF T
<1>6. 0 .. L \subseteq T
  BY <1>1, <1>4, <1>5, UpTo
<1>7. L \in T
  BY <1>1, <1>6
<1> QED
  BY <1>1, <1>3, <1>7 DEF T, RegisteredInTurn

\* The readers of a graph that is unattached read nothing, and nothing reads from
\* it.
LEMMA LinkedUnregisteredAll ==
    ASSUME NEW r \in Registries, NEW A \in SUBSET Objects, Linked(r, A),
           NEW list \in Seq(Objects),
           \A o \in ToSet(list) : KindOf[o] \in HaveCase,
           \A o \in ToSet(list) : KindOf[o] = "send~" =>
               \A p \in A \cap OfKind("send~") : NameOf[p] = NameOf[o] => p = o
    PROVE  Linked(unregisterAll(r, list), A \ ToSet(list))
PROOF
<1> DEFINE L == Len(list)
           In(n) == A \ UpToPlace(list, n)
<1>1. /\ L \in Nat
      /\ ToSet(list) = UpToPlace(list, L)
      /\ \A n \in 1 .. L : list[n] \in ToSet(list) \cap Objects
  BY ListIs DEF UpToPlace
<1>3. PICK after : UnregisteredInTurn(after, r, list)
  BY AllUnregistered
<1> DEFINE T == {n \in 0 .. L : /\ after[n] \in Registries
                                /\ Linked(after[n], In(n))}
<1>4. 0 \in T
  <2>1. In(0) = A /\ after[0] = r
    BY <1>3 DEF UnregisteredInTurn, UpToPlace
  <2> HIDE DEF In
  <2> QED
    BY <1>1, <2>1
<1>5. ASSUME NEW n \in 0 + 1 .. L, n - 1 \in T
      PROVE  n \in T
  <2>1. after[n] = unregisterObject(after[n - 1], list[n])
    BY <1>3 DEF UnregisteredInTurn
  <2>2. /\ In(n) = In(n - 1) \ {list[n]}
        /\ In(n - 1) \subseteq Objects
    <3>1. UpToPlace(list, n) = UpToPlace(list, n - 1) \cup {list[n]}
      BY <1>1 DEF UpToPlace
    <3>2. UpToPlace(list, n - 1) \subseteq Objects
      BY <1>1 DEF UpToPlace
    <3> QED
      BY <3>1, <3>2
  <2>3. after[n - 1] \in Registries /\ Linked(after[n - 1], In(n - 1))
    BY <1>5
  <2>4. /\ KindOf[list[n]] \in HaveCase
        /\ KindOf[list[n]] = "send~" =>
               \A p \in (A \ UpToPlace(list, n - 1)) \cap OfKind("send~") :
                   NameOf[p] = NameOf[list[n]] => p = list[n]
    BY <1>1
  <2>5. list[n] \in Objects
    BY <1>1
  <2>6. Linked(after[n], In(n - 1) \ {list[n]})
    <3> DEFINE C == In(n - 1)
               q == after[n - 1]
               o == list[n]
    <3>1. q \in Registries /\ C \in SUBSET Objects /\ Linked(q, C)
      BY <2>2, <2>3
    <3>2. o \in Objects /\ KindOf[o] \in HaveCase
      BY <2>4, <2>5
    <3>3. KindOf[o] = "send~" =>
              \A p \in C \cap OfKind("send~") : NameOf[p] = NameOf[o] => p = o
      BY <2>4
    <3> HIDE DEF C, q, o
    <3>4. Linked(unregisterObject(q, o), C \ {o})
      BY <3>1, <3>2, <3>3, LinkedUnregister
    <3> QED
      BY <2>1, <3>4 DEF C, q, o
  <2>7. after[n] \in Registries
    BY <2>1, <2>3, <2>5, UnregisteredIs
  <2>8. n \in 0 .. L /\ Linked(after[n], In(n))
    <3> HIDE DEF In, L
    <3> QED
      BY <1>1, <1>5, <2>2, <2>6
  <2> QED
    BY <2>7, <2>8
<1> HIDE DEF T
<1>6. 0 .. L \subseteq T
  BY <1>1, <1>4, <1>5, UpTo
<1>7. L \in T
  BY <1>1, <1>6
<1> QED
  BY <1>1, <1>3, <1>7 DEF T, UnregisteredInTurn

-----------------------------------------------------------------------------
(* The steps, by what they register and unregister.                        *)

\* The list of a graph has its objects.
LEMMA ListsAre ==
    ASSUME Typed
    PROVE  /\ patch \subseteq Objects
           /\ Attached \subseteq patch \ deleted
           /\ \A o \in Objects :
                  /\ GraphOf[o] \in Graphs
                  /\ Contains(nodeList[GraphOf[o]], o) <=>
                         o \in ToSet(nodeList[GraphOf[o]])
PROOF
<1>1. patch \subseteq Objects /\ \A o \in Objects : GraphOf[o] \in Graphs
  BY RegistryAssumption DEF Typed
<1>2. \A g \in Graphs : ToSet(nodeList[g]) \subseteq patch \ deleted
  BY DEF Typed
<1>3. ASSUME NEW o \in Objects
      PROVE  Contains(nodeList[GraphOf[o]], o) <=>
                 o \in ToSet(nodeList[GraphOf[o]])
  <2> DEFINE list == nodeList[GraphOf[o]]
  <2>1. list \in Seq(Objects)
    BY <1>1 DEF Typed
  <2> HIDE DEF list
  <2>2. DOMAIN list = 1 .. Len(list)
    BY <2>1, LenProperties
  <2>3. Contains(list, o) <=> o \in ToSet(list)
    BY <2>2 DEF Contains, ToSet
  <2> QED
    BY <2>3 DEF list
<1> QED
  BY <1>1, <1>2, <1>3 DEF Attached

\* What a step does to the registries and to what is attached.
Registers(o) ==
    /\ o \in patch \ (Attached \cup deleted)
    /\ registry' = registerObject(registry, o)
    /\ Attached' = Attached \cup {o}
    /\ deleted' = deleted

Unregisters(o) ==
    /\ o \in patch \cap Removable
    /\ registry' = unregisterObject(registry, o)
    /\ Attached' = Attached \ {o}
    /\ deleted' = deleted \cup {o}

RegistersAll(list) ==
    /\ list \in Seq(Objects) /\ IsInjective(list)
    /\ ToSet(list) \subseteq patch \ (Attached \cup deleted)
    /\ registry' = registerAll(registry, list)
    /\ Attached' = Attached \cup ToSet(list)
    /\ deleted' = deleted

UnregistersAll(list) ==
    /\ list \in Seq(Objects)
    /\ ToSet(list) \subseteq patch \cap Leavers
    /\ registry' = unregisterAll(registry, list)
    /\ Attached' = Attached \ ToSet(list)
    /\ deleted' = deleted

Steps ==
    \/ registry' = registry /\ Attached' = Attached /\ deleted' = deleted
    \/ \E o \in Objects : Registers(o) \/ Unregisters(o)
    \/ \E list : RegistersAll(list) \/ UnregistersAll(list)

\* An object that is added to an attached graph is registered.
LEMMA AddSteps ==
    ASSUME Typed, NEW o \in Objects, addObject(o)
    PROVE  Typed' /\ Steps
PROOF
<1> DEFINE g == GraphOf[o]
           list == Append(nodeList[g], o)
<1>1. /\ g \in Graphs /\ o \in patch \ deleted
      /\ o \notin ToSet(nodeList[g])
      /\ nodeList' = [nodeList EXCEPT ![g] = list]
      /\ registry' = IF g \in isAttachedToContext
                     THEN registerObject(registry, o) ELSE registry
      /\ UNCHANGED <<patch, isAttachedToContext, attaches, deleted>>
  BY ListsAre DEF addObject
<1>2. /\ list \in Seq(Objects)
      /\ ToSet(list) = ToSet(nodeList[g]) \cup {o}
      /\ IsInjective(list)
  <2>1. nodeList[g] \in Seq(Objects) /\ IsInjective(nodeList[g])
    BY <1>1 DEF Typed
  <2> HIDE DEF g
  <2> QED
    BY <1>1, <2>1, ToSetAppend
<1> HIDE DEF list
<1>3. /\ nodeList' \in [Graphs -> Seq(Objects)]
      /\ nodeList'[g] = list
      /\ \A h \in Graphs \ {g} : nodeList'[h] = nodeList[h]
  BY <1>1, <1>2 DEF Typed
<1>4. ASSUME NEW h \in Graphs
      PROVE  /\ ToSet(nodeList'[h]) \subseteq
                    {p \in patch \ deleted : GraphOf[p] = h}
             /\ IsInjective(nodeList'[h])
  <2>1. /\ ToSet(nodeList[h]) \subseteq {p \in patch \ deleted : GraphOf[p] = h}
        /\ IsInjective(nodeList[h])
    BY DEF Typed
  <2>2. CASE h = g
    BY <1>1, <1>2, <1>3, <2>1, <2>2
  <2>3. CASE h # g
    BY <1>3, <2>1, <2>3
  <2> QED
    BY <2>2, <2>3
<1>5. registry' \in Registries
  BY <1>1, RegisterTyped DEF Typed
<1>6. Typed'
  BY <1>1, <1>3, <1>4, <1>5 DEF Typed
<1>7. ASSUME NEW p \in Objects
      PROVE  p \in Attached' <=>
                 p \in Attached \/ (p = o /\ g \in isAttachedToContext)
  <2>1. GraphOf[p] \in Graphs /\ GraphOf'[p] = GraphOf[p]
    BY ListsAre
  <2>2. p \in ToSet(nodeList'[GraphOf[p]]) <=>
            p \in ToSet(nodeList[GraphOf[p]]) \/ p = o
    <3>1. CASE GraphOf[p] = g
      BY <1>2, <1>3, <3>1
    <3>2. CASE GraphOf[p] # g
      BY <1>3, <2>1, <3>2
    <3> QED
      BY <3>1, <3>2
  <2> QED
    BY <1>1, <2>1, <2>2 DEF Attached
<1>8. Attached \subseteq Objects /\ Attached' \subseteq Objects
  BY DEF Attached
<1>9. o \notin Attached
  BY <1>1 DEF Attached
<1>10. CASE g \in isAttachedToContext
  <2>1. Attached' = Attached \cup {o}
    BY <1>7, <1>8, <1>10
  <2>2. Registers(o)
    BY <1>1, <1>9, <1>10, <2>1 DEF Registers
  <2> QED
    BY <1>6, <2>2 DEF Steps
<1>11. CASE g \notin isAttachedToContext
  <2>1. Attached' = Attached
    BY <1>7, <1>8, <1>11
  <2> QED
    BY <1>1, <1>6, <1>11, <2>1 DEF Steps
<1> QED
  BY <1>10, <1>11

\* An object that is removed is unregistered.
LEMMA RemoveSteps ==
    ASSUME Typed, NEW o \in Objects, removeObject(o)
    PROVE  Typed' /\ Steps
PROOF
<1> DEFINE g == GraphOf[o]
           S == Objects \ {o}
           list == Those(nodeList[g], S)
<1>1. /\ g \in Graphs /\ o \in Removable
      /\ o \in ToSet(nodeList[g])
      /\ nodeList' = [nodeList EXCEPT ![g] = list]
      /\ registry' = unregisterObject(registry, o)
      /\ deleted' = deleted \cup {o}
      /\ UNCHANGED <<patch, isAttachedToContext, attaches>>
  BY ListsAre DEF removeObject
<1>2. /\ list \in Seq(Objects)
      /\ ToSet(list) = ToSet(nodeList[g]) \cap S
      /\ IsInjective(list)
  <2>1. nodeList[g] \in Seq(Objects) /\ IsInjective(nodeList[g])
    BY <1>1 DEF Typed
  <2> HIDE DEF g, S
  <2> QED
    BY <2>1, ThoseAreThose
<1> HIDE DEF list
<1>3. /\ nodeList' \in [Graphs -> Seq(Objects)]
      /\ nodeList'[g] = list
      /\ \A h \in Graphs \ {g} : nodeList'[h] = nodeList[h]
  BY <1>1, <1>2 DEF Typed
<1>4. ASSUME NEW h \in Graphs
      PROVE  /\ ToSet(nodeList'[h]) \subseteq
                    {p \in patch \ (deleted \cup {o}) : GraphOf[p] = h}
             /\ IsInjective(nodeList'[h])
  <2>1. /\ ToSet(nodeList[h]) \subseteq {p \in patch \ deleted : GraphOf[p] = h}
        /\ IsInjective(nodeList[h])
    BY DEF Typed
  <2>2. CASE h = g
    BY <1>2, <1>3, <2>1, <2>2
  <2>3. CASE h # g
    BY <1>3, <2>1, <2>3
  <2> QED
    BY <2>2, <2>3
<1>5. registry' \in Registries
  BY <1>1, UnregisteredIs DEF Typed
<1>6. Typed'
  BY <1>1, <1>3, <1>4, <1>5 DEF Typed
<1>7. ASSUME NEW p \in Objects
      PROVE  p \in Attached' <=> p \in Attached /\ p # o
  <2>1. GraphOf[p] \in Graphs /\ GraphOf'[p] = GraphOf[p]
    BY ListsAre
  <2>2. p \in ToSet(nodeList'[GraphOf[p]]) <=>
            p \in ToSet(nodeList[GraphOf[p]]) /\ p # o
    <3>1. CASE GraphOf[p] = g
      BY <1>2, <1>3, <3>1
    <3>2. CASE GraphOf[p] # g
      BY <1>3, <2>1, <3>2
    <3> QED
      BY <3>1, <3>2
  <2> QED
    BY <1>1, <2>1, <2>2 DEF Attached
<1>8. Attached \subseteq Objects /\ Attached' \subseteq Objects
  BY DEF Attached
<1>9. Attached' = Attached \ {o}
  BY <1>7, <1>8
<1>10. o \in patch
  BY <1>1 DEF Typed
<1> QED
  BY <1>1, <1>6, <1>9, <1>10 DEF Steps, Unregisters

\* A graph that is attached is registered, object for object.
LEMMA AttachSteps ==
    ASSUME Typed, NEW g \in Graphs, attachGraph(g)
    PROVE  Typed' /\ Steps
PROOF
<1> DEFINE list == nodeList[g]
<1>1. /\ g \notin isAttachedToContext
      /\ isAttachedToContext' = isAttachedToContext \cup {g}
      /\ registry' = registerAll(registry, list)
      /\ UNCHANGED <<patch, nodeList, deleted>>
  BY DEF attachGraph
<1>2. /\ list \in Seq(Objects) /\ IsInjective(list)
      /\ ToSet(list) \subseteq {p \in patch \ deleted : GraphOf[p] = g}
  BY DEF Typed
<1>3. ToSet(list) \cap Attached = {}
  BY <1>1, <1>2 DEF Attached
<1>4. registry' \in Registries
  BY <1>1, <1>2, AllTyped DEF Typed
<1>5. Typed'
  BY <1>1, <1>4 DEF Typed
<1>6. ASSUME NEW p \in Objects
      PROVE  p \in Attached' <=> p \in Attached \cup ToSet(list)
  <2>1. GraphOf'[p] = GraphOf[p]
    OBVIOUS
  <2> QED
    BY <1>1, <1>2, <2>1 DEF Attached
<1>7. /\ Attached \subseteq Objects /\ Attached' \subseteq Objects
      /\ ToSet(list) \subseteq Objects
  BY <1>2, ListsAre DEF Attached
<1>8. Attached' = Attached \cup ToSet(list)
  BY <1>6, <1>7
<1> HIDE DEF list
<1>9. RegistersAll(list)
  BY <1>1, <1>2, <1>3, <1>8 DEF RegistersAll
<1> QED
  BY <1>5, <1>9 DEF Steps

\* A graph that is unattached is unregistered, object for object.
LEMMA UnattachSteps ==
    ASSUME Typed, NEW g \in Graphs, unattachGraph(g)
    PROVE  Typed' /\ Steps
PROOF
<1> DEFINE list == nodeList[g]
<1>1. /\ g \in Unattachable
      /\ isAttachedToContext' = isAttachedToContext \ {g}
      /\ registry' = unregisterAll(registry, list)
      /\ UNCHANGED <<patch, nodeList, deleted>>
  BY DEF unattachGraph
<1>2. /\ list \in Seq(Objects)
      /\ ToSet(list) \subseteq {p \in patch \ deleted : GraphOf[p] = g}
      /\ patch \subseteq Objects
  BY ListsAre DEF Typed
<1>3. ToSet(list) \subseteq patch \cap Leavers
  BY <1>1, <1>2 DEF Leavers
<1>4. registry' \in Registries
  BY <1>1, <1>2, AllTyped DEF Typed
<1>5. Typed'
  BY <1>1, <1>4 DEF Typed
<1>6. ASSUME NEW p \in Objects
      PROVE  p \in Attached' <=> p \in Attached /\ p \notin ToSet(list)
  <2>1. GraphOf'[p] = GraphOf[p]
    OBVIOUS
  <2>2. p \in ToSet(nodeList[GraphOf[p]]) /\ GraphOf[p] = g
        <=> p \in ToSet(list)
    BY <1>2
  <2> QED
    BY <1>1, <2>1, <2>2 DEF Attached
<1>7. Attached \subseteq Objects /\ Attached' \subseteq Objects
  BY DEF Attached
<1>8. Attached' = Attached \ ToSet(list)
  BY <1>6, <1>7
<1> HIDE DEF list
<1>9. UnregistersAll(list)
  BY <1>1, <1>2, <1>3, <1>8 DEF UnregistersAll
<1> QED
  BY <1>5, <1>9 DEF Steps

\* Every step is one of these.
LEMMA StepsAre ==
    ASSUME Typed, [Next]_vars
    PROVE  Typed' /\ Steps
PROOF
<1>1. CASE UNCHANGED vars
  <2>1. UNCHANGED <<patch, nodeList, isAttachedToContext, deleted, registry>>
    BY <1>1 DEF vars
  <2>2. Typed'
    BY <2>1 DEF Typed
  <2>3. Attached' = Attached
    BY <2>1 DEF Attached
  <2> QED
    BY <2>1, <2>2, <2>3 DEF Steps
<1>2. ASSUME NEW o \in Objects, addObject(o) \/ removeObject(o)
      PROVE  Typed' /\ Steps
  BY <1>2, AddSteps, RemoveSteps
<1>3. ASSUME NEW g \in Graphs, attachGraph(g) \/ unattachGraph(g)
      PROVE  Typed' /\ Steps
  BY <1>3, AttachSteps, UnattachSteps
<1> QED
  BY <1>1, <1>2, <1>3 DEF Next

-----------------------------------------------------------------------------
(* The invariants, from the first state on.                                *)

\* At first nothing is attached, and nothing kept.
LEMMA InitIs ==
    ASSUME Init
    PROVE  /\ Typed
           /\ Kept(registry, deleted)
           /\ Reached(registry, Attached)
           /\ Linked(registry, Attached)
PROOF
<1> DEFINE r == [lists |-> [k \in Kinds |-> <<>>],
                 source |-> [o \in Objects |-> NONE],
                 throwList |-> [o \in Objects |-> <<>>],
                 receivers |-> [n \in Names |-> {}]]
<1>1. /\ patch \in Patches /\ nodeList = [g \in Graphs |-> <<>>]
      /\ isAttachedToContext = {} /\ deleted = {} /\ registry = r
  BY DEF Init
<1>2. /\ <<>> \in Seq(Objects) /\ ToSet(<<>>) = {} /\ IsInjective(<<>>)
      /\ Attached = {}
  BY <1>1, ToSetEmpty DEF Attached
<1>3. r \in Registries
  BY <1>2 DEF Registries
<1>4. Typed
  BY <1>1, <1>2, <1>3 DEF Typed
<1>5. /\ \A k \in Kinds : r.lists[k] = <<>>
      /\ \A o \in Objects : r.source[o] = NONE /\ r.throwList[o] = <<>>
      /\ \A n \in Names : r.receivers[n] = {}
  OBVIOUS
<1> HIDE DEF r
<1>6. {"throw~", "catch~"} \cup Readers \cup SourceKinds \subseteq Kinds
  BY DEF Kinds, Readers, SourceKinds
<1>7. Kept(r, {})
  BY <1>2, <1>5 DEF Kept
<1>8. Reached(r, {})
  BY <1>2, <1>5, <1>6 DEF Reached
<1>9. Linked(r, {})
  BY <1>2, <1>5, <1>6 DEF Linked
<1> QED
  BY <1>1, <1>2, <1>4, <1>7, <1>8, <1>9

\* The removed objects that there was a case for.
Forgotten == {o \in deleted : KindOf[o] \in HaveCase}

\* Nothing that is kept is gone of what has a case.
LEMMA KeptNext ==
    ASSUME Typed, Kept(registry, Forgotten), [Next]_vars
    PROVE  Typed' /\ Kept(registry', Forgotten')
PROOF
<1>1. Typed' /\ Steps /\ registry \in Registries
  BY StepsAre DEF Typed
<1>2. patch \subseteq Objects
  BY ListsAre
<1>3. ASSUME NEW o \in Objects, Registers(o)
      PROVE  Kept(registry', Forgotten')
  <2>1. o \in Objects \ Forgotten
    BY <1>3 DEF Registers, Forgotten
  <2>2. Kept(registerObject(registry, o), Forgotten)
    BY <1>1, <2>1, KeptRegister
  <2> QED
    BY <1>3, <2>2 DEF Registers, Forgotten
<1>4. ASSUME NEW o \in Objects, Unregisters(o)
      PROVE  Kept(registry', Forgotten')
  <2>1. /\ registry' = unregisterObject(registry, o)
        /\ Forgotten' = IF KindOf[o] \in HaveCase THEN Forgotten \cup {o}
                                                  ELSE Forgotten
    BY <1>4 DEF Unregisters, Forgotten
  <2>2. Kept(unregisterObject(registry, o), Forgotten')
    BY <1>1, <2>1, KeptUnregister
  <2> QED
    BY <2>1, <2>2
<1>5. ASSUME NEW list, RegistersAll(list)
      PROVE  Kept(registry', Forgotten')
  <2>1. list \in Seq(Objects) /\ ToSet(list) \cap Forgotten = {}
    BY <1>5 DEF RegistersAll, Forgotten
  <2>2. Kept(registerAll(registry, list), Forgotten)
    BY <1>1, <2>1, KeptAll
  <2> QED
    BY <1>5, <2>2 DEF RegistersAll, Forgotten
<1>6. ASSUME NEW list, UnregistersAll(list)
      PROVE  Kept(registry', Forgotten')
  <2>1. list \in Seq(Objects)
    BY <1>6 DEF UnregistersAll
  <2>2. Kept(unregisterAll(registry, list), Forgotten)
    BY <1>1, <2>1, KeptAll
  <2> QED
    BY <1>6, <2>2 DEF UnregistersAll, Forgotten
<1>7. CASE registry' = registry /\ deleted' = deleted
  <2>1. Forgotten' = Forgotten
    BY <1>7 DEF Forgotten
  <2> QED
    BY <1>1, <1>7, <2>1
<1> QED
  BY <1>1, <1>3, <1>4, <1>5, <1>6, <1>7 DEF Steps

\* The buses reach what is attached, if what leaves has a case.
LEMMA ReachedNext ==
    ASSUME LeaversHaveCase, Typed, Reached(registry, Attached), [Next]_vars
    PROVE  Typed' /\ Reached(registry', Attached')
PROOF
<1>1. Typed' /\ Steps /\ registry \in Registries
  BY StepsAre DEF Typed
<1>2. patch \subseteq Objects /\ Attached \in SUBSET Objects
  BY ListsAre
<1> DEFINE A == Attached
<1>3. ASSUME NEW o \in Objects, Registers(o)
      PROVE  Reached(registry', Attached')
  <2>1. o \in Objects \ A
    BY <1>3 DEF Registers
  <2> HIDE DEF A
  <2>2. Reached(registerObject(registry, o), A \cup {o})
    BY <1>1, <1>2, <2>1, ReachedRegister DEF A
  <2> QED
    BY <1>3, <2>2 DEF Registers, A
<1>4. ASSUME NEW o \in Objects, Unregisters(o)
      PROVE  Reached(registry', Attached')
  <2>1. KindOf[o] \in HaveCase
    BY <1>4 DEF Unregisters, LeaversHaveCase, Leavers
  <2>2. Reached(unregisterObject(registry, o), A \ {o})
    BY <1>1, <1>2, <2>1, ReachedUnregister
  <2> QED
    BY <1>4, <2>2 DEF Unregisters
<1>5. ASSUME NEW list, RegistersAll(list)
      PROVE  Reached(registry', Attached')
  <2>1. /\ list \in Seq(Objects) /\ IsInjective(list)
        /\ ToSet(list) \cap A = {}
    BY <1>5 DEF RegistersAll
  <2>2. Reached(registerAll(registry, list), A \cup ToSet(list))
    BY <1>1, <1>2, <2>1, ReachedRegisteredAll
  <2> QED
    BY <1>5, <2>2 DEF RegistersAll
<1>6. ASSUME NEW list, UnregistersAll(list)
      PROVE  Reached(registry', Attached')
  <2>1. /\ list \in Seq(Objects)
        /\ \A o \in ToSet(list) : KindOf[o] \in HaveCase
    BY <1>6 DEF UnregistersAll, LeaversHaveCase
  <2>2. Reached(unregisterAll(registry, list), A \ ToSet(list))
    BY <1>1, <1>2, <2>1, ReachedUnregisteredAll
  <2> QED
    BY <1>6, <2>2 DEF UnregistersAll
<1>7. CASE registry' = registry /\ Attached' = Attached
  BY <1>1, <1>7
<1> HIDE DEF A
<1> QED
  BY <1>1, <1>3, <1>4, <1>5, <1>6, <1>7 DEF Steps

\* The readers read what is attached, if a send~ that leaves is the only one of
\* its name.
LEMMA LinkedNext ==
    ASSUME LeaversHaveCase, SendsThatLeaveAreAlone,
           Typed, Linked(registry, Attached), [Next]_vars
    PROVE  Typed' /\ Linked(registry', Attached')
PROOF
<1>1. Typed' /\ Steps /\ registry \in Registries
  BY StepsAre DEF Typed
<1>2. /\ patch \subseteq Objects /\ Attached \in SUBSET Objects
      /\ Attached \subseteq patch /\ patch \in Patches
  BY ListsAre DEF Typed
<1> DEFINE A == Attached
           Alone(o) == KindOf[o] = "send~" =>
                           \A p \in A \cap OfKind("send~") :
                               NameOf[p] = NameOf[o] => p = o
<1>3. \A o \in patch \cap Leavers : Alone(o)
  BY <1>2 DEF SendsThatLeaveAreAlone, OfKind
<1>4. ASSUME NEW o \in Objects, Registers(o)
      PROVE  Linked(registry', Attached')
  <2>1. o \in Objects \ A
    BY <1>4 DEF Registers
  <2>2. Linked(registerObject(registry, o), A \cup {o})
    BY <1>1, <1>2, <2>1, LinkedRegister
  <2> QED
    BY <1>4, <2>2 DEF Registers
<1>5. ASSUME NEW o \in Objects, Unregisters(o)
      PROVE  Linked(registry', Attached')
  <2>1. KindOf[o] \in HaveCase /\ Alone(o)
    BY <1>3, <1>5 DEF Unregisters, LeaversHaveCase, Leavers
  <2>2. Linked(unregisterObject(registry, o), A \ {o})
    BY <1>1, <1>2, <2>1, LinkedUnregister
  <2> QED
    BY <1>5, <2>2 DEF Unregisters
<1>6. ASSUME NEW list, RegistersAll(list)
      PROVE  Linked(registry', Attached')
  <2>1. /\ list \in Seq(Objects) /\ IsInjective(list)
        /\ ToSet(list) \cap A = {}
    BY <1>6 DEF RegistersAll
  <2>2. Linked(registerAll(registry, list), A \cup ToSet(list))
    BY <1>1, <1>2, <2>1, LinkedRegisteredAll
  <2> QED
    BY <1>6, <2>2 DEF RegistersAll
<1>7. ASSUME NEW list, UnregistersAll(list)
      PROVE  Linked(registry', Attached')
  <2>1. /\ list \in Seq(Objects)
        /\ \A o \in ToSet(list) : KindOf[o] \in HaveCase /\ Alone(o)
    BY <1>3, <1>7 DEF UnregistersAll, LeaversHaveCase
  <2>2. Linked(unregisterAll(registry, list), A \ ToSet(list))
    BY <1>1, <1>2, <2>1, LinkedUnregisteredAll
  <2> QED
    BY <1>7, <2>2 DEF UnregistersAll
<1>8. CASE registry' = registry /\ Attached' = Attached
  BY <1>1, <1>8
<1> QED
  BY <1>1, <1>4, <1>5, <1>6, <1>7, <1>8 DEF Steps

-----------------------------------------------------------------------------
\* What is of a kind and name in the attached graphs.
LEMMA AttachedOfIs ==
    ASSUME Typed, NEW kind, NEW name
    PROVE  AttachedOf(kind, name) =
               {o \in Attached : KindOf[o] = kind /\ NameOf[o] = name}
PROOF
  BY ListsAre DEF AttachedOf, Attached

\* Whatever objects a patch has, in whatever order they come and go: nothing
\* that the context keeps refers to a removed object of a kind that
\* unregisterObject has a case for, whatever else is removed.
THEOREM DanglingCorrect == Spec => []RemovedAreForgotten
PROOF
<1> DEFINE Inv == Typed /\ Kept(registry, Forgotten)
<1>1. Init => Inv
  <2> SUFFICES ASSUME Init
               PROVE  Inv
    OBVIOUS
  <2>1. Forgotten = {} /\ deleted = {}
    BY DEF Init, Forgotten
  <2> QED
    BY <2>1, InitIs
<1>2. Inv /\ [Next]_vars => Inv'
  BY KeptNext
<1>3. Inv => RemovedAreForgotten
  BY DEF RemovedAreForgotten, Forgotten, Kept
<1> QED
  BY <1>1, <1>2, <1>3, PTL DEF Spec

\* Each bus reaches all its ends in the attached graphs once and no others, as
\* long as what leaves has a case.
THEOREM BusesCorrect ==
    ASSUME LeaversHaveCase
    PROVE  Spec => []BusesReach
PROOF
<1> DEFINE Inv == Typed /\ Reached(registry, Attached)
<1>1. Init => Inv
  BY InitIs
<1>2. Inv /\ [Next]_vars => Inv'
  BY ReachedNext
<1>3. Inv => BusesReach
  <2> SUFFICES ASSUME Inv
               PROVE  BusesReach
    OBVIOUS
  <2>1. Attached \subseteq Objects
    BY DEF Attached
  <2>2. CatchesEveryThrow
    <3>1. \A c : Attached \cap ThrowsTo(c) = AttachedOf("throw~", NameOf[c])
      BY <2>1, AttachedOfIs DEF ThrowsTo, OfKind
    <3> QED
      BY <3>1 DEF CatchesEveryThrow, Reached
  <2>3. MessagesReachReceivers
    <3>1. ASSUME NEW n \in Names
          PROVE  {o \in registry.receivers[n] : KindOf[o] = "receive"} =
                     AttachedOf("receive", n)
      <4>1. registry.receivers[n] = Attached \cap ReceiversOf(n)
        BY DEF Reached
      <4>2. AttachedOf("receive", n) =
                {o \in Attached : KindOf[o] = "receive" /\ NameOf[o] = n}
        BY AttachedOfIs
      <4> QED
        BY <2>1, <4>1, <4>2 DEF ReceiversOf
    <3> QED
      BY <3>1 DEF MessagesReachReceivers
  <2> QED
    BY <2>2, <2>3 DEF BusesReach
<1> QED
  BY <1>1, <1>2, <1>3, PTL DEF Spec

\* What reads by name reads an object of its name in an attached graph whenever
\* there is one, as long as what leaves has a case and no send~ leaves where
\* there are others of its name.
THEOREM ReadersCorrect ==
    ASSUME LeaversHaveCase, SendsThatLeaveAreAlone
    PROVE  Spec => []ReadersFindSource
PROOF
<1> DEFINE Inv == Typed /\ Linked(registry, Attached)
<1>1. Init => Inv
  BY InitIs
<1>2. Inv /\ [Next]_vars => Inv'
  BY LinkedNext
<1>3. Inv => ReadersFindSource
  <2> SUFFICES ASSUME Inv, NEW o \in Objects, KindOf[o] \in Readers
               PROVE  LET sources == AttachedOf(SourceKind[KindOf[o]], NameOf[o])
                          source  == registry.source[o]
                      IN  IF /\ o \in AttachedOf(KindOf[o], NameOf[o])
                             /\ sources # {}
                          THEN source # NONE /\ source.object \in sources
                          ELSE source = NONE
    BY DEF ReadersFindSource
  <2>1. o \in AttachedOf(KindOf[o], NameOf[o]) <=> o \in Attached
    BY AttachedOfIs
  <2>2. AttachedOf(SourceKind[KindOf[o]], NameOf[o]) = Attached \cap SourcesOf(o)
    <3>1. Attached \subseteq Objects
      BY DEF Attached
    <3> QED
      BY <3>1, AttachedOfIs DEF SourcesOf
  <2> QED
    BY <2>1, <2>2 DEF Linked
<1> QED
  BY <1>1, <1>2, <1>3, PTL DEF Spec

=============================================================================
