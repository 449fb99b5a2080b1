-------------------------- MODULE SignalPatchProofs --------------------------
(***************************************************************************)
(* The messages of audio objects are handled in their block, between parts *)
(* that tile it, for any patch, any length of a block and any number of    *)
(* messages, provided that an object is fed by those that run before it;   *)
(* a number that comes to an inlet takes effect at the sample of its time, *)
(* provided that an object also hears only those before it; a delay line   *)
(* or a table is read at the place that was asked for, provided that the   *)
(* host or a sig~ gives the places and the line hears the host; and ramps, *)
(* phases, filters and windows go on from sample to sample, provided that  *)
(* they are in graphs that stay on and hear the host or a sig~, and that   *)
(* their direct messages are of the time the block starts at.              *)
(***************************************************************************)
EXTENDS SignalPatch, SequenceTheorems, WellFoundedInduction, TLAPS

\* A sequence, and a function of the objects, of whatever values.
IsList(q) == q \in Seq({q[i] : i \in 1 .. Len(q)})
IsOfObjects(f) == f = [o \in patch |-> f[o]]

RenderedPart == [from : Int, to : Int]

DspTyped ==
    /\ patch \in Patches
    /\ IsOfObjects(messageQueue)
    /\ \A o \in patch : /\ IsList(messageQueue[o])
                        /\ \A i \in 1 .. Len(messageQueue[o]) :
                               messageQueue[o][i].time \in Int
    /\ processFunction \in [patch -> {"noMessage", "message", "other"}]
    /\ switched \in SUBSET Graphs
    /\ blockStartTimestamp \in Int
    /\ phase \in {"idle", "messages", "dsp"}
    /\ now \in Int
    /\ turn \in 1 .. Len(nodes) + 1
    /\ inLoop \in BOOLEAN
    /\ rendered \in [patch -> Seq(RenderedPart)]
    /\ late \in SUBSET patch

\* Messages are in the order of their times.
InOrder(q) ==
    \A i \in 1 .. Len(q) : \A j \in i .. Len(q) : q[i].time <= q[j].time

\* The time up to which messages have been sent.
Reached == IF phase = "idle" THEN blockStartTimestamp ELSE now

Arrived ==
    /\ phase # "idle" => OfThisBlock(now)
    /\ \A o \in patch \ (Fed \cup late) : InOrder(messageQueue[o])

\* The objects that have rendered something are those that have had their turn
\* and the one that is in its loop, which has not rendered past a message that
\* waits.
HadTurn(o) ==
    \/ \E i \in 1 .. turn - 1 : nodes[i] = o
    \/ inLoop /\ o = Turn

Tiled ==
    /\ phase # "dsp" => turn = 1 /\ ~ inLoop
    /\ inLoop => /\ turn <= Len(nodes) /\ Runs(Turn)
                 /\ processFunction[Turn] = "message"
    /\ \A o \in patch : rendered[o] = <<>> \/ HadTurn(o)
    /\ PartsTileBlock
    /\ phase = "dsp" =>
           \A o \in patch \ (Fed \cup late) : \A i \in 1 .. Len(messageQueue[o]) :
               OfThisBlock(messageQueue[o][i].time)
    /\ inLoop /\ Turn \notin Fed \cup late =>
           \A i \in 1 .. Len(messageQueue[Turn]) :
               blockIndexOfLastMessage <= BlockIndex(messageQueue[Turn][i].time)

\* What had its turn has nothing left.
Consumed ==
    /\ NoneIsOverlooked
    /\ \A o \in patch \cap (Handles \ Adapts) : processFunction[o] # "other"
    /\ Graphs \ Switchable \subseteq switched
    /\ phase = "dsp" =>
           \A i \in 1 .. turn - 1 :
               /\ nodes[i] \in Handles \ Adapts
               /\ Around[nodes[i]] \cap Switchable = {}
               => messageQueue[nodes[i]] = <<>>

\* The inductive invariant.
ServedSoFar == DspTyped /\ Arrived /\ Tiled /\ Consumed

-----------------------------------------------------------------------------
(***************************************************************************)
(* Sequences, samples and parts.                                           *)
(***************************************************************************)

LEMMA EmptyList == IsList(<<>>)
PROOF
  BY DEF IsList

LEMMA ListOfSequence ==
    ASSUME NEW S, NEW q \in Seq(S)
    PROVE  IsList(q)
PROOF
  BY LenProperties, SeqDef DEF IsList

LEMMA AppendList ==
    ASSUME NEW q, NEW e, IsList(q)
    PROVE  LET r == Append(q, e)
           IN  /\ IsList(r)
               /\ Len(q) \in Nat /\ Len(r) = Len(q) + 1
               /\ \A i \in 1 .. Len(q) + 1 :
                      r[i] = IF i = Len(q) + 1 THEN e ELSE q[i]
PROOF
<1> DEFINE S == {q[i] : i \in 1 .. Len(q)} \cup {e}
           r == Append(q, e)
<1>1. q \in Seq(S)
  BY DEF IsList
<1>2. /\ Len(q) \in Nat /\ Len(r) = Len(q) + 1 /\ r \in Seq(S)
      /\ \A i \in 1 .. Len(q) + 1 : r[i] = IF i = Len(q) + 1 THEN e ELSE q[i]
  BY <1>1
<1> HIDE DEF S, r
<1>3. IsList(r)
  BY <1>2, ListOfSequence
<1> QED
  BY <1>2, <1>3 DEF r

LEMMA TailList ==
    ASSUME NEW q, IsList(q), q # <<>>
    PROVE  /\ IsList(Tail(q))
           /\ Len(q) \in Nat \ {0} /\ Len(Tail(q)) = Len(q) - 1
           /\ Head(q) = q[1]
           /\ \A i \in 1 .. Len(q) - 1 : Tail(q)[i] = q[i + 1]
PROOF
<1> DEFINE S == {q[i] : i \in 1 .. Len(q)}
           r == Tail(q)
<1>1. q \in Seq(S)
  BY DEF IsList
<1>2. /\ Len(q) \in Nat \ {0} /\ Len(r) = Len(q) - 1 /\ r \in Seq(S)
      /\ Head(q) = q[1]
      /\ \A i \in 1 .. Len(q) - 1 : r[i] = q[i + 1]
  BY <1>1
<1> HIDE DEF S, r
<1>3. IsList(r)
  BY <1>2, ListOfSequence
<1> QED
  BY <1>2, <1>3 DEF r

\* The order of the objects of a patch.
LEMMA NodesOfPatch ==
    ASSUME patch \in Patches
    PROVE  /\ nodes \in Seq(patch) /\ Len(nodes) \in Nat
           /\ \A i \in 1 .. Len(nodes) : nodes[i] \in patch
           /\ \A i, j \in 1 .. Len(nodes) : nodes[i] = nodes[j] => i = j
           /\ \A o \in patch : \E i \in 1 .. Len(nodes) : nodes[i] = o
PROOF
  BY DspAssumption DEF nodes, IsInjective, ToSet

\* The index of a message of the block is one of its samples or its end, and no
\* earlier than that of a message before it.
LEMMA IndexInBlock ==
    ASSUME blockStartTimestamp \in Int, NEW time \in Int,
           blockStartTimestamp <= time, time < blockStartTimestamp + BlockTicks
    PROVE  BlockIndex(time) \in 0 .. BlockSize
PROOF
  BY DspAssumption DEF BlockTicks, BlockIndex

LEMMA IndexMonotone ==
    ASSUME blockStartTimestamp \in Int, NEW s \in Int, NEW t \in Int, s <= t
    PROVE  /\ BlockIndex(s) <= BlockIndex(t)
           /\ BlockIndex(s) \in Int /\ BlockIndex(t) \in Int
PROOF
  BY DspAssumption DEF BlockIndex

\* Where a sequence of parts ends.
EndOf(parts) == IF parts = <<>> THEN 0 ELSE Last(parts).to

LEMMA PartFollows ==
    ASSUME NEW parts \in Seq(RenderedPart), FollowEachOther(parts),
           NEW to \in Int, EndOf(parts) <= to, to <= BlockSize
    PROVE  LET longer == Append(parts, [from |-> EndOf(parts), to |-> to])
           IN  /\ longer \in Seq(RenderedPart) /\ longer # <<>>
               /\ FollowEachOther(longer)
               /\ EndOf(longer) = to /\ Last(longer).to = to
PROOF
<1> DEFINE part == [from |-> EndOf(parts), to |-> to]
           longer == Append(parts, part)
           n == Len(parts)
<1>1. /\ n \in Nat /\ BlockSize \in Nat
      /\ \A i \in 1 .. n : parts[i] \in RenderedPart
      /\ \A i \in 1 .. n : parts[i].from \in Int /\ parts[i].to \in Int
  <2>1. n \in Nat /\ \A i \in 1 .. n : parts[i] \in RenderedPart
    BY ElementOfSeq, LenProperties
  <2>2. \A p \in RenderedPart : p.from \in Int /\ p.to \in Int
    BY DEF RenderedPart
  <2> QED
    BY <2>1, <2>2, DspAssumption
<1>2. /\ EndOf(parts) = IF n = 0 THEN 0 ELSE parts[n].to
      /\ EndOf(parts) \in Int /\ 0 <= EndOf(parts)
  BY <1>1 DEF EndOf, Last, FollowEachOther
<1>3. /\ part \in RenderedPart
      /\ part.from = EndOf(parts) /\ part.to = to
  BY <1>2 DEF RenderedPart
<1> HIDE DEF part
<1>4. /\ longer \in Seq(RenderedPart) /\ Len(longer) = n + 1
      /\ \A i \in 1 .. n + 1 :
             longer[i] = IF i = n + 1 THEN part ELSE parts[i]
      /\ longer # <<>>
  BY <1>3, AppendProperties, <1>1
<1> HIDE DEF longer
<1>5. FollowEachOther(longer)
  <2> SUFFICES ASSUME NEW i \in 1 .. n + 1
               PROVE  /\ 0 <= longer[i].from /\ longer[i].from <= longer[i].to
                      /\ longer[i].to <= BlockSize
                      /\ longer[i].from =
                             IF i = 1 THEN 0 ELSE longer[i - 1].to
    BY <1>4 DEF FollowEachOther
  <2>1. CASE i = n + 1
    <3>1. longer[i] = part
      BY <1>1, <1>4, <2>1
    <3>2. n # 0 => longer[i - 1] = parts[n]
      BY <1>1, <1>4, <2>1
    <3> QED
      BY <1>1, <1>2, <1>3, <2>1, <3>1, <3>2
  <2>2. CASE i # n + 1
    <3>1. i \in 1 .. n /\ longer[i] = parts[i]
      BY <1>1, <1>4, <2>2
    <3>2. i # 1 => longer[i - 1] = parts[i - 1]
      BY <1>1, <1>4, <3>1
    <3> QED
      BY <3>1, <3>2 DEF FollowEachOther
  <2> QED
    BY <2>1, <2>2
<1>6. Last(longer) = part
  BY <1>1, <1>4 DEF Last
<1> QED
  BY <1>3, <1>4, <1>5, <1>6 DEF longer, part, EndOf

\* A message arrives that is no earlier than those before it.
LEMMA OrderGrows ==
    ASSUME NEW q, IsList(q), InOrder(q),
           \A i \in 1 .. Len(q) : q[i].time \in Int,
           NEW e, e.time \in Int, \A i \in 1 .. Len(q) : ~ (e.time < q[i].time)
    PROVE  InOrder(Append(q, e))
PROOF
<1> DEFINE r == Append(q, e)
<1>1. /\ Len(q) \in Nat /\ Len(r) = Len(q) + 1
      /\ \A i \in 1 .. Len(q) + 1 : r[i] = IF i = Len(q) + 1 THEN e ELSE q[i]
  BY AppendList
<1> HIDE DEF r
<1>2. ASSUME NEW i \in 1 .. Len(r), NEW j \in i .. Len(r)
      PROVE  r[i].time <= r[j].time
  <2>1. CASE i = Len(q) + 1
    BY <1>1, <1>2, <2>1
  <2>2. CASE i \in 1 .. Len(q) /\ j = Len(q) + 1
    BY <1>1, <2>2
  <2>3. CASE i \in 1 .. Len(q) /\ j \in i .. Len(q)
    BY <1>1, <2>3 DEF InOrder
  <2> QED
    BY <1>1, <2>1, <2>2, <2>3
<1> QED
  BY <1>2 DEF r, InOrder

\* The first message is processed.
LEMMA OrderShrinks ==
    ASSUME NEW q, IsList(q), q # <<>>, InOrder(q)
    PROVE  /\ InOrder(Tail(q))
           /\ \A i \in 1 .. Len(q) : q[1].time <= q[i].time
PROOF
<1> DEFINE r == Tail(q)
<1>1. /\ Len(q) \in Nat \ {0} /\ Len(r) = Len(q) - 1
      /\ \A i \in 1 .. Len(q) - 1 : r[i] = q[i + 1]
  BY TailList
<1> HIDE DEF r
<1>2. ASSUME NEW i \in 1 .. Len(r)
      PROVE  \A j \in i .. Len(r) : r[i].time <= r[j].time
  <2>1. i + 1 \in 1 .. Len(q) /\ r[i] = q[i + 1]
    BY <1>1
  <2>2. \A j \in i .. Len(r) : r[j] = q[j + 1] /\ j + 1 \in i + 1 .. Len(q)
    BY <1>1
  <2> QED
    BY <2>1, <2>2 DEF InOrder
<1>3. \A i \in 1 .. Len(q) : q[1].time <= q[i].time
  BY <1>1 DEF InOrder
<1> QED
  BY <1>2, <1>3 DEF r, InOrder

-----------------------------------------------------------------------------
(***************************************************************************)
(* Before the graphs run.                                                  *)
(***************************************************************************)

\* Nothing has been rendered, so that there is nothing to say of it.
LEMMA TiledAtRest ==
    ASSUME phase' # "dsp", turn' = 1, ~ inLoop',
           \A o \in patch' : rendered'[o] = <<>>
    PROVE  Tiled'
PROOF
<1>1. \A i \in 1 .. turn' - 1 : FALSE
  OBVIOUS
<1>2. FollowEachOther(<<>>)
  BY DEF FollowEachOther
<1>3. PartsTileBlock'
  BY <1>1, <1>2 DEF PartsTileBlock
<1> QED
  BY <1>1, <1>3 DEF Tiled

LEMMA AtRest ==
    ASSUME Tiled, phase # "dsp"
    PROVE  turn = 1 /\ ~ inLoop /\ \A o \in patch : rendered[o] = <<>>
PROOF
  BY DEF Tiled, HadTurn

\* A message comes to an object before the graph runs.
LEMMA ReceiveServed ==
    ASSUME ServedSoFar, phase # "dsp",
           NEW o \in patch, NEW time \in Int, NEW message,
           receiveMessage(o, time, message), now' \in Int,
           phase = "messages" => OfThisBlock(now'),
           UNCHANGED <<patch, switched, blockStartTimestamp, phase, turn, inLoop,
                       rendered>>
    PROVE  ServedSoFar'
PROOF
<1> DEFINE e == [time |-> time, message |-> message]
           q == messageQueue[o]
<1>1. /\ turn = 1 /\ ~ inLoop /\ \A p \in patch : rendered[p] = <<>>
      /\ phase \in {"idle", "messages"}
      /\ nodes' = nodes /\ Fed' = Fed
      /\ e.time = time
  BY AtRest DEF ServedSoFar, DspTyped, nodes, Fed
<1>2. /\ IsOfObjects(messageQueue)
      /\ \A p \in patch : /\ IsList(messageQueue[p])
                           /\ \A i \in 1 .. Len(messageQueue[p]) :
                                  messageQueue[p][i].time \in Int
      /\ processFunction \in [patch -> {"noMessage", "message", "other"}]
  BY DEF ServedSoFar, DspTyped
<1>3. /\ \A p \in patch \ (Fed \cup late) : InOrder(messageQueue[p])
      /\ late \in SUBSET patch /\ late' \in SUBSET patch /\ late \subseteq late'
      /\ messageQueue'[o] # q /\ o \notin late' => ~ OutOfOrder(o, time)
  BY DEF ServedSoFar, DspTyped, Arrived, receiveMessage
<1> HIDE DEF e
<1>4. /\ IsOfObjects(messageQueue)'
      /\ \A p \in patch \ {o} : messageQueue'[p] = messageQueue[p]
      /\ messageQueue'[o] \in {q, Append(q, e)}
      /\ processFunction' \in [patch -> {"noMessage", "message", "other"}]
      /\ \A p \in patch \ {o} : processFunction'[p] = processFunction[p]
      /\ processFunction[o] = "noMessage" =>
             \/ processFunction'[o] = "message"
             \/ processFunction'[o] = "noMessage" /\ messageQueue'[o] = q
      /\ processFunction[o] # "noMessage" =>
             processFunction'[o] = processFunction[o]
  BY <1>2 DEF receiveMessage, queued, noticed, IsOfObjects, e
<1>5. /\ IsList(messageQueue'[o])
      /\ \A i \in 1 .. Len(messageQueue'[o]) : messageQueue'[o][i].time \in Int
  <2>1. IsList(q) /\ \A i \in 1 .. Len(q) : q[i].time \in Int
    BY <1>2
  <2> DEFINE r == Append(q, e)
  <2> HIDE DEF q
  <2>2. /\ IsList(r)
        /\ Len(q) \in Nat /\ Len(r) = Len(q) + 1
        /\ \A i \in 1 .. Len(q) + 1 : r[i] = IF i = Len(q) + 1 THEN e ELSE q[i]
    BY <2>1, AppendList
  <2> HIDE DEF r
  <2>3. \A i \in 1 .. Len(r) : r[i].time \in Int
    BY <1>1, <2>1, <2>2
  <2>4. messageQueue'[o] \in {q, r}
    BY <1>4 DEF q, r
  <2> QED
    BY <2>1, <2>2, <2>3, <2>4
<1>6. DspTyped'
  BY <1>1, <1>2, <1>3, <1>4, <1>5 DEF ServedSoFar, DspTyped
<1>7. Arrived'
  <2>1. ASSUME NEW p \in patch \ (Fed \cup late')
        PROVE  InOrder(messageQueue'[p])
    <3>1. InOrder(messageQueue[p])
      BY <1>3
    <3>2. CASE messageQueue'[p] = messageQueue[p]
      BY <3>1, <3>2
    <3>3. CASE p = o /\ messageQueue'[o] = Append(q, e) /\ messageQueue'[o] # q
      <4>1. \A i \in 1 .. Len(q) : ~ (e.time < q[i].time)
        BY <1>1, <1>3, <3>3 DEF OutOfOrder
      <4>2. IsList(q) /\ InOrder(q) /\ \A i \in 1 .. Len(q) : q[i].time \in Int
        BY <1>2, <3>1, <3>3
      <4> HIDE DEF q
      <4>3. InOrder(Append(q, e))
        BY <1>1, <4>1, <4>2, OrderGrows
      <4> QED
        BY <3>3, <4>3
    <3> QED
      BY <1>4, <3>2, <3>3
  <2> QED
    BY <1>1, <2>1 DEF ServedSoFar, Arrived, OfThisBlock
<1>8. Tiled'
  BY <1>1, TiledAtRest
<1>9. Consumed'
  BY <1>1, <1>4 DEF ServedSoFar, Consumed, NoneIsOverlooked
<1> QED
  BY <1>6, <1>7, <1>8, <1>9 DEF ServedSoFar

LEMMA TellServed ==
    ASSUME ServedSoFar, NEW o \in patch, NEW message,
           \/ \E t \in DirectTimes[o] :
                  SendDirect(o, blockStartTimestamp + t, message)
           \/ \E t \in Offsets : Receive(o, blockStartTimestamp + t, message)
    PROVE  ServedSoFar'
PROOF
<1>1. blockStartTimestamp \in Int /\ now \in Int /\ DirectTimes[o] \subseteq Int
  BY SignalAssumption, DspAssumption DEF ServedSoFar, DspTyped
<1>2. ASSUME NEW t \in DirectTimes[o],
             SendDirect(o, blockStartTimestamp + t, message)
      PROVE  ServedSoFar'
  <2>1. blockStartTimestamp + t \in Int
    BY <1>1
  <2> QED
    BY <1>1, <1>2, <2>1, ReceiveServed DEF SendDirect
<1>3. ASSUME NEW t \in Offsets, Receive(o, blockStartTimestamp + t, message)
      PROVE  ServedSoFar'
  <2>1. /\ blockStartTimestamp + t \in Int
        /\ blockStartTimestamp <= blockStartTimestamp + t
    BY <1>1, SignalAssumption
  <2> QED
    BY <1>3, <2>1, ReceiveServed DEF Receive, OfThisBlock
<1> QED
  BY <1>2, <1>3

LEMMA SwitchServed ==
    ASSUME ServedSoFar, NEW g \in Switchable, setSwitch(g)
    PROVE  ServedSoFar'
PROOF
<1>1. /\ turn = 1 /\ ~ inLoop /\ \A p \in patch : rendered[p] = <<>>
      /\ nodes' = nodes /\ Fed' = Fed
      /\ phase \in {"idle", "messages"}
      /\ UNCHANGED <<patch, messageQueue, processFunction, blockStartTimestamp,
                     phase, now, turn, inLoop, rendered, late>>
  BY AtRest DEF ServedSoFar, setSwitch, nodes, Fed
<1>2. /\ switched' \in SUBSET Graphs
      /\ Graphs \ Switchable \subseteq switched'
  BY DspAssumption DEF ServedSoFar, DspTyped, Consumed, setSwitch
<1>3. DspTyped' /\ Arrived'
  BY <1>1, <1>2 DEF ServedSoFar, DspTyped, Arrived, IsOfObjects, OfThisBlock
<1>4. Tiled'
  BY <1>1, TiledAtRest
<1>5. Consumed'
  BY <1>1, <1>2 DEF ServedSoFar, Consumed, NoneIsOverlooked
<1> QED
  BY <1>3, <1>4, <1>5 DEF ServedSoFar

LEMMA ConnectServed ==
    ASSUME ServedSoFar, NEW o \in patch, NEW function \in {"other", "noMessage"},
           onInletConnectionUpdate(o, function)
    PROVE  ServedSoFar'
PROOF
<1>1. /\ turn = 1 /\ ~ inLoop /\ \A p \in patch : rendered[p] = <<>>
      /\ nodes' = nodes /\ Fed' = Fed
      /\ phase = "idle" /\ o \in Adapts
      /\ UNCHANGED <<patch, messageQueue, switched, blockStartTimestamp, phase,
                     now, turn, inLoop, rendered, late>>
  BY AtRest DEF ServedSoFar, onInletConnectionUpdate, nodes, Fed
<1>2. /\ processFunction' \in [patch -> {"noMessage", "message", "other"}]
      /\ \A p \in patch \ {o} : processFunction'[p] = processFunction[p]
  BY DEF ServedSoFar, DspTyped, onInletConnectionUpdate
<1>3. DspTyped' /\ Arrived'
  BY <1>1, <1>2 DEF ServedSoFar, DspTyped, Arrived, IsOfObjects
<1>4. Tiled'
  BY <1>1, TiledAtRest
<1>5. Consumed'
  BY <1>1, <1>2 DEF ServedSoFar, Consumed, NoneIsOverlooked
<1> QED
  BY <1>3, <1>4, <1>5 DEF ServedSoFar

LEMMA BeginProcessServed ==
    ASSUME ServedSoFar, BeginProcess
    PROVE  ServedSoFar'
PROOF
<1>1. /\ turn = 1 /\ ~ inLoop /\ \A p \in patch : rendered[p] = <<>>
      /\ nodes' = nodes /\ Fed' = Fed
      /\ phase = "idle" /\ phase' = "messages" /\ now' = blockStartTimestamp
      /\ UNCHANGED <<patch, messageQueue, processFunction, switched,
                     blockStartTimestamp, turn, inLoop, rendered, late>>
  BY AtRest DEF ServedSoFar, BeginProcess, nodes, Fed
<1>2. BlockTicks \in Nat \ {0}
  BY DspAssumption DEF BlockTicks
<1>3. DspTyped' /\ Arrived'
  BY <1>1, <1>2 DEF ServedSoFar, DspTyped, Arrived, OfThisBlock,
                        IsOfObjects
<1>4. Tiled'
  BY <1>1, TiledAtRest
<1>5. Consumed'
  BY <1>1 DEF ServedSoFar, Consumed, NoneIsOverlooked
<1> QED
  BY <1>3, <1>4, <1>5 DEF ServedSoFar

LEMMA BeginDspServed ==
    ASSUME ServedSoFar, BeginDsp
    PROVE  ServedSoFar'
PROOF
<1>1. /\ turn = 1 /\ ~ inLoop /\ \A p \in patch : rendered[p] = <<>>
      /\ nodes' = nodes /\ Fed' = Fed
      /\ phase = "messages" /\ phase' = "dsp"
      /\ late' = late \cup
             {o \in patch : \E i \in 1 .. Len(messageQueue[o]) :
                              ~ OfThisBlock(messageQueue[o][i].time)}
      /\ UNCHANGED <<patch, messageQueue, processFunction, switched,
                     blockStartTimestamp, now, turn, inLoop, rendered>>
  BY AtRest DEF ServedSoFar, BeginDsp, nodes, Fed
<1>2. DspTyped' /\ Arrived'
  BY <1>1 DEF ServedSoFar, DspTyped, Arrived, IsOfObjects, OfThisBlock
<1>3. Tiled'
  <2>1. FollowEachOther(<<>>)
    BY DEF FollowEachOther
  <2>2. PartsTileBlock'
    BY <1>1, <2>1 DEF PartsTileBlock
  <2>3. \A o \in patch \ (Fed \cup late') : \A i \in 1 .. Len(messageQueue[o]) :
            OfThisBlock(messageQueue[o][i].time)
    BY <1>1
  <2> QED
    BY <1>1, <2>2, <2>3 DEF Tiled, OfThisBlock
<1>4. Consumed'
  BY <1>1 DEF ServedSoFar, Consumed, NoneIsOverlooked
<1> QED
  BY <1>2, <1>3, <1>4 DEF ServedSoFar

-----------------------------------------------------------------------------
(***************************************************************************)
(* While the graphs run.                                                   *)
(***************************************************************************)

\* The object whose turn it is.
LEMMA OnItsTurn ==
    ASSUME ServedSoFar, OnTurn
    PROVE  /\ phase = "dsp" /\ turn \in 1 .. Len(nodes) /\ Len(nodes) \in Nat
           /\ Turn \in patch
           /\ \A i \in 1 .. turn - 1 : nodes[i] # Turn
           /\ inLoop \/ rendered[Turn] = <<>>
           /\ rendered[Turn] \in Seq(RenderedPart)
           /\ EndOf(rendered[Turn]) \in Int
           /\ blockIndexOfLastMessage = EndOf(rendered[Turn])
PROOF
<1>1. /\ phase = "dsp" /\ turn \in 1 .. Len(nodes) /\ Len(nodes) \in Nat
      /\ Turn \in patch
      /\ \A i, j \in 1 .. Len(nodes) : nodes[i] = nodes[j] => i = j
  BY NodesOfPatch DEF ServedSoFar, DspTyped, OnTurn, Turn
<1>2. \A i \in 1 .. turn - 1 : nodes[i] # Turn
  BY <1>1 DEF Turn
<1>3. inLoop \/ rendered[Turn] = <<>>
  BY <1>1, <1>2 DEF ServedSoFar, Tiled, HadTurn
<1>4. rendered[Turn] \in Seq(RenderedPart)
  BY <1>1 DEF ServedSoFar, DspTyped
<1>5. EndOf(rendered[Turn]) \in Int
  <2> DEFINE parts == rendered[Turn]
  <2>1. parts \in Seq(RenderedPart)
    BY <1>4
  <2> HIDE DEF parts
  <2>2. parts # <<>> => Last(parts) \in RenderedPart
    BY <2>1 DEF Last
  <2>3. EndOf(parts) \in Int
    BY <2>2 DEF EndOf, RenderedPart
  <2> QED
    BY <2>3 DEF parts
<1> QED
  BY <1>1, <1>2, <1>3, <1>4, <1>5 DEF blockIndexOfLastMessage, EndOf

\* It renders a part that begins where the last one ended, and stays in its
\* loop or has rendered all of the block.
LEMMA RenderTiles ==
    ASSUME ServedSoFar, OnTurn, NEW to \in Int,
           Render(EndOf(rendered[Turn]), to),
           Turn \notin Fed \cup late =>
               EndOf(rendered[Turn]) <= to /\ to <= BlockSize,
           \/ turn' = turn /\ inLoop'
           \/ turn' = turn + 1 /\ to = BlockSize /\ ~ inLoop',
           UNCHANGED <<patch, switched, late>>
    PROVE  /\ rendered' \in [patch -> Seq(RenderedPart)]
           /\ PartsTileBlock'
           /\ \A o \in patch : rendered'[o] = <<>> \/ HadTurn(o)'
           /\ Turn \notin Fed \cup late => EndOf(rendered'[Turn]) = to
           /\ turn' \in 1 .. Len(nodes) + 1
PROOF
<1> DEFINE T == Turn
           parts == rendered[T]
           part == [from |-> EndOf(parts), to |-> to]
<1>1. /\ turn \in 1 .. Len(nodes) /\ Len(nodes) \in Nat
      /\ T \in patch /\ T = nodes[turn]
      /\ \A i \in 1 .. turn - 1 : nodes[i] # T
      /\ parts \in Seq(RenderedPart)
      /\ EndOf(parts) \in Int
      /\ nodes' = nodes /\ Fed' = Fed
      /\ rendered \in [patch -> Seq(RenderedPart)]
  BY OnItsTurn DEF Turn, nodes, Fed, ServedSoFar, DspTyped
<1>2. /\ \A o \in patch \ {T} : rendered'[o] = rendered[o]
      /\ rendered'[T] = Append(parts, part)
      /\ rendered' \in [patch -> Seq(RenderedPart)]
  <2>1. rendered' = [rendered EXCEPT ![T] = Append(parts, part)]
    BY DEF Render
  <2>2. part \in RenderedPart
    BY <1>1 DEF RenderedPart
  <2> HIDE DEF part, T
  <2>3. Append(parts, part) \in Seq(RenderedPart)
    BY <1>1, <2>2, AppendProperties
  <2> HIDE DEF parts
  <2> QED
    BY <1>1, <2>1, <2>3
<1>3. PartsTileBlock
  BY DEF ServedSoFar, Tiled
<1>4. T \notin Fed \cup late =>
          /\ FollowEachOther(rendered'[T])
          /\ Last(rendered'[T]).to = to /\ EndOf(rendered'[T]) = to
  <2> SUFFICES ASSUME T \notin Fed \cup late
               PROVE  /\ FollowEachOther(rendered'[T])
                      /\ Last(rendered'[T]).to = to /\ EndOf(rendered'[T]) = to
    OBVIOUS
  <2>1. FollowEachOther(parts)
    BY <1>1, <1>3 DEF PartsTileBlock
  <2>2. EndOf(parts) <= to /\ to <= BlockSize
    OBVIOUS
  <2> HIDE DEF T, parts
  <2> QED
    BY <1>1, <1>2, <2>1, <2>2, PartFollows
<1> HIDE DEF T, parts, part
<1>5. \A o \in patch : Runs(o)' <=> Runs(o)
  BY DEF Runs
<1>6. \A i \in 1 .. turn' - 1 : i \in 1 .. turn - 1 \/ (i = turn /\ to = BlockSize)
  <2>1. turn \in Int
    BY <1>1
  <2>2. CASE turn' = turn
    BY <2>1, <2>2
  <2>3. CASE turn' = turn + 1 /\ to = BlockSize
    BY <2>1, <2>3
  <2> QED
    BY <2>2, <2>3
<1>7. PartsTileBlock'
  <2> SUFFICES ASSUME NEW o \in patch \ (Fed \cup late)
               PROVE  /\ FollowEachOther(rendered'[o])
                      /\ \A i \in 1 .. turn' - 1 :
                             nodes[i] = o /\ Runs(o) =>
                                 Last(rendered'[o]).to = BlockSize
    BY <1>1, <1>5 DEF PartsTileBlock
  <2>1. CASE o = T
    BY <1>1, <1>4, <1>6, <2>1
  <2>2. CASE o # T
    <3>1. rendered'[o] = rendered[o] /\ nodes[turn] # o
      BY <1>1, <1>2, <2>2
    <3>2. FollowEachOther(rendered[o])
      BY <1>3 DEF PartsTileBlock
    <3>3. \A i \in 1 .. turn' - 1 :
              nodes[i] = o /\ Runs(o) => Last(rendered[o]).to = BlockSize
      BY <1>3, <1>6, <3>1 DEF PartsTileBlock
    <3> QED
      BY <3>1, <3>2, <3>3
  <2> QED
    BY <2>1, <2>2
<1>8. \A o \in patch : rendered'[o] = <<>> \/ HadTurn(o)'
  <2>1. \A i \in 1 .. turn - 1 : i \in 1 .. turn' - 1
    BY <1>1
  <2>2. \A o \in patch : rendered[o] = <<>> \/ HadTurn(o)
    BY DEF ServedSoFar, Tiled
  <2>3. ASSUME NEW o, o = T
        PROVE  HadTurn(o)'
    <3>1. CASE turn' = turn /\ inLoop'
      BY <1>1, <2>3, <3>1 DEF HadTurn, Turn
    <3>2. CASE turn' = turn + 1
      <4>1. turn \in 1 .. turn' - 1 /\ nodes'[turn] = o
        BY <1>1, <2>3, <3>2
      <4> QED
        BY <4>1 DEF HadTurn
    <3> QED
      BY <3>1, <3>2
  <2>4. ASSUME NEW o \in patch, o # T, HadTurn(o)
        PROVE  HadTurn(o)'
    <3>1. \E i \in 1 .. turn - 1 : nodes[i] = o
      BY <2>4 DEF HadTurn, T
    <3> QED
      BY <1>1, <2>1, <3>1 DEF HadTurn
  <2> QED
    BY <1>2, <2>2, <2>3, <2>4
<1> QED
  BY <1>1, <1>2, <1>4, <1>7, <1>8 DEF T

LEMMA PassOverServed ==
    ASSUME ServedSoFar, PassOver
    PROVE  ServedSoFar'
PROOF
<1>1. /\ phase = "dsp" /\ turn \in 1 .. Len(nodes) /\ Len(nodes) \in Nat
      /\ ~ Runs(Turn) /\ turn' = turn + 1 /\ Turn \in patch
      /\ nodes' = nodes /\ Fed' = Fed
      /\ UNCHANGED <<patch, messageQueue, processFunction, switched,
                     blockStartTimestamp, phase, now, inLoop, rendered, late>>
  BY OnItsTurn DEF PassOver, nodes, Fed
<1>2. ~ inLoop
  BY <1>1 DEF ServedSoFar, Tiled
<1>3. \A i \in 1 .. turn' - 1 : i \in 1 .. turn - 1 \/ i = turn
  BY <1>1
<1>4. DspTyped' /\ Arrived'
  BY <1>1 DEF ServedSoFar, DspTyped, Arrived, IsOfObjects, OfThisBlock
<1>5. Tiled'
  <2>1. PartsTileBlock'
    BY <1>1, <1>3 DEF ServedSoFar, Tiled, PartsTileBlock, Runs, Turn
  <2>2. \A o \in patch : HadTurn(o) => HadTurn(o)'
    BY <1>1, <1>2 DEF HadTurn
  <2> QED
    BY <1>1, <1>2, <2>1, <2>2 DEF ServedSoFar, Tiled, OfThisBlock
<1>6. Consumed'
  <2>1. Around[Turn] \cap Switchable # {}
    BY <1>1, DspAssumption DEF ServedSoFar, DspTyped, Consumed, Runs
  <2> QED
    BY <1>1, <1>3, <2>1 DEF ServedSoFar, Consumed, NoneIsOverlooked, Turn
<1> QED
  BY <1>4, <1>5, <1>6 DEF ServedSoFar

\* Parts that follow each other end inside the block.
LEMMA EndInBlock ==
    ASSUME NEW parts \in Seq(RenderedPart), FollowEachOther(parts)
    PROVE  /\ 0 <= EndOf(parts) /\ EndOf(parts) <= BlockSize
           /\ BlockSize \in Nat
PROOF
<1>1. BlockSize \in Nat
  BY DspAssumption
<1>2. CASE parts = <<>>
  BY <1>1, <1>2 DEF EndOf
<1>3. CASE parts # <<>>
  <2>1. /\ Len(parts) \in 1 .. Len(parts)
        /\ \A i \in 1 .. Len(parts) : parts[i] \in RenderedPart
    BY <1>3, ElementOfSeq, LenProperties, EmptySeq
  <2>2. \A p \in RenderedPart : p.from \in Int /\ p.to \in Int
    BY DEF RenderedPart
  <2> QED
    BY <1>1, <1>3, <2>1, <2>2 DEF EndOf, Last, FollowEachOther
<1> QED
  BY <1>1, <1>2, <1>3

LEMMA ProcessBlockServed ==
    ASSUME ServedSoFar, ProcessBlock
    PROVE  ServedSoFar'
PROOF
<1>1. /\ OnTurn /\ Runs(Turn) /\ processFunction[Turn] # "message"
      /\ Render(0, BlockSize) /\ turn' = turn + 1
      /\ UNCHANGED <<patch, messageQueue, processFunction, switched,
                     blockStartTimestamp, phase, now, inLoop, late>>
  BY DEF ProcessBlock
<1>2. /\ phase = "dsp" /\ turn \in 1 .. Len(nodes) /\ Len(nodes) \in Nat
      /\ Turn \in patch /\ ~ inLoop /\ rendered[Turn] = <<>>
      /\ EndOf(rendered[Turn]) = 0 /\ BlockSize \in Nat
      /\ nodes' = nodes /\ Fed' = Fed
  BY <1>1, OnItsTurn, DspAssumption DEF ServedSoFar, Tiled, EndOf, nodes, Fed
<1>3. /\ rendered' \in [patch -> Seq(RenderedPart)]
      /\ PartsTileBlock'
      /\ \A o \in patch : rendered'[o] = <<>> \/ HadTurn(o)'
      /\ turn' \in 1 .. Len(nodes) + 1
  BY <1>1, <1>2, RenderTiles
<1>4. DspTyped' /\ Arrived'
  BY <1>1, <1>2, <1>3 DEF ServedSoFar, DspTyped, Arrived, IsOfObjects,
              OfThisBlock
<1>5. Tiled'
  BY <1>1, <1>2, <1>3 DEF ServedSoFar, Tiled, OfThisBlock
<1>6. Consumed'
  <2>1. Turn \in Handles \ Adapts => messageQueue[Turn] = <<>>
    BY <1>1, <1>2 DEF ServedSoFar, Consumed, NoneIsOverlooked
  <2>2. \A i \in 1 .. turn' - 1 : i \in 1 .. turn - 1 \/ i = turn
    BY <1>1, <1>2
  <2> QED
    BY <1>1, <1>2, <2>1, <2>2 DEF ServedSoFar, Consumed, NoneIsOverlooked, Turn
<1> QED
  BY <1>4, <1>5, <1>6 DEF ServedSoFar

LEMMA ProcessRestServed ==
    ASSUME ServedSoFar, ProcessRest
    PROVE  ServedSoFar'
PROOF
<1>1. /\ OnTurn /\ inLoop /\ messageQueue[Turn] = <<>>
      /\ Render(blockIndexOfLastMessage, BlockSize)
      /\ processFunction' = [processFunction EXCEPT ![Turn] = "noMessage"]
      /\ inLoop' = FALSE /\ turn' = turn + 1
      /\ UNCHANGED <<patch, messageQueue, switched, blockStartTimestamp, phase,
                     now, late>>
  BY DEF ProcessRest
<1>2. /\ phase = "dsp" /\ turn \in 1 .. Len(nodes) /\ Len(nodes) \in Nat
      /\ Turn \in patch /\ rendered[Turn] \in Seq(RenderedPart)
      /\ EndOf(rendered[Turn]) = blockIndexOfLastMessage
      /\ BlockSize \in Nat
      /\ nodes' = nodes /\ Fed' = Fed
  BY <1>1, OnItsTurn, DspAssumption DEF nodes, Fed
<1>3. Turn \notin Fed \cup late => EndOf(rendered[Turn]) <= BlockSize
  BY <1>2, EndInBlock DEF ServedSoFar, Tiled, PartsTileBlock
<1>4. /\ rendered' \in [patch -> Seq(RenderedPart)]
      /\ PartsTileBlock'
      /\ \A o \in patch : rendered'[o] = <<>> \/ HadTurn(o)'
      /\ turn' \in 1 .. Len(nodes) + 1
  BY <1>1, <1>2, <1>3, RenderTiles
<1>5. /\ processFunction' \in [patch -> {"noMessage", "message", "other"}]
      /\ \A o \in patch \ {Turn} : processFunction'[o] = processFunction[o]
      /\ processFunction'[Turn] = "noMessage"
  BY <1>1, <1>2 DEF ServedSoFar, DspTyped
<1>6. DspTyped' /\ Arrived'
  BY <1>1, <1>2, <1>4, <1>5 DEF ServedSoFar, DspTyped, Arrived, IsOfObjects,
              OfThisBlock
<1>7. Tiled'
  BY <1>1, <1>2, <1>4 DEF ServedSoFar, Tiled, OfThisBlock
<1>8. Consumed'
  BY <1>1, <1>2, <1>5 DEF ServedSoFar, Consumed, NoneIsOverlooked, Turn
<1> QED
  BY <1>6, <1>7, <1>8 DEF ServedSoFar

LEMMA EndProcessServed ==
    ASSUME ServedSoFar, EndProcess
    PROVE  ServedSoFar'
PROOF
<1>1. /\ phase = "dsp" /\ phase' = "idle" /\ turn' = 1
      /\ ~ inLoop' /\ inLoop' = inLoop
      /\ blockStartTimestamp' = blockStartTimestamp + BlockTicks
      /\ rendered' = [o \in patch |-> <<>>]
      /\ UNCHANGED <<patch, messageQueue, processFunction, switched, now>>
      /\ late' = {o \in late : messageQueue[o] # <<>>}
      /\ nodes' = nodes /\ Fed' = Fed
      /\ Len(nodes) \in Nat
  <2>1. Len(nodes) \in Nat /\ turn \in Int
    BY NodesOfPatch DEF ServedSoFar, DspTyped
  <2> QED
    BY <2>1 DEF EndProcess, ServedSoFar, Tiled, nodes, Fed
<1>2. BlockTicks \in Nat
  BY DspAssumption DEF BlockTicks
<1>3. DspTyped'
  BY <1>1, <1>2 DEF ServedSoFar, DspTyped, IsOfObjects
<1>4. Arrived'
  <2>1. InOrder(<<>>)
    BY DEF InOrder
  <2> QED
    BY <1>1, <2>1 DEF ServedSoFar, Arrived
<1>5. Tiled'
  BY <1>1, TiledAtRest
<1>6. Consumed'
  BY <1>1 DEF ServedSoFar, Consumed, NoneIsOverlooked
<1> QED
  BY <1>3, <1>4, <1>5, <1>6 DEF ServedSoFar

\* A step that leaves DspObject's state alone.
LEMMA StillServed ==
    ASSUME ServedSoFar, UNCHANGED dspVars
    PROVE  ServedSoFar'
PROOF
<1>1. /\ UNCHANGED <<patch, messageQueue, processFunction, switched,
                     blockStartTimestamp, phase, now, turn, inLoop, rendered,
                     late>>
      /\ nodes' = nodes /\ Fed' = Fed
  BY DEF dspVars, nodes, Fed
<1>2. Turn' = Turn
  BY <1>1 DEF Turn
<1>3. blockIndexOfLastMessage' = blockIndexOfLastMessage
  BY <1>1, <1>2 DEF blockIndexOfLastMessage
<1>4. DspTyped' /\ Arrived' /\ Consumed'
  BY <1>1 DEF ServedSoFar, DspTyped, Arrived, Consumed, IsOfObjects,
              NoneIsOverlooked, OfThisBlock
<1>5. Tiled'
  BY <1>1, <1>2, <1>3 DEF ServedSoFar, Tiled, HadTurn, PartsTileBlock, Runs,
                          BlockIndex, OfThisBlock
<1> QED
  BY <1>4, <1>5 DEF ServedSoFar

\* The object whose turn it is handles its first message, and those that hear
\* of it have yet to run.
LEMMA ProcessMessageServed ==
    ASSUME ServedSoFar, FeedsOnward,
           NEW receivers \in SUBSET Feeds[Turn], NEW answer,
           ProcessMessage(receivers, answer)
    PROVE  ServedSoFar'
PROOF
<1> DEFINE q == messageQueue[Turn]
           time == Head(q).time
           to == BlockIndex(time)
           e == [time |-> time, message |-> answer]
           fed == {o \in receivers : isSwitchedOn(o)}
           all(o) == IF o \in fed THEN Append(messageQueue[o], e)
                                  ELSE messageQueue[o]
<1>1. /\ OnTurn /\ Runs(Turn) /\ processFunction[Turn] = "message"
      /\ q # <<>>
      /\ Render(blockIndexOfLastMessage, to)
      /\ inLoop' = TRUE
      /\ UNCHANGED <<patch, switched, blockStartTimestamp, phase, now, turn,
                     late>>
  BY DEF ProcessMessage
<1>2. /\ phase = "dsp" /\ turn \in 1 .. Len(nodes) /\ Len(nodes) \in Nat
      /\ Turn \in patch /\ Turn = nodes[turn]
      /\ EndOf(rendered[Turn]) = blockIndexOfLastMessage
      /\ EndOf(rendered[Turn]) \in Int
      /\ inLoop \/ EndOf(rendered[Turn]) = 0
      /\ nodes' = nodes /\ Fed' = Fed /\ Turn' = Turn
  BY <1>1, OnItsTurn DEF nodes, Fed, Turn, EndOf
<1>3. /\ patch \in Patches /\ IsOfObjects(messageQueue)
      /\ \A o \in patch : /\ IsList(messageQueue[o])
                          /\ \A i \in 1 .. Len(messageQueue[o]) :
                                 messageQueue[o][i].time \in Int
      /\ processFunction \in [patch -> {"noMessage", "message", "other"}]
      /\ blockStartTimestamp \in Int /\ now \in Int
  BY DEF ServedSoFar, DspTyped
<1>4. /\ receivers \subseteq patch /\ receivers \subseteq Fed
      /\ \A i \in 1 .. turn - 1 : nodes[i] \notin receivers
  <2>1. receivers \subseteq patch /\ receivers \subseteq Fed
    BY <1>2, <1>3, DspAssumption DEF Fed
  <2>2. \A i \in 1 .. turn - 1 : nodes[i] \notin Feeds[Turn]
    BY <1>2, <1>3 DEF FeedsOnward, nodes
  <2> QED
    BY <2>1, <2>2
<1>5. /\ IsList(q) /\ Len(q) \in Nat \ {0} /\ Head(q) = q[1]
      /\ \A i \in 1 .. Len(q) : q[i].time \in Int
      /\ time \in Int /\ time = q[1].time
  BY <1>2, <1>3, <1>1, TailList
<1>6. /\ messageQueue' =
             [o \in patch |-> IF o = Turn THEN Tail(all(o)) ELSE all(o)]
      /\ processFunction' =
             [o \in patch |-> IF o \in fed THEN noticed(o)[o]
                                           ELSE processFunction[o]]
  BY <1>3, <1>4 DEF queued, IsOfObjects, ProcessMessage
<1>7. fed \subseteq receivers
  OBVIOUS
<1> HIDE DEF q, time, to, fed
<1>8. \A o \in patch :
          /\ IsList(all(o)) /\ (o = Turn => all(o) # <<>>)
          /\ \A i \in 1 .. Len(all(o)) : all(o)[i].time \in Int
  <2> SUFFICES ASSUME NEW o \in patch
               PROVE  /\ IsList(all(o)) /\ (o = Turn => all(o) # <<>>)
                      /\ \A i \in 1 .. Len(all(o)) : all(o)[i].time \in Int
    OBVIOUS
  <2> DEFINE p == messageQueue[o]
  <2>1. IsList(p) /\ \A i \in 1 .. Len(p) : p[i].time \in Int
    BY <1>3
  <2>2. e.time \in Int
    BY <1>5
  <2>3. o = Turn => p # <<>>
    BY <1>1 DEF q
  <2> HIDE DEF p, e
  <2>4. CASE o \in fed
    BY <2>1, AppendList, <2>4, <2>2 DEF p
  <2>5. CASE o \notin fed
    BY <2>1, <2>3, <2>5 DEF p
  <2> QED
    BY <2>4, <2>5
<1>9. \A o \in patch :
          /\ IsList(messageQueue'[o])
          /\ \A i \in 1 .. Len(messageQueue'[o]) :
                 messageQueue'[o][i].time \in Int
          /\ o \notin receivers /\ o # Turn =>
                 messageQueue'[o] = messageQueue[o]
          /\ o \notin receivers /\ o = Turn => messageQueue'[o] = Tail(q)
  <2> SUFFICES ASSUME NEW o \in patch
               PROVE  /\ IsList(messageQueue'[o])
                      /\ \A i \in 1 .. Len(messageQueue'[o]) :
                             messageQueue'[o][i].time \in Int
                      /\ o \notin receivers /\ o # Turn =>
                             messageQueue'[o] = messageQueue[o]
                      /\ o \notin receivers /\ o = Turn =>
                             messageQueue'[o] = Tail(q)
    OBVIOUS
  <2>1. messageQueue'[o] = IF o = Turn THEN Tail(all(o)) ELSE all(o)
    BY <1>6
  <2>2. o \notin receivers => all(o) = messageQueue[o]
    BY <1>7
  <2> DEFINE a == all(o)
             r == Tail(a)
  <2>3. /\ IsList(a) /\ (o = Turn => a # <<>>)
        /\ \A i \in 1 .. Len(a) : a[i].time \in Int
    BY <1>8
  <2>4. o \notin receivers => a = messageQueue[o]
    BY <2>2
  <2> HIDE DEF a
  <2>5. ASSUME o = Turn
        PROVE  IsList(r) /\ \A i \in 1 .. Len(r) : r[i].time \in Int
    BY <2>3, <2>5, TailList
  <2>6. messageQueue'[o] = IF o = Turn THEN r ELSE a
    BY <2>1 DEF a
  <2>7. o = Turn /\ o \notin receivers => r = Tail(q)
    BY <2>4 DEF q
  <2> HIDE DEF r
  <2> QED
    BY <2>3, <2>4, <2>5, <2>6, <2>7
<1>10. /\ processFunction' \in [patch -> {"noMessage", "message", "other"}]
       /\ \A o \in patch \ receivers :
              processFunction'[o] = processFunction[o]
       /\ \A o \in patch :
              /\ processFunction[o] = "message" => processFunction'[o] = "message"
              /\ processFunction'[o] = "other" => processFunction[o] = "other"
              /\ o \in fed /\ processFunction[o] # "other" =>
                     processFunction'[o] = "message"
              /\ o \notin fed => processFunction'[o] = processFunction[o]
  <2>1. \A o \in patch :
            processFunction'[o] =
                IF o \in fed /\ processFunction[o] = "noMessage"
                THEN "message" ELSE processFunction[o]
    BY <1>3, <1>6 DEF noticed
  <2>2. processFunction' = [o \in patch |-> processFunction'[o]]
    BY <1>6
  <2> QED
    BY <1>3, <1>7, <2>1, <2>2
<1> HIDE DEF all
<1>11. Turn \notin Fed \cup late =>
           EndOf(rendered[Turn]) <= to /\ to <= BlockSize /\ to \in Int
  <2> SUFFICES ASSUME Turn \notin Fed \cup late
               PROVE  EndOf(rendered[Turn]) <= to /\ to <= BlockSize /\ to \in Int
    OBVIOUS
  <2>1. 1 \in 1 .. Len(q)
    BY <1>5
  <2>2. blockStartTimestamp <= time /\ time < blockStartTimestamp + BlockTicks
    BY <1>2, <1>5, <2>1 DEF ServedSoFar, q, Tiled, OfThisBlock
  <2>3. to \in 0 .. BlockSize /\ BlockSize \in Nat
    BY DspAssumption, <1>3, <1>5, <2>2, IndexInBlock DEF BlockTicks, to
  <2>4. inLoop => EndOf(rendered[Turn]) <= to
    BY <2>1, <1>2, <1>5 DEF ServedSoFar, Tiled, q, to
  <2> QED
    BY <1>2, <2>3, <2>4
<1>12. to \in Int
  BY <1>3, <1>5, IndexMonotone DEF to
<1>13. /\ rendered' \in [patch -> Seq(RenderedPart)]
       /\ PartsTileBlock'
       /\ \A o \in patch : rendered'[o] = <<>> \/ HadTurn(o)'
       /\ Turn \notin Fed \cup late => EndOf(rendered'[Turn]) = to
       /\ turn' \in 1 .. Len(nodes) + 1
  BY <1>1, <1>2, <1>11, <1>12, RenderTiles
<1>14. DspTyped'
  <2>1. IsOfObjects(messageQueue)'
    BY <1>1, <1>6 DEF IsOfObjects
  <2> QED
    BY <1>1, <1>2, <1>9, <1>10, <1>13, <2>1 DEF ServedSoFar, DspTyped
<1>15. Arrived'
  <2>1. ASSUME NEW o \in patch \ (Fed \cup late)
        PROVE  InOrder(messageQueue'[o])
    <3>1. InOrder(messageQueue[o])
      BY <1>2 DEF ServedSoFar, Arrived
    <3>2. o \notin receivers
      BY <1>4
    <3>3. CASE o = Turn
      <4>1. messageQueue'[o] = Tail(q) /\ InOrder(q)
        BY <1>9, <3>1, <3>2, <3>3 DEF q
      <4> QED
        BY <1>1, <1>5, <4>1, OrderShrinks
    <3>4. CASE o # Turn
      BY <1>9, <3>1, <3>2, <3>4
    <3> QED
      BY <3>3, <3>4
  <2> QED
    BY <1>1, <1>2, <2>1 DEF ServedSoFar, Arrived, OfThisBlock
<1>16. Tiled'
  <2>1. ASSUME NEW o \in patch \ (Fed \cup late)
        PROVE  \A i \in 1 .. Len(messageQueue'[o]) :
                   OfThisBlock(messageQueue'[o][i].time)
    <3>1. \A i \in 1 .. Len(messageQueue[o]) :
              OfThisBlock(messageQueue[o][i].time)
      BY <1>2 DEF ServedSoFar, Tiled
    <3>2. o \notin receivers
      BY <1>4
    <3>3. CASE o = Turn
      <4>1. /\ messageQueue'[o] = Tail(q)
            /\ \A i \in 1 .. Len(q) : OfThisBlock(q[i].time)
        BY <1>9, <3>1, <3>2, <3>3 DEF q
      <4> QED
        BY <1>1, <1>5, <4>1, TailList
    <3>4. CASE o # Turn
      BY <1>9, <3>1, <3>2, <3>4
    <3> QED
      BY <3>3, <3>4
  <2>2. ASSUME Turn \notin Fed \cup late
        PROVE  \A i \in 1 .. Len(messageQueue'[Turn]) :
                   to <= BlockIndex(messageQueue'[Turn][i].time)
    <3>1. InOrder(q)
      BY <1>2, <2>2 DEF ServedSoFar, Arrived, q
    <3>2. \A i \in 1 .. Len(q) : q[1].time <= q[i].time
      BY <1>1, <1>5, <3>1, OrderShrinks
    <3>3. messageQueue'[Turn] = Tail(q)
      BY <1>2, <1>4, <1>9, <2>2
    <3>4. /\ Len(Tail(q)) = Len(q) - 1
          /\ \A i \in 1 .. Len(q) - 1 : Tail(q)[i] = q[i + 1]
      BY <1>1, <1>5, TailList
    <3>5. ASSUME NEW i \in 1 .. Len(q) - 1
          PROVE  to <= BlockIndex(Tail(q)[i].time)
      <4>1. /\ i + 1 \in 1 .. Len(q) /\ Tail(q)[i] = q[i + 1]
            /\ q[i + 1].time \in Int /\ time <= q[i + 1].time
        BY <1>5, <3>2, <3>4
      <4> QED
        BY <1>3, <1>5, <4>1, IndexMonotone DEF to
    <3> QED
      BY <3>3, <3>4, <3>5
  <2>4. Turn \notin Fed \cup late => blockIndexOfLastMessage' = to
    BY <1>2, <1>13 DEF blockIndexOfLastMessage, EndOf
  <2>5. inLoop' => /\ turn' <= Len(nodes) /\ Runs(Turn)'
                   /\ processFunction'[Turn] = "message"
    BY <1>1, <1>2, <1>10 DEF Runs
  <2>6. (inLoop /\ Turn \notin Fed \cup late =>
            \A i \in 1 .. Len(messageQueue[Turn]) :
                blockIndexOfLastMessage <= BlockIndex(messageQueue[Turn][i].time))'
    BY <1>1, <1>2, <2>2, <2>4 DEF BlockIndex
  <2> QED
    BY <1>1, <1>2, <1>13, <2>1, <2>5, <2>6 DEF Tiled, OfThisBlock
<1>17. Consumed'
  <2>1. ASSUME NEW o \in patch \cap (Handles \ Adapts),
               processFunction'[o] # "message"
        PROVE  messageQueue'[o] = <<>>
    <3>1. processFunction[o] # "message" /\ o \notin fed /\ o # Turn
      BY <1>1, <1>10, <2>1 DEF ServedSoFar, Consumed
    <3>2. messageQueue'[o] = messageQueue[o]
      BY <1>6, <3>1 DEF all
    <3> QED
      BY <3>1, <3>2 DEF ServedSoFar, Consumed, NoneIsOverlooked
  <2>2. ASSUME NEW i \in 1 .. turn - 1
        PROVE  messageQueue'[nodes[i]] = messageQueue[nodes[i]]
    <3>1. nodes[i] # Turn /\ nodes[i] \in patch
      BY <1>1, <1>2, OnItsTurn, NodesOfPatch, <1>3
    <3> QED
      BY <1>4, <1>9, <3>1
  <2> QED
    BY <1>1, <1>2, <1>10, <2>1, <2>2
       DEF ServedSoFar, Consumed, NoneIsOverlooked
<1> QED
  BY <1>14, <1>15, <1>16, <1>17 DEF ServedSoFar

-----------------------------------------------------------------------------
(***************************************************************************)
(* Every step.                                                             *)
(***************************************************************************)

LEMMA InitServed ==
    ASSUME Init
    PROVE  ServedSoFar
PROOF
<1>1. /\ patch \in Patches
      /\ messageQueue = [o \in patch |-> <<>>]
      /\ processFunction =
             [o \in patch |-> IF o \in Handles THEN "noMessage" ELSE "other"]
      /\ switched = Graphs /\ blockStartTimestamp = 0 /\ phase = "idle"
      /\ now = 0 /\ turn = 1 /\ inLoop = FALSE
      /\ rendered = [o \in patch |-> <<>>] /\ late = {}
  BY DEF Init, DspInit
<1>2. Len(nodes) \in Nat
  BY <1>1, NodesOfPatch
<1>3. \A o \in patch : /\ IsList(messageQueue[o])
                       /\ \A i \in 1 .. Len(messageQueue[o]) : FALSE
  <2>1. \A i \in 1 .. Len(<<>>) : FALSE
    OBVIOUS
  <2> QED
    BY <1>1, <2>1, EmptyList
<1>4. DspTyped
  <2>1. rendered \in [patch -> Seq(RenderedPart)]
    BY <1>1
  <2>2. processFunction \in [patch -> {"noMessage", "message", "other"}]
    BY <1>1
  <2>3. IsOfObjects(messageQueue)
    BY <1>1 DEF IsOfObjects
  <2>4. /\ turn \in 1 .. Len(nodes) + 1 /\ late \in SUBSET patch
        /\ switched \in SUBSET Graphs /\ inLoop \in BOOLEAN
    <3>1. turn \in 1 .. Len(nodes) + 1
      BY <1>1, <1>2
    <3>2. late \in SUBSET patch /\ switched \in SUBSET Graphs
      BY <1>1
    <3>3. inLoop \in BOOLEAN
      BY <1>1
    <3> QED
      BY <3>1, <3>2, <3>3
  <2>5. \A o \in patch : \A i \in 1 .. Len(messageQueue[o]) :
            messageQueue[o][i].time \in Int
    BY <1>3
  <2> QED
    BY <1>1, <1>3, <2>1, <2>2, <2>3, <2>4, <2>5 DEF DspTyped
<1>5. Arrived
  BY <1>1, <1>3 DEF Arrived, InOrder
<1>6. Tiled
  <2>1. FollowEachOther(<<>>) /\ \A i \in 1 .. turn - 1 : FALSE
    BY <1>1 DEF FollowEachOther
  <2> QED
    BY <1>1, <2>1 DEF Tiled, PartsTileBlock
<1>7. Consumed
  BY <1>1, DspAssumption DEF Consumed, NoneIsOverlooked
<1> QED
  BY <1>4, <1>5, <1>6, <1>7 DEF ServedSoFar

LEMMA NextServed ==
    ASSUME FeedsOnward, ServedSoFar, [Next]_vars
    PROVE  ServedSoFar'
PROOF
<1>1. CASE UNCHANGED vars
  BY <1>1, StillServed DEF vars
<1>2. ASSUME NEW o \in patch, Tell(o)
      PROVE  ServedSoFar'
  BY <1>2, TellServed DEF Tell
<1>3. ASSUME NEW o \in patch, Connect(o)
      PROVE  ServedSoFar'
  BY <1>3, ConnectServed DEF Connect
<1>4. CASE ResizeTable
  BY <1>4, StillServed DEF ResizeTable
<1>5. CASE ComputeBlock
  BY <1>5, ProcessBlockServed DEF ComputeBlock
<1>6. CASE ComputeToMessage
  <2> DEFINE entry == Head(messageQueue[Turn])
             bang == Kind[Turn] = "snapshot~" /\ entry.message.selector = "bang"
             receivers == IF bang THEN Feeds[Turn] ELSE {}
             answer == IF bang THEN DspSnapshot(Turn, entry) ELSE entry.message
  <2>1. ProcessMessage(receivers, answer)
    BY <1>6 DEF ComputeToMessage
  <2>2. receivers \in SUBSET Feeds[Turn]
    OBVIOUS
  <2> HIDE DEF receivers, answer
  <2> QED
    BY <2>1, <2>2, ProcessMessageServed
<1>7. CASE ComputeRest
  BY <1>7, ProcessRestServed DEF ComputeRest
<1>8. CASE BeginBlock
  BY <1>8, BeginProcessServed DEF BeginBlock
<1>9. CASE EndBlock
  BY <1>9, EndProcessServed DEF EndBlock
<1>10. CASE OtherStep
  BY <1>10, SwitchServed, BeginDspServed, PassOverServed DEF OtherStep
<1> QED
  BY <1>1, <1>2, <1>3, <1>4, <1>5, <1>6, <1>7, <1>8, <1>9, <1>10 DEF Next

LEMMA ServedIsServed ==
    ASSUME ServedSoFar
    PROVE  QueueIsServed
PROOF
<1>1. PartsTileBlock /\ NoneIsOverlooked
  BY DEF ServedSoFar, Tiled, Consumed
<1>2. ConsumedInBlock
  <2> SUFFICES ASSUME phase = "dsp", turn > Len(nodes),
                      NEW o \in patch \cap (Handles \ Adapts),
                      Around[o] \cap Switchable = {}
               PROVE  messageQueue[o] = <<>>
    BY DEF ConsumedInBlock
  <2>1. /\ Len(nodes) \in Nat /\ turn \in Int
        /\ \E i \in 1 .. Len(nodes) : nodes[i] = o
    BY NodesOfPatch DEF ServedSoFar, DspTyped
  <2>2. PICK i \in 1 .. turn - 1 : nodes[i] = o
    BY <2>1
  <2> QED
    BY <2>2 DEF ServedSoFar, Consumed
<1> QED
  BY <1>1, <1>2 DEF QueueIsServed

\* Whatever the patch, as long as an object that sends while the graph runs
\* sends to those after it, and however connections and switches change: each
\* object renders its block in parts that join, from its start to its end, and
\* keeps no message past its turn, nor one that it does not look for
\* (DspObject::processFunctionMessage, PdGraph::processGraph).
THEOREM ServiceCorrect ==
    ASSUME FeedsOnward
    PROVE  Spec => []QueueIsServed
PROOF
  BY InitServed, NextServed, ServedIsServed, PTL DEF Spec

-----------------------------------------------------------------------------
(***************************************************************************)
(* What each object makes of a sample, in every build.                     *)
(***************************************************************************)

\* d is the record of an object with a buffer and, if it computes with one, a
\* number.
Numeric(o, d) ==
    /\ d = [f \in DOMAIN d |-> d[f]]
    /\ "out" \in DOMAIN d /\ DOMAIN d.out = Part(0, BlockSize)
    /\ Kind[o] \notin Fixed => "constant" \in DOMAIN d

\* Fours fill a part that begins and ends at multiples of four.
LEMMA FoursFill ==
    ASSUME NEW b \in {"SSE", "NEON"}, NEW from \in Int, NEW to \in Int,
           from % 4 = 0, to % 4 = 0
    PROVE  /\ firstFour(b, from) = from
           /\ lastFour(firstFour(b, from), to) = to
PROOF
  BY DEF firstFour, lastFour

\* The operations with a constant, on a part that they compute alike.
LEMMA ConstantApplied ==
    ASSUME NEW b \in Builds, NEW from \in Int, NEW to \in Int,
           b = "plain" \/ (from % 4 = 0 /\ to % 4 = 0),
           NEW x, NEW c, NEW y, NEW k \in DOMAIN y, k \in Part(from, to)
    PROVE  /\ addConstant(b, x, c, y, from, to)[k] = x[k] + c
           /\ subtractConstant(b, x, c, y, from, to)[k] = x[k] - c
           /\ multiplyConstant(b, x, c, y, from, to)[k] = x[k] * c
           /\ divideConstant(b, x, c, y, from, to)[k] = x[k] \div c
PROOF
<1>1. b = "plain" \/ k \in Part(firstFour(b, from),
                               lastFour(firstFour(b, from), to))
  <2>1. b # "plain" => b \in {"SSE", "NEON"}
    BY DEF Builds
  <2> QED
    BY <2>1, FoursFill
<1>2. \/ dividing(b) = "plain"
      \/ k \in Part(firstFour(dividing(b), from),
                    lastFour(firstFour(dividing(b), from), to))
  BY <1>1 DEF dividing
<1> QED
  BY <1>1, <1>2 DEF addConstant, subtractConstant, multiplyConstant,
        divideConstant, withConstant, Plus, Minus, Times, Over

\* Outside of the part they leave what there was.
LEMMA ConstantKeeps ==
    ASSUME NEW b, NEW from, NEW to, NEW x, NEW c, NEW y
    PROVE  /\ DOMAIN addConstant(b, x, c, y, from, to) = DOMAIN y
           /\ DOMAIN subtractConstant(b, x, c, y, from, to) = DOMAIN y
           /\ DOMAIN multiplyConstant(b, x, c, y, from, to) = DOMAIN y
           /\ DOMAIN divideConstant(b, x, c, y, from, to) = DOMAIN y
           /\ \A k \in DOMAIN y : k \notin Part(from, to) =>
                  /\ addConstant(b, x, c, y, from, to)[k] = y[k]
                  /\ subtractConstant(b, x, c, y, from, to)[k] = y[k]
                  /\ multiplyConstant(b, x, c, y, from, to)[k] = y[k]
                  /\ divideConstant(b, x, c, y, from, to)[k] = y[k]
PROOF
  BY DEF addConstant, subtractConstant, multiplyConstant, divideConstant,
         withConstant

\* NEON divides as the plain build does.
LEMMA DivisionApplied ==
    ASSUME NEW from, NEW to, NEW x, NEW c, NEW y, NEW k \in DOMAIN y,
           k \in Part(from, to)
    PROVE  divideConstant("NEON", x, c, y, from, to)[k] = x[k] \div c
PROOF
  BY DEF divideConstant, withConstant, dividing, Over

\* What each kind computes a part with.
LEMMA PartOfKind ==
    ASSUME NEW o, NEW d, NEW x, NEW from, NEW to
    PROVE  LET e == ProcessPart(o, d, x, from, to) IN
           /\ Kind[o] = "+~" => e = DspAdd(build, d, x, from, to)
           /\ Kind[o] = "-~" => e = DspSubtract(build, d, x, from, to)
           /\ Kind[o] = "*~" => e = DspMultiply(build, d, x, from, to)
           /\ Kind[o] = "/~" => e = DspDivide(build, d, x, from, to)
           /\ Kind[o] = "min~" => e = DspMinimum(d, x, from, to)
           /\ Kind[o] = "sig~" => e = DspSignal(build, d, from, to)
           /\ Kind[o] = "clip~" => e = DspClip(d, x, from, to)
           /\ Kind[o] = "wrap~" => e = DspWrap(d, x, to)
           /\ Kind[o] = "log~" => e = DspLog(build, d, x, from, to)
           /\ Kind[o] = "sqrt~" => e = DspSqrt(build, d, x, to, Outside)
           /\ Kind[o] = "rsqrt~" => e = DspReciprocalSqrt(d, x, to)
           /\ Kind[o] = "cos~" => e = DspCosine(d, x, SampleRate, from, to)
PROOF
  BY DEF ProcessPart, Filters

\* A number makes no difference to what has none.
LEMMA FixedBecomes ==
    ASSUME NEW kind \in Fixed, NEW x, NEW a, NEW b
    PROVE  Becomes(build, kind, x, a) = Becomes(build, kind, x, b)
PROOF
  BY DEF Becomes, Fixed

\* Computing a part, of a kind each: the samples in it are what they should
\* become, and the others stay, but for those that have no setting.
PartIsRight(o, d, e, x, c, from, to) ==
    /\ Numeric(o, e)
    /\ Kind[o] \notin Fixed => e.constant = d.constant
    /\ \A k \in Part(0, BlockSize) :
           IF k \in Part(from, to)
           THEN Exact(o, [from |-> from, to |-> to]) =>
                    e.out[k] = Becomes(build, Kind[o], x[1][k], c)
           ELSE \/ e.out[k] = d.out[k]
                \/ /\ Kind[o] \in Fixed
                   /\ e.out[k] = Becomes(build, Kind[o], x[1][k], c)

LEMMA WithNumber ==
    ASSUME NEW o, Kind[o] \in {"+~", "-~", "*~", "/~"}, NEW d, Numeric(o, d),
           NEW x, NEW from \in Int, NEW to \in Int, build \in Builds
    PROVE  PartIsRight(o, d, ProcessPart(o, d, x, from, to), x, d.constant,
                       from, to)
PROOF
<1> DEFINE e == ProcessPart(o, d, x, from, to)
           y == d.out
           r == CASE Kind[o] = "+~" ->
                       addConstant(build, x[1], d.constant, y, from, to)
                  [] Kind[o] = "-~" ->
                       subtractConstant(build, x[1], d.constant, y, from, to)
                  [] Kind[o] = "*~" ->
                       multiplyConstant(build, x[1], d.constant, y, from, to)
                  [] Kind[o] = "/~" ->
                       divideConstant(build, x[1], d.constant, y, from, to)
<1>1. e = [d EXCEPT !.out = r]
  BY PartOfKind DEF DspAdd, DspSubtract, DspMultiply, DspDivide
<1>2. /\ DOMAIN r = Part(0, BlockSize)
      /\ \A k \in Part(0, BlockSize) :
             k \notin Part(from, to) => r[k] = y[k]
  BY ConstantKeeps DEF Numeric
<1>3. ASSUME NEW k \in Part(0, BlockSize), k \in Part(from, to),
             Exact(o, [from |-> from, to |-> to])
      PROVE  r[k] = Becomes(build, Kind[o], x[1][k], d.constant)
  BY <1>3, ConstantApplied, DivisionApplied DEF Exact, Fixed, Numeric, Becomes
<1> HIDE DEF r, e
<1>4. /\ Numeric(o, e) /\ e.constant = d.constant /\ e.out = r
  BY <1>1, <1>2 DEF Numeric, Fixed
<1>5. e.constant = d.constant
  BY <1>4
<1> QED
  BY <1>2, <1>3, <1>4, <1>5 DEF PartIsRight, e

LEMMA OtherKinds ==
    ASSUME NEW o, Kind[o] \in {"min~", "sig~", "clip~"}, NEW d, Numeric(o, d),
           NEW x, NEW from \in Int, NEW to \in Int
    PROVE  PartIsRight(o, d, ProcessPart(o, d, x, from, to), x, d.constant,
                       from, to)
PROOF
<1> DEFINE e == ProcessPart(o, d, x, from, to)
           y == d.out
           v(k) == Becomes(build, Kind[o], x[1][k], d.constant)
<1>1. e = [d EXCEPT !.out = [k \in DOMAIN y |->
                                 IF k \in Part(from, to) THEN v(k) ELSE y[k]]]
  BY PartOfKind DEF DspMinimum, Becomes, Least, DspSignal, fill, DspClip
<1>2. Kind[o] \notin Fixed
  BY DEF Fixed
<1> HIDE DEF e, v
<1>3. /\ Numeric(o, e) /\ e.constant = d.constant
      /\ \A k \in Part(0, BlockSize) :
             e.out[k] = IF k \in Part(from, to) THEN v(k) ELSE y[k]
  BY <1>1, <1>2 DEF Numeric
<1> QED
  BY <1>3, <1>2 DEF PartIsRight, e, v

LEMMA FixedKinds ==
    ASSUME NEW o, Kind[o] \in Fixed, NEW d, Numeric(o, d), NEW c,
           NEW x, NEW from \in Int, NEW to \in Int
    PROVE  PartIsRight(o, d, ProcessPart(o, d, x, from, to), x, c, from, to)
PROOF
<1> DEFINE e == ProcessPart(o, d, x, from, to)
           y == d.out
           v(k) == Becomes(build, Kind[o], x[1][k], c)
           in(k) == IF Kind[o] = "cos~" THEN k \in Part(from, to) ELSE k < to
<1>1. BlockSize \in Int /\ \A k \in DOMAIN y : k \in Int
  BY DspAssumption DEF Numeric, Part
<1>2. e = [d EXCEPT !.out = [k \in DOMAIN y |-> IF in(k) THEN v(k) ELSE y[k]]]
  <2>1. CASE Kind[o] = "wrap~"
    BY <2>1, PartOfKind DEF DspWrap, Becomes
  <2>2. CASE Kind[o] = "sqrt~"
    BY <1>1, <2>2, PartOfKind DEF Becomes, DspSqrt
  <2>3. CASE Kind[o] = "rsqrt~"
    BY <1>1, <2>3, PartOfKind DEF Becomes, DspReciprocalSqrt
  <2>4. CASE Kind[o] = "cos~"
    BY <2>4, PartOfKind DEF Becomes, DspCosine
  <2> QED
    BY <2>1, <2>2, <2>3, <2>4 DEF Fixed
<1> HIDE DEF e, v
<1>3. /\ Numeric(o, e)
      /\ \A k \in Part(0, BlockSize) :
             e.out[k] = IF in(k) THEN v(k) ELSE y[k]
  BY <1>2 DEF Numeric
<1>4. \A k \in Part(0, BlockSize) :
          IF k \in Part(from, to) THEN e.out[k] = v(k)
          ELSE e.out[k] = y[k] \/ e.out[k] = v(k)
  BY <1>1, <1>3 DEF Numeric, Part
<1> QED
  BY <1>3, <1>4 DEF PartIsRight, e, v

LEMMA LogKind ==
    ASSUME NEW o, Kind[o] = "log~", NEW d, Numeric(o, d),
           NEW x, NEW from \in Int, NEW to \in Int
    PROVE  PartIsRight(o, d, ProcessPart(o, d, x, from, to), x, d.constant,
                       from, to)
PROOF
<1> DEFINE e == ProcessPart(o, d, x, from, to)
           y == d.out
           logs == [k \in DOMAIN y |->
               IF k \in Part(from, to) THEN log2Approx(x[1][k]) ELSE y[k]]
           r == multiplyConstant(build, logs, d.constant, logs, from, to)
<1>1. e = [d EXCEPT !.out = r]
  BY PartOfKind DEF DspLog
<1>2. /\ DOMAIN r = Part(0, BlockSize)
      /\ \A k \in Part(0, BlockSize) :
             r[k] = IF k \in Part(from, to)
                    THEN log2Approx(x[1][k]) * d.constant ELSE y[k]
  BY DEF multiplyConstant, withConstant, Times, Numeric
<1>3. \A k : log2Approx(x[1][k]) * d.constant =
                 Becomes(build, "log~", x[1][k], d.constant)
  BY DEF Becomes, log2Approx
<1>4. Kind[o] \notin Fixed
  BY DEF Fixed
<1> HIDE DEF r, e
<1>5. Numeric(o, e) /\ e.constant = d.constant /\ e.out = r
  BY <1>1, <1>2, <1>4 DEF Numeric
<1> QED
  BY <1>2, <1>3, <1>4, <1>5 DEF PartIsRight, e

\* An object that computes with a number, whatever its kind.
LEMMA PartComputed ==
    ASSUME NEW o, Kind[o] \in Settable, NEW d, Numeric(o, d), NEW c,
           Kind[o] \notin Fixed => d.constant = c,
           NEW x, NEW from \in Int, NEW to \in Int, build \in Builds
    PROVE  PartIsRight(o, d, ProcessPart(o, d, x, from, to), x, c, from, to)
PROOF
  BY FixedKinds, LogKind, OtherKinds, WithNumber DEF Fixed, Settable,
     Arithmetic

\* A block of the two signals at the inlets.
BlockIsRight(o, d, e, x) ==
    /\ Numeric(o, e) /\ e.constant = d.constant
    /\ Kind[o] \in Arithmetic =>
           \A k \in Part(0, BlockSize) :
               e.out[k] = Becomes(build, Kind[o], x[1][k], x[2][k])

\* With audio at both inlets the block is made of the two, and the number
\* stays; log~ writes nothing.
LEMMA BothInlets ==
    ASSUME NEW o, Kind[o] \in Arithmetic \cup {"log~"}, NEW d, Numeric(o, d),
           NEW x
    PROVE  BlockIsRight(o, d, ProcessSignal(o, d, x), x)
PROOF
<1> DEFINE e == ProcessSignal(o, d, x)
           v(k) == Becomes(build, Kind[o], x[1][k], x[2][k])
<1>1. CASE Kind[o] = "log~"
  BY <1>1 DEF ProcessSignal, DspLogSignal, Arithmetic, BlockIsRight
<1>2. CASE Kind[o] \in Arithmetic
  <2>1. DOMAIN d.out = Part(0, BlockSize) /\ Kind[o] \notin Fixed
    BY <1>2 DEF Numeric, Arithmetic, Fixed
  <2>2. \A k \in Part(0, BlockSize) : k < BlockSize
    BY DspAssumption DEF Part
  <2>3. e = [d EXCEPT !.out = [k \in Part(0, BlockSize) |-> v(k)]]
    <3>1. CASE Kind[o] = "+~"
      BY <2>1, <3>1 DEF ProcessSignal, DspAddSignal, add, elementwise, Plus,
                        Becomes
    <3>2. CASE Kind[o] = "-~"
      BY <2>1, <3>2 DEF ProcessSignal, DspSubtractSignal, subtract,
                        elementwise, Minus, Becomes
    <3>3. CASE Kind[o] = "*~"
      BY <2>1, <3>3 DEF ProcessSignal, DspMultiplySignal, multiply,
                        elementwise, Times, Becomes
    <3>4. CASE Kind[o] = "/~"
      BY <2>1, <3>4 DEF ProcessSignal, DspDivideSignal, divide, elementwise,
                        Over, Becomes
    <3>5. CASE Kind[o] = "min~"
      BY <2>1, <2>2, <3>5 DEF ProcessSignal, DspMinimumSignal, Least, Becomes
    <3> QED
      BY <1>2, <3>1, <3>2, <3>3, <3>4, <3>5 DEF Arithmetic
  <2> HIDE DEF e, v
  <2>4. /\ Numeric(o, e) /\ e.constant = d.constant
        /\ \A k \in Part(0, BlockSize) : e.out[k] = v(k)
    BY <2>1, <2>3 DEF Numeric
  <2> QED
    BY <2>4 DEF e, v, BlockIsRight
<1> QED
  BY <1>1, <1>2

\* A message changes the number as it is written down in seen, and not the
\* buffer.
LEMMA NumberTaken ==
    ASSUME NEW o, Kind[o] \in Settable, NEW d, Numeric(o, d), NEW message,
           Kind[o] = "sig~" => message.inlet = 0
    PROVE  LET e == ProcessedMessage(o, d, message)
           IN  /\ Numeric(o, e) /\ e.out = d.out
               /\ Kind[o] \notin Fixed =>
                      e.constant = Given(o, d.constant, message)
PROOF
<1> DEFINE e == ProcessedMessage(o, d, message)
<1>1. CASE Kind[o] \in Fixed
  BY <1>1 DEF ProcessedMessage, Fixed, Numeric
<1>2. ASSUME Kind[o] \notin Fixed
      PROVE  e = [d EXCEPT !.constant = Given(o, d.constant, message)]
  <2>1. d = [d EXCEPT !.constant = d.constant]
    BY <1>2 DEF Numeric
  <2>2. CASE Kind[o] \in {"+~", "-~", "*~", "min~"}
    BY <2>1, <2>2 DEF ProcessedMessage, TakesConstant, Given, Arithmetic
  <2>3. CASE Kind[o] = "/~"
    BY <2>1, <2>3 DEF ProcessedMessage, TakesDivisor, TakesConstant, Given,
                      Arithmetic
  <2>4. CASE Kind[o] = "sig~"
    BY <2>1, <2>4 DEF ProcessedMessage, TakesSignal, Given, Arithmetic
  <2>5. CASE Kind[o] = "clip~"
    BY <2>1, <2>5 DEF ProcessedMessage, TakesBound, Given, Arithmetic
  <2>6. CASE Kind[o] = "log~"
    BY <2>1, <2>6 DEF ProcessedMessage, TakesBase, Given, Arithmetic
  <2> QED
    BY <1>2, <2>2, <2>3, <2>4, <2>5, <2>6 DEF Settable, Arithmetic
<1> HIDE DEF e
<1>3. CASE Kind[o] \notin Fixed
  BY <1>2, <1>3 DEF Numeric, e
<1> QED
  BY <1>1, <1>3

-----------------------------------------------------------------------------
(***************************************************************************)
(* Numbers and signals at inlets.                                          *)
(***************************************************************************)

\* There is an entry in seen of each object.
SeenShape ==
    seen = [o \in patch |->
               [setBy |-> seen[o].setBy, path |-> seen[o].path,
                disturbed |-> seen[o].disturbed, given |-> seen[o].given,
                before |-> seen[o].before]]

\* The object's record has the number that was given last.
NumbersKnown ==
    /\ build \in Builds
    /\ signal = [o \in patch |-> signal[o]]
    /\ SeenShape
    /\ \A o \in patch : Kind[o] \in Settable =>
           /\ Numeric(o, signal[o])
           /\ Kind[o] \notin Fixed => signal[o].constant = seen[o].given
           /\ DOMAIN seen[o].setBy = Part(0, BlockSize)

\* Each was made with arguments it may have, and no message comes to an inlet
\* that there is not.
LeftInletOnly ==
    \A o \in patch :
        /\ Arguments[o] # {}
        /\ Kind[o] = "sig~" =>
               \A i \in 1 .. Len(messageQueue[o]) :
                   messageQueue[o][i].message.inlet = 0

\* What an object has computed of the block so far is of its inlets; and it
\* goes on behind all of it.
HeardBy(o) ==
    IF o \in Adapts /\ processFunction[o] = "other"
    THEN rendered[o] # <<>> /\ Kind[o] \in Arithmetic =>
             \A k \in Part(0, BlockSize) :
                 Out(o)[k] = Becomes(build, Kind[o], Inlets(o)[1][k],
                                     Inlets(o)[2][k])
    ELSE \A i \in 1 .. Len(rendered[o]) :
             /\ rendered[o][i].to <= EndOf(rendered[o])
             /\ Exact(o, rendered[o][i]) =>
                    \A k \in Part(rendered[o][i].from, rendered[o][i].to) :
                        Served(o, k)

HeardSoFar ==
    ~ lost =>
        \A o \in patch \ (late \cup Fed) : Kind[o] \in Settable => HeardBy(o)

\* What is at the inlets of an object stays as long as what it hears does.
LEMMA InletsStay ==
    ASSUME NEW o \in patch,
           UNCHANGED <<patch, connected, blockStartTimestamp>>,
           \A n \in DOMAIN SourcesOf[o] :
               SourcesOf[o][n] \in patch =>
                   signal'[SourcesOf[o][n]] = signal[SourcesOf[o][n]]
    PROVE  Inlets(o)' = Inlets(o)
PROOF
  BY DEF blockStart, WholeNumbers, inputBuffers, Buffer, Inlets

\* Those that had their turn, and the one whose it is, hear only what had its
\* turn before.
LEMMA HearsOthers ==
    ASSUME HearsBefore, patch \in Patches, turn \in 1 .. Len(nodes),
           NEW j \in 1 .. turn, NEW n \in DOMAIN SourcesOf[nodes[j]],
           SourcesOf[nodes[j]][n] \in patch
    PROVE  SourcesOf[nodes[j]][n] # Turn
PROOF
<1>1. Len(nodes) \in Nat /\ j \in 1 .. Len(nodes) /\ turn \in 1 .. Len(nodes)
  BY NodesOfPatch
<1>2. \A i \in 1 .. Len(nodes) : SourcesOf[nodes[j]][n] = nodes[i] => i < j
  BY <1>1 DEF HearsBefore, nodes
<1>3. ~ (turn < j)
  BY <1>1
<1> QED
  BY <1>1, <1>2, <1>3 DEF Turn

\* What an object computes in its turn, and what is written down of it.
LEMMA TurnComputes ==
    ASSUME NumbersKnown, NEW o \in patch, Kind[o] \in Settable,
           NEW from \in Int, NEW to \in Int
    PROVE  LET e == Processed(o, from, to)
               x == Inlets(o)
           IN  /\ IF processFunction[o] = "other" /\ o \in Adapts
                  THEN BlockIsRight(o, signal[o], e, x)
                  ELSE PartIsRight(o, signal[o], e, x, seen[o].given, from, to)
               /\ Noted(o, from, to) =
                      [seen EXCEPT ![o].setBy =
                          [k \in Part(0, BlockSize) |->
                              IF k \in Part(from, to) THEN seen[o].given
                              ELSE seen[o].setBy[k]]]
PROOF
<1> DEFINE d == signal[o]
           x == Inlets(o)
           e == Processed(o, from, to)
<1>1. /\ Numeric(o, d) /\ build \in Builds
      /\ Kind[o] \notin Fixed => d.constant = seen[o].given
  BY DEF NumbersKnown
<1>2. Kind[o] # "osc~" /\ Kind[o] \notin {"line~", "vline~"}
  BY DEF Settable, Arithmetic, Fixed
<1>3. Present(o) = d
  BY <1>2 DEF Present
<1>4. ASSUME processFunction[o] = "other" /\ o \in Adapts
      PROVE  BlockIsRight(o, d, e, x)
  BY <1>4, SignalAssumption, <1>1, BothInlets DEF Processed
<1>5. ASSUME ~ (processFunction[o] = "other" /\ o \in Adapts)
      PROVE  PartIsRight(o, d, e, x, seen[o].given, from, to)
  <2>1. e = ProcessPart(o, d, x, from, to)
    BY <1>3, <1>5 DEF Processed
  <2> HIDE DEF d, x, e
  <2>2. PartIsRight(o, d, ProcessPart(o, d, x, from, to), x, seen[o].given,
                    from, to)
    BY <1>1, PartComputed
  <2> QED
    BY <2>1, <2>2
<1>6. Setting(o, Present(o)) = seen[o].given
  BY <1>2 DEF Setting, Settable, Arithmetic, Fixed, Filters
<1>7. Noted(o, from, to) =
          [seen EXCEPT ![o].setBy =
              [k \in Part(0, BlockSize) |->
                  IF k \in Part(from, to) THEN seen[o].given
                  ELSE seen[o].setBy[k]]]
  BY <1>6 DEF Noted, zeros
<1> QED
  BY <1>4, <1>5, <1>7

\* An object's turn: it computes a part and maybe takes a message.
Computes(from, to) ==
    LET e == Processed(Turn, from, to)
    IN  /\ Render(from, to)
        /\ \A o \in patch \ {Turn} : signal'[o] = signal[o] /\ seen'[o] = seen[o]
        /\ Kind[Turn] \in Settable =>
               /\ signal'[Turn].out = e.out
               /\ seen'[Turn].setBy = Noted(Turn, from, to)[Turn].setBy
        /\ \A o \in Adapts \cap patch :
               processFunction'[o] = "other" <=> processFunction[o] = "other"
        /\ UNCHANGED <<patch, build, connected, blockStartTimestamp, late>>

\* What an object has not in its turn stays as it was.
LEMMA OthersHeard ==
    ASSUME ServedSoFar, HearsBefore, OnTurn, NEW from, NEW to,
           Computes(from, to),
           NEW o \in patch, o # Turn, HeardBy(o)
    PROVE  HeardBy(o)'
PROOF
<1>1. /\ turn \in 1 .. Len(nodes) /\ Len(nodes) \in Nat
      /\ patch \in Patches
  BY OnItsTurn DEF ServedSoFar, DspTyped
<1>2. rendered'[o] = rendered[o] /\ rendered \in [patch -> Seq(RenderedPart)]
  BY DEF Computes, Render, ServedSoFar, DspTyped
<1>3. CASE rendered[o] = <<>>
  BY <1>2, <1>3 DEF HeardBy
<1>4. CASE rendered[o] # <<>>
  <2>1. PICK i \in 1 .. turn - 1 : nodes[i] = o
    BY <1>4 DEF ServedSoFar, Tiled, HadTurn
  <2>2. \A n \in DOMAIN SourcesOf[o] :
            SourcesOf[o][n] \in patch => SourcesOf[o][n] # Turn
    <3> SUFFICES ASSUME NEW n \in DOMAIN SourcesOf[o], SourcesOf[o][n] \in patch
                 PROVE  SourcesOf[o][n] # Turn
      OBVIOUS
    <3>1. i \in 1 .. turn /\ n \in DOMAIN SourcesOf[nodes[i]]
      BY <1>1, <2>1
    <3>2. SourcesOf[nodes[i]][n] # Turn
      BY <1>1, <2>1, <3>1, HearsOthers
    <3> QED
      BY <2>1, <3>2
  <2>3. Inlets(o)' = Inlets(o)
    BY <2>2, InletsStay DEF Computes
  <2>4. Out(o)' = Out(o) /\ seen'[o] = seen[o] /\ build' = build
    BY DEF Computes, Out
  <2>5. (o \in Adapts /\ processFunction'[o] = "other") <=>
            (o \in Adapts /\ processFunction[o] = "other")
    BY DEF Computes
  <2> QED
    BY <1>2, <2>3, <2>4, <2>5 DEF HeardBy, Exact, Served
<1> QED
  BY <1>3, <1>4

\* What has its turn has computed the part of what is at its inlets.
LEMMA TurnHeard ==
    ASSUME ServedSoFar, ServedSoFar', NumbersKnown, HearsBefore, OnTurn,
           NEW o \in patch, o = Turn, o \notin Fed \cup late,
           Kind[o] \in Settable, HeardBy(o),
           NEW to \in Int, Computes(EndOf(rendered[o]), to)
    PROVE  HeardBy(o)'
PROOF
<1> DEFINE from == EndOf(rendered[o])
           parts == rendered[o]
           part == [from |-> from, to |-> to]
           n == Len(parts)
           x == Inlets(o)
           e == Processed(o, from, to)
<1>1. /\ turn \in 1 .. Len(nodes) /\ Len(nodes) \in Nat
      /\ patch \in Patches /\ from \in Int /\ parts \in Seq(RenderedPart)
      /\ rendered \in [patch -> Seq(RenderedPart)]
  BY OnItsTurn DEF ServedSoFar, DspTyped
<1>2. Inlets(o)' = x
  <2>1. \A k \in DOMAIN SourcesOf[o] :
            SourcesOf[o][k] \in patch => SourcesOf[o][k] # Turn
    <3> SUFFICES ASSUME NEW k \in DOMAIN SourcesOf[o], SourcesOf[o][k] \in patch
                 PROVE  SourcesOf[o][k] # Turn
      OBVIOUS
    <3>1. turn \in 1 .. turn /\ nodes[turn] = o
      BY <1>1 DEF Turn
    <3> QED
      BY <1>1, <3>1, HearsOthers
  <2> QED
    BY <2>1, InletsStay DEF Computes
<1>3. /\ rendered'[o] = Append(parts, part) /\ build' = build
      /\ o \in Adapts =>
             (processFunction'[o] = "other" <=> processFunction[o] = "other")
      /\ signal'[o].out = e.out /\ seen'[o].setBy = Noted(o, from, to)[o].setBy
  BY <1>1 DEF Computes, Render
<1>4. /\ IF processFunction[o] = "other" /\ o \in Adapts
         THEN BlockIsRight(o, signal[o], e, x)
         ELSE PartIsRight(o, signal[o], e, x, seen[o].given, from, to)
      /\ Noted(o, from, to) =
             [seen EXCEPT ![o].setBy =
                 [k \in Part(0, BlockSize) |->
                     IF k \in Part(from, to) THEN seen[o].given
                     ELSE seen[o].setBy[k]]]
  BY <1>1, TurnComputes
<1>5. \A k \in Part(0, BlockSize) :
          seen'[o].setBy[k] = IF k \in Part(from, to) THEN seen[o].given
                              ELSE seen[o].setBy[k]
  BY <1>3, <1>4 DEF NumbersKnown, SeenShape
<1>6. CASE processFunction[o] = "other" /\ o \in Adapts
  <2>1. Kind[o] \in Arithmetic =>
            \A k \in Part(0, BlockSize) :
                signal'[o].out[k] = Becomes(build, Kind[o], x[1][k], x[2][k])
    BY <1>3, <1>4, <1>6 DEF BlockIsRight
  <2> QED
    BY <1>2, <1>3, <1>6, <2>1 DEF HeardBy, Out
<1>7. CASE ~ (processFunction[o] = "other" /\ o \in Adapts)
  <2> DEFINE longer == Append(parts, part)
  <2>1. part \in RenderedPart /\ part.from = from /\ part.to = to
    BY <1>1 DEF RenderedPart
  <2> HIDE DEF part
  <2>2. /\ n \in Nat /\ longer \in Seq(RenderedPart) /\ Len(longer) = n + 1
        /\ \A i \in 1 .. n + 1 :
               longer[i] = IF i = n + 1 THEN part ELSE parts[i]
    BY <1>1, <2>1, AppendProperties, LenProperties
  <2>3. EndOf(longer) = to
    BY <2>1, <2>2 DEF EndOf, Last
  <2>4. FollowEachOther(longer)
    <3>1. (Fed' = Fed) /\ (patch' = patch) /\ (late' = late)
      BY DEF Fed, Computes
    <3>2. FollowEachOther(rendered[o])'
      BY <3>1 DEF ServedSoFar, Tiled, PartsTileBlock
    <3> QED
      BY <1>3, <3>2 DEF part, FollowEachOther
  <2>5. from <= to /\ 0 <= from /\ to <= BlockSize /\ BlockSize \in Int
    <3>1. n + 1 \in 1 .. Len(longer) /\ longer[n + 1] = part
      BY <2>2
    <3> QED
      BY <2>1, <2>4, <3>1, DspAssumption DEF FollowEachOther
  <2>6. \A i \in 1 .. n :
            /\ parts[i].from \in Int /\ parts[i].to \in Int
            /\ 0 <= parts[i].from /\ parts[i].to <= from
            /\ Exact(o, parts[i]) =>
                   \A k \in Part(parts[i].from, parts[i].to) : Served(o, k)
    <3>1. \A i \in 1 .. n : parts[i] \in RenderedPart
      BY <1>1, ElementOfSeq
    <3>2. \A i \in 1 .. n : longer[i] = parts[i] /\ i \in 1 .. Len(longer)
      BY <2>2
    <3>3. \A i \in 1 .. n : 0 <= parts[i].from
      BY <2>4, <3>2 DEF FollowEachOther
    <3>4. \A i \in 1 .. n :
              /\ parts[i].to <= from
              /\ Exact(o, parts[i]) =>
                     \A k \in Part(parts[i].from, parts[i].to) : Served(o, k)
      BY <1>7 DEF HeardBy
    <3> QED
      BY <3>1, <3>3, <3>4 DEF RenderedPart
  <2>7. PartIsRight(o, signal[o], e, x, seen[o].given, from, to)
    BY <1>4, <1>7
  <2>8. \A k : Out(o)'[k] = e.out[k]
    BY <1>3 DEF Out
  <2> HIDE DEF longer, e, x, from, parts, n
  <2>9. ASSUME NEW i \in 1 .. n, Exact(o, parts[i]),
               NEW k \in Part(parts[i].from, parts[i].to)
        PROVE  Served(o, k)'
    <3>1. k \in Part(0, BlockSize) /\ k \notin Part(from, to)
      BY <1>1, <2>5, <2>6, <2>9 DEF Part
    <3>2. Out(o)[k] = Becomes(build, Kind[o], x[1][k], seen[o].setBy[k])
      BY <2>6, <2>9 DEF Served, x
    <3>3. seen'[o].setBy[k] = seen[o].setBy[k]
      BY <1>5, <3>1
    <3>4. \/ e.out[k] = Out(o)[k]
          \/ /\ Kind[o] \in Fixed
             /\ e.out[k] = Becomes(build, Kind[o], x[1][k], seen[o].given)
      BY <2>7, <3>1 DEF PartIsRight, Out
    <3>5. e.out[k] = Becomes(build, Kind[o], x[1][k], seen[o].setBy[k])
      BY <3>2, <3>4, FixedBecomes
    <3> QED
      BY <1>2, <1>3, <2>8, <3>3, <3>5 DEF Served
  <2>10. ASSUME Exact(o, part), NEW k \in Part(from, to)
         PROVE  Served(o, k)'
    <3>1. k \in Part(0, BlockSize)
      BY <1>1, <2>5, <2>10 DEF Part
    <3>2. Exact(o, [from |-> from, to |-> to])
      BY <2>10 DEF part
    <3>3. e.out[k] = Becomes(build, Kind[o], x[1][k], seen[o].given)
      BY <2>7, <2>10, <3>1, <3>2 DEF PartIsRight
    <3>4. seen'[o].setBy[k] = seen[o].given
      BY <1>5, <2>10, <3>1
    <3> QED
      BY <1>2, <1>3, <2>8, <3>3, <3>4 DEF Served
  <2>11. ASSUME NEW i \in 1 .. Len(longer), Exact(o, longer[i])
         PROVE  \A k \in Part(longer[i].from, longer[i].to) : Served(o, k)'
    <3>1. CASE i = n + 1
      BY <2>1, <2>2, <2>10, <2>11, <3>1
    <3>2. CASE i \in 1 .. n
      BY <2>2, <2>9, <2>11, <3>2
    <3> QED
      BY <2>2, <3>1, <3>2
  <2>12. ASSUME NEW i \in 1 .. Len(longer)
         PROVE  longer[i].to <= to
    <3>1. CASE i = n + 1
      BY <2>1, <2>2, <3>1
    <3>2. CASE i \in 1 .. n
      <4>1. longer[i] = parts[i]
        BY <2>2, <3>2
      <4> QED
        BY <1>1, <2>5, <2>6, <3>2, <4>1
    <3> QED
      BY <2>2, <3>1, <3>2
  <2>13. rendered'[o] = longer
    BY <1>3 DEF longer
  <2>14. \A p : Exact(o, p)' <=> Exact(o, p)
    BY <1>3 DEF Exact
  <2> HIDE DEF Exact, Served, EndOf
  <2>15. \A i \in 1 .. Len(rendered'[o]) :
             /\ rendered'[o][i].to <= EndOf(rendered'[o])
             /\ Exact(o, rendered'[o][i]) =>
                    \A k \in Part(rendered'[o][i].from, rendered'[o][i].to) :
                        Served(o, k)'
    BY <2>3, <2>11, <2>12, <2>13
  <2>16. \A p \in {rendered'[o][i] : i \in 1 .. Len(rendered'[o])} :
             Exact(o, p)' <=> Exact(o, p)
    BY <2>14
  <2> QED
    BY <1>3, <1>7, <2>15, <2>16 DEF HeardBy, Exact
<1> QED
  BY <1>6, <1>7

-----------------------------------------------------------------------------
(***************************************************************************)
(* The steps, and the numbers.                                             *)
(***************************************************************************)

\* A record that was right stays so with a part more and, maybe, a message.
LEMMA StaysNumeric ==
    ASSUME NumbersKnown, NEW o \in patch, Kind[o] \in Settable,
           NEW from \in Int, NEW to \in Int
    PROVE  LET e == Processed(o, from, to)
           IN  /\ Numeric(o, e)
               /\ Kind[o] \notin Fixed => e.constant = seen[o].given
               /\ DOMAIN Noted(o, from, to)[o].setBy = Part(0, BlockSize)
PROOF
<1> DEFINE e == Processed(o, from, to)
           x == Inlets(o)
<1>1. /\ IF processFunction[o] = "other" /\ o \in Adapts
         THEN BlockIsRight(o, signal[o], e, x)
         ELSE PartIsRight(o, signal[o], e, x, seen[o].given, from, to)
      /\ Noted(o, from, to) =
             [seen EXCEPT ![o].setBy =
                 [k \in Part(0, BlockSize) |->
                     IF k \in Part(from, to) THEN seen[o].given
                     ELSE seen[o].setBy[k]]]
  BY TurnComputes
<1>2. Kind[o] \notin Fixed => signal[o].constant = seen[o].given
  BY DEF NumbersKnown
<1> HIDE DEF e, x
<1>3. Numeric(o, e) /\ (Kind[o] \notin Fixed => e.constant = seen[o].given)
  BY <1>1, <1>2 DEF BlockIsRight, PartIsRight
<1>4. DOMAIN Noted(o, from, to)[o].setBy = Part(0, BlockSize)
  BY <1>1 DEF NumbersKnown, SeenShape
<1> QED
  BY <1>3, <1>4 DEF e

\* A part is computed, with nothing taken.
LEMMA ComputeKnows ==
    ASSUME NumbersKnown, NEW o, o = Turn, o \in patch,
           NEW from \in Int, NEW to \in Int, Compute(from, to),
           UNCHANGED <<patch, build>>
    PROVE  /\ NumbersKnown'
           /\ ~ lost' =>
                  /\ \A p \in patch \ {o} :
                         signal'[p] = signal[p] /\ seen'[p] = seen[p]
                  /\ signal'[o] = Processed(o, from, to)
                  /\ seen'[o].setBy = Noted(o, from, to)[o].setBy
                  /\ seen'[o].path = seen[o].path
                  /\ seen'[o].before = seen[o].before
                  /\ seen'[o].disturbed <=>
                         seen[o].disturbed \/ AskedForNone(o, from, to)
                  /\ lost' = lost
PROOF
<1> DEFINE e == Processed(o, from, to)
           noted == Noted(o, from, to)
           v == [k \in DOMAIN zeros |->
                    IF k \in Part(from, to) THEN Setting(o, Present(o))
                    ELSE seen[o].setBy[k]]
           none == AskedForNone(o, from, to)
<1>1. CASE Dies(o, from, to)
  BY <1>1 DEF Compute, NumbersKnown, SeenShape, Numeric
<1>2. CASE ~ Dies(o, from, to)
  <2>1. /\ signal' = [signal EXCEPT ![o] = e]
        /\ seen' = [noted EXCEPT ![o].disturbed = @ \/ none]
        /\ lost' = lost
    BY <1>2 DEF Compute
  <2>2. noted = [seen EXCEPT ![o].setBy = v]
    BY DEF Noted
  <2>3. Kind[o] \in Settable =>
            /\ Numeric(o, e)
            /\ Kind[o] \notin Fixed => e.constant = seen[o].given
            /\ DOMAIN noted[o].setBy = Part(0, BlockSize)
    BY StaysNumeric
  <2> HIDE DEF e, noted, v, none
  <2>4. /\ signal' = [p \in patch |-> signal'[p]]
        /\ \A p \in patch \ {o} : signal'[p] = signal[p]
        /\ signal'[o] = e
    BY <2>1 DEF NumbersKnown
  <2>5. /\ seen' = [p \in patch |->
                       [setBy |-> IF p = o THEN v ELSE seen[p].setBy,
                        path |-> seen[p].path,
                        disturbed |-> IF p = o THEN seen[o].disturbed \/ none
                                      ELSE seen[p].disturbed,
                        given |-> seen[p].given, before |-> seen[p].before]]
        /\ \A p \in patch \ {o} : seen'[p] = seen[p]
        /\ seen'[o].setBy = noted[o].setBy
    <3>1. noted = [p \in patch |->
                     [setBy |-> IF p = o THEN v ELSE seen[p].setBy,
                      path |-> seen[p].path, disturbed |-> seen[p].disturbed,
                      given |-> seen[p].given, before |-> seen[p].before]]
      BY <2>2 DEF NumbersKnown, SeenShape
    <3>2. \A p \in patch \ {o} : noted[p] = seen[p]
      BY <3>1 DEF NumbersKnown, SeenShape
    <3> DEFINE m == noted[o]
               r == [m EXCEPT !.disturbed = @ \/ none]
    <3>3. /\ m = [setBy |-> v, path |-> seen[o].path,
                  disturbed |-> seen[o].disturbed,
                  given |-> seen[o].given, before |-> seen[o].before]
          /\ DOMAIN noted = patch
      BY <3>1
    <3>4. seen' = [noted EXCEPT ![o] = r]
      BY <2>1, <3>3
    <3> HIDE DEF m
    <3>5. r = [setBy |-> v, path |-> seen[o].path,
               disturbed |-> seen[o].disturbed \/ none,
               given |-> seen[o].given, before |-> seen[o].before]
      BY <3>3
    <3>6. m.setBy = v
      BY <3>3
    <3> HIDE DEF r
    <3>7. seen' = [p \in patch |-> IF p = o THEN r ELSE noted[p]]
      BY <3>3, <3>4
    <3> QED
      BY <3>1, <3>2, <3>5, <3>6, <3>7 DEF m
  <2>6. /\ SeenShape'
        /\ \A p \in patch : seen'[p].given = seen[p].given
    BY <2>5 DEF SeenShape
  <2>7. NumbersKnown'
    <3>1. ASSUME NEW p \in patch, Kind[p] \in Settable
          PROVE  /\ Numeric(p, signal'[p])
                 /\ Kind[p] \notin Fixed => signal'[p].constant = seen'[p].given
                 /\ DOMAIN seen'[p].setBy = Part(0, BlockSize)
      <4>1. CASE p = o
        BY <2>3, <2>4, <2>5, <2>6, <3>1, <4>1
      <4>2. CASE p # o
        BY <2>4, <2>5, <3>1, <4>2 DEF NumbersKnown
      <4> QED
        BY <4>1, <4>2
    <3>2. \A p : Numeric(p, signal[p])' <=> Numeric(p, signal'[p])
      BY DEF Numeric
    <3> QED
      BY <2>4, <2>6, <3>1, <3>2 DEF NumbersKnown
  <2>8. seen'[o].disturbed = (seen[o].disturbed \/ none)
    BY <2>5
  <2>9. seen'[o].disturbed <=> seen[o].disturbed \/ none
    BY <2>8, Zenon
  <2>10. seen'[o].path = seen[o].path /\ seen'[o].before = seen[o].before
    BY <2>5
  <2> QED
    BY <2>1, <2>4, <2>5, <2>7, <2>9, <2>10 DEF e, noted, none
<1> QED
  BY <1>1, <1>2

\* The part up to a message and the message, of an object and in what is seen.
TakesMessage(o, from, to, message, path, disturbed) ==
    /\ signal' = [signal EXCEPT ![o] =
           ProcessedMessage(o, Processed(o, from, to), message)]
    /\ seen' = [Noted(o, from, to) EXCEPT
                   ![o].path = path, ![o].given = Given(o, @, message),
                   ![o].disturbed = disturbed]

\* A part is computed up to a message and the message is taken.
LEMMA MessageKnows ==
    ASSUME NumbersKnown, NEW o \in patch, NEW message,
           Kind[o] = "sig~" => message.inlet = 0,
           NEW from \in Int, NEW to \in Int, NEW path, NEW disturbed,
           TakesMessage(o, from, to, message, path, disturbed),
           UNCHANGED <<patch, build>>
    PROVE  /\ NumbersKnown'
           /\ \A p \in patch \ {o} :
                  signal'[p] = signal[p] /\ seen'[p] = seen[p]
           /\ Kind[o] \in Settable =>
                  signal'[o].out = Processed(o, from, to).out
           /\ signal'[o] = ProcessedMessage(o, Processed(o, from, to), message)
           /\ seen'[o].setBy = Noted(o, from, to)[o].setBy
           /\ seen'[o].path = path /\ seen'[o].disturbed = disturbed
           /\ seen'[o].before = seen[o].before
PROOF
<1> DEFINE e == Processed(o, from, to)
           noted == Noted(o, from, to)
           f == ProcessedMessage(o, e, message)
           g == Given(o, seen[o].given, message)
           v == [k \in DOMAIN zeros |->
                    IF k \in Part(from, to) THEN Setting(o, Present(o))
                    ELSE seen[o].setBy[k]]
<1>1. noted = [seen EXCEPT ![o].setBy = v]
  BY DEF Noted
<1>2. Kind[o] \in Settable =>
          /\ Numeric(o, e)
          /\ Kind[o] \notin Fixed => e.constant = seen[o].given
          /\ DOMAIN noted[o].setBy = Part(0, BlockSize)
  BY StaysNumeric
<1>3. Kind[o] \in Settable =>
          /\ Numeric(o, f) /\ f.out = e.out
          /\ Kind[o] \notin Fixed => f.constant = g
  <2>1. \A d : Numeric(o, d) /\ Kind[o] \in Settable =>
            /\ Numeric(o, ProcessedMessage(o, d, message))
            /\ ProcessedMessage(o, d, message).out = d.out
            /\ Kind[o] \notin Fixed =>
                   ProcessedMessage(o, d, message).constant =
                       Given(o, d.constant, message)
    BY NumberTaken, ZenonT(60)
  <2> HIDE DEF e
  <2> QED
    BY <1>2, <2>1
<1>4. /\ noted = [p \in patch |->
                     [setBy |-> IF p = o THEN v ELSE seen[p].setBy,
                      path |-> seen[p].path, disturbed |-> seen[p].disturbed,
                      given |-> seen[p].given, before |-> seen[p].before]]
      /\ noted[o].setBy = v /\ noted[o].given = seen[o].given
  <2> HIDE DEF noted, v
  <2>1. noted = [p \in patch |->
                     [setBy |-> IF p = o THEN v ELSE seen[p].setBy,
                      path |-> seen[p].path, disturbed |-> seen[p].disturbed,
                      given |-> seen[p].given, before |-> seen[p].before]]
    BY <1>1 DEF NumbersKnown, SeenShape
  <2> QED
    BY <2>1
<1> DEFINE h == Given(o, noted[o].given, message)
<1>5. h = g
  BY <1>4
<1>6. seen' = [noted EXCEPT ![o].path = path, ![o].given = h,
                            ![o].disturbed = disturbed]
  BY DEF TakesMessage
<1> HIDE DEF e, noted, v, f, g, h
<1>7. /\ signal' = [p \in patch |-> signal'[p]]
      /\ \A p \in patch \ {o} : signal'[p] = signal[p]
      /\ signal'[o] = f
  BY DEF f, e, NumbersKnown, TakesMessage
<1>8. /\ SeenShape' /\ seen'[o].setBy = v /\ seen'[o].given = g
      /\ seen'[o].path = path /\ seen'[o].disturbed = disturbed
      /\ seen'[o].before = seen[o].before
      /\ \A p \in patch \ {o} : seen'[p] = seen[p]
  <2> DEFINE m == noted[o]
             r == [setBy |-> v, path |-> path, disturbed |-> disturbed,
                   given |-> g, before |-> seen[o].before]
  <2>1. m = [setBy |-> v, path |-> seen[o].path,
             disturbed |-> seen[o].disturbed, given |-> seen[o].given,
             before |-> seen[o].before]
    BY <1>4
  <2>2. [m EXCEPT !.path = path, !.given = g, !.disturbed = disturbed] = r
    <3> DEFINE m1 == [m EXCEPT !.path = path]
               m2 == [m1 EXCEPT !.given = g]
               m3 == [m2 EXCEPT !.disturbed = disturbed]
    <3> HIDE DEF m
    <3>1. m1 = [setBy |-> v, path |-> path,
                disturbed |-> seen[o].disturbed, given |-> seen[o].given,
                before |-> seen[o].before]
      BY <2>1
    <3> HIDE DEF m1
    <3>2. m2 = [setBy |-> v, path |-> path,
                disturbed |-> seen[o].disturbed, given |-> g,
                before |-> seen[o].before]
      BY <3>1
    <3> HIDE DEF m2
    <3>3. m3 = r
      BY <3>2
    <3>4. m3 = [m EXCEPT !.path = path, !.given = g, !.disturbed = disturbed]
      BY DEF m1, m2
    <3> HIDE DEF m3, r
    <3> QED
      BY <3>3, <3>4
  <2>3. seen' = [noted EXCEPT ![o] =
            [m EXCEPT !.path = path, !.given = g, !.disturbed = disturbed]]
    BY <1>4, <1>5, <1>6
  <2>4. seen' = [p \in patch |-> IF p = o THEN r ELSE noted[p]]
    <3> HIDE DEF r, m
    <3>1. DOMAIN noted = patch
      BY <1>4
    <3> QED
      BY <2>2, <2>3, <3>1
  <2>5. \A p \in patch \ {o} : noted[p] = seen[p]
    BY <1>4 DEF NumbersKnown, SeenShape
  <2>6. seen'[o] = r /\ \A p \in patch \ {o} : seen'[p] = seen[p]
    BY <2>4, <2>5
  <2>7. ASSUME NEW p \in patch
        PROVE  seen'[p] =
                   [setBy |-> seen'[p].setBy, path |-> seen'[p].path,
                    disturbed |-> seen'[p].disturbed,
                    given |-> seen'[p].given, before |-> seen'[p].before]
    <3>1. CASE p = o
      BY <2>6, <3>1
    <3>2. CASE p # o
      BY <2>6, <3>2 DEF NumbersKnown, SeenShape
    <3> QED
      BY <3>1, <3>2
  <2>8. SeenShape'
    BY <2>4, <2>7 DEF SeenShape
  <2>9. /\ r.setBy = v /\ r.given = g /\ r.path = path
        /\ r.disturbed = disturbed /\ r.before = seen[o].before
    OBVIOUS
  <2> HIDE DEF r
  <2> QED
    BY <2>6, <2>8, <2>9
<1>10. NumbersKnown'
  <2>1. ASSUME NEW p \in patch, Kind[p] \in Settable
        PROVE  /\ Numeric(p, signal'[p])
               /\ Kind[p] \notin Fixed => signal'[p].constant = seen'[p].given
               /\ DOMAIN seen'[p].setBy = Part(0, BlockSize)
    <3>1. CASE p = o
      BY <1>2, <1>3, <1>4, <1>7, <1>8, <2>1, <3>1
    <3>2. CASE p # o
      BY <1>7, <1>8, <2>1, <3>2 DEF NumbersKnown
    <3> QED
      BY <3>1, <3>2
  <2>2. \A p : Numeric(p, signal[p])' <=> Numeric(p, signal'[p])
    BY DEF Numeric
  <2> QED
    BY <1>7, <1>8, <2>1, <2>2 DEF NumbersKnown
<1>11. /\ \A p \in patch \ {o} :
              signal'[p] = signal[p] /\ seen'[p] = seen[p]
       /\ seen'[o].setBy = noted[o].setBy
  BY <1>4, <1>7, <1>8
<1>12. Kind[o] \in Settable => signal'[o].out = e.out
  BY <1>3, <1>7
<1> QED
  BY <1>7, <1>8, <1>10, <1>11, <1>12 DEF e, f, noted

-----------------------------------------------------------------------------
(***************************************************************************)
(* What waits at an object.                                                *)
(***************************************************************************)

\* An entry that waits already, one that is told from outside, in time if the
\* direct ones are, and the answer of a snapshot~.
Waits(o, e) == \E j \in 1 .. Len(messageQueue[o]) : e = messageQueue[o][j]

IsTold(o, e) ==
    /\ phase # "dsp" /\ e.message \in MessagesTo[o]
    /\ DirectTimes[o] = {0} => Reached <= e.time /\ e.time <= Reached'

IsAnswer(o, e) ==
    /\ OnTurn /\ Kind[Turn] = "snapshot~" /\ o \in Feeds[Turn]
    /\ messageQueue[Turn] # <<>>
    /\ e = [time |-> Head(messageQueue[Turn]).time,
            message |-> DspSnapshot(Turn, Head(messageQueue[Turn]))]

\* What came to wait in a step.
QueueStep ==
    \A o \in patch : \A i \in 1 .. Len(messageQueue'[o]) :
        \/ Waits(o, messageQueue'[o][i])
        \/ IsTold(o, messageQueue'[o][i])
        \/ IsAnswer(o, messageQueue'[o][i])

LEMMA QueueStays ==
    ASSUME UNCHANGED messageQueue
    PROVE  QueueStep
PROOF
  BY DEF QueueStep, Waits

LEMMA ReceiveQueues ==
    ASSUME ServedSoFar, phase # "dsp", NEW o \in patch, NEW time \in Int,
           DirectTimes[o] = {0} => Reached <= time /\ time <= Reached',
           NEW message \in MessagesTo[o], receiveMessage(o, time, message)
    PROVE  QueueStep
PROOF
<1> DEFINE e == [time |-> time, message |-> message]
           q == messageQueue[o]
           r == Append(q, e)
<1>1. IsList(q) /\ IsOfObjects(messageQueue)
  BY DEF ServedSoFar, DspTyped
<1>2. CASE ~ isSwitchedOn(o)
  BY <1>2, QueueStays DEF receiveMessage
<1>3. CASE isSwitchedOn(o)
  <2>1. messageQueue'[o] = r /\ \A p \in patch \ {o} :
            messageQueue'[p] = messageQueue[p]
    BY <1>1, <1>3 DEF receiveMessage, queued, IsOfObjects
  <2>2. IsTold(o, e)
    BY DEF IsTold
  <2> HIDE DEF e, q
  <2>3. /\ Len(q) \in Nat /\ Len(r) = Len(q) + 1
        /\ \A i \in 1 .. Len(q) + 1 : r[i] = IF i = Len(q) + 1 THEN e ELSE q[i]
    BY <1>1, AppendList
  <2> HIDE DEF r
  <2>4. ASSUME NEW i \in 1 .. Len(r)
        PROVE  Waits(o, r[i]) \/ IsTold(o, r[i])
    BY <2>2, <2>3 DEF Waits, q
  <2>5. ASSUME NEW p \in patch, p # o, NEW i \in 1 .. Len(messageQueue[p])
        PROVE  Waits(p, messageQueue[p][i])
    BY DEF Waits
  <2> QED
    BY <2>1, <2>4, <2>5 DEF QueueStep
<1> QED
  BY <1>2, <1>3

LEMMA TellQueues ==
    ASSUME ServedSoFar, NEW o \in patch, Tell(o)
    PROVE  /\ QueueStep
           /\ \A p \in patch : p \in late' /\ p \notin late /\ DirectTimes[p] = {0} =>
                  \E time \in Int : Reached <= time /\ OutOfOrder(p, time)
           /\ Reached <= Reached'
PROOF
<1>1. /\ blockStartTimestamp \in Int /\ now \in Int /\ phase # "dsp"
      /\ o \in DspObjects /\ DirectTimes[o] \subseteq Int
      /\ phase \in {"idle", "messages", "dsp"}
  BY SignalAssumption, DspAssumption DEF ServedSoFar, DspTyped, Tell,
     SendDirect, Receive
<1>2. PICK message \in MessagesTo[o] :
          \/ \E t \in DirectTimes[o] :
                 SendDirect(o, blockStartTimestamp + t, message)
          \/ \E t \in Offsets : Receive(o, blockStartTimestamp + t, message)
  BY DEF Tell
<1>3. PICK time \in Int :
          /\ receiveMessage(o, time, message)
          /\ DirectTimes[o] = {0} => Reached <= time /\ time <= Reached'
          /\ Reached <= Reached'
  <2>1. ASSUME NEW t \in DirectTimes[o],
               SendDirect(o, blockStartTimestamp + t, message)
        PROVE  /\ receiveMessage(o, blockStartTimestamp + t, message)
               /\ blockStartTimestamp + t \in Int
               /\ DirectTimes[o] = {0} =>
                      /\ Reached <= blockStartTimestamp + t
                      /\ blockStartTimestamp + t <= Reached'
               /\ Reached <= Reached'
    BY <1>1, <2>1 DEF SendDirect, Reached
  <2>2. ASSUME NEW t \in Offsets,
               Receive(o, blockStartTimestamp + t, message)
        PROVE  /\ receiveMessage(o, blockStartTimestamp + t, message)
               /\ blockStartTimestamp + t \in Int
               /\ Reached <= blockStartTimestamp + t
               /\ blockStartTimestamp + t <= Reached'
               /\ Reached <= Reached'
    BY <1>1, SignalAssumption, <2>2 DEF Receive, Reached
  <2> QED
    BY <1>2, <2>1, <2>2
<1>4. QueueStep
  BY <1>1, <1>3, ReceiveQueues
<1> QED
  BY <1>3, <1>4 DEF receiveMessage

\* The first message goes, and an answer may come.
LEMMA MessageQueues ==
    ASSUME ServedSoFar, ComputeToMessage
    PROVE  QueueStep
PROOF
<1> DEFINE entry == Head(messageQueue[Turn])
           bang == Kind[Turn] = "snapshot~" /\ entry.message.selector = "bang"
           receivers == IF bang THEN Feeds[Turn] ELSE {}
           answer == IF bang THEN DspSnapshot(Turn, entry) ELSE entry.message
           e == [time |-> entry.time, message |-> answer]
           fed == {o \in receivers : isSwitchedOn(o)}
           all(o) == IF o \in fed THEN Append(messageQueue[o], e)
                                  ELSE messageQueue[o]
<1>1. /\ OnTurn /\ messageQueue[Turn] # <<>>
      /\ ProcessMessage(receivers, answer)
  BY DEF ComputeToMessage
<1>2. \A o \in fed : IsAnswer(o, e)
  BY <1>1 DEF IsAnswer
<1>3. /\ IsOfObjects(messageQueue)
      /\ \A o \in patch : IsList(messageQueue[o])
  BY DEF ServedSoFar, DspTyped
<1> HIDE DEF receivers, answer
<1>4. \A o \in patch :
          messageQueue'[o] = IF o = Turn THEN Tail(all(o)) ELSE all(o)
  BY <1>3, <1>1 DEF queued, IsOfObjects, ProcessMessage
<1> HIDE DEF e, fed
<1>5. ASSUME NEW o \in patch
      PROVE  /\ IsList(all(o)) /\ (o = Turn => all(o) # <<>>)
             /\ \A i \in 1 .. Len(all(o)) :
                    Waits(o, all(o)[i]) \/ IsAnswer(o, all(o)[i])
  <2> DEFINE q == messageQueue[o]
  <2>1. IsList(q) /\ (o = Turn => q # <<>>)
    BY <1>1, <1>3
  <2>2. \A i \in 1 .. Len(q) : Waits(o, q[i])
    BY DEF Waits
  <2> HIDE DEF q
  <2>3. CASE o \in fed
    BY <2>1, AppendList, <2>3, <1>2, <2>2 DEF q
  <2>4. CASE o \notin fed
    BY <2>1, <2>2, <2>4 DEF q
  <2> QED
    BY <2>3, <2>4
<1> SUFFICES ASSUME NEW o \in patch, NEW i \in 1 .. Len(messageQueue'[o])
             PROVE  \/ Waits(o, messageQueue'[o][i])
                    \/ IsAnswer(o, messageQueue'[o][i])
  BY DEF QueueStep
<1> DEFINE a == all(o)
<1>6. /\ IsList(a) /\ (o = Turn => a # <<>>)
      /\ \A j \in 1 .. Len(a) : Waits(o, a[j]) \/ IsAnswer(o, a[j])
      /\ messageQueue'[o] = IF o = Turn THEN Tail(a) ELSE a
  BY <1>4, <1>5
<1> HIDE DEF a
<1>7. CASE o = Turn
  BY <1>6, <1>7, TailList
<1>8. CASE o # Turn
  BY <1>6, <1>8
<1> QED
  BY <1>7, <1>8

\* Whatever the step.
LEMMA NextQueues ==
    ASSUME ServedSoFar, [Next]_vars
    PROVE  QueueStep /\ patch' = patch /\ build' = build
PROOF
<1>1. patch' = patch /\ build' = build
  BY DEF Next, vars, dspVars, signalVars, Tell, SendDirect, Receive, Connect,
         onInletConnectionUpdate, ResizeTable, ComputeBlock, ProcessBlock,
         ComputeToMessage, ProcessMessage, ComputeRest, ProcessRest,
         BeginBlock, BeginProcess, EndBlock, EndProcess, OtherStep, setSwitch,
         BeginDsp, PassOver
<1>2. ASSUME NEW o \in patch, Tell(o)
      PROVE  QueueStep
  BY <1>2, TellQueues
<1>3. ASSUME ComputeToMessage
      PROVE  QueueStep
  BY <1>3, MessageQueues
<1>4. \/ UNCHANGED messageQueue
      \/ \E o \in patch : Tell(o)
      \/ ComputeToMessage
  BY DEF Next, vars, dspVars, Connect,
         onInletConnectionUpdate, ResizeTable, ComputeBlock, ProcessBlock,
         ComputeRest, ProcessRest,
         BeginBlock, BeginProcess, EndBlock, EndProcess, OtherStep, setSwitch,
         BeginDsp, PassOver
<1> QED
  BY <1>1, <1>2, <1>3, <1>4, QueueStays

-----------------------------------------------------------------------------
(***************************************************************************)
(* What is told in time.                                                   *)
(***************************************************************************)

BlocksAtSamples == \E n \in Nat : blockStartTimestamp = n * TicksPerSample

\* A step of the block leaves its start where it is, or goes on by a block.
LEMMA NextStart ==
    ASSUME BlocksAtSamples, [Next]_vars
    PROVE  /\ BlocksAtSamples'
           /\ EndBlock => blockStart' = blockStart + BlockSize
PROOF
<1>1. PICK n \in Nat : blockStartTimestamp = n * TicksPerSample
  BY DEF BlocksAtSamples
<1>2. /\ TicksPerSample \in Nat \ {0} /\ BlockSize \in Nat
      /\ \A d \in Nat \ {0} : \A m \in Nat : (m * d) \div d = m
  BY DspAssumption
<1>3. CASE EndBlock
  <2>1. blockStartTimestamp' = n * TicksPerSample + BlockSize * TicksPerSample
    BY <1>1, <1>3 DEF EndBlock, EndProcess, BlockTicks
  <2>2. /\ n + BlockSize \in Nat
        /\ blockStartTimestamp' = (n + BlockSize) * TicksPerSample
    BY <1>2, <2>1
  <2>3. blockStart' = n + BlockSize /\ blockStart = n
    BY <1>1, <1>2, <2>2 DEF blockStart
  <2> QED
    BY <2>2, <2>3 DEF BlocksAtSamples
<1>4. CASE ~ EndBlock
  <2>1. blockStartTimestamp' = blockStartTimestamp
    BY <1>4 DEF Next, vars, dspVars, signalVars, Tell, SendDirect, Receive,
         Connect, onInletConnectionUpdate, ResizeTable, ComputeBlock,
         ProcessBlock, ComputeToMessage, ProcessMessage, ComputeRest,
         ProcessRest, BeginBlock, BeginProcess, OtherStep, setSwitch, BeginDsp,
         PassOver
  <2> QED
    BY <1>1, <1>4, <2>1 DEF BlocksAtSamples
<1> QED
  BY <1>3, <1>4

\* What handles messages and runs in every block, and whose direct messages are
\* of the time that the block starts at, has them in order and none of another
\* block.
ServedOnTime ==
    \A o \in (patch \cap (Handles \ Adapts)) \ Fed :
        DirectTimes[o] = {0} /\ Around[o] \cap Switchable = {} =>
            /\ o \notin late
            /\ phase # "dsp" =>
                   \A i \in 1 .. Len(messageQueue[o]) :
                       /\ blockStartTimestamp <= messageQueue[o][i].time
                       /\ messageQueue[o][i].time <= Reached

\* What comes late, and how far the messages of the block have been sent.
LEMMA NextLate ==
    ASSUME ServedSoFar, [Next]_vars
    PROVE  /\ \A o \in patch : o \in late' /\ o \notin late /\ DirectTimes[o] = {0} =>
                  \/ BeginDsp
                  \/ /\ phase # "dsp"
                     /\ \E time \in Int : Reached <= time /\ OutOfOrder(o, time)
           /\ phase' # "dsp" /\ ~ EndProcess =>
                  /\ phase # "dsp" /\ Reached <= Reached'
                  /\ blockStartTimestamp' = blockStartTimestamp
PROOF
<1>1. ASSUME NEW o \in patch, Tell(o)
      PROVE  phase # "dsp" /\ UNCHANGED <<phase, blockStartTimestamp>>
  BY <1>1 DEF Tell, SendDirect, Receive
<1>2. blockStartTimestamp \in Int /\ now \in Int
      /\ phase \in {"idle", "messages", "dsp"}
  BY DEF ServedSoFar, DspTyped
<1>3. \/ \E o \in patch : Tell(o)
      \/ BeginDsp /\ phase' = "dsp"
      \/ EndProcess /\ late' \subseteq late
      \/ BeginProcess /\ UNCHANGED <<late, blockStartTimestamp>>
      \/ UNCHANGED <<late, phase, now, blockStartTimestamp>>
  BY DEF Next, vars, dspVars, signalVars, Connect, onInletConnectionUpdate,
         ResizeTable, ComputeBlock, ProcessBlock, ComputeToMessage,
         ProcessMessage, ComputeRest, ProcessRest, BeginBlock, BeginProcess,
         EndBlock, OtherStep, setSwitch, PassOver, EndProcess, BeginDsp
<1>4. CASE \E o \in patch : Tell(o)
  BY <1>1, <1>4, TellQueues
<1>5. CASE BeginDsp /\ phase' = "dsp"
  BY <1>5
<1>6. CASE EndProcess /\ late' \subseteq late
  BY <1>6
<1>7. CASE BeginProcess /\ UNCHANGED <<late, blockStartTimestamp>>
  BY <1>2, <1>7 DEF BeginProcess, Reached
<1>8. CASE UNCHANGED <<late, phase, now, blockStartTimestamp>>
  BY <1>2, <1>8 DEF Reached, EndProcess
<1> QED
  BY <1>3, <1>4, <1>5, <1>6, <1>7, <1>8

LEMMA NextOnTime ==
    ASSUME ServedSoFar, ServedSoFar', ServedOnTime, [Next]_vars
    PROVE  ServedOnTime'
PROOF
<1>1. /\ QueueStep /\ patch' = patch /\ Fed' = Fed /\ patch \in Patches
      /\ turn \in Int /\ Len(nodes) \in Nat
      /\ blockStartTimestamp \in Int /\ now \in Int /\ Reached \in Int
      /\ now' \in Int /\ blockStartTimestamp' \in Int /\ Reached' \in Int
      /\ phase = "messages" => OfThisBlock(now)
      /\ \A o \in patch : \A i \in 1 .. Len(messageQueue[o]) :
             messageQueue[o][i].time \in Int
  BY NextQueues DEF Fed, ServedSoFar, DspTyped, Arrived, Reached
<1>2. phase' # "dsp" /\ ~ EndProcess =>
          /\ phase # "dsp" /\ Reached <= Reached'
          /\ blockStartTimestamp' = blockStartTimestamp
  BY NextLate
<1> SUFFICES ASSUME NEW o \in (patch \cap (Handles \ Adapts)) \ Fed,
                    DirectTimes[o] = {0}, Around[o] \cap Switchable = {}
             PROVE  /\ o \notin late'
                    /\ phase' # "dsp" =>
                           \A i \in 1 .. Len(messageQueue'[o]) :
                               /\ blockStartTimestamp' <= messageQueue'[o][i].time
                               /\ messageQueue'[o][i].time <= Reached'
  BY <1>1 DEF ServedOnTime
<1>3. /\ o \notin late
      /\ phase # "dsp" => \A i \in 1 .. Len(messageQueue[o]) :
             /\ blockStartTimestamp <= messageQueue[o][i].time
             /\ messageQueue[o][i].time <= Reached
  BY DEF ServedOnTime
<1>4. o \notin late'
  <2>1. CASE BeginDsp
    <3>1. phase = "messages" /\ Reached = now
      BY <2>1 DEF BeginDsp, Reached
    <3>2. \A i \in 1 .. Len(messageQueue[o]) :
              OfThisBlock(messageQueue[o][i].time)
      <4>1. BlockTicks \in Int
        BY DspAssumption DEF BlockTicks
      <4> QED
        BY <1>1, <1>3, <3>1, <4>1 DEF OfThisBlock
    <3> QED
      BY <1>3, <2>1, <3>2 DEF BeginDsp
  <2>2. ASSUME phase # "dsp", NEW time \in Int, Reached <= time
        PROVE  ~ OutOfOrder(o, time)
    <3>1. ASSUME NEW i \in 1 .. Len(messageQueue[o])
          PROVE  ~ (time < messageQueue[o][i].time)
      <4>1. messageQueue[o][i].time \in Int /\ messageQueue[o][i].time <= Reached
        BY <1>1, <1>3, <2>2
      <4>2. Reached \in Int
        BY <1>1
      <4> QED
        BY <2>2, <4>1, <4>2
    <3> QED
      BY <3>1 DEF OutOfOrder
  <2> QED
    BY <1>3, <2>1, <2>2, NextLate
<1>5. ASSUME phase' # "dsp", NEW i \in 1 .. Len(messageQueue'[o])
      PROVE  /\ blockStartTimestamp' <= messageQueue'[o][i].time
             /\ messageQueue'[o][i].time <= Reached'
  <2> DEFINE e == messageQueue'[o][i]
  <2>1. ~ EndProcess
    <3> SUFFICES ASSUME EndProcess
                 PROVE  FALSE
      OBVIOUS
    <3>1. PICK j \in 1 .. Len(nodes) : nodes[j] = o
      BY <1>1, NodesOfPatch
    <3>2. j \in 1 .. turn - 1 /\ phase = "dsp"
      BY <1>1, <3>1 DEF EndProcess
    <3>3. messageQueue[o] = <<>> /\ messageQueue' = messageQueue
      BY <3>1, <3>2 DEF ServedSoFar, Consumed, EndProcess
    <3>4. \A n \in 1 .. Len(<<>>) : FALSE
      OBVIOUS
    <3> QED
      BY <1>5, <3>3, <3>4
  <2>2. /\ phase # "dsp" /\ blockStartTimestamp' = blockStartTimestamp
        /\ Reached <= Reached'
    BY <1>2, <1>5, <2>1
  <2>3. CASE Waits(o, e)
    <3>1. PICK j \in 1 .. Len(messageQueue[o]) : e = messageQueue[o][j]
      BY <2>3 DEF Waits
    <3>2. /\ blockStartTimestamp <= e.time /\ e.time <= Reached
          /\ e.time \in Int
      BY <1>1, <1>3, <2>2, <3>1
    <3> HIDE DEF e
    <3>3. blockStartTimestamp' <= e.time /\ e.time <= Reached'
      BY <1>1, <2>2, <3>2
    <3> QED
      BY <3>3 DEF e
  <2>4. CASE IsTold(o, e)
    <3>1. Reached <= e.time /\ e.time <= Reached'
      BY <2>4 DEF IsTold
    <3>2. blockStartTimestamp <= Reached
      BY <1>1, <2>2 DEF Reached, OfThisBlock, ServedSoFar, DspTyped
    <3>3. e.time \in Int
      BY <1>1 DEF ServedSoFar, DspTyped
    <3> HIDE DEF e
    <3>4. blockStartTimestamp' <= e.time /\ e.time <= Reached'
      BY <1>1, <2>2, <3>1, <3>2, <3>3
    <3> QED
      BY <3>4 DEF e
  <2>5. ~ IsAnswer(o, e)
    BY <2>2 DEF IsAnswer, OnTurn
  <2> QED
    BY <1>1, <1>5, <2>3, <2>4, <2>5 DEF QueueStep
<1> QED
  BY <1>4, <1>5

\* No message for the left inlet of sig~ comes to another.
LEMMA NextLeft ==
    ASSUME ServedSoFar, LeftInletOnly, [Next]_vars
    PROVE  LeftInletOnly'
PROOF
<1>1. QueueStep /\ patch' = patch /\ patch \subseteq DspObjects
  BY NextQueues, DspAssumption DEF ServedSoFar, DspTyped
<1>2. ASSUME NEW o \in patch, Kind[o] = "sig~",
             NEW i \in 1 .. Len(messageQueue'[o])
      PROVE  messageQueue'[o][i].message.inlet = 0
  <2>1. CASE Waits(o, messageQueue'[o][i])
    BY <1>2, <2>1 DEF Waits, LeftInletOnly
  <2>2. CASE IsTold(o, messageQueue'[o][i])
    <3>1. PICK arguments \in Arguments[o] : TRUE
      BY <1>2 DEF LeftInletOnly
    <3>2. NewObject(o, arguments).lets[1] = 1
      BY <1>2 DEF NewObject, NewDspSignal
    <3> DEFINE lets == NewObject(o, arguments).lets[1]
    <3>3. \A message \in MessagesTo[o] : message.inlet \in 0 .. lets - 1
      BY <1>1, ConstructorAssumption
    <3> HIDE DEF lets
    <3> QED
      BY <2>2, <3>2, <3>3 DEF IsTold, lets
  <2>3. CASE IsAnswer(o, messageQueue'[o][i])
    BY <2>3 DEF IsAnswer, DspSnapshot
  <2> QED
    BY <1>1, <1>2, <2>1, <2>2, <2>3 DEF QueueStep
<1> QED
  BY <1>1, <1>2 DEF LeftInletOnly

-----------------------------------------------------------------------------
(***************************************************************************)
(* What is heard, step by step.                                            *)
(***************************************************************************)

HeardInvariant == NumbersKnown /\ LeftInletOnly /\ HeardSoFar

\* As long as nothing has been rendered, there is nothing to say.
LEMMA RestHeard ==
    ASSUME patch' = patch, \A o \in patch : rendered'[o] = <<>>
    PROVE  HeardSoFar'
PROOF
<1>1. ASSUME NEW o \in patch
      PROVE  HeardBy(o)'
  BY DEF HeardBy
<1> QED
  BY <1>1 DEF HeardSoFar

\* The numbers are not touched, nor where they are in force.
LEMMA NumbersStay ==
    ASSUME NumbersKnown, UNCHANGED <<patch, build, signal>>, SeenShape',
           \A o \in patch : /\ seen'[o].given = seen[o].given
                            /\ seen'[o].setBy = seen[o].setBy
    PROVE  NumbersKnown'
PROOF
<1>1. \A o : Numeric(o, signal[o])' <=> Numeric(o, signal[o])
  BY DEF Numeric
<1> QED
  BY <1>1 DEF NumbersKnown

\* A step in which nothing is computed.
LEMMA QuietHeard ==
    ASSUME ServedSoFar, NumbersKnown, HeardSoFar,
           UNCHANGED <<patch, build, signal, seen>>,
           \/ phase # "dsp" /\ rendered' = rendered
           \/ UNCHANGED <<rendered, processFunction, late, connected,
                          blockStartTimestamp, lost>>
    PROVE  NumbersKnown' /\ HeardSoFar'
PROOF
<1>1. NumbersKnown'
  BY NumbersStay DEF NumbersKnown, SeenShape
<1>2. ASSUME phase # "dsp" /\ rendered' = rendered
      PROVE  HeardSoFar'
  BY <1>2, AtRest, RestHeard DEF ServedSoFar
<1>3. ASSUME UNCHANGED <<rendered, processFunction, late, connected,
                         blockStartTimestamp, lost>>
      PROVE  HeardSoFar'
  <2>1. Fed' = Fed
    BY DEF Fed
  <2>2. ASSUME NEW o \in patch, HeardBy(o)
        PROVE  HeardBy(o)'
    <3>1. Inlets(o)' = Inlets(o)
      BY <1>3, InletsStay
    <3> QED
      BY <1>3, <2>2, <3>1 DEF HeardBy, Exact, Served, Out
  <2> QED
    BY <1>3, <2>1, <2>2 DEF HeardSoFar
<1> QED
  BY <1>1, <1>2, <1>3

\* An object computes in its turn.
LEMMA ComputesHeard ==
    ASSUME ServedSoFar, ServedSoFar', NumbersKnown, HearsBefore, HeardSoFar,
           OnTurn, NEW to \in Int,
           ~ lost => Computes(EndOf(rendered[Turn]), to),
           lost' = lost, UNCHANGED <<patch, late>>
    PROVE  HeardSoFar'
PROOF
<1>1. Fed' = Fed
  BY DEF Fed
<1>2. ASSUME ~ lost, NEW o \in patch \ (late \cup Fed), Kind[o] \in Settable
      PROVE  HeardBy(o)'
  BY <1>2, OthersHeard, TurnHeard DEF HeardSoFar
<1> QED
  BY <1>1, <1>2 DEF HeardSoFar

\* A part with no message at its end.
LEMMA ComputeHeard ==
    ASSUME ServedSoFar, ServedSoFar', NumbersKnown, HearsBefore, HeardSoFar,
           OnTurn, NEW from, from = EndOf(rendered[Turn]), Compute(from, BlockSize),
           Render(from, BlockSize),
           \A o \in Adapts \cap patch :
               processFunction'[o] = "other" <=> processFunction[o] = "other",
           UNCHANGED <<patch, build, connected, blockStartTimestamp, late>>
    PROVE  NumbersKnown' /\ HeardSoFar'
PROOF
<1>1. Turn \in patch /\ from \in Int /\ BlockSize \in Int
  BY OnItsTurn, DspAssumption
<1>2. /\ NumbersKnown'
      /\ ~ lost' =>
             /\ \A p \in patch \ {Turn} :
                    signal'[p] = signal[p] /\ seen'[p] = seen[p]
             /\ Kind[Turn] \in Settable =>
                    /\ signal'[Turn].out = Processed(Turn, from, BlockSize).out
                    /\ seen'[Turn].setBy =
                           Noted(Turn, from, BlockSize)[Turn].setBy
  BY <1>1, ComputeKnows
<1>3. ASSUME lost'
      PROVE  HeardSoFar'
  BY <1>3 DEF HeardSoFar
<1>4. ASSUME ~ lost'
      PROVE  HeardSoFar'
  BY <1>2, <1>4, <1>1, ComputesHeard DEF Computes, Compute
<1> QED
  BY <1>2, <1>3, <1>4

LEMMA ComputeBlockHeard ==
    ASSUME ServedSoFar, ServedSoFar', NumbersKnown, HearsBefore, HeardSoFar,
           ComputeBlock
    PROVE  NumbersKnown' /\ HeardSoFar'
PROOF
  BY OnItsTurn, ComputeHeard DEF ComputeBlock, ProcessBlock, ServedSoFar,
     Tiled, EndOf

LEMMA ComputeRestHeard ==
    ASSUME ServedSoFar, ServedSoFar', NumbersKnown, HearsBefore, HeardSoFar,
           ComputeRest
    PROVE  NumbersKnown' /\ HeardSoFar'
PROOF
<1>1. /\ OnTurn /\ inLoop /\ Compute(blockIndexOfLastMessage, BlockSize)
      /\ Render(blockIndexOfLastMessage, BlockSize)
      /\ processFunction' = [processFunction EXCEPT ![Turn] = "noMessage"]
      /\ UNCHANGED <<patch, build, connected, blockStartTimestamp, late>>
  BY DEF ComputeRest, ProcessRest
<1>2. blockIndexOfLastMessage = EndOf(rendered[Turn])
  BY <1>1, OnItsTurn
<1>3. \A o \in patch :
          processFunction'[o] = "other" <=> processFunction[o] = "other"
  <2>1. processFunction[Turn] = "message"
    BY <1>1 DEF ServedSoFar, Tiled
  <2> QED
    BY <1>1, <2>1 DEF ServedSoFar, DspTyped
<1> QED
  BY <1>1, <1>2, <1>3, ComputeHeard

LEMMA ComputeToMessageHeard ==
    ASSUME FeedsOnward, ServedSoFar, ServedSoFar', NumbersKnown, LeftInletOnly,
           HearsBefore, HeardSoFar, ComputeToMessage
    PROVE  NumbersKnown' /\ HeardSoFar'
PROOF
<1> DEFINE entry == Head(messageQueue[Turn])
           message == entry.message
           from == blockIndexOfLastMessage
           to == BlockIndex(entry.time)
           bang == Kind[Turn] = "snapshot~" /\ message.selector = "bang"
           receivers == IF bang THEN Feeds[Turn] ELSE {}
           answer == IF bang THEN DspSnapshot(Turn, entry) ELSE message
<1>1. /\ OnTurn /\ messageQueue[Turn] # <<>>
      /\ ProcessMessage(receivers, answer)
      /\ UNCHANGED <<patch, build, connected, blockStartTimestamp, late>>
  BY DEF ComputeToMessage, ProcessMessage
<1>2. /\ Turn \in patch /\ from \in Int /\ from = EndOf(rendered[Turn])
  BY <1>1, OnItsTurn
<1>3. /\ entry.time \in Int
      /\ Kind[Turn] = "sig~" => message.inlet = 0
  BY <1>1, <1>2, TailList DEF ServedSoFar, DspTyped, LeftInletOnly
<1>4. to \in Int
  <2>1. \A t \in Int : BlockIndex(t) \in Int
    BY IndexMonotone DEF ServedSoFar, DspTyped
  <2> QED
    BY <1>3, <2>1
<1>5. /\ Render(from, to)
      /\ \A o \in patch :
             processFunction'[o] = "other" <=> processFunction[o] = "other"
  <2>1. processFunction \in [patch -> {"noMessage", "message", "other"}]
    BY DEF ServedSoFar, DspTyped
  <2> HIDE DEF receivers, answer
  <2>2. \A o \in patch :
            processFunction'[o] \in {processFunction[o], noticed(o)[o]}
    BY <1>1 DEF ProcessMessage
  <2>3. \A o \in patch : noticed(o)[o] = IF processFunction[o] = "noMessage"
                                         THEN "message" ELSE processFunction[o]
    BY <2>1 DEF noticed
  <2>4. Render(from, to)
    BY <1>1 DEF ProcessMessage
  <2> QED
    BY <2>2, <2>3, <2>4
<1>6. CASE Dies(Turn, from, to)
  <2>1. lost' /\ UNCHANGED <<signal, seen>>
    BY <1>6 DEF ComputeToMessage
  <2> QED
    BY <1>1, <2>1, NumbersStay DEF HeardSoFar, NumbersKnown, SeenShape
<1>7. CASE ~ Dies(Turn, from, to)
  <2> DEFINE path == NewPath(Turn, Noted(Turn, from, to)[Turn].path, message,
                             blockStart + to)
             disturbed == \/ Noted(Turn, from, to)[Turn].disturbed
                          \/ message.selector = "clear"
                          \/ AskedForNone(Turn, from, to)
  <2>1. /\ TakesMessage(Turn, from, to, message, path, disturbed)
        /\ lost' = lost
    BY <1>7 DEF ComputeToMessage, TakesMessage
  <2> HIDE DEF path, disturbed, message, from, to
  <2>2. /\ NumbersKnown'
        /\ \A p \in patch \ {Turn} :
               signal'[p] = signal[p] /\ seen'[p] = seen[p]
        /\ Kind[Turn] \in Settable =>
               /\ signal'[Turn].out = Processed(Turn, from, to).out
               /\ seen'[Turn].setBy = Noted(Turn, from, to)[Turn].setBy
    BY <1>2, <1>3, <1>4, <2>1, <1>1, MessageKnows DEF message
  <2>3. Computes(from, to)
    BY <1>1, <1>5, <2>2 DEF Computes
  <2>4. HeardSoFar'
    BY <1>1, <1>2, <1>4, <2>1, <2>3, ComputesHeard
  <2> QED
    BY <2>2, <2>4
<1> QED
  BY <1>6, <1>7

LEMMA EndBlockHeard ==
    ASSUME ServedSoFar, NumbersKnown, EndBlock
    PROVE  NumbersKnown' /\ HeardSoFar'
PROOF
<1>1. /\ UNCHANGED <<patch, build, signal>>
      /\ rendered' = [o \in patch |-> <<>>]
  BY DEF EndBlock, EndProcess
<1> DEFINE before(o) == [out |-> IF "out" \in DOMAIN signal[o]
                                 THEN signal[o].out ELSE zeros,
                         setBy |-> seen[o].setBy,
                         whole |-> \A i \in DOMAIN rendered[o] :
                                       rendered[o][i].from % 8 = 0,
                         ran |-> rendered[o] # <<>>]
<1>2. seen' = [o \in patch |-> [seen[o] EXCEPT !.before = before(o)]]
  BY DEF EndBlock
<1> HIDE DEF before
<1>3. seen' = [o \in patch |->
                  [setBy |-> seen[o].setBy, path |-> seen[o].path,
                   disturbed |-> seen[o].disturbed, given |-> seen[o].given,
                   before |-> before(o)]]
  <2>1. ASSUME NEW o \in patch
        PROVE  [seen[o] EXCEPT !.before = before(o)] =
                   [setBy |-> seen[o].setBy, path |-> seen[o].path,
                    disturbed |-> seen[o].disturbed, given |-> seen[o].given,
                    before |-> before(o)]
    BY DEF NumbersKnown, SeenShape
  <2> QED
    BY <1>2, <2>1
<1>4. /\ SeenShape'
      /\ \A o \in patch : /\ seen'[o].given = seen[o].given
                          /\ seen'[o].setBy = seen[o].setBy
  BY <1>1, <1>3 DEF SeenShape
<1>5. NumbersKnown'
  BY <1>1, <1>4, NumbersStay
<1>6. HeardSoFar'
  BY <1>1, RestHeard
<1> QED
  BY <1>5, <1>6

LEMMA NextHeard ==
    ASSUME FeedsOnward, HearsBefore, ServedSoFar, HeardInvariant, [Next]_vars
    PROVE  HeardInvariant'
PROOF
<1>1. ServedSoFar' /\ LeftInletOnly'
  BY NextServed, NextLeft DEF HeardInvariant
<1>2. NumbersKnown /\ HeardSoFar /\ LeftInletOnly
  BY DEF HeardInvariant
<1> SUFFICES NumbersKnown' /\ HeardSoFar'
  BY <1>1 DEF HeardInvariant
<1>3. CASE UNCHANGED vars
  BY <1>2, <1>3, QuietHeard DEF vars, dspVars, signalVars
<1>4. ASSUME NEW o \in patch, Tell(o)
      PROVE  NumbersKnown' /\ HeardSoFar'
  BY <1>4, <1>2, QuietHeard DEF Tell, SendDirect, Receive
<1>5. ASSUME NEW o \in patch, Connect(o)
      PROVE  NumbersKnown' /\ HeardSoFar'
  BY <1>5, <1>2, QuietHeard DEF Connect, onInletConnectionUpdate
<1>6. CASE ResizeTable
  BY <1>2, <1>6, QuietHeard DEF ResizeTable, dspVars
<1>7. CASE ComputeBlock
  BY <1>1, <1>2, <1>7, ComputeBlockHeard
<1>8. CASE ComputeToMessage
  BY <1>1, <1>2, <1>8, ComputeToMessageHeard
<1>9. CASE ComputeRest
  BY <1>1, <1>2, <1>9, ComputeRestHeard
<1>10. CASE BeginBlock
  BY <1>2, <1>10, QuietHeard DEF BeginBlock, BeginProcess
<1>11. CASE EndBlock
  BY <1>2, <1>11, EndBlockHeard
<1>12. CASE OtherStep
  BY <1>2, <1>12, QuietHeard
     DEF OtherStep, setSwitch, BeginDsp, PassOver, signalVars
<1> QED
  BY <1>3, <1>4, <1>5, <1>6, <1>7, <1>8, <1>9, <1>10, <1>11, <1>12 DEF Next

LEMMA NewSettable ==
    ASSUME NEW o, Kind[o] \in Settable, NEW arguments
    PROVE  Numeric(o, NewObject(o, arguments))
PROOF
<1> DEFINE d == NewObject(o, arguments)
<1>1. DOMAIN zeros = Part(0, BlockSize)
  BY DEF zeros
<1>2. CASE Kind[o] \in {"+~", "-~", "*~", "/~", "min~"}
  BY <1>1, <1>2, ZenonT(60) DEF NewObject, NewDspAdd, NewDspSubtract,
     NewDspMultiply, NewDspDivide, NewDspMinimum, NewArithmetic, Numeric
<1>3. CASE Kind[o] \in {"sig~", "clip~", "log~"}
  BY <1>1, <1>3 DEF NewObject, NewDspSignal, NewDspClip, NewDspLog, Numeric
<1>4. CASE Kind[o] \in Fixed
  BY <1>1, <1>4 DEF NewObject, NewDspWrap, NewDspSqrt, NewDspReciprocalSqrt,
     NewDspCosine, NewFixed, Numeric, Fixed
<1> QED
  BY <1>2, <1>3, <1>4 DEF Settable, Arithmetic

LEMMA InitHeard ==
    ASSUME Init
    PROVE  HeardInvariant
PROOF
<1>1. /\ patch \in Patches /\ rendered = [o \in patch |-> <<>>]
      /\ messageQueue = [o \in patch |-> <<>>]
      /\ build \in Builds
  BY DEF Init, DspInit
<1>2. PICK arguments \in [patch -> UNION Range(Arguments)] :
          /\ \A o \in patch : arguments[o] \in Arguments[o]
          /\ signal = [o \in patch |-> NewObject(o, arguments[o])]
  BY DEF Init
<1>3. seen = [o \in patch |->
                 [setBy |-> zeros, path |-> Level, disturbed |-> FALSE,
                  given |-> IF Kind[o] \in Settable \ Fixed
                            THEN signal[o].constant ELSE 0,
                  before |-> [out |-> zeros, setBy |-> zeros,
                              whole |-> TRUE, ran |-> FALSE]]]
  BY DEF Init
<1>4. NumbersKnown
  <2>1. SeenShape
    BY <1>3 DEF SeenShape
  <2>2. signal = [o \in patch |-> signal[o]]
    BY <1>2
  <2>3. ASSUME NEW o \in patch, Kind[o] \in Settable
        PROVE  /\ Numeric(o, signal[o])
               /\ Kind[o] \notin Fixed => signal[o].constant = seen[o].given
               /\ DOMAIN seen[o].setBy = Part(0, BlockSize)
    BY <2>3, NewSettable, <1>2, <1>3 DEF zeros
  <2> QED
    BY <1>1, <2>1, <2>2, <2>3 DEF NumbersKnown
<1>5. LeftInletOnly
  BY <1>2, <1>1 DEF LeftInletOnly
<1>6. HeardSoFar
  BY <1>1 DEF HeardSoFar, HeardBy
<1> QED
  BY <1>4, <1>5, <1>6 DEF HeardInvariant

-----------------------------------------------------------------------------
(***************************************************************************)
(* What a snapshot~ answers.                                               *)
(***************************************************************************)

\* A snapshot~ that sends has no message of another block.
LEMMA SnapshotIsServed ==
    ASSUME patch \in Patches, ServedOnTime, LeftInletOnly, SnapshotsHearTheHost,
           NEW s \in patch, Feeds[s] # {}
    PROVE  s \notin Fed \cup late
PROOF
<1>1. /\ s \in DspObjects /\ Kind[s] = "snapshot~"
      /\ Around[s] \cap Switchable = {} /\ DirectTimes[s] = {0}
      /\ s \notin Fed
  BY DspAssumption DEF SnapshotsHearTheHost, Fed
<1>2. s \notin Adapts
  BY <1>1, SignalAssumption DEF Arithmetic
<1>3. s \in Handles
  <2>1. PICK arguments \in Arguments[s] : TRUE
    BY DEF LeftInletOnly
  <2>2. NewObject(s, arguments) = NewDspSnapshot
    BY <1>1 DEF NewObject
  <2>3. s \in Handles <=> HandlesMessages(s, NewObject(s, arguments))
    BY <1>1, ConstructorAssumption
  <2>4. HandlesMessages(s, NewDspSnapshot)
    BY <1>1 DEF HandlesMessages, NewDspSnapshot
  <2> QED
    BY <2>2, <2>3, <2>4
<1> QED
  BY <1>1, <1>2, <1>3 DEF ServedOnTime

\* The sample at a time is as many after the first of the block as that is
\* after the start of the block.
LEMMA SampleOfTime ==
    ASSUME NEW n \in Nat, blockStartTimestamp = n * TicksPerSample,
           NEW t \in Int, blockStartTimestamp <= t,
           t < blockStartTimestamp + BlockTicks
    PROVE  LET k == (t - blockStartTimestamp) \div TicksPerSample
           IN  /\ blockStart \in Int /\ k \in Part(0, BlockSize)
               /\ blockStart + k = t \div TicksPerSample
PROOF
<1>1. ASSUME NEW d \in Nat \ {0}, NEW b \in Nat, NEW r \in Int,
             0 <= r, r < b * d
      PROVE  /\ r \div d \in 0 .. b - 1
             /\ (n * d) \div d = n
             /\ (n * d + r) \div d = n + r \div d
  BY <1>1
<1>2. /\ TicksPerSample \in Nat \ {0} /\ BlockSize \in Nat
      /\ BlockTicks = BlockSize * TicksPerSample
  BY DspAssumption DEF BlockTicks
<1> DEFINE r == t - blockStartTimestamp
<1>3. blockStartTimestamp \in Int
  BY <1>2
<1>4. r \in Int /\ 0 <= r /\ r < BlockSize * TicksPerSample
      /\ t = n * TicksPerSample + r
  BY <1>2, <1>3
<1> HIDE DEF r
<1>5. /\ r \div TicksPerSample \in 0 .. BlockSize - 1
      /\ blockStart = n
      /\ t \div TicksPerSample = n + r \div TicksPerSample
  BY <1>1, <1>2, <1>4 DEF blockStart
<1> QED
  BY <1>5 DEF r, Part

\* An answer is the host's sample at the time of the question.
LEMMA AnswerIsOfItsTime ==
    ASSUME ServedSoFar, BlocksAtSamples, ServedOnTime, LeftInletOnly,
           SnapshotsHearTheHost, NEW o, NEW e, IsAnswer(o, e)
    PROVE  e.message.floats = <<Host(e.time \div TicksPerSample)>>
PROOF
<1> DEFINE q == messageQueue[Turn]
           t == Head(q).time
           k == (t - blockStartTimestamp) \div TicksPerSample
<1>1. /\ OnTurn /\ Kind[Turn] = "snapshot~" /\ Feeds[Turn] # {}
      /\ q # <<>>
      /\ e.time = t /\ e.message = DspSnapshot(Turn, Head(q))
  BY DEF IsAnswer
<1>2. /\ Turn \in patch /\ patch \in Patches /\ phase = "dsp"
      /\ blockStartTimestamp \in Int /\ now \in Int
      /\ IsList(q) /\ \A i \in 1 .. Len(q) : q[i].time \in Int
  BY <1>1, OnItsTurn DEF ServedSoFar, DspTyped
<1>3. /\ SourcesOf[Turn] = <<adc_1>>
      /\ \A p \in patch : Kind[p] # "dac~" /\ Turn \notin Feeds[p]
  BY <1>1, <1>2 DEF SnapshotsHearTheHost
<1>4. Turn \notin Fed \cup late
  BY <1>1, <1>2, SnapshotIsServed
<1>5. /\ t \in Int /\ blockStartTimestamp <= t
      /\ t < blockStartTimestamp + BlockTicks
  <2>1. \A i \in 1 .. Len(q) : OfThisBlock(q[i].time)
    BY <1>2, <1>4 DEF ServedSoFar, Tiled
  <2> HIDE DEF q
  <2>2. Head(q) = q[1] /\ 1 \in 1 .. Len(q)
    BY <1>1, <1>2, TailList
  <2> QED
    BY <1>2, <2>1, <2>2 DEF OfThisBlock
<1> HIDE DEF t, k
<1>6. /\ blockStart \in Int /\ k \in Part(0, BlockSize)
      /\ blockStart + k = t \div TicksPerSample
  BY <1>5, SampleOfTime DEF BlocksAtSamples, k
<1>7. Inlets(Turn)[1] = Buffer(adc_1)
  BY <1>3 DEF Inlets
<1>8. Buffer(adc_1) = [j \in Part(0, BlockSize) |-> Host(blockStart + j)]
  BY <1>2, <1>3, SignalAssumption, DspAssumption DEF WholeNumbers, Input,
     Buffer, zeros
<1>9. At(Inlets(Turn)[1], k) = Host(t \div TicksPerSample)
  BY <1>6, <1>7, <1>8 DEF At
<1>10. e.message.floats = <<At(Inlets(Turn)[1], k)>>
  <2>1. Head(q).time - blockStartTimestamp >= 0
    BY <1>2, <1>5 DEF t
  <2> QED
    BY <1>1, <2>1 DEF DspSnapshot, t, k
<1> QED
  BY <1>1, <1>9, <1>10

SnapshotInvariant == BlocksAtSamples /\ ServedOnTime /\ SnapshotIsOfItsTime

LEMMA InitSnapshots ==
    ASSUME Init
    PROVE  SnapshotInvariant
PROOF
<1>1. /\ messageQueue = [o \in patch |-> <<>>]
      /\ blockStartTimestamp = 0 /\ late = {}
  BY DEF Init, DspInit
<1>2. blockStartTimestamp = 0 * TicksPerSample
  BY <1>1, DspAssumption
<1>3. (\A i \in 1 .. Len(<<>>) : FALSE) /\ (\A i \in DOMAIN <<>> : FALSE)
  OBVIOUS
<1>4. BlocksAtSamples /\ ServedOnTime
  BY <1>1, <1>2, <1>3 DEF BlocksAtSamples, ServedOnTime
<1>5. SnapshotIsOfItsTime
  BY <1>1, <1>3 DEF SnapshotIsOfItsTime
<1> QED
  BY <1>4, <1>5 DEF SnapshotInvariant

LEMMA NextSnapshots ==
    ASSUME ServedSoFar, ServedSoFar', LeftInletOnly, SnapshotsHearTheHost,
           SnapshotInvariant, [Next]_vars
    PROVE  SnapshotInvariant'
PROOF
<1>1. QueueStep /\ patch' = patch /\ patch \in Patches /\ Fed' = Fed
  BY NextQueues DEF ServedSoFar, DspTyped, Fed
<1>2. BlocksAtSamples /\ ServedOnTime /\ SnapshotIsOfItsTime
  BY DEF SnapshotInvariant
<1>3. BlocksAtSamples' /\ ServedOnTime'
  BY <1>2, NextStart, NextOnTime
<1>4. \A o \in patch : DOMAIN messageQueue[o] = 1 .. Len(messageQueue[o])
  BY DEF ServedSoFar, DspTyped, IsList
<1>5. \A o \in patch : DOMAIN messageQueue'[o] = 1 .. Len(messageQueue'[o])
  BY <1>1 DEF ServedSoFar, DspTyped, IsList
<1>7. ASSUME NEW o \in Fed \cap patch, NEW i \in 1 .. Len(messageQueue'[o]),
             messageQueue'[o][i].message.selector = "float",
             messageQueue'[o][i].message.inlet = 0
      PROVE  messageQueue'[o][i].message.floats =
                 <<Host(messageQueue'[o][i].time \div TicksPerSample)>>
  <2> DEFINE e == messageQueue'[o][i]
  <2>1. CASE Waits(o, e)
    BY <1>2, <1>4, <1>7, <2>1 DEF Waits, SnapshotIsOfItsTime
  <2>2. ~ IsTold(o, e)
    <3>1. PICK s \in patch : o \in Feeds[s]
      BY DEF Fed
    <3>2. \A message \in MessagesTo[o] :
              message.selector = "float" => message.inlet # 0
      BY <1>1, <3>1 DEF SnapshotsHearTheHost
    <3> QED
      BY <1>7, <3>2 DEF IsTold
  <2>3. CASE IsAnswer(o, e)
    BY <1>2, <2>3, AnswerIsOfItsTime
  <2> QED
    BY <1>1, <1>7, <2>1, <2>2, <2>3 DEF QueueStep
<1>8. SnapshotIsOfItsTime'
  <2>1. \A t : Host(t)' = Host(t)
    BY DEF Host
  <2> QED
    BY <1>1, <1>5, <1>7, <2>1 DEF SnapshotIsOfItsTime
<1> QED
  BY <1>3, <1>8 DEF SnapshotInvariant

-----------------------------------------------------------------------------
\* What has had its turn in a graph that is on has rendered something.
RanSoFar ==
    \A i \in 1 .. turn - 1 : Runs(nodes[i]) => rendered[nodes[i]] # <<>>

LEMMA RenderRan ==
    ASSUME ServedSoFar, RanSoFar, OnTurn, NEW from \in Int, NEW to \in Int,
           Render(from, to), turn' \in {turn, turn + 1},
           UNCHANGED <<patch, switched>>
    PROVE  RanSoFar'
PROOF
<1> DEFINE T == Turn
           part == [from |-> from, to |-> to]
<1>1. /\ turn \in 1 .. Len(nodes) /\ T \in patch /\ T = nodes[turn]
      /\ rendered \in [patch -> Seq(RenderedPart)] /\ nodes' = nodes
      /\ part \in RenderedPart
  BY OnItsTurn DEF Turn, ServedSoFar, DspTyped, nodes, RenderedPart
<1>2. rendered' = [rendered EXCEPT ![T] = Append(rendered[T], part)]
  BY DEF Render
<1>3. Append(rendered[T], part) # <<>>
  <2> DEFINE q == rendered[T]
  <2>1. q \in Seq(RenderedPart)
    BY <1>1
  <2> HIDE DEF q, part
  <2>2. Append(q, part) # <<>>
    BY <1>1, <2>1
  <2> QED
    BY <2>2 DEF q
<1> HIDE DEF T, part
<1>4. rendered'[T] # <<>> /\ \A o \in patch \ {T} : rendered'[o] = rendered[o]
  BY <1>1, <1>2, <1>3
<1>5. \A i \in 1 .. turn' - 1 : i \in 1 .. turn - 1 \/ i = turn
  <2>1. turn \in Int
    BY <1>1
  <2>2. CASE turn' = turn
    BY <2>1, <2>2
  <2>3. CASE turn' = turn + 1
    BY <2>1, <2>3
  <2> QED
    BY <2>2, <2>3
<1>6. \A i \in 1 .. Len(nodes) : nodes[i] \in patch
  BY NodesOfPatch DEF ServedSoFar, DspTyped
<1>7. ASSUME NEW i \in 1 .. turn' - 1, Runs(nodes[i])
      PROVE  rendered'[nodes[i]] # <<>>
  <2>1. CASE nodes[i] = T
    BY <1>4, <2>1
  <2>2. CASE nodes[i] # T
    <3>1. i \in 1 .. turn - 1 /\ nodes[i] \in patch
      <4>1. i \in 1 .. turn - 1
        BY <1>1, <1>5, <2>2
      <4> QED
        BY <1>1, <1>6, <4>1
    <3> QED
      BY <1>4, <1>7, <2>2, <3>1 DEF RanSoFar
  <2> QED
    BY <2>1, <2>2
<1> QED
  BY <1>1, <1>7 DEF RanSoFar, Runs

LEMMA NextRan ==
    ASSUME ServedSoFar, ServedSoFar', RanSoFar, [Next]_vars
    PROVE  RanSoFar'
PROOF
<1>1. CASE phase' # "dsp" \/ turn' = 1
  <2>1. turn' = 1
    BY <1>1 DEF ServedSoFar, Tiled
  <2>2. \A i \in 1 .. turn' - 1 : FALSE
    BY <2>1
  <2> QED
    BY <2>2 DEF RanSoFar
<1>2. CASE /\ UNCHANGED <<patch, switched, rendered>>
           /\ turn' = turn
  BY <1>2 DEF RanSoFar, Runs, nodes
<1>3. CASE PassOver
  <2>1. /\ turn \in 1 .. Len(nodes) /\ turn' = turn + 1 /\ ~ Runs(Turn)
        /\ UNCHANGED <<patch, switched, rendered>> /\ nodes' = nodes
    BY <1>3, OnItsTurn DEF PassOver, nodes
  <2>2. \A i \in 1 .. turn' - 1 : i \in 1 .. turn - 1 \/ i = turn
    BY <2>1
  <2> QED
    BY <2>1, <2>2 DEF RanSoFar, Runs, Turn
<1>4. CASE ComputeBlock
  BY <1>4, DspAssumption, RenderRan DEF ComputeBlock, ProcessBlock
<1>5. CASE ComputeRest
  BY <1>5, DspAssumption, OnItsTurn, RenderRan DEF ComputeRest, ProcessRest
<1>6. CASE ComputeToMessage
  <2> DEFINE q == messageQueue[Turn]
             to == BlockIndex(Head(q).time)
  <2>1. /\ OnTurn /\ Render(blockIndexOfLastMessage, to)
        /\ turn' = turn /\ UNCHANGED <<patch, switched>> /\ q # <<>>
    BY <1>6 DEF ComputeToMessage, ProcessMessage
  <2>2. /\ IsList(q) /\ \A i \in 1 .. Len(q) : q[i].time \in Int
    BY <2>1, OnItsTurn DEF ServedSoFar, DspTyped
  <2> HIDE DEF q
  <2>3. Head(q) = q[1] /\ 1 \in 1 .. Len(q)
    BY <2>1, <2>2, TailList
  <2>4. Head(q).time \in Int
    BY <2>2, <2>3
  <2>5. to \in Int
    <3>1. \A t \in Int : BlockIndex(t) \in Int
      BY IndexMonotone DEF ServedSoFar, DspTyped
    <3> QED
      BY <2>4, <3>1
  <2> HIDE DEF to
  <2> QED
    BY <2>1, <2>5, OnItsTurn, RenderRan
<1>7. \/ phase' # "dsp" \/ turn' = 1
      \/ UNCHANGED <<patch, switched, rendered>> /\ turn' = turn
      \/ PassOver \/ ComputeBlock \/ ComputeRest \/ ComputeToMessage
  BY DEF Next, vars, dspVars, signalVars, Tell, SendDirect, Receive, Connect,
         onInletConnectionUpdate, ResizeTable, BeginBlock, BeginProcess,
         EndBlock, OtherStep, setSwitch, EndProcess, BeginDsp
<1> QED
  BY <1>1, <1>2, <1>3, <1>4, <1>5, <1>6, <1>7

\* When the graph has run, what was said of parts and blocks holds of all.
LEMMA HeardIsHeard ==
    ASSUME ServedSoFar, HeardInvariant, SnapshotInvariant, RanSoFar
    PROVE  InletsAreHeard
PROOF
<1>1. /\ patch \in Patches /\ turn \in Int /\ Len(nodes) \in Nat
      /\ \A o \in patch : \E i \in 1 .. Len(nodes) : nodes[i] = o
      /\ \A o \in patch : rendered[o] \in Seq(RenderedPart)
  BY NodesOfPatch DEF ServedSoFar, DspTyped
<1>2. ASSUME NEW kinds \in {Settable, Arithmetic}, NEW o \in Done(kinds)
      PROVE  /\ o \in patch \ (late \cup Fed) /\ Kind[o] \in kinds
             /\ Kind[o] \in Settable /\ HeardBy(o) /\ rendered[o] # <<>>
  BY <1>1 DEF Done, HeardInvariant, HeardSoFar, Settable, RanSoFar
<1>3. SettingTakesEffect
  BY <1>2, <1>1 DEF SettingTakesEffect, DoneWithNumber, HeardBy
<1>4. BothInletsHeard
  BY <1>2 DEF BothInletsHeard, HeardBy, zeros
<1> QED
  BY <1>3, <1>4 DEF InletsAreHeard, SnapshotInvariant

\* A number that comes to an inlet takes effect at the sample of its time, in
\* every build that computes the part as the plain one does; with audio at both
\* inlets the block is made of the two; and a snapshot~ answers with the sample
\* of the time it was asked at.  This holds of any patch in which an object
\* feeds and is heard by those after it, and whose snapshot~s that feed others
\* hear the host (processScalar and processSignal of each class,
\* DspSnapshot::processMessage).
THEOREM InletsCorrect ==
    ASSUME FeedsOnward, HearsBefore, SnapshotsHearTheHost
    PROVE  Spec => []InletsAreHeard
PROOF
<1> DEFINE Heard == /\ ServedSoFar /\ HeardInvariant /\ SnapshotInvariant
                    /\ RanSoFar
<1>1. Init => Heard
  <2>1. Init => RanSoFar
    BY DEF Init, DspInit, RanSoFar
  <2> QED
    BY <2>1, InitServed, InitHeard, InitSnapshots
<1>2. Heard /\ [Next]_vars => Heard'
  BY NextServed, NextHeard, NextSnapshots, NextRan DEF HeardInvariant
<1>3. Heard => InletsAreHeard
  BY HeardIsHeard
<1> QED
  BY <1>1, <1>2, <1>3, PTL DEF Spec

-----------------------------------------------------------------------------
(***************************************************************************)
(* What is read at a place.                                                *)
(***************************************************************************)

TableReaders == {"tabread~", "tabread4~"}
LineReaders == {"delread~", "vd~"}

\* A record with a buffer.
HasBuffer(d) ==
    /\ d = [f \in DOMAIN d |-> d[f]]
    /\ "out" \in DOMAIN d /\ DOMAIN d.out = Part(0, BlockSize)

\* The readers' records, and those of the sig~s that may give them places.
LevelIsGiven(d) ==
    /\ HasBuffer(d) /\ "constant" \in DOMAIN d /\ d.constant \in Int
    /\ \A k \in Part(0, BlockSize) : d.out[k] \in Int

TableReaderKnown(d) ==
    HasBuffer(d) /\ {"offset", "hasTable"} \subseteq DOMAIN d /\ d.offset \in Int

LineReaderKnown(o, d) ==
    /\ HasBuffer(d)
    /\ Kind[o] = "delread~" =>
           "delayInSamples" \in DOMAIN d /\ d.delayInSamples \in Nat

LevelsKnown ==
    \A o \in patch : Kind[o] = "sig~" /\ o \notin Fed => LevelIsGiven(signal[o])

ReadersKnown ==
    /\ tableLength \in Nat \ {0}
    /\ \A o \in patch :
           /\ Kind[o] = "sig~" /\ o \notin Fed => LevelIsGiven(signal[o])
           /\ Kind[o] \in TableReaders => TableReaderKnown(signal[o])
           /\ Kind[o] \in LineReaders => LineReaderKnown(o, signal[o])

\* What they are told are numbers.
GivenBy(o, message) ==
    \/ Kind[o] = "sig~" /\ o \notin Fed
    \/ Kind[o] \in TableReaders /\ message.inlet = 1

NumbersWait ==
    \A o \in patch : \A i \in 1 .. Len(messageQueue[o]) :
        GivenBy(o, messageQueue[o][i].message) =>
            messageQueue[o][i].message.floats \in Seq(Int)

\* What is in a delay line that was written up to a time: the samples before
\* that, as many as there is room for.
Holds(d, time) ==
    LET h == d.headIndex
        n == d.bufferLength
    IN  /\ d = [f \in {"lets", "functions", "bufferLength", "headIndex", "delay",
                       "buffer"} |-> d[f]]
        /\ d.delay \in Nat /\ d.delay + BlockSize <= n
        /\ \E i, j \in Nat : /\ h = i * BlockSize /\ n = j * BlockSize
                             /\ i < j
        /\ DOMAIN d.buffer = 0 .. n
        /\ \A i \in 0 .. n - 1 :
               d.buffer[i] = Host(time - h + i - (IF i < h THEN 0 ELSE n))
        /\ d.buffer[n] = d.buffer[0]

\* An object has had its turn in this block.
Passed(o) == \E i \in 1 .. turn - 1 : nodes[i] = o

LineRead == \E o \in patch : Kind[o] \in LineReaders

\* A line that is read has all of the input up to the block, and that of the
\* block when it has had its turn.
WrittenTo(w) == blockStart + (IF Passed(w) THEN BlockSize ELSE 0)

LineHolds ==
    ~ lost /\ LineRead =>
        \A w \in patch : Kind[w] = "delwrite~" => Holds(signal[w], WrittenTo(w))

\* What does not handle messages never looks for them.
OthersAreOther ==
    \A o \in patch \ Handles : processFunction[o] = "other"

\* Blocks start at samples.
\* A sample that was read from the table, or from the line.
IsAtPlace(o, z, y) ==
    LET low == table[Place(y \div Unit)]
        high == table[Place(y \div Unit + 1)]
    IN  IF Kind[o] = "tabread~" THEN z = table[Place(Truncated(y))]
        ELSE low <= z /\ z <= high /\ (y % Unit = 0 => z = low)

RightFromTable(o, k) ==
    seen[o].setBy[k][2] =>
        IsAtPlace(o, Out(o)[k], Inlets(o)[1][k] + seen[o].setBy[k][1])

RightFromLine(o, k) ==
    IF Kind[o] = "delread~"
    THEN signal[o].delayInSamples <= line.delay =>
             Out(o)[k] = Host(blockStart + k - Behind(o)
                                  - signal[o].delayInSamples)
    ELSE LET delay == Inlets(o)[1][k]
         IN  delay <= line.delay * Unit =>
                 Out(o)[k] = HostAt((blockStart + k - Behind(o)) * Unit
                                        - (IF delay < 0 THEN 0 ELSE delay))

RightSoFar(o) ==
    \A k \in Part(0, EndOf(rendered[o])) :
        /\ Kind[o] \in TableReaders => RightFromTable(o, k)
        /\ Kind[o] \in LineReaders => RightFromLine(o, k)

\* What has been rendered so far was read at its place.
ReadSoFar == ~ lost => \A o \in patch \ (late \cup Fed) : RightSoFar(o)

ReadInvariant ==
    /\ BlocksAtSamples /\ OthersAreOther
    /\ ReadersKnown /\ NumbersWait
    /\ LineHolds /\ ReadSoFar

-----------------------------------------------------------------------------
(***************************************************************************)
(* The memories.                                                           *)
(***************************************************************************)

LEMMA BlocksFit ==
    ASSUME NEW i \in Nat, NEW j \in Nat, i < j
    PROVE  /\ BlockSize \in Nat \ {0}
           /\ i * BlockSize \in Nat /\ j * BlockSize \in Nat
           /\ i * BlockSize + BlockSize <= j * BlockSize
           /\ (i + 1) * BlockSize = i * BlockSize + BlockSize
           /\ i + 1 < j \/ i * BlockSize + BlockSize = j * BlockSize
PROOF
<1>1. BlockSize \in Nat \ {0}
  BY DspAssumption
<1>2. \A b \in Nat \ {0} : /\ i * b + b <= j * b /\ (i + 1) * b = i * b + b
                           /\ i * b \in Nat /\ j * b \in Nat
                           /\ i + 1 < j \/ i * b + b = j * b
  OBVIOUS
<1> QED
  BY <1>1, <1>2

\* A line that was written up to a time, and then a block more.
LEMMA LineWritten ==
    ASSUME NEW d, NEW time \in Int, Holds(d, time), NEW x,
           x[1] = [k \in Part(0, BlockSize) |-> Host(time + k)]
    PROVE  /\ Holds(DspDelayWrite(d, x, BlockSize), time + BlockSize)
           /\ DspDelayWrite(d, x, BlockSize).delay = d.delay
PROOF
<1> DEFINE h == d.headIndex
           n == d.bufferLength
           b == d.buffer
           head == h + BlockSize
           c == [i \in DOMAIN b |-> IF i \in Part(h, head) THEN x[1][i - h]
                                    ELSE IF i = n /\ h = 0 THEN x[1][0] ELSE b[i]]
           g == IF head >= n THEN 0 ELSE head
           e == DspDelayWrite(d, x, BlockSize)
<1>1. PICK i, j \in Nat : h = i * BlockSize /\ n = j * BlockSize /\ i < j
  BY DEF Holds
<1>2. /\ BlockSize \in Nat \ {0} /\ h \in Nat /\ n \in Nat /\ head <= n
      /\ i + 1 < j \/ head = n
      /\ (i + 1) * BlockSize = head
  BY <1>1, BlocksFit
<1>3. \E p, q \in Nat : g = p * BlockSize /\ n = q * BlockSize /\ p < q
  <2>1. CASE head = n
    <3>1. g = 0 * BlockSize /\ 0 \in Nat /\ 0 < j
      BY <1>1, <1>2, <2>1
    <3> QED
      BY <1>1, <3>1
  <2>2. CASE head # n
    <3>1. g = (i + 1) * BlockSize /\ i + 1 \in Nat /\ i + 1 < j
      BY <1>2, <2>2
    <3> QED
      BY <1>1, <3>1
  <2> QED
    BY <2>1, <2>2
<1>4. /\ d = [lets |-> d.lets, functions |-> d.functions, bufferLength |-> n,
              headIndex |-> h, delay |-> d.delay, buffer |-> b]
      /\ d.delay \in Nat /\ d.delay + BlockSize <= n /\ DOMAIN b = 0 .. n
      /\ \A k \in 0 .. n - 1 :
             b[k] = Host(time - h + k - (IF k < h THEN 0 ELSE n))
      /\ b[n] = b[0]
  BY DEF Holds
<1>5. e = [lets |-> d.lets, functions |-> d.functions, bufferLength |-> n,
           headIndex |-> g, delay |-> d.delay, buffer |-> c]
  <2>1. e = [d EXCEPT !.buffer = c, !.headIndex = g]
    BY DEF DspDelayWrite
  <2> HIDE DEF c, g, e
  <2> DEFINE m == [d EXCEPT !.buffer = c]
  <2>2. m = [lets |-> d.lets, functions |-> d.functions, bufferLength |-> n,
             headIndex |-> h, delay |-> d.delay, buffer |-> c]
    BY <1>4
  <2>3. e = [m EXCEPT !.headIndex = g]
    BY <2>1
  <2> HIDE DEF m
  <2> QED
    BY <2>2, <2>3
<1>6. DOMAIN c = 0 .. n
  BY <1>4
<1> HIDE DEF h, n, b, e
<1>7. \A k \in 0 .. n - 1 :
          c[k] = Host(time + BlockSize - g + k - (IF k < g THEN 0 ELSE n))
  <2> SUFFICES ASSUME NEW k \in 0 .. n - 1
               PROVE  c[k] = Host(time + BlockSize - g + k
                                      - (IF k < g THEN 0 ELSE n))
    OBVIOUS
  <2>1. CASE k \in Part(h, head)
    <3>1. k - h \in Part(0, BlockSize)
      BY <1>2, <2>1 DEF Part
    <3>2. c[k] = Host(time + (k - h))
      <4>1. x[1][k - h] = Host(time + (k - h))
        BY <3>1
      <4> QED
        BY <1>2, <1>4, <2>1, <4>1
    <3>3. time + BlockSize - g + k - (IF k < g THEN 0 ELSE n) = time + (k - h)
      BY <1>2, <2>1 DEF Part
    <3> QED
      BY <3>2, <3>3
  <2>2. CASE k \notin Part(h, head)
    <3>1. c[k] = Host(time - h + k - (IF k < h THEN 0 ELSE n))
      BY <1>2, <1>4, <2>2
    <3>2. time + BlockSize - g + k - (IF k < g THEN 0 ELSE n)
              = time - h + k - (IF k < h THEN 0 ELSE n)
      BY <1>2, <2>2 DEF Part
    <3> QED
      BY <3>1, <3>2
  <2> QED
    BY <2>1, <2>2
<1>8. c[n] = c[0]
  <2>1. 0 \in DOMAIN b /\ n \in DOMAIN b /\ n \notin Part(h, head) /\ n # 0
    BY <1>2, <1>4 DEF Part
  <2>2. CASE h = 0
    <3>1. 0 \in Part(h, head) /\ 0 - h = 0
      BY <1>2, <2>2 DEF Part
    <3> QED
      BY <2>1, <2>2, <3>1
  <2>3. CASE h # 0
    <3>1. 0 \notin Part(h, head)
      BY <1>2, <2>3 DEF Part
    <3> QED
      BY <1>4, <2>1, <2>3, <3>1
  <2> QED
    BY <2>2, <2>3
<1> HIDE DEF c, g
<1>9. /\ e.headIndex = g /\ e.bufferLength = n /\ e.delay = d.delay
      /\ e.buffer = c
      /\ e = [f \in {"lets", "functions", "bufferLength", "headIndex", "delay",
                     "buffer"} |-> e[f]]
  BY <1>5
<1>10. Holds(e, time + BlockSize)
  <2>1. \A k \in 0 .. e.bufferLength - 1 :
            e.buffer[k] = Host((time + BlockSize) - e.headIndex + k
                              - (IF k < e.headIndex THEN 0 ELSE e.bufferLength))
    BY <1>2, <1>7, <1>9 DEF g
  <2>2. /\ \E p, q \in Nat : /\ e.headIndex = p * BlockSize
                             /\ e.bufferLength = q * BlockSize /\ p < q
        /\ e.delay \in Nat /\ e.delay + BlockSize <= e.bufferLength
        /\ DOMAIN e.buffer = 0 .. e.bufferLength
        /\ e.buffer[e.bufferLength] = e.buffer[0]
    BY <1>3, <1>4, <1>6, <1>8, <1>9
  <2> QED
    BY <1>9, <2>1, <2>2 DEF Holds
<1> QED
  BY <1>9, <1>10 DEF e

\* A block is read from a line as it was written so long ago.
LEMMA LineIsRead ==
    ASSUME NEW w, NEW time \in Int, Holds(w, time),
           NEW d, DOMAIN d.out = Part(0, BlockSize), "out" \in DOMAIN d,
           d.delayInSamples \in Nat, d.delayInSamples <= w.delay,
           NEW k \in Part(0, BlockSize)
    PROVE  DspDelayRead(d, w, BlockSize).out[k] =
               Host(time - BlockSize + k - d.delayInSamples)
PROOF
<1> DEFINE h == w.headIndex
           n == w.bufferLength
           b == w.buffer
           D == d.delayInSamples
           index == delayIndex(d, w, BlockSize)
           run == IF index > n - BlockSize THEN n - index ELSE BlockSize
           out == [j \in DOMAIN d.out |->
                      IF j < run THEN At(b, index + j)
                      ELSE IF j < BlockSize THEN At(b, j - run) ELSE d.out[j]]
<1>1. /\ w.delay \in Nat /\ w.delay + BlockSize <= n /\ DOMAIN b = 0 .. n
      /\ \A j \in 0 .. n - 1 :
             b[j] = Host(time - h + j - (IF j < h THEN 0 ELSE n))
  BY DEF Holds
<1>2. BlockSize \in Nat \ {0} /\ h \in Nat /\ n \in Nat /\ h + BlockSize <= n
  <2>1. PICK i, j \in Nat : h = i * BlockSize /\ n = j * BlockSize /\ i < j
    BY DEF Holds
  <2> QED
    BY <2>1, BlocksFit
<1> HIDE DEF h, n, b, D, index
<1>3. /\ index = (h - BlockSize - D) + (IF h - BlockSize - D < 0 THEN n ELSE 0)
      /\ index \in Int /\ D \in Nat /\ D + BlockSize <= n
  <2>1. index = LET i == h - BlockSize - D IN IF i < 0 THEN i + n ELSE i
    BY DEF delayIndex, index, h, n, D
  <2>2. D \in Nat /\ D <= w.delay
    BY DEF D
  <2> QED
    BY <1>1, <1>2, <2>1, <2>2
<1>4. DspDelayRead(d, w, BlockSize).out = out
  BY DEF DspDelayRead, index, n, b
<1>5. k \in 0 .. BlockSize - 1 /\ k \in DOMAIN d.out /\ k < BlockSize
      /\ k \in Int
  BY <1>2 DEF Part
<1> HIDE DEF run
<1>6. CASE h - BlockSize - D >= 0
  <2>1. index = h - BlockSize - D
    BY <1>2, <1>3, <1>6
  <2>2. run = BlockSize
    BY <1>2, <1>3, <2>1 DEF run
  <2>3. /\ index + k \in 0 .. n - 1 /\ index + k < h
        /\ time - h + (index + k) - 0 = time - BlockSize + k - D
    BY <1>2, <1>3, <1>5, <1>6, <2>1
  <2>4. out[k] = b[index + k]
    BY <1>1, <1>2, <1>5, <2>2, <2>3 DEF At
  <2>5. b[index + k] = Host(time - h + (index + k) - 0)
    BY <1>1, <2>3
  <2> QED
    BY <1>4, <2>3, <2>4, <2>5 DEF D
<1>7. CASE ~ (h - BlockSize - D >= 0)
  <2>1. index = h - BlockSize - D + n
    BY <1>2, <1>3, <1>7
  <2>2. CASE ~ (index > n - BlockSize) \/ k < n - index
    <3>1. k < run
      BY <1>2, <1>3, <1>5, <2>2 DEF run
    <3>2. /\ index + k \in 0 .. n - 1 /\ ~ (index + k < h)
          /\ time - h + (index + k) - n = time - BlockSize + k - D
      BY <1>2, <1>3, <1>5, <1>7, <2>1, <2>2
    <3>3. out[k] = b[index + k]
      BY <1>1, <1>2, <1>5, <3>1, <3>2 DEF At
    <3>4. b[index + k] = Host(time - h + (index + k) - n)
      BY <1>1, <3>2
    <3> QED
      BY <1>4, <3>2, <3>3, <3>4 DEF D
  <2>3. CASE index > n - BlockSize /\ ~ (k < n - index)
    <3>1. run = n - index
      BY <1>2, <1>3, <2>3 DEF run
    <3>2. /\ k - run \in 0 .. n - 1 /\ k - run < h /\ ~ (k < run)
          /\ time - h + (k - run) - 0 = time - BlockSize + k - D
      BY <1>2, <1>3, <1>5, <1>7, <2>1, <2>3, <3>1
    <3>3. out[k] = b[k - run]
      BY <1>1, <1>2, <1>5, <3>2 DEF At
    <3>4. b[k - run] = Host(time - h + (k - run) - 0)
      BY <1>1, <3>2
    <3> QED
      BY <1>4, <3>2, <3>3, <3>4 DEF D
  <2> QED
    BY <2>2, <2>3
<1> QED
  BY <1>6, <1>7

\* Whole units can be taken out of a quotient.
LEMMA WholeUnits ==
    ASSUME NEW m \in Int, NEW z \in Int
    PROVE  /\ (m * Unit + z) \div Unit = m + z \div Unit
           /\ z \div Unit \in Int
           /\ z = (z \div Unit) * Unit + (z % Unit)
           /\ z % Unit \in 0 .. Unit - 1
PROOF
<1>1. Unit \in Nat \ {0}
  BY UnitAssumption
<1>2. \A u \in Nat \ {0} : /\ z \div u \in Int /\ z = (z \div u) * u + (z % u)
                           /\ z % u \in 0 .. u - 1
                           /\ (m * u + z) \div u = m + z \div u
  OBVIOUS
<1> QED
  BY <1>1, <1>2

\* Between a sample and the next, a part of the way is inside.
LEMMA PartOfTheWay ==
    ASSUME NEW low \in Int, NEW high \in Int, low <= high,
           NEW r \in 0 .. Unit - 1
    PROVE  /\ ((high - low) * r) \div Unit \in 0 .. high - low
           /\ 0 \div Unit = 0
PROOF
<1>1. Unit \in Nat \ {0} /\ high - low \in Nat
  BY UnitAssumption
<1>2. ASSUME NEW D \in Nat, NEW u \in Nat \ {0}, NEW s \in 0 .. u - 1
      PROVE  (D * s) \div u \in 0 .. D /\ 0 \div u = 0
  <2>1. D * s \in Nat
    OBVIOUS
  <2>2. D * s <= D * u
    <3>1. D * u = D * s + D * (u - s) /\ u - s \in Nat
      OBVIOUS
    <3>2. \A t \in Nat : D * t \in Nat
      OBVIOUS
    <3> QED
      BY <2>1, <3>1, <3>2
  <2>3. ASSUME NEW y \in Nat, y <= D * u
        PROVE  y \div u \in 0 .. D
    <3>1. /\ y = (y \div u) * u + (y % u) /\ y % u \in 0 .. u - 1
          /\ y \div u \in Int
      OBVIOUS
    <3>2. ~ (y \div u < 0)
      <4>1. \A q \in Int : q < 0 => q * u <= -u
        <5>1. ASSUME NEW q \in Int, q < 0 PROVE q * u <= -u
          <6>1. (-1 - q) \in Nat
            BY <5>1
          <6>2. \A t \in Nat : t * u \in Nat
            OBVIOUS
          <6>3. (-1 - q) * u = -u - q * u
            OBVIOUS
          <6> QED
            BY <6>1, <6>2, <6>3
        <5> QED
          BY <5>1
      <4> QED
        BY <3>1, <4>1
    <3>3. ~ (y \div u > D)
      <4>1. \A q \in Int : q > D => q * u >= D * u + u
        <5>1. ASSUME NEW q \in Int, q > D PROVE q * u >= D * u + u
          BY <5>1
        <5> QED
          BY <5>1
      <4> QED
        BY <2>3, <3>1, <4>1
    <3> QED
      BY <3>1, <3>2, <3>3
  <2>4. 0 \div u = 0
    OBVIOUS
  <2> QED
    BY <2>1, <2>2, <2>3, <2>4
<1> QED
  BY <1>1, <1>2

\* What tabread~ and tabread4~ find at a place.
LEMMA TableIsRead ==
    ASSUME tableLength \in Nat \ {0}, NEW y \in Int
    PROVE  /\ TableSample(table, tableLength, Truncated(y)) =
                  table[Place(Truncated(y))]
           /\ LET low == table[Place(y \div Unit)]
                  high == table[Place(y \div Unit + 1)]
                  z == TableSample4(table, tableLength - 1, y)
              IN  low <= z /\ z <= high /\ (y % Unit = 0 => z = low)
PROOF
<1> DEFINE n == tableLength
           q == y \div Unit
           r == y % Unit
           t == Truncated(y)
<1>1. /\ n \in Nat \ {0} /\ Unit \in Nat \ {0} /\ q \in Int
      /\ y = q * Unit + r /\ r \in 0 .. Unit - 1
  BY UnitAssumption, WholeUnits
<1>2. /\ DOMAIN table = 0 .. n - 1
      /\ \A i \in 0 .. n - 1 : At(table, i) = table[i] /\ table[i] \in Int
      /\ \A i, j \in 0 .. n - 1 : i <= j => table[i] <= table[j]
  <2>1. DOMAIN table = 0 .. n - 1
    BY DEF table, Part
  <2>2. \A i \in 0 .. n - 1 : table[i] = Unit * (i * i + 1)
    BY <1>1 DEF table, Part
  <2>3. \A i \in 0 .. n - 1 : At(table, i) = table[i]
    BY <2>1 DEF At
  <2>4. ASSUME NEW u \in Nat, NEW i \in Nat, NEW j \in Nat, i <= j
        PROVE  u * (i * i + 1) \in Int /\ u * (i * i + 1) <= u * (j * j + 1)
    <3>1. PICK d \in Nat : j = i + d
      <4>1. j - i \in Nat /\ j = i + (j - i)
        BY <2>4
      <4> QED
        BY <4>1
    <3>2. j * j = i * i + (2 * i + d) * d
      BY <3>1
    <3>3. (2 * i + d) * d \in Nat /\ i * i \in Nat
      OBVIOUS
    <3>4. \A a, b \in Nat : u * (a + 1) <= u * (a + b + 1)
      <4>1. \A a, b \in Nat : u * (a + b + 1) = u * (a + 1) + u * b
        OBVIOUS
      <4>2. \A b \in Nat : u * b \in Nat
        OBVIOUS
      <4> QED
        BY <4>1, <4>2
    <3> QED
      BY <3>2, <3>3, <3>4
  <2>5. ASSUME NEW i \in 0 .. n - 1, NEW j \in 0 .. n - 1, i <= j
        PROVE  table[i] \in Int /\ table[i] <= table[j]
    <3>1. Unit \in Nat /\ i \in Nat /\ j \in Nat
      BY <1>1
    <3> HIDE DEF n
    <3>2. Unit * (i * i + 1) \in Int
           /\ Unit * (i * i + 1) <= Unit * (j * j + 1)
      BY <2>4, <2>5, <3>1
    <3> QED
      BY <2>2, <3>2
  <2>6. \A i \in 0 .. n - 1 : i <= i
    BY <1>1
  <2> QED
    BY <2>1, <2>3, <2>5, <2>6
<1>3. \A i \in Int : /\ Place(i) \in 0 .. n - 1
                     /\ i <= 0 => Place(i) = 0
                     /\ i >= n - 1 => Place(i) = n - 1
                     /\ i \in 0 .. n - 1 => Place(i) = i
                     /\ Place(i) <= Place(i + 1)
  BY <1>1 DEF Place, Clipped
<1>4. /\ t \in Int
      /\ y >= 0 => t = q
      /\ y < 0 => t <= 0 /\ q < 0
      /\ 0 <= y => 0 <= q
  <2>1. y >= 0 => t = q
    BY DEF Truncated
  <2>2. ASSUME y < 0
        PROVE  t <= 0 /\ t \in Int /\ q < 0
    <3>1. /\ t = -((-y) \div Unit) /\ (-y) \div Unit \in Int
          /\ -y = ((-y) \div Unit) * Unit + ((-y) % Unit)
          /\ (-y) % Unit \in 0 .. Unit - 1
      BY <2>2, WholeUnits DEF Truncated
    <3>2. \A i \in Int : i < 0 => i * Unit <= -Unit
      <4>1. ASSUME NEW u \in Nat \ {0}, NEW i \in Int, i < 0
            PROVE  i * u <= -u
        <5>1. (-1 - i) \in Nat /\ (-1 - i) * u = -u - i * u
          BY <4>1
        <5>2. \A s \in Nat : s * u \in Nat
          OBVIOUS
        <5> QED
          BY <5>1, <5>2
      <4> QED
        BY <1>1, <4>1
    <3>3. \A i \in Int : i >= 0 => i * Unit >= 0
      <4>1. \A u, i \in Nat : i * u >= 0
        OBVIOUS
      <4> QED
        BY <1>1, <4>1
    <3> DEFINE p == (-y) \div Unit
    <3>4. ~ (p < 0)
      <4>1. p \in Int /\ p < 0 => p * Unit <= -Unit
        BY <3>1, <3>2
      <4> QED
        BY <1>1, <2>2, <3>1, <4>1
    <3>5. q < 0
      <4>1. q >= 0 => q * Unit >= 0
        BY <1>1, <3>3
      <4> QED
        BY <1>1, <2>2, <4>1
    <3> QED
      BY <3>1, <3>4, <3>5
  <2>3. ASSUME 0 <= y
        PROVE  0 <= q
    <3>1. \A i \in Int : i < 0 => i * Unit <= -Unit
      <4>1. ASSUME NEW u \in Nat \ {0}, NEW i \in Int, i < 0
            PROVE  i * u <= -u
        BY <4>1
      <4> QED
        BY <1>1, <4>1
    <3> QED
      BY <1>1, <2>3, <3>1
  <2> QED
    BY <1>1, <2>1, <2>2, <2>3
<1> HIDE DEF n, q, r, t
<1> HIDE DEF table
<1>5. TableSample(table, tableLength, t) = table[Place(t)]
  <2>1. tableLength = n
    BY DEF n
  <2>2. CASE t <= 0
    BY <1>1, <1>2, <1>3, <1>4, <2>2 DEF TableSample
  <2>3. CASE t > 0 /\ t >= n
    <3>1. Place(t) = n - 1 /\ n - 1 \in 0 .. n - 1 /\ ~ (t <= 0)
      BY <1>1, <1>3, <1>4, <2>3
    <3>2. TableSample(table, n, t) = At(table, n - 1)
      BY <2>3, <3>1 DEF TableSample
    <3> QED
      BY <1>2, <2>1, <3>1, <3>2
  <2>4. CASE t > 0 /\ t < n
    <3>1. t \in 0 .. n - 1
      BY <1>1, <1>4, <2>4
    <3> QED
      BY <1>1, <1>2, <1>3, <1>4, <2>1, <2>4, <3>1 DEF TableSample
  <2> QED
    BY <1>1, <1>4, <2>2, <2>3, <2>4
<1> DEFINE low == table[Place(q)]
           high == table[Place(q + 1)]
           z == TableSample4(table, n - 1, y)
<1>6. low <= high /\ low \in Int /\ high \in Int
  <2>1. /\ Place(q) \in 0 .. n - 1 /\ Place(q + 1) \in 0 .. n - 1
        /\ Place(q) <= Place(q + 1)
    BY <1>1, <1>3
  <2> QED
    BY <1>2, <2>1
<1>7. CASE t <= 0
  <2>1. z = table[0]
    BY <1>1, <1>2, <1>7 DEF TableSample4, t
  <2>2. Place(q) = 0
    BY <1>1, <1>3, <1>4, <1>7
  <2> QED
    BY <1>5, <1>6, <2>1, <2>2 DEF n, q, r, t
<1>8. CASE t > 0 /\ t >= n - 1
  <2>1. z = table[n - 1]
    BY <1>1, <1>2, <1>4, <1>8 DEF TableSample4, t
  <2>2. Place(q) = n - 1
    BY <1>1, <1>3, <1>4, <1>8
  <2> QED
    BY <1>5, <1>6, <2>1, <2>2 DEF n, q, r, t
<1>9. CASE t > 0 /\ t < n - 1
  <2>1. q = t /\ q \in 0 .. n - 1 /\ q + 1 \in 0 .. n - 1
    BY <1>1, <1>4, <1>9
  <2>2. low = At(table, q) /\ high = At(table, q + 1)
    BY <1>2, <1>3, <2>1
  <2> DEFINE dx == y - q * Unit
  <2>3. dx = r
    BY <1>1
  <2>4. z = low + ((IF r = 0 THEN 0 ELSE high - low) * r) \div Unit
    <3>1. z = Interpolated(table, y)
      BY <1>1, <1>4, <1>9 DEF TableSample4, t
    <3>2. Truncated(y) = q
      BY <2>1 DEF t
    <3> QED
      BY <2>2, <2>3, <3>1, <3>2 DEF Interpolated
  <2>5. ((high - low) * r) \div Unit \in 0 .. high - low /\ 0 \div Unit = 0
    BY <1>1, <1>6, PartOfTheWay
  <2> HIDE DEF low, high, z
  <2>6. CASE r = 0
    <3>1. z = low
      BY <1>6, <2>4, <2>5, <2>6
    <3> QED
      BY <1>5, <1>6, <3>1 DEF n, q, r, t, low, high, z
  <2>7. CASE r # 0
    <3>1. z = low + ((high - low) * r) \div Unit
      BY <2>4, <2>7
    <3>2. low <= z /\ z <= high
      BY <1>6, <2>5, <3>1
    <3> QED
      BY <1>5, <2>7, <3>2 DEF n, q, r, t, low, high, z
  <2> QED
    BY <2>6, <2>7
<1> QED
  BY <1>1, <1>4, <1>7, <1>8, <1>9

\* A sample is read from a line between two that were written so long ago.
LEMMA LineIsReadBetween ==
    ASSUME NEW w, NEW time \in Int, Holds(w, time),
           NEW d, DOMAIN d.out = Part(0, BlockSize), "out" \in DOMAIN d,
           NEW x, NEW k \in Part(0, BlockSize),
           x[1][k] \in Int, x[1][k] <= w.delay * Unit
    PROVE  DspVariableDelay(d, w, x, BlockSize).out[k] =
               HostAt((time - BlockSize + k) * Unit
                          - (IF x[1][k] < 0 THEN 0 ELSE x[1][k]))
PROOF
<1> DEFINE h == w.headIndex
           n == w.bufferLength
           b == w.buffer
           y == x[1][k]
           delay == IF y < 0 THEN 0 ELSE y
           z == (h - BlockSize) * Unit + k * Unit - delay
           t == IF z < 0 THEN z + n * Unit ELSE z
           q == z \div Unit
           r == z % Unit
<1>1. /\ w.delay \in Nat /\ w.delay + BlockSize <= n /\ DOMAIN b = 0 .. n
      /\ \A j \in 0 .. n - 1 :
             b[j] = Host(time - h + j - (IF j < h THEN 0 ELSE n))
      /\ b[n] = b[0]
  BY DEF Holds
<1>2. BlockSize \in Nat \ {0} /\ h \in Nat /\ n \in Nat /\ h + BlockSize <= n
  BY BlocksFit DEF Holds
<1>3. /\ Unit \in Nat \ {0} /\ k \in Int /\ 0 <= k /\ k < BlockSize
      /\ k \in DOMAIN d.out
      /\ y \in Int /\ delay \in Int /\ 0 <= delay /\ delay <= w.delay * Unit
  <2>1. Unit \in Nat \ {0} /\ k \in Int /\ 0 <= k /\ k < BlockSize
    BY <1>2, UnitAssumption DEF Part
  <2>2. 0 <= w.delay * Unit
    <3>1. \A i, u \in Nat : 0 <= i * u
      OBVIOUS
    <3> QED
      BY <1>1, <2>1, <3>1
  <2> QED
    BY <2>1, <2>2
<1>4. delay = delayInSamples(y, w)
  <2>1. w.delay * Unit <= n * Unit
    <3>1. \A i, j, u \in Nat : i <= j => i * u <= j * u
      OBVIOUS
    <3> QED
      BY <1>1, <1>2, <1>3, <3>1
  <2>2. w.delay * Unit \in Int /\ n * Unit \in Int
    BY <1>1, <1>2, <1>3
  <2> DEFINE far == n * Unit
  <2>3. delayInSamples(y, w) = IF y < 0 THEN 0 ELSE IF y > far THEN far ELSE y
    BY DEF delayInSamples, Clipped
  <2>4. ~ (y > far)
    BY <1>3, <2>1, <2>2
  <2> HIDE DEF far, y
  <2> QED
    BY <2>3, <2>4
<1>5. DspVariableDelay(d, w, x, BlockSize).out[k] = Interpolated(b, t)
  BY <1>3, <1>4 DEF DspVariableDelay
<1>6. /\ z = (h - BlockSize + k) * Unit - delay /\ z \in Int
      /\ q \in Int /\ r \in 0 .. Unit - 1 /\ z = q * Unit + r
  <2>1. z = (h - BlockSize + k) * Unit - delay /\ z \in Int
    BY <1>2, <1>3
  <2> HIDE DEF z
  <2> QED
    BY <2>1, WholeUnits
<1> HIDE DEF h, n, b, y, delay, z, t, q, r
<1>7. /\ h - n + k <= q /\ q < h
      /\ r # 0 => q + 1 < h
  <2> DEFINE a == h - BlockSize + k
             m == w.delay
  <2>1. a \in Int /\ m \in Nat /\ m + BlockSize <= n /\ a < h
    BY <1>1, <1>2, <1>3
  <2>2. a * Unit - m * Unit <= q * Unit + r /\ q * Unit + r <= a * Unit
    BY <1>3, <1>6, <2>1
  <2> HIDE DEF a, m
  <2>3. ASSUME NEW u \in Nat \ {0}, NEW s \in 0 .. u - 1,
               a * u - m * u <= q * u + s, q * u + s <= a * u
        PROVE  a - m <= q /\ q <= a /\ (s # 0 => q < a)
    <3>1. ASSUME NEW i \in Int, NEW j \in Int, i < j
          PROVE  i * u + u <= j * u
      BY <3>1
    <3>2. a * u - m * u = (a - m) * u
      BY <1>6, <2>1
    <3>3. /\ (a - m) * u \in Int /\ q * u \in Int /\ a * u \in Int
          /\ a - m \in Int /\ q \in Int
      BY <1>6, <2>1
    <3>4. ~ (q < a - m)
      <4>1. q < a - m => q * u + u <= (a - m) * u
        BY <3>1, <3>3
      <4> QED
        BY <2>3, <3>2, <3>3, <4>1
    <3>5. ~ (a < q)
      <4>1. a < q => a * u + u <= q * u
        BY <2>1, <3>1, <3>3
      <4> QED
        BY <2>3, <3>3, <4>1
    <3>6. s # 0 => q # a
      BY <2>3, <3>3
    <3> QED
      BY <2>1, <3>3, <3>4, <3>5, <3>6
  <2>4. a - m <= q /\ q <= a /\ (r # 0 => q < a)
    BY <1>3, <1>6, <2>2, <2>3
  <2> QED
    BY <1>2, <1>3, <1>6, <2>1, <2>4 DEF a
<1> DEFINE c == time - h + q
           value == Host(c) + ((Host(c + 1) - Host(c)) * r) \div Unit
<1>8. HostAt((time - BlockSize + k) * Unit - delay) = value
  <2> DEFINE v == (time - BlockSize + k) * Unit - delay
  <2>1. v = (time - h) * Unit + z
    BY <1>2, <1>3, <1>6
  <2>2. v \div Unit = c
    <3>1. time - h \in Int
      BY <1>2
    <3> HIDE DEF v
    <3> QED
      BY <1>6, <2>1, <3>1, WholeUnits DEF q
  <2>3. v - c * Unit = r
    BY <1>2, <1>3, <1>6, <2>1
  <2> HIDE DEF v, c
  <2>4. HostAt(v) = value
    BY <2>2, <2>3 DEF HostAt
  <2> QED
    BY <2>4 DEF v
<1>9. Host(c) \in Int /\ Host(c + 1) \in Int /\ c \in Int
  BY <1>2, <1>3, <1>6 DEF Host
\* Where it is read is where it was written.
<1>10. ASSUME NEW i \in 0 .. n, At(b, i) = Host(c),
              r # 0 => At(b, i + 1) = Host(c + 1),
              t = i * Unit + r
       PROVE  Interpolated(b, t) = value
  <2>1. t >= 0 /\ t \div Unit = i
    <3>1. r \div Unit = 0
      <4>1. \A u \in Nat \ {0} : \A s \in 0 .. u - 1 : s \div u = 0
        OBVIOUS
      <4> QED
        BY <1>3, <1>6, <4>1
    <3>2. i \in Int /\ r \in Int
      BY <1>2, <1>6, <1>10
    <3>3. t \div Unit = i + 0
      BY <1>10, <3>1, <3>2, WholeUnits
    <3>4. i * Unit \in Nat
      BY <1>2, <1>3
    <3> QED
      BY <1>6, <1>10, <3>2, <3>3, <3>4
  <2>2. Truncated(t) = i
    BY <2>1 DEF Truncated
  <2>3. t - i * Unit = r
    <3>1. i * Unit \in Int /\ r \in Int
      BY <1>2, <1>3, <1>6
    <3> QED
      BY <1>10, <3>1
  <2>4. Interpolated(b, t) = At(b, i)
            + ((IF r = 0 THEN 0 ELSE At(b, i + 1) - At(b, i)) * r) \div Unit
    BY <2>2, <2>3 DEF Interpolated
  <2> HIDE DEF c
  <2>5. CASE r = 0
    <3>1. (0 * r) = 0 /\ ((Host(c + 1) - Host(c)) * r) = 0
      BY <1>9, <2>5
    <3> QED
      BY <1>10, <2>4, <2>5, <3>1
  <2>6. CASE r # 0
    BY <1>10, <2>4, <2>6
  <2> QED
    BY <2>5, <2>6
<1>11. CASE z >= 0
  <2>1. t = q * Unit + r /\ q >= 0
    <3>1. ~ (q < 0)
      <4>1. ASSUME NEW u \in Nat \ {0}, NEW i \in Int, i < 0
            PROVE  i * u <= -u
        BY <4>1
      <4>2. q < 0 => q * Unit <= -Unit
        BY <1>3, <1>6, <4>1
      <4> QED
        BY <1>3, <1>6, <1>11, <4>2
    <3> QED
      BY <1>6, <1>11, <3>1 DEF t
  <2>2. q \in 0 .. n /\ q < h /\ q \in 0 .. n - 1
    BY <1>2, <1>6, <1>7, <2>1
  <2>3. At(b, q) = Host(c)
    <3>1. At(b, q) = Host(time - h + q - 0)
      BY <1>1, <2>2 DEF At
    <3>2. time - h + q - 0 = c
      BY <1>2, <1>6
    <3> QED
      BY <3>1, <3>2
  <2>4. r # 0 => At(b, q + 1) = Host(c + 1)
    <3> SUFFICES ASSUME r # 0
                 PROVE  At(b, q + 1) = Host(c + 1)
      OBVIOUS
    <3>1. q + 1 < h /\ q + 1 \in 0 .. n - 1 /\ q + 1 \in 0 .. n
      BY <1>2, <1>6, <1>7, <2>2
    <3>2. At(b, q + 1) = Host(time - h + (q + 1) - 0)
      BY <1>1, <3>1 DEF At
    <3>3. time - h + (q + 1) - 0 = c + 1
      BY <1>2, <1>6
    <3> QED
      BY <3>2, <3>3
  <2>5. Interpolated(b, t) = value
    BY <1>10, <2>1, <2>2, <2>3, <2>4
  <2> QED
    BY <1>5, <1>8, <2>5 DEF delay, y
<1>12. CASE z < 0
  <2> DEFINE i == q + n
  <2>1. t = i * Unit + r /\ q < 0
    <3>1. ~ (q >= 0)
      <4>1. \A u, j \in Nat : j * u >= 0
        OBVIOUS
      <4> QED
        BY <1>3, <1>6, <1>12, <4>1
    <3>2. (q + n) * Unit = q * Unit + n * Unit
      BY <1>2, <1>3, <1>6
    <3>3. q * Unit \in Int /\ n * Unit \in Int
      BY <1>2, <1>3, <1>6
    <3> QED
      BY <1>6, <1>12, <3>1, <3>2, <3>3 DEF t
  <2>2. i \in 0 .. n /\ i \in 0 .. n - 1 /\ ~ (i < h) /\ i \in Int
    BY <1>2, <1>3, <1>6, <1>7, <2>1
  <2>3. At(b, i) = Host(c)
    <3>1. At(b, i) = Host(time - h + i - n)
      BY <1>1, <2>2 DEF At
    <3>2. time - h + i - n = c
      BY <1>2, <1>6
    <3> QED
      BY <3>1, <3>2
  <2>4. r # 0 => At(b, i + 1) = Host(c + 1)
    <3> SUFFICES ASSUME r # 0
                 PROVE  At(b, i + 1) = Host(c + 1)
      OBVIOUS
    <3>1. q + 1 < h
      BY <1>7
    <3>2. CASE i + 1 < n
      <4>1. i + 1 \in 0 .. n - 1 /\ ~ (i + 1 < h) /\ i + 1 \in 0 .. n
        BY <1>2, <2>2, <3>2
      <4>2. At(b, i + 1) = Host(time - h + (i + 1) - n)
        BY <1>1, <4>1 DEF At
      <4>3. time - h + (i + 1) - n = c + 1
        BY <1>2, <1>6
      <4> QED
        BY <4>2, <4>3
    <3>3. CASE ~ (i + 1 < n)
      <4>1. i + 1 = n /\ q + 1 = 0 /\ 0 < h /\ n \in 0 .. n
            /\ 0 \in 0 .. n - 1
        BY <1>2, <1>6, <2>2, <3>1, <3>3
      <4>2. At(b, i + 1) = b[0]
        BY <1>1, <4>1 DEF At
      <4>3. b[0] = Host(time - h + 0 - 0)
        BY <1>1, <4>1
      <4>4. time - h + 0 - 0 = c + 1
        BY <1>2, <1>6, <4>1
      <4> QED
        BY <4>2, <4>3, <4>4
    <3> QED
      BY <3>2, <3>3
  <2> HIDE DEF i
  <2>5. Interpolated(b, t) = value
    BY <1>10, <2>1, <2>2, <2>3, <2>4
  <2> QED
    BY <1>5, <1>8, <2>5 DEF delay, y
<1> QED
  BY <1>6, <1>11, <1>12

-----------------------------------------------------------------------------
(***************************************************************************)
(* What the readers hear and where they stand.                             *)
(***************************************************************************)

\* The time at which a block starts, in samples.
LEMMA StartOfBlock ==
    ASSUME BlocksAtSamples
    PROVE  blockStart \in Nat /\ blockStartTimestamp = blockStart * TicksPerSample
PROOF
  BY DspAssumption DEF BlocksAtSamples, blockStart

\* delread~ and delwrite~ never look for messages.
LEMMA LinesTakeNothing ==
    ASSUME patch \in Patches, LeftInletOnly, OthersAreOther,
           NEW o \in patch, Kind[o] \in {"delread~", "delwrite~"}
    PROVE  processFunction[o] = "other"
PROOF
<1>1. o \in DspObjects
  BY DspAssumption
<1>2. PICK arguments \in Arguments[o] : TRUE
  BY DEF LeftInletOnly
<1> DEFINE d == NewObject(o, arguments)
<1>3. o \notin Adapts
  BY SignalAssumption DEF Arithmetic
<1>4. d.functions = <<"signal", "default">>
  BY DEF NewObject, NewDspDelayRead, NewDspDelayWrite
<1> HIDE DEF d
<1>5. ~ HandlesMessages(o, d)
  <2>1. d.functions[1] # d.functions[2]
    BY <1>4
  <2> QED
    BY <1>3, <2>1 DEF HandlesMessages
<1>6. o \in Handles <=> HandlesMessages(o, d)
  BY <1>1, ConstructorAssumption DEF d
<1> QED
  BY <1>5, <1>6 DEF OthersAreOther

\* Numbers that a signal gives.
LEMMA NumbersAreGiven ==
    ASSUME patch \in Patches, LevelsKnown, BlocksAtSamples,
           NEW o \in patch, IsGivenNumbers(patch, o),
           NEW k \in Part(0, BlockSize)
    PROVE  1 \in DOMAIN SourcesOf[o] /\ Inlets(o)[1][k] \in Int
PROOF
<1> DEFINE source == SourcesOf[o][1]
<1>1. /\ 1 \in DOMAIN SourcesOf[o]
      /\ \/ source \in {adc_1, adc_2, Silent}
         \/ /\ source \in patch /\ Kind[source] = "sig~"
            /\ \A s \in patch : source \notin Feeds[s]
  BY DEF IsGivenNumbers
<1>2. Inlets(o)[1] = Buffer(source)
  BY <1>1 DEF Inlets
<1>3. /\ k \in Int /\ 0 <= k /\ k < BlockSize /\ BlockSize \in Nat
      /\ blockStart \in Int
  BY StartOfBlock, DspAssumption DEF Part
<1> HIDE DEF source
<1>4. CASE source \in patch
  <2>1. Kind[source] = "sig~" /\ source \notin Fed
    <3>1. source \notin {adc_1, adc_2, Silent}
      BY <1>4, SignalAssumption, DspAssumption
    <3> QED
      BY <1>1, <3>1 DEF Fed
  <2>2. LevelIsGiven(signal[source])
    BY <1>4, <2>1 DEF LevelsKnown
  <2> QED
    BY <1>1, <1>2, <1>4, <2>2 DEF LevelIsGiven, Buffer
<1>5. CASE source \notin patch /\ WholeNumbers
  <2> DEFINE c == IF source = adc_1 THEN 1 ELSE 2
             i == k * 2 + c - 1
  <2>1. Buffer(source)[k] = inputBuffers[i]
    BY <1>3, <1>5 DEF Buffer, uninterleaved
  <2>2. i \in Part(0, 2 * BlockSize)
    BY <1>3 DEF Part
  <2> HIDE DEF i
  <2>3. /\ inputBuffers[i] = HostShort(blockStart + (i \div 2), (i % 2) + 1)
        /\ blockStart + (i \div 2) \in Int /\ (i % 2) + 1 \in Int
    BY <1>3, <2>2 DEF inputBuffers, Part
  <2>4. \A t, n \in Int : HostShort(t, n) \in Int
    <3>1. \A s \in Nat \ {0} : \A m \in Int : (m % (2 * s)) - s \in Int
      OBVIOUS
    <3>2. \A t, n \in Int : (5 + 6 * n) * t \in Int
      OBVIOUS
    <3> QED
      BY <3>1, <3>2, ShortAssumption DEF HostShort
  <2> QED
    BY <1>1, <1>2, <2>1, <2>3, <2>4
<1>6. CASE source \notin patch /\ ~ WholeNumbers
  <2>1. Buffer(source)[k] = Input(source, blockStart + k)
    BY <1>3, <1>6 DEF Buffer, zeros
  <2>2. source \in {adc_1, adc_2, Silent}
    BY <1>1, <1>6
  <2>3. \A t \in Int : Host(t) \in Int /\ Host2(t) \in Int
    BY UnitAssumption DEF Host, Host2
  <2>4. blockStart + k \in Int
    BY <1>3
  <2> QED
    BY <1>1, <1>2, <2>1, <2>2, <2>3, <2>4, SignalAssumption DEF Input
<1> QED
  BY <1>4, <1>5, <1>6

LEMMA PlacesAreNumbers ==
    ASSUME patch \in Patches, PlacesAreGiven, ReadersKnown, BlocksAtSamples,
           NEW o \in patch, Kind[o] \in {"vd~", "tabread~", "tabread4~"},
           NEW k \in Part(0, BlockSize)
    PROVE  Inlets(o)[1][k] \in Int
PROOF
<1>1. LevelsKnown /\ IsGivenNumbers(patch, o)
  BY DEF PlacesAreGiven, ReadersKnown, LevelsKnown
<1> QED
  BY <1>1, NumbersAreGiven

\* The line that is read is the one there is.
LEMMA TheLine ==
    ASSUME patch \in Patches, DelayLinesHearTheHost, LineRead
    PROVE  \E w \in patch :
               /\ Kind[w] = "delwrite~" /\ line = signal[w]
               /\ \A v \in patch : Kind[v] = "delwrite~" => v = w
               /\ SourcesOf[w] = <<adc_1>> /\ Around[w] \cap Switchable = {}
               /\ \A a \in Arguments[w] : a[1] \in Nat
               /\ ~ WholeNumbers
PROOF
  BY DEF LineRead, DelayLinesHearTheHost, LineReaders, WholeNumbers, line

\* What the line is given in a block.
LEMMA LineHears ==
    ASSUME patch \in Patches, ~ WholeNumbers, NEW w \in patch,
           SourcesOf[w] = <<adc_1>>
    PROVE  Inlets(w)[1] = [k \in Part(0, BlockSize) |-> Host(blockStart + k)]
PROOF
  BY SignalAssumption, DspAssumption DEF Inlets, Input, Buffer, zeros

\* A reader whose turn it is reads before the line is written or after it.
LEMMA BeforeOrAfter ==
    ASSUME patch \in Patches, turn \in 1 .. Len(nodes),
           NEW w \in patch, w # Turn, Kind[w] = "delwrite~",
           \A v \in patch : Kind[v] = "delwrite~" => v = w
    PROVE  Behind(Turn) = IF Passed(w) THEN 0 ELSE BlockSize
PROOF
<1>1. /\ Len(nodes) \in Nat /\ turn \in 1 .. Len(nodes)
      /\ \A i, j \in 1 .. Len(nodes) : nodes[i] = nodes[j] => i = j
      /\ \E i \in 1 .. Len(nodes) : nodes[i] = w
  BY NodesOfPatch
<1>2. PICK i \in 1 .. Len(nodes) : nodes[i] = w
  BY <1>1
<1>3. i # turn
  BY <1>2 DEF Turn
<1>4. Passed(w) <=> i < turn
  BY <1>1, <1>2 DEF Passed
<1>5. Before(Turn, w) <=> turn < i
  BY <1>1, <1>2 DEF Before, Turn
<1>6. (\E v \in patch : Kind[v] = "delwrite~" /\ Before(Turn, v)) <=> turn < i
  BY <1>5
<1> QED
  BY <1>1, <1>3, <1>4, <1>6 DEF Behind

-----------------------------------------------------------------------------
(***************************************************************************)
(* An object's turn: what it reads, and what the others keep.              *)
(***************************************************************************)

\* The object whose turn it is reads a part and maybe takes a message.
Reads(o, from, to) ==
    LET e == Processed(o, from, to)
    IN  /\ OnTurn /\ o = Turn /\ from = EndOf(rendered[o])
        /\ Render(from, to)
        /\ \A p \in patch \ {o} : signal'[p] = signal[p] /\ seen'[p] = seen[p]
        /\ \/ signal'[o] = e
           \/ /\ processFunction[o] = "message"
              /\ \E i \in 1 .. Len(messageQueue[o]) :
                     signal'[o] =
                         ProcessedMessage(o, e, messageQueue[o][i].message)
        /\ seen'[o].setBy =
               [k \in Part(0, BlockSize) |->
                   IF k \in Part(from, to) THEN Setting(o, Present(o))
                   ELSE seen[o].setBy[k]]
        /\ processFunction[o] # "message" =>
               from = 0 /\ to = BlockSize /\ turn' = turn + 1
        /\ turn' \in {turn, turn + 1}
        /\ UNCHANGED <<patch, connected, blockStartTimestamp, late, tableLength>>

\* The same with all that is seen of it: what it plays.
Plays(o, from, to) ==
    LET e == Processed(o, from, to)
        disturbed == seen[o].disturbed \/ AskedForNone(o, from, to)
    IN  /\ Reads(o, from, to)
        /\ ~ Dies(o, from, to) /\ build' = build
        /\ seen'[o].before = seen[o].before
        /\ \/ /\ signal'[o] = e
              /\ seen'[o].path = seen[o].path
              /\ seen'[o].disturbed <=> disturbed
           \/ /\ processFunction[o] = "message"
              /\ \E i \in 1 .. Len(messageQueue[o]) :
                     LET message == messageQueue[o][i].message
                     IN  /\ signal'[o] = ProcessedMessage(o, e, message)
                         /\ seen'[o].path = NewPath(o, seen[o].path, message,
                                                    blockStart + to)
                         /\ seen'[o].disturbed <=>
                                disturbed \/ message.selector = "clear"

\* What is at the inlets of those that had their turn, and of the one whose it
\* is, stays.
LEMMA InletsBefore ==
    ASSUME HearsBefore, patch \in Patches, turn \in 1 .. Len(nodes),
           NEW j \in 1 .. turn, NEW o \in patch, nodes[j] = o,
           UNCHANGED <<patch, connected, blockStartTimestamp>>,
           \A p \in patch \ {Turn} : signal'[p] = signal[p]
    PROVE  Inlets(o)' = Inlets(o)
PROOF
<1>1. \A n \in DOMAIN SourcesOf[o] :
          SourcesOf[o][n] \in patch => SourcesOf[o][n] # Turn
  BY HearsOthers
<1> QED
  BY <1>1, InletsStay

\* It goes on from where it was, inside the block.
LEMMA RendersOn ==
    ASSUME ServedSoFar, ServedSoFar', OnTurn, NEW o, o = Turn,
           NEW from, from = EndOf(rendered[o]), NEW to \in Int, Render(from, to),
           UNCHANGED <<patch, late>>
    PROVE  /\ o \in patch /\ EndOf(rendered[o])' = to /\ from \in Int
           /\ \A p \in patch \ {o} : rendered'[p] = rendered[p]
           /\ o \notin Fed \cup late =>
                  0 <= from /\ from <= to /\ to <= BlockSize
PROOF
<1> DEFINE parts == rendered[o]
           part == [from |-> from, to |-> to]
           longer == Append(parts, part)
           n == Len(parts)
<1>1. /\ o \in patch /\ from \in Int /\ parts \in Seq(RenderedPart)
      /\ rendered \in [patch -> Seq(RenderedPart)]
  BY OnItsTurn DEF ServedSoFar, DspTyped
<1>2. /\ rendered'[o] = longer
      /\ \A p \in patch \ {o} : rendered'[p] = rendered[p]
  BY <1>1 DEF Render
<1>3. part \in RenderedPart /\ part.from = from /\ part.to = to
  BY <1>1 DEF RenderedPart
<1> HIDE DEF part, parts
<1>4. /\ n \in Nat /\ longer \in Seq(RenderedPart) /\ Len(longer) = n + 1
      /\ longer[n + 1] = part /\ longer # <<>>
  BY <1>1, <1>3, AppendProperties, LenProperties
<1>5. EndOf(longer) = to
  BY <1>3, <1>4 DEF EndOf, Last
<1>6. o \notin Fed \cup late => 0 <= from /\ from <= to /\ to <= BlockSize
  <2> SUFFICES ASSUME o \notin Fed \cup late
               PROVE  0 <= from /\ from <= to /\ to <= BlockSize
    OBVIOUS
  <2>1. Fed' = Fed /\ patch' = patch /\ late' = late
    BY DEF Fed
  <2>2. FollowEachOther(rendered[o])'
    BY <1>1, <2>1 DEF ServedSoFar, Tiled, PartsTileBlock
  <2>3. FollowEachOther(longer)
    BY <1>2, <2>2 DEF FollowEachOther
  <2>4. n + 1 \in 1 .. Len(longer)
    BY <1>4
  <2> QED
    BY <1>3, <1>4, <2>3, <2>4 DEF FollowEachOther
<1> QED
  BY <1>1, <1>2, <1>5, <1>6 DEF EndOf

\* The record of a reader of a table: the part is read, the rest stays.
LEMMA TablePart ==
    ASSUME patch \in Patches, ReadersKnown, NEW o \in patch,
           Kind[o] \in TableReaders, NEW from \in Int, NEW to \in Int,
           \A k \in Part(0, BlockSize) : Inlets(o)[1][k] \in Int
    PROVE  LET d == signal[o]
               e == Processed(o, from, to)
           IN  /\ TableReaderKnown(e)
               /\ \A k \in Part(0, BlockSize) :
                      /\ k \notin Part(from, to) => e.out[k] = d.out[k]
                      /\ k \in Part(from, to) /\ d.hasTable =>
                             IsAtPlace(o, e.out[k], Inlets(o)[1][k] + d.offset)
               /\ Setting(o, Present(o)) = <<d.offset, d.hasTable>>
PROOF
<1> DEFINE d == signal[o]
           x == Inlets(o)
           e == Processed(o, from, to)
           sample(k) == IF Kind[o] = "tabread~"
                        THEN TableSample(table, tableLength,
                                         Truncated(x[1][k] + d.offset))
                        ELSE TableSample4(table, tableLength - 1,
                                          x[1][k] + d.offset)
           c == [k \in DOMAIN d.out |->
                    IF k \in Part(from, to) THEN sample(k) ELSE d.out[k]]
<1>1. Present(o) = d /\ o \notin Adapts
  BY SignalAssumption DEF Present, TableReaders, Arithmetic
<1>2. e = ProcessPart(o, d, x, from, to)
  BY <1>1 DEF Processed
<1>3. ProcessPart(o, d, x, from, to) =
          IF d.hasTable THEN [d EXCEPT !.out = c] ELSE d
  <2>1. CASE Kind[o] = "tabread~"
    <3>1. ProcessPart(o, d, x, from, to) =
              DspTableRead(d, table, tableLength, x, from, to)
      BY <2>1 DEF ProcessPart, Filters
    <3> QED
      BY <2>1, <3>1 DEF DspTableRead
  <2>2. CASE Kind[o] = "tabread4~"
    BY <2>2 DEF ProcessPart, Filters, DspTableRead4
  <2> QED
    BY <2>1, <2>2 DEF TableReaders
<1>4. Setting(o, Present(o)) = <<d.offset, d.hasTable>>
  BY <1>1 DEF TableReaders, Settable, Arithmetic, Fixed, Filters, Setting
<1>5. ASSUME NEW k \in Part(0, BlockSize)
      PROVE  IsAtPlace(o, sample(k), x[1][k] + d.offset)
  BY TableIsRead DEF ReadersKnown, TableReaderKnown, IsAtPlace
<1>6. TableReaderKnown(d)
  BY DEF ReadersKnown
<1> HIDE DEF d, x, e, sample
<1>7. TableReaderKnown(e)
  BY <1>2, <1>3, <1>6 DEF TableReaderKnown, HasBuffer
<1>8. ASSUME NEW k \in Part(0, BlockSize)
      PROVE  /\ k \notin Part(from, to) => e.out[k] = d.out[k]
             /\ k \in Part(from, to) /\ d.hasTable => e.out[k] = sample(k)
  BY <1>2, <1>3, <1>6 DEF TableReaderKnown, HasBuffer
<1> QED
  BY <1>4, <1>5, <1>7, <1>8 DEF d, e, x

\* What it is told does not touch what it has read.
LEMMA TableMessage ==
    ASSUME NEW o, Kind[o] \in TableReaders, NEW d, TableReaderKnown(d),
           NEW message,
           GivenBy(o, message) => message.floats \in Seq(Int)
    PROVE  /\ TableReaderKnown(ProcessedMessage(o, d, message))
           /\ ProcessedMessage(o, d, message).out = d.out
PROOF
<1>1. ProcessedMessage(o, d, message) = TakesTable(d, message)
  BY DEF ProcessedMessage, TableReaders, TakesTable4
<1>2. message.inlet = 1 /\ isFloat(message, 1) => message.floats[1] \in Int
  BY DEF GivenBy, isFloat
<1> QED
  BY <1>1, <1>2 DEF TakesTable, TableReaderKnown, HasBuffer

LEMMA TableTurn ==
    ASSUME ServedSoFar, ServedSoFar', HearsBefore, PlacesAreGiven,
           BlocksAtSamples, ReadersKnown, NumbersWait,
           NEW o, NEW from, NEW to \in Int, Reads(o, from, to),
           Kind[o] \in TableReaders
    PROVE  /\ TableReaderKnown(signal'[o])
           /\ o \notin Fed \cup late /\ RightSoFar(o) => RightSoFar(o)'
PROOF
<1> DEFINE d == signal[o]
           e == Processed(o, from, to)
           x == Inlets(o)
<1>1. /\ OnTurn /\ o = Turn /\ from = EndOf(rendered[o]) /\ Render(from, to)
      /\ UNCHANGED <<patch, connected, blockStartTimestamp, late, tableLength>>
      /\ \A p \in patch \ {o} : signal'[p] = signal[p]
  BY DEF Reads
<1>2. /\ o \in patch /\ EndOf(rendered[o])' = to /\ from \in Int
      /\ o \notin Fed \cup late => 0 <= from /\ from <= to /\ to <= BlockSize
  BY <1>1, RendersOn
<1>3. patch \in Patches /\ turn \in 1 .. Len(nodes) /\ nodes[turn] = o
  BY <1>1, OnItsTurn DEF ServedSoFar, DspTyped, Turn
<1>4. Inlets(o)' = x
  <2>1. turn \in 1 .. turn
    BY <1>3, NodesOfPatch
  <2> QED
    BY <1>1, <1>2, <1>3, <2>1, InletsBefore
<1>5. \A k \in Part(0, BlockSize) : x[1][k] \in Int
  BY <1>2, <1>3, PlacesAreNumbers DEF TableReaders
<1> HIDE DEF x
<1>6. /\ TableReaderKnown(e)
      /\ \A k \in Part(0, BlockSize) :
             /\ k \notin Part(from, to) => e.out[k] = d.out[k]
             /\ k \in Part(from, to) /\ d.hasTable =>
                    IsAtPlace(o, e.out[k], x[1][k] + d.offset)
      /\ Setting(o, Present(o)) = <<d.offset, d.hasTable>>
  BY <1>2, <1>3, <1>5, TablePart DEF x
<1> HIDE DEF e
<1>7. TableReaderKnown(signal'[o]) /\ signal'[o].out = e.out
  <2>1. CASE signal'[o] = e
    BY <1>6, <2>1
  <2>2. ASSUME NEW i \in 1 .. Len(messageQueue[o]),
               signal'[o] = ProcessedMessage(o, e, messageQueue[o][i].message)
        PROVE  TableReaderKnown(signal'[o]) /\ signal'[o].out = e.out
    <3>1. GivenBy(o, messageQueue[o][i].message) =>
              messageQueue[o][i].message.floats \in Seq(Int)
      BY <1>2 DEF NumbersWait
    <3> QED
      BY <1>6, <2>2, <3>1, TableMessage
  <2> QED
    BY <2>1, <2>2 DEF Reads, e
<1>8. seen'[o].setBy = [k \in Part(0, BlockSize) |->
                           IF k \in Part(from, to) THEN <<d.offset, d.hasTable>>
                           ELSE seen[o].setBy[k]]
  BY <1>6 DEF Reads
<1>9. ASSUME o \notin Fed \cup late, RightSoFar(o),
             NEW k \in Part(0, to)
      PROVE  RightFromTable(o, k)'
  <2>1. k \in Part(0, BlockSize) /\ k \in Int /\ 0 <= k /\ k < to
    BY <1>2, <1>9, DspAssumption DEF Part
  <2>2. \A z, y : IsAtPlace(o, z, y)' <=> IsAtPlace(o, z, y)
    BY <1>1 DEF IsAtPlace, Place, table
  <2> HIDE DEF IsAtPlace
  <2>3. CASE k \in Part(from, to)
    <3>1. seen'[o].setBy[k] = <<d.offset, d.hasTable>>
      BY <1>8, <2>1, <2>3
    <3>2. seen'[o].setBy[k][2] =>
              IsAtPlace(o, e.out[k], x[1][k] + seen'[o].setBy[k][1])
      BY <1>6, <2>1, <2>3, <3>1
    <3> QED
      BY <1>4, <1>7, <2>2, <3>2 DEF RightFromTable, Out
  <2>4. CASE k \notin Part(from, to)
    <3>1. k \in Part(0, EndOf(rendered[o]))
      BY <1>1, <1>2, <2>1, <2>4 DEF Part
    <3>2. RightFromTable(o, k)
      BY <1>9, <3>1 DEF RightSoFar
    <3>3. seen'[o].setBy[k] = seen[o].setBy[k] /\ e.out[k] = d.out[k]
      BY <1>6, <1>8, <2>1, <2>4
    <3> QED
      BY <1>4, <1>7, <2>2, <3>2, <3>3 DEF RightFromTable, Out, x
  <2> QED
    BY <2>3, <2>4
<1>10. Kind[o] \notin LineReaders
  BY DEF TableReaders, LineReaders
<1>11. o \notin Fed \cup late /\ RightSoFar(o) => RightSoFar(o)'
  BY <1>2, <1>9, <1>10 DEF RightSoFar
<1> QED
  BY <1>7, <1>11

\* The line stays in another's turn, and what is behind what.
LEMMA LineStays ==
    ASSUME UNCHANGED <<patch, blockStartTimestamp>>,
           NEW w \in patch, Kind[w] = "delwrite~",
           \A v \in patch : Kind[v] = "delwrite~" => v = w
    PROVE  /\ line = signal[w] /\ line' = signal'[w]
           /\ \A o : Behind(o)' = Behind(o)
           /\ blockStart' = blockStart
PROOF
<1>1. (CHOOSE v \in patch : Kind[v] = "delwrite~") = w
  OBVIOUS
<1>2. line = signal[w] /\ line' = signal'[w]
  BY <1>1 DEF line
<1>3. \A o : Behind(o)' = Behind(o)
  BY DEF Behind, Before, nodes
<1>4. blockStart' = blockStart
  BY DEF blockStart
<1> QED
  BY <1>2, <1>3, <1>4

LEMMA LineReaderTurn ==
    ASSUME ServedSoFar, ServedSoFar', HearsBefore, PlacesAreGiven,
           DelayLinesHearTheHost, LeftInletOnly, OthersAreOther,
           BlocksAtSamples, ReadersKnown, LineHolds, ~ lost,
           NEW o, NEW from, NEW to \in Int, Reads(o, from, to),
           Kind[o] \in LineReaders
    PROVE  /\ LineReaderKnown(o, signal'[o])
           /\ o \notin Fed \cup late => RightSoFar(o)'
PROOF
<1> DEFINE d == signal[o]
           e == Processed(o, from, to)
           x == Inlets(o)
<1>1. /\ OnTurn /\ o = Turn /\ from = EndOf(rendered[o]) /\ Render(from, to)
      /\ UNCHANGED <<patch, connected, blockStartTimestamp, late>>
      /\ \A p \in patch \ {o} : signal'[p] = signal[p]
  BY DEF Reads
<1>2. /\ o \in patch /\ EndOf(rendered[o])' = to /\ from \in Int
      /\ o \notin Fed \cup late => 0 <= from /\ from <= to /\ to <= BlockSize
  BY <1>1, RendersOn
<1>3. patch \in Patches /\ turn \in 1 .. Len(nodes) /\ nodes[turn] = o
  BY <1>1, OnItsTurn DEF ServedSoFar, DspTyped, Turn
<1>4. Inlets(o)' = x
  <2>1. turn \in 1 .. turn
    BY <1>3, NodesOfPatch
  <2> QED
    BY <1>1, <1>2, <1>3, <2>1, InletsBefore
<1>5. LineRead
  BY <1>2 DEF LineRead
<1>6. PICK w \in patch : /\ Kind[w] = "delwrite~" /\ line = signal[w]
                         /\ \A v \in patch : Kind[v] = "delwrite~" => v = w
  BY <1>3, <1>5, TheLine
<1>7. w # o
  BY <1>6 DEF LineReaders
<1>8. /\ line' = line /\ blockStart' = blockStart /\ Behind(o)' = Behind(o)
  <2>1. /\ line' = signal'[w] /\ blockStart' = blockStart
        /\ Behind(o)' = Behind(o)
    BY <1>1, <1>6, LineStays
  <2> QED
    BY <1>1, <1>6, <1>7, <2>1
<1> DEFINE time == WrittenTo(w)
<1>9. Holds(line, time)
  BY <1>5, <1>6 DEF LineHolds
<1>10. /\ time \in Int /\ BlockSize \in Nat /\ blockStart \in Int
       /\ Behind(o) \in Int /\ time - BlockSize = blockStart - Behind(o)
  <2>1. Behind(o) = IF Passed(w) THEN 0 ELSE BlockSize
    BY <1>1, <1>3, <1>6, <1>7, BeforeOrAfter
  <2>2. BlockSize \in Nat /\ blockStart \in Int
    BY StartOfBlock, DspAssumption
  <2>3. CASE Passed(w)
    BY <2>1, <2>2, <2>3 DEF WrittenTo
  <2>4. CASE ~ Passed(w)
    BY <2>1, <2>2, <2>4 DEF WrittenTo
  <2> QED
    BY <2>3, <2>4
<1>11. LineReaderKnown(o, d)
  BY <1>2 DEF ReadersKnown
<1>12. Present(o) = d /\ o \notin Adapts
  BY SignalAssumption DEF Present, LineReaders, Arithmetic
<1>13. e = ProcessPart(o, d, x, from, to)
  BY <1>12 DEF Processed
<1> HIDE DEF d, x, e, time
<1>14. CASE Kind[o] = "delread~"
  <2>1. processFunction[o] = "other"
    BY <1>2, <1>3, <1>14, LinesTakeNothing
  <2>2. from = 0 /\ to = BlockSize /\ signal'[o] = e
    BY <2>1 DEF Reads, e
  <2>3. e = DspDelayRead(d, line, BlockSize)
    BY <1>13, <1>14, <2>2 DEF ProcessPart, Filters
  <2> DEFINE out == e.out
  <2>4. /\ e = [d EXCEPT !.out = out] /\ DOMAIN out = DOMAIN d.out
    BY <1>11, <2>3 DEF DspDelayRead, LineReaderKnown, HasBuffer
  <2> HIDE DEF out
  <2>5. LineReaderKnown(o, e) /\ e.delayInSamples = d.delayInSamples
    BY <1>11, <1>14, <2>4 DEF LineReaderKnown, HasBuffer
  <2>6. ASSUME NEW k \in Part(0, to), d.delayInSamples <= line.delay
        PROVE  e.out[k] =
                   Host(blockStart + k - Behind(o) - d.delayInSamples)
    <3>1. k \in Part(0, BlockSize) /\ k \in Int
      BY <1>10, <2>2 DEF Part
    <3>2. /\ DOMAIN d.out = Part(0, BlockSize) /\ "out" \in DOMAIN d
          /\ d.delayInSamples \in Nat
      BY <1>11, <1>14 DEF LineReaderKnown, HasBuffer
    <3>3. DspDelayRead(d, line, BlockSize).out[k] =
              Host(time - BlockSize + k - d.delayInSamples)
      BY <1>9, <1>10, <2>6, <3>1, <3>2, LineIsRead
    <3>4. time - BlockSize + k - d.delayInSamples =
              blockStart + k - Behind(o) - d.delayInSamples
      BY <1>10, <3>1, <3>2
    <3> QED
      BY <2>3, <3>3, <3>4
  <2>7. ASSUME NEW k \in Part(0, to)
        PROVE  RightFromLine(o, k)'
    BY <2>6, <1>8, <1>14, <2>2, <2>5 DEF Host, RightFromLine, Out
  <2>8. Kind[o] \notin TableReaders
    BY <1>14 DEF TableReaders
  <2> QED
    BY <1>2, <2>2, <2>5, <2>7, <2>8 DEF RightSoFar
<1>15. CASE Kind[o] = "vd~"
  <2>1. e = DspVariableDelay(d, line, x, BlockSize)
    BY <1>13, <1>15 DEF ProcessPart, Filters
  <2>2. signal'[o] = e
    <3>1. \A m : ProcessedMessage(o, e, m) = e
      BY <1>15 DEF ProcessedMessage, Arithmetic
    <3> QED
      BY <3>1 DEF Reads, e
  <2> DEFINE out == e.out
  <2>3. e = [d EXCEPT !.out = out] /\ DOMAIN out = DOMAIN d.out
    BY <1>11, <2>1 DEF DspVariableDelay, LineReaderKnown, HasBuffer
  <2> HIDE DEF out
  <2>4. LineReaderKnown(o, e)
    BY <1>11, <1>15, <2>3 DEF LineReaderKnown, HasBuffer
  <2>5. ASSUME NEW k \in Part(0, BlockSize), x[1][k] <= line.delay * Unit
        PROVE  e.out[k] = HostAt((blockStart + k - Behind(o)) * Unit
                                     - (IF x[1][k] < 0 THEN 0 ELSE x[1][k]))
    <3>1. k \in Int
      BY <1>10 DEF Part
    <3>2. DOMAIN d.out = Part(0, BlockSize) /\ "out" \in DOMAIN d
      BY <1>11 DEF LineReaderKnown, HasBuffer
    <3>3. x[1][k] \in Int
      BY <1>2, <1>3, <1>15, PlacesAreNumbers DEF x
    <3>4. DspVariableDelay(d, line, x, BlockSize).out[k] =
              HostAt((time - BlockSize + k) * Unit
                         - (IF x[1][k] < 0 THEN 0 ELSE x[1][k]))
      BY <1>9, <1>10, <2>5, <3>2, <3>3, LineIsReadBetween
    <3>5. time - BlockSize + k = blockStart + k - Behind(o)
      BY <1>10, <3>1
    <3> QED
      BY <2>1, <3>4, <3>5
  <2>6. ASSUME o \notin Fed \cup late, NEW k \in Part(0, to)
        PROVE  RightFromLine(o, k)'
    <3>1. k \in Part(0, BlockSize)
      BY <1>2, <1>10, <2>6 DEF Part
    <3>2. \A t : HostAt(t)' = HostAt(t)
      BY DEF HostAt, Host
    <3> HIDE DEF HostAt
    <3>3. x[1][k] <= line.delay * Unit =>
              e.out[k] = HostAt((blockStart + k - Behind(o)) * Unit
                                    - (IF x[1][k] < 0 THEN 0 ELSE x[1][k]))
      BY <2>5, <3>1
    <3> QED
      BY <1>4, <1>8, <1>15, <2>2, <3>2, <3>3 DEF RightFromLine, Out
  <2>7. Kind[o] \notin TableReaders
    BY <1>15 DEF TableReaders
  <2> QED
    BY <1>2, <2>2, <2>4, <2>6, <2>7 DEF RightSoFar
<1> QED
  BY <1>14, <1>15 DEF LineReaders

\* A delwrite~ writes its block.
LEMMA LineTurn ==
    ASSUME ServedSoFar, DelayLinesHearTheHost, LeftInletOnly, OthersAreOther,
           BlocksAtSamples, LineHolds, ~ lost, LineRead,
           NEW o, NEW from, NEW to, Reads(o, from, to), Kind[o] = "delwrite~"
    PROVE  /\ Holds(signal'[o], blockStart + BlockSize)
           /\ signal'[o].delay = signal[o].delay
           /\ Passed(o)'
PROOF
<1> DEFINE d == signal[o]
           e == Processed(o, from, to)
           x == Inlets(o)
<1>1. OnTurn /\ o = Turn /\ patch' = patch
  BY DEF Reads
<1>2. /\ o \in patch /\ turn \in 1 .. Len(nodes) /\ Len(nodes) \in Nat
      /\ patch \in Patches
      /\ \A i \in 1 .. turn - 1 : nodes[i] # o /\ nodes[turn] = o
  BY <1>1, OnItsTurn DEF ServedSoFar, DspTyped, Turn
<1>3. processFunction[o] = "other"
  BY <1>2, LinesTakeNothing
<1>4. to = BlockSize /\ signal'[o] = e /\ turn' = turn + 1
  BY <1>3 DEF Reads
<1>5. SourcesOf[o] = <<adc_1>> /\ ~ WholeNumbers
  BY <1>2, TheLine
<1>6. x[1] = [k \in Part(0, BlockSize) |-> Host(blockStart + k)]
  BY <1>2, <1>5, LineHears
<1>7. ~ Passed(o)
  BY <1>2 DEF Passed
<1>8. Holds(d, blockStart)
  BY <1>2, <1>7, StartOfBlock DEF LineHolds, WrittenTo
<1>9. e = DspDelayWrite(d, x, BlockSize)
  BY SignalAssumption, <1>4 DEF Present, Arithmetic, Processed, ProcessPart,
     Filters
<1> HIDE DEF d, x, e
<1>10. /\ Holds(DspDelayWrite(d, x, BlockSize), blockStart + BlockSize)
       /\ DspDelayWrite(d, x, BlockSize).delay = d.delay
  BY <1>6, <1>8, StartOfBlock, LineWritten
<1>11. Passed(o)'
  <2>1. nodes' = nodes /\ turn \in 1 .. turn' - 1 /\ nodes[turn] = o
    BY <1>1, <1>2, <1>4 DEF nodes, Turn
  <2> QED
    BY <2>1 DEF Passed
<1> QED
  BY <1>4, <1>9, <1>10, <1>11 DEF d

\* A sig~ has its number in the part, and takes another.
LEMMA LevelTurn ==
    ASSUME ServedSoFar, LevelsKnown, NumbersWait,
           NEW o, NEW from, NEW to, Reads(o, from, to),
           Kind[o] = "sig~", o \notin Fed
    PROVE  LevelIsGiven(signal'[o])
PROOF
<1> DEFINE d == signal[o]
           e == Processed(o, from, to)
           c == fill(build, d.constant, d.out, from, to)
<1>1. o \in patch
  BY OnItsTurn DEF Reads
<1>2. LevelIsGiven(d)
  BY <1>1 DEF LevelsKnown
<1>3. Present(o) = d /\ o \notin Adapts
  BY SignalAssumption DEF Present, Arithmetic
<1>4. e = [d EXCEPT !.out = c]
  <2>1. e = ProcessPart(o, d, Inlets(o), from, to)
    BY <1>3 DEF Processed
  <2> QED
    BY <2>1 DEF ProcessPart, DspSignal, Filters
<1>5. DOMAIN c = Part(0, BlockSize) /\ \A k \in Part(0, BlockSize) : c[k] \in Int
  BY <1>2 DEF fill, LevelIsGiven, HasBuffer
<1> HIDE DEF d, c, e
<1>6. LevelIsGiven(e)
  BY <1>2, <1>4, <1>5 DEF LevelIsGiven, HasBuffer
<1>7. ASSUME NEW m, m.floats \in Seq(Int)
      PROVE  LevelIsGiven(ProcessedMessage(o, e, m))
  BY <1>7, <1>6 DEF ProcessedMessage, isFloat, TakesSignal, LevelIsGiven,
     HasBuffer
<1>8. ASSUME NEW i \in 1 .. Len(messageQueue[o])
      PROVE  messageQueue[o][i].message.floats \in Seq(Int)
  BY <1>1 DEF NumbersWait, GivenBy
<1> QED
  BY <1>6, <1>7, <1>8 DEF Reads, e

\* The records of those that are read from, or read, stay ones.
LEMMA ReadersStay ==
    ASSUME ServedSoFar, ServedSoFar', HearsBefore, PlacesAreGiven,
           DelayLinesHearTheHost, LeftInletOnly, ReadInvariant, ~ lost,
           NEW o, NEW from, NEW to \in Int, Reads(o, from, to)
    PROVE  ReadersKnown'
PROOF
<1>1. /\ OnTurn /\ UNCHANGED <<patch, tableLength>>
      /\ \A p \in patch \ {o} : signal'[p] = signal[p]
      /\ Fed' = Fed
  BY DEF Reads, Fed
<1>2. ReadersKnown
  BY DEF ReadInvariant
<1>3. Kind[o] = "sig~" /\ o \notin Fed => LevelIsGiven(signal'[o])
  BY LevelTurn DEF ReadInvariant, ReadersKnown, LevelsKnown
<1>4. Kind[o] \in TableReaders => TableReaderKnown(signal'[o])
  BY TableTurn DEF ReadInvariant
<1>5. Kind[o] \in LineReaders => LineReaderKnown(o, signal'[o])
  BY LineReaderTurn DEF ReadInvariant
<1>6. ASSUME NEW p \in patch
      PROVE  /\ Kind[p] = "sig~" /\ p \notin Fed => LevelIsGiven(signal'[p])
             /\ Kind[p] \in TableReaders => TableReaderKnown(signal'[p])
             /\ Kind[p] \in LineReaders => LineReaderKnown(p, signal'[p])
  <2>1. CASE p = o
    BY <1>3, <1>4, <1>5, <2>1
  <2>2. CASE p # o
    BY <1>1, <1>2, <2>2 DEF ReadersKnown
  <2> QED
    BY <2>1, <2>2
<1>7. \A p : /\ LevelIsGiven(signal[p])' <=> LevelIsGiven(signal'[p])
             /\ TableReaderKnown(signal[p])' <=> TableReaderKnown(signal'[p])
             /\ LineReaderKnown(p, signal[p])' <=> LineReaderKnown(p, signal'[p])
  BY DEF LevelIsGiven, TableReaderKnown, LineReaderKnown, HasBuffer
<1> QED
  BY <1>1, <1>2, <1>6, <1>7 DEF ReadersKnown

\* What others have read was read at its place.
LEMMA OthersRead ==
    ASSUME ServedSoFar, HearsBefore, DelayLinesHearTheHost, LeftInletOnly,
           ReadInvariant, ~ lost,
           NEW o, NEW from, NEW to, Reads(o, from, to),
           NEW p \in patch, p # o, RightSoFar(p)
    PROVE  RightSoFar(p)'
PROOF
<1>1. /\ OnTurn /\ o = Turn /\ Render(from, to)
      /\ UNCHANGED <<patch, connected, blockStartTimestamp, tableLength>>
      /\ \A q \in patch \ {o} : signal'[q] = signal[q] /\ seen'[q] = seen[q]
  BY DEF Reads
<1>2. /\ patch \in Patches /\ turn \in 1 .. Len(nodes) /\ Len(nodes) \in Nat
      /\ o \in patch
  BY <1>1, OnItsTurn DEF ServedSoFar, DspTyped
<1>3. rendered'[p] = rendered[p]
  BY <1>1 DEF Render, ServedSoFar, DspTyped
<1>4. CASE rendered[p] = <<>>
  BY <1>3, <1>4 DEF Part, EndOf, RightSoFar
<1>5. CASE rendered[p] # <<>>
  <2>1. PICK j \in 1 .. turn - 1 : nodes[j] = p
    BY <1>1, <1>5 DEF ServedSoFar, Tiled, HadTurn
  <2>2. Inlets(p)' = Inlets(p)
    <3>1. j \in 1 .. turn
      BY <1>2
    <3> QED
      BY <1>1, <1>2, <2>1, <3>1, InletsBefore
  <2>3. Out(p)' = Out(p) /\ seen'[p] = seen[p] /\ signal'[p] = signal[p]
    BY <1>1 DEF Out
  <2>4. EndOf(rendered[p])' = EndOf(rendered[p])
    BY <1>3 DEF EndOf
  <2>5. \A z, y : IsAtPlace(p, z, y)' <=> IsAtPlace(p, z, y)
    BY <1>1 DEF IsAtPlace, Place, table
  <2>6. \A k : RightFromTable(p, k)' <=> RightFromTable(p, k)
    BY <2>2, <2>3, <2>5 DEF RightFromTable
  <2>7. ASSUME Kind[p] \in LineReaders
        PROVE  \A k : RightFromLine(p, k)' <=> RightFromLine(p, k)
    <3>1. LineRead
      BY <2>7 DEF LineRead
    <3>2. PICK w \in patch :
              /\ Kind[w] = "delwrite~" /\ line = signal[w]
              /\ \A v \in patch : Kind[v] = "delwrite~" => v = w
      BY <1>2, <3>1, TheLine
    <3>3. /\ line' = signal'[w] /\ Behind(p)' = Behind(p)
          /\ blockStart' = blockStart
      BY <1>1, <3>2, LineStays
    <3>4. line'.delay = line.delay
      <4>1. CASE w = o
        <5>1. signal'[o].delay = signal[o].delay
          BY <3>1, <3>2, <4>1, LineTurn DEF ReadInvariant
        <5> QED
          BY <3>2, <3>3, <4>1, <5>1
      <4>2. CASE w # o
        BY <1>1, <3>2, <3>3, <4>2
      <4> QED
        BY <4>1, <4>2
    <3>5. \A t : HostAt(t)' = HostAt(t) /\ Host(t)' = Host(t)
      BY DEF HostAt, Host
    <3> QED
      BY <2>2, <2>3, <3>3, <3>4, <3>5 DEF RightFromLine
  <2> QED
    BY <2>4, <2>6, <2>7 DEF RightSoFar
<1> QED
  BY <1>4, <1>5

\* The line is written in its turn only.
LEMMA LineKept ==
    ASSUME ServedSoFar, DelayLinesHearTheHost, LeftInletOnly, ReadInvariant,
           ~ lost, NEW o, NEW from, NEW to, Reads(o, from, to)
    PROVE  LineHolds'
PROOF
<1>1. /\ OnTurn /\ o = Turn /\ UNCHANGED <<patch, blockStartTimestamp>>
      /\ \A p \in patch \ {o} : signal'[p] = signal[p]
      /\ turn' \in {turn, turn + 1} /\ nodes' = nodes
      /\ blockStart' = blockStart
  BY DEF Reads, nodes, blockStart
<1>2. turn \in 1 .. Len(nodes) /\ nodes[turn] = o
  BY <1>1, OnItsTurn DEF Turn
<1> SUFFICES ASSUME LineRead, NEW w \in patch, Kind[w] = "delwrite~"
             PROVE  Holds(signal'[w], WrittenTo(w)')
  BY <1>1 DEF Holds, Host, LineHolds, LineRead
<1>3. Holds(signal[w], WrittenTo(w))
  BY DEF ReadInvariant, LineHolds
<1>4. CASE w = o
  <2>1. Holds(signal'[o], blockStart + BlockSize) /\ Passed(o)'
    BY <1>4, LineTurn DEF ReadInvariant
  <2> QED
    BY <1>1, <1>4, <2>1 DEF WrittenTo
<1>5. CASE w # o
  <2>1. /\ \A i \in 1 .. turn' - 1 : i \in 1 .. turn - 1 \/ i = turn
        /\ \A i \in 1 .. turn - 1 : i \in 1 .. turn' - 1
    <3>1. turn \in Int
      BY <1>2
    <3>2. CASE turn' = turn
      BY <3>1, <3>2
    <3>3. CASE turn' = turn + 1
      BY <3>1, <3>3
    <3> QED
      BY <1>1, <3>2, <3>3
  <2>2. Passed(w)' <=> Passed(w)
    BY <1>1, <1>2, <1>5, <2>1 DEF Passed
  <2> QED
    BY <1>1, <1>3, <1>5, <2>2 DEF WrittenTo
<1> QED
  BY <1>4, <1>5

\* A turn in which a part is computed.
LEMMA ReadsKeeps ==
    ASSUME ServedSoFar, ServedSoFar', HearsBefore, PlacesAreGiven,
           DelayLinesHearTheHost, LeftInletOnly, ReadInvariant, ~ lost,
           NEW o, NEW from, NEW to \in Int, Reads(o, from, to)
    PROVE  ReadersKnown' /\ LineHolds' /\ ReadSoFar'
PROOF
<1>1. patch' = patch /\ late' = late /\ Fed' = Fed
  BY DEF Reads, Fed
<1>2. ASSUME NEW p \in patch \ (late \cup Fed)
      PROVE  RightSoFar(p)'
  BY OthersRead, TableTurn, LineReaderTurn DEF ReadInvariant, ReadSoFar,
     RightSoFar
<1>3. ReadSoFar'
  BY <1>1, <1>2 DEF ReadSoFar
<1> QED
  BY <1>3, ReadersStay, LineKept

-----------------------------------------------------------------------------
(***************************************************************************)
(* What is read, step by step.                                             *)
(***************************************************************************)

\* What is written down of a part.
LEMMA PartNoted ==
    ASSUME NumbersKnown, NEW o \in patch, NEW from, NEW to
    PROVE  Noted(o, from, to)[o].setBy =
               [k \in Part(0, BlockSize) |->
                   IF k \in Part(from, to) THEN Setting(o, Present(o))
                   ELSE seen[o].setBy[k]]
PROOF
  BY DEF Noted, NumbersKnown, SeenShape, zeros

LEMMA OthersNoted ==
    ASSUME NumbersKnown, NEW o \in patch, NEW from, NEW to
    PROVE  /\ Noted(o, from, to)[o].path = seen[o].path
           /\ Noted(o, from, to)[o].disturbed = seen[o].disturbed
PROOF
  BY DEF Noted, NumbersKnown, SeenShape

\* The turns in which an object computes to the end of the block.
LEMMA ComputePlays ==
    ASSUME ServedSoFar, NumbersKnown, OnTurn, NEW o, o = Turn,
           NEW from, from = EndOf(rendered[o]),
           Compute(from, BlockSize), Render(from, BlockSize),
           processFunction[o] # "message" => from = 0, turn' = turn + 1,
           ~ lost',
           UNCHANGED <<patch, build, connected, blockStartTimestamp, late,
                       tableLength>>
    PROVE  Plays(o, from, BlockSize)
PROOF
<1>1. o \in patch /\ from \in Int /\ BlockSize \in Int
  BY OnItsTurn, DspAssumption
<1>2. /\ \A p \in patch \ {o} : signal'[p] = signal[p] /\ seen'[p] = seen[p]
      /\ signal'[o] = Processed(o, from, BlockSize)
      /\ seen'[o].setBy = Noted(o, from, BlockSize)[o].setBy
      /\ seen'[o].path = seen[o].path /\ seen'[o].before = seen[o].before
      /\ seen'[o].disturbed <=>
             seen[o].disturbed \/ AskedForNone(o, from, BlockSize)
  BY <1>1, ComputeKnows
<1>4. ~ Dies(o, from, BlockSize)
  BY DEF Compute
<1>3. seen'[o].setBy =
          [k \in Part(0, BlockSize) |->
              IF k \in Part(from, BlockSize) THEN Setting(o, Present(o))
              ELSE seen[o].setBy[k]]
  BY <1>1, <1>2, PartNoted
<1> QED
  BY <1>2, <1>3, <1>4 DEF Reads, Plays

LEMMA TurnPlays ==
    ASSUME ServedSoFar, NumbersKnown, ComputeBlock \/ ComputeRest, ~ lost'
    PROVE  \E o : Plays(o, EndOf(rendered[o]), BlockSize)
PROOF
<1> DEFINE from == EndOf(rendered[Turn])
<1>1. /\ OnTurn /\ turn' = turn + 1
      /\ UNCHANGED <<patch, build, connected, blockStartTimestamp, late,
                     tableLength>>
  BY DEF ComputeBlock, ComputeRest, ProcessBlock, ProcessRest
<1>2. CASE ComputeBlock
  <2>1. from = 0
    BY <1>1, <1>2, OnItsTurn
       DEF ComputeBlock, ProcessBlock, ServedSoFar, Tiled, EndOf
  <2>2. Compute(from, BlockSize) /\ Render(from, BlockSize)
    BY <1>2, <2>1 DEF ComputeBlock, ProcessBlock
  <2> SUFFICES ASSUME NEW o, o = Turn
               PROVE  Plays(o, EndOf(rendered[o]), BlockSize)
    OBVIOUS
  <2> QED
    BY <1>1, <2>1, <2>2, ComputePlays
<1>3. CASE ComputeRest
  <2>1. /\ Compute(from, BlockSize) /\ Render(from, BlockSize)
        /\ processFunction[Turn] = "message"
    <3>1. from = blockIndexOfLastMessage
      BY <1>1, OnItsTurn
    <3> HIDE DEF from
    <3> QED
      BY <1>3, <3>1 DEF ComputeRest, ProcessRest, ServedSoFar, Tiled
  <2> SUFFICES ASSUME NEW o, o = Turn
               PROVE  Plays(o, EndOf(rendered[o]), BlockSize)
    OBVIOUS
  <2> QED
    BY <1>1, <2>1, ComputePlays
<1> QED
  BY <1>2, <1>3

\* The turns up to a message.
LEMMA MessagePlays ==
    ASSUME ServedSoFar, NumbersKnown, LeftInletOnly, ComputeToMessage,
           ~ lost, ~ lost'
    PROVE  \E o : \E to \in Int : Plays(o, EndOf(rendered[o]), to)
PROOF
<1> DEFINE entry == Head(messageQueue[Turn])
           message == entry.message
           from == blockIndexOfLastMessage
           to == BlockIndex(entry.time)
<1>1. /\ OnTurn /\ messageQueue[Turn] # <<>> /\ turn' = turn
      /\ processFunction[Turn] = "message" /\ Render(from, to)
      /\ UNCHANGED <<patch, build, connected, blockStartTimestamp, late,
                     tableLength>>
  BY DEF ComputeToMessage, ProcessMessage
<1>2. /\ Turn \in patch /\ from \in Int /\ from = EndOf(rendered[Turn])
  BY <1>1, OnItsTurn
<1>3. /\ entry.time \in Int
      /\ Kind[Turn] = "sig~" => message.inlet = 0
      /\ 1 \in 1 .. Len(messageQueue[Turn])
      /\ message = messageQueue[Turn][1].message
  BY <1>1, <1>2, TailList DEF ServedSoFar, DspTyped, LeftInletOnly
<1>4. to \in Int
  <2>1. \A t \in Int : BlockIndex(t) \in Int
    BY IndexMonotone DEF ServedSoFar, DspTyped
  <2> QED
    BY <1>3, <2>1
<1>5. ~ Dies(Turn, from, to)
  BY DEF ComputeToMessage
<1> DEFINE path == NewPath(Turn, Noted(Turn, from, to)[Turn].path, message,
                           blockStart + to)
           disturbed == \/ Noted(Turn, from, to)[Turn].disturbed
                        \/ message.selector = "clear"
                        \/ AskedForNone(Turn, from, to)
<1>6. TakesMessage(Turn, from, to, message, path, disturbed)
  BY <1>5 DEF ComputeToMessage, TakesMessage
<1> HIDE DEF path, disturbed, message, from, to
<1> SUFFICES ASSUME NEW o, o = Turn, NEW m, m = message, NEW i, i = from,
                    NEW j, j = to, NEW p, p = path, NEW d, d = disturbed
             PROVE  Plays(o, i, j)
  BY <1>2, <1>4
<1>7. /\ TakesMessage(o, i, j, m, p, d)
      /\ i \in Int /\ j \in Int /\ o \in patch
      /\ Kind[o] = "sig~" => m.inlet = 0
  BY <1>2, <1>3, <1>4, <1>6
<1>8. /\ \A n \in patch \ {o} : signal'[n] = signal[n] /\ seen'[n] = seen[n]
      /\ signal'[o] = ProcessedMessage(o, Processed(o, i, j), m)
      /\ seen'[o].setBy = Noted(o, i, j)[o].setBy
      /\ seen'[o].path = p /\ seen'[o].disturbed = d
      /\ seen'[o].before = seen[o].before
  <2>1. UNCHANGED <<patch, build>>
    BY <1>1
  <2>2. \A c, e : TakesMessage(o, i, j, m, c, e) =>
            /\ \A n \in patch \ {o} :
                   signal'[n] = signal[n] /\ seen'[n] = seen[n]
            /\ signal'[o] = ProcessedMessage(o, Processed(o, i, j), m)
            /\ seen'[o].setBy = Noted(o, i, j)[o].setBy
            /\ seen'[o].path = c /\ seen'[o].disturbed = e
            /\ seen'[o].before = seen[o].before
    BY <1>7, <2>1, MessageKnows
  <2> QED
    BY <1>7, <2>2, Zenon
<1>9. seen'[o].setBy =
          [k \in Part(0, BlockSize) |->
              IF k \in Part(i, j) THEN Setting(o, Present(o))
              ELSE seen[o].setBy[k]]
  BY <1>7, <1>8, PartNoted
<1>10. m = messageQueue[o][1].message /\ 1 \in 1 .. Len(messageQueue[o])
  BY <1>3
<1>11. /\ p = NewPath(o, seen[o].path, m, blockStart + j)
       /\ d <=> \/ seen[o].disturbed \/ AskedForNone(o, i, j)
                \/ m.selector = "clear"
  <2>1. p = NewPath(o, Noted(o, i, j)[o].path, m, blockStart + j)
    BY DEF path
  <2>3. d <=> \/ Noted(o, i, j)[o].disturbed \/ m.selector = "clear"
              \/ AskedForNone(o, i, j)
    BY DEF disturbed
  <2>2. /\ Noted(o, i, j)[o].path = seen[o].path
        /\ Noted(o, i, j)[o].disturbed = seen[o].disturbed
    BY <1>7, OthersNoted
  <2> QED
    BY <2>1, <2>2, <2>3, Zenon
<1>12. Reads(o, i, j)
  BY <1>1, <1>2, <1>8, <1>9, <1>10 DEF Reads
<1>13. ~ Dies(o, i, j)
  BY <1>5
<1> QED
  BY <1>1, <1>8, <1>10, <1>11, <1>12, <1>13 DEF Plays

\* What they are told stays numbers.
LEMMA NextNumbersWait ==
    ASSUME ServedSoFar, NumbersWait, [Next]_vars
    PROVE  NumbersWait'
PROOF
<1>1. QueueStep /\ patch' = patch /\ patch \in Patches /\ Fed' = Fed
  BY NextQueues DEF ServedSoFar, DspTyped, Fed
<1>2. ASSUME NEW o \in patch, NEW i \in 1 .. Len(messageQueue'[o]),
             GivenBy(o, messageQueue'[o][i].message)
      PROVE  messageQueue'[o][i].message.floats \in Seq(Int)
  <2> DEFINE e == messageQueue'[o][i]
  <2>1. CASE Waits(o, e)
    BY <1>2, <2>1 DEF Waits, NumbersWait
  <2>2. CASE IsTold(o, e)
    BY <1>1, <2>2, SignalAssumption, DspAssumption DEF IsTold
  <2>3. ~ IsAnswer(o, e)
    <3> SUFFICES ASSUME IsAnswer(o, e)
                 PROVE  FALSE
      OBVIOUS
    <3>1. OnTurn /\ o \in Feeds[Turn] /\ e.message.inlet = 0
      BY DEF IsAnswer, DspSnapshot
    <3>2. o \in Fed
      BY <3>1, OnItsTurn DEF Fed
    <3> QED
      BY <1>2, <3>1, <3>2 DEF GivenBy
  <2> QED
    BY <1>1, <2>1, <2>2, <2>3 DEF QueueStep
<1>3. \A o \in patch : \A i : GivenBy(o, messageQueue[o][i].message)' <=>
                              GivenBy(o, messageQueue'[o][i].message)
  BY <1>1 DEF GivenBy
<1> QED
  BY <1>1, <1>2, <1>3 DEF NumbersWait

\* What does not handle messages goes on not to.
LEMMA NextOther ==
    ASSUME ServedSoFar, OthersAreOther, [Next]_vars
    PROVE  OthersAreOther'
PROOF
<1>1. patch' = patch
  BY NextQueues
<1>2. processFunction \in [patch -> {"noMessage", "message", "other"}]
  BY DEF ServedSoFar, DspTyped
<1>3. \A p, o \in patch : noticed(o)[p] =
          IF p = o /\ processFunction[o] = "noMessage" THEN "message"
          ELSE processFunction[p]
  BY <1>2 DEF noticed
<1> SUFFICES ASSUME NEW p \in patch, processFunction[p] = "other", p \notin Handles
             PROVE  processFunction'[p] = "other"
  BY <1>1 DEF OthersAreOther
<1>4. CASE UNCHANGED processFunction
  BY <1>4
<1>5. ASSUME NEW o \in patch, Tell(o)
      PROVE  processFunction'[p] = "other"
  <2>1. processFunction' = noticed(o) \/ UNCHANGED processFunction
    BY <1>5 DEF Tell, SendDirect, Receive, receiveMessage
  <2> QED
    BY <1>3, <2>1
<1>6. ASSUME NEW o \in patch, Connect(o)
      PROVE  processFunction'[p] = "other"
  <2>1. p # o
    BY <1>6, DspAssumption DEF Connect, onInletConnectionUpdate
  <2> QED
    BY <1>2, <1>6, <2>1 DEF Connect, onInletConnectionUpdate
<1>7. CASE ComputeToMessage
  <2>1. PICK receivers, answer : ProcessMessage(receivers, answer)
    BY <1>7 DEF ComputeToMessage
  <2>2. processFunction'[p] \in {processFunction[p], noticed(p)[p]}
    BY <2>1 DEF ProcessMessage
  <2> QED
    BY <1>3, <2>2
<1>8. CASE ComputeRest
  BY <1>8, <1>2 DEF ComputeRest, ProcessRest, ServedSoFar, Tiled
<1>9. \/ UNCHANGED processFunction
      \/ \E o \in patch : Tell(o) \/ Connect(o)
      \/ ComputeToMessage \/ ComputeRest
  BY DEF Next, vars, dspVars, ResizeTable, ComputeBlock, ProcessBlock,
         BeginBlock, BeginProcess, EndBlock, EndProcess, OtherStep, setSwitch,
         BeginDsp, PassOver
<1> QED
  BY <1>4, <1>5, <1>6, <1>7, <1>8, <1>9

\* The records are not touched.
LEMMA RecordsStay ==
    ASSUME ReadersKnown, UNCHANGED <<patch, signal>>, tableLength' \in Nat \ {0}
    PROVE  ReadersKnown'
PROOF
<1>1. \A p : /\ LevelIsGiven(signal[p])' <=> LevelIsGiven(signal[p])
             /\ TableReaderKnown(signal[p])' <=> TableReaderKnown(signal[p])
             /\ LineReaderKnown(p, signal[p])' <=> LineReaderKnown(p, signal[p])
  BY DEF LevelIsGiven, TableReaderKnown, LineReaderKnown, HasBuffer
<1> QED
  BY <1>1 DEF ReadersKnown, Fed

\* As long as nothing has been rendered, nothing was read.
LEMMA NothingRead ==
    ASSUME patch' = patch, \A o \in patch : rendered'[o] = <<>>
    PROVE  ReadSoFar'
PROOF
  BY DEF Part, EndOf, RightSoFar, ReadSoFar

\* A line stays as it was written.
LEMMA LineUnwritten ==
    ASSUME LineHolds, UNCHANGED <<patch, signal, lost, blockStartTimestamp>>,
           LineRead => \A w \in patch :
               Kind[w] = "delwrite~" => (Passed(w)' <=> Passed(w))
    PROVE  LineHolds'
PROOF
<1>1. \A w : Holds(signal[w], WrittenTo(w))' <=> Holds(signal[w], WrittenTo(w)')
  BY DEF Holds, Host
<1>2. \A w \in patch : LineRead /\ Kind[w] = "delwrite~" =>
          WrittenTo(w)' = WrittenTo(w)
  BY DEF WrittenTo, blockStart
<1> QED
  BY <1>1, <1>2 DEF LineHolds, LineRead

\* A step before the graph runs.
LEMMA RestRead ==
    ASSUME ServedSoFar, ReadInvariant, phase # "dsp",
           UNCHANGED <<patch, signal, lost, blockStartTimestamp, turn, rendered>>,
           tableLength' \in Nat \ {0}
    PROVE  ReadersKnown' /\ LineHolds' /\ ReadSoFar'
PROOF
<1>1. \A o \in patch : rendered'[o] = <<>>
  BY AtRest DEF ServedSoFar
<1>2. \A w : Passed(w)' <=> Passed(w)
  BY DEF Passed, nodes
<1> QED
  BY <1>1, <1>2, RecordsStay, NothingRead, LineUnwritten DEF ReadInvariant

\* A step in which nothing is computed, and no line passed over.
LEMMA StillRead ==
    ASSUME ReadInvariant,
           UNCHANGED <<patch, signal, lost, blockStartTimestamp, rendered, seen,
                       connected, tableLength, late>>,
           LineRead => \A w \in patch :
               Kind[w] = "delwrite~" => (Passed(w)' <=> Passed(w))
    PROVE  ReadersKnown' /\ LineHolds' /\ ReadSoFar'
PROOF
<1>1. ReadersKnown' /\ LineHolds'
  <2>1. tableLength' \in Nat \ {0}
    BY DEF ReadInvariant, ReadersKnown
  <2> QED
    BY <2>1, RecordsStay, LineUnwritten DEF ReadInvariant
<1>2. ASSUME NEW o \in patch, RightSoFar(o)
      PROVE  RightSoFar(o)'
  <2>1. Inlets(o)' = Inlets(o)
    BY InletsStay
  <2>2. Out(o)' = Out(o) /\ EndOf(rendered[o])' = EndOf(rendered[o])
    BY DEF Out, EndOf
  <2>3. \A z, y : IsAtPlace(o, z, y)' <=> IsAtPlace(o, z, y)
    BY DEF IsAtPlace, Place, table
  <2>4. \A k : RightFromTable(o, k)' <=> RightFromTable(o, k)
    BY <2>1, <2>2, <2>3 DEF RightFromTable
  <2>5. /\ line' = line /\ Behind(o)' = Behind(o) /\ blockStart' = blockStart
        /\ \A t : HostAt(t)' = HostAt(t) /\ Host(t)' = Host(t)
    BY DEF line, Behind, Before, nodes, blockStart, HostAt, Host
  <2>6. \A k : RightFromLine(o, k)' <=> RightFromLine(o, k)
    BY <2>1, <2>2, <2>5 DEF RightFromLine
  <2> QED
    BY <1>2, <2>2, <2>4, <2>6 DEF RightSoFar
<1>3. ReadSoFar'
  BY <1>2 DEF ReadInvariant, ReadSoFar, Fed
<1> QED
  BY <1>1, <1>3

\* The graph that a line is in is never off.
LEMMA PassOverRead ==
    ASSUME ServedSoFar, DelayLinesHearTheHost, ReadInvariant, PassOver,
           UNCHANGED signalVars
    PROVE  ReadersKnown' /\ LineHolds' /\ ReadSoFar'
PROOF
<1>1. /\ turn' = turn + 1 /\ ~ Runs(Turn) /\ Turn \in patch
      /\ turn \in 1 .. Len(nodes) /\ patch \in Patches /\ nodes' = nodes
  BY OnItsTurn DEF PassOver, ServedSoFar, DspTyped, nodes
<1>2. ASSUME LineRead, NEW w \in patch, Kind[w] = "delwrite~"
      PROVE  Passed(w)' <=> Passed(w)
  <2>1. Around[w] \cap Switchable = {}
    BY <1>1, <1>2, TheLine
  <2>2. Runs(w)
    <3>1. w \in DspObjects /\ Around[w] \subseteq Graphs
      BY <1>1, DspAssumption
    <3> QED
      BY <2>1, <3>1 DEF ServedSoFar, Consumed, Runs
  <2>3. w # Turn
    BY <1>1, <2>2
  <2>4. \A i \in 1 .. turn' - 1 : i \in 1 .. turn - 1 \/ i = turn
    BY <1>1
  <2>5. \A i \in 1 .. turn - 1 : i \in 1 .. turn' - 1
    BY <1>1
  <2> QED
    BY <1>1, <2>3, <2>4, <2>5 DEF Passed, Turn
<1> QED
  BY <1>2, StillRead DEF PassOver, signalVars

\* A block ends, and the line has all of it.
LEMMA EndBlockRead ==
    ASSUME ServedSoFar, ReadInvariant, EndBlock, ~ lost
    PROVE  ReadersKnown' /\ LineHolds' /\ ReadSoFar'
PROOF
<1>1. /\ UNCHANGED <<patch, signal, lost, tableLength>> /\ turn' = 1
      /\ rendered' = [o \in patch |-> <<>>] /\ turn > Len(nodes)
      /\ patch \in Patches /\ turn \in Int
  <2>1. turn \in Int
    BY NodesOfPatch DEF ServedSoFar, DspTyped
  <2> QED
    BY <2>1 DEF EndBlock, EndProcess, ServedSoFar, DspTyped
<1>2. ReadersKnown'
  BY <1>1, RecordsStay DEF ReadInvariant, ReadersKnown
<1>3. ReadSoFar'
  BY <1>1, NothingRead
<1>4. blockStart' = blockStart + BlockSize /\ BlocksAtSamples'
  BY NextStart DEF Next, ReadInvariant
<1>5. ASSUME LineRead, NEW w \in patch, Kind[w] = "delwrite~"
      PROVE  Holds(signal[w], WrittenTo(w)')
  <2>1. Holds(signal[w], WrittenTo(w))
    BY <1>5 DEF ReadInvariant, LineHolds
  <2>2. Passed(w)
    BY <1>1, NodesOfPatch DEF Passed
  <2>3. ~ Passed(w)'
    <3>1. \A i \in 1 .. turn' - 1 : FALSE
      BY <1>1
    <3> QED
      BY <3>1 DEF Passed
  <2>4. WrittenTo(w)' = WrittenTo(w)
    <3>1. blockStart \in Nat /\ BlockSize \in Nat
      BY StartOfBlock, DspAssumption DEF ReadInvariant
    <3> QED
      BY <1>4, <2>2, <2>3, <3>1 DEF WrittenTo
  <2> QED
    BY <2>1, <2>4
<1>6. LineHolds'
  <2>1. \A w : Holds(signal[w], WrittenTo(w))' <=> Holds(signal[w], WrittenTo(w)')
    BY <1>1 DEF Holds, Host
  <2> QED
    BY <1>1, <1>5, <2>1 DEF LineHolds, LineRead
<1> QED
  BY <1>2, <1>3, <1>6

\* A turn, which the process may not survive.
LEMMA TurnRead ==
    ASSUME ServedSoFar, ServedSoFar', HearsBefore, PlacesAreGiven,
           DelayLinesHearTheHost, HeardInvariant, ReadInvariant, ~ lost,
           ComputeBlock \/ ComputeRest \/ ComputeToMessage
    PROVE  ReadersKnown' /\ LineHolds' /\ ReadSoFar'
PROOF
<1>1. CASE lost'
  <2>1. UNCHANGED <<patch, signal, tableLength>>
    <3>1. CASE ComputeToMessage
      BY <1>1, <3>1 DEF ComputeToMessage, ProcessMessage
    <3>2. CASE ComputeBlock \/ ComputeRest
      BY <1>1, <3>2
         DEF ComputeBlock, ProcessBlock, ComputeRest, ProcessRest, Compute
    <3> QED
      BY <3>1, <3>2
  <2>2. ReadersKnown'
    BY <2>1, RecordsStay DEF ReadInvariant, ReadersKnown
  <2> QED
    BY <1>1, <2>2 DEF LineHolds, ReadSoFar
<1>2. CASE ~ lost'
  <2>1. NumbersKnown /\ LeftInletOnly
    BY DEF HeardInvariant
  <2>2. \E o : \E to \in Int : Reads(o, EndOf(rendered[o]), to)
    <3>1. BlockSize \in Int
      BY DspAssumption
    <3> QED
      BY <1>2, <2>1, <3>1, TurnPlays, MessagePlays DEF Plays
  <2>3. PICK o : \E to \in Int : Reads(o, EndOf(rendered[o]), to)
    BY <2>2
  <2>4. PICK to \in Int : Reads(o, EndOf(rendered[o]), to)
    BY <2>3
  <2> QED
    BY <2>1, <2>4, ReadsKeeps
<1> QED
  BY <1>1, <1>2

LEMMA NextRead ==
    ASSUME ServedSoFar, ServedSoFar', HearsBefore, PlacesAreGiven,
           DelayLinesHearTheHost, HeardInvariant, ReadInvariant, [Next]_vars
    PROVE  ReadInvariant'
PROOF
<1>1. BlocksAtSamples' /\ OthersAreOther' /\ NumbersWait'
  BY NextStart, NextOther, NextNumbersWait DEF ReadInvariant
<1> SUFFICES ReadersKnown' /\ LineHolds' /\ ReadSoFar'
  BY <1>1 DEF ReadInvariant
<1>2. tableLength \in Nat \ {0}
  BY DEF ReadInvariant, ReadersKnown
<1>3. CASE UNCHANGED vars
  <2>1. \A w : Passed(w)' <=> Passed(w)
    BY <1>3 DEF vars, dspVars, Passed, nodes
  <2> QED
    BY <1>3, <2>1, StillRead DEF vars, dspVars, signalVars
<1>4. ASSUME NEW o \in patch, Tell(o)
      PROVE  ReadersKnown' /\ LineHolds' /\ ReadSoFar'
  BY <1>2, <1>4, RestRead DEF Tell, SendDirect, Receive
<1>5. ASSUME NEW o \in patch, Connect(o)
      PROVE  ReadersKnown' /\ LineHolds' /\ ReadSoFar'
  BY <1>2, <1>5, RestRead DEF Connect, onInletConnectionUpdate
<1>6. CASE ResizeTable
  <2>1. tableLength' \in Nat \ {0}
    BY <1>6, SignalAssumption DEF ResizeTable
  <2> QED
    BY <1>6, <2>1, RestRead DEF ResizeTable, dspVars
<1>7. CASE ~ lost /\ (ComputeBlock \/ ComputeRest \/ ComputeToMessage)
  BY <1>7, TurnRead
<1>8. CASE BeginBlock
  BY <1>2, <1>8, RestRead DEF BeginBlock, BeginProcess
<1>9. CASE ~ lost /\ EndBlock
  BY <1>9, EndBlockRead
<1>10. CASE PassOver /\ UNCHANGED signalVars
  BY <1>10, PassOverRead
<1>11. CASE OtherStep /\ ~ PassOver
  BY <1>2, <1>11, RestRead DEF OtherStep, setSwitch, BeginDsp, signalVars
<1> QED
  BY <1>3, <1>4, <1>5, <1>6, <1>7, <1>8, <1>9, <1>10, <1>11 DEF Next, OtherStep

\* A delay line has room for its delay and a block, in whole blocks.
LEMMA BufferFits ==
    ASSUME NEW delay \in Nat, NEW b \in Nat \ {0}
    PROVE  \E j \in Nat : /\ bufferLengthFor(delay, b) = j * b /\ 0 < j
                          /\ delay + b <= j * b /\ j * b \in Nat
PROOF
<1> DEFINE q == delay \div b
           r == delay % b
<1>1. q \in Nat /\ r \in 0 .. b - 1 /\ delay = q * b + r
  OBVIOUS
<1>2. \A m \in Nat : /\ (m + 2) * b = m * b + b + b /\ (m + 1) * b = m * b + b
                     /\ m * b \in Nat
  OBVIOUS
<1> HIDE DEF q, r
<1>3. CASE r # 0
  <2>1. bufferLengthFor(delay, b) = (q + 2) * b
    BY <1>3 DEF bufferLengthFor, q, r
  <2>2. /\ q + 2 \in Nat /\ 0 < q + 2 /\ (q + 2) * b = q * b + b + b
        /\ q * b \in Nat
    BY <1>1, <1>2
  <2> DEFINE m == q * b
             n == (q + 2) * b
  <2>3. m \in Nat /\ n = m + b + b /\ delay = m + r
    BY <1>1, <2>2
  <2> HIDE DEF m, n
  <2>4. delay + b <= n /\ n \in Nat
    BY <1>1, <2>3
  <2> QED
    BY <2>1, <2>2, <2>4 DEF n
<1>4. CASE r = 0
  <2>1. bufferLengthFor(delay, b) = delay + b
    BY <1>4 DEF bufferLengthFor, r
  <2>2. q + 1 \in Nat /\ 0 < q + 1 /\ (q + 1) * b = delay + b
    BY <1>1, <1>2, <1>4
  <2> QED
    BY <2>1, <2>2
<1> QED
  BY <1>3, <1>4

\* What is made has read nothing.
LEMMA NewReader ==
    ASSUME NEW o \in DspObjects, NEW a \in Arguments[o]
    PROVE  LET d == NewObject(o, a)
           IN  /\ Kind[o] = "sig~" => LevelIsGiven(d)
               /\ Kind[o] \in TableReaders => TableReaderKnown(d)
               /\ /\ Kind[o] \in LineReaders
                  /\ Kind[o] = "delread~" => a[1] \in Nat
                  => LineReaderKnown(o, d)
PROOF
<1> DEFINE d == NewObject(o, a)
<1>1. DOMAIN zeros = Part(0, BlockSize) /\ \A k \in Part(0, BlockSize) : zeros[k] = 0
  BY DEF zeros
<1>2. Kind[o] = "sig~" => LevelIsGiven(d)
  <2> SUFFICES ASSUME Kind[o] = "sig~"
               PROVE  LevelIsGiven(d)
    OBVIOUS
  <2>1. d = NewDspSignal(a, zeros)
    BY DEF NewObject
  <2>2. ArgumentOr(a, 1, 0) \in Int
    BY SignalAssumption DEF ArgumentOr
  <2> QED
    BY <1>1, <2>1, <2>2 DEF NewDspSignal, LevelIsGiven, HasBuffer
<1>3. Kind[o] \in TableReaders => TableReaderKnown(d)
  <2> SUFFICES ASSUME Kind[o] \in TableReaders
               PROVE  TableReaderKnown(d)
    OBVIOUS
  <2>1. d = NewDspTableRead(zeros)
    BY DEF NewObject, NewDspTableRead4, TableReaders
  <2> QED
    BY <1>1, <2>1 DEF NewDspTableRead, TableReaderKnown, HasBuffer
<1>4. ASSUME Kind[o] \in LineReaders, Kind[o] = "delread~" => a[1] \in Nat
      PROVE  LineReaderKnown(o, d)
  <2>1. CASE Kind[o] = "delread~"
    <3>1. d = NewDspDelayRead(a, zeros)
      BY <2>1 DEF NewObject
    <3> QED
      BY <1>1, <1>4, <2>1, <3>1 DEF NewDspDelayRead, LineReaderKnown, HasBuffer
  <2>2. CASE Kind[o] = "vd~"
    <3>1. d = NewDspVariableDelay(zeros)
      BY <2>2 DEF NewObject
    <3> QED
      BY <1>1, <2>2, <3>1 DEF NewDspVariableDelay, LineReaderKnown, HasBuffer
  <2> QED
    BY <1>4, <2>1, <2>2 DEF LineReaders
<1> QED
  BY <1>2, <1>3, <1>4

\* A line that nothing was written to holds what there was before the start.
LEMMA LineIsNew ==
    ASSUME NEW o, Kind[o] = "delwrite~", NEW a, a[1] \in Nat
    PROVE  Holds(NewObject(o, a), 0)
PROOF
<1> DEFINE n == bufferLengthFor(a[1], BlockSize)
           buffer == [i \in 0 .. n |-> 0]
           d == NewObject(o, a)
<1>1. BlockSize \in Nat \ {0}
  BY DspAssumption
<1>2. PICK j \in Nat : /\ n = j * BlockSize /\ 0 < j
                       /\ a[1] + BlockSize <= j * BlockSize
                       /\ j * BlockSize \in Nat
  BY <1>1, BufferFits
<1>3. n \in Nat /\ a[1] + BlockSize <= n
  BY <1>2
<1>4. d = [lets |-> <<0, 1, 0, 0>>, functions |-> <<"signal", "default">>,
           bufferLength |-> n, headIndex |-> 0, delay |-> a[1],
           buffer |-> buffer]
  BY DEF NewObject, NewDspDelayWrite
<1>5. /\ \A i \in 0 .. n - 1 :
             buffer[i] = Host(0 - 0 + i - (IF i < 0 THEN 0 ELSE n))
      /\ buffer[n] = buffer[0] /\ DOMAIN buffer = 0 .. n
  BY <1>3 DEF Host
<1>6. 0 = 0 * BlockSize
  BY <1>1
<1> HIDE DEF n, buffer, d
<1>7. /\ d.headIndex = 0 /\ d.bufferLength = n /\ d.delay = a[1]
      /\ d.buffer = buffer
      /\ d = [f \in {"lets", "functions", "bufferLength", "headIndex", "delay",
                     "buffer"} |-> d[f]]
  BY <1>4
<1>8. \E i, k \in Nat : /\ d.headIndex = i * BlockSize
                       /\ d.bufferLength = k * BlockSize /\ i < k
  BY <1>2, <1>6, <1>7
<1>9. \A i \in 0 .. d.bufferLength - 1 :
          d.buffer[i] = Host(0 - d.headIndex + i
                                 - (IF i < d.headIndex THEN 0
                                    ELSE d.bufferLength))
  BY <1>5, <1>7
<1>10. Holds(d, 0)
  BY <1>3, <1>5, <1>7, <1>8, <1>9 DEF Holds
<1> QED
  BY <1>10 DEF d

LEMMA InitRead ==
    ASSUME DelayLinesHearTheHost, Init
    PROVE  ReadInvariant
PROOF
<1>1. /\ patch \in Patches /\ rendered = [o \in patch |-> <<>>]
      /\ messageQueue = [o \in patch |-> <<>>]
      /\ blockStartTimestamp = 0 /\ turn = 1
      /\ processFunction =
             [o \in patch |-> IF o \in Handles THEN "noMessage" ELSE "other"]
      /\ tableLength \in Nat \ {0} /\ patch \subseteq DspObjects
  BY SignalAssumption, DspAssumption DEF Init, DspInit
<1>2. PICK arguments \in [patch -> UNION Range(Arguments)] :
          /\ \A o \in patch : arguments[o] \in Arguments[o]
          /\ signal = [o \in patch |-> NewObject(o, arguments[o])]
  BY DEF Init
<1>3. BlocksAtSamples
  <2>1. 0 = 0 * TicksPerSample /\ 0 \in Nat
    BY DspAssumption
  <2> QED
    BY <1>1, <2>1 DEF BlocksAtSamples
<1>4. OthersAreOther
  BY <1>1 DEF OthersAreOther
<1>5. NumbersWait
  <2>1. \A i \in 1 .. Len(<<>>) : FALSE
    OBVIOUS
  <2> QED
    BY <1>1, <2>1 DEF NumbersWait
<1>6. ReadersKnown
  <2>1. ASSUME NEW o \in patch
        PROVE  /\ Kind[o] = "sig~" => LevelIsGiven(signal[o])
               /\ Kind[o] \in TableReaders => TableReaderKnown(signal[o])
               /\ Kind[o] \in LineReaders => LineReaderKnown(o, signal[o])
    BY <1>1, <1>2, NewReader DEF DelayLinesHearTheHost
  <2> QED
    BY <1>1, <2>1 DEF ReadersKnown
<1>7. LineHolds
  <2> SUFFICES ASSUME LineRead, NEW w \in patch, Kind[w] = "delwrite~"
               PROVE  Holds(signal[w], WrittenTo(w))
    BY DEF LineHolds
  <2>1. arguments[w][1] \in Nat
    BY <1>1, TheLine, <1>2
  <2>2. Holds(signal[w], 0)
    BY <1>2, <2>1, LineIsNew
  <2>3. WrittenTo(w) = 0
    BY <1>1, DspAssumption DEF Passed, blockStart, WrittenTo
  <2> QED
    BY <2>2, <2>3
<1>8. ReadSoFar
  <2>1. \A k \in Part(0, 0) : FALSE
    BY DEF Part
  <2> QED
    BY <1>1, <2>1 DEF ReadSoFar, RightSoFar, EndOf
<1> QED
  BY <1>3, <1>4, <1>5, <1>6, <1>7, <1>8 DEF ReadInvariant

\* When the graph has run, what was said of what is read so far holds of blocks.
LEMMA ReadIsRead ==
    ASSUME ServedSoFar, ReadInvariant, RanSoFar
    PROVE  ReadsAtItsPlace
PROOF
<1>1. /\ patch \in Patches /\ turn \in Int /\ Len(nodes) \in Nat
      /\ \A o \in patch : \E i \in 1 .. Len(nodes) : nodes[i] = o
  BY NodesOfPatch DEF ServedSoFar, DspTyped
<1>2. ASSUME NEW kinds, NEW o \in Done(kinds), NEW k \in DOMAIN zeros
      PROVE  /\ Kind[o] \in kinds
             /\ Kind[o] \in TableReaders => RightFromTable(o, k)
             /\ Kind[o] \in LineReaders => RightFromLine(o, k)
  <2>1. /\ phase = "dsp" /\ turn > Len(nodes) /\ ~ lost
        /\ o \in patch \ (late \cup Fed) /\ Kind[o] \in kinds /\ Runs(o)
    BY DEF Done
  <2>2. PICK i \in 1 .. turn - 1 : nodes[i] = o
    BY <1>1, <2>1
  <2>3. EndOf(rendered[o]) = BlockSize
    <3>1. rendered[o] # <<>>
      BY <2>1, <2>2 DEF RanSoFar
    <3>2. Last(rendered[o]).to = BlockSize
      BY <2>1, <2>2 DEF ServedSoFar, Tiled, PartsTileBlock
    <3> QED
      BY <3>1, <3>2 DEF EndOf
  <2>4. RightSoFar(o)
    BY <2>1 DEF ReadInvariant, ReadSoFar
  <2> QED
    BY <2>1, <2>3, <2>4 DEF RightSoFar, zeros
<1>3. DelaysByItsTime
  BY <1>2 DEF DelaysByItsTime, RightFromLine, LineReaders
<1>4. VariesTheDelay
  BY <1>2 DEF VariesTheDelay, LineReaders, RightFromLine
<1>5. TableReadsInside
  <2> SUFFICES ASSUME NEW o \in Done({"tabread~", "tabread4~"}),
                      NEW k \in DOMAIN zeros, seen[o].setBy[k][2]
               PROVE  IsAtPlace(o, Out(o)[k],
                                Inlets(o)[1][k] + seen[o].setBy[k][1])
    BY DEF TableReadsInside, IsAtPlace
  <2>1. Kind[o] \in TableReaders /\ RightFromTable(o, k)
    BY <1>2 DEF TableReaders
  <2> QED
    BY <2>1 DEF RightFromTable
<1> QED
  BY <1>3, <1>4, <1>5 DEF ReadsAtItsPlace

\* A delread~ and a vd~ hear the line as it was written their delay ago, at
\* every sample and between two, wherever the buffer's head is, whether they run
\* before the delwrite~ or after it and whatever blocks went before; and what a
\* tabread~ and a tabread4~ give is in the table at the place they are given,
\* whatever its length, and the first or the last of it outside.  This holds of
\* any patch in which an object feeds and is heard by those after it, whose line
\* is one and written in every block, and whose places are given by the host or
\* by numbers (DspDelayRead, DspDelayWrite, DspVariableDelay, DspTableRead and
\* DspTableRead4).
THEOREM ReadsCorrect ==
    ASSUME FeedsOnward, HearsBefore, PlacesAreGiven, DelayLinesHearTheHost
    PROVE  Spec => []ReadsAtItsPlace
PROOF
<1> DEFINE Read == /\ ServedSoFar /\ HeardInvariant /\ RanSoFar
                   /\ ReadInvariant
<1>1. Init => Read
  <2>1. Init => RanSoFar
    BY DEF Init, DspInit, RanSoFar
  <2> QED
    BY <2>1, InitServed, InitHeard, InitRead
<1>2. Read /\ [Next]_vars => Read'
  BY NextServed, NextHeard, NextRan, NextRead
<1>3. Read => ReadsAtItsPlace
  BY ReadIsRead
<1> QED
  BY <1>1, <1>2, <1>3, PTL DEF Spec

-----------------------------------------------------------------------------
(***************************************************************************)
(* Courses.  d is an object's record, m what is seen of it, n how much of  *)
(* the block it has rendered and t the time at which the block starts.     *)
(***************************************************************************)

Path == [start : Int, target : Int, t0 : Int, length : Nat, stopped : BOOLEAN,
         whole : BOOLEAN]

\* Where a ramp stands at time t: as many samples are left as of its course,
\* and if it can be told it is where its course is.
IsOnRamp(d, path, t, told) ==
    LET left == d.numSamplesToTarget
    IN  /\ path.t0 <= t /\ left \in Nat
        /\ left > 0 =>
               /\ path.t0 + path.length = t + left
               /\ d.target = path.target
        /\ left = 0 => path.t0 + path.length <= t
        /\ told => d.lastOutputSample = PathAt(path, t)
        /\ told /\ left > 0 =>
               /\ d.slope \in Int
               /\ d.slope * path.length = path.target - path.start

LineOnCourse(d, m, n, t) ==
    /\ HasBuffer(d) /\ m.path \in Path
    /\ {"target", "slope", "numSamplesToTarget", "lastOutputSample"}
           \subseteq DOMAIN d
    /\ d.target = m.path.target
    /\ IsOnRamp(d, m.path, t + n, m.path.whole)
    /\ \A k \in Part(0, n) :
           m.setBy[k].whole => d.out[k] = PathAt(m.setBy[k], t + k)

\* A sample of a vline~.
Arrives(b, m, k, z, t) ==
    \/ z = PathAt(m.setBy[k], t)
    \/ /\ b # "plain" \/ m.disturbed \/ ~ m.setBy[k].whole
       /\ \/ m.setBy[k].stopped
          \/ t < m.setBy[k].t0 + m.setBy[k].length

VariableLineOnCourse(b, d, m, n, t) ==
    /\ HasBuffer(d) /\ m.path \in Path
    /\ {"target", "slope", "numSamplesToTarget", "lastOutputSample"}
           \subseteq DOMAIN d
    /\ IsOnRamp(d, m.path, t + n, b = "plain" /\ ~ m.disturbed /\ m.path.whole)
    /\ d.numSamplesToTarget = 0 /\ ~ m.path.stopped =>
           d.lastOutputSample = m.path.target
    /\ \A k \in Part(0, n) : Arrives(b, m, k, d.out[k], t + k)

OscOnCourse(d, m, n, t, eights) ==
    LET end == BlockSize - 1
        next == (m.before.out[end] + m.before.setBy[end]) % Word
        linked == t > 0 /\ m.before.whole
    IN  /\ HasBuffer(d) /\ {"index", "constant"} \subseteq DOMAIN d
        /\ d.index \in 0 .. Word - 1 /\ d.constant \in Int
        /\ eights /\ n % 8 = 0 =>
               /\ \A k \in 1 .. n - 1 :
                      d.out[k] = (d.out[k - 1] + m.setBy[k - 1]) % Word
               /\ linked => IF n > 0 THEN d.out[0] = next ELSE d.index = next
               /\ n > 0 => d.index = (d.out[n - 1] + m.setBy[n - 1]) % Word

PhasorOnCourse(d, m, n, fours) ==
    LET next(l) == (m.before.out[BlockSize - 4 + l]
                        + 4 * m.before.setBy[BlockSize - 4 + l]) % Word
        linked == m.before.ran /\ m.before.whole
    IN  /\ HasBuffer(d) /\ {"indicies", "constant"} \subseteq DOMAIN d
        /\ d.indicies \in [0 .. 3 -> 0 .. Word - 1] /\ d.constant \in Int
        /\ fours /\ n % 4 = 0 =>
               /\ \A k \in 4 .. n - 1 :
                      d.out[k] = (d.out[k - 4] + 4 * m.setBy[k - 4]) % Word
               /\ \A l \in 0 .. 3 :
                      /\ linked => IF n > 0 THEN d.out[l] = next(l)
                                            ELSE d.indicies[l] = next(l)
                      /\ n > 0 => d.indicies[l] =
                             (d.out[n - 4 + l] + 4 * m.setBy[n - 4 + l]) % Word

PhasorHearsItsInlet(d, m, n, x) ==
    LET end == BlockSize - 1
        linked == m.before.ran /\ m.before.whole
    IN  /\ HasBuffer(d) /\ "indicies" \in DOMAIN d
        /\ n = 0 /\ linked => d.indicies[3] = m.before.out[end]
        /\ n > 0 => /\ d.indicies[3] = d.out[end]
                    /\ \A k \in 1 .. end :
                           d.out[k] = (d.out[k - 1] + x[k]) % Word
                    /\ linked =>
                           d.out[0] = (m.before.out[end] + x[0]) % Word

\* A sample of a filter's output, of the block before too.
OutputOf(d, m, k) == IF k < 0 THEN m.before.out[BlockSize + k] ELSE d.out[k]

FilterOnCourse(d, m, n, t) ==
    /\ HasBuffer(d) /\ {"x1", "x2", "y1", "y2", "constant"} \subseteq DOMAIN d
    /\ ~ m.disturbed =>
           /\ d.x1 = Host(t + n - 1) /\ d.x2 = Host(t + n - 2)
           /\ d.y1 = OutputOf(d, m, n - 1) /\ d.y2 = OutputOf(d, m, n - 2)
           /\ \A k \in Part(0, n) :
                  LET b == m.setBy[k]
                  IN  d.out[k] = b[1] * Host(t + k) + b[2] * Host(t + k - 1)
                                   + b[3] * Host(t + k - 2)
                                   - b[4] * OutputOf(d, m, k - 1)
                                   - b[5] * OutputOf(d, m, k - 2)

\* A count of blocks that goes from its start again at w, at time t.
CountsTo(i, w, t, b) ==
    \E j, q \in Nat : i = j * b /\ i < w /\ t = q * w + i

\* What the host gave in the w samples up to time h.
HostSince(w, h) == {Host(u) : u \in Part(h - w, h)}

\* The fields of an env~.
EnvelopeFields ==
    {"lets", "functions", "windowSize", "windowInterval", "numSamplesReceived",
     "numSamplesReceivedSinceLastInterval", "signalBuffer", "report"}

\* The window of an env~ whose window and interval are of whole blocks.
EnvelopeHears(window, interval, i, since, buffer, report, n, heard) ==
    /\ BlockSize <= window /\ BlockSize <= interval
    /\ DOMAIN buffer = Part(0, window)
    /\ CountsTo(i, window, heard, BlockSize)
    /\ CountsTo(since, interval, heard, BlockSize)
    /\ \A k \in Part(0, i) : buffer[k] = Host(heard - i + k)
    /\ heard >= window =>
           \A k \in Part(i, window) : buffer[k] = Host(heard - i - window + k)
    /\ n > 0 => /\ report # {} <=> since = 0
                /\ report # {} /\ heard >= window =>
                       report = HostSince(window, heard)

EnvelopeOnCourse(d, n, t) ==
    /\ d = [f \in EnvelopeFields |-> d[f]]
    /\ d.windowSize \in Int /\ d.windowInterval \in Int
    /\ d.windowSize % BlockSize = 0 /\ d.windowInterval % BlockSize = 0 =>
           EnvelopeHears(d.windowSize, d.windowInterval, d.numSamplesReceived,
                         d.numSamplesReceivedSinceLastInterval,
                         d.signalBuffer, d.report, n, t + n)

\* All parts so far began at multiples of so many samples.
InSteps(o, step) ==
    \A i \in DOMAIN rendered[o] : rendered[o][i].from % step = 0

\* What there is to say of an object, d, m, n and t as above, of which x is at
\* the inlet and eights and fours say that its parts began at multiples of those.
OnCourseOf(o, b, d, m, n, t, eights, fours, x) ==
    /\ Kind[o] = "line~" => LineOnCourse(d, m, n, t)
    /\ Kind[o] = "vline~" => VariableLineOnCourse(b, d, m, n, t)
    /\ Kind[o] = "osc~" => OscOnCourse(d, m, n, t, eights)
    /\ Kind[o] = "phasor~" =>
           IF SourcesOf[o][1] = Silent THEN PhasorOnCourse(d, m, n, fours)
                                       ELSE PhasorHearsItsInlet(d, m, n, x)
    /\ Kind[o] \in Filters => FilterOnCourse(d, m, n, t)
    /\ Kind[o] = "env~" => EnvelopeOnCourse(d, n, t)

OnCourse(o) ==
    OnCourseOf(o, build, signal[o], seen[o], EndOf(rendered[o]), blockStart,
               InSteps(o, 8), InSteps(o, 4), Inlets(o)[1])

\* What waits at objects that no other feeds was told from outside.
ToldFromOutside ==
    \A o \in patch \ Fed : \A i \in 1 .. Len(messageQueue[o]) :
        messageQueue[o][i].message \in MessagesTo[o]

CoursesSoFar ==
    ~ lost => \A o \in patch \ Fed : Kind[o] \in Courses => OnCourse(o)

\* What does not handle messages computes blocks.
WholeBlocks ==
    \A o \in patch \ Handles :
        rendered[o] # <<>> => EndOf(rendered[o]) = BlockSize

CourseInvariant ==
    /\ BlocksAtSamples /\ OthersAreOther /\ NumbersWait
    /\ ToldFromOutside /\ ServedOnTime /\ WholeBlocks
    /\ LevelsKnown /\ CoursesSoFar

\* A ramp of whole steps, n samples on.
LEMMA RampGoesOn ==
    ASSUME NEW d, NEW path \in Path, NEW t \in Int,
           IsOnRamp(d, path, t, TRUE), d.numSamplesToTarget > 0,
           NEW n \in 0 .. d.numSamplesToTarget
    PROVE  /\ RampAt(d, n) = PathAt(path, t + n)
           /\ RampAt(d, n) \in Int
PROOF
<1> DEFINE a == path.start
           b == path.target
           u == path.t0
           l == path.length
           s == d.slope
           left == d.numSamplesToTarget
           x == d.lastOutputSample
<1>1. /\ a \in Int /\ b \in Int /\ u \in Int /\ l \in Nat /\ s \in Int
      /\ left \in Nat /\ left > 0 /\ u <= t /\ u + l = t + left
      /\ x = PathAt(path, t) /\ s * l = b - a
      /\ n \in 0 .. left
  BY DEF IsOnRamp, Path
<1>2. \A v : PathAt(path, v) = IF v >= u + l THEN b
                               ELSE a + ((b - a) * (v - u)) \div l
  BY DEF PathAt
<1>3. RampAt(d, n) = x + n * s
  BY DEF RampAt
<1> HIDE DEF a, b, u, l, s, left, x
<1>4. ASSUME NEW w \in Nat
      PROVE  l > 0 => (b - a) * w = (s * w) * l /\ ((s * w) * l) \div l = s * w
  BY <1>1
<1>5. ASSUME NEW v \in Int, u <= v, v < u + l
      PROVE  PathAt(path, v) = a + s * (v - u)
  <2>1. v - u \in Nat /\ l > 0
    BY <1>1, <1>5
  <2>2. ((b - a) * (v - u)) \div l = s * (v - u)
    BY <1>4, <2>1
  <2> QED
    BY <1>1, <1>2, <1>5, <2>2
<1>6. x = a + s * (t - u)
  BY <1>1, <1>5
<1>7. s * (t - u) + n * s = s * (t + n - u)
  BY <1>1
<1>8. x + n * s = a + s * (t + n - u)
  BY <1>1, <1>6, <1>7
<1>9. CASE n < left
  BY <1>1, <1>3, <1>5, <1>8, <1>9
<1>10. CASE n = left
  <2>1. t + n - u = l /\ t + n >= u + l
    BY <1>1, <1>10
  <2>2. x + n * s = b
    BY <1>1, <1>8, <2>1
  <2> QED
    BY <1>1, <1>2, <1>3, <2>1, <2>2
<1>11. x + n * s \in Int
  <2>1. s * (t + n - u) \in Int
    BY <1>1
  <2> QED
    BY <1>1, <1>8, <2>1
<1> QED
  BY <1>1, <1>3, <1>9, <1>10, <1>11

\* After its last sample it is at its target.
LEMMA PathEnds ==
    ASSUME NEW path, NEW t, t >= path.t0 + path.length
    PROVE  PathAt(path, t) = path.target
PROOF
  BY DEF PathAt

Ramping == {"target", "slope", "numSamplesToTarget", "lastOutputSample"}

\* A part of a line~.
LEMMA LinePart ==
    ASSUME NEW b, NEW d, NEW m, NEW w, NEW t \in Int, NEW from \in Nat,
           NEW to \in Int, from <= to, to <= BlockSize,
           LineOnCourse(d, m, from, t),
           w.path = m.path,
           w.setBy = [k \in Part(0, BlockSize) |->
                         IF k \in Part(from, to) THEN m.path ELSE m.setBy[k]]
    PROVE  LineOnCourse(DspLine(b, d, from, to), w, to, t)
PROOF
<1> DEFINE p == m.path
           left == d.numSamplesToTarget
           n == to - from
           e == DspLine(b, d, from, to)
           atRest == [k \in DOMAIN d.out |->
                         IF k \in Part(from, to) THEN d.target ELSE d.out[k]]
           arriving == [k \in DOMAIN d.out |->
                  IF k \notin Part(from, to) THEN d.out[k]
                  ELSE IF k < from + left THEN RampAt(d, k - from)
                  ELSE d.target]
           onTheWay == [k \in DOMAIN d.out |->
                  IF k \in Part(from, to) THEN RampAt(d, k - from) ELSE d.out[k]]
<1>1. /\ HasBuffer(d) /\ Ramping \subseteq DOMAIN d /\ p \in Path
      /\ d.target = p.target /\ IsOnRamp(d, p, t + from, p.whole)
      /\ \A k \in Part(0, from) :
             m.setBy[k].whole => d.out[k] = PathAt(m.setBy[k], t + k)
      /\ DOMAIN d.out = Part(0, BlockSize)
  BY DEF LineOnCourse, HasBuffer, Ramping
<1>2. /\ left \in Nat /\ p.t0 \in Int /\ p.length \in Nat /\ p.target \in Int
      /\ p.t0 <= t + from
      /\ left > 0 => p.t0 + p.length = t + from + left
      /\ left = 0 => p.t0 + p.length <= t + from
      /\ p.whole \in BOOLEAN /\ BlockSize \in Nat
  BY <1>1, DspAssumption DEF IsOnRamp, Path
<1>3. e = IF n <= 0 THEN d
          ELSE IF left <= 0
          THEN [d EXCEPT !.out = atRest, !.lastOutputSample = d.target]
          ELSE IF left < n
          THEN [d EXCEPT !.out = arriving, !.lastOutputSample = d.target,
                         !.numSamplesToTarget = 0]
          ELSE [d EXCEPT !.out = onTheWay, !.lastOutputSample = RampAt(d, n),
                         !.numSamplesToTarget = left - n]
  BY <1>1 DEF DspLine, fill
<1>4. ASSUME p.whole, left > 0, NEW j \in 0 .. left
      PROVE  RampAt(d, j) = PathAt(p, t + from + j)
  <2> SUFFICES ASSUME NEW u \in Int, u = t + from
               PROVE  RampAt(d, j) = PathAt(p, u + j)
    OBVIOUS
  <2>1. IsOnRamp(d, p, u, TRUE)
    BY <1>1, <1>4 DEF IsOnRamp
  <2>2. p \in Path /\ d.numSamplesToTarget > 0 /\ j \in 0 .. d.numSamplesToTarget
    BY <1>1, <1>4
  <2> HIDE DEF p, left
  <2> QED
    BY <2>1, <2>2, RampGoesOn
<1> HIDE DEF e
\* The samples.
<1>5. ASSUME NEW k \in Part(0, to)
      PROVE  w.setBy[k].whole => e.out[k] = PathAt(w.setBy[k], t + k)
  <2>1. k \in Int /\ 0 <= k /\ k < to /\ k \in Part(0, BlockSize)
    BY <1>2 DEF Part
  <2>2. CASE k < from
    <3>1. k \in Part(0, from) /\ k \notin Part(from, to)
      BY <2>1, <2>2 DEF Part
    <3>2. w.setBy[k] = m.setBy[k]
      BY <2>1, <3>1
    <3>3. e.out[k] = d.out[k]
      BY <1>1, <1>3, <2>1, <3>1 DEF HasBuffer, Ramping
    <3> QED
      BY <1>1, <3>1, <3>2, <3>3
  <2>3. CASE from <= k
    <3>1. k \in Part(from, to) /\ w.setBy[k] = p /\ n > 0
      BY <2>1, <2>3 DEF Part
    <3>2. e.out[k] = IF left > 0 /\ k < from + left THEN RampAt(d, k - from)
                     ELSE p.target
      <4>1. CASE left <= 0
        BY <1>1, <1>2, <1>3, <2>1, <3>1, <4>1 DEF HasBuffer, Ramping
      <4>2. CASE left > 0 /\ left < n
        BY <1>1, <1>2, <1>3, <2>1, <3>1, <4>2 DEF HasBuffer, Ramping
      <4>3. CASE left > 0 /\ left >= n
        <5>1. k < from + left
          BY <1>2, <2>1, <4>3
        <5> QED
          BY <1>1, <1>2, <1>3, <2>1, <3>1, <4>3, <5>1 DEF HasBuffer, Ramping
      <4> QED
        BY <1>2, <4>1, <4>2, <4>3
    <3>3. CASE left > 0 /\ k < from + left
      BY <1>2, <2>1, <2>3, <3>3, <1>4, <3>1, <3>2
    <3>4. CASE ~ (left > 0 /\ k < from + left)
      <4>1. t + k >= p.t0 + p.length
        BY <1>2, <2>1, <2>3, <3>4
      <4> QED
        BY <3>1, <3>2, <3>4, <4>1, PathEnds
    <3> QED
      BY <3>3, <3>4
  <2> QED
    BY <1>2, <2>1, <2>2, <2>3
\* Where it stands.
<1>6. /\ HasBuffer(e) /\ Ramping \subseteq DOMAIN e /\ e.target = d.target
      /\ e.slope = d.slope
  BY <1>1, <1>3 DEF HasBuffer, Ramping
<1>7. IsOnRamp(e, p, t + to, p.whole)
  <2>1. CASE n <= 0
    <3>1. e = d /\ to = from
      BY <1>2, <1>3, <2>1
    <3> QED
      BY <1>1, <3>1
  <2>2. CASE n > 0 /\ left <= n
    <3>1. e.numSamplesToTarget = 0 /\ p.t0 + p.length <= t + to
          /\ p.t0 <= t + to
      BY <1>1, <1>2, <1>3, <2>2 DEF HasBuffer, Ramping
    <3>2. p.whole => e.lastOutputSample = p.target
      <4>1. CASE left < n
        BY <1>1, <1>2, <1>3, <2>2, <4>1 DEF HasBuffer, Ramping
      <4>2. CASE left = n
        <5>1. e.lastOutputSample = RampAt(d, n)
          BY <1>1, <1>2, <1>3, <2>2, <4>2 DEF HasBuffer, Ramping
        <5>2. n \in 0 .. left /\ left > 0 /\ t + from + n = t + to
          BY <1>2, <2>2, <4>2
        <5>3. p.whole => RampAt(d, n) = PathAt(p, t + to)
          BY <1>4, <5>2
        <5> QED
          BY <3>1, <5>1, <5>3, PathEnds
      <4> QED
        BY <1>2, <2>2, <4>1, <4>2
    <3>3. PathAt(p, t + to) = p.target
      BY <3>1, PathEnds
    <3> QED
      BY <3>1, <3>2, <3>3 DEF IsOnRamp
  <2>3. CASE n > 0 /\ left > n
    <3>1. /\ e.numSamplesToTarget = left - n /\ left - n \in Nat /\ left - n > 0
          /\ p.t0 <= t + to /\ p.t0 + p.length = t + to + (left - n)
          /\ e.lastOutputSample = RampAt(d, n)
      BY <1>1, <1>2, <1>3, <2>3 DEF HasBuffer, Ramping
    <3>2. n \in 0 .. left /\ left > 0 /\ t + from + n = t + to
      BY <1>2, <2>3
    <3>3. p.whole => RampAt(d, n) = PathAt(p, t + to)
      BY <1>4, <3>2
    <3>4. p.whole => d.slope \in Int /\ d.slope * p.length = p.target - p.start
      BY <1>1, <3>2 DEF IsOnRamp
    <3> QED
      BY <1>1, <1>6, <3>1, <3>3, <3>4 DEF IsOnRamp
  <2> QED
    BY <1>2, <2>1, <2>2, <2>3
<1> QED
  BY <1>1, <1>5, <1>6, <1>7 DEF LineOnCourse, e, Ramping

\* A course is of whole numbers.
LEMMA PathIsInt ==
    ASSUME NEW path \in Path, NEW t \in Int, path.t0 <= t
    PROVE  PathAt(path, t) \in Int
PROOF
<1> DEFINE a == path.start
           b == path.target
           u == path.t0
           l == path.length
<1>1. a \in Int /\ b \in Int /\ u \in Int /\ l \in Nat /\ u <= t
  BY DEF Path
<1>2. PathAt(path, t) = IF t >= u + l THEN b
                        ELSE a + ((b - a) * (t - u)) \div l
  BY DEF PathAt
<1> HIDE DEF a, b, u, l
<1>3. l > 0 => ((b - a) * (t - u)) \div l \in Int
  <2>1. (b - a) * (t - u) \in Int
    BY <1>1
  <2> QED
    BY <1>1, <2>1
<1> QED
  BY <1>1, <1>2, <1>3

\* What a message asks for.
LEMMA FloatsAreInts ==
    ASSUME NEW message, message.floats \in Seq(Int)
    PROVE  /\ Len(message.floats) \in Nat
           /\ message.floats = <<>> <=> Len(message.floats) = 0
           /\ \A i \in 1 .. Len(message.floats) : message.floats[i] \in Int
           /\ ArgumentOr(message.floats, 2, 0) \in Int
PROOF
  BY DEF ArgumentOr

\* A path is one.
LEMMA PathOf ==
    ASSUME NEW a \in Int, NEW b \in Int, NEW t \in Int, NEW l \in Nat,
           NEW stopped \in BOOLEAN, NEW whole \in BOOLEAN
    PROVE  [start |-> a, target |-> b, t0 |-> t, length |-> l,
            stopped |-> stopped, whole |-> whole] \in Path
PROOF
  BY DEF Path

\* A new ramp, of whole steps.
LEMMA RampBegins ==
    ASSUME NEW path \in Path, NEW t \in Int, path.t0 = t,
           NEW d, d.numSamplesToTarget = path.length, d.target = path.target,
           NEW told,
           path.length = 0 /\ told => d.lastOutputSample = path.target,
           path.length > 0 /\ told =>
               /\ d.lastOutputSample = path.start
               /\ d.slope = (path.target - path.start) \div path.length
               /\ (path.target - path.start) % path.length = 0
    PROVE  IsOnRamp(d, path, t, told)
PROOF
<1> DEFINE a == path.start
           b == path.target
           l == path.length
<1>1. a \in Int /\ b \in Int /\ l \in Nat
  BY DEF Path
<1>2. PathAt(path, t) = IF t >= t + l THEN b ELSE a + ((b - a) * (t - t)) \div l
  BY DEF PathAt
<1>3. CASE l = 0
  BY <1>1, <1>2, <1>3 DEF IsOnRamp
<1>4. CASE l > 0
  <2>1. PathAt(path, t) = a
    BY <1>1, <1>4, <1>2
  <2>2. told => d.slope \in Int /\ d.slope * l = b - a
    BY <1>1, <1>4 DEF a, b, l
  <2> QED
    BY <1>1, <1>4, <2>1, <2>2 DEF IsOnRamp
<1> QED
  BY <1>1, <1>3, <1>4

\* A message to a line~.
LEMMA LineTold ==
    ASSUME NEW o, Kind[o] = "line~", NEW d, NEW m, NEW w, NEW n \in Nat,
           NEW t \in Int, NEW u \in Int, u = t + n,
           NEW message, message.floats \in Seq(Int),
           LineOnCourse(d, m, n, t),
           w.path = NewPath(o, m.path, message, u), w.setBy = m.setBy
    PROVE  LineOnCourse(TakesRamp(d, message), w, n, t)
PROOF
<1> DEFINE p == m.path
           e == TakesRamp(d, message)
           f == message.floats
           here == PathAt(p, u)
           l == rampInSamples(f[2])
<1>1. /\ HasBuffer(d) /\ Ramping \subseteq DOMAIN d /\ p \in Path
      /\ d.target = p.target /\ IsOnRamp(d, p, u, p.whole)
      /\ \A k \in Part(0, n) :
             m.setBy[k].whole => d.out[k] = PathAt(m.setBy[k], t + k)
  BY DEF LineOnCourse, Ramping
<1>2. /\ Len(f) \in Nat /\ (f = <<>> <=> Len(f) = 0)
      /\ \A i \in 1 .. Len(f) : f[i] \in Int
  BY FloatsAreInts
<1>3. here \in Int
  BY <1>1, PathIsInt DEF IsOnRamp
<1>4. CASE message.inlet # 0 \/ f = <<>>
  <2>1. e = d /\ w.path = p
    BY <1>4 DEF TakesRamp, NewPath
  <2> QED
    BY <1>1, <2>1 DEF LineOnCourse, Ramping
<1>5. ASSUME ~ (message.inlet # 0 \/ f = <<>>)
      PROVE  /\ HasBuffer(e) /\ Ramping \subseteq DOMAIN e /\ e.out = d.out
             /\ w.path \in Path /\ e.target = w.path.target
             /\ IsOnRamp(e, w.path, u, w.path.whole)
  <2>1. f[1] \in Int /\ Len(f) > 0
    BY <1>2, <1>5
  <2>2. CASE Len(f) = 1
    <3>1. w.path = [start |-> here, target |-> f[1], t0 |-> u, length |-> 0,
                    stopped |-> FALSE, whole |-> TRUE]
      BY <1>5, <2>2 DEF NewPath, PathLength
    <3>2. w.path \in Path
      <4> HIDE DEF here, f
      <4>1. 0 \in Nat /\ FALSE \in BOOLEAN /\ TRUE \in BOOLEAN
        OBVIOUS
      <4> QED
        BY <1>3, <2>1, <3>1, <4>1, PathOf, ZenonT(60)
    <3>3. e = [d EXCEPT !.target = f[1], !.slope = 0, !.lastOutputSample = f[1],
                        !.numSamplesToTarget = 0]
      BY <1>5, <2>2 DEF TakesRamp
    <3>4. /\ HasBuffer(e) /\ Ramping \subseteq DOMAIN e /\ e.out = d.out
          /\ e.target = f[1] /\ e.lastOutputSample = f[1]
          /\ e.numSamplesToTarget = 0
      BY <1>1, <3>3 DEF HasBuffer, Ramping
    <3> HIDE DEF e, here, f
    <3>5. IsOnRamp(e, w.path, u, w.path.whole)
      BY <1>3, <3>1, <3>2, <3>4, RampBegins
    <3> QED
      BY <3>1, <3>2, <3>4, <3>5
  <2>3. CASE Len(f) # 1
    <3>1. ArgumentOr(f, 2, 0) = f[2] /\ f[2] \in Int
      <4> HIDE DEF f
      <4> SUFFICES ASSUME NEW j \in Nat, j = Len(f)
                   PROVE  ArgumentOr(f, 2, 0) = f[2] /\ f[2] \in Int
        BY <1>2
      <4>1. j >= 2 /\ 2 \in 1 .. j
        BY <2>1, <2>3
      <4> QED
        BY <1>2, <4>1 DEF ArgumentOr
    <3>2. l \in Nat /\ l > 0
      <4>1. \A s \in Nat \ {0} : \A i \in Nat \ {0} : s * i \in Nat /\ s * i > 0
        OBVIOUS
      <4>2. (IF f[2] < 1 THEN 1 ELSE f[2]) \in Nat \ {0}
        BY <3>1
      <4> QED
        BY <4>1, <4>2, SamplesAssumption DEF rampInSamples
    <3>3. PathLength(o, message) = l
      BY <2>3, <3>1 DEF PathLength
    <3> HIDE DEF l
    <3>4. w.path = [start |-> here, target |-> f[1], t0 |-> u, length |-> l,
                    stopped |-> FALSE,
                    whole |-> l = 0 \/ (p.whole /\ (f[1] - here) % l = 0)]
      BY <1>5, <3>3 DEF NewPath
    <3>5. w.path \in Path
      <4> HIDE DEF here, f
      <4> DEFINE rises == l = 0 \/ (p.whole /\ (f[1] - here) % l = 0)
      <4>1. rises \in BOOLEAN
        OBVIOUS
      <4>2. w.path = [start |-> here, target |-> f[1], t0 |-> u, length |-> l,
                      stopped |-> FALSE, whole |-> rises]
        BY <3>4
      <4>3. FALSE \in BOOLEAN
        OBVIOUS
      <4>4. f[1] \in Int /\ l \in Nat
        BY <2>1, <3>2
      <4> HIDE DEF rises
      <4>5. [start |-> here, target |-> f[1], t0 |-> u, length |-> l,
             stopped |-> FALSE, whole |-> rises] \in Path
        BY <1>3, <4>1, <4>3, <4>4, PathOf, Zenon
      <4> QED
        BY <4>2, <4>5
    <3>6. w.path.whole <=> (l = 0 \/ (p.whole /\ (f[1] - here) % l = 0))
      <4>1. w.path.whole = (l = 0 \/ (p.whole /\ (f[1] - here) % l = 0))
        BY <3>4
      <4> QED
        BY <4>1, Zenon
    <3>7. w.path.whole => p.whole /\ (f[1] - here) % l = 0
      BY <3>2, <3>6
    <3>8. e = [d EXCEPT !.target = f[1], !.numSamplesToTarget = l,
                        !.slope = (f[1] - d.lastOutputSample) \div l]
      BY <1>5, <2>3 DEF TakesRamp, l
    <3>9. /\ HasBuffer(e) /\ Ramping \subseteq DOMAIN e /\ e.out = d.out
          /\ e.target = f[1] /\ e.lastOutputSample = d.lastOutputSample
          /\ e.numSamplesToTarget = l
          /\ e.slope = (f[1] - d.lastOutputSample) \div l
      BY <1>1, <3>8 DEF HasBuffer, Ramping
    <3>10. p.whole => d.lastOutputSample = here
      BY <1>1 DEF IsOnRamp
    <3>11. /\ w.path.start = here /\ w.path.target = f[1] /\ w.path.t0 = u
           /\ w.path.length = l
      BY <3>4
    <3> HIDE DEF e, here, f
    <3>12. w.path.whole =>
               /\ e.lastOutputSample = here
               /\ e.slope = (f[1] - here) \div l
               /\ (f[1] - here) % l = 0
      BY <3>7, <3>9, <3>10
    <3>13. IsOnRamp(e, w.path, u, w.path.whole)
      <4> SUFFICES ASSUME NEW q, q = w.path
                   PROVE  IsOnRamp(e, q, u, q.whole)
        OBVIOUS
      <4>1. /\ q \in Path /\ q.t0 = u /\ e.numSamplesToTarget = q.length
            /\ e.target = q.target /\ q.length > 0
            /\ q.whole => /\ e.lastOutputSample = q.start
                          /\ e.slope = (q.target - q.start) \div q.length
                          /\ (q.target - q.start) % q.length = 0
        BY <3>2, <3>5, <3>9, <3>11, <3>12
      <4>2. ~ (q.length = 0)
        BY <4>1
      <4> QED
        BY <1>3, <4>1, <4>2, RampBegins
    <3> QED
      BY <3>5, <3>9, <3>11, <3>13
  <2> QED
    BY <2>2, <2>3
<1>6. CASE ~ (message.inlet # 0 \/ f = <<>>)
  <2> HIDE DEF e
  <2> QED
    BY <1>1, <1>5, <1>6 DEF LineOnCourse, Ramping, e
<1> QED
  BY <1>4, <1>6

\* A block ends.
LEMMA LineNextBlock ==
    ASSUME NEW d, NEW m, NEW w, NEW t \in Int, LineOnCourse(d, m, BlockSize, t),
           w.path = m.path
    PROVE  LineOnCourse(d, w, 0, t + BlockSize)
PROOF
  BY DspAssumption DEF Part, LineOnCourse

\* A new line~ is where it starts.
LEMMA NewLineOnCourse ==
    ASSUME NEW w, w.path = Level
    PROVE  LineOnCourse(NewDspLine(zeros), w, 0, 0)
PROOF
<1>1. \A k \in Part(0, 0) : FALSE
  BY DEF Part
<1>2. HasBuffer(NewDspLine(zeros)) /\ Ramping \subseteq DOMAIN NewDspLine(zeros)
  BY DEF HasBuffer, NewDspLine, NewLine, zeros, Ramping
<1>3. w.path \in Path
  BY DEF Path, Level
<1>4. IsOnRamp(NewDspLine(zeros), w.path, 0 + 0, w.path.whole)
  BY DEF IsOnRamp, PathAt, NewDspLine, NewLine, Level
<1>5. NewDspLine(zeros).target = w.path.target
  BY DEF NewDspLine, NewLine, Level
<1> QED
  BY <1>1, <1>2, <1>3, <1>4, <1>5 DEF LineOnCourse, Ramping

\* A ramp of which less can be told.
LEMMA RampUntold ==
    ASSUME NEW d, NEW path, NEW t, NEW told, NEW still, still => told,
           IsOnRamp(d, path, t, told)
    PROVE  IsOnRamp(d, path, t, still)
PROOF
  BY DEF IsOnRamp

\* A part of a vline~.
LEMMA VariableLinePart ==
    ASSUME NEW b, NEW d, NEW m, NEW w, NEW t \in Int, NEW from \in Nat,
           NEW to \in Int, from <= to, to <= BlockSize,
           VariableLineOnCourse(b, d, m, from, t),
           w.path = m.path, w.disturbed <=> m.disturbed \/ from = to,
           w.setBy = [k \in Part(0, BlockSize) |->
                         IF k \in Part(from, to) THEN m.path ELSE m.setBy[k]]
    PROVE  VariableLineOnCourse(b, DspVariableLine(b, d, from, to, Outside), w,
                                to, t)
PROOF
<1> DEFINE p == m.path
           left == d.numSamplesToTarget
           n == to - from
           e == DspVariableLine(b, d, from, to, Outside)
           told == b = "plain" /\ ~ m.disturbed /\ p.whole
           still == b = "plain" /\ ~ w.disturbed /\ p.whole
           ramp == Ramped(b, d, from, n)
           arriving == Ramped(b, d, from, left)
<1>1. /\ HasBuffer(d) /\ Ramping \subseteq DOMAIN d /\ p \in Path
      /\ IsOnRamp(d, p, t + from, told)
      /\ left = 0 /\ ~ p.stopped => d.lastOutputSample = p.target
      /\ \A k \in Part(0, from) : Arrives(b, m, k, d.out[k], t + k)
      /\ DOMAIN d.out = Part(0, BlockSize)
      /\ still => told
  BY DEF VariableLineOnCourse, HasBuffer, Ramping
<1>2. /\ left \in Nat /\ p.t0 \in Int /\ p.length \in Nat /\ p.target \in Int
      /\ p.t0 <= t + from
      /\ left > 0 => p.t0 + p.length = t + from + left /\ d.target = p.target
      /\ left = 0 => p.t0 + p.length <= t + from
      /\ BlockSize \in Nat
  BY <1>1, DspAssumption DEF IsOnRamp, Path
<1>3. ASSUME told, left > 0, NEW j \in 0 .. left
      PROVE  RampAt(d, j) = PathAt(p, t + from + j) /\ RampAt(d, j) \in Int
  <2> SUFFICES ASSUME NEW u \in Int, u = t + from
               PROVE  RampAt(d, j) = PathAt(p, u + j) /\ RampAt(d, j) \in Int
    OBVIOUS
  <2>1. IsOnRamp(d, p, u, TRUE)
    BY <1>1, <1>3 DEF IsOnRamp
  <2>2. p \in Path /\ d.numSamplesToTarget > 0 /\ j \in 0 .. d.numSamplesToTarget
    BY <1>1, <1>3
  <2> HIDE DEF p, left, told
  <2> QED
    BY <2>1, <2>2, RampGoesOn
<1>4. \A k \in Part(0, BlockSize) :
          /\ ramp[k] = IF b = "plain" /\ k \in Part(from, to)
                       THEN RampAt(d, k - from) ELSE d.out[k]
          /\ arriving[k] = IF b = "plain" /\ k \in Part(from, from + left)
                           THEN RampAt(d, k - from) ELSE d.out[k]
  <2>1. from + n = to
    BY <1>2
  <2> QED
    BY <1>1, <2>1 DEF Ramped
<1>5. DOMAIN ramp = Part(0, BlockSize) /\ DOMAIN arriving = Part(0, BlockSize)
  BY <1>1 DEF Ramped
<1> HIDE DEF ramp, arriving
<1> DEFINE before == (IF to = 0 THEN Outside ELSE ramp[to - 1]) + d.slope
           after == fill(b, d.target, arriving, from + left, to)
<1>6. /\ left = 0 => e = [d EXCEPT !.out = fill(b, d.lastOutputSample, @,
                                                from, to)]
      /\ left > 0 /\ n < left =>
             e = [d EXCEPT !.out = ramp,
                           !.lastOutputSample = before,
                           !.numSamplesToTarget = left - n]
      /\ left > 0 /\ n >= left =>
             e = [d EXCEPT !.out = after,
                           !.lastOutputSample = d.target, !.slope = 0,
                           !.numSamplesToTarget = 0]
  BY <1>1, <1>2 DEF DspVariableLine, SamplesToTarget, ramp, arriving, Ramping
<1> HIDE DEF e
<1>11. DOMAIN after = Part(0, BlockSize)
  BY <1>5 DEF fill
<1> HIDE DEF before, after
<1>12. left > 0 /\ n < left =>
           /\ HasBuffer(e) /\ Ramping \subseteq DOMAIN e
           /\ e.out = ramp /\ e.lastOutputSample = before /\ e.slope = d.slope
           /\ e.numSamplesToTarget = left - n /\ e.target = d.target
  <2> SUFFICES ASSUME left > 0 /\ n < left
               PROVE  /\ HasBuffer(e) /\ Ramping \subseteq DOMAIN e
                      /\ e.out = ramp /\ e.lastOutputSample = before
                      /\ e.slope = d.slope
                      /\ e.numSamplesToTarget = left - n /\ e.target = d.target
    OBVIOUS
  <2> DEFINE z == left - n
  <2>1. e = [d EXCEPT !.out = ramp, !.lastOutputSample = before,
                      !.numSamplesToTarget = z]
    BY <1>6
  <2> HIDE DEF z
  <2> HIDE DEF p, left, n, told, still
  <2>2. /\ HasBuffer(d) /\ Ramping \subseteq DOMAIN d
        /\ DOMAIN ramp = Part(0, BlockSize)
    BY <1>1, <1>5
  <2>3. /\ HasBuffer(e) /\ Ramping \subseteq DOMAIN e
        /\ e.out = ramp /\ e.lastOutputSample = before /\ e.slope = d.slope
        /\ e.numSamplesToTarget = z /\ e.target = d.target
    BY <2>1, <2>2 DEF HasBuffer, Ramping
  <2> QED
    BY <2>3 DEF z
<1>13. left > 0 /\ n >= left =>
           /\ HasBuffer(e) /\ Ramping \subseteq DOMAIN e
           /\ e.out = after /\ e.lastOutputSample = d.target /\ e.slope = 0
           /\ e.numSamplesToTarget = 0 /\ e.target = d.target
  <2> SUFFICES ASSUME left > 0 /\ n >= left
               PROVE  /\ HasBuffer(e) /\ Ramping \subseteq DOMAIN e
                      /\ e.out = after /\ e.lastOutputSample = d.target
                      /\ e.slope = 0
                      /\ e.numSamplesToTarget = 0 /\ e.target = d.target
    OBVIOUS
  <2>1. e = [d EXCEPT !.out = after, !.lastOutputSample = d.target,
                      !.slope = 0, !.numSamplesToTarget = 0]
    BY <1>6
  <2> HIDE DEF p, left, n, told, still
  <2>2. HasBuffer(d) /\ Ramping \subseteq DOMAIN d
    BY <1>1
  <2> QED
    BY <1>11, <2>1, <2>2 DEF HasBuffer, Ramping
<1>7. HasBuffer(e) /\ Ramping \subseteq DOMAIN e
  BY <1>1, <1>6, <1>12, <1>13, <1>2 DEF HasBuffer, Ramping, fill
\* The samples.
<1>8. ASSUME NEW k \in Part(0, BlockSize)
      PROVE  e.out[k] =
                 IF k \notin Part(from, to)
                 THEN IF left > 0 /\ n >= left /\ k \in Part(from, from + left)
                      THEN arriving[k] ELSE d.out[k]
                 ELSE IF left = 0 THEN d.lastOutputSample
                 ELSE IF k < from + left
                 THEN IF b = "plain" THEN RampAt(d, k - from) ELSE d.out[k]
                 ELSE p.target
  <2>1. k \in Int /\ 0 <= k /\ k < BlockSize
    BY <1>2 DEF Part
  <2>2. CASE left = 0
    BY <1>1, <1>6, <2>2 DEF HasBuffer, Ramping, fill
  <2>3. CASE left > 0 /\ n < left
    <3>1. e.out = ramp
      BY <1>12, <2>3
    <3>2. k \in Part(from, to) => k < from + left
      BY <1>2, <2>1, <2>3 DEF Part
    <3> QED
      BY <1>2, <1>4, <2>3, <3>1, <3>2
  <2>4. CASE left > 0 /\ n >= left
    <3>1. e.out = fill(b, p.target, arriving, from + left, to)
      BY <1>2, <1>13, <2>4 DEF after
    <3>2. e.out[k] = IF k \in Part(from + left, to) THEN p.target ELSE arriving[k]
      BY <1>5, <3>1 DEF fill
    <3>3. CASE k \in Part(from, to)
      <4>1. k \in Part(from + left, to) <=> ~ (k < from + left)
        BY <1>2, <2>1, <2>4, <3>3 DEF Part
      <4>2. k < from + left => k \in Part(from, from + left)
        BY <1>2, <2>1, <2>4, <3>3 DEF Part
      <4> QED
        BY <1>2, <1>4, <2>4, <3>2, <3>3, <4>1, <4>2
    <3>4. CASE k \notin Part(from, to)
      <4>1. k \notin Part(from + left, to) /\ k \notin Part(from, from + left)
        BY <1>2, <2>1, <2>4, <3>4 DEF Part
      <4> QED
        BY <1>4, <2>4, <3>2, <3>4, <4>1
    <3> QED
      BY <3>3, <3>4
  <2> QED
    BY <1>2, <2>2, <2>3, <2>4
<1>9. ASSUME NEW k \in Part(0, to)
      PROVE  Arrives(b, w, k, e.out[k], t + k)
  <2>1. k \in Int /\ 0 <= k /\ k < to /\ k \in Part(0, BlockSize)
    BY <1>2 DEF Part
  <2>2. CASE k < from
    <3>1. k \in Part(0, from) /\ k \notin Part(from, to)
          /\ k \notin Part(from, from + left)
      BY <1>2, <2>1, <2>2 DEF Part
    <3>2. w.setBy[k] = m.setBy[k]
      BY <2>1, <3>1
    <3>3. e.out[k] = d.out[k]
      BY <1>8, <2>1, <3>1
    <3>4. Arrives(b, m, k, d.out[k], t + k)
      BY <1>1, <3>1
    <3> QED
      BY <3>2, <3>3, <3>4 DEF Arrives
  <2>3. CASE from <= k
    <3>1. k \in Part(from, to) /\ w.setBy[k] = p /\ n > 0
      BY <2>1, <2>3 DEF Part
    <3>2. CASE left = 0
      <4>1. e.out[k] = d.lastOutputSample
        BY <1>8, <2>1, <3>1, <3>2
      <4>2. t + k >= p.t0 + p.length /\ t + from >= p.t0 + p.length
        BY <1>2, <2>1, <2>3, <3>2
      <4>3. PathAt(p, t + k) = p.target /\ PathAt(p, t + from) = p.target
        BY <4>2, PathEnds
      <4>4. CASE ~ p.stopped
        BY <1>1, <3>1, <3>2, <4>1, <4>3, <4>4 DEF Arrives
      <4>5. CASE told
        <5>1. d.lastOutputSample = PathAt(p, t + from)
          BY <1>1, <4>5 DEF IsOnRamp
        <5> QED
          BY <3>1, <4>1, <4>3, <5>1 DEF Arrives
      <4>6. CASE p.stopped /\ ~ told
        BY <3>1, <4>6 DEF Arrives
      <4> QED
        BY <4>4, <4>5, <4>6
    <3>3. CASE left > 0 /\ k < from + left
      <4>1. CASE told
        <5>1. k - from \in 0 .. left /\ t + from + (k - from) = t + k
          BY <1>2, <2>1, <2>3, <3>3
        <5>2. RampAt(d, k - from) = PathAt(p, t + k)
          BY <1>3, <3>3, <4>1, <5>1
        <5>3. e.out[k] = RampAt(d, k - from)
          BY <1>8, <2>1, <3>1, <3>3, <4>1
        <5> QED
          BY <3>1, <5>2, <5>3 DEF Arrives
      <4>2. CASE ~ told
        <5>1. t + k < p.t0 + p.length
          BY <1>2, <2>1, <2>3, <3>3
        <5> QED
          BY <3>1, <4>2, <5>1 DEF Arrives
      <4> QED
        BY <4>1, <4>2
    <3>4. CASE left > 0 /\ ~ (k < from + left)
      BY <1>8, <2>1, <3>1, <3>4, <1>2, <2>3, PathEnds DEF Arrives
    <3> QED
      BY <1>2, <3>2, <3>3, <3>4
  <2> QED
    BY <1>2, <2>1, <2>2, <2>3
\* Where it stands.
<1>10. /\ IsOnRamp(e, p, t + to, still)
       /\ e.numSamplesToTarget = 0 /\ ~ p.stopped => e.lastOutputSample = p.target
  <2>1. CASE left = 0
    BY <1>1, <1>2, <1>6, <2>1, PathEnds DEF HasBuffer, Ramping, IsOnRamp
  <2>2. CASE left > 0 /\ n >= left
    BY <1>2, <1>13, <2>2, PathEnds DEF IsOnRamp
  <2>3. CASE left > 0 /\ n < left
    <3>1. /\ e.numSamplesToTarget = left - n /\ left - n \in Nat /\ left - n > 0
          /\ p.t0 <= t + to /\ p.t0 + p.length = t + to + (left - n)
          /\ e.lastOutputSample =
                 (IF to = 0 THEN Outside ELSE ramp[to - 1]) + d.slope
          /\ e.target = p.target /\ e.slope = d.slope
      BY <1>2, <1>12, <2>3 DEF before
    <3>2. ASSUME still
          PROVE  e.lastOutputSample = PathAt(p, t + to)
      <4>1. told /\ from < to
        BY <1>1, <1>2, <3>2
      <4>2. to - 1 \in Part(from, to) /\ to - 1 \in Part(0, BlockSize) /\ to # 0
        BY <1>2, <4>1 DEF Part
      <4>3. ramp[to - 1] = RampAt(d, n - 1)
        BY <1>4, <4>1, <4>2
      <4>4. d.slope \in Int
        BY <1>1, <2>3, <4>1 DEF IsOnRamp
      <4>5. RampAt(d, n) = PathAt(p, t + to) /\ RampAt(d, 0) \in Int
        BY <1>2, <2>3, <1>3, <4>1
      <4>6. RampAt(d, n - 1) + d.slope = RampAt(d, n)
        <5> DEFINE x == d.lastOutputSample
                   s == d.slope
        <5>1. x \in Int
          <6>1. x = PathAt(p, t + from)
            BY <1>1, <4>1 DEF IsOnRamp
          <6> QED
            BY <1>1, <1>2, <6>1, PathIsInt
        <5> HIDE DEF x, s, n
        <5>2. s \in Int /\ n \in Int
          BY <4>4 DEF s, n
        <5>3. n * s = (n - 1) * s + s /\ (n - 1) * s \in Int
          BY <5>2
        <5>4. (x + (n - 1) * s) + s = x + n * s
          BY <5>1, <5>2, <5>3
        <5> QED
          BY <5>4 DEF RampAt, x, s
      <4> QED
        BY <3>1, <4>2, <4>3, <4>5, <4>6
    <3>3. still => d.slope \in Int /\ d.slope * p.length = p.target - p.start
      BY <1>1, <2>3 DEF IsOnRamp
    <3>4. IsOnRamp(e, p, t + to, still)
      <4> HIDE DEF told, still
      <4> QED
        BY <3>1, <3>2, <3>3 DEF IsOnRamp
    <3> QED
      BY <3>1, <3>4
  <2> QED
    BY <1>2, <2>1, <2>2, <2>3
<1> QED
  BY <1>1, <1>7, <1>9, <1>10 DEF VariableLineOnCourse, e, Ramping

\* A message to a vline~, of no ramp of negative length.
LEMMA VariableLineTold ==
    ASSUME NEW o, Kind[o] = "vline~", NEW b, NEW d, NEW m, NEW w, NEW n \in Nat,
           NEW t \in Int, NEW u \in Int, u = t + n,
           NEW message, message.floats \in Seq(Int),
           ArgumentOr(message.floats, 2, 0) >= 0,
           VariableLineOnCourse(b, d, m, n, t),
           w.path = NewPath(o, m.path, message, u), w.setBy = m.setBy,
           m.disturbed => w.disturbed
    PROVE  VariableLineOnCourse(b, TakesSegment(d, message), w, n, t)
PROOF
<1> DEFINE p == m.path
           e == TakesSegment(d, message)
           f == message.floats
           here == PathAt(p, u)
           l == SamplesPerMs * ArgumentOr(f, 2, 0)
           told == b = "plain" /\ ~ m.disturbed /\ p.whole
           still == b = "plain" /\ ~ w.disturbed /\ w.path.whole
<1>1. /\ HasBuffer(d) /\ Ramping \subseteq DOMAIN d /\ p \in Path
      /\ IsOnRamp(d, p, u, told)
      /\ d.numSamplesToTarget = 0 /\ ~ p.stopped =>
             d.lastOutputSample = p.target
      /\ \A k \in Part(0, n) : Arrives(b, m, k, d.out[k], t + k)
  BY DEF VariableLineOnCourse, Ramping
<1>2. /\ Len(f) \in Nat /\ (f = <<>> <=> Len(f) = 0)
      /\ \A i \in 1 .. Len(f) : f[i] \in Int
      /\ ArgumentOr(f, 2, 0) \in Nat
  BY FloatsAreInts
<1>3. here \in Int
  BY <1>1, PathIsInt DEF IsOnRamp
<1>4. l \in Nat /\ (Len(f) = 1 => l = 0) /\ PathLength(o, message) = l
  <2>1. \A s \in Nat : \A i \in Nat : s * i \in Nat /\ s * 0 = 0
    OBVIOUS
  <2>2. Len(f) = 1 => ArgumentOr(f, 2, 0) = 0
    BY DEF ArgumentOr
  <2>3. PathLength(o, message) =
            IF Len(f) = 1 THEN 0 ELSE SamplesPerMs * ArgumentOr(f, 2, 0)
    BY DEF PathLength
  <2> QED
    BY <1>2, <2>1, <2>2, <2>3, SamplesAssumption
<1> HIDE DEF l
<1>5. ASSUME NEW k \in Part(0, n), e.out = d.out
      PROVE  Arrives(b, w, k, e.out[k], t + k)
  BY <1>1, <1>5 DEF Arrives
<1>6. CASE message.inlet # 0 \/ (f = <<>> /\ message.selector # "stop")
  <2>1. e = d
    BY <1>2, <1>6 DEF TakesSegment, isFloat
  <2>2. w.path = p
    BY <1>6 DEF NewPath
  <2>3. IsOnRamp(d, p, u, still)
    <3>1. still => told
      BY <2>2
    <3> HIDE DEF told, still
    <3> QED
      BY <1>1, <3>1, RampUntold
  <2> HIDE DEF e
  <2> QED
    BY <1>1, <1>5, <2>1, <2>2, <2>3 DEF VariableLineOnCourse, Ramping, e
<1>7. ASSUME message.inlet = 0, f = <<>>, message.selector = "stop"
      PROVE  /\ HasBuffer(e) /\ Ramping \subseteq DOMAIN e /\ e.out = d.out
             /\ w.path \in Path /\ w.path.stopped
             /\ IsOnRamp(e, w.path, u, still)
  <2>1. e = [d EXCEPT !.numSamplesToTarget = 0, !.slope = 0]
    BY <1>2, <1>7 DEF TakesSegment, isFloat
  <2>2. w.path = [p EXCEPT !.start = here, !.target = here, !.t0 = u,
                           !.length = 0, !.stopped = TRUE]
    BY <1>7 DEF NewPath
  <2>3. /\ HasBuffer(e) /\ Ramping \subseteq DOMAIN e /\ e.out = d.out
        /\ e.lastOutputSample = d.lastOutputSample /\ e.numSamplesToTarget = 0
    BY <1>1, <2>1 DEF HasBuffer, Ramping
  <2> HIDE DEF e, here
  <2>4. /\ w.path \in Path /\ w.path.target = here /\ w.path.t0 = u
        /\ w.path.length = 0 /\ w.path.stopped
    <3> HIDE DEF p, f
    <3>1. p = [start |-> p.start, target |-> p.target, t0 |-> p.t0,
               length |-> p.length, stopped |-> p.stopped, whole |-> p.whole]
          /\ p.whole \in BOOLEAN
      BY <1>1 DEF Path
    <3> DEFINE x == p.whole
    <3>2. x \in BOOLEAN /\ TRUE \in BOOLEAN /\ 0 \in Nat
      BY <3>1
    <3>3. w.path = [start |-> here, target |-> here, t0 |-> u, length |-> 0,
                    stopped |-> TRUE, whole |-> x]
      BY <2>2, <3>1
    <3> HIDE DEF x
    <3>4. [start |-> here, target |-> here, t0 |-> u, length |-> 0,
           stopped |-> TRUE, whole |-> x] \in Path
      BY <1>3, <3>2, PathOf, Zenon
    <3> QED
      BY <3>3, <3>4
  <2>5. w.path.whole = p.whole
    <3> HIDE DEF p, f
    <3> QED
      BY <1>1, <1>3, <2>2 DEF Path
  <2>6. still => d.lastOutputSample = here
    BY <1>1, <2>5 DEF IsOnRamp, here
  <2>7. PathAt(w.path, u) = here
    BY <2>4 DEF PathAt
  <2>8. IsOnRamp(e, w.path, u, still)
    <3> HIDE DEF still, p, f
    <3> QED
      BY <2>3, <2>4, <2>6, <2>7 DEF IsOnRamp
  <2> QED
    BY <2>3, <2>4, <2>8
<1>8. ASSUME message.inlet = 0, f # <<>>
      PROVE  /\ HasBuffer(e) /\ Ramping \subseteq DOMAIN e /\ e.out = d.out
             /\ w.path \in Path
             /\ e.numSamplesToTarget = 0 => e.lastOutputSample = w.path.target
             /\ IsOnRamp(e, w.path, u, still)
  <2>1. f[1] \in Int /\ Len(f) >= 1
    BY <1>2, <1>8
  <2> DEFINE last == IF l = 0 THEN f[1] ELSE d.lastOutputSample
             slope == IF l = 0 THEN 0 ELSE (f[1] - d.lastOutputSample) \div l
             rises == l = 0 \/ (p.whole /\ (f[1] - here) % l = 0)
             y == f[1]
  <2>2. e = [d EXCEPT !.target = y, !.numSamplesToTarget = l,
                      !.lastOutputSample = last, !.slope = slope]
    BY <1>1, <1>8, <2>1 DEF TakesSegment, isFloat, updatePath, l, Ramping
  <2>3. w.path = [start |-> here, target |-> y, t0 |-> u, length |-> l,
                  stopped |-> FALSE, whole |-> rises]
    BY <1>4, <1>8 DEF NewPath
  <2>4. y \in Int /\ rises \in BOOLEAN /\ FALSE \in BOOLEAN
    BY <2>1
  <2>5. HasBuffer(d) /\ Ramping \subseteq DOMAIN d
    BY <1>1
  <2> HIDE DEF last, slope, rises, y, e, here, f
  <2>6. /\ HasBuffer(e) /\ Ramping \subseteq DOMAIN e /\ e.out = d.out
        /\ e.target = y /\ e.numSamplesToTarget = l
        /\ e.lastOutputSample = last /\ e.slope = slope
    BY <2>2, <2>5 DEF HasBuffer, Ramping
  <2>7. [start |-> here, target |-> y, t0 |-> u, length |-> l,
         stopped |-> FALSE, whole |-> rises] \in Path
    BY <1>3, <1>4, <2>4, PathOf, Zenon
  <2>8. /\ w.path \in Path /\ w.path.start = here /\ w.path.target = y
        /\ w.path.t0 = u /\ w.path.length = l
    BY <2>3, <2>7
  <2>9. w.path.whole <=> rises
    <3>1. w.path.whole = rises
      BY <2>3
    <3> QED
      BY <3>1, Zenon
  <2>10. told => d.lastOutputSample = here
    BY <1>1 DEF IsOnRamp, here
  <2>11. still /\ rises /\ l # 0 => told
    BY DEF rises
  <2>12. l > 0 /\ still =>
             /\ e.lastOutputSample = here /\ e.slope = (y - here) \div l
             /\ (y - here) % l = 0
    BY <2>6, <2>9, <2>10, <2>11 DEF rises, last, slope, y
  <2>13. l = 0 => e.lastOutputSample = y
    BY <2>6 DEF last, y
  <2>14. IsOnRamp(e, w.path, u, still)
    <3> SUFFICES ASSUME NEW q, q = w.path
                 PROVE  IsOnRamp(e, q, u, still)
      OBVIOUS
    <3> HIDE DEF still, told
    <3>1. /\ q \in Path /\ q.t0 = u /\ e.numSamplesToTarget = q.length
          /\ e.target = q.target
          /\ q.length = 0 /\ still => e.lastOutputSample = q.target
          /\ q.length > 0 /\ still =>
                 /\ e.lastOutputSample = q.start
                 /\ e.slope = (q.target - q.start) \div q.length
                 /\ (q.target - q.start) % q.length = 0
      BY <1>4, <2>6, <2>8, <2>12, <2>13
    <3> QED
      BY <3>1, RampBegins
  <2> QED
    BY <2>6, <2>8, <2>13, <2>14
<1>9. CASE message.inlet = 0 /\ f = <<>> /\ message.selector = "stop"
  <2> HIDE DEF e
  <2> QED
    BY <1>5, <1>7, <1>9 DEF VariableLineOnCourse, Ramping, e
<1>10. CASE message.inlet = 0 /\ f # <<>>
  <2> HIDE DEF e
  <2> QED
    BY <1>5, <1>8, <1>10 DEF VariableLineOnCourse, Ramping, e
<1> QED
  BY <1>6, <1>9, <1>10

\* A block ends.
LEMMA VariableLineNextBlock ==
    ASSUME NEW b, NEW d, NEW m, NEW w, NEW t \in Int,
           VariableLineOnCourse(b, d, m, BlockSize, t),
           w.path = m.path, w.disturbed <=> m.disturbed
    PROVE  VariableLineOnCourse(b, d, w, 0, t + BlockSize)
PROOF
  BY DspAssumption DEF Part, VariableLineOnCourse, Ramping, IsOnRamp

\* A new vline~ is where it starts.
LEMMA NewVariableLineOnCourse ==
    ASSUME NEW b, NEW w, w.path = Level
    PROVE  VariableLineOnCourse(b, NewDspVariableLine(zeros), w, 0, 0)
PROOF
<1> DEFINE d == NewDspVariableLine(zeros)
<1>1. \A k \in Part(0, 0) : FALSE
  BY DEF Part
<1>2. HasBuffer(d) /\ Ramping \subseteq DOMAIN d
  BY DEF HasBuffer, NewDspVariableLine, NewLine, zeros, Ramping
<1>3. w.path \in Path
  BY DEF Path, Level
<1>4. ASSUME NEW told
      PROVE  IsOnRamp(d, w.path, 0 + 0, told)
  BY DEF IsOnRamp, PathAt, NewDspVariableLine, NewLine, Level
<1>5. d.lastOutputSample = w.path.target
  BY DEF NewDspVariableLine, NewLine, Level
<1> HIDE DEF d
<1> QED
  BY <1>1, <1>2, <1>3, <1>4, <1>5 DEF VariableLineOnCourse, Ramping, d

-----------------------------------------------------------------------------
(* osc~.                                                                   *)

\* Sums are cut to words sooner or later.
LEMMA WordSum ==
    ASSUME NEW a \in Int, NEW x \in Int
    PROVE  /\ a % Word \in 0 .. Word - 1
           /\ ((a % Word) + x) % Word = (a + x) % Word
           /\ a \in 0 .. Word - 1 => a % Word = a
PROOF
<1>1. a % Word \in 0 .. Word - 1
  BY DEF Word
<1>2. ((a % Word) + x) % Word = (a + x) % Word
  BY DEF Word
<1>3. a \in 0 .. Word - 1 => a % Word = a
  <2>1. 0 <= a /\ a < 65536 => a % 65536 = a
    OBVIOUS
  <2>2. a \in 0 .. Word - 1 => 0 <= a /\ a < 65536
    BY DEF Word
  <2> QED
    BY <2>1, <2>2 DEF Word
<1> QED
  BY <1>1, <1>2, <1>3

\* Eights from a multiple of eight to another are all of the part.
LEMMA AllInEights ==
    ASSUME NEW from \in Int, NEW to \in Int, from % 8 = 0, to % 8 = 0
    PROVE  LET first == FirstEight(from)
               n8 == 8 * ((to - first) \div 8)
           IN  first = from /\ n8 = to - first
PROOF
  BY DEF FirstEight

\* A part of an osc~: in eights that follow one another, each sample is a step
\* on.
LEMMA OscPart ==
    ASSUME NEW d, NEW m, NEW w, NEW t \in Int, NEW from \in Nat,
           NEW to \in Int, from <= to, to <= BlockSize,
           NEW f8, NEW e8, e8 => f8 /\ from % 8 = 0,
           OscOnCourse(d, m, from, t, f8), w.before = m.before,
           w.setBy = [k \in Part(0, BlockSize) |->
                         IF k \in Part(from, to) THEN d.constant
                         ELSE m.setBy[k]]
    PROVE  OscOnCourse(DspOsc(d, from, to), w, to, t, e8)
PROOF
<1> DEFINE step == d.constant
           single == eighthOf(step)
           first == FirstEight(from)
           n8 == 8 * ((to - first) \div 8)
           rest == to - first - n8
           current == EightsOn(d.index, step, n8)
           place(k) ==
               IF k < first THEN d.index + (k - from) * single
               ELSE IF k < first + n8 THEN d.index + (k - first) * step
               ELSE current + (k - first - n8) * single
           out == [k \in DOMAIN d.out |->
                      IF k \in Part(from, to) THEN place(k) % Word ELSE d.out[k]]
           constant == IF rest = 0 THEN step ELSE single
           index == (current + rest * single) % Word
           e == DspOsc(d, from, to)
<1>1. /\ HasBuffer(d) /\ {"index", "constant"} \subseteq DOMAIN d
      /\ d.index \in 0 .. Word - 1 /\ step \in Int /\ BlockSize \in Nat
  BY DspAssumption DEF OscOnCourse
<1>2. e = [d EXCEPT !.out = out, !.index = index, !.constant = constant]
  BY DEF DspOsc
<1>3. /\ single \in Int /\ rest \in Int /\ current \in Int /\ first \in Int
      /\ n8 \in Int
  <2>1. first \in Int
    BY DEF FirstEight
  <2>2. n8 \in Int /\ rest \in Int
    BY <2>1
  <2>3. single \in Int
    <3>1. 8 * step \in Int
      BY <1>1
    <3>2. (8 * step) % Word \in Int
      BY <3>1 DEF Word
    <3> QED
      BY <3>2 DEF eighthOf
  <2>4. current \in Int
    <3>1. d.index \in Int
      BY <1>1
    <3> HIDE DEF n8, step
    <3>2. n8 * step \in Int
      BY <1>1, <2>2
    <3> QED
      BY <3>1, <3>2 DEF EightsOn, Word
  <2> QED
    BY <2>1, <2>2, <2>3, <2>4
<1> HIDE DEF single, rest, current, e
<1>4. /\ index \in 0 .. Word - 1 /\ constant \in Int
  <2>1. rest * single \in Int
    BY <1>3
  <2>2. current + rest * single \in Int
    BY <1>3, <2>1
  <2>3. index \in 0 .. Word - 1
    BY <2>2, WordSum
  <2> QED
    BY <1>1, <1>3, <2>3
<1>5. DOMAIN out = Part(0, BlockSize)
  BY <1>1 DEF HasBuffer
<1>6. \A k \in Part(0, from) : out[k] = d.out[k] /\ w.setBy[k] = m.setBy[k]
  BY <1>1, <1>5 DEF Part
<1>7. \A k \in Part(from, to) : k \in Part(0, BlockSize) /\ w.setBy[k] = step
  BY <1>1 DEF Part
<1>8. \A k \in Part(from, to) : out[k] = place(k) % Word
  BY <1>5, <1>7
<1>9. ASSUME e8, to % 8 = 0
      PROVE  /\ \A k \in Part(from, to) :
                    out[k] = (d.index + (k - from) * step) % Word
             /\ index = (d.index + (to - from) * step) % Word
  <2>1. first = from /\ n8 = to - from /\ rest = 0
    <3>1. from \in Int /\ from % 8 = 0 /\ to % 8 = 0
      BY <1>9
    <3>2. first = from /\ n8 = to - first
      BY <3>1, AllInEights
    <3> HIDE DEF first, n8
    <3>3. rest = to - first - n8
      BY DEF rest, first, n8
    <3> QED
      BY <3>2, <3>3
  <2>2. \A k \in Part(from, to) : ~ (k < first) /\ k < first + n8
    BY <2>1, <1>1 DEF Part
  <2>3. \A k \in Part(from, to) : place(k) = d.index + (k - from) * step
    BY <2>2, <2>1
  <2>4. current = (d.index + (to - from) * step) % Word
    BY <2>1 DEF current, EightsOn
  <2>5. index = current
    <3>1. rest * single = 0
      BY <1>3, <2>1
    <3>2. current \in 0 .. Word - 1
      <4>1. (to - from) * step \in Int
        BY <1>1
      <4>2. d.index + (to - from) * step \in Int
        BY <1>1, <4>1
      <4> QED
        BY <2>4, <4>2, WordSum
    <3> QED
      BY <3>1, <3>2, WordSum
  <2> QED
    BY <1>8, <2>3, <2>4, <2>5
<1> HIDE DEF out, index, constant
<1>10. /\ HasBuffer(e) /\ {"index", "constant"} \subseteq DOMAIN e
       /\ e.out = out /\ e.index = index /\ e.constant = constant
  BY <1>1, <1>2, <1>5 DEF HasBuffer
<1> HIDE DEF step
<1>11. ASSUME e8, to % 8 = 0
       PROVE  /\ \A k \in 1 .. to - 1 :
                     out[k] = (out[k - 1] + w.setBy[k - 1]) % Word
              /\ to > 0 => index = (out[to - 1] + w.setBy[to - 1]) % Word
              /\ from > 0 => out[0] = d.out[0]
              /\ from = 0 /\ to > 0 => out[0] = d.index
              /\ to = 0 => index = d.index
  <2>1. /\ \A k \in Part(from, to) :
               out[k] = (d.index + (k - from) * step) % Word
        /\ index = (d.index + (to - from) * step) % Word
    BY <1>9, <1>11
  <2>2. /\ \A k \in 1 .. from - 1 :
               d.out[k] = (d.out[k - 1] + m.setBy[k - 1]) % Word
        /\ from > 0 => d.index = (d.out[from - 1] + m.setBy[from - 1]) % Word
    BY <1>11 DEF OscOnCourse
  <2>3. ASSUME NEW k \in Int, from < k, k <= to
        PROVE  (d.index + (k - from) * step) % Word
                   = (out[k - 1] + w.setBy[k - 1]) % Word
    <3>1. k - 1 \in Part(from, to)
      BY <2>3 DEF Part
    <3>2. out[k - 1] = (d.index + ((k - 1) - from) * step) % Word
          /\ w.setBy[k - 1] = step
      BY <1>7, <2>1, <3>1
    <3> DEFINE a == d.index + ((k - 1) - from) * step
    <3>3. a \in Int /\ a + step = d.index + (k - from) * step
      <4>1. ((k - 1) - from) * step \in Int
        BY <1>1, <2>3 DEF step
      <4>2. (k - from) * step = ((k - 1) - from) * step + step
        BY <1>1, <2>3 DEF step
      <4> QED
        BY <1>1, <4>1, <4>2 DEF step
    <3> HIDE DEF a
    <3>4. ((a % Word) + step) % Word = (a + step) % Word
      BY <1>1, <3>3, WordSum DEF step
    <3> QED
      BY <3>2, <3>3, <3>4 DEF a
  <2>4. (d.index + (from - from) * step) % Word = d.index
    <3>1. (from - from) * step = 0 /\ d.index \in Int
      BY <1>1 DEF step
    <3> QED
      BY <1>1, <3>1, WordSum
  <2>5. from < to => from \in Part(from, to) /\ out[from] = d.index
    BY <2>1, <2>4 DEF Part
  <2>6. ASSUME NEW k \in 1 .. to - 1
        PROVE  out[k] = (out[k - 1] + w.setBy[k - 1]) % Word
    <3>1. CASE k < from
      <4>1. k \in Part(0, from) /\ k - 1 \in Part(0, from) /\ k \in 1 .. from - 1
        BY <3>1 DEF Part
      <4> QED
        BY <1>6, <2>2, <4>1
    <3>2. CASE k = from
      <4>1. k - 1 \in Part(0, from) /\ from > 0 /\ from < to
        BY <3>2 DEF Part
      <4> QED
        BY <1>6, <2>2, <2>5, <3>2, <4>1
    <3>3. CASE k > from
      <4>1. k \in Int /\ k <= to /\ k \in Part(from, to)
        BY <3>3 DEF Part
      <4> QED
        BY <2>1, <2>3, <3>3, <4>1
    <3> QED
      BY <3>1, <3>2, <3>3
  <2>7. ASSUME to > 0
        PROVE  index = (out[to - 1] + w.setBy[to - 1]) % Word
    <3>1. CASE from < to
      <4>1. to \in Int /\ to <= to
        OBVIOUS
      <4>2. (d.index + (to - from) * step) % Word
                = (out[to - 1] + w.setBy[to - 1]) % Word
        BY <2>3, <3>1, <4>1
      <4> QED
        BY <2>1, <4>2
    <3>2. CASE from = to
      <4>1. to - 1 \in Part(0, from)
        BY <2>7, <3>2 DEF Part
      <4> QED
        BY <1>6, <2>1, <2>2, <2>4, <2>7, <3>2, <4>1
    <3> QED
      BY <3>1, <3>2
  <2>8. from > 0 => out[0] = d.out[0]
    <3>1. from > 0 => 0 \in Part(0, from)
      BY DEF Part
    <3> QED
      BY <1>6, <3>1
  <2>9. to = 0 => index = d.index
    <3>1. to = 0 => from = to
      OBVIOUS
    <3> QED
      BY <2>1, <2>4, <3>1
  <2> QED
    BY <2>5, <2>6, <2>7, <2>8, <2>9
<1> DEFINE end == BlockSize - 1
           next == (m.before.out[end] + m.before.setBy[end]) % Word
           linked == t > 0 /\ m.before.whole
<1>12. ASSUME e8, to % 8 = 0, linked
       PROVE  IF to > 0 THEN out[0] = next ELSE index = next
  <2>1. IF from > 0 THEN d.out[0] = next ELSE d.index = next
    <3>1. f8 /\ from % 8 = 0
      BY <1>12
    <3> QED
      BY <1>12, <3>1 DEF OscOnCourse
  <2> HIDE DEF next, linked
  <2> QED
    BY <1>11, <1>12, <2>1
<1> HIDE DEF e
<1>13. ASSUME e8, to % 8 = 0
       PROVE  /\ \A k \in 1 .. to - 1 :
                     e.out[k] = (e.out[k - 1] + w.setBy[k - 1]) % Word
              /\ linked => IF to > 0 THEN e.out[0] = next ELSE e.index = next
              /\ to > 0 => e.index = (e.out[to - 1] + w.setBy[to - 1]) % Word
  <2> HIDE DEF next, linked
  <2> QED
    BY <1>10, <1>11, <1>12, <1>13
<1>14. OscOnCourse(e, w, to, t, e8)
  <2>1. e.index \in 0 .. Word - 1 /\ e.constant \in Int
    BY <1>4, <1>10
  <2> QED
    BY <1>10, <1>13, <2>1, Zenon DEF OscOnCourse
<1> QED
  BY <1>14 DEF e

\* A frequency.
LEMMA OscTold ==
    ASSUME NEW d, NEW m, NEW w, NEW n, NEW t, NEW e8, NEW c \in Int,
           OscOnCourse(d, m, n, t, e8), w.before = m.before, w.setBy = m.setBy
    PROVE  OscOnCourse([d EXCEPT !.constant = c], w, n, t, e8)
PROOF
  BY DEF OscOnCourse, HasBuffer

\* The next block goes on from the index that is left.
LEMMA OscNextBlock ==
    ASSUME NEW d, NEW m, NEW w, NEW t \in Nat, NEW e8, NEW f8,
           OscOnCourse(d, m, BlockSize, t, e8),
           w.before.out = d.out, w.before.setBy = m.setBy,
           w.before.whole => e8
    PROVE  OscOnCourse(d, w, 0, t + BlockSize, f8)
PROOF
  BY DspAssumption, SignalAssumption DEF OscOnCourse

\* A new osc~ has nothing to go on from.
LEMMA NewOscOnCourse ==
    ASSUME NEW a \in Seq(Int), NEW w, NEW e8
    PROVE  OscOnCourse(NewDspOsc(a, zeros), w, 0, 0, e8)
PROOF
<1> DEFINE d == NewDspOsc(a, zeros)
           c == ArgumentOr(a, 1, 0)
<1>1. c \in Int
  <2>1. Len(a) \in Nat /\ \A i \in 1 .. Len(a) : a[i] \in Int
    OBVIOUS
  <2> QED
    BY <2>1 DEF ArgumentOr
<1> HIDE DEF c
<1>2. d = [lets |-> <<2, 2, 0, 1>>, functions |-> Scalar, index |-> 0,
           constant |-> c, out |-> zeros]
  BY DEF NewDspOsc, c
<1>3. DOMAIN zeros = Part(0, BlockSize) /\ 0 \in 0 .. Word - 1
  BY DEF zeros, Word
<1> HIDE DEF d
<1>4. /\ HasBuffer(d) /\ {"index", "constant"} \subseteq DOMAIN d
      /\ d.index = 0 /\ d.constant = c
  BY <1>2, <1>3 DEF HasBuffer
<1>5. (\A k \in 1 .. 0 - 1 : FALSE) /\ ~ (0 > 0)
  OBVIOUS
<1>6. OscOnCourse(d, w, 0, 0, e8)
  BY <1>1, <1>3, <1>4, <1>5 DEF OscOnCourse
<1> QED
  BY <1>6 DEF d

-----------------------------------------------------------------------------
(* phasor~ with a number.                                                  *)

\* Lanes are of words, whatever they are made of.
LEMMA LanesAreWords ==
    ASSUME NEW idx \in Int, NEW s \in Int
    PROVE  Lanes(idx, s) \in [0 .. 3 -> 0 .. Word - 1]
PROOF
  BY WordSum DEF Lanes

\* Fours from a multiple of four to another are all of the part.
LEMMA AllInFours ==
    ASSUME NEW from \in Int, NEW to \in Int, from % 4 = 0, to % 4 = 0
    PROVE  LET first == FirstFour(from)
           IN  first = from /\ first - from = 0 /\ (to - first) % 4 = 0
PROOF
<1>1. FirstFour(from) = from
  BY DEF FirstFour
<1>2. (to - from) % 4 = 0
  OBVIOUS
<1> QED
  BY <1>1, <1>2

\* A sample of the fours, before it is cut to a word.
FourAt(lanes, first, c, k) ==
    lanes[k % 4] + ((k - first) \div 4) * Increment(c)

\* Four samples on, each lane is four steps further.
LEMMA FoursGoOn ==
    ASSUME NEW lanes \in [0 .. 3 -> 0 .. Word - 1], NEW first \in Int,
           first % 4 = 0, NEW c \in Int
    PROVE  /\ \A k \in Int :
                  FourAt(lanes, first, c, k) % Word \in 0 .. Word - 1
           /\ \A l \in 0 .. 3 :
                  FourAt(lanes, first, c, first + l) % Word = lanes[l]
           /\ \A k \in Int : FourAt(lanes, first, c, k + 4) % Word =
                  ((FourAt(lanes, first, c, k) % Word) + 4 * c) % Word
PROOF
<1> DEFINE four(k) == lanes[k % 4] + ((k - first) \div 4) * Increment(c)
<1> USE DEF FourAt
<1>1. ASSUME NEW k \in Int
      PROVE  /\ k % 4 \in 0 .. 3 /\ lanes[k % 4] \in Int
             /\ (k - first) \div 4 \in Int
             /\ (k + 4) % 4 = k % 4
             /\ (k + 4 - first) \div 4 = (k - first) \div 4 + 1
  OBVIOUS
<1>2. Increment(c) = 4 * c /\ 4 * c \in Int
  BY DEF Increment
<1>3. \A i, s \in Int : (i + 1) * s = i * s + s /\ i * s \in Int
  OBVIOUS
<1>4. ASSUME NEW k \in Int
      PROVE  four(k) \in Int /\ four(k + 4) = four(k) + 4 * c
  BY <1>1, <1>2, <1>3
<1>5. ASSUME NEW l \in 0 .. 3
      PROVE  four(first + l) % Word = lanes[l]
  <2>1. (first + l) % 4 = l /\ ((first + l) - first) \div 4 = 0
    OBVIOUS
  <2>2. four(first + l) = lanes[l] + 0 * (4 * c)
    BY <1>2, <2>1
  <2>3. lanes[l] \in 0 .. Word - 1 /\ lanes[l] \in Int
    OBVIOUS
  <2>4. four(first + l) = lanes[l]
    <3> HIDE DEF four
    <3> QED
      BY <1>2, <2>2, <2>3
  <2> HIDE DEF four
  <2> QED
    BY <2>3, <2>4, WordSum
<1> HIDE DEF four
<1>6. ASSUME NEW k \in Int
      PROVE  /\ four(k) % Word \in 0 .. Word - 1
             /\ four(k + 4) % Word = ((four(k) % Word) + 4 * c) % Word
  <2> DEFINE a == four(k)
  <2>1. a \in Int /\ four(k + 4) = a + 4 * c
    BY <1>4
  <2> HIDE DEF a
  <2>2. /\ a % Word \in 0 .. Word - 1
        /\ ((a % Word) + 4 * c) % Word = (a + 4 * c) % Word
    BY <1>2, <2>1, WordSum
  <2> QED
    BY <2>1, <2>2 DEF a
<1> QED
  BY <1>4, <1>5, <1>6 DEF four

\* A part of a phasor~: in fours that follow one another, each sample is four
\* steps on from the one four before it.
LEMMA PhasorPart ==
    ASSUME NEW d, NEW m, NEW w, NEW register \in Int, NEW from \in Nat,
           NEW to \in Int, from <= to, to <= BlockSize,
           NEW f4, NEW e4, e4 => f4 /\ from % 4 = 0,
           PhasorOnCourse(d, m, from, f4), w.before = m.before,
           w.setBy = [k \in Part(0, BlockSize) |->
                         IF k \in Part(from, to) THEN d.constant
                         ELSE m.setBy[k]]
    PROVE  PhasorOnCourse(DspPhasor(d, from, to, register), w, to, e4)
PROOF
<1> DEFINE c == d.constant
           s == quarterOf(c)
           first == FirstFour(from)
           leading == first - from
           rest == (to - first) % 4
           end == to - rest
           idx == IF leading = 3 THEN d.indicies[0] ELSE register
           lanes == IF leading = 0 THEN d.indicies
                    ELSE Lanes(idx + leading * s, s)
           four(k) == FourAt(lanes, first, c, k)
           tail == IF rest = 3 THEN d.indicies[3] ELSE idx + leading * s
           place(k) == IF k < first THEN idx + (k - from) * s
                       ELSE IF k < end THEN four(k) ELSE tail + (k - end) * s
           out == [k \in DOMAIN d.out |->
                      IF k \in Part(from, to) THEN place(k) % Word ELSE d.out[k]]
           indicies == IF rest = 0
                       THEN [lane \in 0 .. 3 |-> four(end + lane) % Word]
                       ELSE Lanes(tail + rest * s, s)
           e == DspPhasor(d, from, to, register)
<1>1. /\ HasBuffer(d) /\ {"indicies", "constant"} \subseteq DOMAIN d
      /\ d.indicies \in [0 .. 3 -> 0 .. Word - 1] /\ c \in Int
      /\ BlockSize \in Nat
  BY DspAssumption DEF PhasorOnCourse
<1>2. e = [d EXCEPT !.out = out, !.indicies = indicies]
  BY DEF DspPhasor, FourAt
<1>3. /\ s \in Int /\ first \in Int /\ leading \in Int /\ rest \in Int
      /\ end \in Int /\ first % 4 = 0
  <2>1. first \in Int /\ first % 4 = 0 /\ leading \in Int
    BY DEF FirstFour
  <2>2. s \in Int
    <3>1. 4 * c \in Int
      BY <1>1
    <3>2. (4 * c) % Word \in Int
      BY <3>1 DEF Word
    <3> QED
      BY <3>2 DEF quarterOf
  <2>3. rest \in Int /\ end \in Int
    BY <2>1
  <2> QED
    BY <2>1, <2>2, <2>3
<1> HIDE DEF c, s, first, leading, rest, end, e
<1>4. idx \in Int /\ tail \in Int /\ lanes \in [0 .. 3 -> 0 .. Word - 1]
  <2>1. d.indicies[0] \in Int /\ d.indicies[3] \in Int
    BY <1>1
  <2>2. idx \in Int
    BY <2>1
  <2>3. leading * s \in Int
    BY <1>3
  <2> HIDE DEF idx
  <2>4. tail \in Int
    BY <1>3, <2>1, <2>2, <2>3
  <2>5. idx + leading * s \in Int
    BY <2>2, <2>3
  <2>6. Lanes(idx + leading * s, s) \in [0 .. 3 -> 0 .. Word - 1]
    BY <1>3, <2>5, LanesAreWords
  <2> QED
    BY <1>1, <2>2, <2>4, <2>6
<1> HIDE DEF idx, tail, lanes
<1>5. /\ \A k \in Int : four(k) % Word \in 0 .. Word - 1
      /\ \A l \in 0 .. 3 : four(first + l) % Word = lanes[l]
      /\ \A k \in Int : four(k + 4) % Word = ((four(k) % Word) + 4 * c) % Word
  <2> HIDE DEF four
  <2>1. c \in Int /\ first % 4 = 0 /\ first \in Int
    BY <1>1, <1>3
  <2>2. /\ \A k \in Int :
               FourAt(lanes, first, c, k) % Word \in 0 .. Word - 1
        /\ \A l \in 0 .. 3 :
               FourAt(lanes, first, c, first + l) % Word = lanes[l]
        /\ \A k \in Int : FourAt(lanes, first, c, k + 4) % Word =
               ((FourAt(lanes, first, c, k) % Word) + 4 * c) % Word
    BY <1>4, <2>1, FoursGoOn, ZenonT(60)
  <2> QED
    BY <2>2 DEF four
<1> HIDE DEF four
<1>6. indicies \in [0 .. 3 -> 0 .. Word - 1]
  <2>1. rest * s \in Int
    BY <1>3
  <2>2. tail + rest * s \in Int
    BY <1>4, <2>1
  <2>3. Lanes(tail + rest * s, s) \in [0 .. 3 -> 0 .. Word - 1]
    BY <1>3, <2>2, LanesAreWords
  <2>4. \A lane \in 0 .. 3 : end + lane \in Int
    BY <1>3
  <2> QED
    BY <1>5, <2>3, <2>4
<1>7. DOMAIN out = Part(0, BlockSize)
  BY <1>1 DEF HasBuffer
<1>8. \A k \in Part(0, from) : out[k] = d.out[k] /\ w.setBy[k] = m.setBy[k]
  BY <1>1, <1>7 DEF Part
<1>9. \A k \in Part(from, to) : k \in Part(0, BlockSize) /\ w.setBy[k] = c
  BY <1>1 DEF Part, c
<1>10. \A k \in Part(from, to) : out[k] = place(k) % Word
  BY <1>7, <1>9
<1>11. ASSUME e4, to % 4 = 0
       PROVE  /\ \A k \in Part(from, to) : out[k] = four(k) % Word
              /\ \A l \in 0 .. 3 : indicies[l] = four(to + l) % Word
              /\ \A l \in 0 .. 3 : four(from + l) % Word = d.indicies[l]
  <2>1. first = from /\ leading = 0 /\ rest = 0
    <3>1. from \in Int /\ from % 4 = 0
      BY <1>11
    <3>2. first = from /\ first - from = 0 /\ (to - first) % 4 = 0
      BY <1>11, <3>1, AllInFours DEF first
    <3> QED
      BY <3>2 DEF leading, rest
  <2>2. end = to /\ lanes = d.indicies
    BY <2>1 DEF end, lanes
  <2>3. \A k \in Part(from, to) : ~ (k < first) /\ k < end
    BY <2>1, <2>2 DEF Part
  <2> QED
    BY <1>5, <1>10, <2>1, <2>2, <2>3
<1> HIDE DEF out, indicies, place
<1>12. /\ HasBuffer(e) /\ {"indicies", "constant"} \subseteq DOMAIN e
       /\ e.out = out /\ e.indicies = indicies /\ e.constant = c
  BY <1>1, <1>2, <1>7 DEF HasBuffer, c
<1>13. ASSUME e4, to % 4 = 0
       PROVE  /\ \A k \in 4 .. to - 1 :
                     out[k] = (out[k - 4] + 4 * w.setBy[k - 4]) % Word
              /\ to > 0 => \A l \in 0 .. 3 :
                     indicies[l] = (out[to - 4 + l] + 4 * w.setBy[to - 4 + l])
                                       % Word
              /\ from > 0 => \A l \in 0 .. 3 : out[l] = d.out[l]
              /\ from = 0 /\ to > 0 => \A l \in 0 .. 3 : out[l] = d.indicies[l]
              /\ to = 0 => \A l \in 0 .. 3 : indicies[l] = d.indicies[l]
  <2>1. /\ \A k \in Part(from, to) : out[k] = four(k) % Word
        /\ \A l \in 0 .. 3 : indicies[l] = four(to + l) % Word
        /\ \A l \in 0 .. 3 : four(from + l) % Word = d.indicies[l]
    BY <1>11, <1>13
  <2>2. f4 /\ from % 4 = 0
    BY <1>13
  <2>3. /\ \A k \in 4 .. from - 1 :
               d.out[k] = (d.out[k - 4] + 4 * m.setBy[k - 4]) % Word
        /\ from > 0 => \A l \in 0 .. 3 : d.indicies[l] =
               (d.out[from - 4 + l] + 4 * m.setBy[from - 4 + l]) % Word
    BY <2>2 DEF PhasorOnCourse
  <2>4. (from > 0 => from >= 4) /\ (from < to => from + 4 <= to)
    BY <1>13, <2>2
  <2>5. ASSUME NEW k \in Int, from <= k - 4, k - 4 < to
        PROVE  four(k) % Word = (out[k - 4] + 4 * w.setBy[k - 4]) % Word
    <3>1. k - 4 \in Part(from, to) /\ k - 4 \in Int /\ k = (k - 4) + 4
      BY <2>5 DEF Part
    <3>2. out[k - 4] = four(k - 4) % Word /\ w.setBy[k - 4] = c
      BY <1>9, <2>1, <3>1
    <3>3. four((k - 4) + 4) % Word = ((four(k - 4) % Word) + 4 * c) % Word
      BY <1>5, <3>1
    <3> QED
      BY <3>1, <3>2, <3>3
  <2>6. ASSUME NEW k \in 4 .. to - 1
        PROVE  out[k] = (out[k - 4] + 4 * w.setBy[k - 4]) % Word
    <3>1. CASE k < from
      <4>1. k \in Part(0, from) /\ k - 4 \in Part(0, from) /\ k \in 4 .. from - 1
        BY <3>1 DEF Part
      <4> QED
        BY <1>8, <2>3, <4>1
    <3>2. CASE from <= k /\ k - 4 < from
      <4> DEFINE l == k - from
      <4>1. /\ l \in 0 .. 3 /\ k = from + l /\ k - 4 = from - 4 + l
            /\ k \in Part(from, to) /\ k - 4 \in Part(0, from) /\ from > 0
        BY <3>2 DEF Part
      <4> HIDE DEF l
      <4>2. out[k] = d.indicies[l]
        BY <2>1, <4>1
      <4>3. d.indicies[l] = (d.out[k - 4] + 4 * m.setBy[k - 4]) % Word
        BY <2>3, <4>1
      <4>4. d.out[k - 4] = out[k - 4] /\ m.setBy[k - 4] = w.setBy[k - 4]
        BY <1>8, <4>1
      <4> QED
        BY <4>2, <4>3, <4>4
    <3>3. CASE from <= k - 4
      <4>1. k \in Part(from, to) /\ k \in Int /\ k - 4 < to
        BY <3>3 DEF Part
      <4> QED
        BY <2>1, <2>5, <3>3, <4>1
    <3> QED
      BY <3>1, <3>2, <3>3
  <2>7. ASSUME to > 0, NEW l \in 0 .. 3
        PROVE  indicies[l] = (out[to - 4 + l] + 4 * w.setBy[to - 4 + l]) % Word
    <3>1. CASE from < to
      <4>1. /\ to + l \in Int /\ from <= to + l - 4 /\ to + l - 4 < to
            /\ to + l - 4 = to - 4 + l
        BY <2>4, <3>1
      <4> QED
        BY <2>1, <2>5, <4>1
    <3>2. CASE from = to
      <4>1. to - 4 + l \in Part(0, from)
        BY <2>4, <2>7, <3>2 DEF Part
      <4> QED
        BY <1>8, <2>1, <2>3, <2>7, <3>2, <4>1
    <3> QED
      BY <3>1, <3>2
  <2>8. from > 0 => \A l \in 0 .. 3 : out[l] = d.out[l]
    <3>1. from > 0 => \A l \in 0 .. 3 : l \in Part(0, from)
      BY <2>4 DEF Part
    <3> QED
      BY <1>8, <3>1
  <2>9. from = 0 /\ to > 0 => \A l \in 0 .. 3 : out[l] = d.indicies[l]
    BY <2>4, <2>1 DEF Part
  <2>10. to = 0 => \A l \in 0 .. 3 : indicies[l] = d.indicies[l]
    <3>1. to = 0 => from = to
      OBVIOUS
    <3> QED
      BY <2>1, <3>1
  <2> QED
    BY <2>6, <2>7, <2>8, <2>9, <2>10
<1> DEFINE next(l) == (m.before.out[BlockSize - 4 + l]
                         + 4 * m.before.setBy[BlockSize - 4 + l]) % Word
           linked == m.before.ran /\ m.before.whole
<1>14. ASSUME e4, to % 4 = 0, linked, NEW l \in 0 .. 3
       PROVE  IF to > 0 THEN out[l] = next(l) ELSE indicies[l] = next(l)
  <2>1. IF from > 0 THEN d.out[l] = next(l) ELSE d.indicies[l] = next(l)
    <3>1. f4 /\ from % 4 = 0
      BY <1>14
    <3> QED
      BY <1>14, <3>1 DEF PhasorOnCourse
  <2> HIDE DEF next, linked
  <2> QED
    BY <1>13, <1>14, <2>1
<1>15. ASSUME e4, to % 4 = 0
       PROVE  /\ \A k \in 4 .. to - 1 :
                     e.out[k] = (e.out[k - 4] + 4 * w.setBy[k - 4]) % Word
              /\ \A l \in 0 .. 3 :
                     /\ linked => IF to > 0 THEN e.out[l] = next(l)
                                            ELSE e.indicies[l] = next(l)
                     /\ to > 0 => e.indicies[l] =
                            (e.out[to - 4 + l] + 4 * w.setBy[to - 4 + l]) % Word
  <2> HIDE DEF next, linked
  <2> QED
    BY <1>12, <1>13, <1>14, <1>15
<1>16. PhasorOnCourse(e, w, to, e4)
  <2>1. e.indicies \in [0 .. 3 -> 0 .. Word - 1] /\ e.constant \in Int
    BY <1>1, <1>6, <1>12 DEF c, indicies
  <2> QED
    BY <1>12, <1>15, <2>1, ZenonT(60) DEF PhasorOnCourse
<1> QED
  BY <1>16 DEF e

\* A new step counts from then on.
LEMMA PhasorTold ==
    ASSUME NEW d, NEW m, NEW w, NEW n, NEW e4, NEW c \in Int,
           PhasorOnCourse(d, m, n, e4), w.before = m.before, w.setBy = m.setBy
    PROVE  PhasorOnCourse([d EXCEPT !.constant = c], w, n, e4)
PROOF
<1> DEFINE e == [d EXCEPT !.constant = c]
<1>1. /\ HasBuffer(d) /\ {"indicies", "constant"} \subseteq DOMAIN d
  BY DEF PhasorOnCourse
<1>2. /\ HasBuffer(e) /\ {"indicies", "constant"} \subseteq DOMAIN e
      /\ e.out = d.out /\ e.indicies = d.indicies /\ e.constant = c
  BY <1>1 DEF HasBuffer
<1> HIDE DEF e
<1>3. PhasorOnCourse(e, w, n, e4)
  BY <1>2 DEF PhasorOnCourse
<1> QED
  BY <1>3 DEF e

\* The next block goes on from the lanes that are left.
LEMMA PhasorNextBlock ==
    ASSUME NEW d, NEW m, NEW w, NEW e4, NEW f4,
           PhasorOnCourse(d, m, BlockSize, e4),
           w.before.out = d.out, w.before.setBy = m.setBy,
           w.before.whole => e4
    PROVE  PhasorOnCourse(d, w, 0, f4)
PROOF
<1>1. BlockSize \in Nat /\ BlockSize > 0 /\ BlockSize % 4 = 0
  <2>1. BlockSize \in Nat /\ BlockSize > 0 /\ BlockSize % 8 = 0
    BY DspAssumption, SignalAssumption
  <2> QED
    BY <2>1
<1>2. w.before.whole =>
          \A l \in 0 .. 3 : d.indicies[l] =
              (w.before.out[BlockSize - 4 + l]
                 + 4 * w.before.setBy[BlockSize - 4 + l]) % Word
  BY <1>1 DEF PhasorOnCourse
<1>3. (\A k \in 4 .. 0 - 1 : FALSE) /\ ~ (0 > 0)
  OBVIOUS
<1> QED
  BY <1>2, <1>3 DEF PhasorOnCourse

\* A new phasor~ has nothing to go on from.
LEMMA NewPhasorOnCourse ==
    ASSUME NEW a \in Seq(Int), NEW w, ~ w.before.ran, NEW e4
    PROVE  PhasorOnCourse(NewDspPhasor(a, zeros, Outside), w, 0, e4)
PROOF
<1> DEFINE d == NewDspPhasor(a, zeros, Outside)
           c == ArgumentOr(a, 1, 0)
           indicies == [lane \in 0 .. 3 |-> Outside % Word]
<1>1. c \in Int
  <2>1. Len(a) \in Nat /\ \A i \in 1 .. Len(a) : a[i] \in Int
    OBVIOUS
  <2> QED
    BY <2>1 DEF ArgumentOr
<1>2. indicies \in [0 .. 3 -> 0 .. Word - 1]
  <2>1. Outside \in Int
    BY SignalAssumption
  <2>2. Outside % Word \in 0 .. Word - 1
    BY <2>1, WordSum
  <2> QED
    BY <2>2
<1> HIDE DEF c, indicies
<1>3. d = [lets |-> <<2, 2, 0, 1>>, functions |-> Scalar,
           indicies |-> indicies, constant |-> c, out |-> zeros]
  BY DEF NewDspPhasor, c, indicies
<1>4. DOMAIN zeros = Part(0, BlockSize)
  BY DEF zeros
<1> HIDE DEF d
<1>5. /\ HasBuffer(d) /\ {"indicies", "constant"} \subseteq DOMAIN d
      /\ d.indicies = indicies /\ d.constant = c
  BY <1>3, <1>4 DEF HasBuffer
<1>6. (\A k \in 4 .. 0 - 1 : FALSE) /\ ~ (0 > 0)
  OBVIOUS
<1>7. PhasorOnCourse(d, w, 0, e4)
  BY <1>1, <1>2, <1>5, <1>6 DEF PhasorOnCourse
<1> QED
  BY <1>7 DEF d

-----------------------------------------------------------------------------
(* phasor~ with audio at its inlet.                                        *)

\* A non-empty set of numbers has a least one.
LEMMA FirstOf ==
    ASSUME NEW T, T \subseteq Nat, T # {}
    PROVE  \E i \in T : \A j \in T : i <= j
PROOF
<1> DEFINE R == OpToRel(<, Nat)
<1>1. IsWellFoundedOn(R, Nat)
  BY NatLessThanWellFounded
<1>2. \A i, j \in Nat : <<i, j>> \notin R => j <= i
  BY DEF OpToRel
<1> HIDE DEF R
<1>3. \E i \in T : \A j \in T : ~ (<<j, i>> \in R)
  BY <1>1, WFMin
<1> QED
  BY <1>2, <1>3

\* The index at each sample of the first n.
IndexOf(d, x, index, k) ==
    IF k = -1 THEN d.indicies[3] ELSE (index[k - 1] + x[1][k]) % Word

IsIndex(d, x, index, n) ==
    index = [k \in -1 .. n - 1 |-> IndexOf(d, x, index, k)]

\* There are such indices, whatever the length.
LEMMA IndexIsDefined ==
    ASSUME NEW d, NEW x, NEW n \in Nat
    PROVE  \E index : IsIndex(d, x, index, n)
PROOF
<1> DEFINE Undefined == {i \in Nat : ~ \E index : IsIndex(d, x, index, i)}
<1>1. SUFFICES ASSUME Undefined # {}
               PROVE  FALSE
  OBVIOUS
<1>2. PICK i \in Undefined : \A j \in Undefined : i <= j
  <2>1. Undefined \subseteq Nat
    OBVIOUS
  <2> HIDE DEF Undefined
  <2> QED
    BY <1>1, <2>1, FirstOf
<1>3. i # 0
  <2> DEFINE first == [k \in -1 .. 0 - 1 |-> d.indicies[3]]
  <2>1. \A k \in -1 .. 0 - 1 : IndexOf(d, x, first, k) = d.indicies[3]
    BY DEF IndexOf
  <2>2. IsIndex(d, x, first, 0)
    BY <2>1 DEF IsIndex
  <2> QED
    BY <2>2
<1>4. i - 1 \in Nat /\ i - 1 \notin Undefined
  BY <1>2, <1>3
<1>5. PICK index : IsIndex(d, x, index, i - 1)
  BY <1>4
<1> DEFINE longer == [k \in -1 .. i - 1 |-> IndexOf(d, x, index, k)]
<1>6. ASSUME NEW k \in -1 .. i - 1
      PROVE  IndexOf(d, x, index, k) = IndexOf(d, x, longer, k)
  <2>1. CASE k = -1
    BY <2>1 DEF IndexOf
  <2>2. CASE k # -1
    <3>1. k - 1 \in -1 .. (i - 1) - 1 /\ k - 1 \in -1 .. i - 1
      BY <2>2, <1>4
    <3>2. index[k - 1] = IndexOf(d, x, index, k - 1)
      BY <3>1, <1>5 DEF IsIndex
    <3>3. longer[k - 1] = index[k - 1]
      BY <3>1, <3>2
    <3> HIDE DEF longer
    <3> QED
      BY <3>3 DEF IndexOf
  <2> QED
    BY <2>1, <2>2
<1>7. IsIndex(d, x, longer, i)
  BY <1>6 DEF IsIndex
<1> QED
  BY <1>7

\* A block with audio at the inlet.
LEMMA PhasorHears ==
    ASSUME NEW d, NEW m, NEW w, NEW x,
           PhasorHearsItsInlet(d, m, 0, x[1]), w.before = m.before
    PROVE  PhasorHearsItsInlet(DspPhasorSignal(d, x, BlockSize), w, BlockSize,
                               x[1])
PROOF
<1> DEFINE index == CHOOSE f : IsIndex(d, x, f, BlockSize)
           out == [k \in DOMAIN d.out |-> IF k < BlockSize THEN index[k]
                                          ELSE d.out[k]]
           indicies == [lane \in 0 .. 3 |-> index[BlockSize - 4 + lane]]
           e == DspPhasorSignal(d, x, BlockSize)
<1>1. /\ HasBuffer(d) /\ "indicies" \in DOMAIN d /\ BlockSize \in Nat
      /\ BlockSize > 0
  BY DspAssumption DEF PhasorHearsItsInlet
<1>2. IsIndex(d, x, index, BlockSize)
  BY <1>1, IndexIsDefined
<1>3. e = [d EXCEPT !.out = out, !.indicies = indicies]
  BY DEF DspPhasorSignal, IsIndex, IndexOf
<1> HIDE DEF index, e
<1>4. /\ index[-1] = d.indicies[3]
      /\ \A k \in Part(0, BlockSize) : index[k] = (index[k - 1] + x[1][k]) % Word
  BY <1>1, <1>2 DEF IsIndex, IndexOf, Part
<1>5. DOMAIN out = Part(0, BlockSize)
  BY <1>1 DEF HasBuffer
<1>6. \A k \in Part(0, BlockSize) : out[k] = index[k]
  BY <1>1, <1>5 DEF Part
<1>7. indicies[3] = index[BlockSize - 1]
  BY <1>1
<1> HIDE DEF out, indicies
<1>8. /\ HasBuffer(e) /\ "indicies" \in DOMAIN e
      /\ e.out = out /\ e.indicies = indicies
  BY <1>1, <1>3, <1>5 DEF HasBuffer
<1>9. /\ 0 \in Part(0, BlockSize) /\ BlockSize - 1 \in Part(0, BlockSize)
      /\ \A k \in 1 .. BlockSize - 1 : /\ k \in Part(0, BlockSize)
                                       /\ k - 1 \in Part(0, BlockSize)
  BY <1>1 DEF Part
<1>10. e.indicies[3] = e.out[BlockSize - 1]
  BY <1>6, <1>7, <1>8, <1>9
<1>11. \A k \in 1 .. BlockSize - 1 : e.out[k] = (e.out[k - 1] + x[1][k]) % Word
  BY <1>4, <1>6, <1>8, <1>9
<1>12. m.before.ran /\ m.before.whole =>
           e.out[0] = (m.before.out[BlockSize - 1] + x[1][0]) % Word
  <2>1. m.before.ran /\ m.before.whole =>
            d.indicies[3] = m.before.out[BlockSize - 1]
    BY DEF PhasorHearsItsInlet
  <2>2. index[0] = (index[-1] + x[1][0]) % Word
    <3>1. 0 - 1 = -1
      OBVIOUS
    <3> QED
      BY <1>4, <1>9, <3>1
  <2> QED
    BY <1>4, <1>6, <1>8, <1>9, <2>1, <2>2
<1>13. PhasorHearsItsInlet(e, w, BlockSize, x[1])
  BY <1>1, <1>8, <1>10, <1>11, <1>12 DEF PhasorHearsItsInlet
<1> QED
  BY <1>13 DEF e

\* Steps are not looked at.
LEMMA PhasorHearsNone ==
    ASSUME NEW d, NEW m, NEW w, NEW n, NEW x, NEW message,
           PhasorHearsItsInlet(d, m, n, x), w.before = m.before
    PROVE  PhasorHearsItsInlet(TakesStep(d, message), w, n, x)
PROOF
  BY DEF PhasorHearsItsInlet, TakesStep, HasBuffer

\* The next block goes on from the last index.
LEMMA PhasorHearsNextBlock ==
    ASSUME NEW d, NEW m, NEW w, NEW x, NEW y,
           PhasorHearsItsInlet(d, m, BlockSize, x), w.before.out = d.out
    PROVE  PhasorHearsItsInlet(d, w, 0, y)
PROOF
<1>1. BlockSize > 0
  BY DspAssumption
<1>2. d.indicies[3] = w.before.out[BlockSize - 1]
  BY <1>1 DEF PhasorHearsItsInlet
<1> QED
  BY <1>2 DEF PhasorHearsItsInlet

\* A new phasor~ has nothing to go on from.
LEMMA NewPhasorHears ==
    ASSUME NEW a, NEW w, ~ w.before.ran, NEW x
    PROVE  PhasorHearsItsInlet(NewDspPhasor(a, zeros, Outside), w, 0, x)
PROOF
  BY DEF zeros, HasBuffer, NewDspPhasor, PhasorHearsItsInlet

-----------------------------------------------------------------------------
(* lop~, hip~ and bp~.                                                     *)

\* A sample of the output, of the last of the input and of the output.
Filtered(b, x0, x1, x2, y1, y2) ==
    b[1] * x0 + b[2] * x1 + b[3] * x2 - b[4] * y1 - b[5] * y2

\* An output with the one before it.
LastTwoOf(d, in, lastTwo, i) ==
    IF i = 1 THEN <<d.y2, d.y1>>
    ELSE LET y == lastTwo[i - 1]
         IN  <<y[2], d.constant[1] * in[i] + d.constant[2] * in[i - 1]
                       + d.constant[3] * in[i - 2]
                       - d.constant[4] * y[2] - d.constant[5] * y[1]>>

IsLastTwo(d, in, lastTwo, n) ==
    lastTwo = [i \in 1 .. n + 1 |-> LastTwoOf(d, in, lastTwo, i)]

\* There are such outputs, whatever the length.
LEMMA LastTwoIsDefined ==
    ASSUME NEW d, NEW in, NEW n \in Nat
    PROVE  \E lastTwo : IsLastTwo(d, in, lastTwo, n)
PROOF
<1> DEFINE Undefined == {i \in Nat : ~ \E f : IsLastTwo(d, in, f, i)}
<1>1. SUFFICES ASSUME Undefined # {}
               PROVE  FALSE
  OBVIOUS
<1>2. PICK i \in Undefined : \A j \in Undefined : i <= j
  <2>1. Undefined \subseteq Nat
    OBVIOUS
  <2> HIDE DEF Undefined
  <2> QED
    BY <1>1, <2>1, FirstOf
<1>3. i # 0
  <2> DEFINE first == [k \in 1 .. 0 + 1 |-> <<d.y2, d.y1>>]
  <2>1. \A k \in 1 .. 0 + 1 : LastTwoOf(d, in, first, k) = <<d.y2, d.y1>>
    BY DEF LastTwoOf
  <2>2. IsLastTwo(d, in, first, 0)
    BY <2>1 DEF IsLastTwo
  <2> QED
    BY <2>2
<1>4. i - 1 \in Nat /\ i - 1 \notin Undefined
  BY <1>2, <1>3
<1>5. PICK f : IsLastTwo(d, in, f, i - 1)
  BY <1>4
<1> DEFINE longer == [k \in 1 .. i + 1 |-> LastTwoOf(d, in, f, k)]
<1>6. ASSUME NEW k \in 1 .. i + 1
      PROVE  LastTwoOf(d, in, f, k) = LastTwoOf(d, in, longer, k)
  <2>1. CASE k = 1
    BY <2>1 DEF LastTwoOf
  <2>2. CASE k # 1
    <3>1. k - 1 \in 1 .. (i - 1) + 1 /\ k - 1 \in 1 .. i + 1
      BY <2>2, <1>4
    <3>2. f[k - 1] = LastTwoOf(d, in, f, k - 1)
      BY <3>1, <1>5 DEF IsLastTwo
    <3>3. longer[k - 1] = f[k - 1]
      BY <3>1, <3>2
    <3> HIDE DEF longer
    <3> QED
      BY <3>3 DEF LastTwoOf
  <2> QED
    BY <2>1, <2>2
<1>7. IsLastTwo(d, in, longer, i)
  BY <1>6 DEF IsLastTwo
<1> QED
  BY <1>7

\* A function that keeps the last two outputs keeps them at each sample.
LEMMA LastTwoGives ==
    ASSUME NEW d, NEW in, NEW f, NEW n \in Nat, IsLastTwo(d, in, f, n)
    PROVE  /\ \A i \in 1 .. n + 1 : f[i] = LastTwoOf(d, in, f, i)
           /\ 1 \in 1 .. n + 1
PROOF
<1>1. f = [i \in 1 .. n + 1 |-> LastTwoOf(d, in, f, i)]
  BY DEF IsLastTwo
<1>2. 1 \in 1 .. n + 1
  OBVIOUS
<1>3. ASSUME NEW i \in 1 .. n + 1
      PROVE  f[i] = LastTwoOf(d, in, f, i)
  BY <1>1
<1> QED
  BY <1>2, <1>3

\* What is before a part's samples is what its object kept.
LEMMA FilterPart ==
    ASSUME NEW d, NEW m, NEW w, NEW x, NEW t \in Int, NEW from \in Nat,
           NEW to \in Int, from <= to, to <= BlockSize,
           \A k \in Part(0, BlockSize) : x[1][k] = Host(t + k),
           FilterOnCourse(d, m, from, t), w.before = m.before,
           w.disturbed <=> m.disturbed,
           w.setBy = [k \in Part(0, BlockSize) |->
                         IF k \in Part(from, to) THEN d.constant
                         ELSE m.setBy[k]]
    PROVE  FilterOnCourse(DspFilter(d, x, from, to), w, to, t)
PROOF
<1> DEFINE n == to - from
           b == d.constant
           in == [i \in 0 .. n + 1 |->
               CASE i = 0 -> d.x2 [] i = 1 -> d.x1
                 [] OTHER -> x[1][from + i - 2]]
           lastTwo == CHOOSE f : IsLastTwo(d, in, f, n)
           y == [i \in 0 .. n + 1 |-> IF i = 0 THEN d.y2 ELSE lastTwo[i][2]]
           out == [k \in DOMAIN d.out |->
                      IF k \in Part(from, to) THEN y[k - from + 2]
                      ELSE d.out[k]]
           e == DspFilter(d, x, from, to)
<1>1. /\ HasBuffer(d)
      /\ {"x1", "x2", "y1", "y2", "constant"} \subseteq DOMAIN d
      /\ BlockSize \in Nat /\ n \in Nat /\ to = from + n
  BY DspAssumption DEF FilterOnCourse
<1>2. IsLastTwo(d, in, lastTwo, n)
  <2> HIDE DEF in, n
  <2> QED
    BY <1>1, LastTwoIsDefined
<1>3. e = Retain([d EXCEPT !.out = out], [x |-> in, y |-> y], n)
  BY DEF DspFilter, IsLastTwo, LastTwoOf
<1> HIDE DEF e, lastTwo
<1>4. /\ in[0] = d.x2 /\ in[1] = d.x1
      /\ \A i \in 2 .. n + 1 : in[i] = x[1][from + i - 2]
  BY <1>1
<1>5. DOMAIN out = Part(0, BlockSize)
  BY <1>1 DEF HasBuffer
<1>6. \A k \in Part(0, from) : out[k] = d.out[k] /\ w.setBy[k] = m.setBy[k]
  BY <1>1, <1>5 DEF Part
<1>7. \A k \in Part(from, to) : k \in Part(0, BlockSize) /\ w.setBy[k] = b
  BY <1>1 DEF Part
<1>8. \A k \in Part(from, to) : out[k] = y[k - from + 2]
  BY <1>5, <1>7
<1> HIDE DEF in
<1>9. /\ y[0] = d.y2 /\ y[1] = d.y1
      /\ \A i \in 2 .. n + 1 :
             y[i] = Filtered(b, in[i], in[i - 1], in[i - 2], y[i - 1], y[i - 2])
  <2> HIDE DEF n
  <2>1. /\ \A i \in 1 .. n + 1 : lastTwo[i] = LastTwoOf(d, in, lastTwo, i)
        /\ 1 \in 1 .. n + 1
    BY <1>1, <1>2, LastTwoGives
  <2>2. lastTwo[1] = <<d.y2, d.y1>>
    BY <2>1 DEF LastTwoOf
  <2>3. /\ y[0] = d.y2
        /\ \A i \in 1 .. n + 1 : y[i] = lastTwo[i][2]
    BY <1>1
  <2> HIDE DEF y
  <2>4. \A i \in 2 .. n + 1 :
            /\ lastTwo[i][1] = lastTwo[i - 1][2]
            /\ lastTwo[i][2] = Filtered(b, in[i], in[i - 1], in[i - 2],
                                        lastTwo[i - 1][2], lastTwo[i - 1][1])
    <3> SUFFICES ASSUME NEW i \in 2 .. n + 1
                 PROVE  /\ lastTwo[i][1] = lastTwo[i - 1][2]
                        /\ lastTwo[i][2] =
                               Filtered(b, in[i], in[i - 1], in[i - 2],
                                        lastTwo[i - 1][2], lastTwo[i - 1][1])
      OBVIOUS
    <3>1. i \in 1 .. n + 1 /\ i # 1
      BY <1>1
    <3>2. lastTwo[i] =
              <<lastTwo[i - 1][2],
                Filtered(b, in[i], in[i - 1], in[i - 2],
                         lastTwo[i - 1][2], lastTwo[i - 1][1])>>
      BY <2>1, <3>1, Zenon DEF LastTwoOf, Filtered
    <3> QED
      BY <3>2
  <2>5. \A i \in 1 .. n + 1 : lastTwo[i][1] = y[i - 1]
    <3> SUFFICES ASSUME NEW i \in 1 .. n + 1
                 PROVE  lastTwo[i][1] = y[i - 1]
      OBVIOUS
    <3>1. CASE i = 1
      BY <2>2, <2>3, <3>1
    <3>2. CASE i # 1
      <4>1. i \in 2 .. n + 1 /\ i - 1 \in 1 .. n + 1
        BY <1>1, <3>2
      <4> QED
        BY <2>3, <2>4, <4>1
    <3> QED
      BY <3>1, <3>2
  <2>6. \A i \in 2 .. n + 1 : /\ i \in 1 .. n + 1 /\ i - 1 \in 1 .. n + 1
                              /\ (i - 1) - 1 = i - 2
    BY <1>1
  <2>7. ASSUME NEW i \in 2 .. n + 1
        PROVE  y[i] = Filtered(b, in[i], in[i - 1], in[i - 2],
                               y[i - 1], y[i - 2])
    BY <2>3, <2>4, <2>5, <2>6, <2>7
  <2> QED
    BY <2>1, <2>2, <2>3, <2>7
<1> HIDE DEF out, y
<1>10. /\ HasBuffer(e)
       /\ {"x1", "x2", "y1", "y2", "constant"} \subseteq DOMAIN e
       /\ e.out = out
       /\ e.x1 = in[n + 1] /\ e.x2 = in[n] /\ e.y1 = y[n + 1] /\ e.y2 = y[n]
  BY <1>1, <1>3, <1>5 DEF HasBuffer, Retain
<1>11. w.disturbed => FilterOnCourse(e, w, to, t)
  BY <1>10 DEF FilterOnCourse
<1>12. ASSUME ~ w.disturbed
       PROVE  FilterOnCourse(e, w, to, t)
  <2>1. /\ d.x1 = Host(t + from - 1) /\ d.x2 = Host(t + from - 2)
        /\ d.y1 = OutputOf(d, m, from - 1) /\ d.y2 = OutputOf(d, m, from - 2)
        /\ \A k \in Part(0, from) :
               d.out[k] = Filtered(m.setBy[k], Host(t + k), Host(t + k - 1),
                                   Host(t + k - 2), OutputOf(d, m, k - 1),
                                   OutputOf(d, m, k - 2))
    BY <1>12, Zenon DEF FilterOnCourse, Filtered
  <2>2. ASSUME NEW i \in 0 .. n + 1
        PROVE  in[i] = Host(t + (from + i - 2))
    <3>1. CASE i = 0
      <4>1. t + (from + i - 2) = t + from - 2
        BY <3>1
      <4> QED
        BY <1>4, <2>1, <3>1, <4>1
    <3>2. CASE i = 1
      <4>1. t + (from + i - 2) = t + from - 1
        BY <3>2
      <4> QED
        BY <1>4, <2>1, <3>2, <4>1
    <3>3. CASE i # 0 /\ i # 1
      <4>1. i \in 2 .. n + 1 /\ from + i - 2 \in Part(0, BlockSize)
        BY <1>1, <3>3 DEF Part
      <4> QED
        BY <1>4, <4>1
    <3> QED
      BY <3>1, <3>2, <3>3
  <2>3. ASSUME NEW k \in Int, k < from
        PROVE  OutputOf(d, m, k) = OutputOf(e, w, k)
    <3>1. k < 0 \/ k \in Part(0, from)
      BY <2>3 DEF Part
    <3> QED
      BY <1>6, <1>10, <3>1 DEF OutputOf
  <2>4. ASSUME NEW i \in 0 .. n + 1
        PROVE  y[i] = OutputOf(e, w, from + i - 2)
    <3>1. CASE i = 0
      <4>1. from + i - 2 = from - 2 /\ from - 2 \in Int /\ from - 2 < from
        BY <3>1
      <4> QED
        BY <1>9, <2>1, <2>3, <3>1, <4>1
    <3>2. CASE i = 1
      BY <3>2, <1>9, <2>1, <2>3
    <3>3. CASE i # 0 /\ i # 1
      <4> DEFINE k == from + i - 2
      <4>1. k \in Part(from, to) /\ ~ (k < 0) /\ k - from + 2 = i
        BY <1>1, <3>3 DEF Part
      <4>2. out[k] = y[i]
        BY <1>8, <4>1
      <4> QED
        BY <1>10, <4>1, <4>2 DEF OutputOf
    <3> QED
      BY <3>1, <3>2, <3>3
  <2>5. ASSUME NEW k \in Part(0, to)
        PROVE  e.out[k] = Filtered(w.setBy[k], Host(t + k), Host(t + k - 1),
                                   Host(t + k - 2), OutputOf(e, w, k - 1),
                                   OutputOf(e, w, k - 2))
    <3>1. k \in Int /\ 0 <= k /\ k < to
      BY DEF Part
    <3>2. CASE k < from
      <4>1. k \in Part(0, from) /\ k - 1 \in Int /\ k - 2 \in Int
            /\ k - 1 < from /\ k - 2 < from
        BY <3>1, <3>2 DEF Part
      <4>2. OutputOf(d, m, k - 1) = OutputOf(e, w, k - 1)
        BY <2>3, <4>1
      <4>3. OutputOf(d, m, k - 2) = OutputOf(e, w, k - 2)
        BY <2>3, <4>1
      <4> QED
        BY <1>6, <1>10, <2>1, <4>1, <4>2, <4>3
    <3>3. CASE from <= k
      <4> DEFINE i == k - from + 2
      <4>1. /\ i \in 2 .. n + 1
            /\ i \in 0 .. n + 1 /\ i - 1 \in 0 .. n + 1 /\ i - 2 \in 0 .. n + 1
            /\ k \in Part(from, to)
            /\ from + i - 2 = k /\ from + (i - 1) - 2 = k - 1
            /\ from + (i - 2) - 2 = k - 2
            /\ t + (k - 1) = t + k - 1 /\ t + (k - 2) = t + k - 2
        BY <1>1, <3>1, <3>3 DEF Part
      <4> HIDE DEF i
      <4>2. out[k] = y[i]
        BY <1>8, <4>1 DEF i
      <4>3. /\ in[i] = Host(t + k) /\ in[i - 1] = Host(t + k - 1)
            /\ in[i - 2] = Host(t + k - 2)
        BY <2>2, <4>1
      <4>4. /\ y[i - 1] = OutputOf(e, w, k - 1)
            /\ y[i - 2] = OutputOf(e, w, k - 2)
        BY <2>4, <4>1
      <4>5. y[i] = Filtered(b, in[i], in[i - 1], in[i - 2], y[i - 1], y[i - 2])
        BY <1>9, <4>1
      <4> QED
        BY <1>7, <1>10, <4>1, <4>2, <4>3, <4>4, <4>5
    <3> QED
      BY <3>1, <3>2, <3>3
  <2>6. /\ e.x1 = Host(t + to - 1) /\ e.x2 = Host(t + to - 2)
        /\ e.y1 = OutputOf(e, w, to - 1) /\ e.y2 = OutputOf(e, w, to - 2)
    <3>1. /\ n + 1 \in 0 .. n + 1 /\ n \in 0 .. n + 1
          /\ t + (from + (n + 1) - 2) = t + to - 1
          /\ t + (from + n - 2) = t + to - 2
          /\ from + (n + 1) - 2 = to - 1 /\ from + n - 2 = to - 2
      BY <1>1
    <3> HIDE DEF n
    <3>2. in[n + 1] = Host(t + to - 1) /\ in[n] = Host(t + to - 2)
      BY <2>2, <3>1
    <3>3. y[n + 1] = OutputOf(e, w, to - 1) /\ y[n] = OutputOf(e, w, to - 2)
      BY <2>4, <3>1
    <3> QED
      BY <1>10, <3>2, <3>3
  <2>7. \A k \in Part(0, to) :
            LET c == w.setBy[k]
            IN  e.out[k] = c[1] * Host(t + k) + c[2] * Host(t + k - 1)
                             + c[3] * Host(t + k - 2)
                             - c[4] * OutputOf(e, w, k - 1)
                             - c[5] * OutputOf(e, w, k - 2)
    BY <2>5, Zenon DEF Filtered
  <2>8. FilterOnCourse(e, w, to, t)
    BY <1>10, <2>6, <2>7, Zenon DEF FilterOnCourse
  <2> QED
    BY <2>8
<1> QED
  BY <1>11, <1>12 DEF e

\* A message sets the coefficients, or clears, after which nothing is said.
LEMMA FilterTold ==
    ASSUME NEW d, NEW m, NEW w, NEW t, NEW n, NEW message,
           FilterOnCourse(d, m, n, t), w.before = m.before, w.setBy = m.setBy,
           w.disturbed <=> m.disturbed \/ message.selector = "clear"
    PROVE  /\ FilterOnCourse(TakesLowpass(d, message), w, n, t)
           /\ FilterOnCourse(TakesHighpass(d, message), w, n, t)
           /\ FilterOnCourse(TakesBandpass(d, message), w, n, t)
PROOF
<1>1. /\ HasBuffer(d)
      /\ {"x1", "x2", "y1", "y2", "constant"} \subseteq DOMAIN d
  BY DEF FilterOnCourse
<1>2. FilterOnCourse(d, w, n, t)
  BY <1>1 DEF FilterOnCourse, OutputOf
<1>3. ASSUME NEW c
      PROVE  FilterOnCourse([d EXCEPT !.constant = c], w, n, t)
  <2> DEFINE e == [d EXCEPT !.constant = c]
  <2>1. /\ HasBuffer(e)
        /\ {"x1", "x2", "y1", "y2", "constant"} \subseteq DOMAIN e
        /\ e.x1 = d.x1 /\ e.x2 = d.x2 /\ e.y1 = d.y1 /\ e.y2 = d.y2
        /\ e.out = d.out
    BY <1>1 DEF HasBuffer
  <2> HIDE DEF e
  <2>2. \A k : OutputOf(e, w, k) = OutputOf(d, w, k)
    BY <2>1 DEF OutputOf
  <2>3. FilterOnCourse(e, w, n, t)
    BY <1>2, <2>1, <2>2 DEF FilterOnCourse
  <2> QED
    BY <2>3 DEF e
<1>4. FilterOnCourse(TakesClear(d, message), w, n, t)
  <2> DEFINE e == [d EXCEPT !.x1 = 0, !.x2 = 0, !.out[0] = 0, !.out[1] = 0]
  <2>1. CASE message.inlet = 0 /\ message.selector = "clear"
    <3>1. /\ HasBuffer(e)
          /\ {"x1", "x2", "y1", "y2", "constant"} \subseteq DOMAIN e
      BY <1>1 DEF HasBuffer
    <3>2. TakesClear(d, message) = e
      BY <2>1 DEF TakesClear
    <3> HIDE DEF e
    <3>3. w.disturbed
      BY <2>1
    <3> QED
      BY <3>1, <3>2, <3>3 DEF FilterOnCourse
  <2>2. CASE ~ (message.inlet = 0 /\ message.selector = "clear")
    BY <1>2, <2>2 DEF TakesClear
  <2> QED
    BY <2>1, <2>2
<1> HIDE DEF TakesClear
<1> QED
  BY <1>3, <1>4 DEF TakesLowpass, TakesHighpass, TakesBandpass

\* The next block goes on from the two samples that were kept.
LEMMA FilterNextBlock ==
    ASSUME NEW d, NEW m, NEW w, NEW t \in Int,
           FilterOnCourse(d, m, BlockSize, t),
           w.before.out = d.out, w.disturbed <=> m.disturbed
    PROVE  FilterOnCourse(d, w, 0, t + BlockSize)
PROOF
<1>1. BlockSize \in Nat /\ BlockSize > 0 /\ BlockSize % 8 = 0
  BY DspAssumption, SignalAssumption
<1>2. BlockSize >= 8
  BY <1>1
<1>3. /\ ~ (BlockSize - 1 < 0) /\ ~ (BlockSize - 2 < 0)
      /\ 0 - 1 < 0 /\ 0 - 2 < 0
      /\ BlockSize + (0 - 1) = BlockSize - 1
      /\ BlockSize + (0 - 2) = BlockSize - 2
      /\ t + BlockSize + 0 - 1 = t + BlockSize - 1
      /\ t + BlockSize + 0 - 2 = t + BlockSize - 2
      /\ Part(0, 0) = {}
  BY <1>1, <1>2 DEF Part
<1>4. /\ HasBuffer(d)
      /\ {"x1", "x2", "y1", "y2", "constant"} \subseteq DOMAIN d
      /\ ~ m.disturbed =>
             /\ d.x1 = Host(t + BlockSize - 1)
             /\ d.x2 = Host(t + BlockSize - 2)
             /\ d.y1 = OutputOf(d, m, BlockSize - 1)
             /\ d.y2 = OutputOf(d, m, BlockSize - 2)
  BY Zenon DEF FilterOnCourse
<1>5. /\ OutputOf(d, m, BlockSize - 1) = OutputOf(d, w, 0 - 1)
      /\ OutputOf(d, m, BlockSize - 2) = OutputOf(d, w, 0 - 2)
  BY <1>3 DEF OutputOf
<1> QED
  BY <1>3, <1>4, <1>5 DEF FilterOnCourse

\* A new filter has heard nothing and given nothing.
LEMMA NewFilterOnCourse ==
    ASSUME NEW lets, NEW fc, NEW q, NEW c, NEW w, w.before.out = zeros
    PROVE  FilterOnCourse(NewDspFilter(lets, fc, q, c, zeros), w, 0, 0)
PROOF
<1> DEFINE d == NewDspFilter(lets, fc, q, c, zeros)
<1>1. BlockSize \in Nat /\ BlockSize > 0 /\ BlockSize % 8 = 0
  BY DspAssumption, SignalAssumption
<1>2. BlockSize >= 8
  BY <1>1
<1>3. /\ BlockSize + (0 - 1) \in Part(0, BlockSize)
      /\ BlockSize + (0 - 2) \in Part(0, BlockSize)
      /\ 0 - 1 < 0 /\ 0 - 2 < 0 /\ Part(0, 0) = {}
      /\ 0 + 0 - 1 < 0 /\ 0 + 0 - 2 < 0
  BY <1>1, <1>2 DEF Part
<1>4. DOMAIN zeros = Part(0, BlockSize)
      /\ \A k \in Part(0, BlockSize) : zeros[k] = 0
  BY DEF zeros
<1>5. /\ HasBuffer(d)
      /\ {"x1", "x2", "y1", "y2", "constant"} \subseteq DOMAIN d
      /\ d.x1 = 0 /\ d.x2 = 0 /\ d.y1 = 0 /\ d.y2 = 0
  BY <1>4 DEF HasBuffer, NewDspFilter
<1> HIDE DEF d
<1>6. OutputOf(d, w, 0 - 1) = 0 /\ OutputOf(d, w, 0 - 2) = 0
  BY <1>3, <1>4 DEF OutputOf
<1>7. Host(0 + 0 - 1) = 0 /\ Host(0 + 0 - 2) = 0
  BY <1>3 DEF Host
<1>8. FilterOnCourse(d, w, 0, 0)
  BY <1>3, <1>5, <1>6, <1>7 DEF FilterOnCourse
<1> QED
  BY <1>8 DEF d

-----------------------------------------------------------------------------
(* env~.                                                                   *)

\* Multiples of a number.
LEMMA IsMultiple ==
    ASSUME NEW b \in Nat, b > 0, NEW w \in Int, w % b = 0
    PROVE  \E p \in Int : w = p * b
PROOF
<1>1. w = (w \div b) * b + (w % b) /\ w \div b \in Int
  OBVIOUS
<1> QED
  BY <1>1

\* A multiple below another is a multiple below it or at it one further on.
LEMMA NextMultiple ==
    ASSUME NEW b \in Nat, b > 0, NEW j \in Int, NEW p \in Int, j * b < p * b
    PROVE  j * b + b <= p * b /\ (j + 1) * b = j * b + b /\ j < p
PROOF
<1>1. (j + 1) * b = j * b + b
  OBVIOUS
<1>2. \A x \in Int : x >= 0 => x * b >= 0
  OBVIOUS
<1>3. j < p
  BY <1>2
<1>4. p - (j + 1) \in Int /\ p - (j + 1) >= 0
  BY <1>3
<1>5. (p - (j + 1)) * b = p * b - (j + 1) * b
  OBVIOUS
<1>6. (p - (j + 1)) * b >= 0
  BY <1>2, <1>4
<1> QED
  BY <1>1, <1>3, <1>5, <1>6

\* Rounded up to whole blocks, whole blocks are what they were.
LEMMA WholeAsTheyAre ==
    ASSUME NEW b \in Nat, b > 0, NEW w \in Int, w % b = 0
    PROVE  -b * ((-w) \div b) = w
PROOF
<1> DEFINE q == (-w) \div b
<1>1. PICK p \in Int : w = p * b
  BY IsMultiple
<1>2. q \in Int /\ q * b <= -w /\ -w < (q + 1) * b
  OBVIOUS
<1>3. -w = (-p) * b
  BY <1>1
<1> HIDE DEF q
<1>4. (-p) * b < (q + 1) * b /\ q * b <= (-p) * b
  BY <1>2, <1>3
<1>5. -p < q + 1
  <2>1. -p \in Int /\ q + 1 \in Int
    BY <1>2
  <2> HIDE DEF q
  <2> QED
    BY <1>4, <2>1, NextMultiple
<1>6. ~ (-p < q)
  BY <1>2, <1>3
<1>7. q = -p
  BY <1>2, <1>5, <1>6
<1>8. -b * q = w
  BY <1>1, <1>7
<1> QED
  BY <1>8 DEF q

\* A count of blocks, another block on.
LEMMA CountOn ==
    ASSUME NEW b \in Nat, b > 0, NEW w \in Int, w % b = 0, NEW i \in Int,
           NEW t \in Int,
           CountsTo(i, w, t, b),
           NEW u \in Int, u = IF i + b = w THEN 0 ELSE i + b
    PROVE  /\ 0 <= i /\ i + b <= w
           /\ CountsTo(u, w, t + b, b)
           /\ t + b >= w /\ i + b # w => t >= w
PROOF
<1>1. PICK j, q \in Nat : i = j * b /\ i < w /\ t = q * w + i
  BY DEF CountsTo
<1>2. PICK p \in Int : w = p * b
  BY IsMultiple
<1>3. i + b <= w /\ (j + 1) * b = i + b
  BY <1>1, <1>2, NextMultiple
<1>4. 0 <= i
  BY <1>1
<1>5. w > 0
  BY <1>1, <1>4
<1>6. CASE i + b = w
  <2>1. u = 0 * b /\ u < w /\ q + 1 \in Nat /\ 0 \in Nat
    BY <1>5, <1>6
  <2>2. (q + 1) * w = q * w + w
    OBVIOUS
  <2>3. t + b = (q + 1) * w + u
    BY <1>1, <1>6, <2>2
  <2>4. CountsTo(u, w, t + b, b)
    BY <2>1, <2>3, Zenon DEF CountsTo
  <2> QED
    BY <1>3, <1>4, <1>6, <2>4
<1>7. CASE i + b # w
  <2>1. u = (j + 1) * b /\ u < w /\ j + 1 \in Nat
    BY <1>3, <1>7
  <2>2. q * w \in Int /\ (q >= 1 => q * w >= w) /\ (q = 0 => q * w = 0)
    <3>1. \A x \in Int : x >= 0 => x * w >= 0
      BY <1>5
    <3>2. (q - 1) * w = q * w - w
      OBVIOUS
    <3> QED
      BY <3>1, <3>2
  <2>3. t + b = q * w + u
    BY <1>1, <1>7, <2>2
  <2>4. t + b >= w => t >= w
    BY <1>1, <2>2, <2>3, <1>4, <2>1
  <2>5. CountsTo(u, w, t + b, b)
    BY <2>1, <2>3, Zenon DEF CountsTo
  <2> QED
    BY <1>3, <1>4, <1>7, <2>4, <2>5
<1> QED
  BY <1>6, <1>7

\* The samples of a window of w that was last filled up to i, at time h.
HoldsWindow(s, i, w, h) ==
    /\ \A k \in Part(0, i) : s[k] = Host(h - i + k)
    /\ \A k \in Part(i, w) : s[k] = Host(h - i - w + k)

SamplesOf(s, w) == {s[k] : k \in Part(0, w)}

\* What a window holds is what was heard last.
LEMMA WindowHears ==
    ASSUME NEW w \in Nat, NEW i \in Nat, i <= w, NEW h \in Int, NEW s,
           HoldsWindow(s, i, w, h)
    PROVE  SamplesOf(s, w) = HostSince(w, h)
PROOF
<1> USE DEF HoldsWindow, SamplesOf, HostSince
<1>1. ASSUME NEW k \in Part(0, w)
      PROVE  \E u \in Part(h - w, h) : s[k] = Host(u)
  <2>1. CASE k < i
    <3>1. k \in Part(0, i) /\ h - i + k \in Part(h - w, h)
      BY <2>1 DEF Part
    <3> QED
      BY <3>1
  <2>2. CASE ~ (k < i)
    <3>1. k \in Part(i, w) /\ h - i - w + k \in Part(h - w, h)
      BY <2>2 DEF Part
    <3> QED
      BY <3>1
  <2> QED
    BY <2>1, <2>2
<1>2. ASSUME NEW u \in Part(h - w, h)
      PROVE  \E k \in Part(0, w) : s[k] = Host(u)
  <2>1. u \in Int /\ h - w <= u /\ u < h
    BY DEF Part
  <2>2. CASE h - i <= u
    BY <2>1, <2>2 DEF Part
  <2>3. CASE ~ (h - i <= u)
    <3> DEFINE k == u - h + i + w
    <3>1. k \in Part(i, w) /\ k \in Part(0, w) /\ h - i - w + k = u
      BY <2>1, <2>3 DEF Part
    <3> HIDE DEF k
    <3> QED
      BY <3>1
  <2> QED
    BY <2>2, <2>3
<1> QED
  BY <1>1, <1>2

\* A block is written over the samples from i on.
Overwritten(s, i, x) ==
    [k \in DOMAIN s |->
        IF k \in Part(i, i + BlockSize) THEN x[k - i] ELSE s[k]]

\* The same window after another block.
LEMMA EnvelopeHearsOn ==
    ASSUME NEW w \in Int, NEW v \in Int, NEW i, NEW z,
           w % BlockSize = 0, v % BlockSize = 0,
           NEW s, NEW r, NEW t \in Int, NEW x,
           \A k \in Part(0, BlockSize) : x[k] = Host(t + k),
           EnvelopeHears(w, v, i, z, s, r, 0, t),
           NEW b, b = Overwritten(s, i, x),
           NEW j, j = WindowStart(i + BlockSize, w),
           NEW y, y = IF z + BlockSize = v THEN 0 ELSE z + BlockSize,
           NEW q, q = IF z + BlockSize = v THEN SamplesOf(b, w) ELSE {}
    PROVE  EnvelopeHears(w, v, j, y, b, q, BlockSize, t + BlockSize)
PROOF
<1>1. BlockSize \in Nat /\ BlockSize > 0
  BY DspAssumption
<1>2. /\ b = [k \in DOMAIN s |->
                IF k \in Part(i, i + BlockSize) THEN x[k - i] ELSE s[k]]
      /\ q = IF z + BlockSize = v THEN {b[k] : k \in Part(0, w)} ELSE {}
  BY DEF Overwritten, SamplesOf
<1>3. /\ i \in Nat /\ z \in Nat /\ BlockSize <= w /\ BlockSize <= v
      /\ DOMAIN s = Part(0, w)
      /\ CountsTo(i, w, t, BlockSize)
      /\ CountsTo(z, v, t, BlockSize)
      /\ \A k \in Part(0, i) : s[k] = Host(t - i + k)
      /\ t >= w => \A k \in Part(i, w) : s[k] = Host(t - i - w + k)
  <2>1. i \in Nat /\ z \in Nat
    <3>1. \A l \in Nat : l * BlockSize \in Nat
      BY <1>1
    <3> QED
      BY <3>1, Zenon DEF EnvelopeHears, CountsTo
  <2> QED
    BY <2>1, Zenon DEF EnvelopeHears
<1>4. y = (IF z + BlockSize = v THEN 0 ELSE z + BlockSize) /\ y \in Int
  BY <1>1, <1>3
<1>5. /\ z + BlockSize <= v
      /\ CountsTo(y, v, t + BlockSize, BlockSize)
  <2>1. z \in Int /\ CountsTo(z, v, t, BlockSize)
    BY <1>3
  <2> QED
    BY <1>1, <1>4, <2>1, CountOn
<1>6. i + BlockSize <= w
  <2> DEFINE f == IF i + BlockSize = w THEN 0 ELSE i + BlockSize
  <2>1. f \in Int /\ i \in Int
    BY <1>1, <1>3
  <2>2. f = IF i + BlockSize = w THEN 0 ELSE i + BlockSize
    OBVIOUS
  <2>3. CountsTo(i, w, t, BlockSize)
    BY <1>3
  <2> HIDE DEF f
  <2> QED
    BY <1>1, <2>1, <2>2, <2>3, CountOn
<1>7. /\ j = (IF i + BlockSize = w THEN 0 ELSE i + BlockSize)
      /\ j \in Nat /\ j <= w
  <2>1. j = IF i + BlockSize >= w THEN 0 ELSE i + BlockSize
    BY DEF WindowStart
  <2> QED
    BY <1>1, <1>3, <1>6, <2>1
<1>8. /\ CountsTo(j, w, t + BlockSize, BlockSize)
      /\ t + BlockSize >= w /\ i + BlockSize # w => t >= w
  <2>1. i \in Int /\ CountsTo(i, w, t, BlockSize)
    BY <1>3
  <2>2. j \in Int
    BY <1>7
  <2> QED
    BY <1>1, <1>7, <2>1, <2>2, CountOn
<1>9. /\ BlockSize \in Nat /\ BlockSize > 0 /\ i \in Nat
      /\ i + BlockSize <= w /\ BlockSize <= w
      /\ j = (IF i + BlockSize = w THEN 0 ELSE i + BlockSize)
      /\ j \in Nat /\ j <= w
  BY <1>1, <1>3, <1>6, <1>7
<1>10. /\ DOMAIN b = Part(0, w)
      /\ \A k \in Part(0, w) :
             b[k] = IF k \in Part(i, i + BlockSize) THEN x[k - i] ELSE s[k]
  BY <1>3, <1>2
<1>11. \A k \in Part(0, i + BlockSize) : b[k] = Host(t - i + k)
  <2> SUFFICES ASSUME NEW k \in Part(0, i + BlockSize)
               PROVE  b[k] = Host(t - i + k)
    OBVIOUS
  <2>1. k \in Part(0, w)
    BY <1>9 DEF Part
  <2>2. CASE k < i
    <3>1. k \notin Part(i, i + BlockSize) /\ k \in Part(0, i)
      BY <1>9, <2>2 DEF Part
    <3> QED
      BY <1>3, <1>10, <2>1, <3>1
  <2>3. CASE ~ (k < i)
    <3>1. k \in Part(i, i + BlockSize) /\ k - i \in Part(0, BlockSize)
      BY <1>9, <2>3 DEF Part
    <3>2. t + (k - i) = t - i + k
      BY <1>9, <3>1 DEF Part
    <3> QED
      BY <1>10, <2>1, <3>1, <3>2
  <2> QED
    BY <2>2, <2>3
<1>12. t >= w => \A k \in Part(i + BlockSize, w) : b[k] = Host(t - i - w + k)
  <2>1. \A k \in Part(i + BlockSize, w) :
            /\ k \in Part(0, w) /\ k \in Part(i, w)
            /\ k \notin Part(i, i + BlockSize)
    BY <1>9 DEF Part
  <2> QED
    BY <1>3, <1>10, <2>1
<1>13. \A k \in Part(0, j) : b[k] = Host((t + BlockSize) - j + k)
  <2>1. CASE i + BlockSize = w
    <3>1. Part(0, j) = {}
      BY <1>7, <2>1 DEF Part
    <3> QED
      BY <3>1
  <2>2. CASE i + BlockSize # w
    <3>1. /\ j = i + BlockSize
          /\ \A k \in Part(0, j) :
                 (t + BlockSize) - j + k = t - i + k
      BY <1>9, <2>2 DEF Part
    <3> QED
      BY <1>11, <3>1
  <2> QED
    BY <2>1, <2>2
<1>14. t + BlockSize >= w =>
           \A k \in Part(j, w) :
               b[k] = Host((t + BlockSize) - j - w + k)
  <2>1. CASE i + BlockSize = w
    BY <1>9, <2>1, <1>11 DEF Part
  <2>2. CASE i + BlockSize # w
    BY <1>9, <2>2, <1>8, <1>12 DEF Part
  <2> QED
    BY <2>1, <2>2
<1>15. q # {} <=> y = 0
  <2>1. CASE z + BlockSize = v
    <3>1. 0 \in Part(0, w)
      BY <1>9 DEF Part
    <3>2. q = {b[k] : k \in Part(0, w)} /\ y = 0
      BY <1>2, <1>4, <2>1
    <3>3. b[0] \in q
      BY <3>1, <3>2
    <3> QED
      BY <3>2, <3>3
  <2>2. CASE z + BlockSize # v
    <3>1. q = {} /\ y = z + BlockSize
      BY <1>2, <1>4, <2>2
    <3> QED
      BY <1>1, <1>3, <3>1
  <2> QED
    BY <2>1, <2>2
<1>16. q # {} /\ t + BlockSize >= w =>
           q = HostSince(w, t + BlockSize)
  <2> SUFFICES ASSUME q # {}, t + BlockSize >= w
               PROVE  q = HostSince(w, t + BlockSize)
    OBVIOUS
  <2>1. q = {b[k] : k \in Part(0, w)}
    BY <1>2
  <2>2. \A k \in Part(j, w) : b[k] = Host((t + BlockSize) - j - w + k)
    BY <1>14
  <2> DEFINE h == t + BlockSize
  <2>3. h \in Int /\ w \in Nat
    BY <1>1, <1>3
  <2>4. HoldsWindow(b, j, w, h)
    BY <1>13, <2>2 DEF HoldsWindow
  <2> HIDE DEF h
  <2>5. SamplesOf(b, w) = HostSince(w, h)
    <3>1. j \in Nat /\ j <= w
      BY <1>9
    <3> QED
      BY <2>3, <2>4, <3>1, WindowHears
  <2> QED
    BY <2>1, <2>5 DEF h, SamplesOf
<1>17. /\ BlockSize <= w /\ BlockSize <= v /\ DOMAIN b = Part(0, w)
  BY <1>3, <1>10
<1> QED
  BY <1>5, <1>8, <1>13, <1>14, <1>15, <1>16, <1>17, Zenon
  DEF EnvelopeHears

\* A block of an env~.
LEMMA EnvelopePart ==
    ASSUME NEW d, NEW x, NEW t \in Int,
           \A k \in Part(0, BlockSize) : x[1][k] = Host(t + k),
           EnvelopeOnCourse(d, 0, t)
    PROVE  EnvelopeOnCourse(DspEnvelope(d, x, BlockSize), BlockSize, t)
PROOF
<1> DEFINE i == d.numSamplesReceived
           since == d.numSamplesReceivedSinceLastInterval
           s == d.signalBuffer
           w == d.windowSize
           v == d.windowInterval
           b == [k \in DOMAIN s |->
                    IF k \in Part(i, i + BlockSize) THEN x[1][k - i] ELSE s[k]]
           j == WindowStart(i + BlockSize, w)
           y == IF since + BlockSize = v THEN 0 ELSE since + BlockSize
           q == IF since + BlockSize = v THEN {b[k] : k \in Part(0, w)} ELSE {}
           e == DspEnvelope(d, x, BlockSize)
<1>1. d = [f \in EnvelopeFields |-> d[f]] /\ w \in Int /\ v \in Int
  BY Zenon DEF EnvelopeOnCourse
<1>2. ASSUME w % BlockSize = 0, v % BlockSize = 0
      PROVE  EnvelopeHears(w, v, j, y, b, q, BlockSize, t + BlockSize)
  <2>1. t + 0 = t
    OBVIOUS
  <2>2. EnvelopeHears(w, v, i, since, s, d.report, 0, t)
    BY <1>2, <2>1 DEF EnvelopeOnCourse
  <2> DEFINE u == x[1]
  <2>3. \A k \in Part(0, BlockSize) : u[k] = Host(t + k)
    OBVIOUS
  <2>4. /\ b = Overwritten(s, i, u)
        /\ j = WindowStart(i + BlockSize, w)
        /\ y = (IF since + BlockSize = v THEN 0 ELSE since + BlockSize)
        /\ q = (IF since + BlockSize = v THEN SamplesOf(b, w) ELSE {})
    BY DEF Overwritten, SamplesOf
  <2> HIDE DEF i, since, s, w, v, b, j, y, q, u
  <2> QED
    BY <1>1, <1>2, <2>2, <2>3, <2>4, EnvelopeHearsOn
<1>3. e = [d EXCEPT !.signalBuffer = b, !.numSamplesReceived = j,
                    !.numSamplesReceivedSinceLastInterval = y, !.report = q]
  BY DEF DspEnvelope
<1> HIDE DEF b, j, y, q, e
<1>4. DOMAIN d = EnvelopeFields
  BY <1>1
<1>5. /\ e = [f \in EnvelopeFields |-> e[f]]
      /\ e.signalBuffer = b /\ e.numSamplesReceived = j
      /\ e.numSamplesReceivedSinceLastInterval = y /\ e.report = q
      /\ e.windowSize = w /\ e.windowInterval = v
  BY <1>3, <1>4 DEF EnvelopeFields
<1>6. EnvelopeOnCourse(e, BlockSize, t)
  BY <1>1, <1>2, <1>5 DEF EnvelopeOnCourse
<1> QED
  BY <1>6 DEF e

\* Nothing is heard between blocks.
LEMMA EnvelopeNextBlock ==
    ASSUME NEW d, NEW t \in Int, EnvelopeOnCourse(d, BlockSize, t)
    PROVE  EnvelopeOnCourse(d, 0, t + BlockSize)
PROOF
<1>1. BlockSize \in Nat /\ t + BlockSize + 0 = t + BlockSize /\ ~ (0 > 0)
  BY DspAssumption
<1>2. ASSUME d.windowSize % BlockSize = 0, d.windowInterval % BlockSize = 0
      PROVE  EnvelopeHears(d.windowSize, d.windowInterval, d.numSamplesReceived,
                           d.numSamplesReceivedSinceLastInterval,
                           d.signalBuffer, d.report, 0, t + BlockSize)
  BY <1>1, <1>2 DEF EnvelopeOnCourse, EnvelopeHears
<1> QED
  BY <1>1, <1>2 DEF EnvelopeOnCourse

\* A new env~ is at the start of its window.
LEMMA NewEnvelopeOnCourse ==
    ASSUME NEW a \in Seq(Int), a # <<>>
    PROVE  EnvelopeOnCourse(NewDspEnvelope(a, BlockSize, Outside), 0, 0)
PROOF
<1> DEFINE w == AtLeast(a[1], BlockSize)
           v == AtLeast(IF Len(a) > 1 THEN a[2]
                        ELSE setWindowInterval(a[1] \div 2, BlockSize),
                        BlockSize)
           s == initBuffers(w, BlockSize, Outside)
           d == NewDspEnvelope(a, BlockSize, Outside)
<1>1. BlockSize \in Nat /\ BlockSize > 0
  BY DspAssumption
<1>2. /\ a[1] \in Int /\ (Len(a) > 1 => a[2] \in Int)
  <2>1. Len(a) \in Nat /\ Len(a) # 0 /\ \A k \in 1 .. Len(a) : a[k] \in Int
    BY EmptySeq, LenProperties
  <2> QED
    BY <2>1
<1>3. /\ w \in Int /\ v \in Int /\ BlockSize <= w /\ BlockSize <= v
  <2>1. \A z \in Int : AtLeast(z, BlockSize) \in Int
                        /\ BlockSize <= AtLeast(z, BlockSize)
    BY <1>1 DEF AtLeast
  <2>2. a[1] \div 2 \in Int
    BY <1>2
  <2>3. ASSUME NEW z \in Int
        PROVE  setWindowInterval(z, BlockSize) \in Int
    <3>1. z \div BlockSize \in Int
      BY <1>1
    <3> QED
      BY <1>1, <3>1 DEF setWindowInterval
  <2> QED
    BY <1>2, <2>1, <2>2, <2>3
<1> HIDE DEF w, v, s
<1>4. d = [lets |-> <<0, 1, 1, 0>>, functions |-> <<"signal", "default">>,
           windowSize |-> w, windowInterval |-> v, numSamplesReceived |-> 0,
           numSamplesReceivedSinceLastInterval |-> 0, signalBuffer |-> s,
           report |-> {}]
  BY DEF NewDspEnvelope, w, v, s
<1> HIDE DEF d
<1>5. /\ d = [f \in EnvelopeFields |-> d[f]]
      /\ d.windowSize = w /\ d.windowInterval = v /\ d.numSamplesReceived = 0
      /\ d.numSamplesReceivedSinceLastInterval = 0 /\ d.signalBuffer = s
      /\ d.report = {}
  BY <1>4 DEF EnvelopeFields
<1>6. ASSUME w % BlockSize = 0, v % BlockSize = 0
      PROVE  EnvelopeHears(w, v, 0, 0, s, {}, 0, 0)
  <2>1. DOMAIN s = Part(0, w)
    BY <1>1, <1>3, <1>6, WholeAsTheyAre DEF s, initBuffers
  <2>2. CountsTo(0, w, 0, BlockSize) /\ CountsTo(0, v, 0, BlockSize)
    <3>1. /\ 0 \in Nat /\ 0 = 0 * BlockSize /\ 0 < w /\ 0 < v
          /\ 0 = 0 * w + 0 /\ 0 = 0 * v + 0
      BY <1>1, <1>3
    <3> QED
      BY <3>1, Zenon DEF CountsTo
  <2>3. Part(0, 0) = {} /\ ~ (0 >= w) /\ ~ (0 > 0)
    BY <1>1, <1>3 DEF Part
  <2> QED
    BY <1>3, <2>1, <2>2, <2>3 DEF EnvelopeHears
<1>7. 0 + 0 = 0
  OBVIOUS
<1>8. EnvelopeOnCourse(d, 0, 0)
  BY <1>3, <1>5, <1>6, <1>7 DEF EnvelopeOnCourse
<1> QED
  BY <1>8 DEF d

-----------------------------------------------------------------------------
(* What has a course, of any kind.                                         *)

\* Those that compute blocks only.
WholeOnly(o) ==
    Kind[o] = "env~" \/ (Kind[o] = "phasor~" /\ SourcesOf[o][1] # Silent)

\* A part that is rendered, by any object with a course.
LEMMA CoursePart ==
    ASSUME patch \in Patches, CoursesGoOn, BlocksAtSamples, LevelsKnown,
           NEW o \in patch, Kind[o] \in Courses,
           NEW from \in Nat, NEW to \in Int, from <= to, to <= BlockSize,
           WholeOnly(o) => from = 0 /\ to = BlockSize,
           NEW m, NEW w, NEW f8, NEW f4, NEW e8, NEW e4,
           e8 => f8 /\ from % 8 = 0, e4 => f4 /\ from % 4 = 0,
           OnCourseOf(o, build, signal[o], m, from, blockStart, f8, f4,
                      Inlets(o)[1]),
           w.path = m.path, w.before = m.before,
           w.disturbed <=> m.disturbed \/ AskedForNone(o, from, to),
           w.setBy = [k \in Part(0, BlockSize) |->
                         IF k \in Part(from, to)
                         THEN IF Kind[o] \in {"line~", "vline~"} THEN m.path
                              ELSE Setting(o, Present(o))
                         ELSE m.setBy[k]]
    PROVE  OnCourseOf(o, build, Processed(o, from, to), w, to, blockStart,
                      e8, e4, Inlets(o)[1])
PROOF
<1> DEFINE d == signal[o]
           x == Inlets(o)
           t == blockStart
           e == Processed(o, from, to)
<1>1. t \in Nat /\ t \in Int /\ BlockSize \in Nat /\ 0 \in Part(0, BlockSize)
  BY StartOfBlock, DspAssumption DEF Part
<1>2. e = ProcessPart(o, Present(o), x, from, to)
  <2>1. o \notin Adapts
    BY SignalAssumption DEF Arithmetic, Courses, Filters
  <2> QED
    BY <2>1 DEF Processed
<1>3. Kind[o] # "osc~" => Present(o) = d
  BY DEF Present
<1>4. Kind[o] \in Filters \cup {"osc~", "phasor~"} =>
          Setting(o, Present(o)) = Present(o).constant
  BY DEF Setting, Settable, Arithmetic, Fixed, Filters
<1>5. Kind[o] \in Filters \cup {"env~"} =>
          \A k \in Part(0, BlockSize) : x[1][k] = Host(t + k)
  <2> SUFFICES ASSUME Kind[o] \in Filters \cup {"env~"}
               PROVE  \A k \in Part(0, BlockSize) : x[1][k] = Host(t + k)
    OBVIOUS
  <2>1. SourcesOf[o] = <<adc_1>> /\ ~ WholeNumbers
    BY DEF CoursesGoOn, WholeNumbers
  <2>2. x[1] = [k \in Part(0, BlockSize) |-> Host(t + k)]
    BY <2>1, LineHears
  <2> QED
    BY <2>2
<1> HIDE DEF e
<1>6. CASE Kind[o] = "line~"
  <2>1. e = DspLine(build, d, from, to)
    BY <1>2, <1>3, <1>6 DEF ProcessPart, Filters
  <2>2. LineOnCourse(d, m, from, t)
    BY <1>6 DEF OnCourseOf
  <2>3. w.setBy = [k \in Part(0, BlockSize) |->
                      IF k \in Part(from, to) THEN m.path ELSE m.setBy[k]]
    BY <1>6
  <2>4. LineOnCourse(DspLine(build, d, from, to), w, to, t)
    <3> HIDE DEF d, t
    <3> QED
      BY <1>1, <2>2, <2>3, LinePart
  <2>5. LineOnCourse(e, w, to, t)
    BY <2>1, <2>4
  <2> QED
    BY <1>6, <2>5 DEF OnCourseOf, Filters, e
<1>7. CASE Kind[o] = "vline~"
  <2>1. e = DspVariableLine(build, d, from, to, Outside)
    BY <1>2, <1>3, <1>7 DEF ProcessPart, Filters
  <2>2. VariableLineOnCourse(build, d, m, from, t)
    BY <1>7 DEF OnCourseOf
  <2>3. w.setBy = [k \in Part(0, BlockSize) |->
                      IF k \in Part(from, to) THEN m.path ELSE m.setBy[k]]
    BY <1>7
  <2>4. w.disturbed <=> m.disturbed \/ from = to
    BY <1>7 DEF AskedForNone
  <2>5. VariableLineOnCourse(build, DspVariableLine(build, d, from, to, Outside),
                             w, to, t)
    <3> HIDE DEF d, t
    <3> QED
      BY <1>1, <2>2, <2>3, <2>4, VariableLinePart
  <2>6. VariableLineOnCourse(build, e, w, to, t)
    BY <2>1, <2>5
  <2> QED
    BY <1>7, <2>6 DEF OnCourseOf, Filters, e
<1>8. CASE Kind[o] = "osc~"
  <2> DEFINE c == Present(o)
  <2>1. e = DspOsc(c, from, to)
    BY <1>2, <1>8 DEF ProcessPart, Filters
  <2>2. OscOnCourse(d, m, from, t, f8)
    BY <1>8 DEF OnCourseOf
  <2>3. OscOnCourse(c, m, from, t, f8)
    <3>1. CASE SourcesOf[o][1] = Silent
      BY <1>8, <2>2, <3>1 DEF Present
    <3>2. CASE SourcesOf[o][1] # Silent
      <4>1. IsGivenNumbers(patch, o)
        BY <1>8 DEF CoursesGoOn
      <4>2. x[1][0] \in Int
        BY <1>1, <4>1, NumbersAreGiven
      <4>3. c = [d EXCEPT !.constant = x[1][0]]
        BY <1>8, <3>2 DEF Present, updateFrequency
      <4> DEFINE z == x[1][0]
      <4>4. z \in Int /\ c = [d EXCEPT !.constant = z]
        BY <4>2, <4>3
      <4> HIDE DEF c, d, t, z
      <4> QED
        BY <2>2, <4>4, OscTold
    <3> QED
      BY <3>1, <3>2
  <2>4. w.setBy = [k \in Part(0, BlockSize) |->
                      IF k \in Part(from, to) THEN c.constant ELSE m.setBy[k]]
    BY <1>4, <1>8
  <2>5. OscOnCourse(DspOsc(c, from, to), w, to, t, e8)
    <3> HIDE DEF c, t
    <3> QED
      BY <1>1, <2>3, <2>4, OscPart
  <2>6. OscOnCourse(e, w, to, t, e8)
    BY <2>1, <2>5
  <2> QED
    BY <1>8, <2>6 DEF OnCourseOf, Filters, e
<1>9. CASE Kind[o] = "phasor~" /\ SourcesOf[o][1] = Silent
  <2>1. e = DspPhasor(d, from, to, Outside)
    BY <1>2, <1>3, <1>9 DEF ProcessPart, Filters
  <2>2. PhasorOnCourse(d, m, from, f4)
    BY <1>9 DEF OnCourseOf
  <2>3. w.setBy = [k \in Part(0, BlockSize) |->
                      IF k \in Part(from, to) THEN d.constant ELSE m.setBy[k]]
    BY <1>3, <1>4, <1>9
  <2>4. Outside \in Int
    BY SignalAssumption
  <2>5. PhasorOnCourse(DspPhasor(d, from, to, Outside), w, to, e4)
    <3> HIDE DEF d
    <3> QED
      BY <2>2, <2>3, <2>4, PhasorPart
  <2>6. PhasorOnCourse(e, w, to, e4)
    BY <2>1, <2>5
  <2> QED
    BY <1>9, <2>6 DEF OnCourseOf, Filters, e
<1>10. CASE Kind[o] = "phasor~" /\ SourcesOf[o][1] # Silent
  <2>1. from = 0 /\ to = BlockSize
    BY <1>10 DEF WholeOnly
  <2>2. e = DspPhasorSignal(d, x, BlockSize)
    BY <1>2, <1>3, <1>10, <2>1 DEF ProcessPart, Filters
  <2>3. PhasorHearsItsInlet(d, m, 0, x[1])
    BY <1>10, <2>1 DEF OnCourseOf
  <2>4. PhasorHearsItsInlet(DspPhasorSignal(d, x, BlockSize), w, BlockSize, x[1])
    <3> HIDE DEF d, x
    <3> QED
      BY <2>3, PhasorHears
  <2>5. PhasorHearsItsInlet(e, w, to, x[1])
    BY <2>1, <2>2, <2>4
  <2> QED
    BY <1>10, <2>5 DEF OnCourseOf, Filters, e
<1>11. CASE Kind[o] \in Filters
  <2>1. e = DspFilter(d, x, from, to)
    BY <1>2, <1>3, <1>11 DEF ProcessPart, Filters
  <2>2. FilterOnCourse(d, m, from, t)
    BY <1>11 DEF OnCourseOf
  <2>3. w.setBy = [k \in Part(0, BlockSize) |->
                      IF k \in Part(from, to) THEN d.constant ELSE m.setBy[k]]
    BY <1>3, <1>4, <1>11 DEF Filters
  <2>4. w.disturbed <=> m.disturbed
    BY <1>11 DEF AskedForNone, Filters
  <2>5. \A k \in Part(0, BlockSize) : x[1][k] = Host(t + k)
    BY <1>5, <1>11
  <2>6. FilterOnCourse(DspFilter(d, x, from, to), w, to, t)
    <3> HIDE DEF d, x, t
    <3> QED
      BY <1>1, <2>2, <2>3, <2>4, <2>5, FilterPart
  <2>7. FilterOnCourse(e, w, to, t)
    BY <2>1, <2>6
  <2> QED
    BY <1>11, <2>7 DEF OnCourseOf, Filters, e
<1>12. CASE Kind[o] = "env~"
  <2>1. from = 0 /\ to = BlockSize
    BY <1>12 DEF WholeOnly
  <2>2. e = DspEnvelope(d, x, BlockSize)
    BY <1>2, <1>3, <1>12, <2>1 DEF ProcessPart, Filters
  <2>3. EnvelopeOnCourse(d, 0, t)
    BY <1>12, <2>1 DEF OnCourseOf
  <2>4. \A k \in Part(0, BlockSize) : x[1][k] = Host(t + k)
    BY <1>5, <1>12
  <2>5. EnvelopeOnCourse(DspEnvelope(d, x, BlockSize), BlockSize, t)
    <3> HIDE DEF d, x, t
    <3> QED
      BY <1>1, <2>3, <2>4, EnvelopePart
  <2>6. EnvelopeOnCourse(e, to, t)
    BY <2>1, <2>2, <2>5
  <2> QED
    BY <1>12, <2>6 DEF OnCourseOf, Filters, e
<1> QED
  BY <1>6, <1>7, <1>8, <1>9, <1>10, <1>11, <1>12 DEF Courses

\* A message, to any of them.
LEMMA CourseTold ==
    ASSUME patch \in Patches, CoursesGoOn, BlocksAtSamples, LevelsKnown,
           NEW o \in patch, Kind[o] \in Courses,
           NEW message \in MessagesTo[o],
           NEW d, NEW m, NEW w, NEW n \in Nat, NEW u \in Int, u = blockStart + n,
           NEW e8, NEW e4,
           OnCourseOf(o, build, d, m, n, blockStart, e8, e4, Inlets(o)[1]),
           w.path = NewPath(o, m.path, message, u),
           w.before = m.before, w.setBy = m.setBy,
           w.disturbed <=> m.disturbed \/ message.selector = "clear"
    PROVE  OnCourseOf(o, build, ProcessedMessage(o, d, message), w, n,
                      blockStart, e8, e4, Inlets(o)[1])
PROOF
<1> DEFINE t == blockStart
           x == Inlets(o)
           e == ProcessedMessage(o, d, message)
<1>1. t \in Int /\ BlockSize \in Nat /\ 0 \in Part(0, BlockSize)
  BY StartOfBlock, DspAssumption DEF Part
<1>2. message.floats \in Seq(Int)
  BY SignalAssumption, DspAssumption
<1>3. message.floats[1] \in Int \/ ~ isFloat(message, 1)
  BY <1>2, FloatsAreInts DEF isFloat
<1> HIDE DEF e
<1>4. CASE Kind[o] = "line~"
  <2>1. e = TakesRamp(d, message)
    BY <1>4 DEF ProcessedMessage, e
  <2>2. LineOnCourse(d, m, n, t) /\ u = t + n
    BY <1>4 DEF OnCourseOf
  <2>3. LineOnCourse(TakesRamp(d, message), w, n, t)
    <3> HIDE DEF t
    <3> QED
      BY <1>1, <1>2, <1>4, <2>2, LineTold
  <2>4. LineOnCourse(e, w, n, t)
    BY <2>1, <2>3
  <2> QED
    BY <1>4, <2>4 DEF OnCourseOf, Filters, e
<1>5. CASE Kind[o] = "vline~"
  <2>1. e = TakesSegment(d, message)
    BY <1>5 DEF ProcessedMessage, e
  <2>2. VariableLineOnCourse(build, d, m, n, t) /\ u = t + n
    BY <1>5 DEF OnCourseOf
  <2>3. ArgumentOr(message.floats, 2, 0) >= 0
    BY <1>5 DEF CoursesGoOn
  <2>4. VariableLineOnCourse(build, TakesSegment(d, message), w, n, t)
    <3> HIDE DEF t
    <3> QED
      BY <1>1, <1>2, <1>5, <2>2, <2>3, VariableLineTold
  <2>5. VariableLineOnCourse(build, e, w, n, t)
    BY <2>1, <2>4
  <2> QED
    BY <1>5, <2>5 DEF OnCourseOf, Filters, e
<1>6. CASE Kind[o] = "osc~"
  <2>1. e = TakesFrequency(d, message, x)
    BY <1>6 DEF ProcessedMessage, e
  <2>2. OscOnCourse(d, m, n, t, e8)
    BY <1>6 DEF OnCourseOf
  <2>3. IsGivenNumbers(patch, o)
    BY <1>6 DEF CoursesGoOn
  <2>4. x[1][0] \in Int
    BY <1>1, <2>3, NumbersAreGiven
  <2> DEFINE z == x[1][0]
  <2>5. e = d \/ e = [d EXCEPT !.constant = z]
    BY <2>1 DEF TakesFrequency, updateFrequency
  <2>6. z \in Int
    BY <2>4
  <2>7. OscOnCourse(d, w, n, t, e8)
    BY <2>2 DEF OscOnCourse
  <2>8. OscOnCourse(e, w, n, t, e8)
    <3> HIDE DEF z, t
    <3> QED
      BY <2>2, <2>5, <2>6, <2>7, OscTold
  <2> QED
    BY <1>6, <2>8 DEF OnCourseOf, Filters, e
<1>7. CASE Kind[o] = "phasor~" /\ SourcesOf[o][1] = Silent
  <2>1. e = TakesStep(d, message)
    BY <1>7 DEF ProcessedMessage, e
  <2>2. PhasorOnCourse(d, m, n, e4)
    BY <1>7 DEF OnCourseOf
  <2>3. PhasorOnCourse(d, w, n, e4)
    BY <2>2 DEF PhasorOnCourse
  <2>4. \/ e = d
        \/ /\ message.floats[1] \in Int
           /\ e = [d EXCEPT !.constant = message.floats[1]]
    BY <1>3, <2>1 DEF TakesStep
  <2>5. PhasorOnCourse(e, w, n, e4)
    BY <2>2, <2>3, <2>4, PhasorTold
  <2> QED
    BY <1>7, <2>5 DEF OnCourseOf, Filters, e
<1>8. CASE Kind[o] = "phasor~" /\ SourcesOf[o][1] # Silent
  <2>1. e = TakesStep(d, message)
    BY <1>8 DEF ProcessedMessage, e
  <2>2. PhasorHearsItsInlet(d, m, n, x[1])
    BY <1>8 DEF OnCourseOf
  <2>3. PhasorHearsItsInlet(TakesStep(d, message), w, n, x[1])
    BY <2>2, PhasorHearsNone
  <2>4. PhasorHearsItsInlet(e, w, n, x[1])
    BY <2>1, <2>3
  <2> QED
    BY <1>8, <2>4 DEF OnCourseOf, Filters, e
<1>9. CASE Kind[o] \in Filters
  <2>1. \/ e = TakesLowpass(d, message) \/ e = TakesHighpass(d, message)
        \/ e = TakesBandpass(d, message)
    BY <1>9 DEF ProcessedMessage, Filters, e
  <2>2. FilterOnCourse(d, m, n, t)
    BY <1>9 DEF OnCourseOf
  <2>3. FilterOnCourse(e, w, n, t)
    <3> HIDE DEF t
    <3> QED
      BY <2>1, <2>2, FilterTold
  <2> QED
    BY <1>9, <2>3 DEF OnCourseOf, Filters, e
<1>10. CASE Kind[o] = "env~"
  BY <1>10 DEF ProcessedMessage, e, OnCourseOf, Filters
<1> QED
  BY <1>4, <1>5, <1>6, <1>7, <1>8, <1>9, <1>10 DEF Courses

\* The next block, of any of them.
LEMMA CourseNextBlock ==
    ASSUME NEW o, Kind[o] \in Courses, NEW b, NEW t \in Nat,
           NEW d, NEW m, NEW w, NEW e8, NEW e4, NEW x, NEW y, NEW f8, NEW f4,
           OnCourseOf(o, b, d, m, BlockSize, t, e8, e4, x),
           w.path = m.path, w.disturbed <=> m.disturbed,
           w.before.out = IF "out" \in DOMAIN d THEN d.out ELSE zeros,
           w.before.setBy = m.setBy, w.before.ran, w.before.whole => e8 /\ e4
    PROVE  OnCourseOf(o, b, d, w, 0, t + BlockSize, f8, f4, y)
PROOF
<1>1. t \in Int
  OBVIOUS
<1>2. HasBuffer(d) => w.before.out = d.out
  BY DEF HasBuffer
<1>3. CASE Kind[o] = "line~"
  BY <1>3, <1>1, LineNextBlock DEF OnCourseOf, Filters
<1>4. CASE Kind[o] = "vline~"
  <2>1. VariableLineOnCourse(b, d, m, BlockSize, t)
    BY <1>4 DEF OnCourseOf
  <2>2. VariableLineOnCourse(b, d, w, 0, t + BlockSize)
    BY <1>1, <2>1, VariableLineNextBlock
  <2> QED
    BY <1>4, <2>2 DEF OnCourseOf, Filters
<1>5. CASE Kind[o] = "osc~"
  <2>1. OscOnCourse(d, m, BlockSize, t, e8)
    BY <1>5 DEF OnCourseOf
  <2>2. w.before.out = d.out
    BY <1>2, <2>1 DEF OscOnCourse
  <2>3. OscOnCourse(d, w, 0, t + BlockSize, f8)
    BY <2>1, <2>2, OscNextBlock
  <2> QED
    BY <1>5, <2>3 DEF OnCourseOf, Filters
<1>6. CASE Kind[o] = "phasor~" /\ SourcesOf[o][1] = Silent
  <2>1. PhasorOnCourse(d, m, BlockSize, e4)
    BY <1>6 DEF OnCourseOf
  <2>2. w.before.out = d.out
    BY <1>2, <2>1 DEF PhasorOnCourse
  <2>3. PhasorOnCourse(d, w, 0, f4)
    BY <2>1, <2>2, PhasorNextBlock
  <2> QED
    BY <1>6, <2>3 DEF OnCourseOf, Filters
<1>7. CASE Kind[o] = "phasor~" /\ SourcesOf[o][1] # Silent
  <2>1. PhasorHearsItsInlet(d, m, BlockSize, x)
    BY <1>7 DEF OnCourseOf
  <2>2. w.before.out = d.out
    BY <1>2, <2>1 DEF PhasorHearsItsInlet
  <2>3. PhasorHearsItsInlet(d, w, 0, y)
    BY <2>1, <2>2, PhasorHearsNextBlock
  <2> QED
    BY <1>7, <2>3 DEF OnCourseOf, Filters
<1>8. CASE Kind[o] \in Filters
  <2>1. FilterOnCourse(d, m, BlockSize, t)
    BY <1>8 DEF OnCourseOf
  <2>2. w.before.out = d.out
    BY <1>2, <2>1 DEF FilterOnCourse
  <2>3. FilterOnCourse(d, w, 0, t + BlockSize)
    BY <1>1, <2>1, <2>2, FilterNextBlock
  <2> QED
    BY <1>8, <2>3 DEF OnCourseOf, Filters
<1>9. CASE Kind[o] = "env~"
  <2>1. EnvelopeOnCourse(d, BlockSize, t)
    BY <1>9 DEF OnCourseOf
  <2>2. EnvelopeOnCourse(d, 0, t + BlockSize)
    BY <1>1, <2>1, EnvelopeNextBlock
  <2> QED
    BY <1>9, <2>2 DEF OnCourseOf, Filters
<1> QED
  BY <1>3, <1>4, <1>5, <1>6, <1>7, <1>8, <1>9 DEF Courses

\* A new one, of any of them.
LEMMA NewCourse ==
    ASSUME NEW p \in Patches, CoursesGoOn, NEW o \in p, Kind[o] \in Courses,
           NEW arguments \in Arguments[o], NEW b, NEW w, NEW e8, NEW e4, NEW x,
           w.path = Level, ~ w.before.ran, w.before.out = zeros
    PROVE  OnCourseOf(o, b, NewObject(o, arguments), w, 0, 0, e8, e4, x)
PROOF
<1> DEFINE d == NewObject(o, arguments)
<1>1. arguments \in Seq(Int)
  BY SignalAssumption, DspAssumption
<1> HIDE DEF d
<1>2. CASE Kind[o] = "line~"
  BY <1>2, NewLineOnCourse DEF NewObject, d, OnCourseOf, Filters
<1>3. CASE Kind[o] = "vline~"
  BY <1>3, NewVariableLineOnCourse DEF NewObject, d, OnCourseOf, Filters
<1>4. CASE Kind[o] = "osc~"
  BY <1>4, <1>1, NewOscOnCourse DEF NewObject, d, OnCourseOf, Filters
<1>5. CASE Kind[o] = "phasor~"
  BY <1>5, <1>1, NewPhasorOnCourse, NewPhasorHears DEF NewObject, d,
     OnCourseOf, Filters
<1>6. CASE Kind[o] \in Filters
  <2>1. \E lets, fc, q, c : d = NewDspFilter(lets, fc, q, c, zeros)
    <3>1. CASE Kind[o] = "lop~"
      BY <3>1 DEF NewObject, NewDspLowpassFilter, d
    <3>2. CASE Kind[o] = "hip~"
      BY <3>2 DEF NewObject, NewDspHighpassFilter, d
    <3>3. CASE Kind[o] = "bp~"
      BY <3>3 DEF NewObject, NewDspBandpassFilter, d
    <3> QED
      BY <1>6, <3>1, <3>2, <3>3 DEF Filters
  <2>2. FilterOnCourse(d, w, 0, 0)
    BY <2>1, NewFilterOnCourse
  <2> QED
    BY <1>6, <2>2 DEF OnCourseOf, Filters, d
<1>7. CASE Kind[o] = "env~"
  BY <1>7, <1>1, NewEnvelopeOnCourse DEF NewObject, d, CoursesGoOn,
     OnCourseOf, Filters
<1> QED
  BY <1>2, <1>3, <1>4, <1>5, <1>6, <1>7 DEF Courses

-----------------------------------------------------------------------------
\* What has a course is in a graph that is on, and handles messages unless it
\* computes blocks only.
LEMMA CourseKind ==
    ASSUME patch \in Patches, CoursesGoOn, LeftInletOnly, NEW o \in patch,
           Kind[o] \in Courses
    PROVE  /\ o \notin Adapts /\ Around[o] \cap Switchable = {}
           /\ DirectTimes[o] = {0}
           /\ o \in Handles <=> ~ WholeOnly(o)
PROOF
<1>1. /\ o \in DspObjects /\ Around[o] \cap Switchable = {}
      /\ DirectTimes[o] = {0}
  BY DspAssumption DEF CoursesGoOn
<1>2. PICK arguments \in Arguments[o] : TRUE
  BY DEF LeftInletOnly
<1> DEFINE d == NewObject(o, arguments)
<1>3. o \notin Adapts
  BY SignalAssumption DEF Arithmetic, Courses, Filters
<1>4. d.functions[1] = d.functions[2] <=> Kind[o] # "env~"
  <2>1. CASE Kind[o] = "line~"
    BY <2>1 DEF NewObject, NewDspLine, NewLine, Default
  <2>2. CASE Kind[o] = "vline~"
    BY <2>2 DEF NewObject, NewDspVariableLine, NewLine
  <2>3. CASE Kind[o] = "osc~"
    BY <2>3 DEF NewObject, NewDspOsc, Scalar
  <2>4. CASE Kind[o] = "phasor~"
    BY <2>4 DEF NewObject, NewDspPhasor, Scalar
  <2>5. CASE Kind[o] = "env~"
    BY <2>5 DEF NewObject, NewDspEnvelope
  <2>6. CASE Kind[o] = "lop~"
    BY <2>6 DEF NewObject, NewDspLowpassFilter, NewDspFilter
  <2>7. CASE Kind[o] = "hip~"
    BY <2>7 DEF NewObject, NewDspHighpassFilter, NewDspFilter
  <2>8. CASE Kind[o] = "bp~"
    BY <2>8 DEF NewObject, NewDspBandpassFilter, NewDspFilter
  <2> QED
    BY <2>1, <2>2, <2>3, <2>4, <2>5, <2>6, <2>7, <2>8 DEF Courses, Filters
<1> HIDE DEF d
<1>5. o \in Handles <=> HandlesMessages(o, d)
  BY <1>1, ConstructorAssumption DEF d
<1> QED
  BY <1>1, <1>3, <1>4, <1>5 DEF HandlesMessages, WholeOnly

\* What of an object's history there is something said of.
LEMMA CourseSeen ==
    ASSUME NEW o, NEW b, NEW d, NEW m, NEW n, NEW t, NEW e8, NEW e4, NEW x,
           NEW w, OnCourseOf(o, b, d, m, n, t, e8, e4, x),
           w.path = m.path, w.before = m.before, w.setBy = m.setBy,
           w.disturbed <=> m.disturbed
    PROVE  OnCourseOf(o, b, d, w, n, t, e8, e4, x)
PROOF
<1>1. LineOnCourse(d, m, n, t) => LineOnCourse(d, w, n, t)
  BY DEF LineOnCourse
<1>2. VariableLineOnCourse(b, d, m, n, t) => VariableLineOnCourse(b, d, w, n, t)
  BY DEF Arrives, VariableLineOnCourse, IsOnRamp
<1>3. OscOnCourse(d, m, n, t, e8) => OscOnCourse(d, w, n, t, e8)
  BY DEF OscOnCourse
<1>4. PhasorOnCourse(d, m, n, e4) => PhasorOnCourse(d, w, n, e4)
  BY DEF PhasorOnCourse
<1>5. PhasorHearsItsInlet(d, m, n, x) => PhasorHearsItsInlet(d, w, n, x)
  BY DEF PhasorHearsItsInlet
<1>6. FilterOnCourse(d, m, n, t) => FilterOnCourse(d, w, n, t)
  BY DEF FilterOnCourse, OutputOf
<1> QED
  BY <1>1, <1>2, <1>3, <1>4, <1>5, <1>6 DEF OnCourseOf

\* The less its parts were in step, the less is said of it; and before it has
\* rendered anything nothing is of what it hears.
LEMMA CourseWeaker ==
    ASSUME NEW o, NEW b, NEW d, NEW m, NEW n \in Nat, NEW t,
           NEW e8, NEW e4, NEW x, NEW f8, NEW f4, NEW y,
           OnCourseOf(o, b, d, m, n, t, e8, e4, x),
           f8 => e8, f4 => e4, WholeOnly(o) /\ n > 0 => x = y
    PROVE  OnCourseOf(o, b, d, m, n, t, f8, f4, y)
PROOF
<1>1. Kind[o] = "osc~" => OscOnCourse(d, m, n, t, f8)
  BY DEF OnCourseOf, OscOnCourse
<1>2. Kind[o] = "phasor~" /\ SourcesOf[o][1] = Silent =>
          PhasorOnCourse(d, m, n, f4)
  BY DEF OnCourseOf, PhasorOnCourse
<1>3. Kind[o] = "phasor~" /\ SourcesOf[o][1] # Silent =>
          PhasorHearsItsInlet(d, m, n, y)
  BY DEF OnCourseOf, PhasorHearsItsInlet, WholeOnly
<1> QED
  BY <1>1, <1>2, <1>3 DEF OnCourseOf

\* What is said of an object after a step.
LEMMA CourseAfter ==
    ASSUME NEW o, NEW d, NEW m, NEW n \in Nat, NEW y, NEW f8, NEW f4,
           d = signal'[o], m = seen'[o], n = EndOf(rendered[o])',
           y = (Inlets(o)[1])', f8 <=> InSteps(o, 8)', f4 <=> InSteps(o, 4)',
           build' = build, UNCHANGED blockStartTimestamp,
           OnCourseOf(o, build, d, m, n, blockStart, f8, f4, y)
    PROVE  OnCourse(o)'
PROOF
<1>1. blockStart' = blockStart
  BY DEF blockStart
<1>2. OnCourseOf(o, build', signal'[o], seen'[o], EndOf(rendered[o])', blockStart',
                 InSteps(o, 8)', InSteps(o, 4)', (Inlets(o)[1])')
  <2>1. OnCourseOf(o, build, d, m, n, blockStart, InSteps(o, 8)', f4, y)
    BY DEF OnCourseOf, OscOnCourse
  <2>2. OnCourseOf(o, build, d, m, n, blockStart, InSteps(o, 8)',
                   InSteps(o, 4)', y)
    BY <2>1 DEF OnCourseOf, PhasorOnCourse
  <2> QED
    BY <1>1, <2>2
<1> QED
  BY <1>2 DEF OnCourse

\* The parts are in step as long as the next one is.
LEMMA StaysInStep ==
    ASSUME ServedSoFar, NEW o \in patch, NEW from \in Int, NEW to \in Int,
           o = Turn, Render(from, to), NEW step, InSteps(o, step)'
    PROVE  InSteps(o, step) /\ from % step = 0
PROOF
<1> DEFINE parts == rendered[o]
           part == [from |-> from, to |-> to]
           longer == Append(parts, part)
           n == Len(parts)
<1>1. /\ parts \in Seq(RenderedPart) /\ rendered'[o] = longer
      /\ part \in RenderedPart /\ part.from = from
  BY DEF ServedSoFar, DspTyped, Render, RenderedPart
<1>2. \A i \in DOMAIN longer : longer[i].from % step = 0
  BY <1>1 DEF InSteps
<1> HIDE DEF part, parts
<1>3. /\ n \in Nat /\ longer \in Seq(RenderedPart) /\ Len(longer) = n + 1
      /\ longer[n + 1] = part
      /\ \A i \in 1 .. n : longer[i] = parts[i]
      /\ DOMAIN parts = 1 .. n /\ DOMAIN longer = 1 .. n + 1
  BY <1>1, AppendProperties, LenProperties
<1> HIDE DEF longer
<1>4. n + 1 \in DOMAIN longer /\ \A i \in DOMAIN parts : i \in DOMAIN longer
  BY <1>3
<1>5. \A i \in DOMAIN parts : parts[i].from % step = 0
  BY <1>2, <1>3, <1>4
<1> QED
  BY <1>1, <1>2, <1>3, <1>4, <1>5 DEF InSteps, parts

\* The part that an object with a course renders.
LEMMA CourseRenders ==
    ASSUME ServedSoFar, ServedSoFar', CoursesGoOn, LeftInletOnly,
           OthersAreOther, ServedOnTime, NEW o, NEW from, NEW to \in Int,
           Reads(o, from, to), o \notin Fed, Kind[o] \in Courses
    PROVE  /\ o \in patch /\ patch \in Patches /\ patch' = patch
           /\ EndOf(rendered[o])' = to
           /\ from \in Nat /\ from <= to /\ to <= BlockSize
           /\ WholeOnly(o) => /\ from = 0 /\ to = BlockSize
                              /\ processFunction[o] # "message"
PROOF
<1>1. /\ OnTurn /\ o = Turn /\ from = EndOf(rendered[o]) /\ Render(from, to)
      /\ UNCHANGED <<patch, late>>
      /\ processFunction[o] # "message" => from = 0 /\ to = BlockSize
  BY DEF Reads
<1>2. /\ o \in patch /\ EndOf(rendered[o])' = to /\ from \in Int
      /\ o \notin Fed \cup late => 0 <= from /\ from <= to /\ to <= BlockSize
  BY <1>1, RendersOn
<1>3. patch \in Patches /\ BlockSize \in Nat
  BY DspAssumption DEF ServedSoFar, DspTyped
<1>4. CASE WholeOnly(o)
  <2>1. processFunction[o] = "other"
    BY <1>2, <1>3, <1>4, CourseKind DEF OthersAreOther
  <2> QED
    BY <1>1, <1>2, <1>3, <2>1
<1>5. CASE ~ WholeOnly(o)
  BY <1>2, <1>3, <1>5, CourseKind, <1>1 DEF ServedOnTime
<1> QED
  BY <1>4, <1>5

\* An object goes on its course in its turn.
LEMMA CourseTurn ==
    ASSUME ServedSoFar, ServedSoFar', HearsBefore, CoursesGoOn, LeftInletOnly,
           CourseInvariant, ~ lost, NEW o, NEW from, NEW to \in Int,
           Plays(o, from, to), o \notin Fed, Kind[o] \in Courses
    PROVE  OnCourse(o)'
PROOF
<1>1. /\ Reads(o, from, to) /\ build' = build
      /\ OnTurn /\ o = Turn /\ from = EndOf(rendered[o]) /\ Render(from, to)
      /\ UNCHANGED <<patch, connected, blockStartTimestamp>>
      /\ \A p \in patch \ {o} : signal'[p] = signal[p]
  BY DEF Plays, Reads
<1>2. /\ BlocksAtSamples /\ LevelsKnown /\ OthersAreOther /\ ServedOnTime
      /\ ToldFromOutside /\ CoursesSoFar
  BY DEF CourseInvariant
<1>3. /\ o \in patch /\ patch \in Patches /\ EndOf(rendered[o])' = to
      /\ from \in Nat /\ from <= to /\ to <= BlockSize
      /\ WholeOnly(o) => /\ from = 0 /\ to = BlockSize
                         /\ processFunction[o] # "message"
  BY <1>1, <1>2, CourseRenders
<1>4. Inlets(o)' = Inlets(o)
  BY <1>1, OnItsTurn, <1>3, InletsBefore DEF Turn
<1> DEFINE e8 == InSteps(o, 8)'
           e4 == InSteps(o, 4)'
           e == Processed(o, from, to)
           x == Inlets(o)[1]
           n == blockStart
           m == seen[o]
           r == [path |-> m.path, before |-> m.before, setBy |-> seen'[o].setBy,
                 disturbed |-> m.disturbed \/ AskedForNone(o, from, to)]
<1>5. /\ e8 => InSteps(o, 8) /\ from % 8 = 0
      /\ e4 => InSteps(o, 4) /\ from % 4 = 0
  BY <1>1, <1>3, StaysInStep
<1>6. OnCourseOf(o, build, signal[o], m, from, n, InSteps(o, 8), InSteps(o, 4),
                 x)
  BY <1>1, <1>2, <1>3 DEF CoursesSoFar, OnCourse
<1>7. r.setBy = [k \in Part(0, BlockSize) |->
                    IF k \in Part(from, to)
                    THEN IF Kind[o] \in {"line~", "vline~"} THEN m.path
                         ELSE Setting(o, Present(o))
                    ELSE m.setBy[k]]
  BY <1>1 DEF Reads, Setting, Settable, Arithmetic, Fixed, Filters
<1>8. r.path = m.path /\ r.before = m.before
  OBVIOUS
<1>9. r.disturbed <=> m.disturbed \/ AskedForNone(o, from, to)
  <2>1. r.disturbed = (m.disturbed \/ AskedForNone(o, from, to))
    BY SMT
  <2> QED
    BY <2>1, Zenon
<1> HIDE DEF e8, e4, r, m
<1>10. OnCourseOf(o, build, e, r, to, n, e8, e4, x)
  BY <1>2, <1>3, <1>5, <1>6, <1>7, <1>8, <1>9, CoursePart
<1> HIDE DEF e, x
<1>11. OnCourseOf(o, build, signal'[o], seen'[o], to, n, e8, e4, x)
  <2>1. seen'[o].before = m.before /\ seen'[o].setBy = r.setBy
    BY DEF Plays, r, m
  <2>2. CASE /\ signal'[o] = e /\ seen'[o].path = m.path
             /\ seen'[o].disturbed <=>
                    m.disturbed \/ AskedForNone(o, from, to)
    BY <1>8, <1>9, <1>10, <2>1, <2>2, CourseSeen
  <2>3. ASSUME NEW i \in 1 .. Len(messageQueue[o]), NEW message,
               message = messageQueue[o][i].message,
               signal'[o] = ProcessedMessage(o, e, message),
               seen'[o].path = NewPath(o, m.path, message, n + to),
               seen'[o].disturbed <=>
                   \/ m.disturbed \/ AskedForNone(o, from, to)
                   \/ message.selector = "clear"
        PROVE  OnCourseOf(o, build, signal'[o], seen'[o], to, n, e8, e4, x)
    <3>1. message \in MessagesTo[o]
      BY <1>2, <1>3, <2>3 DEF ToldFromOutside
    <3>2. to \in Nat /\ n + to \in Int
      BY <1>2, <1>3, StartOfBlock
    <3>3. seen'[o].disturbed <=> r.disturbed \/ message.selector = "clear"
      BY <1>9, <2>3
    <3> HIDE DEF n
    <3> QED
      BY <1>2, <1>3, <1>8, <1>10, <2>1, <2>3, <3>1, <3>2, <3>3, CourseTold
      DEF x, n
  <2> QED
    BY <2>2, <2>3 DEF Plays, e, m
<1>12. /\ to \in Nat /\ x = (Inlets(o)[1])'
  BY <1>3, <1>4 DEF x
<1> SUFFICES ASSUME NEW f8, NEW f4, f8 <=> InSteps(o, 8)', f4 <=> InSteps(o, 4)',
                    NEW d, NEW w, d = signal'[o], w = seen'[o],
                    NEW y, y = (Inlets(o)[1])',
                    OnCourseOf(o, build, d, w, to, n, f8, f4, y)
             PROVE  OnCourse(o)'
  BY <1>11, <1>12 DEF e8, e4
<1> QED
  BY <1>1, <1>3, <1>12, CourseAfter

\* What does not have its turn stays on its course.
LEMMA CourseStays ==
    ASSUME ServedSoFar, NEW o \in patch, OnCourse(o),
           signal'[o] = signal[o], seen'[o] = seen[o],
           rendered'[o] = rendered[o], build' = build,
           UNCHANGED blockStartTimestamp,
           rendered[o] = <<>> \/ Inlets(o)' = Inlets(o),
           EndOf(rendered[o]) \in Nat
    PROVE  OnCourse(o)'
PROOF
<1> DEFINE n == EndOf(rendered[o])
<1>1. n = EndOf(rendered[o])'
  BY DEF EndOf
<1>2. (InSteps(o, 8)' <=> InSteps(o, 8)) /\ (InSteps(o, 4)' <=> InSteps(o, 4))
  BY DEF InSteps
<1>3. n > 0 => (Inlets(o)[1])' = Inlets(o)[1]
  BY DEF EndOf
<1> HIDE DEF n
<1> SUFFICES ASSUME NEW f8, NEW f4, f8 <=> InSteps(o, 8)', f4 <=> InSteps(o, 4)',
                    NEW y, y = (Inlets(o)[1])'
             PROVE  OnCourse(o)'
  OBVIOUS
<1> USE DEF n
<1>4. n \in Nat /\ OnCourseOf(o, build, signal[o], seen[o], n, blockStart,
                              InSteps(o, 8), InSteps(o, 4), Inlets(o)[1])
  BY DEF OnCourse
<1> HIDE DEF n
<1>5. OnCourseOf(o, build, signal[o], seen[o], n, blockStart, f8, f4, y)
  BY <1>2, <1>3, <1>4, CourseWeaker
<1>6. OnCourseOf(o, build', signal'[o], seen'[o], EndOf(rendered[o])', blockStart',
                 InSteps(o, 8)', InSteps(o, 4)', (Inlets(o)[1])')
  <2>1. OnCourseOf(o, build, signal[o], seen[o], n, blockStart,
                   InSteps(o, 8)', f4, y)
    BY <1>5 DEF OnCourseOf, OscOnCourse
  <2>2. OnCourseOf(o, build, signal[o], seen[o], n, blockStart,
                   InSteps(o, 8)', InSteps(o, 4)', y)
    BY <2>1 DEF OnCourseOf, PhasorOnCourse
  <2>3. blockStart' = blockStart
    BY DEF blockStart
  <2> QED
    BY <1>1, <2>2, <2>3
<1> QED
  BY <1>6 DEF OnCourse

\* How much of the block an object with a course has rendered.
LEMMA CourseEnd ==
    ASSUME ServedSoFar, CoursesGoOn, LeftInletOnly, ServedOnTime, WholeBlocks,
           NEW o \in patch, o \notin Fed, Kind[o] \in Courses
    PROVE  EndOf(rendered[o]) \in Nat
PROOF
<1>1. patch \in Patches /\ BlockSize \in Nat /\ rendered[o] \in Seq(RenderedPart)
  BY DspAssumption DEF ServedSoFar, DspTyped
<1>2. CASE rendered[o] = <<>>
  BY <1>2 DEF EndOf
<1>3. CASE o \notin Handles /\ rendered[o] # <<>>
  BY <1>1, <1>3 DEF WholeBlocks
<1>4. CASE o \in Handles /\ rendered[o] # <<>>
  <2>1. o \notin late
    BY <1>1, <1>4, CourseKind DEF ServedOnTime
  <2>2. FollowEachOther(rendered[o])
    BY <2>1 DEF ServedSoFar, Tiled, PartsTileBlock
  <2> DEFINE parts == rendered[o]
             n == Len(parts)
  <2> HIDE DEF parts
  <2>3. n \in 1 .. n /\ parts[n] \in RenderedPart
    BY <1>1, <1>4, LenProperties, EmptySeq DEF parts
  <2>4. 0 <= parts[n].from /\ parts[n].from <= parts[n].to
    BY <2>2, <2>3 DEF FollowEachOther, parts
  <2>5. EndOf(parts) = parts[n].to /\ parts[n].from \in Int /\ parts[n].to \in Int
    BY <1>4, <2>3 DEF EndOf, Last, RenderedPart, parts
  <2> QED
    BY <2>4, <2>5 DEF parts
<1> QED
  BY <1>2, <1>3, <1>4

\* A turn.
LEMMA CoursesKept ==
    ASSUME ServedSoFar, ServedSoFar', HearsBefore, CoursesGoOn, LeftInletOnly,
           CourseInvariant, ~ lost, NEW o, NEW from, NEW to \in Int,
           Plays(o, from, to)
    PROVE  LevelsKnown' /\ CoursesSoFar' /\ WholeBlocks'
PROOF
<1>1. /\ Reads(o, from, to) /\ build' = build /\ UNCHANGED <<patch, connected>>
      /\ UNCHANGED blockStartTimestamp /\ UNCHANGED late
      /\ OnTurn /\ o = Turn /\ from = EndOf(rendered[o]) /\ Render(from, to)
      /\ \A p \in patch \ {o} : signal'[p] = signal[p] /\ seen'[p] = seen[p]
      /\ Fed' = Fed
      /\ processFunction[o] # "message" => to = BlockSize
  BY DEF Plays, Reads, Fed
<1>2. /\ patch \in Patches /\ turn \in 1 .. Len(nodes) /\ Len(nodes) \in Nat
      /\ o \in patch
  BY <1>1, OnItsTurn DEF ServedSoFar, DspTyped
<1>3. /\ EndOf(rendered[o])' = to
      /\ \A p \in patch \ {o} : rendered'[p] = rendered[p]
  BY <1>1, RendersOn
<1>4. LevelsKnown'
  <2>1. Kind[o] = "sig~" /\ o \notin Fed => LevelIsGiven(signal'[o])
    BY <1>1, LevelTurn DEF CourseInvariant
  <2>2. \A p \in patch \ {o} :
            Kind[p] = "sig~" /\ p \notin Fed => LevelIsGiven(signal'[p])
    BY <1>1 DEF CourseInvariant, LevelsKnown
  <2>3. \A p : LevelIsGiven(signal[p])' <=> LevelIsGiven(signal'[p])
    BY DEF LevelIsGiven, HasBuffer
  <2> QED
    BY <1>1, <2>1, <2>2, <2>3 DEF LevelsKnown
<1>5. ASSUME NEW p \in patch, p \notin Fed, Kind[p] \in Courses
      PROVE  OnCourse(p)'
  <2>1. CASE p = o
    <3>1. o \notin Fed /\ Kind[o] \in Courses
      BY <1>5, <2>1
    <3>2. OnCourse(o)'
      BY <3>1, CourseTurn
    <3> QED
      BY <2>1, <3>2
  <2>2. CASE p # o
    <3>1. OnCourse(p)
      BY <1>5 DEF CourseInvariant, CoursesSoFar
    <3>2. signal'[p] = signal[p] /\ seen'[p] = seen[p] /\ rendered'[p] = rendered[p]
      BY <1>1, <1>3, <2>2
    <3>3. rendered[p] = <<>> \/ Inlets(p)' = Inlets(p)
      <4>1. CASE rendered[p] # <<>>
        <5>1. PICK j \in 1 .. turn - 1 : nodes[j] = p
          BY <1>1, <2>2, <4>1 DEF ServedSoFar, Tiled, HadTurn
        <5>2. j \in 1 .. turn
          BY <1>2
        <5> QED
          BY <1>1, <1>2, <5>1, <5>2, InletsBefore
      <4> QED
        BY <4>1
    <3>4. EndOf(rendered[p]) \in Nat
      BY <1>5, CourseEnd DEF CourseInvariant
    <3> QED
      BY <1>1, <3>1, <3>2, <3>3, <3>4, CourseStays
  <2> QED
    BY <2>1, <2>2
<1>6. CoursesSoFar'
  BY <1>1, <1>5 DEF CoursesSoFar
<1>7. ASSUME NEW p \in patch \ Handles, rendered'[p] # <<>>
      PROVE  EndOf(rendered[p])' = BlockSize
  <2>1. CASE p = o
    <3>1. processFunction[o] = "other"
      BY <1>7, <2>1 DEF CourseInvariant, OthersAreOther
    <3> QED
      BY <1>1, <1>3, <2>1, <3>1
  <2>2. CASE p # o
    BY <1>3, <1>7, <2>2 DEF CourseInvariant, WholeBlocks, EndOf
  <2> QED
    BY <2>1, <2>2
<1>8. WholeBlocks'
  BY <1>1, <1>7 DEF WholeBlocks
<1> QED
  BY <1>4, <1>6, <1>8

\* A step in which nothing is computed.
LEMMA CoursesStill ==
    ASSUME ServedSoFar, CoursesGoOn, LeftInletOnly, CourseInvariant,
           UNCHANGED <<patch, signal, seen, rendered, build, lost,
                       blockStartTimestamp>>,
           \/ \A o \in patch : rendered[o] = <<>>
           \/ UNCHANGED connected
    PROVE  LevelsKnown' /\ CoursesSoFar' /\ WholeBlocks'
PROOF
<1>1. LevelsKnown'
  <2>1. \A p : LevelIsGiven(signal[p])' <=> LevelIsGiven(signal[p])
    BY DEF LevelIsGiven, HasBuffer
  <2> QED
    BY <2>1 DEF CourseInvariant, LevelsKnown, Fed
<1>2. ASSUME NEW o \in patch, o \notin Fed, Kind[o] \in Courses, ~ lost
      PROVE  OnCourse(o)'
  BY <1>2, CourseEnd, InletsStay, CourseStays DEF CourseInvariant,
     CoursesSoFar
<1>3. CoursesSoFar'
  BY <1>2 DEF CoursesSoFar, Fed
<1>4. WholeBlocks'
  BY DEF CourseInvariant, WholeBlocks, EndOf
<1> QED
  BY <1>1, <1>3, <1>4

\* When the graph has run, what has a course has computed its block.
LEMMA CourseDone ==
    ASSUME ServedSoFar, CoursesGoOn, LeftInletOnly, RanSoFar, CourseInvariant,
           phase = "dsp", turn > Len(nodes),
           NEW o \in patch, o \notin Fed, Kind[o] \in Courses
    PROVE  rendered[o] # <<>> /\ EndOf(rendered[o]) = BlockSize
PROOF
<1>1. /\ patch \in Patches /\ turn \in Int /\ Len(nodes) \in Nat
      /\ \E i \in 1 .. Len(nodes) : nodes[i] = o
  BY NodesOfPatch DEF ServedSoFar, DspTyped
<1>2. PICK i \in 1 .. turn - 1 : nodes[i] = o
  BY <1>1
<1>3. /\ Around[o] \cap Switchable = {} /\ DirectTimes[o] = {0}
      /\ o \notin Adapts
      /\ o \in Handles <=> ~ WholeOnly(o)
  BY <1>1, CourseKind
<1>4. Runs(o)
  <2>1. o \in DspObjects /\ Around[o] \subseteq Graphs
    BY <1>1, DspAssumption
  <2> QED
    BY <1>3, <2>1 DEF ServedSoFar, Consumed, Runs
<1>5. rendered[o] # <<>>
  BY <1>2, <1>4 DEF RanSoFar
<1>6. CASE o \in Handles
  <2>1. o \notin late
    BY <1>3, <1>6 DEF CourseInvariant, ServedOnTime
  <2>2. Last(rendered[o]).to = BlockSize
    BY <1>2, <1>4, <2>1 DEF ServedSoFar, Tiled, PartsTileBlock
  <2> QED
    BY <1>5, <2>2 DEF EndOf
<1>7. CASE o \notin Handles
  BY <1>5, <1>7 DEF CourseInvariant, WholeBlocks
<1> QED
  BY <1>5, <1>6, <1>7

-----------------------------------------------------------------------------
(* The courses in every step.                                              *)

\* What is told to an object that no other feeds comes from outside.
LEMMA NextTold ==
    ASSUME ServedSoFar, ToldFromOutside, [Next]_vars
    PROVE  ToldFromOutside'
PROOF
<1>1. QueueStep /\ patch' = patch /\ Fed' = Fed
  BY NextQueues DEF Fed
<1>2. ASSUME NEW o \in patch \ Fed, NEW i \in 1 .. Len(messageQueue'[o])
      PROVE  messageQueue'[o][i].message \in MessagesTo[o]
  BY <1>2, OnItsTurn, <1>1 DEF Waits, ToldFromOutside, IsTold, IsAnswer, Fed,
     QueueStep
<1> QED
  BY <1>1, <1>2 DEF ToldFromOutside

\* A block ends, and the next goes on from it.
LEMMA EndBlockCourses ==
    ASSUME ServedSoFar, CoursesGoOn, LeftInletOnly, NumbersKnown, RanSoFar,
           CourseInvariant, EndBlock, ~ lost
    PROVE  LevelsKnown' /\ CoursesSoFar' /\ WholeBlocks'
PROOF
<1>1. /\ UNCHANGED <<patch, signal, build>> /\ patch' = patch
      /\ rendered' = [o \in patch |-> <<>>]
      /\ phase = "dsp" /\ turn > Len(nodes)
  BY DEF EndBlock, EndProcess
<1>2. /\ blockStart' = blockStart + BlockSize /\ blockStart \in Nat
      /\ BlockSize \in Nat
  BY NextStart, StartOfBlock, DspAssumption DEF Next, CourseInvariant
<1>3. LevelsKnown'
  <2>1. \A p : LevelIsGiven(signal[p])' <=> LevelIsGiven(signal[p])
    BY <1>1 DEF LevelIsGiven, HasBuffer
  <2> QED
    BY <1>1, <2>1 DEF CourseInvariant, LevelsKnown, Fed
<1>4. ASSUME NEW o \in patch, o \notin Fed, Kind[o] \in Courses
      PROVE  OnCourse(o)'
  <2>1. rendered[o] # <<>> /\ EndOf(rendered[o]) = BlockSize
    BY <1>1, <1>4, CourseDone
  <2>2. OnCourse(o)
    BY <1>4 DEF CourseInvariant, CoursesSoFar
  <2> DEFINE d == signal[o]
             m == seen[o]
             w == seen'[o]
             e8 == InSteps(o, 8)
             e4 == InSteps(o, 4)
             n == blockStart
             x == Inlets(o)[1]
  <2>3. OnCourseOf(o, build, d, m, BlockSize, n, e8, e4, x)
    BY <2>1, <2>2 DEF OnCourse
  <2>4. /\ w.path = m.path /\ w.disturbed = m.disturbed
        /\ w.before = [out |-> IF "out" \in DOMAIN d THEN d.out ELSE zeros,
                       setBy |-> m.setBy, whole |-> InSteps(o, 8),
                       ran |-> rendered[o] # <<>>]
    <3>1. m = [setBy |-> m.setBy, path |-> m.path, disturbed |-> m.disturbed,
               given |-> m.given, before |-> m.before]
      BY DEF NumbersKnown, SeenShape
    <3>2. w = [m EXCEPT !.before =
                  [out |-> IF "out" \in DOMAIN d THEN d.out ELSE zeros,
                   setBy |-> m.setBy, whole |-> InSteps(o, 8),
                   ran |-> rendered[o] # <<>>]]
      BY DEF EndBlock, InSteps
    <3> HIDE DEF m, d, w
    <3> QED
      BY <3>1, <3>2
  <2>5. /\ w.before.out = IF "out" \in DOMAIN d THEN d.out ELSE zeros
        /\ w.before.setBy = m.setBy
    BY <2>4
  <2>6. w.before.ran
    <3>1. w.before.ran = (rendered[o] # <<>>)
      BY <2>4
    <3> QED
      BY <2>1, <3>1
  <2>7. w.before.whole => e8 /\ e4
    <3>1. w.before.whole = InSteps(o, 8)
      BY <2>4
    <3>2. e8 => e4
      <4>1. \A i \in DOMAIN rendered[o] : rendered[o][i].from \in Int
        <5>1. ASSUME NEW q \in Seq(RenderedPart)
              PROVE  \A i \in DOMAIN q : q[i].from \in Int
          <6>1. \A i \in DOMAIN q : q[i] \in RenderedPart
            OBVIOUS
          <6> QED
            BY <6>1 DEF RenderedPart
        <5>2. rendered[o] \in Seq(RenderedPart)
          BY DEF ServedSoFar, DspTyped
        <5> QED
          BY <5>1, <5>2
      <4>2. \A i \in Int : i % 8 = 0 => i % 4 = 0
        OBVIOUS
      <4> QED
        BY <4>1, <4>2 DEF InSteps
    <3>3. w.before.whole <=> e8
      BY <3>1, Zenon
    <3> QED
      BY <3>2, <3>3
  <2>8. w.disturbed <=> m.disturbed
    BY <2>4
  <2> HIDE DEF d, m, w, e8, e4, n, x
  <2>9. OnCourseOf(o, build, d, w, 0, n + BlockSize, InSteps(o, 8)',
                   InSteps(o, 4)', (Inlets(o)[1])')
    <3> SUFFICES ASSUME NEW f8, NEW f4, NEW y
                 PROVE  OnCourseOf(o, build, d, w, 0, n + BlockSize, f8, f4, y)
      OBVIOUS
    <3>1. n \in Nat
      BY <1>2 DEF n
    <3> QED
      BY <1>4, <2>3, <2>4, <2>5, <2>6, <2>7, <2>8, <3>1, CourseNextBlock
  <2>10. OnCourseOf(o, build', signal'[o], seen'[o], EndOf(rendered[o])',
                    blockStart', InSteps(o, 8)', InSteps(o, 4)', (Inlets(o)[1])')
    <3>1. EndOf(rendered[o])' = 0
      BY <1>1 DEF EndOf
    <3> QED
      BY <1>1, <1>2, <2>9, <3>1 DEF d, w, n
  <2> QED
    BY <2>10 DEF OnCourse
<1>5. CoursesSoFar' /\ WholeBlocks'
  BY <1>1, <1>4 DEF CoursesSoFar, Fed, WholeBlocks
<1> QED
  BY <1>3, <1>5

\* A turn, which the process may not survive.
LEMMA TurnCourses ==
    ASSUME ServedSoFar, ServedSoFar', HearsBefore, CoursesGoOn,
           HeardInvariant, CourseInvariant, ~ lost,
           ComputeBlock \/ ComputeRest \/ ComputeToMessage
    PROVE  LevelsKnown' /\ CoursesSoFar' /\ WholeBlocks'
PROOF
<1>1. NumbersKnown /\ LeftInletOnly
  BY DEF HeardInvariant
<1>2. CASE ~ lost'
  <2>1. \E o : \E to \in Int : Plays(o, EndOf(rendered[o]), to)
    <3>1. BlockSize \in Int
      BY DspAssumption
    <3> QED
      BY <1>1, <1>2, <3>1, TurnPlays, MessagePlays
  <2>2. PICK o : \E to \in Int : Plays(o, EndOf(rendered[o]), to)
    BY <2>1
  <2>3. PICK to \in Int : Plays(o, EndOf(rendered[o]), to)
    BY <2>2
  <2> QED
    BY <1>1, <2>3, CoursesKept
<1>3. CASE lost'
  <2>1. UNCHANGED <<patch, signal>> /\ OnTurn
    <3>1. CASE ComputeToMessage
      BY <1>3, <3>1 DEF ComputeToMessage, ProcessMessage
    <3>2. CASE ComputeBlock \/ ComputeRest
      BY <1>3, <3>2
         DEF ComputeBlock, ProcessBlock, ComputeRest, ProcessRest, Compute
    <3> QED
      BY <3>1, <3>2
  <2>2. LevelsKnown'
    BY <2>1 DEF LevelIsGiven, HasBuffer, CourseInvariant, LevelsKnown, Fed
  <2>3. CoursesSoFar'
    BY <1>3 DEF CoursesSoFar
  <2>4. WholeBlocks'
    <3>1. PICK from, to \in Int :
              /\ Render(from, to)
              /\ processFunction[Turn] # "message" => to = BlockSize
      <4>1. BlockSize \in Int /\ 0 \in Int
        BY DspAssumption
      <4>2. CASE ComputeBlock
        BY <4>1, <4>2 DEF ComputeBlock, ProcessBlock
      <4>3. CASE ComputeRest
        <5>1. blockIndexOfLastMessage \in Int
          BY <2>1, OnItsTurn
        <5> QED
          BY <4>1, <4>3, <5>1 DEF ComputeRest, ProcessRest
      <4>4. CASE ComputeToMessage
        <5>1. blockIndexOfLastMessage \in Int
          BY <2>1, OnItsTurn
        <5> DEFINE q == messageQueue[Turn]
        <5>2. /\ q # <<>> /\ processFunction[Turn] = "message"
              /\ Render(blockIndexOfLastMessage, BlockIndex(Head(q).time))
          BY <4>4 DEF ComputeToMessage, ProcessMessage
        <5>3. IsList(q) /\ \A i \in 1 .. Len(q) : q[i].time \in Int
          BY <2>1, OnItsTurn DEF ServedSoFar, DspTyped
        <5> HIDE DEF q
        <5>4. Head(q) = q[1] /\ 1 \in 1 .. Len(q)
          BY <5>2, <5>3, TailList
        <5>5. Head(q).time \in Int
          BY <5>3, <5>4
        <5>6. \A t \in Int : BlockIndex(t) \in Int
          BY IndexMonotone DEF ServedSoFar, DspTyped
        <5> QED
          BY <5>1, <5>2, <5>5, <5>6
      <4> QED
        BY <4>2, <4>3, <4>4
    <3>2. \A p \in patch \ Handles : p = Turn => processFunction[p] = "other"
      BY DEF CourseInvariant, OthersAreOther
    <3>3. rendered \in [patch -> Seq(RenderedPart)]
      BY DEF ServedSoFar, DspTyped
    <3> DEFINE part == [from |-> from, to |-> to]
    <3>4. \A q \in Seq(RenderedPart) : /\ Append(q, part) # <<>>
                                       /\ Last(Append(q, part)) = part
      <4>1. part \in RenderedPart
        BY <3>1 DEF RenderedPart
      <4> HIDE DEF part
      <4> SUFFICES ASSUME NEW q \in Seq(RenderedPart)
                   PROVE  Append(q, part) # <<>> /\ Last(Append(q, part)) = part
        OBVIOUS
      <4>2. /\ Len(q) \in Nat /\ Append(q, part) \in Seq(RenderedPart)
            /\ Len(Append(q, part)) = Len(q) + 1
            /\ Append(q, part)[Len(q) + 1] = part
        BY <4>1, AppendProperties, LenProperties
      <4> DEFINE r == Append(q, part)
      <4> HIDE DEF r
      <4>3. Last(r) = r[Len(r)]
        BY DEF Last
      <4>4. r # <<>>
        BY <4>2 DEF r
      <4> QED
        BY <4>2, <4>3, <4>4 DEF r
    <3>5. ASSUME NEW p \in patch \ Handles, rendered'[p] # <<>>
          PROVE  EndOf(rendered[p])' = BlockSize
      <4>1. CASE p = Turn
        <5>1. rendered'[p] = Append(rendered[p], part) /\ to = BlockSize
          BY <3>1, <3>2, <3>3, <3>5, <4>1 DEF Render
        <5>2. rendered[p] \in Seq(RenderedPart) /\ part.to = to
          BY <3>3, <3>5
        <5> HIDE DEF part
        <5> QED
          BY <3>4, <5>1, <5>2 DEF EndOf
      <4>2. CASE p # Turn
        <5>1. rendered'[p] = rendered[p]
          BY <3>1, <3>3, <3>5, <4>2 DEF Render
        <5> QED
          BY <3>5, <5>1 DEF CourseInvariant, WholeBlocks, EndOf
      <4> QED
        BY <4>1, <4>2
    <3> QED
      BY <2>1, <3>5 DEF WholeBlocks
  <2> QED
    BY <2>2, <2>3, <2>4
<1> QED
  BY <1>2, <1>3

\* Every step keeps what is said of courses.
LEMMA NextCourses ==
    ASSUME ServedSoFar, ServedSoFar', HearsBefore, CoursesGoOn,
           HeardInvariant, RanSoFar, CourseInvariant, [Next]_vars
    PROVE  CourseInvariant'
PROOF
<1>1. /\ BlocksAtSamples' /\ OthersAreOther' /\ NumbersWait'
      /\ ToldFromOutside' /\ ServedOnTime'
  BY NextStart, NextOther, NextNumbersWait, NextTold, NextOnTime
     DEF CourseInvariant
<1> SUFFICES LevelsKnown' /\ CoursesSoFar' /\ WholeBlocks'
  BY <1>1 DEF CourseInvariant
<1>2. LeftInletOnly /\ NumbersKnown
  BY DEF HeardInvariant
<1>3. phase # "dsp" => \A o \in patch : rendered[o] = <<>>
  BY AtRest DEF ServedSoFar
<1>4. CASE UNCHANGED vars
  BY <1>2, <1>4, CoursesStill DEF vars, dspVars, signalVars
<1>5. ASSUME NEW o \in patch, Tell(o)
      PROVE  LevelsKnown' /\ CoursesSoFar' /\ WholeBlocks'
  BY <1>2, <1>5, CoursesStill DEF Tell, SendDirect, Receive
<1>6. ASSUME NEW o \in patch, Connect(o)
      PROVE  LevelsKnown' /\ CoursesSoFar' /\ WholeBlocks'
  BY <1>2, <1>3, <1>6, CoursesStill DEF Connect, onInletConnectionUpdate
<1>7. CASE ResizeTable
  BY <1>2, <1>7, CoursesStill DEF ResizeTable, dspVars
<1>8. CASE ~ lost /\ (ComputeBlock \/ ComputeRest \/ ComputeToMessage)
  BY <1>8, TurnCourses
<1>9. CASE BeginBlock
  BY <1>2, <1>9, CoursesStill DEF BeginBlock, BeginProcess
<1>10. CASE ~ lost /\ EndBlock
  BY <1>2, <1>10, EndBlockCourses
<1>11. CASE OtherStep
  BY <1>2, <1>11, CoursesStill
     DEF OtherStep, PassOver, setSwitch, BeginDsp, signalVars
<1> QED
  BY <1>4, <1>5, <1>6, <1>7, <1>8, <1>9, <1>10, <1>11 DEF Next

\* At first nothing has gone anywhere.
LEMMA InitCourses ==
    ASSUME CoursesGoOn, Init
    PROVE  CourseInvariant
PROOF
<1>1. /\ patch \in Patches /\ rendered = [o \in patch |-> <<>>]
      /\ messageQueue = [o \in patch |-> <<>>]
      /\ blockStartTimestamp = 0 /\ late = {}
      /\ processFunction =
             [o \in patch |-> IF o \in Handles THEN "noMessage" ELSE "other"]
      /\ patch \subseteq DspObjects
  BY DspAssumption DEF Init, DspInit
<1>2. PICK arguments \in [patch -> UNION Range(Arguments)] :
          /\ \A o \in patch : arguments[o] \in Arguments[o]
          /\ signal = [o \in patch |-> NewObject(o, arguments[o])]
  BY DEF Init
<1>3. BlocksAtSamples
  <2>1. 0 = 0 * TicksPerSample /\ 0 \in Nat
    BY DspAssumption
  <2> QED
    BY <1>1, <2>1 DEF BlocksAtSamples
<1>4. OthersAreOther
  BY <1>1 DEF OthersAreOther
<1>5. NumbersWait /\ ToldFromOutside /\ ServedOnTime
  <2>1. \A i \in 1 .. Len(<<>>) : FALSE
    OBVIOUS
  <2> QED
    BY <1>1, <2>1 DEF NumbersWait, ToldFromOutside, ServedOnTime
<1>6. LevelsKnown
  BY <1>1, <1>2, NewReader DEF LevelsKnown
<1>7. WholeBlocks
  BY <1>1 DEF WholeBlocks
<1>8. ASSUME NEW o \in patch, Kind[o] \in Courses
      PROVE  OnCourse(o)
  <2> DEFINE w == seen[o]
  <2>1. /\ w.path = Level /\ w.before.out = zeros
        /\ w.before = [out |-> zeros, setBy |-> zeros, whole |-> TRUE,
                       ran |-> FALSE]
    BY DEF Init
  <2>2. ~ w.before.ran
    BY <2>1
  <2>3. EndOf(rendered[o]) = 0 /\ blockStart = 0
    BY <1>1, DspAssumption DEF EndOf, blockStart
  <2> HIDE DEF w
  <2>4. OnCourseOf(o, build, NewObject(o, arguments[o]), w, 0, 0,
                   InSteps(o, 8), InSteps(o, 4), Inlets(o)[1])
    BY <1>1, <1>2, <1>8, <2>1, <2>2, NewCourse
  <2> QED
    BY <1>2, <2>3, <2>4 DEF OnCourse, w
<1>9. CoursesSoFar
  BY <1>8 DEF CoursesSoFar
<1> QED
  BY <1>3, <1>4, <1>5, <1>6, <1>7, <1>9 DEF CourseInvariant

\* When the graph has run, what was said of courses so far holds of blocks.
LEMMA CoursesAreOn ==
    ASSUME ServedSoFar, RanSoFar, LeftInletOnly, CoursesGoOn, CourseInvariant,
           NEW kinds, kinds \subseteq Courses, NEW o \in Done(kinds)
    PROVE  /\ Kind[o] \in kinds /\ o \in patch /\ patch \in Patches
           /\ OnCourseOf(o, build, signal[o], seen[o], BlockSize, blockStart,
                         InSteps(o, 8), InSteps(o, 4), Inlets(o)[1])
           /\ BlockSize \in Nat \ {0} /\ BlockSize % 8 = 0
           /\ BlockSize % 4 = 0
           /\ blockStart \in Nat /\ DOMAIN zeros = Part(0, BlockSize)
PROOF
<1>1. /\ phase = "dsp" /\ turn > Len(nodes) /\ ~ lost
      /\ o \in patch \ (late \cup Fed) /\ Kind[o] \in kinds /\ Runs(o)
  BY DEF Done
<1>2. Kind[o] \in Courses /\ EndOf(rendered[o]) = BlockSize
  <2>1. Kind[o] \in Courses /\ o \in patch /\ o \notin Fed
    BY <1>1
  <2> QED
    BY <1>1, <2>1, CourseDone
<1>3. OnCourse(o)
  BY <1>1, <1>2 DEF CourseInvariant, CoursesSoFar
<1>4. /\ BlockSize \in Nat \ {0} /\ BlockSize % 8 = 0 /\ BlockSize % 4 = 0
  BY DspAssumption, SignalAssumption
<1>5. blockStart \in Nat
  BY StartOfBlock DEF CourseInvariant
<1>6. DOMAIN zeros = Part(0, BlockSize)
  BY DEF zeros
<1>7. patch \in Patches
  BY DEF ServedSoFar, DspTyped
<1> QED
  BY <1>1, <1>2, <1>3, <1>4, <1>5, <1>6, <1>7 DEF OnCourse

\* What is left over of a whole number of turns.
LEMMA RemainderLeft ==
    ASSUME NEW a \in Nat, NEW n \in Nat \ {0}, NEW s \in Nat, s < n
    PROVE  (a * n + s) % n = s
PROOF
  OBVIOUS

\* What is said of courses is what a run is asked.
LEMMA CoursesAreThose ==
    ASSUME ServedSoFar, RanSoFar, LeftInletOnly, CoursesGoOn, CourseInvariant
    PROVE  CoursesAreKept
PROOF
<1>1. LineKeepsItsCourse
  BY CoursesAreOn DEF LineKeepsItsCourse, Courses, OnCourseOf, zeros,
     LineOnCourse, Out
<1>2. VariableLineArrives
  <2> SUFFICES ASSUME NEW o \in Done({"vline~"}), NEW k \in DOMAIN zeros
               PROVE  LET path == seen[o].setBy[k]
                          t == blockStart + k
                      IN  \/ Out(o)[k] = PathAt(path, t)
                          \/ /\ \/ build # "plain" \/ seen[o].disturbed
                                \/ ~ path.whole
                             /\ path.stopped \/ t < path.t0 + path.length
    BY DEF VariableLineArrives
  <2>1. {"vline~"} \subseteq Courses
    BY DEF Courses
  <2>2. VariableLineOnCourse(build, signal[o], seen[o], BlockSize, blockStart)
    BY <2>1, CoursesAreOn DEF OnCourseOf
  <2>3. DOMAIN zeros = Part(0, BlockSize)
    BY DEF zeros
  <2>4. Arrives(build, seen[o], k, signal[o].out[k], blockStart + k)
    BY <2>2, <2>3 DEF VariableLineOnCourse
  <2> QED
    BY <2>4 DEF Arrives, Out
<1>3. PhasorKeepsItsPhase
  <2> SUFFICES ASSUME NEW o \in Done({"phasor~"})
               PROVE  LET before == seen[o].before
                          phase0(k) == IF k < 0 THEN before.out[BlockSize + k]
                                       ELSE Out(o)[k]
                          step(k) == IF k < 0 THEN before.setBy[BlockSize + k]
                                     ELSE seen[o].setBy[k]
                          first(n) == IF before.ran /\ before.whole THEN 0
                                      ELSE n
                      IN  IF SourcesOf[o][1] = Silent
                          THEN (\A i \in DOMAIN rendered[o] :
                                    rendered[o][i].from % 4 = 0) =>
                                   \A k \in Part(first(4), BlockSize) :
                                       phase0(k) = (phase0(k - 4)
                                                      + 4 * step(k - 4)) % Word
                          ELSE \A k \in Part(first(1), BlockSize) :
                                   phase0(k) = (phase0(k - 1)
                                                  + Inlets(o)[1][k]) % Word
    BY DEF PhasorKeepsItsPhase
  <2>1. {"phasor~"} \subseteq Courses
    BY DEF Courses
  <2> DEFINE d == signal[o]
             m == seen[o]
             x == Inlets(o)[1]
             e4 == InSteps(o, 4)
  <2>2. /\ IF SourcesOf[o][1] = Silent
           THEN PhasorOnCourse(d, m, BlockSize, e4)
           ELSE PhasorHearsItsInlet(d, m, BlockSize, x)
        /\ BlockSize \in Nat \ {0} /\ BlockSize % 4 = 0
    BY <2>1, CoursesAreOn DEF OnCourseOf
  <2>3. BlockSize >= 4
    BY <2>2
  <2>4. CASE SourcesOf[o][1] = Silent
    <3> SUFFICES ASSUME e4,
                        NEW k \in Part(IF m.before.ran /\ m.before.whole THEN 0
                                       ELSE 4, BlockSize)
                 PROVE  (IF k < 0 THEN m.before.out[BlockSize + k] ELSE d.out[k])
                          = ((IF k - 4 < 0 THEN m.before.out[BlockSize + (k - 4)]
                              ELSE d.out[k - 4])
                               + 4 * (IF k - 4 < 0
                                      THEN m.before.setBy[BlockSize + (k - 4)]
                                      ELSE m.setBy[k - 4])) % Word
      BY <2>4 DEF Out, InSteps
    <3>1. PhasorOnCourse(d, m, BlockSize, e4)
      BY <2>2, <2>4
    <3> HIDE DEF d, m, x, e4
    <3>2. k \in Int /\ 0 <= k /\ k < BlockSize
      BY <2>2 DEF Part
    <3>3. CASE k >= 4
      BY <2>2, <3>1, <3>2, <3>3 DEF PhasorOnCourse
    <3>4. CASE k < 4
      <4>1. m.before.ran /\ m.before.whole /\ k \in 0 .. 3
        BY <3>2, <3>4 DEF Part
      <4>2. d.out[k] = (m.before.out[BlockSize - 4 + k]
                          + 4 * m.before.setBy[BlockSize - 4 + k]) % Word
        BY <2>2, <3>1, <4>1 DEF PhasorOnCourse
      <4>3. BlockSize + (k - 4) = BlockSize - 4 + k /\ k - 4 < 0 /\ ~ (k < 0)
        BY <2>2, <4>1
      <4> QED
        BY <4>2, <4>3
    <3> QED
      BY <3>2, <3>3, <3>4
  <2>5. CASE SourcesOf[o][1] # Silent
    <3> SUFFICES ASSUME NEW k \in Part(IF m.before.ran /\ m.before.whole THEN 0
                                       ELSE 1, BlockSize)
                 PROVE  (IF k < 0 THEN m.before.out[BlockSize + k] ELSE d.out[k])
                          = ((IF k - 1 < 0 THEN m.before.out[BlockSize + (k - 1)]
                              ELSE d.out[k - 1]) + x[k]) % Word
      BY <2>5 DEF Out
    <3>1. PhasorHearsItsInlet(d, m, BlockSize, x)
      BY <2>2, <2>5
    <3> HIDE DEF d, m, x, e4
    <3>2. k \in Int /\ 0 <= k /\ k < BlockSize
      BY <2>2 DEF Part
    <3>3. CASE k >= 1
      BY <2>2, <3>1, <3>2, <3>3 DEF PhasorHearsItsInlet
    <3>4. CASE k < 1
      <4>1. m.before.ran /\ m.before.whole /\ k = 0
        BY <3>2, <3>4 DEF Part
      <4>2. d.out[0] = (m.before.out[BlockSize - 1] + x[0]) % Word
        BY <2>2, <3>1, <4>1 DEF PhasorHearsItsInlet
      <4>3. BlockSize + (k - 1) = BlockSize - 1 /\ k - 1 < 0 /\ ~ (k < 0)
        BY <2>2, <4>1
      <4> QED
        BY <4>1, <4>2, <4>3
    <3> QED
      BY <3>2, <3>3, <3>4
  <2> QED
    BY <2>4, <2>5
<1>4. OscKeepsItsPhase
  <2> SUFFICES ASSUME NEW o \in Done({"osc~"}), AllEights(o)
               PROVE  /\ \A k \in DOMAIN zeros \ {0} :
                             Out(o)[k] = (Out(o)[k - 1] + seen[o].setBy[k - 1])
                                             % Word
                      /\ blockStart > 0 /\ seen[o].before.whole =>
                             Out(o)[0] =
                                 (seen[o].before.out[BlockSize - 1]
                                    + seen[o].before.setBy[BlockSize - 1]) % Word
    BY DEF OscKeepsItsPhase
  <2>1. {"osc~"} \subseteq Courses
    BY DEF Courses
  <2>2. /\ OscOnCourse(signal[o], seen[o], BlockSize, blockStart, InSteps(o, 8))
        /\ BlockSize \in Nat \ {0} /\ BlockSize % 8 = 0
        /\ DOMAIN zeros = Part(0, BlockSize)
    BY <2>1, CoursesAreOn DEF OnCourseOf
  <2>3. InSteps(o, 8)
    BY DEF InSteps, AllEights
  <2>4. \A k \in DOMAIN zeros \ {0} : k \in 1 .. BlockSize - 1
    BY <2>2 DEF Part
  <2> QED
    BY <2>2, <2>3, <2>4 DEF OscOnCourse, Out
<1>5. FilterCarriesOver
  <2> SUFFICES ASSUME NEW o \in Done(Filters), ~ seen[o].disturbed,
                      NEW k \in DOMAIN zeros
               PROVE  LET y(n) == IF n < 0 THEN seen[o].before.out[BlockSize + n]
                                  ELSE Out(o)[n]
                          x(n) == Host(blockStart + n)
                          b == seen[o].setBy[k]
                      IN  y(k) = b[1] * x(k) + b[2] * x(k - 1) + b[3] * x(k - 2)
                                   - b[4] * y(k - 1) - b[5] * y(k - 2)
    BY DEF FilterCarriesOver
  <2>1. Filters \subseteq Courses
    BY DEF Courses
  <2>2. /\ FilterOnCourse(signal[o], seen[o], BlockSize, blockStart)
        /\ DOMAIN zeros = Part(0, BlockSize) /\ BlockSize \in Nat
        /\ blockStart \in Nat
    BY <2>1, CoursesAreOn DEF OnCourseOf
  <2> DEFINE t == blockStart
             d == signal[o]
             m == seen[o]
             b == m.setBy[k]
  <2>3. d.out[k] = b[1] * Host(t + k) + b[2] * Host(t + k - 1)
                     + b[3] * Host(t + k - 2)
                     - b[4] * OutputOf(d, m, k - 1)
                     - b[5] * OutputOf(d, m, k - 2)
    BY <2>2 DEF FilterOnCourse
  <2>4. k \in Int /\ 0 <= k /\ ~ (k < 0)
    BY <2>2 DEF Part
  <2>5. t + k - 1 = t + (k - 1) /\ t + k - 2 = t + (k - 2)
    BY <2>2, <2>4
  <2> QED
    BY <2>3, <2>4, <2>5 DEF OutputOf, Out
<1>6. EnvelopeHearsTheWindow
  <2> SUFFICES ASSUME NEW o \in Done({"env~"}),
                      signal[o].windowSize % BlockSize = 0,
                      signal[o].windowInterval % BlockSize = 0
               PROVE  LET d == signal[o]
                          heard == blockStart + BlockSize
                      IN  /\ d.report # {} <=> heard % d.windowInterval = 0
                          /\ d.report # {} /\ heard >= d.windowSize =>
                                 d.report =
                                     {Host(t) : t \in Part(heard - d.windowSize,
                                                           heard)}
    BY DEF EnvelopeHearsTheWindow
  <2>1. {"env~"} \subseteq Courses
    BY DEF Courses
  <2> DEFINE d == signal[o]
             heard == blockStart + BlockSize
             since == d.numSamplesReceivedSinceLastInterval
             interval == d.windowInterval
  <2>2. /\ EnvelopeOnCourse(signal[o], BlockSize, blockStart)
        /\ BlockSize \in Nat \ {0} /\ blockStart \in Nat
    BY <2>1, CoursesAreOn DEF OnCourseOf
  <2>3. /\ d.report # {} <=> since = 0
        /\ d.report # {} /\ heard >= d.windowSize =>
               d.report = {Host(s) : s \in Part(heard - d.windowSize, heard)}
        /\ interval \in Int /\ BlockSize <= interval
        /\ CountsTo(since, interval, heard, BlockSize)
    <3>1. EnvelopeOnCourse(d, BlockSize, blockStart)
      BY <2>2
    <3>2. d.windowSize % BlockSize = 0 /\ d.windowInterval % BlockSize = 0
      OBVIOUS
    <3> HIDE DEF d
    <3>3. BlockSize > 0
      BY <2>2
    <3> QED
      BY <3>1, <3>2, <3>3, Zenon
      DEF EnvelopeOnCourse, EnvelopeHears, HostSince
  <2>4. heard % interval = 0 <=> since = 0
    <3>1. PICK j, q \in Nat : /\ since = j * BlockSize /\ since < interval
                              /\ heard = q * interval + since
      BY <2>3 DEF CountsTo
    <3>2. interval \in Nat \ {0} /\ since \in Nat
      BY <2>2, <2>3, <3>1
    <3> HIDE DEF interval, since, heard
    <3>3. heard % interval = since
      BY <3>1, <3>2, RemainderLeft
    <3> QED
      BY <3>3
  <2> QED
    BY <2>3, <2>4
<1> QED
  BY <1>1, <1>2, <1>3, <1>4, <1>5, <1>6 DEF CoursesAreKept

\* From sample to sample, through every block and wherever messages cut it, a
\* line~ and a vline~ are on the ramp that they were sent on and arrive in the
\* time it takes, a phasor~ and an osc~ go on by the step they were given from
\* where the last part and the last block left them, a filter's output follows
\* from the input and the output of the two samples before, and an env~ reports
\* the window that the host filled last, in time.  This holds of any patch in
\* which an object feeds and is heard by those after it and those with a course
\* are in graphs that stay on, filters and env~s hear the host, numbers come to
\* oscillators from the host or a sig~, and the ramps of a vline~ take no
\* negative time (DspLine, DspVariableLine, DspPhasor, DspOsc, DspFilter and
\* DspEnvelope).
THEOREM CoursesCorrect ==
    ASSUME FeedsOnward, HearsBefore, CoursesGoOn
    PROVE  Spec => []CoursesAreKept
PROOF
<1> DEFINE Kept == /\ ServedSoFar /\ HeardInvariant /\ RanSoFar
                   /\ CourseInvariant
<1>1. Init => Kept
  <2>1. Init => RanSoFar
    BY DEF Init, DspInit, RanSoFar
  <2> QED
    BY <2>1, InitServed, InitHeard, InitCourses
<1>2. Kept /\ [Next]_vars => Kept'
  BY NextServed, NextHeard, NextRan, NextCourses
<1>3. Kept => CoursesAreKept
  BY CoursesAreThose DEF HeardInvariant
<1> QED
  BY <1>1, <1>2, <1>3, PTL DEF Spec

=============================================================================
