------------------------------ MODULE PdGraph ------------------------------
(***************************************************************************)
(* PdGraph.cpp, MessageObject.cpp and DspObject.cpp: the order in which    *)
(* the audio objects of a graph run, and the buffers they are given while  *)
(* that order is computed.                                                 *)
(*                                                                         *)
(* A host edits the root graph and the graphs in it; the order is computed *)
(* when a file has been read.  The order is found from the leaves back to  *)
(* the sources; each object gets the buffers of its sources, and releases  *)
(* them before it takes its own, so that a buffer is used again as soon as *)
(* all its readers are listed.                                             *)
(***************************************************************************)
EXTENDS Connections, BufferPool

CONSTANTS
    Root,         \* the graph whose order is computed
    Graphs,       \* the root and the graphs in it
    ImplicitAdd,  \* the [+~~] objects
    MaxOrders

ASSUME GraphAssumption ==
    /\ Graphs = {Root} \cup {o \in Nodes : Kind[o] = "graph"}
    /\ GraphOf \in [Nodes -> Graphs]
    /\ MaxOrders \in Nat

VARIABLES
    order,    \* what the last computations of the order have left behind
    upToDate, \* whether the order was computed after the last edit
    orders

vars == <<connections, order, upToDate, orders>>

\* The outlets that are given buffers of their own (canSetBufferAtOutlet).
NumDspOutlets(o) ==
    IF Kind[o] = "dsp" /\ o \notin Senders THEN Outlets[o] ELSE 0

\* isOrdered of each object, dspNodeList of each graph, the buffers at the
\* inlets and outlets of each audio object, and the pool of the context.
Init ==
    /\ Unconnected
    /\ order = [isOrdered |-> {},
                dspNodeList |-> [g \in Graphs |-> <<>>],
                atInlet |-> [o \in Nodes |->
                                [i \in 1 .. DspInlets[o] |-> NoBuffer]],
                atOutlet |-> [o \in Nodes |->
                                [k \in 1 .. NumDspOutlets(o) |-> NoBuffer]],
                pool |-> EmptyPool]
    /\ upToDate = FALSE
    /\ orders = 0

\* A graph does if it has objects that do: as it was last ordered.
DoesProcessAudio(s, o) ==
    \/ Kind[o] = "dsp"
    \/ Kind[o] = "graph" /\ s.dspNodeList[o] # <<>>

\* Mistaken: the object is deleted but stays listed.
StillListed(s, o) == s

\* What processes audio is taken off the list of its graph.
Unlisted(s, o) ==
    IF DoesProcessAudio(s, o)
    THEN [s EXCEPT !.dspNodeList[GraphOf[o]] =
              SelectSeq(@, LAMBDA entry : entry.node # o)]
    ELSE s

\* The buffers at the inlets and the order stay as they are.
ChangeConnections == AddOrRemove /\ UNCHANGED order

DeleteObject(o) == removeObject(o) /\ order' = Unlisted(order, o)

-----------------------------------------------------------------------------
(* The process order.  An operator that takes a record s like order gives  *)
(* what the call makes of it.                                              *)

\* An object that only lets audio through hands a buffer on at once, to all
\* that it leads to, and reserves it for them.
RECURSIVE SetBufferAtInlet(_, _, _, _)
SetBufferAtInlet(s, o, i, buffer) ==
    CASE Kind[o] = "graph" ->
             IF Kind[InletList[o][i]] = "inlet~"
             THEN SetBufferAtInlet(s, InletList[o][i], 1, buffer) ELSE s
      [] Kind[o] \in {"inlet~", "outlet~"} ->
             FoldLeft(LAMBDA t, c : SetBufferAtInlet(t, c[1], c[2], buffer),
                      [s EXCEPT !.atInlet[o][1] = buffer,
                                !.pool = ReserveBuffer(@, buffer,
                                             Len(outgoing[o][1]))],
                      outgoing[o][1])
      [] OTHER -> [s EXCEPT !.atInlet[o][i] = buffer]

RECURSIVE BufferAtOutlet(_, _)
BufferAtOutlet(s, source) ==
    LET o == source[1]
    IN  CASE o = ImplicitAdd -> source[2]
          [] Kind[o] = "graph" ->
                 IF Kind[OutletList[o][source[2]]] = "outlet~"
                 THEN BufferAtOutlet(s, <<OutletList[o][source[2]], 1>>)
                 ELSE NoBuffer
          [] Kind[o] \in {"inlet~", "outlet~"} ->
                 IF s.atInlet[o][1] = NoBuffer THEN zeroBuffer
                 ELSE s.atInlet[o][1]
          [] OTHER -> s.atOutlet[o][source[2]]

\* What is ordered on the way to an object is listed where the object is: for
\* the inlets of a graph, that is the graph around it.
Listed(s, o, entry) ==
    LET g == IF Kind[o] \in {"inlet", "inlet~"} THEN GraphOf[GraphOf[o]]
             ELSE GraphOf[o]
    IN  [s EXCEPT !.dspNodeList[g] = Append(@, entry)]

Entry(o) == [node |-> o, ins |-> <<>>, out |-> NoBuffer]

\* A [+~~] adds a further source of an inlet to the sum of those before it.
AddedUp(s, o, left, right) ==
    LET buffers == <<BufferAtOutlet(s, left), BufferAtOutlet(s, right)>>
        released == ReleaseBuffer(ReleaseBuffer(s.pool, buffers[1]),
                                  buffers[2])
        sum == NextBuffer(released)
    IN  [state |-> Listed([s EXCEPT !.pool = GetBuffer(released, 1)], o,
                          [node |-> ImplicitAdd, ins |-> buffers,
                           out |-> sum]),
         left |-> <<ImplicitAdd, sum>>]

OfType(list, type) ==
    SelectSeq(list, LAMBDA c : ConnectionType(c[1], c[2]) = type)

ReleaseInlets(s, o) ==
    [s EXCEPT !.pool = FoldLeft(ReleaseBuffer, @, s.atInlet[o])]

SetBufferAtOutlet(s, o, k) ==
    [s EXCEPT !.atOutlet[o][k] = NextBuffer(s.pool),
              !.pool = GetBuffer(@, Len(outgoing[o][k]))]

IsLeafNode(o) ==
    \/ Kind[o] \in {"outlet", "outlet~"}
    \/ \A k \in 1 .. NumOutlets(o) :
           Kind[o] # "graph" /\ outgoing[o][k] = <<>>

RECURSIVE Visit(_, _)

VisitAll(s, list) == FoldLeft(LAMBDA t, c : Visit(t, c[1]), s, list)

\* The sources of an inlet are ordered, the first one and each further one
\* that is added to it; an inlet without one hears silence.
Resolved(s, o, i) ==
    LET sources == OfType(incoming[o][i], "DSP")
        Further(sum, c) == AddedUp(Visit(sum.state, c[1]), o, sum.left, c)
        sum == FoldLeft(Further, [state |-> Visit(s, Head(sources)[1]),
                                  left |-> Head(sources)], Tail(sources))
    IN  IF sources = <<>> THEN SetBufferAtInlet(s, o, i, zeroBuffer)
        ELSE SetBufferAtInlet(sum.state, o, i,
                              BufferAtOutlet(sum.state, sum.left))

\* getProcessOrder of audio objects: what sends it messages, what sends it
\* audio, itself.
VisitDsp(s, o) ==
    LET visited == VisitAll([s EXCEPT !.isOrdered = @ \cup {o}],
                            OfType(FlattenSeq(incoming[o]), "MESSAGE"))
        resolved == FoldLeft(LAMBDA t, i : Resolved(t, o, i), visited,
                             [i \in 1 .. DspInlets[o] |-> i])
        connected == FoldLeft(LAMBDA t, k : SetBufferAtOutlet(t, o, k),
                              ReleaseInlets(resolved, o),
                              [k \in 1 .. Len(s.atOutlet[o]) |-> k])
    IN  IF DoesProcessAudio(s, o) THEN Listed(connected, o, Entry(o))
        ELSE connected

VisitInlet(s, o) ==
    IF Kind[o] = "inlet" THEN VisitAll(s, incoming[o][1])
    ELSE IF o \in s.isOrdered THEN s
    ELSE VisitDsp(s, o)

ObjectsIn(g) == SelectSeq(NodeList, LAMBDA o : o \in patch /\ GraphOf[o] = g)

\* Mistaken: what was ordered before is taken to be ordered still.
OrderedAgain(s, g) ==
    FoldLeft(Visit, [s EXCEPT !.dspNodeList[g] = <<>>],
             SelectSeq(ObjectsIn(g), IsLeafNode))

\* computeDeepLocalDspProcessOrder.
Ordered(s, g) ==
    FoldLeft(Visit, [s EXCEPT !.isOrdered = @ \ ToSet(ObjectsIn(g)),
                              !.dspNodeList[g] = <<>>],
             SelectSeq(ObjectsIn(g), IsLeafNode))

VisitGraph(s, g) ==
    LET ordered == Ordered(FoldLeft(VisitInlet,
                                    [s EXCEPT !.isOrdered = @ \cup {g}],
                                    InletList[g]), g)
    IN  IF DoesProcessAudio(ordered, g) THEN Listed(ordered, g, Entry(g))
        ELSE ordered

\* getProcessOrder of any object of the graph that is being ordered.  The
\* inlets of a graph are ordered by the graph around it, not from inside.
Visit(s, o) ==
    IF o \in s.isOrdered \/ Kind[o] \in {"inlet", "inlet~"} THEN s
    ELSE CASE Kind[o] = "graph" -> VisitGraph(s, o)
           [] Kind[o] \in {"dsp", "outlet~"} -> VisitDsp(s, o)
           [] OTHER -> VisitAll([s EXCEPT !.isOrdered = @ \cup {o}],
                                FlattenSeq(incoming[o]))

\* What is ordered is there, and what an inlet~ or outlet~ hands its buffer to
\* takes one: whatever it leads to is taken for an audio object.
Orderable ==
    \A o \in patch :
        /\ \A c \in IncomingConnections(o) : c[1] \in patch
        /\ Kind[o] \in {"inlet~", "outlet~"} =>
               \A c \in ToSet(outgoing[o][1]) :
                   c[1] \in patch /\ Kind[c[1]] \in AudioKinds \cup {"graph"}

\* A file has been read: the root and all graphs in it are ordered.
computeDeepLocalDspProcessOrder ==
    /\ orders < MaxOrders /\ Orderable
    /\ orders' = orders + 1
    /\ order' = Ordered(order, Root)
    /\ upToDate' = TRUE
    /\ UNCHANGED connections

\* An abstraction is read from a file of its own, and ordered before it is
\* connected to what is around it.
LoadAbstraction(g) ==
    /\ orders < MaxOrders /\ Orderable
    /\ g \in patch \ {Root} /\ Kind[g] = "graph"
    /\ IncomingConnections(g) \cup OutgoingConnections(g) = {}
    /\ orders' = orders + 1
    /\ order' = Ordered(order, g)
    /\ upToDate' = FALSE
    /\ UNCHANGED connections

Edited == upToDate' = FALSE /\ UNCHANGED orders

Next ==
    \/ ChangeConnections /\ Edited
    \/ \E o \in patch : DeleteObject(o) /\ Edited
    \/ computeDeepLocalDspProcessOrder
    \/ \E g \in patch : LoadAbstraction(g)

Spec == Init /\ [][Next]_vars

-----------------------------------------------------------------------------
(* What a block of audio does with the order: each buffer holds the list   *)
(* of the outlets whose signals are added up in it.                        *)

Stale == << <<ImplicitAdd, NoBuffer>> >> \* the signals of an earlier block

\* An object reads its inlets and writes its outlets.
Processed(m, entry) ==
    LET o == entry.node
    IN  IF o = ImplicitAdd
        THEN [m EXCEPT !.buffers[entry.out] = m.buffers[entry.ins[1]]
                                                  \o m.buffers[entry.ins[2]]]
        ELSE LET written == order.atOutlet[o]
             IN  [buffers |-> [b \in DOMAIN m.buffers |->
                      IF b \in ToSet(written)
                      THEN << <<o, CHOOSE k \in DOMAIN written :
                                       written[k] = b>> >>
                      ELSE m.buffers[b]],
                  heard |-> [m.heard EXCEPT ![o] =
                      [i \in 1 .. DspInlets[o] |->
                           m.buffers[order.atInlet[o][i]]]]]

\* processGraph: the objects of a graph one after the other.
RECURSIVE Ran(_, _)
Ran(m, g) ==
    FoldLeft(LAMBDA n, entry :
                 IF entry.node \in Graphs THEN Ran(n, entry.node)
                 ELSE Processed(n, entry),
             m, order.dspNodeList[g])

Heard ==
    Ran([buffers |-> [b \in NoBuffer .. NumTotalBuffers(order.pool) |->
                         IF b = zeroBuffer THEN <<>> ELSE Stale],
         heard |-> [o \in Nodes |-> <<>>]], Root).heard

\* The outlets that an inlet should hear.
RECURSIVE Origins(_)
Origins(source) ==
    LET o == source[1]
        port == CASE Kind[o] = "graph" -> <<OutletList[o][source[2]], 1>>
                  [] OTHER -> <<o, 1>>
    IN  IF Kind[o] \in {"graph", "inlet~"}
        THEN FlattenSeq([n \in DOMAIN incoming[port[1]][1] |->
                            Origins(incoming[port[1]][1][n])])
        ELSE <<source>>

Sources(o, i) ==
    LET sources == OfType(incoming[o][i], "DSP")
    IN  FlattenSeq([n \in DOMAIN sources |-> Origins(sources[n])])

Listings(g) ==
    [n \in DOMAIN order.dspNodeList[g] |-> order.dspNodeList[g][n].node]

\* The graphs that a block runs.
RECURSIVE GraphsRun(_)
GraphsRun(g) ==
    {g} \cup UNION {GraphsRun(h) : h \in ToSet(Listings(g)) \cap Graphs}

Run == UNION {ToSet(Listings(g)) : g \in GraphsRun(Root)} \ {ImplicitAdd}

-----------------------------------------------------------------------------
(* Properties.                                                             *)

\* When the order is computed, no object runs twice in a block, however many
\* lead to it and however often the order was computed before; and every
\* object of the root without outlets runs.
RunsOnce ==
    upToDate =>
        /\ \A g \in GraphsRun(Root), o \in Nodes : Times(o, Listings(g)) <= 1
        /\ \A o \in patch :
               Kind[o] = "dsp" /\ Outlets[o] = 0 /\ GraphOf[o] = Root
                   => o \in Run

\* Some object leads back to itself: what is left of the objects when those
\* without sources are taken away again and again.
RECURSIVE Led(_)
Led(objects) ==
    LET led == {o \in objects : \E c \in IncomingConnections(o) : c[1] \in objects}
    IN  IF led = objects THEN objects ELSE Led(led)

Looping == Led(patch) # {}

\* Every inlet of every object that runs holds the sum of what its sources
\* write in this very block, also through inlet~ and outlet~ of graphs: each
\* source has run before, and no other object was given the buffer between,
\* although buffers are used again as soon as they can be, and the inlets,
\* outlets and counts that an earlier order left behind are still there.
\* (Said of graphs without loops: an object that hears what it controls is
\* ordered on the way to its source, before the source has a buffer.)
ReadsItsSources ==
    upToDate /\ ~ Looping =>
        LET heard == Heard
        IN  \A o \in Run : Kind[o] = "dsp" =>
                \A i \in 1 .. DspInlets[o] : heard[o][i] = Sources(o, i)

\* What is let into a graph may be let on from there, to another or out.
LetOn ==
    \E t \in patch :
        /\ Kind[t] \in {"graph", "outlet~"}
        /\ \E c \in IncomingConnections(t) :
               Kind[c[1]] \in {"graph", "inlet~"}

\* No inlet has refused a connection that its outlet keeps.
AllTaken ==
    \A o \in patch : \A c \in OutgoingConnections(o) :
        c[3] \in patch /\ Takes(c[3], c[4], ConnectionType(c[1], c[2]))

\* The buffers of outlets without connections.
LeadNowhere ==
    UNION {{order.atOutlet[o][k] : k \in {n \in DOMAIN order.atOutlet[o] :
                                              outgoing[o][n] = <<>>}} :
              o \in patch}

\* The pool gets back every buffer that has readers: computing the order
\* leaves no others reserved than were before, but for those of outlets that
\* lead nowhere, which nobody releases.  (Said of orders that reach all there
\* is: what leads to a graph that is not heard is not released.  Nor is what
\* leads to an inlet that refuses it.  And an inlet~ or outlet~ that gets its
\* buffer from another reserves it twice: such a buffer is never used again.)
BuffersComeBack ==
    [][LET pool == order.pool.reserved
           left == order'.pool.reserved
       IN  upToDate' /\ orders' # orders /\ ~ LetOn /\ ~ Looping
           /\ AllTaken
           /\ (\A o \in patch : o \in order'.isOrdered
                                  \/ Kind[o] \in {"inlet", "inlet~"})
             => \A b \in DOMAIN left :
                    \/ b \in DOMAIN pool /\ left[b] = pool[b]
                    \/ left[b] = 0 /\ b \in LeadNowhere']_vars

\* A block runs no object that was removed, in no graph that it reaches and
\* also before the order is computed again.  (A graph that was emptied before
\* it was removed "does not process audio", and stays listed.)
NoneDeletedRuns ==
    \A g \in Graphs \cap (patch \cup {Root}) :
        \A o \in ToSet(Listings(g)) \ {ImplicitAdd} :
            \/ o \in patch
            \/ Kind[o] = "graph" /\ order.dspNodeList[o] = <<>>

\* What a block runs, it runs once and only while it is there
\* (PdGraph::processGraph, removeObject).
RunsWhatIsThere == RunsOnce /\ NoneDeletedRuns

=============================================================================
