---------------------------- MODULE Connections ----------------------------
(***************************************************************************)
(* PdGraph.cpp, MessageObject.cpp and DspObject.cpp: what connects the     *)
(* objects of a graph.  Each inlet keeps a list of the objects and outlets *)
(* that lead to it, and each outlet one of those that it leads to.         *)
(*                                                                         *)
(* A graph inside another is an object of it.  Its connections end at the  *)
(* inlet, inlet~, outlet and outlet~ objects in it.                        *)
(***************************************************************************)
EXTENDS Integers, Sequences, SequencesExt, FiniteSets

CONSTANTS
    NodeList,     \* all objects in the order in which they were created
    GraphOf,      \* the graph an object is in
    Kind,         \* "dsp", "message", "graph", or what lets into one
    MessageInlets, DspInlets, Outlets, \* how many an object has
    Senders,      \* the audio objects whose outlets send messages; none has
                  \* outlets of both types, as tabplay~ has
    InletList, OutletList, \* of a graph, from the left to the right
    Depth,        \* audio leads from a lesser depth to a greater one
    Patches,      \* sets of objects, one of which there is
    MaxConnections, MaxRefused, MaxEdits

Nodes == ToSet(NodeList)

NumInlets(o) ==
    IF Kind[o] = "graph" THEN Len(InletList[o])
    ELSE IF MessageInlets[o] > DspInlets[o] THEN MessageInlets[o]
    ELSE DspInlets[o]

NumOutlets(o) == IF Kind[o] = "graph" THEN Len(OutletList[o]) ELSE Outlets[o]

\* The list of what lets into a graph, or out of it: different objects in it,
\* which have one inlet and one outlet.
LetsOf(g, list, kinds) ==
    /\ list \in Seq(Nodes)
    /\ \A i, j \in 1 .. Len(list) : list[i] = list[j] => i = j
    /\ \A i \in 1 .. Len(list) : Kind[list[i]] \in kinds /\ GraphOf[list[i]] = g

ASSUME ConnectionAssumption ==
    /\ Kind \in [Nodes -> {"dsp", "message", "graph",
                           "inlet", "inlet~", "outlet", "outlet~"}]
    /\ {MessageInlets, DspInlets, Outlets} \subseteq [Nodes -> Nat]
    /\ Senders \subseteq {o \in Nodes : Kind[o] = "dsp"}
    /\ \A o \in Nodes : GraphOf[o] # o
    /\ \A o \in Nodes : Kind[o] = "graph" =>
           /\ LetsOf(o, InletList[o], {"inlet", "inlet~"})
           /\ LetsOf(o, OutletList[o], {"outlet", "outlet~"})
    /\ \A o \in Nodes :
           Kind[o] \in {"inlet", "inlet~", "outlet", "outlet~"} =>
               NumInlets(o) = 1 /\ NumOutlets(o) = 1
    /\ Patches \subseteq SUBSET Nodes
    /\ {MaxConnections, MaxRefused, MaxEdits} \subseteq Nat

VARIABLES
    patch,    \* the objects there are
    incoming, \* for each inlet, the objects and outlets that lead to it
    outgoing, \* for each outlet, the objects and inlets it leads to
    edits

connections == <<patch, incoming, outgoing, edits>>

Unconnected ==
    /\ patch \in Patches
    /\ incoming = [o \in Nodes |-> [i \in 1 .. NumInlets(o) |-> <<>>]]
    /\ outgoing = [o \in Nodes |-> [k \in 1 .. NumOutlets(o) |-> <<>>]]
    /\ edits = 0

-----------------------------------------------------------------------------
\* Where an inlet keeps its connections, and where an outlet does.
InletOf(o, i) ==
    IF Kind[o] = "graph" THEN <<InletList[o][i], 1>> ELSE <<o, i>>

OutletOf(o, k) ==
    IF Kind[o] = "graph" THEN <<OutletList[o][k], 1>> ELSE <<o, k>>

AudioKinds == {"dsp", "inlet~", "outlet~"}

\* What comes from the outlet of a graph is of the type of the outlet in it.
ConnectionType(o, k) ==
    LET outlet == OutletOf(o, k)[1]
    IN  IF Kind[outlet] \in AudioKinds /\ outlet \notin Senders
        THEN "DSP" ELSE "MESSAGE"

\* Whether an inlet has a list for connections of a type.
Takes(o, i, type) ==
    LET inlet == InletOf(o, i)
    IN  inlet[2] <= (IF type = "DSP" THEN DspInlets ELSE MessageInlets)[inlet[1]]

\* The outlet of a graph that a new connection of messages is kept at is the
\* one with the number of the *inlet* that it leads to.
NewOutletOf(o, k, i) ==
    OutletOf(o, IF Kind[o] = "graph" /\ ConnectionType(o, k) = "MESSAGE"
                THEN i ELSE k)

Number(lists) ==
    Len(FlattenSeq([n \in 1 .. Len(NodeList) |-> FlattenSeq(lists[NodeList[n]])]))

\* Two objects of a graph, and no loop of audio; a loop that messages close is
\* common in patches.  Nobody checks that the types agree.  Left out are the
\* connections that an audio object has no list for, which are kept past the
\* end of its lists, and an inlet beyond the last outlet of a graph that sends
\* messages, which ends the program.
Connectable(o, k, t, i) ==
    /\ {o, t} \subseteq patch /\ GraphOf[o] = GraphOf[t]
    /\ \/ Depth[o] < Depth[t]
       \/ ConnectionType(o, k) = "MESSAGE"
    /\ Kind[t] \in AudioKinds => Takes(t, i, ConnectionType(o, k))
    /\ Kind[o] = "graph" /\ ConnectionType(o, k) = "MESSAGE"
          => i <= Len(OutletList[o])

Edit == edits < MaxEdits /\ edits' = edits + 1

\* An inlet without a list for the type refuses the connection, and the outlet
\* keeps it all the same.
addConnection(o, k, t, i) ==
    /\ Edit
    /\ Connectable(o, k, t, i)
    /\ Number(outgoing) < MaxConnections
    /\ \/ Takes(t, i, ConnectionType(o, k))
       \/ Number(outgoing) - Number(incoming) < MaxRefused
    /\ LET inlet == InletOf(t, i)
           outlet == NewOutletOf(o, k, i)
       IN  /\ incoming' = IF Takes(t, i, ConnectionType(o, k))
                          THEN [incoming EXCEPT ![inlet[1]][inlet[2]] =
                                    Append(@, <<o, k>>)]
                          ELSE incoming
           /\ outgoing' = [outgoing EXCEPT ![outlet[1]][outlet[2]] =
                               Append(@, <<t, i>>)]
    /\ UNCHANGED patch

\* What is left of a list without some of its elements (list::remove).
Without(list, gone) ==
    LET left[n \in 0 .. Len(list)] ==
            IF n = 0 THEN <<>>
            ELSE IF list[n] \in gone THEN left[n - 1]
            ELSE Append(left[n - 1], list[n])
    IN  left[Len(list)]

\* Mistaken: an inlet forgets one of two equal connections (list::erase).
WithoutFirst(list, gone) ==
    LET first == {n \in DOMAIN list : list[n] \in gone}
    IN  IF first = {} THEN list
        ELSE RemoveAt(list, CHOOSE n \in first : \A m \in first : n <= m)

\* What leads to an inlet, and what an outlet leads to, of some connections.
\* One is of an object and its outlet, and an object and its inlet.
LeadTo(some, t, i) ==
    {<<c[1], c[2]>> : c \in {d \in some : InletOf(d[3], d[4]) = <<t, i>>}}
LedToFrom(some, o, k) ==
    {<<c[3], c[4]>> : c \in {d \in some : OutletOf(d[1], d[2]) = <<o, k>>}}

\* Mistaken: the inlet forgets one of two equal connections, the outlet both.
DisconnectOnce(some) ==
    /\ incoming' = [t \in Nodes |-> [i \in 1 .. NumInlets(t) |->
                       WithoutFirst(incoming[t][i], LeadTo(some, t, i))]]
    /\ outgoing' = [o \in Nodes |-> [k \in 1 .. NumOutlets(o) |->
                       Without(outgoing[o][k], LedToFrom(some, o, k))]]

\* Both ends forget these connections, and what is connected twice at once.
Disconnect(some) ==
    /\ incoming' = [t \in Nodes |-> [i \in 1 .. NumInlets(t) |->
                       Without(incoming[t][i], LeadTo(some, t, i))]]
    /\ outgoing' = [o \in Nodes |-> [k \in 1 .. NumOutlets(o) |->
                       Without(outgoing[o][k], LedToFrom(some, o, k))]]

\* A connection that one of its ends knows of.
removeConnection(o, k, t, i) ==
    /\ Edit
    /\ GraphOf[o] = GraphOf[t]
    /\ \/ <<o, k>> \in ToSet(incoming[InletOf(t, i)[1]][InletOf(t, i)[2]])
       \/ <<t, i>> \in ToSet(outgoing[OutletOf(o, k)[1]][OutletOf(o, k)[2]])
    /\ Disconnect({<<o, k, t, i>>})
    /\ UNCHANGED patch

IncomingConnections(o) ==
    UNION {LET inlet == InletOf(o, i)
           IN  {<<c[1], c[2], o, i>> : c \in ToSet(incoming[inlet[1]][inlet[2]])} :
              i \in 1 .. NumInlets(o)}

OutgoingConnections(o) ==
    UNION {LET outlet == OutletOf(o, k)
           IN  {<<o, k, c[1], c[2]>> : c \in ToSet(outgoing[outlet[1]][outlet[2]])} :
              k \in 1 .. NumOutlets(o)}

\* A graph is deleted with all that is in it.
Deleted(o) == {o} \cup {c \in Nodes : Kind[o] = "graph" /\ GraphOf[c] = o}

\* Both ends of what an object is connected to are there.
HasItsEnds(o) ==
    \A c \in IncomingConnections(o) \cup OutgoingConnections(o) :
        {c[1], c[3]} \subseteq patch

\* The connections of all inlets are looked for in both kinds of lists, past
\* the end of the shorter one if an object has lists of different lengths.
ListsHaveInlets(o) ==
    Kind[o] = "graph" \/ {MessageInlets[o], DspInlets[o]} \subseteq {0, NumInlets(o)}

\* The list of inlets or outlets of a graph keeps an inlet or outlet that is
\* removed, so that any later connection to it is one to a deleted object:
\* the removal of these is left out, as is that of what leads to a deleted
\* object, or has inlets that a list of it does not have.
removeObject(o) ==
    /\ Edit
    /\ Kind[o] \in {"dsp", "message", "graph"}
    /\ ListsHaveInlets(o) /\ HasItsEnds(o)
    /\ Disconnect(IncomingConnections(o) \cup OutgoingConnections(o))
    /\ patch' = patch \ Deleted(o)

AddOrRemove ==
    \E o, t \in patch :
        \E k \in 1 .. NumOutlets(o), i \in 1 .. NumInlets(t) :
            addConnection(o, k, t, i) \/ removeConnection(o, k, t, i)

Reconnect == AddOrRemove \/ \E o \in patch : removeObject(o)

Connecting == Unconnected /\ [][Reconnect]_connections

-----------------------------------------------------------------------------
(* Properties.                                                             *)

Times(e, list) == Cardinality({n \in DOMAIN list : list[n] = e})

\* A graph with an outlet for messages has no other (see NewOutletOf).
OneMessageOutlet(o) ==
    Kind[o] = "graph" =>
        \A k \in 1 .. NumOutlets(o) :
            ConnectionType(o, k) = "MESSAGE" => NumOutlets(o) = 1

\* Both ends of a connection know of it, as often as it was made, whatever
\* other connections there are.  Two kinds of connections are left out that
\* PdGraph::addConnection makes at one end only: of audio to an inlet that
\* takes messages, or of messages to an inlet~, although "if the arguments do
\* not define a valid connection, then this function does nothing"
\* (ZenGarden.h:150); and those of a graph with several outlets one of which
\* sends messages, which keeps them at the outlet with the number of the inlet
\* they lead to (PdGraph.cpp:550).
EndsAgree ==
    \A o, t \in patch :
        \A k \in 1 .. NumOutlets(o), i \in 1 .. NumInlets(t) :
            LET inlet == InletOf(t, i)
                outlet == OutletOf(o, k)
            IN  /\ GraphOf[o] = GraphOf[t]
                /\ Takes(t, i, ConnectionType(o, k))
                /\ OneMessageOutlet(o)
                => Times(<<o, k>>, incoming[inlet[1]][inlet[2]])
                       = Times(<<t, i>>, outgoing[outlet[1]][outlet[2]])

=============================================================================
