--------------------------- MODULE ContextRegistry ---------------------------
(***************************************************************************)
(* The registries of a context (PdContext.cpp, PdGraph.cpp): objects that  *)
(* find each other by name, across graphs.  A send~ feeds the receive~s of *)
(* its name, a delwrite~ the delread~s, a table its readers and writers;   *)
(* catch~ sums the throw~s of its name; receive takes messages.  One       *)
(* object of a name is the source of the others: send~, delwrite~, table   *)
(* and catch~.                                                             *)
(*                                                                         *)
(* Objects are registered when their graph is attached, or when they are   *)
(* added to an attached graph, and unregistered when the graph is          *)
(* unattached or the object removed, in any order.  The nodes of subgraphs *)
(* are registered with those of the root graph and are counted among them. *)
(*                                                                         *)
(* The host may remove any object.  Of a deleted one that the context still *)
(* keeps, which it then reads or calls, only that it keeps it is modelled. *)
(***************************************************************************)
EXTENDS Integers, Sequences, SequencesExt

CONSTANTS
    Objects, Graphs,
    KindOf, NameOf, GraphOf, \* of the objects
    Patches,      \* sets of objects; a patch is one of them
    Removable,    \* the objects that the host removes
    Unattachable, \* the graphs that the host unattaches
    MaxAttaches,  \* a bound on how often a graph is attached
    NONE          \* no object: the zero buffer, or NULL

Readers == {"receive~", "delread~", "tabread"}
Kinds ==
    Readers \cup {"send~", "delwrite~", "table", "catch~", "throw~", "receive"}

ASSUME RegistryAssumption ==
    /\ KindOf \in [Objects -> Kinds]
    /\ DOMAIN NameOf = Objects
    /\ GraphOf \in [Objects -> Graphs]
    /\ Patches \subseteq SUBSET Objects
    /\ Removable \subseteq Objects /\ Unattachable \subseteq Graphs
    /\ MaxAttaches \in Nat
    /\ NONE \notin Objects
    /\ NONE \notin [object : Objects, buffer : {"output", "input"}]

Names == {NameOf[o] : o \in Objects}

VARIABLES
    patch,               \* the objects that the host adds
    nodeList,            \* of each graph
    isAttachedToContext, \* the graphs whose flag is set
    attaches,            \* how often each graph has been attached
    deleted,             \* the objects that have been deleted
    registry             \* what the context knows of the objects

vars ==
    <<patch, nodeList, isAttachedToContext, attaches, deleted, registry>>

(* registry.lists      dspSendList, dspReceiveMap, delaylineList and so on:  *)
(*                     the registered objects of each kind                   *)
(* registry.source     what each reader reads: the zero buffer or NULL, or   *)
(*                     the output or the input buffer of an object           *)
(* registry.throwList  the throw~s that each catch~ sums                     *)
(* registry.receivers  the receivers of the messages to each name            *)

Output(o) == [object |-> o, buffer |-> "output"]
Input(o) == [object |-> o, buffer |-> "input"]

Init ==
    /\ patch \in Patches
    /\ nodeList = [g \in Graphs |-> <<>>]
    /\ isAttachedToContext = {}
    /\ attaches = [g \in Graphs |-> 0]
    /\ deleted = {}
    /\ registry = [lists |-> [k \in Kinds |-> <<>>],
                   source |-> [o \in Objects |-> NONE],
                   throwList |-> [o \in Objects |-> <<>>],
                   receivers |-> [n \in Names |-> {}]]

-----------------------------------------------------------------------------
SourceKind == [k \in Readers |-> CASE k = "receive~" -> "send~"
                                   [] k = "delread~" -> "delwrite~"
                                   [] k = "tabread" -> "table"]

\* The elements of a list that are in a set, in order.
Those(list, S) ==
    LET those[n \in 0 .. Len(list)] ==
            IF n = 0 THEN <<>>
            ELSE IF list[n] \in S THEN Append(those[n - 1], list[n])
            ELSE those[n - 1]
    IN  those[Len(list)]

\* The registered objects of a kind and name, in order.
Named(r, kind, name) ==
    Those(r.lists[kind], {o \in Objects : NameOf[o] = name})

\* getDspSend, getDelayline, getTable, getDspCatch: the first of them.
First(r, kind, name) ==
    LET named == Named(r, kind, name)
    IN  IF named = <<>> THEN NONE ELSE Head(named)

Enlisted(r, o) == [r EXCEPT !.lists[KindOf[o]] = Append(@, o)]

\* The list without the object, wherever it is (std::list::remove).
Delisted(r, o) ==
    [r EXCEPT !.lists[KindOf[o]] = Those(@, Objects \ {o})]

\* All registered readers of a source's kind and name read something else.
Redirected(r, o, source) ==
    [r EXCEPT !.source =
        [p \in Objects |->
            IF /\ KindOf[p] \in Readers /\ SourceKind[KindOf[p]] = KindOf[o]
               /\ p \in ToSet(Named(r, KindOf[p], NameOf[o]))
            THEN source ELSE r.source[p]]]

\* Mistaken: what was registered before is not told.
RegisterSourceOnly(r, o) ==
    IF First(r, KindOf[o], NameOf[o]) # NONE THEN r ELSE Enlisted(r, o)

\* A second source of a name is refused.
RegisterSource(r, o) ==
    IF First(r, KindOf[o], NameOf[o]) # NONE THEN r
    ELSE Redirected(Enlisted(r, o), o, Output(o))

\* A receive~ whose send~ is already there gets the buffer at its inlet, one
\* without a send~ keeps what it has; the others get the source's, or NULL.
RegisterReader(r, o) ==
    LET found == First(r, SourceKind[KindOf[o]], NameOf[o])
    IN  [Enlisted(r, o) EXCEPT !.source[o] =
            IF found # NONE
            THEN IF KindOf[o] = "receive~" THEN Input(found) ELSE Output(found)
            ELSE IF KindOf[o] = "receive~" THEN @ ELSE NONE]

\* Mistaken: only the first throw~ of the name is found.
RegisterCatchFirst(r, o) ==
    IF First(r, "catch~", NameOf[o]) # NONE THEN r
    ELSE [Enlisted(r, o) EXCEPT !.throwList[o] =
             @ \o Those(Named(r, "throw~", NameOf[o]),
                        {First(r, "throw~", NameOf[o])})]

RegisterCatch(r, o) ==
    IF First(r, "catch~", NameOf[o]) # NONE THEN r
    ELSE [Enlisted(r, o) EXCEPT !.throwList[o] =
             @ \o Named(r, "throw~", NameOf[o])]

RegisterThrow(r, o) ==
    LET found == First(r, "catch~", NameOf[o])
    IN  IF found = NONE THEN Enlisted(r, o)
        ELSE [Enlisted(r, o) EXCEPT !.throwList[found] = Append(@, o)]

Receiving(r, o) == [r EXCEPT !.receivers[NameOf[o]] = @ \cup {o}]

registerObject(r, o) ==
    CASE KindOf[o] \in {"send~", "delwrite~"} -> RegisterSource(r, o)
      [] KindOf[o] = "table"   -> RegisterSource(Receiving(r, o), o)
      [] KindOf[o] \in Readers -> RegisterReader(r, o)
      [] KindOf[o] = "catch~"  -> RegisterCatch(r, o)
      [] KindOf[o] = "throw~"  -> RegisterThrow(r, o)
      [] KindOf[o] = "receive" -> Receiving(r, o)

\* Each object of a list in turn.
registerAll(r, list) ==
    LET after[n \in 0 .. Len(list)] ==
            IF n = 0 THEN r ELSE registerObject(after[n - 1], list[n])
    IN  after[Len(list)]

\* Mistaken: what reads a send~ is not told, and a receiver stays listed.
unregisterObjectOnly(r, o) ==
    CASE KindOf[o] = "send~"   -> Delisted(r, o)
      [] KindOf[o] = "receive~" -> [r EXCEPT !.source[o] = NONE]
      [] OTHER -> r

\* There is no case for tables, delay lines and their readers, catch~ and
\* throw~.  A send~ silences the receive~s of its name, whether or not it was
\* the one they read.
unregisterObject(r, o) ==
    CASE KindOf[o] = "receive" -> [r EXCEPT !.receivers[NameOf[o]] = @ \ {o}]
      [] KindOf[o] \in {"receive~", "tabread"} ->
             [Delisted(r, o) EXCEPT !.source[o] = NONE]
      [] KindOf[o] = "send~" -> Redirected(Delisted(r, o), o, NONE)
      [] OTHER -> r

unregisterAll(r, list) ==
    LET after[n \in 0 .. Len(list)] ==
            IF n = 0 THEN r ELSE unregisterObject(after[n - 1], list[n])
    IN  after[Len(list)]

-----------------------------------------------------------------------------
addObject(o) ==
    LET g == GraphOf[o]
    IN  /\ o \in patch \ deleted /\ ~ Contains(nodeList[g], o)
        /\ nodeList' = [nodeList EXCEPT ![g] = Append(@, o)]
        /\ registry' = IF g \in isAttachedToContext
                       THEN registerObject(registry, o) ELSE registry
        /\ UNCHANGED <<patch, isAttachedToContext, attaches, deleted>>

\* An object is unregistered even if its graph is not attached.
removeObject(o) ==
    LET g == GraphOf[o]
    IN  /\ o \in Removable /\ Contains(nodeList[g], o)
        /\ nodeList' = [nodeList EXCEPT ![g] = Those(@, Objects \ {o})]
        /\ registry' = unregisterObject(registry, o)
        /\ deleted' = deleted \cup {o}
        /\ UNCHANGED <<patch, isAttachedToContext, attaches>>

attachGraph(g) ==
    /\ g \in {GraphOf[o] : o \in patch} \ isAttachedToContext
    /\ attaches[g] < MaxAttaches
    /\ isAttachedToContext' = isAttachedToContext \cup {g}
    /\ attaches' = [attaches EXCEPT ![g] = @ + 1]
    /\ registry' = registerAll(registry, nodeList[g])
    /\ UNCHANGED <<patch, nodeList, deleted>>

unattachGraph(g) ==
    /\ g \in Unattachable \cap isAttachedToContext
    /\ isAttachedToContext' = isAttachedToContext \ {g}
    /\ registry' = unregisterAll(registry, nodeList[g])
    /\ UNCHANGED <<patch, nodeList, attaches, deleted>>

Next ==
    \/ \E o \in Objects : addObject(o) \/ removeObject(o)
    \/ \E g \in Graphs : attachGraph(g) \/ unattachGraph(g)

Spec == Init /\ [][Next]_vars

-----------------------------------------------------------------------------
(* What the host may do to a patch without the context losing track of it: *)
(* take away what unregisterObject has a case for, and no send~ of which    *)
(* there are others of its name, which are not told of it.                 *)

HaveCase == {"send~", "receive~", "tabread", "receive"}

Leavers == Removable \cup {o \in Objects : GraphOf[o] \in Unattachable}

LeaversHaveCase == \A o \in Leavers : KindOf[o] \in HaveCase
SendsThatLeaveAreAlone ==
    \A p \in Patches : \A s \in p \cap Leavers, q \in p :
        KindOf[s] = "send~" /\ KindOf[q] = "send~" /\ NameOf[q] = NameOf[s]
        => q = s

-----------------------------------------------------------------------------
\* The objects of attached graphs of a kind and name.
AttachedOf(kind, name) ==
    {o \in Objects : /\ KindOf[o] = kind /\ NameOf[o] = name
                     /\ GraphOf[o] \in isAttachedToContext
                     /\ Contains(nodeList[GraphOf[o]], o)}

\* Whatever the order in which graphs were attached and objects added and
\* removed, a receive~, delread~ or table reader in an attached graph reads
\* an object of its name in an attached graph, and nothing if there is none;
\* one that is not attached reads nothing.
ReadersFindSource ==
    \A o \in Objects :
        KindOf[o] \in Readers =>
            LET sources == AttachedOf(SourceKind[KindOf[o]], NameOf[o])
                source  == registry.source[o]
            IN  IF o \in AttachedOf(KindOf[o], NameOf[o]) /\ sources # {}
                THEN source # NONE /\ source.object \in sources
                ELSE source = NONE

\* A catch~ sums every throw~ of its name in the attached graphs once.
CatchesEveryThrow ==
    \A c \in ToSet(registry.lists["catch~"]) :
        /\ ToSet(registry.throwList[c]) = AttachedOf("throw~", NameOf[c])
        /\ IsInjective(registry.throwList[c])

\* Once an object of a kind with a case is removed, the context forgets it,
\* whatever else the host removes and whether or not the graph was attached:
\* it is in no list, receives nothing, and is read by no receive~ that has
\* found it (PdGraph::unregisterObject).  A deleted throw~, catch~, delay line
\* or table is not forgotten: see NoneDangling.
RemovedAreForgotten ==
    LET gone == {o \in deleted : KindOf[o] \in HaveCase}
    IN  /\ \A k \in Kinds : ToSet(registry.lists[k]) \cap gone = {}
        /\ \A n \in Names : registry.receivers[n] \cap gone = {}
        /\ \A o \in Objects :
               registry.source[o] # NONE => registry.source[o].object \notin gone

\* "remove the object from any special lists if it is in any of them (e.g.,
\* receive, throw~, etc.)" (PdGraph.cpp:172): nothing that the context keeps
\* refers to a deleted object of any kind, which it would read or send
\* messages to.  It does, as unregisterObject has no case for most kinds.
NoneDangling ==
    /\ \A k \in Kinds : ToSet(registry.lists[k]) \cap deleted = {}
    /\ \A n \in Names : registry.receivers[n] \cap deleted = {}
    /\ \A o \in Objects \ deleted :
           /\ registry.source[o] # NONE =>
                  registry.source[o].object \notin deleted
           /\ ToSet(registry.throwList[o]) \cap deleted = {}

\* Messages to a name reach exactly the receive objects of that name in the
\* attached graphs.
MessagesReachReceivers ==
    \A n \in Names :
        {o \in registry.receivers[n] : KindOf[o] = "receive"} =
            AttachedOf("receive", n)

\* Each bus reaches all its ends in the attached graphs, once, and no others
\* (PdContext::registerDspThrow, registerDspCatch, registerRemoteMessageReceiver).
BusesReach == CatchesEveryThrow /\ MessagesReachReceivers

=============================================================================
