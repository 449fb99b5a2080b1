------------------------------- MODULE PdPatch -------------------------------
(***************************************************************************)
(* The graphs of a patch as they hold messages objects: the nodes of each  *)
(* graph in the order they were added, its inlets and outlets from left to *)
(* right, and the connections between its nodes in the order they were     *)
(* made.  A subgraph is a node of its parent.  An object is a pair of a    *)
(* graph and the place of a node in it.                                    *)
(*                                                                         *)
(* A table of these patches has a name of its own (the registration of     *)
(* names that meet is ContextRegistry's).                                  *)
(***************************************************************************)
EXTENDS ObjectFactoryMap

CONSTANTS
    Files,  \* the lines of a patch file, by its path
    Sounds  \* the frames of a sound file, by its path

VARIABLES
    graphs,    \* the graphs, in the order they were made
    tables,    \* the buffer of each table, by name
    loadbangs  \* the objects whose first bang is scheduled

NoGraph == 0
Node(o) == graphs[o[1]].nodes[o[2]]
Objects == UNION {{g} \X DOMAIN graphs[g].nodes : g \in DOMAIN graphs}

\* Argument 0 is the id of the graph; a subpatch is given all the arguments
\* of its parent, and so has that id twice.
NewGraph(arguments, parent, graphId) ==
    [arguments |-> <<Whole(graphId)>> \o arguments,
     parent |-> parent,
     graphId |-> graphId,
     paths |-> <<>>, nodes |-> <<>>, inletList |-> <<>>, outletList |-> <<>>,
     connections |-> <<>>]

NewNode(label, arguments, object, x) ==
    [label |-> label, arguments |-> arguments, state |-> object.state,
     inlets |-> object.inlets, outlets |-> object.outlets, x |-> x,
     graph |-> NoGraph]
GraphNode(g) ==
    [NewNode("pd", <<>>, New(0, 0, [name |-> NoName]), 0) EXCEPT !.graph = g]

\* A label of the table, or a number, which is a float with that number.
newObject(text, arguments, x) ==
    IF text[1] = "FLOAT"
    THEN NewNode("float", <<text>>, constructed("float", <<text>>), x)
    ELSE NewNode(text[2], arguments, constructed(text[2], arguments), x)

\* Mistaken: an inlet stands where it was added.
addLetObjectLast(letList, nodes, n) == Append(letList, n)

\* Before the first that is further to the right.
addLetObjectToLetList(letList, nodes, n) ==
    LET further == {i \in DOMAIN letList : nodes[letList[i]].x > nodes[n].x} IN
    InsertAt(letList, IF further = {} THEN Len(letList) + 1 ELSE Min(further), n)

addObject(graph, node) ==
    LET n == Len(graph.nodes) + 1
        all == Append(graph.nodes, node)
    IN  [graph EXCEPT
            !.nodes = all,
            !.inletList = IF node.label = "inlet"
                          THEN addLetObjectToLetList(@, all, n) ELSE @,
            !.outletList = IF node.label = "outlet"
                           THEN addLetObjectToLetList(@, all, n) ELSE @]

NumInletsOf(node) == IF node.label = "pd" THEN Len(graphs[node.graph].inletList)
                     ELSE node.inlets
NumOutletsOf(node) == IF node.label = "pd" THEN Len(graphs[node.graph].outletList)
                      ELSE node.outlets

\* A connection that cannot work is not made.  Nodes, inlets and outlets
\* count from 0 in a file.
addConnection(g, from, outlet, to, inlet) ==
    LET nodes == graphs[g].nodes IN
    IF /\ outlet < NumOutletsOf(nodes[from + 1])
       /\ inlet < NumInletsOf(nodes[to + 1])
    THEN [graphs EXCEPT ![g].connections =
             Append(@, [from |-> from + 1, outlet |-> outlet,
                        to |-> to + 1, inlet |-> inlet])]
    ELSE graphs

-----------------------------------------------------------------------------
\* The directories that are searched from a graph, and the first of them that
\* has a file, or the directory the program runs in.
DeclaredPaths(g) ==
    LET f[i \in 0..Len(graphs)] ==
            IF i = NoGraph THEN <<>> ELSE graphs[i].paths \o f[graphs[i].parent]
    IN  f[g]
fileExists(path) == path \in DOMAIN Files \cup DOMAIN Sounds
findFilePath(g, name) ==
    LET found == SelectSeq(DeclaredPaths(g),
                           LAMBDA directory : fileExists(directory \o name))
    IN  IF found = <<>> THEN "" ELSE Head(found)

isFullPath(path) == SubSeq(path, 1, 1) = "/"
NoPath == ""
\* A file beside the program itself is not found.
resolveFullPath(g, name) ==
    IF isFullPath(name) THEN IF fileExists(name) THEN name ELSE NoPath
    ELSE LET directory == findFilePath(g, name) IN
         IF directory = "" THEN NoPath ELSE directory \o name
SoundOf(g, name) ==
    LET path == resolveFullPath(g, name) IN
    IF path \in DOMAIN Sounds THEN Sounds[path] ELSE <<>>

-----------------------------------------------------------------------------
Self(g) == CHOOSE n \in DOMAIN graphs[graphs[g].parent].nodes :
               graphs[graphs[g].parent].nodes[n].graph = g
ReceiversAt(g, connections) ==
    [j \in DOMAIN connections |-> <<<<g, connections[j].to>>, connections[j].inlet>>]

\* The objects and inlets an outlet is connected to.  The outlet of a graph
\* has the connections of the graph, each kept at the outlet with the number
\* of the inlet it leads to.
Receivers(o, outlet) ==
    LET g == o[1]
        parent == graphs[g].parent
        Here(c) == c.from = o[2] /\ c.outlet = outlet
        Through(c) == /\ c.from = Self(g)
                      /\ graphs[g].outletList[c.inlet + 1] = o[2]
    IN  IF Node(o).label # "outlet"
        THEN ReceiversAt(g, SelectSeq(graphs[g].connections, Here))
        ELSE IF parent = NoGraph THEN <<>>
        ELSE ReceiversAt(parent, SelectSeq(graphs[parent].connections, Through))

\* The objects that receive messages to a name.
NamedReceivers(name) ==
    {o \in Objects : /\ Node(o).label \in Receives \cup {"table", "notein"}
                     /\ Node(o).state.name = name}
=============================================================================
