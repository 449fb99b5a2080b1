----------------------------- MODULE PdFileParser -----------------------------
(***************************************************************************)
(* How a patch is read from its files (PdFileParser.cpp): message after    *)
(* message, with the graph that is being defined, and a parser for each    *)
(* abstraction inside of the one that met it.                              *)
(*                                                                         *)
(* A line of a file is a record: the hash type and the object type, the    *)
(* horizontal position, and the words (or numbers) that follow; a line     *)
(* without a hash type continues the one before.                           *)
(***************************************************************************)
EXTENDS PdPatch

CONSTANTS
    Patches,  \* the files that are loaded
    RootPath  \* the directory that holds them

VARIABLES
    root,         \* the file that is loaded
    parsers,      \* those at work, the innermost last
    globalGraphId,
    ordered       \* the graphs whose process order was computed

parserVars == <<root, parsers, globalGraphId, ordered>>
INIT_MESSAGE_MAX_ELEMENTS == 32

IsBlank(line) == line.hash = "" /\ line.words = <<>>

\* Mistaken: a line that continues another is one of its own.
MessagesByLine(lines) == SelectSeq(lines, LAMBDA line : ~IsBlank(line))

\* The messages of a file: a blank line ends it.
Messages(lines) ==
    LET blanks == {i \in DOMAIN lines : IsBlank(lines[i])}
        read == SubSeq(lines, 1, IF blanks = {} THEN Len(lines) ELSE Min(blanks) - 1)
    IN  FoldLeft(LAMBDA messages, line :
                     IF line.hash # "" THEN Append(messages, line)
                     ELSE [messages EXCEPT ![Len(messages)].words = @ \o line.words],
                 <<>>, read)

loadFile(directory, name, graph, isSubPatch, initMsg) ==
    [messages |-> Messages(Files[directory \o name]), graph |-> graph,
     isSubPatch |-> isSubPatch, initMsg |-> initMsg]

ParserInit ==
    /\ graphs = <<>> /\ tables = <<>> /\ loadbangs = <<>>
    /\ root \in Patches
    /\ parsers = <<loadFile(RootPath, root, NoGraph, TRUE, <<>>)>>
    /\ globalGraphId = 0
    /\ ordered = <<>>

-----------------------------------------------------------------------------
parser == Last(parsers)
message == Head(parser.messages)
here == graphs[parser.graph]
Reads(hash, type) ==
    /\ parsers # <<>> /\ parser.messages # <<>>
    /\ message.hash = hash /\ message.type = type
Onwards(next) ==
    parsers' = Append(Front(parsers),
                      [next EXCEPT !.messages = Tail(parser.messages)])
Resolved(words) ==
    initWithSARb(INIT_MESSAGE_MAX_ELEMENTS, words, here.arguments)

\* Mistaken: a subpatch counts as a graph of its own.
SubpatchIdAnew(graph) == globalGraphId + 1
\* A subpatch has the id of the graph that it is in.
SubpatchId(graph) == graph.graphId

\* A root graph, an abstraction or a subpatch; the first graph of a file is
\* the abstraction, and those that follow are its subpatches.
Canvas ==
    /\ Reads("#N", "canvas")
    /\ LET g == Len(graphs) + 1
           isRoot == parser.graph = NoGraph
           isSubPatch == ~isRoot /\ parser.isSubPatch
           new == CASE isRoot -> [NewGraph(<<>>, NoGraph, globalGraphId + 1)
                                     EXCEPT !.paths = <<RootPath>>]
                    [] isSubPatch -> NewGraph(here.arguments, parser.graph,
                                              SubpatchId(here))
                    [] OTHER -> NewGraph(parser.initMsg, parser.graph,
                                         globalGraphId + 1)
           known == IF isRoot THEN graphs
                    ELSE [graphs EXCEPT ![parser.graph] =
                             addObject(@, GraphNode(g))]
       IN  /\ graphs' = Append(known, new)
           /\ globalGraphId' = IF new.graphId > globalGraphId
                               THEN new.graphId ELSE globalGraphId
           /\ Onwards([parser EXCEPT !.graph = g, !.isSubPatch = TRUE])
    /\ UNCHANGED <<root, ordered, tables, loadbangs>>

Add(node) == graphs' = [graphs EXCEPT ![parser.graph] = addObject(@, node)]

IsKnown(text) == text[1] = "FLOAT" \/ text[2] \in Labels
LabelOf(words) == resolveString(words[1], here.arguments, 0)

Obj ==
    /\ Reads("#X", "obj")
    /\ LET text == LabelOf(message.words)
           arguments == Resolved(Tail(message.words))
           node == newObject(text, arguments, message.x)
       IN  /\ IsKnown(text)
           /\ Add(node)
           /\ tables' = IF node.label = "table"
                        THEN registerTable(tables, node.state.name, NewTable(arguments))
                        ELSE tables
           /\ loadbangs' = IF node.label = "loadbang"
                           THEN Append(loadbangs, <<parser.graph, Len(here.nodes) + 1>>)
                           ELSE loadbangs
    /\ Onwards(parser)
    /\ UNCHANGED <<root, globalGraphId, ordered>>

\* The file is named by the label as it was written.
Abstraction ==
    /\ Reads("#X", "obj")
    /\ ~IsKnown(LabelOf(message.words))
    /\ LET name == message.words[1][2][2]
           arguments == Resolved(Tail(message.words))
           directory == findFilePath(parser.graph, name)
       IN  IF directory \o name \in DOMAIN Files
           THEN /\ parsers' = Append(Front(parsers),
                                     [parser EXCEPT !.messages = Tail(@)])
                              \o <<loadFile(directory, name, parser.graph, FALSE,
                                            arguments)>>
                /\ UNCHANGED <<graphs, globalGraphId>>
           ELSE /\ graphs' = Append([graphs EXCEPT ![parser.graph] =
                                        addObject(@, GraphNode(Len(graphs) + 1))],
                                    NewGraph(arguments, parser.graph, globalGraphId + 1))
                /\ globalGraphId' = globalGraphId + 1
                /\ Onwards(parser)
    /\ UNCHANGED <<root, ordered, tables, loadbangs>>

Msg ==
    /\ Reads("#X", "msg")
    /\ Add(NewNode("msg", <<>>, NewMessageMessageBox(message.words), message.x))
    /\ Onwards(parser)
    /\ UNCHANGED <<root, globalGraphId, ordered, tables, loadbangs>>

FloatAtom ==
    /\ Reads("#X", "floatatom")
    /\ Add(newObject(Symbol("float"), <<Float(0)>>, message.x))
    /\ Onwards(parser)
    /\ UNCHANGED <<root, globalGraphId, ordered, tables, loadbangs>>

Text ==
    /\ Reads("#X", "text")
    /\ Add(newObject(Symbol("text"), <<>>, message.x))
    /\ Onwards(parser)
    /\ UNCHANGED <<root, globalGraphId, ordered, tables, loadbangs>>

Connect ==
    /\ Reads("#X", "connect")
    /\ graphs' = addConnection(parser.graph, message.words[1], message.words[2],
                               message.words[3], message.words[4])
    /\ Onwards(parser)
    /\ UNCHANGED <<root, globalGraphId, ordered, tables, loadbangs>>

Restore ==
    /\ Reads("#X", "restore")
    /\ here.parent # NoGraph \* otherwise the next message ends the program
    /\ Onwards([parser EXCEPT !.graph = here.parent])
    /\ UNCHANGED <<root, globalGraphId, ordered, graphs, tables, loadbangs>>

-----------------------------------------------------------------------------
hasTrailingSlash(path) == SubSeq(path, Len(path), Len(path)) = "/"
\* A path that is not full is one under the first, the root path.
addPath(paths, path) ==
    LET slashed == IF hasTrailingSlash(path) THEN path ELSE path \o "/" IN
    Append(paths, IF isFullPath(path) THEN slashed ELSE paths[1] \o slashed)

\* Mistaken: a declaration in a subpatch stays there.
DeclarerItself(g) == g
\* A subpatch leaves a path to the graph that its file, or its abstraction,
\* began with.
Declarer(g) ==
    LET f[i \in 1..Len(graphs)] ==
            IF graphs[i].parent # NoGraph
               /\ graphs[i].graphId = graphs[graphs[i].parent].graphId
            THEN f[graphs[i].parent] ELSE i
    IN  f[g]

Declare ==
    /\ Reads("#X", "declare")
    /\ LET flags == initWithString(2, [i \in DOMAIN message.words |->
                                           message.words[i][2]])
           g == Declarer(parser.graph)
       IN  graphs' = IF Says(flags, 0, "-path") /\ isSymbol(flags, 1)
                     THEN [graphs EXCEPT ![g].paths = addPath(@, getSymbol(flags, 1))]
                     ELSE graphs
    /\ Onwards(parser)
    /\ UNCHANGED <<root, globalGraphId, ordered, tables, loadbangs>>

\* Mistaken: also past the end of the table.
FilledAnyway(buffer, message_) ==
    LET first == Head(message_.words)
        values == Tail(message_.words)
    IN  [i \in 1..(IF first + Len(values) > Len(buffer)
                   THEN first + Len(values) ELSE Len(buffer)) |->
            IF i > first /\ i - first <= Len(values) THEN values[i - first] * Unit
            ELSE IF i <= Len(buffer) THEN buffer[i] ELSE 0]

\* An index and the numbers from there on, as far as the table goes.
FilledBy(buffer, message_) ==
    LET first == Head(message_.words)
        values == Tail(message_.words)
    IN  [i \in DOMAIN buffer |->
            IF i > first /\ i - first <= Len(values)
            THEN values[i - first] * Unit ELSE buffer[i]]

\* The messages with the elements of the array are read with it, and one more,
\* which is taken to be the "#X coords" of the array.
Array ==
    /\ Reads("#X", "array")
    /\ LET arguments == initWithSARb(4, message.words, here.arguments)
           node == newObject(Symbol("table"), arguments, 0)
           others == {i \in 2..Len(parser.messages) : parser.messages[i].hash # "#A"}
           last == IF others = {} THEN Len(parser.messages) ELSE Min(others)
           elements == SelectSeq(SubSeq(parser.messages, 2, last),
                                 LAMBDA m : m.hash = "#A")
       IN  /\ Add(node)
           /\ tables' = registerTable(tables, node.state.name,
                                      FoldLeft(FilledBy, NewTable(arguments), elements))
           /\ parsers' = Append(Front(parsers),
                                [parser EXCEPT !.messages =
                                    SubSeq(@, last + 1, Len(@))])
    /\ UNCHANGED <<root, globalGraphId, ordered, loadbangs>>

\* "#X coords", and what is not recognised.
Skip ==
    /\ parsers # <<>> /\ parser.messages # <<>>
    /\ <<message.hash, message.type>> \notin
           {<<"#N", "canvas">>} \cup
           ({"#X"} \X {"obj", "msg", "floatatom", "text", "connect", "restore",
                       "declare", "array"})
    /\ Onwards(parser)
    /\ UNCHANGED <<root, globalGraphId, ordered, graphs, tables, loadbangs>>

\* The order is computed when all messages have been read.
Finish ==
    /\ parsers # <<>> /\ parser.messages = <<>>
    /\ ordered' = Append(ordered, parser.graph)
    /\ parsers' = Front(parsers)
    /\ UNCHANGED <<root, globalGraphId, graphs, tables, loadbangs>>

ParserNext ==
    \/ Canvas \/ Obj \/ Abstraction \/ Msg \/ FloatAtom \/ Text \/ Connect
    \/ Restore \/ Declare \/ Array \/ Skip \/ Finish
=============================================================================
