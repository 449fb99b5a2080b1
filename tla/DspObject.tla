------------------------------ MODULE DspObject ------------------------------
(***************************************************************************)
(* The messages of audio objects (DspObject.cpp) and the graph that runs   *)
(* them (PdGraph::processGraph).  Messages are sent before the graph runs  *)
(* in a block.  An audio object keeps those it receives; when its turn     *)
(* comes it renders the block up to the index of the first, processes it,  *)
(* renders up to the second, and so on to the end of the block.            *)
(*                                                                         *)
(* A graph can be switched off (switch~).  Then it does not run, and what  *)
(* its objects receive is dropped.  What switches a graph while the graphs *)
(* run (snapshot~ to switch~) is left out.                                 *)
(*                                                                         *)
(* Time is counted in ticks, several to a sample: a message has an index   *)
(* in the block, rounded up.  What the objects do with their messages and  *)
(* with the parts of the block is in SignalPatch.                          *)
(***************************************************************************)
EXTENDS Integers, Sequences, SequencesExt

CONSTANTS
    DspObjects,
    Patches,        \* sets of objects; a patch is one of them
    dspNodeList,    \* the order in which the objects of each run, those of
                    \* subgraphs included
    Graphs,
    GraphOf,        \* the graph each is in
    Around,         \* that graph and those that it is a subgraph of
    Switchable,     \* the graphs that have a switch~
    Handles,        \* those that set processFunction to what they set
                    \* processFunctionNoMessage to
    Adapts,         \* those that change processFunction when a connection is
                    \* made or cut
    Feeds,          \* the objects that each one may send a message to while
                    \* it processes one (snapshot~)
    BlockSize,      \* in samples
    TicksPerSample,
    MaxBlocks,      \* a bound on the number of blocks
    MaxQueue        \* a bound on the messages waiting at an object

ASSUME DspAssumption ==
    /\ Patches \subseteq SUBSET DspObjects
    /\ \A p \in Patches : /\ dspNodeList[p] \in Seq(p)
                          /\ IsInjective(dspNodeList[p])
                          /\ ToSet(dspNodeList[p]) = p
    /\ GraphOf \in [DspObjects -> Graphs]
    /\ Around \in [DspObjects -> SUBSET Graphs]
    /\ \A o \in DspObjects : GraphOf[o] \in Around[o]
    /\ Switchable \subseteq Graphs
    /\ Adapts \subseteq Handles /\ Handles \subseteq DspObjects
    /\ Feeds \in [DspObjects -> SUBSET DspObjects]
    /\ \A p \in Patches : \A o \in p : Feeds[o] \subseteq p
    /\ BlockSize \in Nat \ {0} /\ TicksPerSample \in Nat \ {0}
    /\ MaxBlocks \in Nat /\ MaxQueue \in Nat

VARIABLES
    patch,               \* the objects there are
    messageQueue,        \* of each object, the messages it keeps and their
                         \* times
    processFunction,     \* what runs the object: "message" is the loop over
                         \* its messages, the others take none
    switched,            \* the graphs that are on
    blockStartTimestamp,
    phase,               \* "idle", "messages" or "dsp"
    now,                 \* the time of the last message sent in this block
    turn,                \* the node whose turn it is
    inLoop,              \* it is in the loop over its messages
    rendered,            \* history: the parts of the block that each object
                         \* has rendered
    late                 \* history: the objects that have a message of another
                         \* block when the graph runs, or were sent one that is
                         \* earlier than one they had

dspVars == <<patch, messageQueue, processFunction, switched, blockStartTimestamp,
          phase, now, turn, inLoop, rendered, late>>

BlockTicks == BlockSize * TicksPerSample

DspInit ==
    /\ patch \in Patches
    /\ messageQueue = [o \in patch |-> <<>>]
    /\ processFunction =
           [o \in patch |->
               IF o \in Handles THEN "noMessage" ELSE "other"]
    /\ switched = Graphs
    /\ blockStartTimestamp = 0
    /\ phase = "idle"
    /\ now = 0
    /\ turn = 1
    /\ inLoop = FALSE
    /\ rendered = [o \in patch |-> <<>>]
    /\ late = {}

-----------------------------------------------------------------------------
\* Mistaken: the newest message is put first.
queuedFirst(o, entry) == [messageQueue EXCEPT ![o] = <<entry>> \o @]

queued(o, entry) == [messageQueue EXCEPT ![o] = Append(@, entry)]

\* Mistaken: the object goes on without looking.
noticedNot(o) == processFunction

\* The object will look at its messages, if it is one that does.
noticed(o) ==
    [processFunction EXCEPT ![o] = IF @ = "noMessage" THEN "message" ELSE @]

\* Whether the object's own graph is switched on, and whether it runs.
isSwitchedOn(o) == GraphOf[o] \in switched
Runs(o) == Around[o] \subseteq switched

\* A message that is earlier than one that the object has.
OutOfOrder(o, time) ==
    \E i \in 1 .. Len(messageQueue[o]) : time < messageQueue[o][i].time

receiveMessage(o, time, message) ==
    /\ Len(messageQueue[o]) < MaxQueue
    /\ IF isSwitchedOn(o)
       THEN /\ messageQueue' = queued(o, [time |-> time, message |-> message])
            /\ processFunction' = noticed(o)
            /\ late' = IF OutOfOrder(o, time) THEN late \cup {o} ELSE late
       ELSE UNCHANGED <<messageQueue, processFunction, late>>

\* zg_object_send_message: the message keeps the time that the host gave it.
SendDirect(o, time, message) ==
    /\ phase = "idle"
    /\ receiveMessage(o, time, message)
    /\ UNCHANGED <<patch, switched, blockStartTimestamp, phase, now, turn,
                   inLoop, rendered>>

\* A message to the switch~ of a graph.
setSwitch(g) ==
    /\ phase \in {"idle", "messages"}
    /\ switched' = IF g \in switched THEN switched \ {g} ELSE switched \cup {g}
    /\ UNCHANGED <<patch, messageQueue, processFunction, blockStartTimestamp,
                   phase, now, turn, inLoop, rendered, late>>

\* onInletConnectionUpdate: processSignal when audio is connected, or
\* processScalar, which is also processFunctionNoMessage.
onInletConnectionUpdate(o, function) ==
    /\ phase = "idle"
    /\ o \in Adapts
    /\ processFunction' = [processFunction EXCEPT ![o] = function]
    /\ UNCHANGED <<patch, messageQueue, switched, blockStartTimestamp, phase,
                   now, turn, inLoop, rendered, late>>

BeginProcess ==
    /\ phase = "idle"
    /\ blockStartTimestamp < MaxBlocks * BlockTicks
    /\ phase' = "messages"
    /\ now' = blockStartTimestamp
    /\ UNCHANGED <<patch, messageQueue, processFunction, switched,
                   blockStartTimestamp, turn, inLoop, rendered, late>>

\* process() sends messages of this block, in the order of time (PdContext),
\* and one of them reaches an audio object.
Receive(o, time, message) ==
    /\ phase = "messages"
    /\ now <= time /\ time < blockStartTimestamp + BlockTicks
    /\ receiveMessage(o, time, message)
    /\ now' = time
    /\ UNCHANGED <<patch, switched, blockStartTimestamp, phase, turn, inLoop,
                   rendered>>

\* A message of the block that is processed now.
OfThisBlock(time) ==
    blockStartTimestamp <= time /\ time < blockStartTimestamp + BlockTicks

BeginDsp ==
    /\ phase = "messages"
    /\ phase' = "dsp"
    /\ late' = late \cup {o \in patch : \E i \in 1 .. Len(messageQueue[o]) :
                             ~ OfThisBlock(messageQueue[o][i].time)}
    /\ UNCHANGED <<patch, messageQueue, processFunction, switched,
                   blockStartTimestamp, now, turn, inLoop, rendered>>

-----------------------------------------------------------------------------
nodes == dspNodeList[patch]
Turn == nodes[turn]
OnTurn == phase = "dsp" /\ turn <= Len(nodes)

\* processGraph passes over the objects of a graph that is off.
PassOver ==
    /\ OnTurn /\ ~ Runs(Turn)
    /\ turn' = turn + 1
    /\ UNCHANGED <<patch, messageQueue, processFunction, switched,
                   blockStartTimestamp, phase, now, inLoop, rendered, late>>

\* getBlockIndex, rounded up.
BlockIndex(time) ==
    LET ticks == time - blockStartTimestamp
    IN  - ((- ticks) \div TicksPerSample)

\* Where the last part ended.
blockIndexOfLastMessage ==
    IF rendered[Turn] = <<>> THEN 0 ELSE Last(rendered[Turn]).to

\* processFunctionNoMessage, over a part of the block.
Render(from, to) ==
    rendered' =
        [rendered EXCEPT ![Turn] = Append(@, [from |-> from, to |-> to])]

\* An object that does not look at its messages renders the whole block.
ProcessBlock ==
    /\ OnTurn /\ Runs(Turn)
    /\ processFunction[Turn] # "message"
    /\ Render(0, BlockSize)
    /\ turn' = turn + 1
    /\ UNCHANGED <<patch, messageQueue, processFunction, switched,
                   blockStartTimestamp, phase, now, inLoop, late>>

\* One turn of the loop of processFunctionMessage: the object renders up to
\* the first message and processes it; its receivers get an answer of the same
\* time.  Then the first message is released.
ProcessMessage(receivers, answer) ==
    /\ OnTurn /\ Runs(Turn)
    /\ processFunction[Turn] = "message"
    /\ messageQueue[Turn] # <<>>
    /\ \A o \in receivers : Len(messageQueue[o]) < MaxQueue
    /\ LET time == Head(messageQueue[Turn]).time
           entry == [time |-> time, message |-> answer]
           fed == {o \in receivers : isSwitchedOn(o)}
       IN  /\ Render(blockIndexOfLastMessage, BlockIndex(time))
           /\ messageQueue' =
                  [o \in patch |->
                      LET all == IF o \in fed THEN queued(o, entry)[o]
                                              ELSE messageQueue[o]
                      IN  IF o = Turn THEN Tail(all) ELSE all]
           /\ processFunction' =
                  [o \in patch |-> IF o \in fed THEN noticed(o)[o]
                                               ELSE processFunction[o]]
    /\ inLoop' = TRUE
    /\ UNCHANGED <<patch, switched, blockStartTimestamp, phase, now, turn,
                   late>>

\* The loop ends and the rest of the block is rendered.
ProcessRest ==
    /\ OnTurn /\ inLoop
    /\ messageQueue[Turn] = <<>>
    /\ Render(blockIndexOfLastMessage, BlockSize)
    /\ processFunction' = [processFunction EXCEPT ![Turn] = "noMessage"]
    /\ inLoop' = FALSE
    /\ turn' = turn + 1
    /\ UNCHANGED <<patch, messageQueue, switched, blockStartTimestamp, phase,
                   now, late>>

EndProcess ==
    /\ phase = "dsp" /\ turn > Len(nodes)
    /\ phase' = "idle"
    /\ blockStartTimestamp' = blockStartTimestamp + BlockTicks
    /\ turn' = 1
    /\ rendered' = [o \in patch |-> <<>>]
    /\ late' = {o \in late : messageQueue[o] # <<>>}
    /\ UNCHANGED <<patch, messageQueue, processFunction, switched, now, inLoop>>

-----------------------------------------------------------------------------
\* The objects that another sends to while the graph runs.
Fed == UNION {Feeds[o] : o \in patch}

\* An object that sends while the graph runs sends to one that has yet to run.
FeedsOnward ==
    \A p \in Patches : \A i, j \in 1 .. Len(dspNodeList[p]) :
        dspNodeList[p][j] \in Feeds[dspNodeList[p][i]] => i <= j

\* Each begins where the one before it ended, the first at the start.
FollowEachOther(parts) ==
    \A i \in 1 .. Len(parts) :
        /\ 0 <= parts[i].from /\ parts[i].from <= parts[i].to
        /\ parts[i].to <= BlockSize
        /\ parts[i].from = IF i = 1 THEN 0 ELSE parts[i - 1].to

\* The parts of a block follow each other without gap or overlap, the first
\* from the start and the last to the end, inside the block: every message is
\* processed where it is due and no sample is written twice, whatever
\* messages of the block an object has received, and whatever connections
\* and switches have changed.  It is said of the objects whose messages come
\* before the graph runs, in the order of time and in their block
\* (processFunctionMessage).  Those of the patch do, unless the graph was off;
\* those that the host sends an object directly need not: "The timestamp of this
\* message is ignored" (ZenGarden.h:259), but it is kept and used here.
PartsTileBlock ==
    \A o \in patch \ (Fed \cup late) :
        /\ FollowEachOther(rendered[o])
        /\ \A i \in 1 .. turn - 1 :
               nodes[i] = o /\ Runs(o) => Last(rendered[o]).to = BlockSize

\* "The message is released once it is consumed in processDsp()"
\* (DspObject.cpp:190): when the graph has run, an object that keeps its
\* processFunction has no message left, those included that it was sent while
\* the graph ran.  It is said of graphs without a switch~, and inside none that
\* has one: what an object has received waits while its graph does not run.
ConsumedInBlock ==
    phase = "dsp" /\ turn > Len(nodes) =>
        \A o \in patch \cap (Handles \ Adapts) :
            Around[o] \cap Switchable = {} => messageQueue[o] = <<>>

\* "It is assumed that there aren't any" (DspObject.cpp:227): an object that
\* handles messages and does not look at its queue has nothing there, even
\* when its graph is switched off and on with messages waiting.
NoneIsOverlooked ==
    \A o \in patch \cap (Handles \ Adapts) :
        processFunction[o] # "message" => messageQueue[o] = <<>>

\* The messages of an audio object are all handled in the block in which they
\* are due, each between the parts of the block before and after it, however
\* switches and connections change (DspObject::processFunctionMessage); what is
\* excepted, graphs that are off and the times of direct messages among it, is
\* said with each part.
QueueIsServed == PartsTileBlock /\ ConsumedInBlock /\ NoneIsOverlooked

=============================================================================
