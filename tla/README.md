# ZenGarden in TLA+

ZenGarden is a library that runs Pure Data patches. A host creates a *context*,
builds or loads *graphs* of objects into it, attaches them, and calls
`zg_context_process` once per block of audio. The core of the library is what
happens around that call: messages are scheduled in time, delivered to objects
that schedule, cancel and send others, find receivers by name, and end in the
queues of audio objects, which render a block in parts between them. Meanwhile
other threads of the host attach, change and delete graphs.

This directory holds TLA+ specifications of that core, the TLC configurations
that check them on small instances, and theorems about them with proofs that
TLAPS checks. Paths such as `PdContext.cpp` are relative to `src/src/`.

- [1. The system](#1-the-system)
- [2. The modules](#2-the-modules)
- [3. The runs](#3-the-runs)
- [4. The proofs](#4-the-proofs)
- [5. What disagrees with the code's own words](#5-what-disagrees-with-the-codes-own-words)
- [6. What is not modelled](#6-what-is-not-modelled)
- [7. Plan](#7-plan)

## 1. The system

| Component | State | Operations | Hard behaviour | Correct if |
|---|---|---|---|---|
| **Ordered message queue** `OrderedMessageQueue` | a list of (message, object, outlet), sorted by timestamp | insert, remove, peek, pop | equal timestamps; timestamps rewritten while queued | sorted and stable, nothing lost or doubled |
| **Context** `PdContext` | the queue, the start of the block, the list of graphs, the lock, the registries below | `process`, `scheduleMessage`, `cancelMessage`, `scheduleExternalMessage`, attach and unattach | late and early messages, cascades that schedule into the block that is being processed, ownership of messages on the heap | every message due in a block is delivered in it, in order of time; no message leaks or is freed twice |
| **Timed message objects** `MessageDelay`, `MessageMetro`, `MessageLine`, `MessagePipe` | the pointers to their pending messages and what they are for | a handler per inlet, `sendMessage` when a scheduled message is due | being reset, stopped or retimed from inside of the message they send; flushes that nest | the pointers are exactly the object's messages in the queue |
| **Timed audio objects** `DspVariableLine`, `DspTablePlay`, `DspEnvelope`, `DspBang` | the same, and a position in a table or a ramp | the same, and rendering | what is scheduled has to agree with what has been rendered | a bang announces what has been played |
| **Send controller** `MessageSendController` | a table of names with the receivers of each, the names the host listens to | add and remove a receiver, send to a name, schedule for a name | messages wait in the queue with the *index* of a name while receivers come and go | a message reaches exactly the receivers of its name |
| **Registries** of `PdContext` | `send~`, `receive~`, `throw~`, `catch~`, `delwrite~`, `delread~`, tables and their readers | register and unregister each kind | any order of registration, several graphs, duplicates | readers read the source of their name as long as there is one, and never a deleted one |
| **Context lock** | a recursive mutex and the flag of each graph that says whether to take it | every call of `ZenGarden.h` | threads; nested calls; a graph that is attached or not changes in between | one thread at a time in a graph or the context |
| **Messages of audio objects** `DspObject` | a queue for each object, the function that runs it, the switch of each graph | `receiveMessage`, `processFunctionMessage`, connection updates, `processGraph` | several messages in one sample, messages sent while the graph runs, connections changed while messages wait | the parts of a block tile it, and every message is consumed in its block |
| **Connections and process order** `PdGraph`, `MessageObject` | inlet and outlet lists of both kinds, the node lists | add, remove, order | cycles, fan-out, changes while attached | sources run before sinks |
| **Buffer pool** `BufferPool` | available and reserved buffers with a count of readers | get, reserve, release | counts that must reach zero exactly once | no buffer is given out while it is read |
| **Audio objects** `Dsp...` | a setting, the sample before, a phase, a ramp, a window, a ring of samples | render a part of a block, take a message, adapt to connections | a message cuts the block anywhere; vectors of four or eight; wrap-around; a reader that runs before its writer | the same samples come out wherever the block is cut, and no block is lost or heard twice |
| **Patch file parser** `PdFileParser`, `DeclareList` | the position in the text, a stack of graphs, the declared directories | next line, next message, build a graph, find a file | nesting, continued lines, abstractions, names that belong to an instance, a directory declared in the middle | the text determines the graphs |
| **Object factory** `ObjectFactoryMap` | a table of labels | construct | | a label has its constructor |
| **Message objects** `Message...` | a number, an atom, a list, a table, what was received last | a handler per inlet; send from the outlets in order | `sendMessage` calls the next object before it returns, which may lead back into the one that sends; a message is not copied | idioms that lean on this order work as in Pd, and cycles end |
| **Messages** `PdMessage` | atoms, a timestamp, an address | set, get, resolve arguments, copy, free | texts that are numbers, buffers of limited length | what is written arrives |
| **Sound files** `MessageSoundfiler` | none | read a file into tables | tables that are too short, missing or resized | a table has the samples of the file |
| Others | | bindings for other languages, example hosts | they pass calls on | |

How they interact. `process()` takes the lock, pops messages from the queue up
to the end of the block and lets each one's object send it from an outlet. The
call is a *cascade*: a finite tree of direct calls of `receiveMessage`, in
which objects change their state, schedule and cancel messages of the context,
send to names through the send controller, and leave messages in the queues of
audio objects. Then it runs the graphs. Everything is a synchronous call on one
thread, but for the host's other threads, which the lock holds off. The host is
called back, under the lock, for messages to names it has registered. Before all this
the parser makes the graphs out of files: object after object through the
factory, connections by the place of objects in the file, abstractions through
a parser of their own; when it ends, the graphs are ordered and attached, and
the `loadbang`s of the patch send.

## 2. The modules

```
OrderedMessageQueue <-- PdContext <-- TimedObjects <-- TimedObjectsProofs
                            ^               ^ implements        :
                            |               |                   :
    MessageDelay, MessageMetro, MessageLine, <-- TimedPatch <-- TimedPatchProofs
    MessagePipe, DspTablePlay; DspVariableLine <-- DspVariableLineProofs
TimedObjectsProofs, TimedPatchProofs, DspVariableLineProofs --> PdContextProofs

MessageSendControllerProofs --> MessageSendController --implements--> NamedReceivers
ContextRegistryProofs --> ContextRegistry
GraphProofs --> ContextLock, Connections      Connections, BufferPool <-- PdGraph

PdMessage <-- MessageNumbers <-- MessageControls <-- ObjectFactoryMap
    ObjectFactoryMap <-- PdPatch <-- PdFileParser, MessageObject <-- LoadedPatch
DspArithmetic <-- DspBuffers, DspShapes
    DspObject, DspBuffers, DspShapes <-- SignalPatch <-- SignalPatchProofs
```

An arrow says that a module extends the one it points to. There are four
groups: scheduling, with the send controller (the first drawing); what a context
keeps of its graphs; a patch from its files to its messages (`LoadedPatch`); and
a patch of audio objects (`SignalPatch`).

**OrderedMessageQueue** has the queue's operations as pure operators on a
sequence. `InsertMessage` is the scan of `insertMessage` for the first strictly
later entry; `RemoveMessage` removes the first entry that matches outlet and
object and message, `Pop` the first.

**PdContext** is the context's part in scheduling. `ctx` holds `queue`, `live`
(the addresses on the heap) and `timestamp` (of each address). `Fresh` lets the
allocator return any address that is not live, so that an address is reused and
a pointer that is kept too long may name another message. `Dispatch` is one turn
of the loop of `process()` up to `sendMessage`: the head is popped, a late one
is moved to the start of the block (`DeliveryTime`), and it is in `inFlight`
until `EndCascade` frees it. `ScheduleExternal` and `BeginCascade` are what the
host does between blocks: schedule by name, and send to an object directly.
Timestamps are integers of ticks, several to a block.

**TimedObjects** is the abstract specification of an object that schedules:
during a cascade it may schedule a message (replacing one or not), cancel one
that it holds, and flush: send a queued message with the time of the cascade and
then cancel it. When its message is delivered it lets go of the pointer before
or after it sends it on, with or without scheduling the next one first. What
the objects do in a cascade is left free, and so is the patch that connects
them. `held` are the pointers, `retimed` the messages that a flush has moved.

**MessageDelay, MessageMetro, MessageLine, MessagePipe, DspTablePlay** have the
real handlers, one action for each message an object takes, and what the object
does in `sendMessage` when a message of its own is delivered. `sendMessage` of a
base class, which calls other objects, is the point where an action ends: what
is done before it and after it are different steps, with the rest of the patch
between them. A flush of a pipe is a loop on a stack (`loops`), as the objects
it sends to may flush other pipes. A `tabplay~` plays one of several `Tables`, or
none; a message may set it to another between two parts of a block (`SetTable`),
a table may be resized (`ResizeBuffer`), and `PlayOn` looks at the table's end
anew for each part.

**TimedPatch** composes them on one context. A patch is a set of objects; in a
cascade any handler of any of them may be called at any point, as any connection
could do. `Send` is one turn of the loop of `process()`, by the kind of the
entry's object. `IsTimed` is the instance of `TimedObjects` in which `held` are
the pointers that each object keeps and `retimed` is what the running flushes
have moved.

**DspVariableLine** (`vline~`) keeps a list of segments that has to be in the
same order as the queue, because it takes the front of the list for the message
that is delivered. It may cancel several messages in one handler, so that a step
of it is several of `TimedObjects`; what holds of these is checked, and proved,
of it on its own.

**MessageSendController** is the table of names. Scheduled messages hold an
index in it. A call of `sendMessage` copies the set of receivers and iterates
over it; `sends` is the stack of such calls, as receivers send on to names,
their own included. **NamedReceivers** is what it promises: the same without a
table and without indices, and with nothing scheduled for a name that has no
receiver. `Lapsed` are the names that the host schedules for all the same when
their last receiver has gone, which the code then queues. The order of delivery is PdContext's matter: here any
queued message may be the next.

**ContextRegistry** has the registries and the calls of `PdGraph` that change
them (`attachGraph`, `unattachGraph`, `addObject`, `removeObject`). An object's
buffers are its inputs and outputs; a reader has a `source`. What an attached or
unattached graph does to each of its objects in turn is a recursive function
over its list (`registerAll`, `unregisterAll`). `HaveCase` are the kinds that
`unregisterObject` does anything about. Objects of the others may be removed too
(`Removable`) and stay listed: `NoneDangling` says that nothing removed does,
`RemovedAreForgotten` that nothing removed does that has a case.

**ContextLock** has threads with stacks of calls. A call is in one of three
places: before it has looked at its graph's flag, in its body, and after. The
lock is recursive with an owner and a count, and the flag is looked at again on
the way out, as `lockContextIfAttached` and `unlockContextIfAttached` do. Calls
about a graph differ in what they do to the context: `edit` touches what the
context keeps of an attached graph, `control` (`removeObject`, direct messages)
and `create` (making objects and graphs) its queue, registries and buffers
whether the graph is attached or not. `UsesContext` says which calls do, and
`Unguarded` which of them take no lock.

**DspObject** has the queues of audio objects and the run of the graph. An
object's `processFunction` is the loop over messages or not; a part of a block
is an interval of samples, and the index of a message is rounded up. A message
of the patch comes in the order of time and in its block (`Receive`); one that
the host sends directly keeps the time that it was given (`SendDirect`), and may
be earlier than those before, or of another block. `late` are the objects that
this has happened to, until their queues are empty.

**Connections** has what connects the objects of a graph and of the graphs in
it, kept at both ends as in the code, and the edits a host makes: a connection is
added to the lists of an inlet and an outlet, and removed from both; an object is
removed with all it is connected to, and a graph with all that is in it. The
inlets and outlets of a graph keep their connections at the objects in it, with
the quirks of `addConnection`: nobody checks that the types agree, so an inlet
that has no list for a connection refuses it while its outlet keeps it (`Takes`),
and a message outlet of a graph keeps it at the outlet with the number of the
inlet it leads to (`NewOutletOf`).

**PdGraph** extends it with the order in which the audio objects run. Each of its
edits is one of `Connections`, with what that leaves of the order, so that what
holds of `Connecting` holds in it. One action, `computeDeepLocalDspProcessOrder`, is the traversal
from the leaves back to the sources; it is written with recursive operators
(`Visit`, `VisitDsp`, `VisitGraph`, ...) that take what the calls change as a
record: the flags, the lists, the buffers at the inlets and outlets, and the
pool. `Heard` runs a block of the result, with a buffer holding the names of the
outlets that are added up in it. A patch is a set of objects of kinds (audio,
message, graph, inlets and outlets); audio connections follow a given depth, so
that there is no loop of audio, and messages may lead back.

**BufferPool** has the operations of the pool: a stack of free buffers, and the
number of readers of each of the others.

**PdMessage** has messages as lists of atoms, with the resolution of `$1` and
`$0` in their words. **MessageNumbers, MessageControls** have the
objects without a clock: those that compute a number, those that keep, choose
and route, and those that use what a context shares by name (values, tables,
sound files). `NewMessageX` is the constructor of a class, from its arguments, and
`MessageX` is its `processMessage`: what the state becomes, and what is sent
from which outlet in which order. Some objects read their state or their
message again for each message they send, when the cascade may have changed it;
what these send is then an expression (`LateReaders`). **ObjectFactoryMap** maps
the labels to both.

**PdPatch** has the graphs of a patch as nodes and connections, `addObject`,
`addConnection` with the quirks of subgraphs, the declared directories and the
lookup of files. `Files` and `Sounds` are constants: what each path holds.
**PdFileParser** reads a file message by message, one action for each kind of
message (`Canvas`, `Obj`, `Abstraction`, `Msg`, `Connect`, `Restore`, `Array`,
`Declare`, ...), with a stack of parsers for abstractions. **MessageObject** is
the cascade: `receiveMessage`, the distribution of a list to the inlets,
`processMessage` and `sendMessage` are calls on a `stack`, of which one is made
or returns in a step, so that an object is entered again while it still sends.
**LoadedPatch** is both, one after the other, with the messages of `loadbang`
between; a host then sends what it likes to receivers by name and hears what is
sent to the names it has registered.

**DspArithmetic, DspBuffers, DspShapes**
have the audio objects as records with a constructor (`NewDspX`), the handler of
their messages (`TakesX`) and the samples they render from `from` to `to`
(`DspX`). `DspArithmetic` begins with the loops of `ArrayArithmetic.h` as they
are built without vectors, for SSE and for NEON. A sample is an integer, `Unit` of which are 1.0. **SignalPatch** puts
them into the order of `DspObject`: what that module says an object renders, and
in which parts, is rendered here, between the messages that it says are
processed. `signal` holds the records; `seen` is the history that properties
speak of: the setting in force at each sample, and the block before.
`ConstructorAssumption` holds the constants of `DspObject` (which objects take
messages, which adapt) to what the constructors do, and TLC evaluates it.

Each `MC...` module gives the constants of its module for TLC; `DspVariableLine`
needs none.

Some operators stand next to a second form whose comment begins with
"Mistaken:". That is the operator with a plausible bug; no specification uses
it. Put in the place of the operator after it, it makes the property it was
written for fail, which shows that the property looks at that line of the code.
`PROJECT.json` lists the pairs.

## 3. The runs

Every run is `tlc -config <cfg> <module>`; `PROJECT.json` has them all. The runs
in this table pass: TLC explores the whole state space and finds no error.

| Configuration | Instance | Shows |
|---|---|---|
| `TimedObjects.cfg` | two trackers and the send controller, 3 messages, blocks of 2 ticks, delays 0, 1, 3, two blocks, external messages late (-1), early and on time; under fairness | `HeapIsQueuePlusInFlight`, `HeldIsQueued`: no leak, no double free; `QueueOrdered`; `DeliveredInOrder`, `DispatchedFirst`, `NothingDueIsLeft`: delivery in the order of time and complete; `LoopEnds`: the loop ends, unless objects schedule without a delay for ever |
| `TimedPatch.cfg` | a delay with a metro, a line, a delay with a pipe, two pipes, a `tabplay~`; 4 messages, two blocks of 2 ticks; delays and intervals of 0 and 3, ramps of 1 and 3 ticks with grains of 1 and 2, starts and durations inside of and outside of two tables of 2 and 4 samples, which are resized while they play and which the player is set to, or to none | `DueAfterLastBang`: the pending bang is due the present delay after the last bang, whatever stopped, set or banged it since; `OneTickAhead`: one tick is ahead while a metro runs and none when it does not, also when it is stopped or retimed from its own tick; `RampEndsAtTarget`; `FirstInFirstOut`, around flushes that nest; `BangWhenPlayed`, `ReadsInsideTable`; `IsTimed` |
| `DspVariableLine.cfg` | two `vline~`, delays 0, 1, 3, three requests | `ListIsItsCourse`: list and queue in the same order, nothing in them that was replaced |
| `ContextLock.cfg` | an audio thread and two control threads with a graph each, calls nested 2 deep, all calls of the host, under fairness | `Exclusive`, `LockCountsCalls`, `LockIsReleased` |
| `ContextRegistry.cfg` | two graphs, one of which is attached twice, with three `send~`, two of one name, and three `receive~`, or with a table, a reader and two receivers of messages; two graphs with a `catch~`, two `throw~`, a delay line and its reader; objects are removed of the kinds that `unregisterObject` has a case for | `ReadersFindSource`, `RemovedAreForgotten`, `BusesReach` |
| `MessageSendController.cfg` | two receivers of one name, one of another, the system; 2 messages queued, none for a name that has lost its receivers (`Lapsed`), sends 2 deep | `NamesOnce`, `IndexIsConstant`, `ReachesReceiversOfName` |
| `PdGraph.cfg` | two oscillators, a multiplier and a filter; a graph with a filter beside a direct connection; a graph that feeds another; an envelope that may control a graph with inlets of both types and an outlet for messages; 4 connections, one of which an inlet may refuse, 4 edits, 2 computations of the order, of the root or of a graph alone | `EndsAgree`: both ends of a connection know of it; `RunsWhatIsThere`: once, and nothing deleted; `ReadsItsSources`: in the very block, through graphs and sums, although buffers are reused at once; `BuffersComeBack` |
| `LoadedPatch.cfg` | nineteen patches, read from their files, with abstractions, subpatches, arrays, sound files, message boxes and `loadbang`s; two to five messages of the host, in any order, of the few that each patch is given | `CyclesEnd`; `StateIsKept`: a counter counts on, a loop counts its rounds, a gate is open when it was opened, a timer measures from its last start; `ArithmeticAgrees`; `MessagesArrive`; `PatchIsItsFile`: names with `$0`, arguments and inlets are those of one instance; `TablesKeep` |
| `SignalPatch.cfg` | twenty-eight patches of one to four audio objects; blocks of 16 samples of 2 ticks, up to four blocks; two messages at any of five times in a block, two of them between two samples, of which one is rounded up to the end of the block; direct messages of any order, of the block (at 0 and 9 ticks), before it (-3) and past it (40), to three objects; each build that differs; connections and `switch~` that change between the blocks | `QueueIsServed`: parts tile the block, every message that comes in order is handled in its block; `ReadsAtItsPlace`: delays and tables; `CoursesAreKept`: ramps, phases, filters and windows come out the same wherever they are cut; `InletsAreHeard`: settings, second inlets and snapshots at their sample; `BusesCarry`: `throw~`, `send~` and the channels of the host |

Properties are conjunctions of definitions with names and comments of their
own where several say the same of different objects: `CoursesAreKept`, say, is
`LineKeepsItsCourse`, `OscKeepsItsPhase` and four more. `PROJECT.json` gives a
mistaken operator for each of them.

Where patches of different kinds are in one run, the patch is chosen in the
initial state and stays: the run is the sum of one run for each.

**Bounds.** Each bound is a constant in a guard. Messages: three addresses are
one in delivery, one queued before and one after it, and addresses are reused
at once, which is where a stale pointer would do harm; in a
patch of two objects a metro needs a fourth. Blocks have two ticks, so that a message can be early,
exactly at an end, or late in each; two blocks are enough for a message that
crosses an end, as nothing but the difference to the start of the block is ever
looked at. Delays of 0, 1 and 3 ticks fall at the time of the message itself,
within the block or at its end, and beyond the next. A lock needs one call
inside of another to be given back too early, and another thread to see it.
Two graphs and two objects of a kind show every order of registration between
them. Sixteen samples are two vectors of eight and four of four, with cuts
before, at and after their ends; a delay line of a little more than two blocks wraps
in the third, and a window of 40 samples is no whole number of blocks. Two ticks to
a sample make rounding matter. Numbers are counted in steps of which `Unit` are 1 (2 for samples, 20 for
messages): what the objects compute from the inputs here is a whole number of
steps, or rounded as far as the property of it allows. Five messages are what a table needs that is written,
resized, written and read; two are what one setting needs that replaces
another. `MaxDepth` of 32 calls is never reached, which is `CyclesEnd`. Four connections are a sum of two sources beside a second
inlet, a source with a reader outside of a graph and one inside, or messages that
lead back; the second computation finds what the first and the edits between
have left. A refused connection needs another at the same outlet to disturb. Symmetry is
used over messages and tables in `TimedPatch.cfg` only, which checks no
liveness.

**Fairness.** Only two runs need any. `TimedObjects!Fairness`: `process()` runs
on a thread that nothing stops, so its loop continues, and a call into the patch
returns, as it is a finite tree of calls: `[]<>(cascade = "none")`, since in the
model a cascade may go on to schedule and cancel at every point.
Nothing makes the host call `process()`. `ContextLock!Fairness`: a thread goes
on to the end of a call, and a thread that waits for a mutex is *not* promised
that it gets it, since pthread mutexes are not fair; so the run shows only that
a thread that has the lock gives it back. Deadlock is checked where a system
could wait (locks, the queue); in the registries, in `PdGraph`, `LoadedPatch` and
`SignalPatch` the host may run out of calls to make, and their configurations
say so.

Three more configurations check one property each, which a comment or the
documentation states and the code does not have; section 5 lists them.

## 4. The proofs

All theorems hold for every value of the constants that the named assumptions
allow. They are checked with TLAPS by `tlapm <module>.tla`.

**PdContextProofs** proves what the operators of the queue do to a
queue in *any* order, because a flush rewrites timestamps in place:
`InsertMessageInserts` (the scan always finds a place, and puts one entry there
and leaves the others in order), `RemoveMessageRemoves`, `PopRemoves`. From
these follows what `scheduleMessage`, `cancelMessage` and the loop of
`process()` leave of the queue and the heap (`Sound`, `KeptBut`,
`OrderedExcept`), which the three modules about timed objects rest on.
`WithoutRemoves` is what `list::remove` does; `UpTo` is the induction it needs.
`InsertAtElements` and `RemoveAtElements` say what the library's operators do
element by element.

**TimedObjectsProofs**: `TypeCorrect`, `HeapCorrect`, `HeldCorrect`. The
inductive invariant is `Owned`: the state is well typed; the entries of the queue
point to distinct live messages, and the heap is these and the one in flight; no
message is in flight outside of a cascade; and the pointers of each tracker are
its entries. `HeapIsQueuePlusInFlight` alone is not inductive: `cancelMessage`
frees a message whether or not it is in the queue, so that the heap stays
correct only because trackers never hold a pointer that is not queued, and
trackers hold the right ones only because no two entries share a message.

The order of delivery, in the same module: `OrderCorrect`, `DeliveryCorrect`,
`DispatchCorrect`, `LoopComplete`, under
the assumption `Delays \subseteq Nat` (no object schedules into the past; with a
negative delay the theorems are false). The invariant `InTime` is `Owned` with
the order of the queue, the times of the flushed messages and the two delivery
properties: the order holds only up to `retimed` messages, which is enough as
these carry the time of the cascade and are gone when it returns; that the head
of a sorted queue is due no earlier than the delivered message then gives the
order of delivery, and that the head is not due gives that nothing is.

**TimedPatchProofs** says of the library's own objects what the modules before
say of any. `Implements` is `Spec => IsTimed`: a patch of delays, metros, lines,
pipes and players is a patch of `TimedObjects`, step by step. The proof cites the
lemmas of `TimedObjectsProofs` with `Held` for the pointers (the instance `P`).
The inductive invariant `Base` says that the state is well typed and `P!Owned`;
that each queued message has the outlet that its object cancels it with, since
`cancelMessage` compares outlets too; that the loops of nested flushes point
into the list of their pipe, one loop to a pipe, all but the innermost waiting
for what they have sent (`LoopsFine`); that a pipe lists no pointer twice, but
for those a flush has cancelled, which stay in the list until it ends and may be
allocated again meanwhile (`ListsApart`); and when a player sends and consumes
(`PlayersFine`). None of it is inductive alone: a flush cancels
what its loop points to, and the loop is right only as long as nothing else
takes a pointer out of a list in which one is.

With `Base`, each object is proved to do what it is for: `BangIsDue` (invariant
`DelayFine`), `OneTickIsAhead` (`MetroFine`), `RampEnds` (`LineFine`),
`PipesKeepOrder` (`PipeInOrder`), `BangWhenItIsPlayed` (`PlayersOnTime`) and
`PlayersReadTheTable`. Each invariant speaks of one object, and a lemma per
object shows that the others' steps leave it alone: they schedule and cancel
entries of their own, and what they let the allocator reuse was not this
object's. Two theorems have a hypothesis, and TLC's constants satisfy both.
`RampEnds` needs `Grains \subseteq Nat`: the code takes any grain, and with one
below zero the next value lies behind the last. `PipesKeepOrder` needs
`Delays \subseteq Nat`: with negative delays a flush may leave the queue out of
order, where `insertMessage` finds another place. `PatchAssumption` says that
each object is of one kind, which the constructors see to.

**DspVariableLineProofs**: `CourseCorrect`, of any number of `vline~` in one
context, whatever their segments and delays are: "this message should be at the
front of the messageList" (`DspVariableLine.cpp:127`) is true. The invariant
`OnCourse` says of each `vline~` that its list has exactly its entries of the
queue, in the order of the queue (`IsCourse`); that each segment is for a
request of its own, and none for the one that is performed (`IsNumbered`); and
that none is later than the last one asked for (`IsUntil`). What is checked is
not inductive alone. A new segment comes behind those that stay in the list only
because the whole queue is sorted and they are not later; and that a segment is
not performed and pending at a time has to be said of requests, not of
addresses, which are used again. `clearAllMessagesFrom` cancels message after
message: `IsCleared` is what holds after each, and is extended over the
recursive function `ClearFrom` by `UpTo`.

**MessageSendControllerProofs**: `TypeCorrect` (no run checks this one), `NamesCorrect`, `IndexCorrect`,
and `Implements`: `Spec => Directory!Spec`, the controller implements
`NamedReceivers`, if `Lapsed = {}`: the code queues a message for a name that has
lost its receivers, and delivers it to one that comes later (section 5). The invariant is `TypeOK /\ NamesOnce`. It says that a queued
index is always in the table, and that a name has one entry; from the second
follows that looking up a name finds all of its receivers (`EntryNames`), from
`IndexIsConstant` that the names of queued indices do not change when the table
does (`QueuedStays`). Each action of the controller then is an action of the
directory (`JoinStep`, `LeaveStep`, `ScheduleStep`, `SendNowStep`,
`DeliverStep`), and the others change none of the mapped variables.

**ContextRegistryProofs**: `DanglingCorrect`, `BusesCorrect` and
`ReadersCorrect`, for any patch, spread over any graphs. Each is the consequence of
an inductive invariant of its own, next to the types (`Typed`). `Kept`: what is
listed, received, thrown or read from is of the right kind, and not removed if
its kind has a case in `unregisterObject`, and
a reader that has a source is still listed, so that it is told when the source
leaves. `Reached`: a catch~ that is registered has exactly the attached throw~s
of its name, each once, and one that was refused has none; this needs that there
is one registered catch~ to a name, and that all throw~s are listed, since the next
catch~ is connected from that list. `Linked`: an attached reader has an attached
source exactly if there is one, which needs that where there is any, one is
registered. Attaching a graph registers a list of objects: each invariant is
shown to hold after every object of the list, of the objects registered so far
(`RegisteredInTurn`, `UpTo`), and so after the last.

`DanglingCorrect` is said of any host. The other two theorems have hypotheses, on
what the host does, that the code forces and `MCContextRegistry` asserts of the
patches of the passing run. `LeaversHaveCase`: what is removed, or leaves with its
graph, is of a kind that `unregisterObject` has a case for; a removed throw~,
catch~, delwrite~, delread~ or table stays listed (section 5).
`SendsThatLeaveAreAlone`: a send~ that
leaves is the only one of its name, as a duplicate is refused when it comes
and does not take the place of the one that leaves. Each of the two is false
without its own.

**GraphProofs**: `ExclusionCorrect` and `LockCorrect`, for any number of
threads and graphs. The invariant `Counted` adds to `LockCountsCalls` what it
rests on: a call that is not the innermost of its thread is in its body, a lock
that is free has not been taken, and the thread that owns it has taken it as
often as it is in calls that took it (`Locking`). Exclusion alone is not
inductive: a lock given back once too often would be free with a thread inside,
and only the count says that this does not happen. The graph's flag can change
between a call's look on the way in and the one on the way out, but only by a
thread that has the lock.

`ConnectionsCorrect`, in the same module: `EndsAgree`, for any objects, graphs and
numbers of connections, whatever types are connected. It is stated of `Connecting`,
as `PdGraph` is made of recursive operators; TLC checks it in `PdGraph`. The
property says nothing of the two kinds of connections that `addConnection` makes at
one end only (section 5): those that an inlet refuses (`Takes`), and those of a
graph with several outlets one of which sends messages (`OneMessageOutlet`). Both
are made in the model, beside the ones whose ends agree. The invariant `Connected` has
two parts: `Lists`, that every inlet and outlet has its list, and `Agrees`, which
is `EndsAgree` of all objects, removed ones included. What needs the work is that
an edit at one inlet leaves the others alone. Two inlets keep their connections at
one place only if one is a graph's and the other is of what lets into that graph
(`InletsKeptTogether`), and these are never in one graph, so that no outlet can
lead to both. What a removal leaves of a list is `Without`, a recursive function;
that it keeps all other elements, as often as they were there, is proved by least
counterexample.

**SignalPatchProofs**: `ServiceCorrect`, the parts of a block tile it and no
message outlives its turn, for any patch, block length and number of messages, and
any times of direct messages. The tiling is said of objects whose messages come in
order and in their block, which leaves out those in `late`; their queues are
emptied all the same.
It assumes `FeedsOnward`: an object that sends while the graph runs sends to one
that has yet to run, which the order of `PdGraph` gives to patches without
loops. The invariant `ServedSoFar` has four parts. `Arrived`: each queue is in the
order of time, but for those of `late` objects. `Tiled`: only objects that had their turn have rendered, and
the one in its loop has not rendered past the messages it still has, so that the
next part begins where the last one ended and does not run backwards. `Consumed`:
what had its turn has nothing left, which needs that objects with waiting
messages look for them, across switches and connections. `DspTyped` is the
types. What the objects compute plays no part in this theorem.

`InletsCorrect` (`InletsAreHeard`) is about what they compute: a number takes
effect at the sample of its time, in every build that computes the part as the
plain one does; with audio at both inlets the block is made of the two; and a
`snapshot~` that sends while the graph runs answers with the sample of the time it
was asked at. Beside `FeedsOnward` it assumes `HearsBefore`, that an object runs
after those it hears, which the order of `PdGraph` again gives to patches without
loops, and `SnapshotsHearTheHost`: a `snapshot~` that sends hears the host's
input, in a graph without a `switch~`, and nothing else sends numbers to the
left inlet it feeds, and the host's direct messages to it are of the time the block
starts at. The property states the answer as a sample of the host's
input, and in a graph that is switched off the question waits for a later block.
`HearsBefore` is needed:
an object in a loop hears a block that is written after it has read it. TLC
evaluates the three on the patches of the run. The invariant is the one above
and four more parts.
`HeardInvariant`: an object's record has the number that it was given last
(`NumbersKnown`), nothing comes to an inlet that there is not (`LeftInletOnly`),
and each part rendered so far is of the inlets and of the number in force in it
(`HeardSoFar`). The last stays true because the next part begins where this one
ended, and what is at the inlets was computed before and does not change again.
`SnapshotInvariant`: blocks start at samples, what waits at an object that is told in
time is of this block (`ServedOnTime`), and the answers of a `snapshot~` so far are
samples of their times. `RanSoFar`: what had its turn in a graph that is on has rendered
something, without which a whole block of nothing would be right.

`ReadsCorrect` (`ReadsAtItsPlace`) is about what they read: a `delread~` and a
`vd~` hear the line as it was written their delay ago, at every sample and
between two, and what a `tabread~` and a `tabread4~` give is in the table at the
place they are given, or its first or last sample outside. It holds for lines
and tables of any length, and has two more hypotheses, which TLC
evaluates with the others. `PlacesAreGiven`: the places come from the host, or
from a `sig~` to which nothing sends while the graph runs. `DelayLinesHearTheHost`:
a patch that reads a delay line has one, of the host's first channel, in a graph
without a `switch~` and with no `dac~` that would change that channel, and no
delay is negative. The property states what was heard as samples of the host's
input, and a `delwrite~` that is passed over loses a block of them. Beside the
parts above the invariant has `ReadInvariant`, which TLC checked on the run's
patches before it was proved:

- `LineHolds`: the buffer has the samples up to this block, or through it when
  the `delwrite~` had its turn; its head is a multiple of the block and wraps,
  and the sample after its end repeats its first, which the interpolation of a
  `vd~` reads there.
- `ReadSoFar`: each sample that was rendered so far was read at its place, a
  delay no longer than the line has room for. Each part that is added reads from a
  line that holds the input up to this block or through it, as the reader comes
  before the `delwrite~` or after it.
- `ReadersKnown`, `NumbersWait`, `OthersAreOther`, `BlocksAtSamples`: readers
  have the arguments and the numbers they were given, a number that comes from
  the host waits for its sample, what handles no messages never looks for them,
  and blocks start at samples.

`CoursesCorrect` (`CoursesAreKept`) is about what goes on from block to block: the
ramps of a `line~` and a `vline~`, the phases of a `phasor~` and an `osc~`, the
outputs of the filters and the window of an `env~`, for any block length that is a
multiple of 8, any number of blocks and of messages. Beside `FeedsOnward` and
`HearsBefore` it assumes `CoursesGoOn`, which TLC evaluates with them: objects
with a course are in graphs that stay on (one that is switched off stops and is
not on its course), filters and `env~`s hear the host's first channel, the inlets
of oscillators have numbers, from the host or a `sig~` to which nothing sends
while the graph runs, a `vline~` is given no negative time, an `env~` has an
argument, and direct messages are of the time the block starts at, as one that is
late or of another block has a part rendered twice or not at all. The property states courses in samples of the host's input and in the
settings that were in force at each sample, and says nothing of a patch once a
block was left out (`lost`). Beside the parts of `InletsCorrect` the
invariant has `CourseInvariant`, which TLC checked on the run's patches first:

- `CoursesSoFar`: what there is to say of an object's course after the part it
  has rendered so far (`OnCourseOf`), of its record as well as of its buffer. On
  a ramp as many samples are left as of its course, and the record stands where
  the course is (`IsOnRamp`); the index of an oscillator is a step on from its
  last sample, as long as the parts began at multiples of its vectors; the four
  samples that a filter keeps are the last of its input and output; and what an
  `env~` holds up to its count is of this window, the rest of the one before.
- `ToldFromOutside`, `ServedOnTime`, `WholeBlocks`: what waits was sent by the
  host, none of it since an earlier block, and what handles no messages computes
  whole blocks.

Every kind has four lemmas, of a new object, of a part, of a message and of the
next block, and the theorem puts them together for any kind (`CoursePart`,
`CourseTold`, `CourseNextBlock`, `NewCourse`). The filters and a `phasor~` with
audio are recursive functions of the sample. That these are defined for a block
of any length is proved by least counterexample, which `WellFoundedInduction` has
for relations and needs no operator for.

Assumptions on constants are `ContextAssumption`, `TrackersAssumption`, the one of
each timed object (`DelayAssumption` and so on), `PatchAssumption`,
`VLineAssumption`, `ControllerAssumption`, `RegistryAssumption`,
`LockAssumption`, `ConnectionAssumption`, `DspAssumption` and `SignalAssumption`; TLC evaluates them in the runs.

Only model-checked: the liveness properties (`LoopEnds`, `LockIsReleased`), which
are out of reach of the prover; what audio objects carry on buses (`BusesCarry`,
whose buses are sums over sets); and the process order (`RunsWhatIsThere`,
`ReadsItsSources`, `BuffersComeBack`) and patches from files (the properties of
`LoadedPatch` and `MCLoadedPatch`), whose definitions are recursive operators.

## 5. What disagrees with the code's own words

Three runs end in a violation of a property that the repository states.

| Configuration | The repository says | TLC finds |
|---|---|---|
| `ContextLockDelete.cfg`, `DeletedIsRemoved` | "If attached, the graph is automatically removed from its context." (`ZenGarden.h:129`) | `zg_graph_delete` leaves the graph in the list that `process()` runs. |
| `ContextRegistryRemoved.cfg`, `NoneDangling` | "remove the object from any special lists (dsp/send/receive, etc.)" (`PdGraph.cpp:172`) | `unregisterObject` (`PdGraph.cpp:282`) has no case for `throw~`, `catch~`, `delwrite~`, `delread~` and tables: a removed one stays in the context's list. |
| `SignalPatchUnaligned.cfg`, `UnalignedIsServed` | "In all SSE cases, input vectors can be (16-byte) unaligned" (`ArrayArithmetic.h:40`) | A number arrives at a sample that is no multiple of four: the single samples before the first vector are made from the output, and the vectors after them are loaded from where the input begins (`ArrayArithmetic.h:116`). |

More was met while the modules were written. Where a model has it, as an ordinary
step, the comment of the property concerned names the case that it leaves out, and
the list below says which property that is. What no model has, because it ends the
program or is left out for size, is marked *not modelled*.

- An unattached graph is still run, and listed twice once it is attached again
  (`PdContext.cpp:207` is not called, and its `erase` is commented out), although
  "a graph can be unattached from a context, leaving it in memory yet inert"
  (`src/README.md:37`). `zg_graph_unattach` and `zg_graph_delete` take no lock.
- Edits of an unattached graph use the context without the lock: removing an object
  unregisters it (`PdGraph.cpp:173`), making a `loadbang` schedules
  (`MessageLoadbang.cpp:33`), a direct message may schedule (`ZenGarden.cpp:116`),
  and ordering takes buffers from the context's pool. `Exclusive` excepts these
  calls (`Unguarded`).
- Removing a `send~` that was refused as a duplicate silences the `receive~`s of
  the one that is registered (`PdContext.cpp:299`).
- A `receive~` that is registered after its `send~` reads the send's input, not
  the "defensive copy" (`DspSend.cpp:56`) that one registered before reads.
- A message is scheduled for a name whose last receiver has gone, and reaches
  one that is added later, although with no receiver "this funtion does nothing"
  (`ZenGarden.h:188`). `ReachesReceiversOfName` excludes it by `Lapsed`.
- A connection that changes while a message waits makes the object stop looking
  at its queue (`DspAdd.cpp:40`); the message is consumed in a later block, at a
  negative index.
- An object in a subgraph that is on, inside a graph that is off, keeps every
  message it receives (`DspObject.cpp:188`); so does one with a
  `processFunction` of its own (`DspObject.cpp:195`).
- With a grain that does not divide the duration, `line` passes its target by
  arithmetic alone, not "due to floating-point precision error"
  (`MessageLine.cpp:134`); the clipping hides it from the outlet.
- A message that the host sends directly to an audio object keeps its timestamp
  (`ZenGarden.cpp:116`), although "The timestamp of this message is ignored"
  (`ZenGarden.h:259`). One that is earlier than another has a part rendered again,
  and one of another block a part before the start of the buffers or past their
  end. `DspObject` has these times, and what they do to the parts (`late`);
  `PartsTileBlock` excludes them. `SignalPatch` stops at a part outside of the
  buffers (`Dies`).
- `addConnection` does not order the graph any more (`PdGraph.cpp:446` is
  commented out), although "addConnection does force a reevaluation"
  (`PdGraph.cpp:464`). Only the parser does, when a file has been read: audio
  objects that a host adds and connects itself are never run.
- An object is marked as ordered before its sources are. In a patch where `env~`
  controls the oscillator it hears, `env~` is ordered on the way to the
  oscillator, which has no buffer yet: it runs first and reads `NULL`.
  `ReadsItsSources` leaves out graphs with loops for this.
- A connection from a message outlet of a subgraph is kept at the outlet with
  the number of the *inlet* it leads to (`PdGraph.cpp:550`), which `EndsAgree` excludes, and `at()` throws if
  there is none (not modelled).
- A subgraph that has an outlet is never a leaf (`PdGraph.cpp:645` is true of any
  outlet): if nothing is connected to it, what is in it does not run, a `dac~`
  included. What leads to it then keeps its buffers.
- A subgraph that is emptied before it is removed does not "process audio", stays
  in the list of the graph around it and is run when it is deleted
  (`PdGraph.cpp:168`).
- The buffer of an outlet that leads nowhere is never released, and neither is
  one that an `inlet~` hands to an `outlet~`: each computation of the order takes
  further ones (`BuffersComeBack` says which come back).
- A removed connection is still heard until the order is computed again, "as lost
  connections do not create any new constraints" (`PdGraph.cpp:463`).
- A connection of audio to an inlet for messages, or of messages to an `inlet~`, is
  recorded at its outlet only (`PdGraph.cpp:428`), although with an invalid
  connection "this function does nothing" (`ZenGarden.h:150`). `Connections` makes
  it and `EndsAgree` excludes it. At an audio object without a list for it such a
  connection is written past the end of a vector (not modelled).
- `removeObject` asks for the audio connections of every inlet, also of those past
  the end of the list: a `lop~` has two inlets for messages and one for audio
  (`PdGraph.cpp:143`, `DspObject.cpp:87`), and so for the outlets of a `tabplay~`.
  What is then read is not modelled: `removeObject` leaves such objects out
  (`ListsHaveInlets`).
- A `tabplay~` that has no table and is told to play ends the program
  (`DspTablePlay.cpp:101`; not modelled).
- `clearAllMessagesAtOrAfter` (`DspVariableLine.h:50`) clears strictly later
  segments only.
- `tabplay~` at its end erases the whole block, also what it has rendered of it
  (`DspTablePlay.cpp:132`), although it is to "fill in the remainder with zero"
  (`DspTablePlay.cpp:147`).

Of message objects and the parser:

- `list prepend`, `list split`, `spigot` and `stripnote` let `MessageObject`
  distribute a list to their inlets, since they do not override
  `shouldDistributeMessageToInlets`; `list` without arguments takes a bang as its
  own. `symbol` and `pack` send a buffer of their own, which a cascade that leads
  back rewrites. A `bang` makes `unpack` send the atom before.
- `wrap` with an empty range never returns, `random 0` gives 2^32 - 1 as the
  bound, `until` that has only got a symbol reads an uninitialised number, and a
  modulus between -1 and 1 divides by zero. `route 1` sends an empty message for
  "1". `timer`'s constructor misspells its parameter and hands its own member
  `graph`, which is not set yet, to its base class (`MessageTimer.cpp:29`).
- A message box sends floats to a remote receiver as symbols.
- A graph is numbered before its arguments: the id comes first, once more for a
  subpatch, so that `$1` in a subpatch is the id (`PdFileParser.cpp:150`).
- A blank line ends a file, and a last line without an end is not read. After an
  array the parser takes one message too many (`PdFileParser.cpp:302`).
- An abstraction that is not found leaves an empty graph, and a directory that an
  abstraction declares relative to itself reads the front of an empty list.
- `soundfiler` reads past a message without a table's name, writes past a shorter
  table without `-resize`, and loops for ever over a number among its flags.
- `zg_context_send_messageV` ignores its timestamp, and
  `zg_context_send_message_at_blockindex` adds seconds to milliseconds.

Of audio objects:

- `delread~`, `noise~`, `receive~` and `phasor~` with audio at its inlet queue the
  messages they receive and never look at them: the delay of a `delread~` cannot be
  changed.
- A delay longer than the line reads outside of its buffer; `vd~` clips to the
  whole buffer instead, whose last sample is not delayed.
- `osc~` and `phasor~` render in vectors of eight and four from the phase at the
  start of the part: a part that starts between repeats phases or uses lanes that
  were never set. Without SSE3 they write nothing.
- A message updates the frequency of an `osc~` from the first sample at its audio
  inlet. `clear` of a filter zeroes samples that are already rendered, and `bp~`
  forgets one setting when it is given another.
- The interval of an `env~` that is given one is not rounded up to a block, and it
  then never reports; the first reports read memory that was not set.
- `vline~` renders no ramps outside of Apple builds, and starts a segment at the
  beginning of the block it is delivered in.
- `log~` with audio at both inlets writes nothing; `cos~` shares a table between
  contexts with different sample rates; a `throw~` in a graph that is switched off
  keeps its last block, which its `catch~` repeats.

## 6. What is not modelled

- Rounding. Samples and numbers are integers, in steps; coefficients of filters
  are whole, the phase of an oscillator stands for its sine, and the window of an
  `env~` for its weighted sum. That `%g` and `atof` lose digits is left out.
- Time is a number of ticks. Milliseconds and samples are both whole numbers of
  ticks, so that sums of timestamps are exact; rounding of a `double` is not
  modelled.
- A pipe that is told to flush or clear from inside its own flush, which erases
  the list under the loop's iterator: undefined behaviour.
- Callbacks of the host that edit the patch, and edits of the patch inside of a
  cascade. Messages to `pd` that create objects are not in the code.
- Removing a timed object whose message is queued (`PdGraph.cpp:173`): the entry
  of the queue then points to a deleted object. It needs the registries and the
  queue in one model.
- In `PdGraph`: the removal of inlets and outlets, which stay in the lists of
  their graph; graphs more than one deep; local block sizes; `send~` and
  `throw~`, whose buffers join what the graphs order separately.
- A receiver that is named `pd` (`MessageSendController.cpp:96`): an access out
  of the bounds of the table.
- `vcf~` (which writes zeros), `rfft~` and `rifft~` (in Apple builds only),
  `print~`; `cputime`, `openpanel`; `symbolatom`, whose `NULL` message ends the
  program; overriding a label of the factory by a host; the wrappers for other
  languages. They are I/O or pass calls on. `MersenneTwister.h` is
  abstracted: a random number is any of its range.
- Undefined behaviour that would end a behaviour: wild reads of a message or of a
  table are left out by the inputs that are chosen (section 5 names them), reads
  of memory that was not set give `Outside`, which no property allows.
- In `SignalPatch` every outlet has a buffer of its own; that buffers are reused is
  `PdGraph`'s. `LoadedPatch` has no clock but the one that the host moves between
  two messages: objects that schedule are `TimedPatch`'s.

## 7. Plan

Done: the queue, the context, its timed objects, the send controller, the
registries, the lock, connections, process order and buffer pool, patches from
files, message objects, audio objects, with the theorems of section 4.

1. **Removal of timed objects**, joining `ContextRegistry` and `TimedObjects`.
2. **A host that overrides labels**, and its effect on what a file loads.
3. **A proof** of what is left of `SignalPatch`: `BusesCarry`, whose sums over the
   `throw~`s need lemmas about folds. The process order and patches from
   files are written with recursive operators, and stay with TLC.
