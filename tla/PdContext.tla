----------------------------- MODULE PdContext -----------------------------
(***************************************************************************)
(* The message side of a context (PdContext.cpp): the queue of scheduled   *)
(* messages, the heap they live on, and the loop of process() that         *)
(* delivers everything due in a block before the graphs are run.           *)
(*                                                                         *)
(* Delivering a message starts a cascade: a tree of synchronous calls      *)
(* through the connections of the patch, all at the timestamp of the       *)
(* message.  This module has the steps of the loop and the calls that find *)
(* the context idle; what the objects of the patch do in a cascade is left *)
(* to the modules that extend it, TimedObjects for any object and one      *)
(* module for each timed object of the library.                            *)
(*                                                                         *)
(* The context lock serialises process() with the calls that touch the     *)
(* queue: no call is ever seen half done.  ContextLock is about the lock.  *)
(***************************************************************************)
EXTENDS OrderedMessageQueue

CONSTANTS
    Objects,        \* the message objects that schedule messages
    SendController, \* the object external messages are scheduled with
    Messages,       \* the addresses of heap messages
    NULL,           \* no message
    Outlets,        \* outlet indices; name indices for the SendController
    BlockDuration,  \* blockDurationMs, in ticks
    DirectTimes,    \* timestamps of messages that the loop does not deliver
    MaxBlocks,      \* a bound on the number of blocks processed
    MaxExternal     \* a bound on the external messages queued at a time

ASSUME ContextAssumption ==
    /\ SendController \in Objects
    /\ NULL \notin Messages
    /\ BlockDuration \in Nat \ {0}
    /\ DirectTimes \subseteq Int
    /\ MaxBlocks \in Nat
    /\ MaxExternal \in Nat

VARIABLES
    ctx,      \* messageCallbackQueue and the message heap
    blockStartTimestamp,
    phase,    \* where process() is, "idle" outside of it
    cascade,  \* the running call tree: from process(), from elsewhere, none
    now,      \* the timestamp of the messages in it
    inFlight  \* the message process() has popped and not yet freed, or NULL

contextVars == <<ctx, blockStartTimestamp, phase, cascade, now, inFlight>>

Entries == [object : Objects, outlet : Outlets, message : Messages]

ContextTypeOK ==
    /\ ctx \in [queue : Seq(Entries),
                live : SUBSET Messages,
                timestamp : [Messages -> Int]]
    /\ blockStartTimestamp \in Nat
    /\ phase \in {"idle", "messages", "dsp"}
    /\ cascade \in {"process", "direct", "none"}
    /\ now \in Int
    /\ inFlight \in Messages \cup {NULL}

\* Mistaken: time runs backwards.
previousBlockStartTimestamp == blockStartTimestamp - BlockDuration

nextBlockStartTimestamp == blockStartTimestamp + BlockDuration

ContextInit ==
    /\ ctx = [queue |-> <<>>,
              live |-> {},
              timestamp |-> [m \in Messages |-> 0]]
    /\ blockStartTimestamp = 0
    /\ phase = "idle"
    /\ cascade = "none"
    /\ now = 0
    /\ inFlight = NULL

-----------------------------------------------------------------------------
(* scheduleMessage and cancelMessage, and the heap below them, as functions *)
(* of the queue and the heap: a handler may call several of them in turn.   *)

\* freeMessage; the contents of freed memory are of no interest.
FreeMessage(c, message) ==
    [c EXCEPT !.live = @ \ {message},
              !.timestamp = [m \in Messages |->
                                 IF m = message THEN 0 ELSE @[m]]]

SetTimestamp(c, message, time) ==
    [c EXCEPT !.timestamp = [m \in Messages |->
                                 IF m = message THEN time ELSE @[m]]]

\* The addresses that copyToHeap may return.
Fresh(c) == Messages \ c.live

\* copyToHeap, to a fresh address, and insertMessage.
ScheduleMessage(c, object, outlet, message, time) ==
    LET copied == [SetTimestamp(c, message, time)
                       EXCEPT !.live = @ \cup {message}]
    IN  [copied EXCEPT !.queue = InsertMessage(@, object, outlet, message,
                                               copied.timestamp)]

\* Mistaken: the entry of the freed message stays in the queue.
CancelMessageLeaves(c, object, outlet, message) ==
    IF message = NULL THEN c ELSE FreeMessage(c, message)

\* cancelMessage frees the message whether or not the queue has it.
CancelMessage(c, object, outlet, message) ==
    IF message = NULL
    THEN c
    ELSE FreeMessage([c EXCEPT !.queue = RemoveMessage(@, object, outlet,
                                                       message)],
                     message)

\* Mistaken: the pointer stays in the list.
WithoutNothing(list, message) == list

\* list::remove, with which an object takes a pointer out of a list of its own.
Without(list, message) ==
    LET kept[n \in 0 .. Len(list)] ==
            IF n = 0 THEN <<>>
            ELSE IF list[n] = message THEN kept[n - 1]
            ELSE Append(kept[n - 1], list[n])
    IN  kept[Len(list)]

-----------------------------------------------------------------------------
(* The calls that find the context idle or running its graphs.             *)

\* scheduleExternalMessage, under the lock, to a registered name.
ScheduleExternal(nameIndex, time, message) ==
    /\ phase = "idle"
    /\ cascade = "none"
    /\ Cardinality({i \in 1 .. Len(ctx.queue) :
                        ctx.queue[i].object = SendController}) < MaxExternal
    /\ message \in Fresh(ctx)
    /\ ctx' = ScheduleMessage(ctx, SendController, nameIndex, message, time)
    /\ UNCHANGED <<blockStartTimestamp, phase, cascade, now, inFlight>>

\* A call tree that the loop of process() does not start: it starts in
\* zg_object_send_message, or in a DspObject that consumes a message while
\* the graphs run.
BeginCascade(time) ==
    /\ phase \in {"idle", "dsp"}
    /\ cascade = "none"
    /\ cascade' = "direct"
    /\ now' = time
    /\ UNCHANGED <<ctx, blockStartTimestamp, phase, inFlight>>

-----------------------------------------------------------------------------
(* process()                                                               *)

BeginProcess ==
    /\ phase = "idle"
    /\ cascade = "none"
    /\ blockStartTimestamp < MaxBlocks * BlockDuration
    /\ phase' = "messages"
    /\ UNCHANGED <<ctx, blockStartTimestamp, cascade, now, inFlight>>

\* Mistaken: only what is due at the start of the block.
DueAtStart ==
    /\ ~ IsEmpty(ctx.queue)
    /\ ctx.timestamp[Peek(ctx.queue).message] <= blockStartTimestamp

\* The condition of the loop: the first message is due in this block.
Due ==
    /\ ~ IsEmpty(ctx.queue)
    /\ ctx.timestamp[Peek(ctx.queue).message] < nextBlockStartTimestamp

\* Mistaken: a late message keeps its timestamp.
DeliveryTimeLate(message) == ctx.timestamp[message]

\* The timestamp a message is sent with: that of a late one is moved to the
\* start of the block.
DeliveryTime(message) ==
    IF ctx.timestamp[message] < blockStartTimestamp
    THEN blockStartTimestamp
    ELSE ctx.timestamp[message]

\* Mistaken: the entry is looked at and stays where it is.
PeekedOnly(entry) ==
    SetTimestamp(ctx, entry.message, DeliveryTime(entry.message))

\* The queue and the heap when the first entry has been popped.
Popped(entry) ==
    [SetTimestamp(ctx, entry.message, DeliveryTime(entry.message))
        EXCEPT !.queue = Pop(@)]

\* The loop's body up to the call of object->sendMessage(outlet, message).
\* What the object does then, starting from Popped(entry), is part of the
\* step and gives ctx'.
Dispatch(entry) ==
    /\ phase = "messages"
    /\ cascade = "none"
    /\ Due
    /\ entry = Peek(ctx.queue)
    /\ cascade' = "process"
    /\ now' = DeliveryTime(entry.message)
    /\ inFlight' = entry.message
    /\ UNCHANGED <<blockStartTimestamp, phase>>

\* The outermost call returns.  The loop then frees the message it sent.
EndCascade ==
    /\ cascade # "none"
    /\ ctx' = FreeMessage(ctx, inFlight)
    /\ inFlight' = NULL
    /\ cascade' = "none"
    /\ now' = 0
    /\ UNCHANGED <<blockStartTimestamp, phase>>

\* The loop ends and the graphs are processed.
BeginDsp ==
    /\ phase = "messages"
    /\ cascade = "none"
    /\ ~ Due
    /\ phase' = "dsp"
    /\ UNCHANGED <<ctx, blockStartTimestamp, cascade, now, inFlight>>

EndProcess ==
    /\ phase = "dsp"
    /\ cascade = "none"
    /\ phase' = "idle"
    /\ blockStartTimestamp' = nextBlockStartTimestamp
    /\ UNCHANGED <<ctx, cascade, now, inFlight>>

\* The steps after which the patch's objects are as they were before.
ContextStep ==
    \/ \E n \in Outlets, t \in DirectTimes, m \in Fresh(ctx) :
           ScheduleExternal(n, t, m)
    \/ \E t \in DirectTimes : BeginCascade(t)
    \/ BeginProcess
    \/ BeginDsp
    \/ EndProcess

-----------------------------------------------------------------------------
(* Safety, of any patch.                                                   *)

Queued == MessagesOf(ctx.queue)

\* No leak and no dangling pointer: the heap holds exactly the messages of
\* the queue and the one process() is delivering, and each is queued once.
\* (scheduleMessage, cancelMessage, process)
HeapIsQueuePlusInFlight ==
    /\ ctx.live = Queued \cup ({inFlight} \ {NULL})
    /\ inFlight \notin Queued
    /\ PointsOnce(ctx.queue)

\* process() delivers a message within the block it is processing, at the
\* timestamp the message has.
DeliveredInBlock ==
    /\ inFlight # NULL <=> cascade = "process"
    /\ cascade = "process" =>
           /\ phase = "messages"
           /\ now = ctx.timestamp[inFlight]
           /\ blockStartTimestamp <= now
           /\ now < nextBlockStartTimestamp

\* Time does not run backwards in a block: what is still queued while a
\* message is delivered, or is scheduled because of it, is delivered no
\* earlier than that message.
DispatchedFirst ==
    cascade = "process" => \A m \in Queued : now <= DeliveryTime(m)

\* When the loop of process() ends, nothing that is due before the end of
\* the block is left in the queue: not only its first message is late enough.
NothingDueIsLeft ==
    [][phase = "messages" /\ phase' = "dsp" =>
           \A m \in Queued : ctx.timestamp[m] >= nextBlockStartTimestamp
      ]_contextVars

=============================================================================
