--------------------------- MODULE DspVariableLine ---------------------------
(***************************************************************************)
(* [vline~] (DspVariableLine.cpp): a path of ramps, each of which starts   *)
(* at once or after a delay.  A delayed segment waits in the context's     *)
(* queue, and vline~ keeps a list of its pending segments so that a new    *)
(* one replaces those that are due later.                                  *)
(*                                                                         *)
(* vline~ is a DspObject: what it receives is kept until the graphs run    *)
(* and processed then, at the timestamp it came with.  A delay can thus    *)
(* end in the block whose messages have been sent already, and be late.    *)
(***************************************************************************)
EXTENDS PdContext

CONSTANTS
    VLines,     \* the [vline~] objects of the patch
    LineDelays, \* the delays of the segments that a patch sends
    MaxRequests \* a bound on the number of segments asked of a vline~

ASSUME VLineAssumption ==
    /\ VLines \subseteq Objects \ {SendController}
    /\ LineDelays \subseteq Int
    /\ 0 \in LineDelays
    /\ MaxRequests \in Nat
    /\ 0 \in Outlets

VARIABLES
    messageList, \* the pointers a vline~ keeps
    path,        \* the segment a vline~ performs: the number of its request,
                 \* or 0 when the output is level
    requests,    \* history: the number of segments asked of a vline~
    asked,       \* history: the request that each heap message is for
    lastStart    \* history: the time the last one was to start at

vlineVars == <<messageList, path, requests, asked, lastStart>>
vars == <<contextVars, vlineVars>>

Init ==
    /\ ContextInit
    /\ messageList = [o \in VLines |-> <<>>]
    /\ path = [o \in VLines |-> 0]
    /\ requests = [o \in VLines |-> 0]
    /\ asked = [m \in Messages |-> 0]
    /\ lastStart = [o \in VLines |-> 0]

-----------------------------------------------------------------------------
\* The graphs run, and a vline~ consumes a message.
Consuming == phase = "dsp" /\ cascade = "direct"

\* Where clearAllMessagesAtOrAfter finds the first segment to clear: despite
\* its name, one that starts strictly after the given time.
LaterFrom(list, timestamp, i) ==
    /\ ctx.timestamp[list[i]] > timestamp
    /\ \A j \in 1 .. i - 1 : ctx.timestamp[list[j]] <= timestamp

\* Mistaken: nothing is cleared.
KeptAll(list, timestamp) == list

\* The list without what clearAllMessagesAtOrAfter clears.
Kept(list, timestamp) ==
    IF \E i \in 1 .. Len(list) : LaterFrom(list, timestamp, i)
    THEN SubSeq(list, 1, (CHOOSE i \in 1 .. Len(list) :
                              LaterFrom(list, timestamp, i)) - 1)
    ELSE list

\* clearAllMessagesFrom: the context once the messages of list after the
\* first n have been cancelled, one after the other.
ClearFrom(o, list, n) ==
    LET cleared[k \in n .. Len(list)] ==
            IF k = n THEN ctx
            ELSE CancelMessage(cleared[k - 1], o, 0, list[k])
    IN  cleared[Len(list)]

\* The messages that are freed lose the request they are for.
AskedAfter(c) == [m \in Messages |-> IF m \in c.live THEN asked[m] ELSE 0]

\* A target with a delay.  A segment that starts at once is performed in
\* place of the present one.
Segment(o, delay, message) ==
    LET start == now + delay
        kept == Kept(messageList[o], start)
        c == ClearFrom(o, messageList[o], Len(kept))
        request == requests[o] + 1
    IN  /\ Consuming
        /\ request <= MaxRequests
        /\ requests' = [requests EXCEPT ![o] = request]
        /\ lastStart' = [lastStart EXCEPT ![o] = start]
        /\ \/ /\ delay = 0
              /\ ctx' = c
              /\ messageList' = [messageList EXCEPT ![o] = kept]
              /\ path' = [path EXCEPT ![o] = request]
              /\ asked' = AskedAfter(c)
           \/ /\ delay # 0
              /\ message \in Fresh(c)
              /\ ctx' = ScheduleMessage(c, o, 0, message, start)
              /\ messageList' = [messageList EXCEPT ![o] =
                                     Append(kept, message)]
              /\ path' = path
              /\ asked' = [AskedAfter(c) EXCEPT ![message] = request]
        /\ UNCHANGED <<blockStartTimestamp, phase, cascade, now, inFlight>>

\* "stop": nothing is pending, and the output stays level.
Stop(o) ==
    /\ Consuming
    /\ ctx' = ClearFrom(o, messageList[o], 0)
    /\ messageList' = [messageList EXCEPT ![o] = <<>>]
    /\ path' = [path EXCEPT ![o] = 0]
    /\ asked' = AskedAfter(ctx')
    /\ UNCHANGED <<blockStartTimestamp, phase, cascade, now, inFlight,
                   requests, lastStart>>

\* process() sends a message.  That of a vline~ goes nowhere: the segment in
\* it is performed from now on.
SendMessage(entry) ==
    /\ Dispatch(entry)
    /\ ctx' = Popped(entry)
    /\ messageList' = [o \in VLines |->
                           IF o = entry.object
                           THEN Without(messageList[o], entry.message)
                           ELSE messageList[o]]
    /\ path' = [o \in VLines |->
                    IF o = entry.object THEN asked[entry.message] ELSE path[o]]
    /\ UNCHANGED <<requests, asked, lastStart>>

Return ==
    /\ EndCascade
    /\ asked' = AskedAfter(ctx')
    /\ UNCHANGED <<messageList, path, requests, lastStart>>

VLineStep(o) ==
    \/ \E d \in LineDelays, m \in Messages : Segment(o, d, m)
    \/ Stop(o)

Next ==
    \/ \E o \in VLines : VLineStep(o)
    \/ \E entry \in Entries : SendMessage(entry)
    \/ Return
    \/ ContextStep /\ UNCHANGED vlineVars

Spec == Init /\ [][Next]_vars

-----------------------------------------------------------------------------
\* A vline~ may cancel several messages in one handler, where a timed object
\* cancels one in each of its steps; what holds of timed objects holds of it
\* all the same: its list has exactly its queued messages, each once, in the
\* order of the queue, so that "this message should be at the front of the
\* messageList" (DspVariableLine.cpp:127) is true of every message it sends.
\* A segment that is performed is not pending as well.
ListIsQueued ==
    /\ HeapIsQueuePlusInFlight
    /\ \A o \in VLines :
           LET list == messageList[o]
               queued == {i \in 1 .. Len(ctx.queue) : ctx.queue[i].object = o}
           IN  /\ {ctx.queue[i] : i \in queued}
                      = {Entry(o, 0, m) : m \in Range(list)}
               /\ \A j, k \in 1 .. Len(list) :
                      j < k => Before(ctx.queue, list[j], list[k])
               /\ \A m \in Range(list) : asked[m] # path[o]

\* The last segment asked for is the last to start: none that was asked for
\* before it is pending for a later time.
NewestIsLast ==
    \A o \in VLines : \A m \in Range(messageList[o]) :
        ctx.timestamp[m] <= lastStart[o]

\* The list of a vline~ is its part of the queue, with nothing in it that a
\* later segment has replaced (DspVariableLine::clearAllMessagesFrom).
ListIsItsCourse == ListIsQueued /\ NewestIsLast

=============================================================================
