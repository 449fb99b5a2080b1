---------------------------- MODULE MessagePipe ----------------------------
(***************************************************************************)
(* [pipe] (MessagePipe.cpp): delays any number of messages.  A flush sends *)
(* all of them at once, one after the other, and cancels each after it was *)
(* sent; the objects it is sent to run before the flush goes on, and may   *)
(* reach other pipes or the same one.                                      *)
(*                                                                         *)
(* A pipe that is told to flush or clear while it is being flushed erases  *)
(* the list under the iterator of the outer loop.  Patches that do this    *)
(* are left out; patches that add to a pipe while it is flushed are in if  *)
(* Echo holds.  Such a flush may never end, as its list grows as fast as   *)
(* it is walked: MaxListed bounds the lists.                               *)
(***************************************************************************)
EXTENDS PdContext

CONSTANTS
    Pipes,      \* the [pipe] objects of the patch
    PipeDelays, \* the delays that a patch sets
    Echo,       \* whether a pipe may be reached from its own outlet
    MaxListed   \* a bound on the messages that the pipes list together

ASSUME PipeAssumption ==
    /\ Pipes \subseteq Objects \ {SendController}
    /\ PipeDelays \subseteq Int
    /\ Echo \in BOOLEAN
    /\ MaxListed \in Nat
    /\ 0 \in Outlets

VARIABLES
    scheduledMessagesList, \* the pointers a pipe keeps, oldest first
    pipeDelayMs,
    loops \* the running flush and clear loops, the innermost last: the
          \* pipe, whether its messages are sent before they are cancelled,
          \* the position of the iterator, and whether that message was sent

pipeVars == <<scheduledMessagesList, pipeDelayMs, loops>>

\* Those in the patch have a delay from their arguments.
PipeInit(patch) ==
    /\ scheduledMessagesList = [o \in Pipes |-> <<>>]
    /\ pipeDelayMs \in [Pipes -> PipeDelays \cup {0}]
    /\ \A o \in Pipes : pipeDelayMs[o] \in IF o \in patch THEN PipeDelays ELSE {0}
    /\ loops = <<>>

-----------------------------------------------------------------------------
InLoop(o) == \E i \in 1 .. Len(loops) : loops[i].pipe = o

Listed == UNION {{o} \X (1 .. Len(scheduledMessagesList[o])) : o \in Pipes}

\* The patch is running: a cascade, and its loops are all inside sendMessage.
PatchRuns ==
    /\ cascade # "none"
    /\ loops # <<>> => Last(loops).sent

\* Mistaken: the newest message is put first.
PutFirst(o, message, newDelay) ==
    /\ PatchRuns
    /\ InLoop(o) => Echo
    /\ Cardinality(Listed) < MaxListed
    /\ message \in Fresh(ctx)
    /\ ctx' = ScheduleMessage(ctx, o, 0, message, now + pipeDelayMs[o])
    /\ scheduledMessagesList' =
           [scheduledMessagesList EXCEPT ![o] = <<message>> \o @]
    /\ pipeDelayMs' = [pipeDelayMs EXCEPT ![o] = newDelay]
    /\ UNCHANGED <<blockStartTimestamp, phase, cascade, now, inFlight,
                   loops>>

\* Any message but "flush" and "clear" at the left inlet.  A float is also
\* taken for the new delay: the case of the left inlet falls through into
\* that of the right one.
Put(o, message, newDelay) ==
    /\ PatchRuns
    /\ InLoop(o) => Echo
    /\ Cardinality(Listed) < MaxListed
    /\ message \in Fresh(ctx)
    /\ ctx' = ScheduleMessage(ctx, o, 0, message, now + pipeDelayMs[o])
    /\ scheduledMessagesList' =
           [scheduledMessagesList EXCEPT ![o] = Append(@, message)]
    /\ pipeDelayMs' = [pipeDelayMs EXCEPT ![o] = newDelay]
    /\ UNCHANGED <<blockStartTimestamp, phase, cascade, now, inFlight,
                   loops>>

\* A float at the right inlet.  Messages in the pipe keep their time.
SetPipeDelay(o, delay) ==
    /\ PatchRuns
    /\ pipeDelayMs' = [pipeDelayMs EXCEPT ![o] = delay]
    /\ UNCHANGED <<contextVars, scheduledMessagesList, loops>>

\* "flush" (sends) and "clear" (does not) enter a loop over the list.
Loop(o, sends) ==
    /\ PatchRuns
    /\ ~ InLoop(o)
    /\ loops' = Append(loops, [pipe |-> o, sends |-> sends, at |-> 1,
                              sent |-> FALSE])
    /\ UNCHANGED <<contextVars, scheduledMessagesList, pipeDelayMs>>

\* The body of a flush: the message is given the time of the flush and sent,
LoopSend ==
    /\ loops # <<>>
    /\ LET loop == Last(loops)
           list == scheduledMessagesList[loop.pipe]
       IN  /\ loop.sends /\ ~ loop.sent
           /\ loop.at <= Len(list)
           /\ ctx' = SetTimestamp(ctx, list[loop.at], now)
           /\ loops' = Append(Front(loops), [loop EXCEPT !.sent = TRUE])
    /\ UNCHANGED <<blockStartTimestamp, phase, cascade, now, inFlight,
                   scheduledMessagesList, pipeDelayMs>>

\* and, when everything it caused is done, cancelled.  A clear only cancels.
LoopCancel ==
    /\ loops # <<>>
    /\ LET loop == Last(loops)
           list == scheduledMessagesList[loop.pipe]
       IN  /\ loop.sends = loop.sent
           /\ loop.at <= Len(list)
           /\ ctx' = CancelMessage(ctx, loop.pipe, 0, list[loop.at])
           /\ loops' = Append(Front(loops),
                              [loop EXCEPT !.at = @ + 1, !.sent = FALSE])
    /\ UNCHANGED <<blockStartTimestamp, phase, cascade, now, inFlight,
                   scheduledMessagesList, pipeDelayMs>>

\* The iterator is at the end of the list, which is cleared.
LoopEnd ==
    /\ loops # <<>>
    /\ LET loop == Last(loops)
       IN  /\ ~ loop.sent
           /\ loop.at > Len(scheduledMessagesList[loop.pipe])
           /\ scheduledMessagesList' =
                  [scheduledMessagesList EXCEPT ![loop.pipe] = <<>>]
    /\ loops' = Front(loops)
    /\ UNCHANGED <<contextVars, pipeDelayMs>>

\* Mistaken: the list keeps what process() is about to free.
PipeSendKept(entry) ==
    /\ entry.object \in Pipes
    /\ Dispatch(entry)
    /\ ctx' = Popped(entry)
    /\ UNCHANGED pipeVars

\* sendMessage from process(): a pipe takes the message off its list first.
PipeSend(entry) ==
    /\ entry.object \in Pipes
    /\ Dispatch(entry)
    /\ ctx' = Popped(entry)
    /\ scheduledMessagesList' =
           [scheduledMessagesList EXCEPT ![entry.object] =
                Without(@, entry.message)]
    /\ UNCHANGED <<pipeDelayMs, loops>>

PipeStep(o) ==
    \/ \E m \in Messages :
           Put(o, m, pipeDelayMs[o]) \/ \E d \in PipeDelays : Put(o, m, d)
    \/ \E d \in PipeDelays : SetPipeDelay(o, d)
    \/ \E sends \in BOOLEAN : Loop(o, sends)

PipeLoops == LoopSend \/ LoopCancel \/ LoopEnd

-----------------------------------------------------------------------------
\* Where the list of a pipe has pointers that a loop has not cancelled.
AliveAt(o) ==
    {k \in 1 .. Len(scheduledMessagesList[o]) :
        \A i \in 1 .. Len(loops) : loops[i].pipe = o => k >= loops[i].at}

\* Those pointers.
Alive(o) == {scheduledMessagesList[o][k] : k \in AliveAt(o)}

\* The messages being sent by a flush.
BeingSent ==
    {scheduledMessagesList[loops[i].pipe][loops[i].at] :
        i \in {j \in 1 .. Len(loops) : loops[j].sent}}

\* A pipe sends messages in the order they came in unless the later one is
\* due earlier; those due together stay in order.
FirstInFirstOut ==
    \A o \in Pipes :
        LET list == scheduledMessagesList[o]
        IN  ~ InLoop(o) =>
                \A j, k \in 1 .. Len(list) :
                    /\ j < k
                    /\ ctx.timestamp[list[j]] <= ctx.timestamp[list[k]]
                    => Before(ctx.queue, list[j], list[k])

=============================================================================
