---------------------------- MODULE MessageMetro ----------------------------
(***************************************************************************)
(* [metro] (MessageMetro.cpp): sends a bang at once and then one every     *)
(* interval, until it is stopped.  Each tick schedules the next before it  *)
(* is sent, so that a stop caused by the tick itself finds it.             *)
(***************************************************************************)
EXTENDS PdContext

CONSTANTS
    Metros,   \* the [metro] objects of the patch
    Intervals \* the intervals that a patch sets

ASSUME MetroAssumption ==
    /\ Metros \subseteq Objects \ {SendController}
    /\ Intervals \subseteq Int
    /\ 0 \in Outlets

VARIABLES
    pendingMessage, \* the pointer a metro keeps, or NULL
    intervalInMs,
    running,        \* history: started since it was last stopped
    nextTick        \* history: an interval after the last tick

metroVars == <<pendingMessage, intervalInMs, running, nextTick>>

\* Those in the patch have an interval from their arguments.
MetroInit(patch) ==
    /\ pendingMessage = [o \in Metros |-> NULL]
    /\ intervalInMs \in [Metros -> Intervals \cup {0}]
    /\ \A o \in Metros : intervalInMs[o] \in IF o \in patch THEN Intervals ELSE {0}
    /\ running = [o \in Metros |-> FALSE]
    /\ nextTick = [o \in Metros |-> 0]

-----------------------------------------------------------------------------
\* stopMetro, as far as the context is concerned.
CancelTick(o) == CancelMessage(ctx, o, 0, pendingMessage[o])

\* sendMessage at some time: schedules the next tick, an interval later.
Tick(o, c, time, message) ==
    /\ message \in Fresh(c)
    /\ ctx' = ScheduleMessage(c, o, 0, message, time + intervalInMs[o])
    /\ pendingMessage' = [pendingMessage EXCEPT ![o] = message]
    /\ nextTick' = [nextTick EXCEPT ![o] = time + intervalInMs[o]]
    /\ UNCHANGED intervalInMs

\* Mistaken: a metro that runs is not stopped first.
StartMetroAgain(o, message) ==
    /\ cascade # "none"
    /\ Tick(o, ctx, now, message)
    /\ running' = [running EXCEPT ![o] = TRUE]
    /\ UNCHANGED <<blockStartTimestamp, phase, cascade, now, inFlight>>

\* startMetro, on a bang or a float other than zero: a metro that runs is
\* stopped first, and sends a tick at once.
StartMetro(o, message) ==
    /\ cascade # "none"
    /\ Tick(o, CancelTick(o), now, message)
    /\ running' = [running EXCEPT ![o] = TRUE]
    /\ UNCHANGED <<blockStartTimestamp, phase, cascade, now, inFlight>>

\* "stop" or zero.
StopMetro(o) ==
    /\ cascade # "none"
    /\ ctx' = CancelTick(o)
    /\ pendingMessage' = [pendingMessage EXCEPT ![o] = NULL]
    /\ running' = [running EXCEPT ![o] = FALSE]
    /\ UNCHANGED <<blockStartTimestamp, phase, cascade, now, inFlight,
                   intervalInMs, nextTick>>

\* A float at the right inlet: for the ticks after the next.
SetInterval(o, interval) ==
    /\ cascade # "none"
    /\ intervalInMs' = [intervalInMs EXCEPT ![o] = interval]
    /\ UNCHANGED <<contextVars, pendingMessage, running, nextTick>>

\* sendMessage from process().
MetroSend(entry) ==
    /\ entry.object \in Metros
    /\ Dispatch(entry)
    /\ \E m \in Messages : Tick(entry.object, Popped(entry), now', m)
    /\ UNCHANGED running

MetroStep(o) ==
    \/ \E m \in Messages : StartMetro(o, m)
    \/ StopMetro(o)
    \/ \E i \in Intervals : SetInterval(o, i)

-----------------------------------------------------------------------------
\* A metro has exactly one tick ahead of it while it runs and none once it
\* was stopped, even when a tick of its own is what stops or restarts it, and
\* that tick is due the interval after the last one: a new interval neither
\* moves a pending tick nor duplicates it.
OneTickAhead ==
    \A o \in Metros :
        LET ticks == {i \in 1 .. Len(ctx.queue) : ctx.queue[i].object = o}
        IN  IF running[o]
            THEN \E i \in ticks :
                     /\ ticks = {i}
                     /\ ctx.timestamp[ctx.queue[i].message] = nextTick[o]
            ELSE ticks = {}

=============================================================================
