---------------------------- MODULE MessageDelay ----------------------------
(***************************************************************************)
(* [delay] (MessageDelay.cpp): sends a bang some time after it receives    *)
(* one, and is restarted by the next.  The objects of a patch that send to *)
(* the delays are left open: in a cascade a delay may receive anything.    *)
(***************************************************************************)
EXTENDS PdContext

CONSTANTS
    DelayObjects, \* the [delay] objects of the patch
    DelayTimes    \* the delays that a patch sets

ASSUME DelayAssumption ==
    /\ DelayObjects \subseteq Objects \ {SendController}
    /\ DelayTimes \subseteq Int
    /\ 0 \in Outlets

VARIABLES
    scheduledMessage, \* the pointer a delay keeps, or NULL
    delayMs,
    bangedAt          \* history: the time of the last bang to each delay

delayVars == <<scheduledMessage, delayMs, bangedAt>>

\* Those in the patch have a delay from their arguments.
DelayInit(patch) ==
    /\ scheduledMessage = [o \in DelayObjects |-> NULL]
    /\ delayMs \in [DelayObjects -> DelayTimes \cup {0}]
    /\ \A o \in DelayObjects : delayMs[o] \in IF o \in patch THEN DelayTimes ELSE {0}
    /\ bangedAt = [o \in DelayObjects |-> 0]

-----------------------------------------------------------------------------
\* cancelScheduledMessageIfExists, as far as the context is concerned.
CancelScheduled(o) == CancelMessage(ctx, o, 0, scheduledMessage[o])

\* A bang, a float or a symbol at the left inlet.
DelayBang(o, message) ==
    /\ cascade # "none"
    /\ message \in Fresh(CancelScheduled(o))
    /\ ctx' = ScheduleMessage(CancelScheduled(o), o, 0, message,
                              now + delayMs[o])
    /\ scheduledMessage' = [scheduledMessage EXCEPT ![o] = message]
    /\ bangedAt' = [bangedAt EXCEPT ![o] = now]
    /\ UNCHANGED <<blockStartTimestamp, phase, cascade, now, inFlight,
                   delayMs>>

\* "stop" at the left inlet.
DelayStop(o) ==
    /\ cascade # "none"
    /\ ctx' = CancelScheduled(o)
    /\ scheduledMessage' = [scheduledMessage EXCEPT ![o] = NULL]
    /\ UNCHANGED <<blockStartTimestamp, phase, cascade, now, inFlight,
                   delayMs, bangedAt>>

\* Mistaken: the pending bang is left where it is.
SetDelayOnly(o, delay) ==
    /\ cascade # "none"
    /\ delayMs' = [delayMs EXCEPT ![o] = delay]
    /\ UNCHANGED <<contextVars, scheduledMessage, bangedAt>>

\* A float at the right inlet.
SetDelay(o, delay) ==
    /\ cascade # "none"
    /\ ctx' = CancelScheduled(o)
    /\ scheduledMessage' = [scheduledMessage EXCEPT ![o] = NULL]
    /\ delayMs' = [delayMs EXCEPT ![o] = delay]
    /\ UNCHANGED <<blockStartTimestamp, phase, cascade, now, inFlight,
                   bangedAt>>

\* sendMessage: the delay forgets the bang it has scheduled before anything
\* downstream runs.
DelaySend(entry) ==
    /\ entry.object \in DelayObjects
    /\ Dispatch(entry)
    /\ ctx' = Popped(entry)
    /\ scheduledMessage' =
           [scheduledMessage EXCEPT ![entry.object] =
                IF @ = entry.message THEN NULL ELSE @]
    /\ UNCHANGED <<delayMs, bangedAt>>

DelayStep(o) ==
    \/ \E m \in Messages : DelayBang(o, m)
    \/ DelayStop(o)
    \/ \E d \in DelayTimes : SetDelay(o, d)

-----------------------------------------------------------------------------
\* A pending bang is due the present delay after the last bang received: a
\* new delay never leaves a message behind that was scheduled with the old
\* one, and a second bang never leaves the first pending.
DueAfterLastBang ==
    \A o \in DelayObjects, i \in 1 .. Len(ctx.queue) :
        ctx.queue[i].object = o =>
            ctx.timestamp[ctx.queue[i].message] = bangedAt[o] + delayMs[o]

=============================================================================
