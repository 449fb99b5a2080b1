---------------------------- MODULE MessageLine ----------------------------
(***************************************************************************)
(* [line] (MessageLine.cpp): a ramp of messages from the current value to  *)
(* a target, one every grainRate.  Each message of the ramp schedules the  *)
(* next before it is sent.                                                 *)
(*                                                                         *)
(* Values are integers and arithmetic is exact: a ramp is only asked for   *)
(* when its slope is an integer.                                           *)
(***************************************************************************)
EXTENDS PdContext

CONSTANTS
    Lines,     \* the [line] objects of the patch
    Values,    \* the targets that a patch sets
    RampDurations, \* the durations of ramps
    Grains     \* the grain rates

ASSUME LineAssumption ==
    /\ Lines \subseteq Objects \ {SendController}
    /\ Values \subseteq Int
    /\ RampDurations \subseteq Nat \ {0}
    /\ Grains \subseteq Int
    /\ 0 \in Outlets

VARIABLES
    line,   \* the fields of each line
    value,  \* the float in each heap message
    ramp    \* history: where the last ramp of a line started, what the line
            \* sent last, and whether it was left alone since

lineVars == <<line, value, ramp>>

NewLine(grain, v) ==
    [grainRate |-> grain, slope |-> 0, lastMessageTimestamp |-> 0,
     currentValue |-> v, targetValue |-> 0, pendingMessage |-> NULL]

\* Those in the patch have a value and a grain from their arguments.
LineInit(patch) ==
    /\ line \in [Lines -> {NewLine(g, v) : g \in Grains \cup {0},
                                          v \in Values \cup {0}}]
    /\ \A o \in Lines :
           line[o] \in IF o \in patch
                      THEN {NewLine(g, v) : g \in Grains, v \in Values}
                      ELSE {NewLine(0, 0)}
    /\ value = [m \in Messages |-> 0]
    /\ ramp = [o \in Lines |-> [start |-> 0, sent |-> 0, alone |-> FALSE]]

-----------------------------------------------------------------------------
\* cancelPendingMessage, as far as the context is concerned.
CancelNext(o) == CancelMessage(ctx, o, 0, line[o].pendingMessage)

\* The freed messages lose their float.
ValueAfterFree(m) == IF m \in Messages THEN [value EXCEPT ![m] = 0] ELSE value

\* The ramp in fields l has a next message when v is sent.
Short(l, v) ==
    \/ l.slope > 0 /\ v < l.targetValue
    \/ l.slope < 0 /\ v > l.targetValue

\* Mistaken: the last value of a ramp is sent as it was computed.
Unclipped(l, v) == v

\* The value that is sent instead of v: a ramp does not pass its target.
Clipped(l, v) ==
    IF l.slope # 0 /\ ~ Short(l, v) THEN l.targetValue ELSE v

\* sendMessage of v at some time, by a line with fields l, in context c.
SendRamp(o, c, l, values, time, v) ==
    \/ /\ Short(l, v)
       /\ \E m \in Fresh(c) :
              /\ ctx' = ScheduleMessage(c, o, 0, m, time + l.grainRate)
              /\ value' = [values EXCEPT ![m] = v + l.slope * l.grainRate]
              /\ line' = [line EXCEPT ![o] =
                              [l EXCEPT !.currentValue = v,
                                        !.lastMessageTimestamp = time,
                                        !.pendingMessage = m]]
    \/ /\ ~ Short(l, v)
       /\ ctx' = c
       /\ value' = values
       /\ line' = [line EXCEPT ![o] =
                       [l EXCEPT !.currentValue = Clipped(l, v),
                                 !.lastMessageTimestamp = time,
                                 !.pendingMessage =
                                     IF l.slope = 0 THEN @ ELSE NULL]]

\* One float: jump there.
Jump(o, v) ==
    /\ cascade # "none"
    /\ SendRamp(o, CancelNext(o),
            [line[o] EXCEPT !.targetValue = v, !.currentValue = v,
                            !.pendingMessage = NULL],
            ValueAfterFree(line[o].pendingMessage), now, v)
    /\ ramp' = [ramp EXCEPT ![o] = [start |-> v, sent |-> v, alone |-> FALSE]]
    /\ UNCHANGED <<blockStartTimestamp, phase, cascade, now, inFlight>>

\* Where a line is now: along the ramp since it last sent, if it has not ended.
Here(o) ==
    LET l == line[o]
    IN  IF l.pendingMessage # NULL
        THEN l.currentValue + (now - l.lastMessageTimestamp) * l.slope
        ELSE l.currentValue

\* A target and a duration.  A flat ramp sends nothing.
Ramp(o, target, duration) ==
    LET slope == (target - Here(o)) \div duration
        l == [line[o] EXCEPT !.targetValue = target,
                             !.currentValue = Here(o),
                             !.slope = slope,
                             !.pendingMessage = NULL]
    IN  /\ cascade # "none"
        /\ (target - Here(o)) % duration = 0
        /\ IF slope # 0
           THEN SendRamp(o, CancelNext(o), l,
                     ValueAfterFree(line[o].pendingMessage), now, Here(o))
           ELSE /\ ctx' = CancelNext(o)
                /\ value' = ValueAfterFree(line[o].pendingMessage)
                /\ line' = [line EXCEPT ![o] = l]
        /\ ramp' = [ramp EXCEPT ![o] = [start |-> Here(o), sent |-> Here(o),
                                        alone |-> slope # 0]]
        /\ UNCHANGED <<blockStartTimestamp, phase, cascade, now, inFlight>>

\* "stop", and "set" with a value that is not sent.
StopRamp(o) ==
    /\ cascade # "none"
    /\ ctx' = CancelNext(o)
    /\ value' = ValueAfterFree(line[o].pendingMessage)
    /\ line' = [line EXCEPT ![o].pendingMessage = NULL]
    /\ ramp' = [ramp EXCEPT ![o].alone = FALSE]
    /\ UNCHANGED <<blockStartTimestamp, phase, cascade, now, inFlight>>

SetValue(o, v) ==
    /\ cascade # "none"
    /\ ctx' = CancelNext(o)
    /\ value' = ValueAfterFree(line[o].pendingMessage)
    /\ line' = [line EXCEPT ![o].pendingMessage = NULL,
                            ![o].currentValue = v]
    /\ ramp' = [ramp EXCEPT ![o].alone = FALSE]
    /\ UNCHANGED <<blockStartTimestamp, phase, cascade, now, inFlight>>

\* A float at the right inlet.
SetGrain(o, grain) ==
    /\ cascade # "none"
    /\ line' = [line EXCEPT ![o].grainRate = grain]
    /\ UNCHANGED <<contextVars, value, ramp>>

\* sendMessage from process(): the next message of the ramp.
LineSend(entry) ==
    LET o == entry.object
        v == value[entry.message]
    IN  /\ o \in Lines
        /\ Dispatch(entry)
        /\ SendRamp(o, Popped(entry), line[o], value, now', v)
        /\ ramp' = [ramp EXCEPT ![o].sent = Clipped(line[o], v)]

\* process() frees a message with its float.
LineReturn ==
    /\ value' = ValueAfterFree(inFlight)
    /\ UNCHANGED <<line, ramp>>

LineStep(o) ==
    \/ \E v \in Values : Jump(o, v) \/ SetValue(o, v)
    \/ \E v \in Values, d \in RampDurations : Ramp(o, v, d)
    \/ StopRamp(o)
    \/ \E g \in Grains : SetGrain(o, g)

-----------------------------------------------------------------------------
\* A ramp that is left alone sends values between where it started and its
\* target, and when it has no next message the target was what it sent last:
\* however the grain and the duration relate, it ends exactly there.
RampEndsAtTarget ==
    \A o \in Lines :
        LET target == line[o].targetValue
            start == ramp[o].start
            sent == ramp[o].sent
        IN  ramp[o].alone =>
                /\ \/ start <= sent /\ sent <= target
                   \/ target <= sent /\ sent <= start
                /\ line[o].pendingMessage = NULL => sent = target

=============================================================================
