---------------------------- MODULE TimedObjects ----------------------------
(***************************************************************************)
(* What the objects that schedule messages do to a context, whatever they  *)
(* are for.  It is the abstract specification that a patch of delay,       *)
(* metro, line, pipe and tabplay~ implements (TimedPatch).                 *)
(*                                                                         *)
(* A tracker keeps the pointers that scheduleMessage returned to it, so    *)
(* that it can cancel them; the other objects forget them (env~, bang~, the *)
(* MessageSendController).                                                 *)
(***************************************************************************)
EXTENDS PdContext

CONSTANTS
    Trackers,    \* the objects that keep pointers to scheduled messages
    TimedOutlet, \* the outlet each of them schedules with and cancels with
    Delays       \* how much later than the current message they schedule

ASSUME TrackersAssumption ==
    /\ Trackers \subseteq Objects \ {SendController}
    /\ TimedOutlet \in [Trackers -> Outlets]
    /\ Delays \subseteq Int

VARIABLES
    held,    \* the pointers that each tracker keeps
    retimed  \* queued messages whose timestamp a flush has rewritten

vars == <<contextVars, held, retimed>>

TypeOK ==
    /\ ContextTypeOK
    /\ held \in [Trackers -> SUBSET Messages]
    /\ retimed \in SUBSET Messages

Init ==
    /\ ContextInit
    /\ held = [o \in Trackers |-> {}]
    /\ retimed = {}

-----------------------------------------------------------------------------
(* In a cascade.                                                           *)

\* The object is in the loop of a flush, about to cancel what it has sent.
Flushing(object) == held[object] \cap retimed # {}

\* A handler that schedules a message, after it has cancelled the one it
\* replaces if there is one: a bang to delay, metro, line or tabplay~, a
\* message to a pipe, a delayed segment to vline~.  The address of the
\* cancelled message may be reused for the new one.
Schedule(object, cancelled, delay, message) ==
    LET c == CancelMessage(ctx, object, TimedOutlet[object], cancelled)
    IN  /\ cascade # "none"
        /\ Flushing(object) => cancelled = NULL
        /\ message \in Fresh(c)
        /\ ctx' = ScheduleMessage(c, object, TimedOutlet[object], message,
                                  now + delay)
        /\ held' = [held EXCEPT ![object] =
                        (@ \ {cancelled}) \cup {message}]
        /\ UNCHANGED <<blockStartTimestamp, phase, cascade, now, inFlight,
                       retimed>>

\* A handler, or a turn of its loop, that only cancels: stop, clear.
Cancel(object, message) ==
    /\ cascade # "none"
    /\ ~ Flushing(object)
    /\ ctx' = CancelMessage(ctx, object, TimedOutlet[object], message)
    /\ held' = [held EXCEPT ![object] = @ \ {message}]
    /\ UNCHANGED <<blockStartTimestamp, phase, cascade, now, inFlight,
                   retimed>>

\* Mistaken: the message is sent with the time it was scheduled for.
FlushSendUnmoved(object, message) ==
    /\ cascade # "none"
    /\ ~ Flushing(object)
    /\ retimed' = retimed \cup {message}
    /\ UNCHANGED <<contextVars, held>>

\* One turn of a flush (MessagePipe): the queued message is given the time of
\* the flush and sent while it is still in the queue; other objects run; it
\* is cancelled.
FlushSend(object, message) ==
    /\ cascade # "none"
    /\ ~ Flushing(object)
    /\ ctx' = SetTimestamp(ctx, message, now)
    /\ retimed' = retimed \cup {message}
    /\ UNCHANGED <<blockStartTimestamp, phase, cascade, now, inFlight, held>>

FlushCancel(object, message) ==
    /\ cascade # "none"
    /\ message \in retimed
    /\ ctx' = CancelMessage(ctx, object, TimedOutlet[object], message)
    /\ held' = [held EXCEPT ![object] = @ \ {message}]
    /\ retimed' = retimed \ {message}
    /\ UNCHANGED <<blockStartTimestamp, phase, cascade, now, inFlight>>

-----------------------------------------------------------------------------
(* Outside of a cascade, and around it.                                    *)

\* env~ and bang~ announce the result of a block while the graphs run, with
\* a message at time 0.0.
ScheduleFromDsp(object, outlet, message) ==
    /\ phase = "dsp"
    /\ cascade = "none"
    /\ message \in Fresh(ctx)
    /\ ctx' = ScheduleMessage(ctx, object, outlet, message, 0)
    /\ UNCHANGED <<blockStartTimestamp, phase, cascade, now, inFlight, held,
                   retimed>>

\* Mistaken: the pointer is kept.
HeldThroughDelivery(entry) == held

\* The sendMessage of a tracker drops the pointer to the message it sends.
HeldAfterDelivery(entry) ==
    [o \in Trackers |-> IF o = entry.object THEN held[o] \ {entry.message}
                                            ELSE held[o]]

Deliver(entry) ==
    /\ Dispatch(entry)
    /\ ctx' = Popped(entry)
    /\ held' = HeldAfterDelivery(entry)
    /\ UNCHANGED retimed

\* The sendMessage of metro and line schedules the next message before it
\* passes this one on.
DeliverAndSchedule(entry, delay, message) ==
    /\ Dispatch(entry)
    /\ message \in Fresh(ctx)
    /\ ctx' = ScheduleMessage(Popped(entry), entry.object,
                              TimedOutlet[entry.object], message, now' + delay)
    /\ held' = [HeldAfterDelivery(entry) EXCEPT
                    ![entry.object] = @ \cup {message}]
    /\ UNCHANGED retimed

\* A cascade ends after the flushes in it.
Return ==
    /\ retimed = {}
    /\ EndCascade
    /\ UNCHANGED <<held, retimed>>

TrackerStep(o) ==
    \/ \E c \in held[o] \cup {NULL}, d \in Delays, m \in Messages :
           Schedule(o, c, d, m)
    \/ \E m \in held[o] : Cancel(o, m) \/ FlushSend(o, m) \/ FlushCancel(o, m)

Next ==
    \/ \E o \in Trackers : TrackerStep(o)
    \/ \E o \in Objects \ Trackers, n \in Outlets, m \in Messages :
           ScheduleFromDsp(o, n, m)
    \/ \E entry \in Entries :
           \/ Deliver(entry)
           \/ /\ entry.object \in Trackers
              /\ \E d \in Delays, m \in Messages : DeliverAndSchedule(entry, d, m)
    \/ Return
    \/ ContextStep /\ UNCHANGED <<held, retimed>>

Spec == Init /\ [][Next]_vars

\* process() runs to its end once it is called: the loop goes on as long as
\* there is something to deliver, and a call into the patch returns, whatever
\* the patch does in it, since it is a finite tree of calls.  Nothing makes
\* the host call process().
Fairness ==
    /\ WF_vars(\E entry \in Entries :
                   \/ Deliver(entry)
                   \/ /\ entry.object \in Trackers
                      /\ \E d \in Delays, m \in Messages :
                             DeliverAndSchedule(entry, d, m))
    /\ []<>(cascade = "none")
    /\ WF_vars(BeginDsp /\ UNCHANGED <<held, retimed>>)

FairSpec == Spec /\ Fairness

-----------------------------------------------------------------------------
\* A tracker can cancel every message it has in the queue, with the outlet it
\* was scheduled for, and never cancels another: the pointers it keeps are
\* exactly its queued messages.  With a pointer kept past the delivery, or
\* past a first cancel, the message would be freed twice; with one lost, it
\* could not be stopped.
HeldIsQueued ==
    \A o \in Trackers, m \in Messages :
        m \in held[o] <=> \E i \in 1 .. Len(ctx.queue) :
                              ctx.queue[i] = Entry(o, TimedOutlet[o], m)

\* The queue is sorted by timestamp, but for messages whose timestamp a flush
\* has rewritten in place.
QueueOrdered == OrderedExcept(ctx.queue, ctx.timestamp, retimed)

\* Those carry the time of the running cascade, are still queued, and are
\* gone before process() looks at the queue again.
RetimedIsNow ==
    /\ retimed \subseteq Queued
    /\ retimed # {} => cascade # "none"
    /\ \A m \in retimed : ctx.timestamp[m] = now

\* An object schedules a message for the time of the one it reacts to.
SchedulesAtOnce ==
    \E m \in Messages :
        \/ \E o \in Trackers : \E c \in held[o] \cup {NULL} :
               Schedule(o, c, 0, m)
        \/ \E entry \in Entries : /\ entry.object \in Trackers
                                  /\ DeliverAndSchedule(entry, 0, m)

\* The loop of process() ends, whatever the objects schedule, cancel and flush
\* while it runs, unless they schedule without a delay for ever.
LoopEnds ==
    \/ []<><<SchedulesAtOnce>>_vars
    \/ phase = "messages" ~> phase = "dsp"

\* process() delivers within the block and at the time the message has, also
\* if a flush has rewritten that time (PdContext::process, MessagePipe).
DeliveredInOrder == DeliveredInBlock /\ RetimedIsNow

=============================================================================
