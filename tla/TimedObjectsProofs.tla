------------------------- MODULE TimedObjectsProofs -------------------------
(***************************************************************************)
(* The safety of the timed objects of a context, for any number of         *)
(* objects, messages, blocks and delays: what is on the heap, what may be  *)
(* cancelled, and the order in which messages are delivered.               *)
(***************************************************************************)
EXTENDS TimedObjects, PdContextProofs

-----------------------------------------------------------------------------
(***************************************************************************)
(* The pointers that the trackers keep.                                    *)
(***************************************************************************)

\* The pointers in h are those of the entries of the queue.
Matches(h, queue) ==
    \A o \in Trackers, m \in Messages :
        m \in h[o] <=> Entry(o, TimedOutlet[o], m) \in EntriesOf(queue)

\* One pointer given up with one entry.
LEMMA MatchesRemoved ==
    ASSUME NEW h \in [Trackers -> SUBSET Messages], NEW q, NEW r,
           NEW o \in Trackers, NEW m, Matches(h, q),
           EntriesOf(r) = EntriesOf(q) \ {Entry(o, TimedOutlet[o], m)}
    PROVE  /\ [h EXCEPT ![o] = @ \ {m}] \in [Trackers -> SUBSET Messages]
           /\ Matches([h EXCEPT ![o] = @ \ {m}], r)
  BY DEF Matches, Entry

\* One pointer kept for one new entry.
LEMMA MatchesAdded ==
    ASSUME NEW h \in [Trackers -> SUBSET Messages], NEW q, NEW r,
           NEW o \in Trackers, NEW m \in Messages, Matches(h, q),
           EntriesOf(r) = EntriesOf(q) \cup {Entry(o, TimedOutlet[o], m)}
    PROVE  /\ [h EXCEPT ![o] = @ \cup {m}] \in [Trackers -> SUBSET Messages]
           /\ Matches([h EXCEPT ![o] = @ \cup {m}], r)
  BY DEF Matches, Entry

\* An entry of an object that keeps no pointers.
LEMMA MatchesOther ==
    ASSUME NEW h \in [Trackers -> SUBSET Messages], NEW q, NEW r,
           NEW o, o \notin Trackers, NEW outlet, NEW m, Matches(h, q),
           EntriesOf(r) = EntriesOf(q) \cup {Entry(o, outlet, m)}
    PROVE  Matches(h, r)
  BY DEF Matches, Entry

\* The entry that is delivered.
LEMMA MatchesDelivered ==
    ASSUME held \in [Trackers -> SUBSET Messages], Matches(held, ctx.queue),
           NEW entry \in Entries, NEW r, PointsOnce(ctx.queue),
           entry \in EntriesOf(ctx.queue),
           EntriesOf(r) = EntriesOf(ctx.queue) \ {entry}
    PROVE  /\ HeldAfterDelivery(entry) \in [Trackers -> SUBSET Messages]
           /\ Matches(HeldAfterDelivery(entry), r)
PROOF
<1>1. HeldAfterDelivery(entry) \in [Trackers -> SUBSET Messages]
  BY DEF HeldAfterDelivery
<1>2. \A x \in EntriesOf(ctx.queue) : x.message = entry.message => x = entry
  BY DEF PointsOnce, EntriesOf
<1>3. ASSUME NEW o \in Trackers, NEW m \in Messages
      PROVE  m \in HeldAfterDelivery(entry)[o]
                 <=> Entry(o, TimedOutlet[o], m) \in EntriesOf(r)
  <2> DEFINE e == Entry(o, TimedOutlet[o], m)
  <2>1. e.object = o /\ e.message = m
    BY DEF Entry
  <2>2. m \in held[o] <=> e \in EntriesOf(ctx.queue)
    BY DEF Matches
  <2>3. m \in HeldAfterDelivery(entry)[o]
            <=> m \in held[o] /\ ~ (o = entry.object /\ m = entry.message)
    BY DEF HeldAfterDelivery
  <2> HIDE DEF e
  <2>4. e \in EntriesOf(r) <=> e \in EntriesOf(ctx.queue) /\ e # entry
    OBVIOUS
  <2> QED
    BY <1>2, <2>1, <2>2, <2>3, <2>4 DEF e
<1> QED
  BY <1>1, <1>3 DEF Matches

-----------------------------------------------------------------------------
(***************************************************************************)
(* Ownership: every message on the heap is freed once, and a tracker can   *)
(* reach the messages that it has scheduled.                               *)
(***************************************************************************)

\* The message that process() has popped and not yet freed.
Popping == {inFlight} \ {NULL}

\* The inductive invariant.  That nothing is in flight between two cascades
\* is what keeps process() from losing a message when it pops the next.
Owned ==
    /\ TypeOK
    /\ Sound(ctx, Popping)
    /\ cascade = "none" => inFlight = NULL
    /\ Matches(held, ctx.queue)

\* The invariant has the properties of the model in it.
LEMMA OwnedProperties ==
    ASSUME Owned
    PROVE  TypeOK /\ HeapIsQueuePlusInFlight /\ HeldIsQueued
PROOF
<1>1. NULL \notin Messages
  BY ContextAssumption
<1>2. MessagesOf(ctx.queue) \subseteq Messages
  BY ContextFields DEF Owned, Sound
<1>3. HeapIsQueuePlusInFlight
  BY <1>1, <1>2 DEF Owned, Sound, Popping, HeapIsQueuePlusInFlight, Queued
<1>4. HeldIsQueued
  BY DEF Owned, Matches, HeldIsQueued, EntriesOf
<1> QED
  BY <1>3, <1>4 DEF Owned

\* Nothing is owned in the beginning.
LEMMA OwnedInit == Init => Owned
PROOF
<1> SUFFICES ASSUME Init
             PROVE  Owned
  OBVIOUS
<1> USE DEF Init, ContextInit
<1>1. ctx \in Contexts
  BY DEF Contexts
<1>2. TypeOK
  BY <1>1 DEF TypeOK, ContextTypeOK, Contexts
<1>3. EntriesOf(ctx.queue) = {} /\ MessagesOf(ctx.queue) = {}
  BY DEF EntriesOf, MessagesOf
<1>4. Sound(ctx, Popping)
  BY <1>1, <1>3 DEF Sound, Popping, PointsOnce
<1>5. Matches(held, ctx.queue)
  BY <1>3 DEF Matches
<1> QED
  BY <1>2, <1>4, <1>5 DEF Owned

\* The parts of the invariant that a step must establish when it says what
\* becomes of the queue and the heap.
LEMMA OwnedAfter ==
    ASSUME Owned,
           held' \in [Trackers -> SUBSET Messages], retimed' \in SUBSET Messages,
           blockStartTimestamp' = blockStartTimestamp, phase' = phase,
           cascade' = cascade, now' = now, inFlight' = inFlight,
           Sound(ctx', Popping), Matches(held', ctx'.queue)
    PROVE  Owned'
  BY DEF Owned, TypeOK, ContextTypeOK, Sound, Contexts, Popping, Matches

\* An object that replaces its pending message owns the new one instead.
LEMMA ScheduleOwned ==
    ASSUME Owned, NEW o \in Trackers, NEW cancelled \in held[o] \cup {NULL},
           NEW delay \in Delays, NEW message \in Messages,
           Schedule(o, cancelled, delay, message)
    PROVE  Owned'
PROOF
<1> DEFINE outlet == TimedOutlet[o]
           c == CancelMessage(ctx, o, outlet, cancelled)
           h == [held EXCEPT ![o] = @ \ {cancelled}]
<1>1. /\ o \in Objects
      /\ outlet \in Outlets
      /\ now + delay \in Int
      /\ held \in [Trackers -> SUBSET Messages]
  BY TrackersAssumption DEF Owned, TypeOK, ContextTypeOK
<1>2. \/ cancelled = NULL
      \/ Entry(o, outlet, cancelled) \in EntriesOf(ctx.queue)
  BY <1>1 DEF Owned, Matches
<1>3. /\ Sound(c, Popping)
      /\ EntriesOf(c.queue)
             = EntriesOf(ctx.queue) \ {Entry(o, outlet, cancelled)}
  <2>1. Sound(ctx, Popping)
    BY DEF Owned
  <2>2. ASSUME NEW n, NEW m,
               m = NULL \/ Entry(o, n, m) \in EntriesOf(ctx.queue)
        PROVE  /\ Sound(CancelMessage(ctx, o, n, m), Popping)
               /\ EntriesOf(CancelMessage(ctx, o, n, m).queue)
                      = EntriesOf(ctx.queue) \ {Entry(o, n, m)}
    BY ONLY <2>1, <2>2, CancelMessageSound
  <2> QED
    BY <1>2, <2>2
<1>4. h \in [Trackers -> SUBSET Messages] /\ Matches(h, c.queue)
  BY <1>1, <1>3, MatchesRemoved DEF Owned
<1>5. /\ message \in Fresh(c)
      /\ ctx' = ScheduleMessage(c, o, outlet, message, now + delay)
      /\ held' = [held EXCEPT ![o] = (@ \ {cancelled}) \cup {message}]
      /\ retimed' = retimed
  BY DEF Schedule
<1> HIDE DEF c
<1>6. /\ Sound(ctx', Popping)
      /\ EntriesOf(ctx'.queue)
             = EntriesOf(c.queue) \cup {Entry(o, outlet, message)}
  <2> DEFINE time == now + delay
             d == ScheduleMessage(c, o, outlet, message, time)
  <2>1. time \in Int /\ ctx' = d /\ o \in Objects /\ outlet \in Outlets
    BY <1>1, <1>5
  <2>2. Sound(c, Popping) /\ message \in Fresh(c)
    BY <1>3, <1>5
  <2> HIDE DEF time, outlet
  <2>3. /\ Sound(d, Popping)
        /\ EntriesOf(d.queue)
               = EntriesOf(c.queue) \cup {Entry(o, outlet, message)}
    BY ONLY <2>1, <2>2, ScheduleMessageSound
  <2> QED
    BY <2>1, <2>3 DEF outlet
<1>7. held' = [h EXCEPT ![o] = @ \cup {message}]
  BY <1>1, <1>5
<1> HIDE DEF h
<1>8. held' \in [Trackers -> SUBSET Messages] /\ Matches(held', ctx'.queue)
  BY <1>4, <1>6, <1>7, MatchesAdded
<1> QED
  BY <1>5, <1>6, <1>8, OwnedAfter DEF Schedule, Owned, TypeOK

\* Cancel and FlushCancel do the same to the queue, the heap and the pointers.
LEMMA CancelOwned ==
    ASSUME Owned, NEW o \in Trackers, NEW message \in held[o],
           ctx' = CancelMessage(ctx, o, TimedOutlet[o], message),
           held' = [held EXCEPT ![o] = @ \ {message}],
           retimed' \subseteq retimed,
           UNCHANGED <<blockStartTimestamp, phase, cascade, now, inFlight>>
    PROVE  Owned'
PROOF
<1>1. held \in [Trackers -> SUBSET Messages] /\ retimed \in SUBSET Messages
  BY DEF Owned, TypeOK
<1>2. Entry(o, TimedOutlet[o], message) \in EntriesOf(ctx.queue)
  BY <1>1 DEF Owned, Matches
<1>3. /\ Sound(ctx', Popping)
      /\ EntriesOf(ctx'.queue)
             = EntriesOf(ctx.queue) \ {Entry(o, TimedOutlet[o], message)}
  BY <1>2, CancelMessageSound DEF Owned
<1>4. held' \in [Trackers -> SUBSET Messages] /\ Matches(held', ctx'.queue)
  BY <1>1, <1>3, MatchesRemoved DEF Owned
<1> QED
  BY <1>1, <1>3, <1>4, OwnedAfter

\* A flush that sends a queued message moves it in time and keeps it owned.
LEMMA FlushSendOwned ==
    ASSUME Owned, NEW o \in Trackers, NEW message \in held[o],
           FlushSend(o, message)
    PROVE  Owned'
PROOF
<1>1. /\ ctx \in Contexts
      /\ now \in Int
      /\ message \in Messages
      /\ held \in [Trackers -> SUBSET Messages]
      /\ retimed \in SUBSET Messages
  BY DEF Owned, Sound, TypeOK, ContextTypeOK
<1>2. ctx' = SetTimestamp(ctx, message, now)
  BY DEF FlushSend
<1>3. ctx' \in Contexts /\ ctx'.queue = ctx.queue /\ ctx'.live = ctx.live
  BY <1>1, <1>2, SetTimestampFields
<1>4. Sound(ctx', Popping)
  BY <1>3 DEF Owned, Sound
<1>5. /\ held' = held
      /\ retimed' = retimed \cup {message}
      /\ Matches(held', ctx'.queue)
  BY <1>3 DEF FlushSend, Owned
<1> QED
  BY <1>1, <1>4, <1>5, OwnedAfter DEF FlushSend

\* What the loop of process() hands to the object it sends a message with.
LEMMA DispatchOwned ==
    ASSUME Owned, NEW entry \in Entries, Dispatch(entry)
    PROVE  /\ Sound(ctx, {})
           /\ Sound(Popped(entry), {entry.message})
           /\ Popping' = {entry.message}
           /\ entry \in EntriesOf(ctx.queue)
           /\ EntriesOf(Popped(entry).queue) = EntriesOf(ctx.queue) \ {entry}
           /\ HeldAfterDelivery(entry) \in [Trackers -> SUBSET Messages]
           /\ Matches(HeldAfterDelivery(entry), Popped(entry).queue)
           /\ now' \in Int /\ inFlight' \in Messages
PROOF
<1>1. Sound(ctx, {})
  BY DEF Owned, Dispatch, Popping
<1>2. /\ ~ IsEmpty(ctx.queue)
      /\ blockStartTimestamp \in Int
      /\ entry = Peek(ctx.queue)
  BY DEF Dispatch, Due, Owned, TypeOK, ContextTypeOK
<1>3. /\ Sound(Popped(entry), {entry.message})
      /\ entry \in EntriesOf(ctx.queue)
      /\ entry.message \in Messages
      /\ EntriesOf(Popped(entry).queue) = EntriesOf(ctx.queue) \ {entry}
  BY ONLY <1>1, <1>2, PoppedSound
<1>4. /\ HeldAfterDelivery(entry) \in [Trackers -> SUBSET Messages]
      /\ Matches(HeldAfterDelivery(entry), Popped(entry).queue)
  <2>1. /\ held \in [Trackers -> SUBSET Messages]
        /\ Matches(held, ctx.queue)
        /\ PointsOnce(ctx.queue)
    BY DEF Owned, TypeOK, Sound
  <2> QED
    BY ONLY <1>3, <2>1, entry \in Entries, MatchesDelivered
<1>5. Popping' = {entry.message} /\ inFlight' \in Messages
  BY <1>3, ContextAssumption DEF Dispatch, Popping
<1>6. now' \in Int
  <2>1. ctx.timestamp[entry.message] \in Int
    BY <1>3, ContextFields DEF Owned, Sound
  <2> QED
    BY <1>2, <2>1 DEF Dispatch, DeliveryTime
<1> QED
  BY <1>1, <1>3, <1>4, <1>5, <1>6

\* A message that is popped is owned by process() from then on.
LEMMA DeliverOwned ==
    ASSUME Owned, NEW entry \in Entries, Deliver(entry)
    PROVE  Owned'
PROOF
<1>1. Dispatch(entry)
  BY DEF Deliver
<1>2. Sound(ctx', Popping') /\ Matches(held', ctx'.queue)
  BY <1>1, DispatchOwned DEF Deliver
<1>3. TypeOK'
  <2>1. held' \in [Trackers -> SUBSET Messages] /\ now' \in Int
        /\ inFlight' \in Messages
    BY <1>1, DispatchOwned DEF Deliver
  <2>2. /\ blockStartTimestamp' = blockStartTimestamp
        /\ phase' = phase
        /\ cascade' = "process"
        /\ retimed' = retimed
    BY DEF Deliver, Dispatch
  <2> QED
    BY <1>2, <2>1, <2>2 DEF Owned, TypeOK, ContextTypeOK, Sound, Contexts
<1>4. cascade' # "none"
  BY DEF Deliver, Dispatch
<1> QED
  BY <1>2, <1>3, <1>4 DEF Owned, Matches

\* So it is when the object schedules the next before it sends this one.
LEMMA DeliverAndScheduleOwned ==
    ASSUME Owned, NEW entry \in Entries, entry.object \in Trackers,
           NEW delay \in Delays, NEW message \in Messages,
           DeliverAndSchedule(entry, delay, message)
    PROVE  Owned'
PROOF
<1> DEFINE o == entry.object
           outlet == TimedOutlet[o]
           c == Popped(entry)
           h == HeldAfterDelivery(entry)
           time == now' + delay
           d == ScheduleMessage(c, o, outlet, message, time)
<1>1. Dispatch(entry)
  BY DEF DeliverAndSchedule
<1>2. /\ Sound(c, {entry.message})
      /\ Popping' = {entry.message}
      /\ h \in [Trackers -> SUBSET Messages]
      /\ Matches(h, c.queue)
      /\ now' \in Int
      /\ inFlight' \in Messages
  BY <1>1, DispatchOwned
<1>3. message \in Fresh(c)
  <2>1. c.live = ctx.live
    BY <1>1 DEF Popped, SetTimestamp, Owned, Sound, Contexts
  <2> QED
    BY <2>1 DEF DeliverAndSchedule, Fresh
<1>4. /\ o \in Objects
      /\ outlet \in Outlets
      /\ time \in Int
  BY <1>2, TrackersAssumption
<1>5. ctx' = d /\ held' = [h EXCEPT ![o] = @ \cup {message}]
  BY DEF DeliverAndSchedule
<1> HIDE DEF o, c, h, time, outlet
<1>6. /\ Sound(d, {entry.message})
      /\ EntriesOf(d.queue)
             = EntriesOf(c.queue) \cup {Entry(o, outlet, message)}
  <2> DEFINE out == {entry.message}
  <2>1. Sound(c, out)
    BY <1>2
  <2> HIDE DEF out
  <2>2. /\ Sound(d, out)
        /\ EntriesOf(d.queue)
               = EntriesOf(c.queue) \cup {Entry(o, outlet, message)}
    BY ONLY <1>3, <1>4, <2>1, ScheduleMessageSound
  <2> QED
    BY <2>2 DEF out
<1>7. held' \in [Trackers -> SUBSET Messages] /\ Matches(held', d.queue)
  BY <1>2, <1>5, <1>6, entry.object \in Trackers, MatchesAdded
     DEF o, outlet
<1>8. TypeOK'
  <2>1. /\ blockStartTimestamp' = blockStartTimestamp
        /\ phase' = phase
        /\ cascade' = "process"
        /\ retimed' = retimed
    BY DEF DeliverAndSchedule, Dispatch
  <2>2. ctx' \in Contexts
    BY <1>5, <1>6 DEF Sound
  <2> QED
    BY <1>2, <1>7, <2>1, <2>2 DEF Owned, TypeOK, ContextTypeOK, Contexts
<1>9. cascade' # "none"
  BY <1>1 DEF Dispatch
<1>10. Sound(ctx', Popping') /\ Matches(held', ctx'.queue)
  BY <1>2, <1>5, <1>6, <1>7
<1> QED
  BY <1>8, <1>9, <1>10 DEF Owned, Matches

\* ScheduleFromDsp and ScheduleExternal: an object that keeps no pointer.
LEMMA ScheduleOtherOwned ==
    ASSUME Owned, NEW object \in Objects \ Trackers, NEW outlet \in Outlets,
           NEW message \in Fresh(ctx), NEW time \in Int,
           ctx' = ScheduleMessage(ctx, object, outlet, message, time),
           UNCHANGED <<blockStartTimestamp, phase, cascade, now, inFlight,
                       held, retimed>>
    PROVE  Owned'
PROOF
<1> DEFINE d == ScheduleMessage(ctx, object, outlet, message, time)
<1>1. Sound(ctx, Popping) /\ object \in Objects
  BY DEF Owned
<1>2. /\ Sound(d, Popping)
      /\ EntriesOf(d.queue)
             = EntriesOf(ctx.queue) \cup {Entry(object, outlet, message)}
  BY ONLY <1>1, message \in Fresh(ctx), outlet \in Outlets, time \in Int,
          ScheduleMessageSound
<1>3. held \in [Trackers -> SUBSET Messages] /\ retimed \in SUBSET Messages
  BY DEF Owned, TypeOK
<1>4. Matches(held, d.queue)
  BY <1>2, <1>3, MatchesOther DEF Owned
<1> QED
  BY <1>2, <1>3, <1>4, OwnedAfter

\* process() frees the message it has delivered.
LEMMA ReturnOwned ==
    ASSUME Owned, Return
    PROVE  Owned'
PROOF
<1>1. /\ ctx \in Contexts
      /\ ctx' = FreeMessage(ctx, inFlight)
      /\ inFlight' = NULL
  BY DEF Owned, Sound, Return, EndCascade
<1>2. /\ ctx' \in Contexts
      /\ ctx'.queue = ctx.queue
      /\ ctx'.live = ctx.live \ {inFlight}
  BY <1>1, FreeMessageFields
<1>3. MessagesOf(ctx.queue) \subseteq Messages /\ NULL \notin Messages
  BY <1>1, ContextFields, ContextAssumption
<1>4. Sound(ctx', {}) /\ Popping' = {}
  BY <1>1, <1>2, <1>3 DEF Owned, Sound, Popping
<1>5. TypeOK'
  BY <1>2 DEF Owned, TypeOK, ContextTypeOK, Contexts, Return, EndCascade
<1>6. Matches(held', ctx'.queue)
  BY <1>2 DEF Owned, Return
<1> QED
  BY <1>1, <1>4, <1>5, <1>6 DEF Owned, Matches

\* The steps that leave the queue and the heap alone.
LEMMA QuietOwned ==
    ASSUME Owned, UNCHANGED <<ctx, inFlight, held, retimed>>,
           \/ \E t \in DirectTimes : BeginCascade(t)
           \/ BeginProcess
           \/ BeginDsp
           \/ EndProcess
           \/ UNCHANGED vars
    PROVE  Owned'
PROOF
<1>1. TypeOK'
  BY ContextAssumption
     DEF Owned, TypeOK, ContextTypeOK, BeginCascade, BeginProcess, BeginDsp,
         EndProcess, vars, contextVars, nextBlockStartTimestamp
<1>2. cascade' = "none" => cascade = "none"
  BY DEF BeginCascade, BeginProcess, BeginDsp, EndProcess, vars, contextVars
<1> QED
  BY <1>1, <1>2 DEF Owned, Matches, Popping

\* Every step keeps the invariant.
LEMMA OwnedNext ==
    ASSUME Owned, [Next]_vars
    PROVE  Owned'
PROOF
<1>1. held \in [Trackers -> SUBSET Messages] /\ retimed \in SUBSET Messages
  BY DEF Owned, TypeOK
<1>2. ASSUME NEW o \in Trackers, TrackerStep(o)
      PROVE  Owned'
  <2>1. ASSUME NEW c \in held[o] \cup {NULL}, NEW d \in Delays,
               NEW m \in Messages, Schedule(o, c, d, m)
        PROVE  Owned'
    BY <2>1, ScheduleOwned
  <2>2. ASSUME NEW m \in held[o], Cancel(o, m)
        PROVE  Owned'
    BY <2>2, CancelOwned DEF Cancel
  <2>3. ASSUME NEW m \in held[o], FlushSend(o, m)
        PROVE  Owned'
    BY <2>3, FlushSendOwned
  <2>4. ASSUME NEW m \in held[o], FlushCancel(o, m)
        PROVE  Owned'
    <3>1. retimed' \subseteq retimed
      BY <2>4 DEF FlushCancel
    <3> QED
      BY <2>4, <3>1, CancelOwned DEF FlushCancel
  <2> QED
    BY <1>2, <2>1, <2>2, <2>3, <2>4 DEF TrackerStep
<1>3. ASSUME NEW o \in Objects \ Trackers, NEW n \in Outlets,
             NEW m \in Messages, ScheduleFromDsp(o, n, m)
      PROVE  Owned'
  BY <1>3, ScheduleOtherOwned DEF ScheduleFromDsp
<1>4. ASSUME NEW entry \in Entries, Deliver(entry)
      PROVE  Owned'
  BY <1>4, DeliverOwned
<1>5. ASSUME NEW entry \in Entries, entry.object \in Trackers,
             NEW d \in Delays, NEW m \in Messages,
             DeliverAndSchedule(entry, d, m)
      PROVE  Owned'
  BY <1>5, DeliverAndScheduleOwned
<1>6. CASE Return
  BY <1>6, ReturnOwned
<1>7. CASE ContextStep /\ UNCHANGED <<held, retimed>>
  <2>1. ASSUME NEW n \in Outlets, NEW t \in DirectTimes, NEW m \in Fresh(ctx),
               ScheduleExternal(n, t, m)
        PROVE  Owned'
    <3>1. SendController \in Objects \ Trackers /\ t \in Int
      BY ContextAssumption, TrackersAssumption
    <3> QED
      BY <1>7, <2>1, <3>1, ScheduleOtherOwned DEF ScheduleExternal
  <2>2. CASE \/ \E t \in DirectTimes : BeginCascade(t)
             \/ BeginProcess
             \/ BeginDsp
             \/ EndProcess
    <3>1. UNCHANGED <<ctx, inFlight>>
      BY <2>2 DEF BeginCascade, BeginProcess, BeginDsp, EndProcess
    <3> QED
      BY <1>7, <2>2, <3>1, QuietOwned
  <2> QED
    BY <1>7, <2>1, <2>2 DEF ContextStep
<1>8. CASE UNCHANGED vars
  <2>1. UNCHANGED <<ctx, inFlight, held, retimed>>
    BY <1>8 DEF vars, contextVars
  <2> QED
    BY <1>8, <2>1, QuietOwned
<1> QED
  BY <1>2, <1>3, <1>4, <1>5, <1>6, <1>7, <1>8 DEF Next

-----------------------------------------------------------------------------
(***************************************************************************)
(* What a step does to the messages of a tracker, and of the others.       *)
(***************************************************************************)

\* Each entry of a tracker is one that it can cancel.
OwnOutlets ==
    \A x \in EntriesOf(ctx.queue) :
        x.object \in Trackers => x.outlet = TimedOutlet[x.object]

\* A message that is held is queued, by one tracker and nobody else.
LEMMA HeldApart ==
    ASSUME Owned, NEW o \in Trackers, NEW m \in held[o]
    PROVE  /\ m \in Messages /\ m \in Queued /\ m # inFlight /\ m # NULL
           /\ Entry(o, TimedOutlet[o], m) \in EntriesOf(ctx.queue)
           /\ \A x \in EntriesOf(ctx.queue) :
                  x.message = m => x = Entry(o, TimedOutlet[o], m)
           /\ \A p \in Trackers : m \in held[p] => p = o
PROOF
<1>1. m \in Messages /\ m # NULL
  BY ContextAssumption DEF Owned, TypeOK
<1>2. Entry(o, TimedOutlet[o], m) \in EntriesOf(ctx.queue)
  BY <1>1 DEF Owned, Matches
<1>3. m \in Queued
  BY <1>2, MessagesOfEntries DEF Entry, Queued
<1>4. m # inFlight
  BY <1>3, OwnedProperties DEF HeapIsQueuePlusInFlight
<1>5. \A x, y \in EntriesOf(ctx.queue) : x.message = y.message => x = y
  BY DEF Owned, Sound, PointsOnce, EntriesOf
<1>6. \A x \in EntriesOf(ctx.queue) :
          x.message = m => x = Entry(o, TimedOutlet[o], m)
  BY <1>2, <1>5 DEF Entry
<1>7. ASSUME NEW p \in Trackers, m \in held[p]
      PROVE  p = o
  <2>1. Entry(p, TimedOutlet[p], m) \in EntriesOf(ctx.queue)
    BY <1>1, <1>7 DEF Owned, Matches
  <2> QED
    BY <1>6, <2>1 DEF Entry
<1> QED
  BY <1>1, <1>2, <1>3, <1>4, <1>6, <1>7

\* What a tracker has in the queue is what it holds.
LEMMA EntriesAreHeld ==
    ASSUME Owned, OwnOutlets, NEW x \in EntriesOf(ctx.queue),
           x.object \in Trackers
    PROVE  x.message \in held[x.object]
PROOF
<1>1. x \in Entries
  BY ContextFields DEF Owned, Sound
<1>2. x = Entry(x.object, TimedOutlet[x.object], x.message)
  BY <1>1 DEF Entries, Entry, OwnOutlets
<1>3. x.message \in Messages
  BY <1>1 DEF Entries
<1> QED
  BY <1>2, <1>3 DEF Owned, Matches

LEMMA ScheduleEffect ==
    ASSUME Owned, NEW o \in Trackers, NEW cancelled \in held[o] \cup {NULL},
           NEW delay \in Delays, NEW message \in Messages,
           Schedule(o, cancelled, delay, message)
    PROVE  /\ EntriesOf(ctx'.queue)
                  \subseteq EntriesOf(ctx.queue)
                                \cup {Entry(o, TimedOutlet[o], message)}
           /\ KeptBut(ctx', ctx, {cancelled})
           /\ ctx'.timestamp[message] = now + delay
           /\ message \notin Queued \ {cancelled}
PROOF
<1> DEFINE outlet == TimedOutlet[o]
           c == CancelMessage(ctx, o, outlet, cancelled)
           time == now + delay
           d == ScheduleMessage(c, o, outlet, message, time)
<1>1. /\ o \in Objects
      /\ outlet \in Outlets
      /\ time \in Int
  BY TrackersAssumption DEF Owned, TypeOK, ContextTypeOK
<1>2. message \in Fresh(c) /\ ctx' = d
  BY DEF Schedule
<1>3. Sound(ctx, Popping)
  BY DEF Owned
<1>4. \/ cancelled = NULL
      \/ Entry(o, outlet, cancelled) \in EntriesOf(ctx.queue)
  BY HeldApart
<1> HIDE DEF outlet
<1>5. /\ Sound(c, Popping)
      /\ EntriesOf(c.queue)
             = EntriesOf(ctx.queue) \ {Entry(o, outlet, cancelled)}
      /\ MessagesOf(c.queue) = MessagesOf(ctx.queue) \ {cancelled}
  BY ONLY <1>3, <1>4, CancelMessageSound
<1>6. KeptBut(c, ctx, {cancelled})
  BY ONLY <1>3, <1>4, CancelMessageKeeps
<1> HIDE DEF c, time
<1>7. /\ message \notin MessagesOf(c.queue)
      /\ EntriesOf(d.queue) = EntriesOf(c.queue) \cup {Entry(o, outlet, message)}
      /\ Timestamps(d, c, message, time)
  BY ONLY <1>1, <1>2, <1>5, ScheduleMessageSound
<1>8. KeptBut(d, c, {})
  BY ONLY <1>1, <1>2, <1>5, ScheduleMessageKeeps
<1> HIDE DEF d
<1>9. KeptBut(d, ctx, {cancelled})
  <2>1. KeptBut(d, ctx, {cancelled} \cup {})
    BY ONLY <1>6, <1>8, KeptTwice
  <2>2. {cancelled} \cup {} = {cancelled}
    OBVIOUS
  <2> QED
    BY ONLY <2>1, <2>2
<1>10. d.timestamp[message] = time
  BY <1>7 DEF Timestamps
<1> QED
  BY <1>2, <1>5, <1>7, <1>9, <1>10 DEF Queued, outlet, time

LEMMA CancelEffect ==
    ASSUME Owned, NEW o \in Trackers, NEW message \in held[o],
           ctx' = CancelMessage(ctx, o, TimedOutlet[o], message)
    PROVE  /\ EntriesOf(ctx'.queue) \subseteq EntriesOf(ctx.queue)
           /\ KeptBut(ctx', ctx, {message})
PROOF
<1> DEFINE outlet == TimedOutlet[o]
           c == CancelMessage(ctx, o, outlet, message)
<1>1. Sound(ctx, Popping)
  BY DEF Owned
<1>2. Entry(o, outlet, message) \in EntriesOf(ctx.queue)
  BY HeldApart
<1> HIDE DEF outlet
<1>3. EntriesOf(c.queue) = EntriesOf(ctx.queue) \ {Entry(o, outlet, message)}
  BY ONLY <1>1, <1>2, CancelMessageSound
<1>4. KeptBut(c, ctx, {message})
  BY ONLY <1>1, <1>2, CancelMessageKeeps
<1>5. ctx' = c
  BY DEF outlet
<1> QED
  BY <1>3, <1>4, <1>5

LEMMA FlushSendEffect ==
    ASSUME Owned, NEW o \in Trackers, NEW message \in held[o],
           FlushSend(o, message)
    PROVE  /\ ctx'.queue = ctx.queue
           /\ KeptBut(ctx', ctx, {message})
           /\ ctx'.timestamp[message] = now
PROOF
<1>1. ctx \in Contexts /\ now \in Int /\ message \in Messages
  BY HeldApart DEF Owned, Sound, TypeOK, ContextTypeOK
<1>2. ctx' = SetTimestamp(ctx, message, now)
  BY DEF FlushSend
<1> QED
  BY <1>1, <1>2, SetTimestampFields, SetTimestampKeeps

LEMMA DeliverEffect ==
    ASSUME Owned, NEW entry \in Entries, Dispatch(entry)
    PROVE  /\ entry \in EntriesOf(ctx.queue)
           /\ EntriesOf(Popped(entry).queue) = EntriesOf(ctx.queue) \ {entry}
           /\ KeptBut(Popped(entry), ctx, {entry.message})
PROOF
<1>1. Sound(ctx, {})
  BY DEF Owned, Dispatch, Popping
<1>2. /\ ~ IsEmpty(ctx.queue)
      /\ blockStartTimestamp \in Int
      /\ entry = Peek(ctx.queue)
  BY DEF Dispatch, Due, Owned, TypeOK, ContextTypeOK
<1> QED
  BY ONLY <1>1, <1>2, PoppedSound, PoppedKeeps

LEMMA DeliverAndScheduleEffect ==
    ASSUME Owned, NEW entry \in Entries, entry.object \in Trackers,
           NEW delay \in Delays, NEW message \in Messages,
           DeliverAndSchedule(entry, delay, message)
    PROVE  /\ EntriesOf(ctx'.queue)
                  \subseteq EntriesOf(ctx.queue)
                                \cup {Entry(entry.object,
                                            TimedOutlet[entry.object], message)}
           /\ KeptBut(ctx', ctx, {entry.message})
           /\ ctx'.timestamp[message] = now' + delay
           /\ message \notin Queued
PROOF
<1> DEFINE o == entry.object
           outlet == TimedOutlet[o]
           c == Popped(entry)
           time == now' + delay
           d == ScheduleMessage(c, o, outlet, message, time)
<1>1. Dispatch(entry) /\ message \in Fresh(ctx) /\ ctx' = d
  BY DEF DeliverAndSchedule
<1>2. /\ Sound(ctx, {})
      /\ Sound(c, {entry.message})
      /\ now' \in Int
  BY <1>1, DispatchOwned
<1>3. /\ EntriesOf(c.queue) = EntriesOf(ctx.queue) \ {entry}
      /\ KeptBut(c, ctx, {entry.message})
  BY <1>1, DeliverEffect
<1>4. message \in Fresh(c)
  <2>1. c.live = ctx.live
    BY DEF Popped, SetTimestamp, Owned, Sound, Contexts
  <2> QED
    BY <1>1, <2>1 DEF Fresh
<1>5. /\ o \in Objects
      /\ outlet \in Outlets
      /\ time \in Int
  BY <1>2, TrackersAssumption
<1>6. message \notin Queued
  BY <1>1, <1>2 DEF Fresh, Sound, Queued
<1> HIDE DEF o, c, time, outlet
<1>7. /\ EntriesOf(d.queue) = EntriesOf(c.queue) \cup {Entry(o, outlet, message)}
      /\ Timestamps(d, c, message, time)
      /\ KeptBut(d, c, {})
  <2> DEFINE out == {entry.message}
  <2>1. Sound(c, out)
    BY <1>2
  <2> HIDE DEF out
  <2>2. /\ EntriesOf(d.queue)
               = EntriesOf(c.queue) \cup {Entry(o, outlet, message)}
        /\ Timestamps(d, c, message, time)
    BY ONLY <1>4, <1>5, <2>1, ScheduleMessageSound
  <2>3. KeptBut(d, c, {})
    BY ONLY <1>4, <1>5, <2>1, ScheduleMessageKeeps
  <2> QED
    BY <2>2, <2>3
<1> HIDE DEF d
<1>8. KeptBut(d, ctx, {entry.message})
  <2>1. KeptBut(d, ctx, {entry.message} \cup {})
    BY ONLY <1>3, <1>7, KeptTwice
  <2>2. {entry.message} \cup {} = {entry.message}
    OBVIOUS
  <2> QED
    BY ONLY <2>1, <2>2
<1>9. d.timestamp[message] = time
  BY <1>7 DEF Timestamps
<1> QED
  BY <1>1, <1>3, <1>6, <1>7, <1>8, <1>9 DEF o, outlet, time

LEMMA ScheduleOtherEffect ==
    ASSUME Owned, NEW object \in Objects \ Trackers, NEW outlet \in Outlets,
           NEW message \in Fresh(ctx), NEW time \in Int,
           ctx' = ScheduleMessage(ctx, object, outlet, message, time)
    PROVE  /\ EntriesOf(ctx'.queue)
                  = EntriesOf(ctx.queue) \cup {Entry(object, outlet, message)}
           /\ KeptBut(ctx', ctx, {})
PROOF
<1> DEFINE d == ScheduleMessage(ctx, object, outlet, message, time)
<1>1. Sound(ctx, Popping) /\ object \in Objects
  BY DEF Owned
<1>2. EntriesOf(d.queue)
          = EntriesOf(ctx.queue) \cup {Entry(object, outlet, message)}
  BY ONLY <1>1, message \in Fresh(ctx), outlet \in Outlets, time \in Int,
          ScheduleMessageSound
<1>3. KeptBut(d, ctx, {})
  BY ONLY <1>1, message \in Fresh(ctx), outlet \in Outlets, time \in Int,
          ScheduleMessageKeeps
<1> QED
  BY <1>2, <1>3

LEMMA ReturnEffect ==
    ASSUME Owned, Return
    PROVE  ctx'.queue = ctx.queue /\ KeptBut(ctx', ctx, {})
PROOF
<1>1. /\ ctx \in Contexts
      /\ ctx' = FreeMessage(ctx, inFlight)
  BY DEF Owned, Sound, Return, EndCascade
<1>2. inFlight \notin MessagesOf(ctx.queue)
  BY OwnedProperties DEF HeapIsQueuePlusInFlight, Queued
<1> QED
  BY <1>1, <1>2, FreeMessageFields, FreeMessageKeeps

\* A step that is not one of the tracker o.
StepOfOthers(o) ==
    \/ \E p \in Trackers \ {o} : TrackerStep(p)
    \/ \E p \in Objects \ Trackers, n \in Outlets, m \in Messages :
           ScheduleFromDsp(p, n, m)
    \/ \E entry \in Entries :
           /\ entry.object # o
           /\ \/ Deliver(entry)
              \/ /\ entry.object \in Trackers
                 /\ \E d \in Delays, m \in Messages :
                        DeliverAndSchedule(entry, d, m)
    \/ Return
    \/ ContextStep /\ UNCHANGED <<held, retimed>>
    \/ UNCHANGED vars

\* The messages of o are left alone.
KeptOf(o) ==
    /\ held'[o] = held[o]
    /\ \A m \in held[o] :
           /\ ctx'.timestamp[m] = ctx.timestamp[m]
           /\ m \in retimed' <=> m \in retimed
           /\ \A n \in held[o] :
                  Before(ctx.queue, m, n) => Before(ctx'.queue, m, n)

\* What is kept of the queue is kept of its messages.
LEMMA KeptOfHeld ==
    ASSUME Owned, NEW o \in Trackers, NEW gone, gone \cap held[o] = {},
           KeptBut(ctx', ctx, gone), held'[o] = held[o],
           \A m \in held[o] : m \in retimed' <=> m \in retimed
    PROVE  KeptOf(o)
PROOF
<1>1. \A m \in held[o] : m \in MessagesOf(ctx.queue) \ gone
  BY HeldApart DEF Queued
<1> QED
  BY <1>1 DEF KeptOf, KeptBut

\* An object that is not called does not lose its messages, and finds them
\* at the times and in the order in which it left them.
LEMMA OthersKeep ==
    ASSUME Owned, NEW o \in Trackers, StepOfOthers(o)
    PROVE  KeptOf(o)
PROOF
<1>1. held \in [Trackers -> SUBSET Messages]
  BY DEF Owned, TypeOK
<1>2. ASSUME NEW p \in Trackers \ {o}, TrackerStep(p)
      PROVE  KeptOf(o)
  <2>1. held[p] \cap held[o] = {} /\ NULL \notin held[o]
    BY HeldApart
  <2>2. ASSUME NEW c \in held[p] \cup {NULL}, NEW d \in Delays,
               NEW m \in Messages, Schedule(p, c, d, m)
        PROVE  KeptOf(o)
    <3>1. KeptBut(ctx', ctx, {c})
      BY <2>2, ScheduleEffect
    <3>2. held'[o] = held[o] /\ retimed' = retimed
      BY <1>1, <2>2 DEF Schedule
    <3>3. {c} \cap held[o] = {}
      BY <2>1
    <3> QED
      BY ONLY Owned, o \in Trackers, <3>1, <3>2, <3>3, KeptOfHeld
  <2>3. ASSUME NEW m \in held[p], Cancel(p, m)
        PROVE  KeptOf(o)
    <3>1. KeptBut(ctx', ctx, {m})
      BY <2>3, CancelEffect DEF Cancel
    <3>2. held'[o] = held[o] /\ retimed' = retimed
      BY <1>1, <2>3 DEF Cancel
    <3>3. {m} \cap held[o] = {}
      BY <2>1
    <3> QED
      BY ONLY Owned, o \in Trackers, <3>1, <3>2, <3>3, KeptOfHeld
  <2>4. ASSUME NEW m \in held[p], FlushSend(p, m)
        PROVE  KeptOf(o)
    <3>1. KeptBut(ctx', ctx, {m})
      BY <2>4, FlushSendEffect
    <3>2. held'[o] = held[o] /\ retimed' = retimed \cup {m}
      BY <2>4 DEF FlushSend
    <3>3. {m} \cap held[o] = {}
      BY <2>1
    <3>4. \A x \in held[o] : x \in retimed' <=> x \in retimed
      BY <3>2, <3>3
    <3> QED
      BY ONLY Owned, o \in Trackers, <3>1, <3>2, <3>3, <3>4, KeptOfHeld
  <2>5. ASSUME NEW m \in held[p], FlushCancel(p, m)
        PROVE  KeptOf(o)
    <3>1. KeptBut(ctx', ctx, {m})
      BY <2>5, CancelEffect DEF FlushCancel
    <3>2. held'[o] = held[o] /\ retimed' = retimed \ {m}
      BY <1>1, <2>5 DEF FlushCancel
    <3>3. {m} \cap held[o] = {}
      BY <2>1
    <3>4. \A x \in held[o] : x \in retimed' <=> x \in retimed
      BY <3>2, <3>3
    <3> QED
      BY ONLY Owned, o \in Trackers, <3>1, <3>2, <3>3, <3>4, KeptOfHeld
  <2> QED
    BY <1>2, <2>2, <2>3, <2>4, <2>5 DEF TrackerStep
<1>3. ASSUME NEW p \in Objects \ Trackers, NEW n \in Outlets,
             NEW m \in Messages, ScheduleFromDsp(p, n, m)
      PROVE  KeptOf(o)
  <2>1. KeptBut(ctx', ctx, {})
    BY <1>3, ScheduleOtherEffect DEF ScheduleFromDsp
  <2> QED
    BY <1>3, <2>1, KeptOfHeld DEF ScheduleFromDsp
<1>4. ASSUME NEW entry \in Entries, entry.object # o, Dispatch(entry),
             KeptBut(ctx', ctx, {entry.message}),
             held'[o] = held[o], retimed' = retimed
      PROVE  KeptOf(o)
  <2>1. entry \in EntriesOf(ctx.queue)
    BY <1>4, DeliverEffect
  <2>2. ASSUME NEW m \in held[o]
        PROVE  m # entry.message
    <3>1. m = entry.message => entry = Entry(o, TimedOutlet[o], m)
      BY <2>1, HeldApart
    <3>2. Entry(o, TimedOutlet[o], m).object = o
      BY DEF Entry
    <3> QED
      BY <1>4, <3>1, <3>2
  <2>3. {entry.message} \cap held[o] = {}
    BY <2>2
  <2> QED
    BY ONLY Owned, o \in Trackers, <1>4, <2>3, KeptOfHeld
<1>5. ASSUME NEW entry \in Entries, entry.object # o, Deliver(entry)
      PROVE  KeptOf(o)
  BY <1>4, <1>5, DeliverEffect DEF Deliver, HeldAfterDelivery
<1>6. ASSUME NEW entry \in Entries, entry.object # o,
             entry.object \in Trackers, NEW d \in Delays, NEW m \in Messages,
             DeliverAndSchedule(entry, d, m)
      PROVE  KeptOf(o)
  <2>1. KeptBut(ctx', ctx, {entry.message})
    BY <1>6, DeliverAndScheduleEffect
  <2>2. /\ Dispatch(entry)
        /\ held'[o] = held[o]
        /\ retimed' = retimed
    BY <1>6 DEF DeliverAndSchedule, HeldAfterDelivery
  <2> QED
    BY <1>4, <1>6, <2>1, <2>2
<1>7. CASE Return
  <2>1. KeptBut(ctx', ctx, {})
    BY <1>7, ReturnEffect
  <2> QED
    BY <1>7, <2>1, KeptOfHeld DEF Return
<1>8. CASE ContextStep /\ UNCHANGED <<held, retimed>>
  <2>1. ASSUME NEW n \in Outlets, NEW t \in DirectTimes, NEW m \in Fresh(ctx),
               ScheduleExternal(n, t, m)
        PROVE  KeptOf(o)
    <3>1. SendController \in Objects \ Trackers /\ t \in Int
      BY ContextAssumption, TrackersAssumption
    <3>2. KeptBut(ctx', ctx, {})
      BY <2>1, <3>1, ScheduleOtherEffect DEF ScheduleExternal
    <3> QED
      BY <1>8, <3>2, KeptOfHeld
  <2>2. CASE ctx' = ctx
    BY <1>8, <2>2 DEF KeptOf
  <2> QED
    BY <1>8, <2>1, <2>2
       DEF ContextStep, BeginCascade, BeginProcess, BeginDsp, EndProcess
<1>9. CASE UNCHANGED vars
  BY <1>9 DEF vars, contextVars, KeptOf
<1> QED
  BY <1>2, <1>3, <1>5, <1>6, <1>7, <1>8, <1>9 DEF StepOfOthers

\* A tracker schedules with its own outlet.
LEMMA OwnOutletsNext ==
    ASSUME Owned, OwnOutlets, [Next]_vars
    PROVE  OwnOutlets'
PROOF
<1>1. ASSUME NEW o \in Trackers, NEW m,
             EntriesOf(ctx'.queue)
                 \subseteq EntriesOf(ctx.queue) \cup {Entry(o, TimedOutlet[o], m)}
      PROVE  OwnOutlets'
  BY <1>1 DEF OwnOutlets, Entry
<1>2. ASSUME NEW o \in Objects \ Trackers, NEW n, NEW m,
             EntriesOf(ctx'.queue)
                 = EntriesOf(ctx.queue) \cup {Entry(o, n, m)}
      PROVE  OwnOutlets'
  BY <1>2 DEF OwnOutlets, Entry
<1>3. ASSUME EntriesOf(ctx'.queue) \subseteq EntriesOf(ctx.queue)
      PROVE  OwnOutlets'
  BY <1>3 DEF OwnOutlets
<1>4. ASSUME NEW o \in Trackers, TrackerStep(o)
      PROVE  OwnOutlets'
  <2>1. ASSUME NEW c \in held[o] \cup {NULL}, NEW d \in Delays,
               NEW m \in Messages, Schedule(o, c, d, m)
        PROVE  OwnOutlets'
    BY <1>1, <2>1, ScheduleEffect
  <2>2. ASSUME NEW m \in held[o], Cancel(o, m) \/ FlushCancel(o, m)
        PROVE  OwnOutlets'
    BY <1>3, <2>2, CancelEffect DEF Cancel, FlushCancel
  <2>3. ASSUME NEW m \in held[o], FlushSend(o, m)
        PROVE  OwnOutlets'
    BY <1>3, <2>3, FlushSendEffect
  <2> QED
    BY <1>4, <2>1, <2>2, <2>3 DEF TrackerStep
<1>5. ASSUME NEW o \in Objects \ Trackers, NEW n \in Outlets,
             NEW m \in Messages, ScheduleFromDsp(o, n, m)
      PROVE  OwnOutlets'
  BY <1>2, <1>5, ScheduleOtherEffect DEF ScheduleFromDsp
<1>6. ASSUME NEW entry \in Entries, Deliver(entry)
      PROVE  OwnOutlets'
  BY <1>3, <1>6, DeliverEffect DEF Deliver
<1>7. ASSUME NEW entry \in Entries, entry.object \in Trackers,
             NEW d \in Delays, NEW m \in Messages,
             DeliverAndSchedule(entry, d, m)
      PROVE  OwnOutlets'
  BY <1>1, <1>7, DeliverAndScheduleEffect
<1>8. CASE Return
  BY <1>3, <1>8, ReturnEffect
<1>9. CASE ContextStep /\ UNCHANGED <<held, retimed>>
  <2>1. ASSUME NEW n \in Outlets, NEW t \in DirectTimes, NEW m \in Fresh(ctx),
               ScheduleExternal(n, t, m)
        PROVE  OwnOutlets'
    <3>1. SendController \in Objects \ Trackers /\ t \in Int
      BY ContextAssumption, TrackersAssumption
    <3> QED
      BY <1>2, <2>1, <3>1, ScheduleOtherEffect DEF ScheduleExternal
  <2>2. CASE ctx' = ctx
    BY <1>3, <2>2
  <2> QED
    BY <1>9, <2>1, <2>2
       DEF ContextStep, BeginCascade, BeginProcess, BeginDsp, EndProcess
<1>10. CASE UNCHANGED vars
  BY <1>3, <1>10 DEF vars, contextVars
<1> QED
  BY <1>4, <1>5, <1>6, <1>7, <1>8, <1>9, <1>10 DEF Next

-----------------------------------------------------------------------------
(***************************************************************************)
(* What holds in every state, for any delays.                              *)
(***************************************************************************)

LEMMA OwnedAlways == Spec => []Owned
  BY OwnedInit, OwnedNext, PTL DEF Spec

\* The state is always well formed.
THEOREM TypeCorrect == Spec => []TypeOK
  BY OwnedAlways, OwnedProperties, PTL

\* No message is leaked, freed twice or queued twice.
THEOREM HeapCorrect == Spec => []HeapIsQueuePlusInFlight
  BY OwnedAlways, OwnedProperties, PTL

\* A tracker can cancel all that it has scheduled and nothing else.
THEOREM HeldCorrect == Spec => []HeldIsQueued
  BY OwnedAlways, OwnedProperties, PTL

-----------------------------------------------------------------------------
(***************************************************************************)
(* The order in which the messages are delivered.  From here on delays     *)
(* are not negative.                                                       *)
(***************************************************************************)


\* The inductive invariant: the order of the queue rests on the times of the
\* messages that a flush has moved, and the order of delivery on both.
InTime ==
    /\ Owned
    /\ RetimedIsNow
    /\ QueueOrdered
    /\ DeliveredInBlock
    /\ DispatchedFirst

-----------------------------------------------------------------------------
(***************************************************************************)
(* The times of delivery.                                                  *)
(***************************************************************************)

\* Where the times of a state live.
LEMMA TimesAreIntegers ==
    ASSUME Owned
    PROVE  /\ blockStartTimestamp \in Int /\ now \in Int
           /\ BlockDuration \in Nat \ {0}
           /\ inFlight \in Messages \cup {NULL}
           /\ NULL \notin Messages
           /\ Queued \subseteq Messages
           /\ inFlight \notin Queued
           /\ Len(ctx.queue) \in Nat
           /\ \A m \in Messages : ctx.timestamp[m] \in Int
PROOF
<1>1. /\ ctx \in Contexts
      /\ MessagesOf(ctx.queue) \subseteq Messages
      /\ ctx.timestamp \in [Messages -> Int]
      /\ ctx.queue \in Seq(Entries)
  BY ContextFields DEF Owned, Sound
<1>2. Len(ctx.queue) \in Nat
  BY <1>1, LenProperties
<1>3. inFlight \notin Queued
  BY OwnedProperties DEF HeapIsQueuePlusInFlight
<1> QED
  BY <1>1, <1>2, <1>3, ContextAssumption
     DEF Owned, TypeOK, ContextTypeOK, Queued

\* What is true of the times of delivery stays true in a cascade as long as
\* messages are only given the time of the cascade or a later one.
LEMMA CascadeInTime ==
    ASSUME InTime, Owned', cascade # "none",
           UNCHANGED <<blockStartTimestamp, phase, cascade, now, inFlight>>,
           \A m \in Queued' :
               \/ m \in Queued /\ ctx'.timestamp[m] = ctx.timestamp[m]
               \/ now <= ctx'.timestamp[m],
           inFlight # NULL => ctx'.timestamp[inFlight] = ctx.timestamp[inFlight]
    PROVE  DeliveredInBlock' /\ DispatchedFirst'
PROOF
<1>1. DeliveredInBlock'
  BY DEF InTime, DeliveredInBlock, nextBlockStartTimestamp
<1>2. ASSUME cascade = "process", NEW m \in Queued'
      PROVE  now <= DeliveryTime(m)'
  <2>1. /\ blockStartTimestamp <= now
        /\ blockStartTimestamp \in Int /\ now \in Int
    BY <1>2, TimesAreIntegers DEF InTime, DeliveredInBlock
  <2>2. Queued' \subseteq Messages /\ \A x \in Messages : ctx'.timestamp[x] \in Int
    <3>1. ctx' \in Contexts
      BY DEF Owned, Sound
    <3> QED
      BY <3>1, ContextFields DEF Queued
  <2>3. CASE m \in Queued /\ ctx'.timestamp[m] = ctx.timestamp[m]
    BY <1>2, <2>3 DEF InTime, DispatchedFirst, DeliveryTime
  <2>4. CASE now <= ctx'.timestamp[m]
    BY <2>1, <2>2, <2>4 DEF DeliveryTime
  <2> QED
    BY <2>3, <2>4
<1>3. DispatchedFirst'
  BY <1>2 DEF DispatchedFirst
<1> QED
  BY <1>1, <1>3

\* A new message is put behind all that are due no later.
LEMMA ScheduleInTime ==
    ASSUME InTime, Owned', Delays \subseteq Nat,
           NEW o \in Trackers, NEW cancelled \in held[o] \cup {NULL},
           NEW delay \in Delays, NEW message \in Messages,
           Schedule(o, cancelled, delay, message)
    PROVE  InTime'
PROOF
<1> DEFINE outlet == TimedOutlet[o]
           c == CancelMessage(ctx, o, outlet, cancelled)
           time == now + delay
           d == ScheduleMessage(c, o, outlet, message, time)
<1>1. /\ Owned /\ RetimedIsNow /\ QueueOrdered
      /\ held \in [Trackers -> SUBSET Messages]
      /\ retimed \subseteq Queued
      /\ now \in Int
      /\ Queued \subseteq Messages
      /\ NULL \notin Messages
      /\ inFlight \notin Queued
  BY TimesAreIntegers DEF InTime, Owned, TypeOK, RetimedIsNow
<1>2. /\ o \in Objects
      /\ outlet \in Outlets
      /\ time \in Int
      /\ now <= time
  BY <1>1, TrackersAssumption
<1>3. /\ cascade # "none"
      /\ message \in Fresh(c)
      /\ ctx' = d
      /\ retimed' = retimed
      /\ UNCHANGED <<blockStartTimestamp, phase, cascade, now, inFlight>>
      /\ cancelled \notin retimed
  BY <1>1 DEF Schedule, Flushing
<1>4. Sound(ctx, Popping)
  BY <1>1 DEF Owned
<1>5. \/ cancelled = NULL
      \/ Entry(o, outlet, cancelled) \in EntriesOf(ctx.queue)
  BY <1>1 DEF Owned, Matches
<1>6. /\ Sound(c, Popping)
      /\ MessagesOf(c.queue) = Queued \ {cancelled}
      /\ cancelled \notin Popping
      /\ \A m \in Messages \ {cancelled} : c.timestamp[m] = ctx.timestamp[m]
  <2> HIDE DEF outlet
  <2>1. /\ Sound(c, Popping)
        /\ MessagesOf(c.queue) = MessagesOf(ctx.queue) \ {cancelled}
        /\ cancelled \notin Popping
        /\ \A m \in Messages \ {cancelled} : c.timestamp[m] = ctx.timestamp[m]
    BY ONLY <1>4, <1>5, CancelMessageSound
  <2> QED
    BY <2>1 DEF Queued
<1>7. OrderedExcept(c.queue, c.timestamp, retimed)
  <2>1. OrderedExcept(c.queue, c.timestamp, retimed \ {cancelled})
    <3>1. OrderedExcept(ctx.queue, ctx.timestamp, retimed)
      BY <1>1 DEF QueueOrdered
    <3> QED
      BY ONLY <1>4, <1>5, <3>1, CancelInOrder
  <2>2. retimed \ {cancelled} = retimed
    BY <1>3
  <2> QED
    BY <2>1, <2>2
<1> HIDE DEF outlet, c, time
<1>8. /\ Sound(d, Popping)
      /\ message \notin MessagesOf(c.queue) \cup Popping
      /\ MessagesOf(d.queue) = MessagesOf(c.queue) \cup {message}
      /\ Timestamps(d, c, message, time)
  BY ONLY <1>2, <1>3, <1>6, ScheduleMessageSound
<1>9. /\ message \in Messages
      /\ \A m \in Messages : d.timestamp[m] = IF m = message
                                              THEN time ELSE c.timestamp[m]
  BY <1>8 DEF Timestamps
<1>10. \A m \in retimed : c.timestamp[m] = now
  BY <1>1, <1>3, <1>6 DEF RetimedIsNow
<1>11. QueueOrdered'
  <2>1. \A m \in MessagesOf(c.queue) \cap retimed : c.timestamp[m] <= time
    BY <1>2, <1>10
  <2>2. OrderedExcept(d.queue, d.timestamp, retimed)
    BY ONLY <1>2, <1>3, <1>6, <1>7, <2>1, ScheduleInOrder
  <2> QED
    BY <1>3, <2>2 DEF QueueOrdered
<1>12. RetimedIsNow'
  <2>1. retimed \subseteq MessagesOf(c.queue)
    BY <1>1, <1>3, <1>6
  <2>2. \A m \in retimed : d.timestamp[m] = now
    BY <1>1, <1>8, <1>9, <1>10, <2>1
  <2> QED
    BY <1>3, <1>8, <2>1, <2>2 DEF RetimedIsNow, Queued
<1>13. \A m \in Queued' :
           \/ m \in Queued /\ ctx'.timestamp[m] = ctx.timestamp[m]
           \/ now <= ctx'.timestamp[m]
  <2> SUFFICES ASSUME NEW m \in MessagesOf(d.queue)
               PROVE  \/ m \in Queued /\ d.timestamp[m] = ctx.timestamp[m]
                      \/ now <= d.timestamp[m]
    BY <1>3 DEF Queued
  <2>1. CASE m = message
    BY <1>2, <1>9, <2>1
  <2>2. CASE m # message
    BY <1>1, <1>6, <1>8, <1>9, <2>2
  <2> QED
    BY <2>1, <2>2
<1>14. inFlight # NULL => ctx'.timestamp[inFlight] = ctx.timestamp[inFlight]
  <2> SUFFICES ASSUME inFlight # NULL
               PROVE  d.timestamp[inFlight] = ctx.timestamp[inFlight]
    BY <1>3
  <2>1. inFlight \in Messages /\ inFlight \in Popping
    BY <1>1, TimesAreIntegers DEF Popping
  <2> QED
    BY <1>6, <1>8, <1>9, <2>1
<1>15. DeliveredInBlock' /\ DispatchedFirst'
  BY <1>3, <1>13, <1>14, CascadeInTime
<1> QED
  BY <1>11, <1>12, <1>15 DEF InTime

\* A new message is put behind all that are due no later and that no flush
\* has moved.
LEMMA ScheduledBehind ==
    ASSUME InTime, Delays \subseteq Nat,
           NEW o \in Trackers, NEW cancelled \in held[o] \cup {NULL},
           NEW delay \in Delays, NEW message \in Messages,
           Schedule(o, cancelled, delay, message),
           NEW m \in Queued \ retimed, m # cancelled,
           ctx.timestamp[m] <= now + delay
    PROVE  Before(ctx'.queue, m, message)
PROOF
<1> DEFINE outlet == TimedOutlet[o]
           c == CancelMessage(ctx, o, outlet, cancelled)
           time == now + delay
           d == ScheduleMessage(c, o, outlet, message, time)
<1>1. /\ now \in Int
      /\ m \in Messages
      /\ Sound(ctx, Popping)
      /\ OrderedExcept(ctx.queue, ctx.timestamp, retimed)
      /\ retimed \subseteq Queued
      /\ \A x \in retimed : ctx.timestamp[x] = now
  BY TimesAreIntegers DEF InTime, Owned, RetimedIsNow, QueueOrdered
<1>2. /\ o \in Objects
      /\ outlet \in Outlets
      /\ time \in Int
      /\ now <= time
  BY <1>1, TrackersAssumption
<1>3. message \in Fresh(c) /\ ctx' = d
  BY DEF Schedule
<1>4. \/ cancelled = NULL
      \/ Entry(o, outlet, cancelled) \in EntriesOf(ctx.queue)
  BY HeldApart DEF InTime
<1> HIDE DEF outlet
<1>5. /\ Sound(c, Popping)
      /\ MessagesOf(c.queue) = MessagesOf(ctx.queue) \ {cancelled}
      /\ \A x \in Messages \ {cancelled} : c.timestamp[x] = ctx.timestamp[x]
  BY ONLY <1>1, <1>4, CancelMessageSound
<1>6. OrderedExcept(c.queue, c.timestamp, retimed \ {cancelled})
  BY ONLY <1>1, <1>4, CancelInOrder
<1> HIDE DEF c
<1>7. c.timestamp[m] <= time /\ m \in MessagesOf(c.queue) \ (retimed \ {cancelled})
  BY <1>1, <1>5 DEF Queued
<1>8. \A x \in MessagesOf(c.queue) \cap (retimed \ {cancelled}) :
          c.timestamp[x] <= time
  <2>1. ASSUME NEW x \in MessagesOf(c.queue) \cap (retimed \ {cancelled})
        PROVE  c.timestamp[x] = now
    BY <1>1, <1>5, ContextFields DEF Sound
  <2> QED
    BY <1>2, <2>1
<1> HIDE DEF time
<1>9. Before(d.queue, m, message)
  BY ONLY <1>2, <1>3, <1>5, <1>6, <1>7, <1>8, BehindTheEarlier
<1> QED
  BY <1>3, <1>9

\* Cancel and FlushCancel.
LEMMA CancelInTime ==
    ASSUME InTime, Owned', NEW o \in Trackers, NEW message \in held[o],
           cascade # "none",
           ctx' = CancelMessage(ctx, o, TimedOutlet[o], message),
           retimed' = retimed \ {message},
           UNCHANGED <<blockStartTimestamp, phase, cascade, now, inFlight>>
    PROVE  InTime'
PROOF
<1> DEFINE outlet == TimedOutlet[o]
           d == CancelMessage(ctx, o, outlet, message)
<1>1. /\ Sound(ctx, Popping)
      /\ OrderedExcept(ctx.queue, ctx.timestamp, retimed)
      /\ held \in [Trackers -> SUBSET Messages]
      /\ Queued \subseteq Messages
      /\ inFlight \in Messages \cup {NULL}
  BY TimesAreIntegers DEF InTime, Owned, TypeOK, QueueOrdered
<1>2. Entry(o, outlet, message) \in EntriesOf(ctx.queue)
  BY <1>1 DEF InTime, Owned, Matches
<1>3. ctx' = d
  OBVIOUS
<1> HIDE DEF outlet
<1>4. /\ MessagesOf(d.queue) = MessagesOf(ctx.queue) \ {message}
      /\ message \notin Popping
      /\ \A m \in Messages \ {message} : d.timestamp[m] = ctx.timestamp[m]
  BY ONLY <1>1, <1>2, CancelMessageSound
<1>5. OrderedExcept(d.queue, d.timestamp, retimed \ {message})
  BY ONLY <1>1, <1>2, CancelInOrder
<1> HIDE DEF d
<1>6. QueueOrdered'
  BY <1>3, <1>5 DEF QueueOrdered
<1>7. RetimedIsNow'
  BY <1>1, <1>3, <1>4 DEF InTime, RetimedIsNow, Queued
<1>8. \A m \in Queued' :
          m \in Queued /\ ctx'.timestamp[m] = ctx.timestamp[m]
  BY <1>1, <1>3, <1>4 DEF Queued
<1>9. inFlight # NULL => ctx'.timestamp[inFlight] = ctx.timestamp[inFlight]
  BY <1>1, <1>3, <1>4 DEF Popping
<1>10. DeliveredInBlock' /\ DispatchedFirst'
  BY <1>8, <1>9, CascadeInTime
<1> QED
  BY <1>6, <1>7, <1>10 DEF InTime

\* A flush gives a queued message the time of the cascade, where it stays.
LEMMA FlushSendInTime ==
    ASSUME InTime, Owned', NEW o \in Trackers, NEW message \in held[o],
           FlushSend(o, message)
    PROVE  InTime'
PROOF
<1>1. /\ ctx \in Contexts
      /\ now \in Int
      /\ held \in [Trackers -> SUBSET Messages]
      /\ Queued \subseteq Messages
      /\ inFlight \notin Queued
      /\ inFlight \in Messages \cup {NULL}
      /\ retimed \subseteq Queued
  BY TimesAreIntegers DEF InTime, Owned, Sound, TypeOK, RetimedIsNow
<1>2. message \in Messages /\ message \in Queued
  <2>1. Entry(o, TimedOutlet[o], message) \in EntriesOf(ctx.queue)
    BY <1>1 DEF InTime, Owned, Matches
  <2> QED
    BY <1>1, <2>1, MessagesOfEntries DEF Entry, Queued
<1>3. /\ cascade # "none"
      /\ ctx' = SetTimestamp(ctx, message, now)
      /\ retimed' = retimed \cup {message}
      /\ UNCHANGED <<blockStartTimestamp, phase, cascade, now, inFlight>>
  BY DEF FlushSend
<1>4. /\ ctx'.queue = ctx.queue
      /\ \A m \in Messages :
             ctx'.timestamp[m] = IF m = message THEN now ELSE ctx.timestamp[m]
  BY <1>1, <1>3, SetTimestampFields
<1>5. QueueOrdered'
  <2>1. OrderedExcept(ctx.queue, ctx.timestamp, retimed)
    BY DEF InTime, QueueOrdered
  <2>2. \A m \in MessagesOf(ctx.queue) \ retimed' :
            ctx'.timestamp[m] = ctx.timestamp[m]
    BY <1>1, <1>3, <1>4 DEF Queued
  <2>3. MessagesOf(ctx.queue) \cap retimed \subseteq retimed'
    BY <1>3
  <2>4. OrderedExcept(ctx.queue, ctx'.timestamp, retimed')
    BY ONLY <2>1, <2>2, <2>3, OrderedOfSame
  <2> QED
    BY <1>4, <2>4 DEF QueueOrdered
<1>6. RetimedIsNow'
  BY <1>1, <1>2, <1>3, <1>4 DEF InTime, RetimedIsNow, Queued
<1>7. \A m \in Queued' :
          \/ m \in Queued /\ ctx'.timestamp[m] = ctx.timestamp[m]
          \/ now <= ctx'.timestamp[m]
  BY <1>1, <1>4 DEF Queued
<1>8. inFlight # NULL => ctx'.timestamp[inFlight] = ctx.timestamp[inFlight]
  BY <1>1, <1>2, <1>4
<1>9. DeliveredInBlock' /\ DispatchedFirst'
  BY <1>3, <1>7, <1>8, CascadeInTime
<1> QED
  BY <1>5, <1>6, <1>9 DEF InTime

\* What process() pops is due in the block, and is the earliest message.
LEMMA DispatchInTime ==
    ASSUME InTime, NEW entry \in Entries, Dispatch(entry)
    PROVE  LET c == Popped(entry)
           IN  /\ retimed = {}
               /\ OrderedExcept(c.queue, c.timestamp, {})
               /\ now' = c.timestamp[entry.message]
               /\ blockStartTimestamp <= now'
               /\ now' < nextBlockStartTimestamp
               /\ \A m \in MessagesOf(c.queue) :
                      now' = blockStartTimestamp \/ now' <= c.timestamp[m]
PROOF
<1> DEFINE c == Popped(entry)
           m0 == entry.message
<1>1. /\ retimed = {}
      /\ OrderedExcept(ctx.queue, ctx.timestamp, {})
      /\ ctx \in Contexts
      /\ PointsOnce(ctx.queue)
      /\ blockStartTimestamp \in Int
      /\ BlockDuration \in Nat \ {0}
      /\ \A m \in Messages : ctx.timestamp[m] \in Int
      /\ Len(ctx.queue) \in Nat
      /\ Queued \subseteq Messages
  BY TimesAreIntegers
     DEF InTime, Owned, Sound, RetimedIsNow, QueueOrdered, Dispatch
<1>2. /\ ~ IsEmpty(ctx.queue)
      /\ entry = Peek(ctx.queue)
      /\ ctx.timestamp[m0] < nextBlockStartTimestamp
      /\ now' = DeliveryTime(m0)
  BY DEF Dispatch, Due
<1>3. Sound(ctx, {})
  BY DispatchOwned DEF InTime
<1>4. /\ m0 \in Messages
      /\ \A m \in Messages : c.timestamp[m] = IF m = m0 THEN DeliveryTime(m)
                                                       ELSE ctx.timestamp[m]
      /\ entry = ctx.queue[1] /\ 1 \in 1 .. Len(ctx.queue)
      /\ IsRemoved(c.queue, ctx.queue, 1)
      /\ c \in Contexts
      /\ EntriesOf(c.queue) = EntriesOf(ctx.queue) \ {entry}
  BY ONLY <1>1, <1>2, <1>3, PoppedSound DEF Sound
<1> HIDE DEF c
<1>5. MessagesOf(c.queue) \subseteq Queued \ {m0}
  <2>1. \A x \in EntriesOf(ctx.queue) : x.message = m0 => x = entry
    BY <1>1, <1>4 DEF PointsOnce, EntriesOf
  <2> QED
    BY <1>4, <2>1, MessagesOfEntries DEF Queued
<1>6. \A m \in MessagesOf(c.queue) : c.timestamp[m] = ctx.timestamp[m]
  BY <1>1, <1>4, <1>5
<1>7. OrderedExcept(c.queue, c.timestamp, {})
  <2>1. ctx.queue \in Seq(Entries) /\ c.queue \in Seq(Entries)
    BY <1>1, <1>4, ContextFields
  <2>2. OrderedExcept(c.queue, ctx.timestamp, {})
    BY ONLY <1>1, <1>4, <2>1, RemovedOrdered
  <2> QED
    BY ONLY <1>6, <2>2, OrderedOfSame
<1>8. \A m \in MessagesOf(c.queue) : ctx.timestamp[m0] <= ctx.timestamp[m]
  <2>1. \A m \in MessagesOf(ctx.queue) : ctx.timestamp[m] \in Int
    BY <1>1 DEF Queued
  <2>2. \A m \in MessagesOf(ctx.queue) :
            ctx.timestamp[ctx.queue[1].message] <= ctx.timestamp[m]
    BY ONLY <1>1, <1>4, <2>1, FirstIsEarliest
  <2> QED
    BY <1>4, <1>5, <2>2 DEF Queued
<1>9. /\ now' = c.timestamp[m0]
      /\ blockStartTimestamp <= now'
      /\ now' < nextBlockStartTimestamp
      /\ now' = blockStartTimestamp \/ now' = ctx.timestamp[m0]
  BY <1>1, <1>2, <1>4 DEF DeliveryTime, nextBlockStartTimestamp
<1> QED
  BY <1>1, <1>6, <1>7, <1>8, <1>9 DEF c

\* A delivery that leaves the queue in order, and puts nothing in it that is
\* earlier than the message delivered.
LEMMA DeliveryInTime ==
    ASSUME InTime, Owned', NEW entry \in Entries, Dispatch(entry),
           retimed' = retimed,
           OrderedExcept(ctx'.queue, ctx'.timestamp, {}),
           ctx'.timestamp[entry.message]
               = Popped(entry).timestamp[entry.message],
           \A m \in Queued' :
               \/ /\ m \in MessagesOf(Popped(entry).queue)
                  /\ ctx'.timestamp[m] = Popped(entry).timestamp[m]
               \/ now' <= ctx'.timestamp[m]
    PROVE  InTime'
PROOF
<1> DEFINE c == Popped(entry)
<1>1. /\ retimed = {}
      /\ now' = c.timestamp[entry.message]
      /\ blockStartTimestamp <= now'
      /\ now' < nextBlockStartTimestamp
      /\ \A m \in MessagesOf(c.queue) :
             now' = blockStartTimestamp \/ now' <= c.timestamp[m]
  BY DispatchInTime
<1>2. /\ phase' = "messages"
      /\ cascade' = "process"
      /\ inFlight' = entry.message
      /\ blockStartTimestamp' = blockStartTimestamp
  BY DEF Dispatch
<1>3. inFlight' # NULL
  BY <1>2, ContextAssumption DEF Entries
<1> HIDE DEF c
<1>4. RetimedIsNow'
  BY <1>1 DEF RetimedIsNow
<1>5. QueueOrdered'
  BY <1>1 DEF QueueOrdered
<1>6. DeliveredInBlock'
  BY <1>1, <1>2, <1>3 DEF DeliveredInBlock, nextBlockStartTimestamp, c
<1>7. /\ \A m \in Queued' : ctx'.timestamp[m] \in Int
      /\ now' \in Int /\ blockStartTimestamp \in Int
  <2>1. ctx' \in Contexts
    BY DEF Owned, Sound
  <2> QED
    BY <2>1, ContextFields DEF Queued, Owned, TypeOK, ContextTypeOK, InTime
<1>8. \A m \in Queued' : now' <= DeliveryTime(m)'
  <2> SUFFICES ASSUME NEW m \in Queued'
               PROVE  now' <= DeliveryTime(m)'
    OBVIOUS
  <2>1. now' = blockStartTimestamp \/ now' <= ctx'.timestamp[m]
    BY <1>1 DEF c
  <2> QED
    BY <1>1, <1>2, <1>7, <2>1 DEF DeliveryTime
<1>9. DispatchedFirst'
  BY <1>8 DEF DispatchedFirst
<1> QED
  BY <1>4, <1>5, <1>6, <1>9 DEF InTime

\* The message that is popped is the earliest.
LEMMA DeliverInTime ==
    ASSUME InTime, Owned', NEW entry \in Entries, Deliver(entry)
    PROVE  InTime'
PROOF
<1>1. Dispatch(entry) /\ ctx' = Popped(entry) /\ retimed' = retimed
  BY DEF Deliver
<1>2. OrderedExcept(ctx'.queue, ctx'.timestamp, {})
  BY <1>1, DispatchInTime
<1>3. \A m \in Queued' : /\ m \in MessagesOf(Popped(entry).queue)
                         /\ ctx'.timestamp[m] = Popped(entry).timestamp[m]
  BY <1>1 DEF Queued
<1> QED
  BY <1>1, <1>2, <1>3, DeliveryInTime

\* So it is when the object schedules the next before it sends this one.
LEMMA DeliverAndScheduleInTime ==
    ASSUME InTime, Owned', Delays \subseteq Nat,
           NEW entry \in Entries, entry.object \in Trackers,
           NEW delay \in Delays, NEW message \in Messages,
           DeliverAndSchedule(entry, delay, message)
    PROVE  InTime'
PROOF
<1> DEFINE o == entry.object
           outlet == TimedOutlet[o]
           c == Popped(entry)
           time == now' + delay
           out == {entry.message}
           d == ScheduleMessage(c, o, outlet, message, time)
<1>1. /\ Dispatch(entry)
      /\ ctx' = d
      /\ retimed' = retimed
      /\ message \in Fresh(ctx)
  BY DEF DeliverAndSchedule
<1>2. /\ Sound(c, out)
      /\ now' \in Int
      /\ inFlight' \in Messages
  BY <1>1, DispatchOwned DEF InTime
<1>3. message \in Fresh(c) /\ message \in Messages
  <2>1. c.live = ctx.live
    BY DEF Popped, SetTimestamp, InTime, Owned, Sound, Contexts
  <2> QED
    BY <1>1, <2>1 DEF Fresh
<1>4. /\ o \in Objects
      /\ outlet \in Outlets
      /\ time \in Int
      /\ now' <= time
  <2>1. delay \in Nat
    OBVIOUS
  <2>2. o \in Objects /\ outlet \in Outlets
    BY TrackersAssumption
  <2>3. \A a \in Int, b \in Nat : a + b \in Int /\ a <= a + b
    OBVIOUS
  <2>4. time \in Int /\ now' <= time
    BY ONLY <1>2, <2>1, <2>3
  <2> QED
    BY <2>2, <2>4
<1>5. OrderedExcept(c.queue, c.timestamp, {})
  BY <1>1, DispatchInTime
<1>6. MessagesOf(c.queue) \subseteq Messages /\ entry.message \in Messages
  BY <1>2, ContextFields DEF Sound, Entries
<1> HIDE DEF o, outlet, c, time, d
<1>7. OrderedExcept(d.queue, d.timestamp, {})
  BY ONLY <1>2, <1>3, <1>4, <1>5, ScheduleInOrder DEF d
<1>8. /\ message \notin MessagesOf(c.queue) \cup out
      /\ MessagesOf(d.queue) = MessagesOf(c.queue) \cup {message}
      /\ Timestamps(d, c, message, time)
  <2> HIDE DEF out
  <2> QED
    BY ONLY <1>2, <1>3, <1>4, ScheduleMessageSound DEF d
<1>9. d.timestamp[entry.message] = c.timestamp[entry.message]
  BY <1>6, <1>8 DEF Timestamps
<1>10. \A m \in Queued' : \/ /\ m \in MessagesOf(c.queue)
                             /\ ctx'.timestamp[m] = c.timestamp[m]
                          \/ now' <= ctx'.timestamp[m]
  <2> SUFFICES ASSUME NEW m \in MessagesOf(d.queue)
               PROVE  \/ /\ m \in MessagesOf(c.queue)
                         /\ d.timestamp[m] = c.timestamp[m]
                      \/ now' <= d.timestamp[m]
    BY <1>1 DEF Queued
  <2>1. CASE m = message
    BY <1>3, <1>4, <1>8, <2>1 DEF Timestamps
  <2>2. CASE m # message
    BY <1>6, <1>8, <2>2 DEF Timestamps
  <2> QED
    BY <2>1, <2>2
<1> QED
  BY <1>1, <1>7, <1>9, <1>10, DeliveryInTime DEF c

\* ScheduleFromDsp and ScheduleExternal.
LEMMA ScheduleOtherInTime ==
    ASSUME InTime, Owned', cascade = "none",
           NEW object \in Objects, NEW outlet \in Outlets,
           NEW message \in Fresh(ctx), NEW time \in Int,
           ctx' = ScheduleMessage(ctx, object, outlet, message, time),
           UNCHANGED <<blockStartTimestamp, phase, cascade, now, inFlight,
                       held, retimed>>
    PROVE  InTime'
PROOF
<1> DEFINE d == ScheduleMessage(ctx, object, outlet, message, time)
<1>1. /\ Sound(ctx, Popping)
      /\ retimed = {}
      /\ inFlight = NULL
      /\ OrderedExcept(ctx.queue, ctx.timestamp, {})
  BY DEF InTime, Owned, RetimedIsNow, QueueOrdered
<1>2. OrderedExcept(d.queue, d.timestamp, {})
  BY ONLY <1>1, object \in Objects, outlet \in Outlets,
          message \in Fresh(ctx), time \in Int, ScheduleInOrder
<1>3. QueueOrdered' /\ RetimedIsNow'
  BY <1>1, <1>2 DEF QueueOrdered, RetimedIsNow
<1>4. DeliveredInBlock' /\ DispatchedFirst'
  BY <1>1 DEF DeliveredInBlock, DispatchedFirst
<1> QED
  BY <1>3, <1>4 DEF InTime

\* When a cascade ends the messages it has moved in time are gone.
LEMMA ReturnInTime ==
    ASSUME InTime, Owned', Return
    PROVE  InTime'
PROOF
<1>1. /\ retimed = {} /\ retimed' = {}
      /\ ctx' = FreeMessage(ctx, inFlight)
      /\ inFlight' = NULL /\ cascade' = "none"
  BY DEF Return, EndCascade
<1>2. /\ ctx \in Contexts
      /\ Queued \subseteq Messages
      /\ inFlight \notin Queued
      /\ OrderedExcept(ctx.queue, ctx.timestamp, {})
  BY <1>1, TimesAreIntegers DEF InTime, Owned, Sound, QueueOrdered
<1>3. /\ ctx'.queue = ctx.queue
      /\ \A m \in Messages \ {inFlight} : ctx'.timestamp[m] = ctx.timestamp[m]
  BY <1>1, <1>2, FreeMessageFields
<1>4. QueueOrdered'
  <2>1. \A m \in MessagesOf(ctx.queue) : ctx'.timestamp[m] = ctx.timestamp[m]
    BY <1>2, <1>3 DEF Queued
  <2>2. OrderedExcept(ctx.queue, ctx'.timestamp, {})
    BY ONLY <1>2, <2>1, OrderedOfSame
  <2> QED
    BY <1>1, <1>3, <2>2 DEF QueueOrdered
<1>5. RetimedIsNow' /\ DeliveredInBlock' /\ DispatchedFirst'
  BY <1>1 DEF RetimedIsNow, DeliveredInBlock, DispatchedFirst
<1> QED
  BY <1>4, <1>5 DEF InTime

\* The steps that leave the queue and the heap alone.
LEMMA QuietInTime ==
    ASSUME InTime, Owned', UNCHANGED <<ctx, inFlight, held, retimed>>,
           \/ \E t \in DirectTimes : BeginCascade(t)
           \/ BeginProcess
           \/ BeginDsp
           \/ EndProcess
           \/ UNCHANGED vars
    PROVE  InTime'
PROOF
<1>1. QueueOrdered'
  BY DEF InTime, QueueOrdered
<1>2. CASE UNCHANGED vars
  BY <1>1, <1>2 DEF vars, contextVars, InTime, RetimedIsNow, DeliveredInBlock,
                    DispatchedFirst, DeliveryTime, Queued,
                    nextBlockStartTimestamp
<1>3. CASE \/ \E t \in DirectTimes : BeginCascade(t)
           \/ BeginProcess
           \/ BeginDsp
           \/ EndProcess
  <2>1. cascade = "none" /\ cascade' \in {"none", "direct"}
    BY <1>3 DEF BeginCascade, BeginProcess, BeginDsp, EndProcess
  <2>2. inFlight = NULL /\ retimed = {}
    BY <2>1 DEF InTime, Owned, RetimedIsNow
  <2> QED
    BY <1>1, <2>1, <2>2
       DEF InTime, RetimedIsNow, DeliveredInBlock, DispatchedFirst
<1> QED
  BY <1>2, <1>3

-----------------------------------------------------------------------------
(***************************************************************************)
(* The theorems.                                                           *)
(***************************************************************************)

\* An empty queue is in order.
LEMMA InTimeInit == Init => InTime
PROOF
<1> SUFFICES ASSUME Init
             PROVE  InTime
  OBVIOUS
<1>1. Owned
  BY OwnedInit
<1>2. ctx.queue = <<>> /\ retimed = {} /\ cascade = "none" /\ inFlight = NULL
  BY DEF Init, ContextInit
<1> QED
  BY <1>1, <1>2 DEF InTime, RetimedIsNow, QueueOrdered, OrderedExcept,
                    DeliveredInBlock, DispatchedFirst

\* Every step keeps the queue in order, if nothing is scheduled in the past.
LEMMA InTimeNext ==
    ASSUME InTime, [Next]_vars, Delays \subseteq Nat
    PROVE  InTime'
PROOF
<1>1. Owned'
  BY OwnedNext DEF InTime
<1>2. /\ held \in [Trackers -> SUBSET Messages]
      /\ SendController \in Objects
      /\ DirectTimes \subseteq Int
  BY ContextAssumption DEF InTime, Owned, TypeOK
<1>3. ASSUME NEW o \in Trackers, TrackerStep(o)
      PROVE  InTime'
  <2>1. ASSUME NEW c \in held[o] \cup {NULL}, NEW d \in Delays,
               NEW m \in Messages, Schedule(o, c, d, m)
        PROVE  InTime'
    BY <1>1, <2>1, ScheduleInTime
  <2>2. ASSUME NEW m \in held[o], Cancel(o, m)
        PROVE  InTime'
    <3>1. retimed' = retimed \ {m}
      BY <2>2 DEF Cancel, Flushing
    <3> QED
      BY <1>1, <2>2, <3>1, CancelInTime DEF Cancel
  <2>3. ASSUME NEW m \in held[o], FlushSend(o, m)
        PROVE  InTime'
    BY <1>1, <2>3, FlushSendInTime
  <2>4. ASSUME NEW m \in held[o], FlushCancel(o, m)
        PROVE  InTime'
    BY <1>1, <2>4, CancelInTime DEF FlushCancel
  <2> QED
    BY <1>3, <2>1, <2>2, <2>3, <2>4 DEF TrackerStep
<1>4. ASSUME NEW o \in Objects \ Trackers, NEW n \in Outlets,
             NEW m \in Messages, ScheduleFromDsp(o, n, m)
      PROVE  InTime'
  BY <1>1, <1>4, ScheduleOtherInTime DEF ScheduleFromDsp
<1>5. ASSUME NEW entry \in Entries, Deliver(entry)
      PROVE  InTime'
  BY <1>1, <1>5, DeliverInTime
<1>6. ASSUME NEW entry \in Entries, entry.object \in Trackers,
             NEW d \in Delays, NEW m \in Messages,
             DeliverAndSchedule(entry, d, m)
      PROVE  InTime'
  BY <1>1, <1>6, DeliverAndScheduleInTime
<1>7. CASE Return
  BY <1>1, <1>7, ReturnInTime
<1>8. CASE ContextStep /\ UNCHANGED <<held, retimed>>
  <2>1. ASSUME NEW n \in Outlets, NEW t \in DirectTimes, NEW m \in Fresh(ctx),
               ScheduleExternal(n, t, m)
        PROVE  InTime'
    <3>1. t \in Int
      BY <1>2
    <3> QED
      BY <1>1, <1>2, <1>8, <2>1, <3>1, ScheduleOtherInTime
         DEF ScheduleExternal
  <2>2. CASE \/ \E t \in DirectTimes : BeginCascade(t)
             \/ BeginProcess
             \/ BeginDsp
             \/ EndProcess
    <3>1. UNCHANGED <<ctx, inFlight>>
      BY <2>2 DEF BeginCascade, BeginProcess, BeginDsp, EndProcess
    <3> QED
      BY <1>1, <1>8, <2>2, <3>1, QuietInTime
  <2> QED
    BY <1>8, <2>1, <2>2 DEF ContextStep
<1>9. CASE UNCHANGED vars
  <2>1. UNCHANGED <<ctx, inFlight, held, retimed>>
    BY <1>9 DEF vars, contextVars
  <2> QED
    BY <1>1, <1>9, <2>1, QuietInTime
<1> QED
  BY <1>3, <1>4, <1>5, <1>6, <1>7, <1>8, <1>9 DEF Next

\* With the queue in order the loop of process() need only look at its first
\* message to know that none is due.
LEMMA NothingDueStep ==
    ASSUME InTime, [Next]_vars
    PROVE  [phase = "messages" /\ phase' = "dsp" =>
                \A m \in Queued : ctx.timestamp[m] >= nextBlockStartTimestamp
           ]_contextVars
PROOF
<1> SUFFICES ASSUME Next, phase = "messages", phase' = "dsp",
                    NEW m \in Queued
             PROVE  ctx.timestamp[m] >= nextBlockStartTimestamp
  BY DEF vars
<1>1. BeginDsp
  BY DEF Next, TrackerStep, Schedule, Cancel, FlushSend, FlushCancel,
         ScheduleFromDsp, Deliver, DeliverAndSchedule, Dispatch, Return,
         EndCascade, ContextStep, ScheduleExternal, BeginCascade,
         BeginProcess, EndProcess
<1>2. /\ retimed = {}
      /\ OrderedExcept(ctx.queue, ctx.timestamp, {})
  BY <1>1 DEF BeginDsp, InTime, RetimedIsNow, QueueOrdered
<1>3. /\ Len(ctx.queue) \in Nat
      /\ \A x \in MessagesOf(ctx.queue) : ctx.timestamp[x] \in Int
      /\ nextBlockStartTimestamp \in Int
      /\ ctx.queue \in Seq(Entries)
  BY TimesAreIntegers
     DEF InTime, Queued, nextBlockStartTimestamp, Owned, Sound, Contexts
<1>4. m \in MessagesOf(ctx.queue) /\ ctx.queue # <<>>
  BY DEF Queued, MessagesOf
<1>5. 1 \in 1 .. Len(ctx.queue) /\ Peek(ctx.queue) = ctx.queue[1]
  BY <1>3, <1>4, PopRemoves
<1>6. ctx.timestamp[ctx.queue[1].message] <= ctx.timestamp[m]
  BY ONLY <1>2, <1>3, <1>4, <1>5, FirstIsEarliest
<1>7. ~ (ctx.timestamp[ctx.queue[1].message] < nextBlockStartTimestamp)
  BY <1>1, <1>4, <1>5 DEF BeginDsp, Due, IsEmpty
<1>8. ctx.queue[1].message \in MessagesOf(ctx.queue)
  BY <1>5 DEF MessagesOf
<1> QED
  BY <1>3, <1>4, <1>6, <1>7, <1>8

\* The invariant holds in every state, if nothing is scheduled in the past.
LEMMA InTimeAlways ==
    ASSUME Delays \subseteq Nat
    PROVE  Spec => []InTime
  BY InTimeInit, InTimeNext, PTL DEF Spec

\* The queue stays sorted around the messages that a flush moves in time.
THEOREM OrderCorrect ==
    ASSUME Delays \subseteq Nat
    PROVE  Spec => [](QueueOrdered /\ RetimedIsNow)
PROOF
<1>1. InTime => QueueOrdered /\ RetimedIsNow
  BY DEF InTime
<1> QED
  BY <1>1, InTimeAlways, PTL

\* A message is delivered in the block that process() has reached and at the
\* time it has, also if a flush has rewritten that time.
THEOREM DeliveryCorrect ==
    ASSUME Delays \subseteq Nat
    PROVE  Spec => []DeliveredInOrder
PROOF
<1>1. InTime => DeliveredInOrder
  BY DEF InTime, DeliveredInOrder
<1> QED
  BY <1>1, InTimeAlways, PTL

\* No message is delivered after one that is due later.
THEOREM DispatchCorrect ==
    ASSUME Delays \subseteq Nat
    PROVE  Spec => []DispatchedFirst
PROOF
<1>1. InTime => DispatchedFirst
  BY DEF InTime
<1> QED
  BY <1>1, InTimeAlways, PTL

\* Nothing due in a block is left for the next one.
THEOREM LoopComplete ==
    ASSUME Delays \subseteq Nat
    PROVE  Spec => NothingDueIsLeft
  BY InTimeAlways, NothingDueStep, PTL DEF Spec, NothingDueIsLeft

=============================================================================
