--------------------------- MODULE TimedPatchProofs ---------------------------
(***************************************************************************)
(* The timed objects of the library, for any patch of them, any delays and *)
(* any table: what they do to the queue and the heap, and that each sends  *)
(* its messages when it should.                                            *)
(***************************************************************************)
EXTENDS TimedPatch, PdContextProofs

\* What is proved of TimedObjects holds of the patch, which implements it.
P == INSTANCE TimedObjectsProofs WITH Trackers <- Timers,
                                      DirectTimes <- DirectTimes \cup Blocks

-----------------------------------------------------------------------------
(***************************************************************************)
(* The operators of the queue and the heap are the same ones.              *)
(***************************************************************************)

LEMMA SameCancelMessage ==
    ASSUME NEW c, NEW o, NEW n, NEW m
    PROVE  /\ P!CancelMessage(c, o, n, m) = CancelMessage(c, o, n, m)
           /\ Timed!CancelMessage(c, o, n, m) = CancelMessage(c, o, n, m)
PROOF
<1>1. P!CancelMessage(c, o, n, m) = CancelMessage(c, o, n, m)
  BY DEF P!CancelMessage, CancelMessage, P!FreeMessage, FreeMessage,
         P!RemoveMessage, RemoveMessage, P!FirstMatch, FirstMatch, P!Entry,
         Entry, P!RemoveAt, RemoveAt
<1>2. Timed!CancelMessage(c, o, n, m) = CancelMessage(c, o, n, m)
  BY DEF Timed!CancelMessage, CancelMessage, Timed!FreeMessage, FreeMessage,
         Timed!RemoveMessage, RemoveMessage, Timed!FirstMatch, FirstMatch,
         Timed!Entry, Entry, Timed!RemoveAt, RemoveAt
<1> QED
  BY <1>1, <1>2

LEMMA SameScheduleMessage ==
    ASSUME NEW c, NEW o, NEW n, NEW m, NEW t
    PROVE  /\ P!ScheduleMessage(c, o, n, m, t) = ScheduleMessage(c, o, n, m, t)
           /\ Timed!ScheduleMessage(c, o, n, m, t)
                  = ScheduleMessage(c, o, n, m, t)
PROOF
<1>1. P!ScheduleMessage(c, o, n, m, t) = ScheduleMessage(c, o, n, m, t)
  BY DEF P!ScheduleMessage, ScheduleMessage, P!SetTimestamp, SetTimestamp,
         P!InsertMessage, InsertMessage, P!InsertionPoint, InsertionPoint,
         P!Entry, Entry, P!InsertAt, InsertAt
<1>2. Timed!ScheduleMessage(c, o, n, m, t) = ScheduleMessage(c, o, n, m, t)
  BY DEF Timed!ScheduleMessage, ScheduleMessage, Timed!SetTimestamp,
         SetTimestamp, Timed!InsertMessage, InsertMessage,
         Timed!InsertionPoint, InsertionPoint, Timed!Entry, Entry,
         Timed!InsertAt, InsertAt
<1> QED
  BY <1>1, <1>2

LEMMA SameSmall ==
    ASSUME NEW c, NEW o, NEW n, NEW m, NEW t
    PROVE  /\ P!SetTimestamp(c, m, t) = SetTimestamp(c, m, t)
           /\ Timed!SetTimestamp(c, m, t) = SetTimestamp(c, m, t)
           /\ P!FreeMessage(c, m) = FreeMessage(c, m)
           /\ Timed!FreeMessage(c, m) = FreeMessage(c, m)
           /\ P!Fresh(c) = Fresh(c)
           /\ Timed!Fresh(c) = Fresh(c)
           /\ P!Entry(o, n, m) = Entry(o, n, m)
           /\ P!Entries = Entries
           /\ Timed!Entries = Entries
  BY DEF P!SetTimestamp, Timed!SetTimestamp, SetTimestamp, P!FreeMessage,
         Timed!FreeMessage, FreeMessage, P!Fresh, Timed!Fresh, Fresh,
         P!Entry, Entry, P!Entries, Timed!Entries, Entries

LEMMA SameCardinality ==
    ASSUME NEW S
    PROVE  P!Cardinality(S) = Cardinality(S) /\ Timed!Cardinality(S) = Cardinality(S)
  BY DEF P!Cardinality, Timed!Cardinality, Cardinality

LEMMA SameDispatch ==
    ASSUME NEW e
    PROVE  /\ P!Dispatch(e) <=> Dispatch(e)
           /\ Timed!Dispatch(e) <=> Dispatch(e)
           /\ P!Popped(e) = Popped(e)
           /\ Timed!Popped(e) = Popped(e)
           /\ P!Due <=> Due
           /\ Timed!Due <=> Due
PROOF
<1>1. \A m : /\ P!DeliveryTime(m) = DeliveryTime(m)
             /\ Timed!DeliveryTime(m) = DeliveryTime(m)
  BY DEF P!DeliveryTime, Timed!DeliveryTime, DeliveryTime
<1>2. (P!Due <=> Due) /\ (Timed!Due <=> Due)
  BY DEF P!Due, Timed!Due, Due, P!IsEmpty, Timed!IsEmpty, IsEmpty, P!Peek,
         Timed!Peek, Peek, P!nextBlockStartTimestamp,
         Timed!nextBlockStartTimestamp, nextBlockStartTimestamp
<1>3. (P!Dispatch(e) <=> Dispatch(e)) /\ (Timed!Dispatch(e) <=> Dispatch(e))
  BY <1>1, <1>2 DEF P!Dispatch, Timed!Dispatch, Dispatch, P!Peek, Timed!Peek,
                    Peek
<1>4. P!Popped(e) = Popped(e) /\ Timed!Popped(e) = Popped(e)
  BY <1>1, SameSmall DEF P!Popped, Timed!Popped, Popped, P!Pop, Timed!Pop, Pop
<1> QED
  BY <1>2, <1>3, <1>4

\* The two instances of TimedObjects have the same steps.
LEMMA SameNext ==
    ASSUME [P!Next]_P!vars
    PROVE  [Timed!Next]_Timed!vars
PROOF
<1>1. ASSUME NEW o, NEW c, NEW d, NEW m, P!Schedule(o, c, d, m)
      PROVE  Timed!Schedule(o, c, d, m)
  BY <1>1, SameCancelMessage, SameScheduleMessage, SameSmall
     DEF P!Schedule, Timed!Schedule, P!Flushing, Timed!Flushing
<1>2. ASSUME NEW o, NEW m, P!Cancel(o, m)
      PROVE  Timed!Cancel(o, m)
  BY <1>2, SameCancelMessage
     DEF P!Cancel, Timed!Cancel, P!Flushing, Timed!Flushing
<1>3. ASSUME NEW o, NEW m, P!FlushSend(o, m)
      PROVE  Timed!FlushSend(o, m)
  BY <1>3, SameSmall
     DEF P!FlushSend, Timed!FlushSend, P!Flushing, Timed!Flushing
<1>4. ASSUME NEW o, NEW m, P!FlushCancel(o, m)
      PROVE  Timed!FlushCancel(o, m)
  BY <1>4, SameCancelMessage DEF P!FlushCancel, Timed!FlushCancel
<1>5. ASSUME NEW o, P!TrackerStep(o)
      PROVE  Timed!TrackerStep(o)
  BY <1>1, <1>2, <1>3, <1>4, <1>5 DEF P!TrackerStep, Timed!TrackerStep
<1>6. ASSUME NEW o, NEW n, NEW m, P!ScheduleFromDsp(o, n, m)
      PROVE  Timed!ScheduleFromDsp(o, n, m)
  BY <1>6, SameScheduleMessage, SameSmall
     DEF P!ScheduleFromDsp, Timed!ScheduleFromDsp
<1>7. ASSUME NEW e
      PROVE  P!HeldAfterDelivery(e) = Timed!HeldAfterDelivery(e)
  BY DEF P!HeldAfterDelivery, Timed!HeldAfterDelivery
<1>8. ASSUME NEW e, P!Deliver(e)
      PROVE  Timed!Deliver(e)
  BY <1>7, <1>8, SameDispatch DEF P!Deliver, Timed!Deliver
<1>9. ASSUME NEW e, NEW d, NEW m, P!DeliverAndSchedule(e, d, m)
      PROVE  Timed!DeliverAndSchedule(e, d, m)
  <2>1. P!ScheduleMessage(P!Popped(e), e.object, TimedOutlet[e.object], m,
                          now' + d)
            = ScheduleMessage(Popped(e), e.object, TimedOutlet[e.object], m,
                              now' + d)
    BY SameDispatch, SameScheduleMessage
  <2>2. /\ Dispatch(e)
        /\ m \in Fresh(ctx)
        /\ ctx' = ScheduleMessage(Popped(e), e.object, TimedOutlet[e.object],
                                  m, now' + d)
        /\ retimed' = retimed
    BY <1>9, <2>1, SameDispatch, SameSmall DEF P!DeliverAndSchedule
  <2>3. held' = [Timed!HeldAfterDelivery(e) EXCEPT ![e.object] = @ \cup {m}]
    BY <1>7, <1>9 DEF P!DeliverAndSchedule
  <2> QED
    BY <2>2, <2>3, SameDispatch, SameScheduleMessage, SameSmall
       DEF Timed!DeliverAndSchedule
<1>10. ASSUME P!Return
       PROVE  Timed!Return
  BY <1>10, SameSmall
     DEF P!Return, Timed!Return, P!EndCascade, Timed!EndCascade
<1>11. ASSUME P!ContextStep
       PROVE  Timed!ContextStep
  <2>1. ASSUME NEW n, NEW t, NEW m, P!ScheduleExternal(n, t, m)
        PROVE  Timed!ScheduleExternal(n, t, m)
    BY <2>1, SameCardinality, SameScheduleMessage, SameSmall
       DEF P!ScheduleExternal, Timed!ScheduleExternal
  <2>2. ASSUME NEW t, P!BeginCascade(t)
        PROVE  Timed!BeginCascade(t)
    BY <2>2 DEF P!BeginCascade, Timed!BeginCascade
  <2>3. /\ P!BeginProcess => Timed!BeginProcess
        /\ P!BeginDsp => Timed!BeginDsp
        /\ P!EndProcess => Timed!EndProcess
    BY SameDispatch
       DEF P!BeginProcess, Timed!BeginProcess, P!BeginDsp, Timed!BeginDsp,
           P!EndProcess, Timed!EndProcess, P!nextBlockStartTimestamp,
           Timed!nextBlockStartTimestamp
  <2> QED
    BY <1>11, <2>1, <2>2, <2>3, SameSmall DEF P!ContextStep, Timed!ContextStep
<1>12. ASSUME UNCHANGED P!vars
       PROVE  UNCHANGED Timed!vars
  BY <1>12 DEF P!vars, Timed!vars, P!contextVars, Timed!contextVars
<1>13. P!Entries = Timed!Entries
  BY SameSmall
<1>14. ASSUME P!Next
       PROVE  Timed!Next
  BY <1>5, <1>6, <1>8, <1>9, <1>10, <1>11, <1>13, <1>14 DEF P!Next, Timed!Next
<1> QED
  BY <1>12, <1>14

-----------------------------------------------------------------------------
(***************************************************************************)
(* The inductive invariant, as far as the queue and the heap depend on it. *)
(***************************************************************************)

DelayTypes ==
    /\ scheduledMessage \in [DelayObjects -> Messages \cup {NULL}]
    /\ delayMs \in [DelayObjects -> Int]
    /\ bangedAt \in [DelayObjects -> Int]
    /\ \A o \in DelayObjects \cap patch : delayMs[o] \in DelayTimes
    /\ \A o \in DelayObjects : scheduledMessage[o] # NULL => o \in patch

MetroTypes ==
    /\ pendingMessage \in [Metros -> Messages \cup {NULL}]
    /\ intervalInMs \in [Metros -> Int]
    /\ running \in [Metros -> BOOLEAN]
    /\ nextTick \in [Metros -> Int]
    /\ \A o \in Metros \cap patch : intervalInMs[o] \in Intervals
    /\ \A o \in Metros : pendingMessage[o] # NULL => o \in patch

LineFields ==
    [grainRate : Int, slope : Int, lastMessageTimestamp : Int,
     currentValue : Int, targetValue : Int,
     pendingMessage : Messages \cup {NULL}]

LineTypes ==
    /\ line \in [Lines -> LineFields]
    /\ value \in [Messages -> Int]
    /\ ramp \in [Lines -> [start : Int, sent : Int, alone : BOOLEAN]]
    /\ \A o \in Lines \cap patch : line[o].grainRate \in Grains
    /\ \A o \in Lines : line[o].pendingMessage # NULL =>
                            o \in patch /\ line[o].slope # 0

LoopFields == [pipe : Pipes, sends : BOOLEAN, at : Nat, sent : BOOLEAN]

PipeTypes ==
    /\ scheduledMessagesList \in [Pipes -> Seq(Messages)]
    /\ pipeDelayMs \in [Pipes -> Int]
    /\ loops \in Seq(LoopFields)
    /\ \A o \in Pipes \cap patch : pipeDelayMs[o] \in PipeDelays

PlayerTypes ==
    /\ outgoingMessage \in [Players -> Messages \cup {NULL}]
    /\ currentTableIndex \in [Players -> Int]
    /\ endTableIndex \in [Players -> Int]
    /\ table \in [Players -> Tables \cup {NULL}]
    /\ bufferLength \in [Tables -> Nat]
    /\ sending \in Players \cup {NULL}
    /\ consuming \in (Players \cap patch) \cup {NULL}
    /\ rendered \in [Players -> 0 .. blockSizeInt]
    /\ output \in [Players -> [Samples -> Int]]
    /\ resized \in [Players -> BOOLEAN]
    /\ Players \cap patch # {} => bufferLength \in [Tables -> Lengths]
    /\ \A o \in Players : outgoingMessage[o] # NULL => o \in patch

Typed ==
    /\ patch \subseteq Timers
    /\ DelayTypes
    /\ MetroTypes
    /\ LineTypes
    /\ PipeTypes
    /\ PlayerTypes

\* A pipe is in one loop at a time, all loops but the innermost wait for what
\* they have sent, and no loop outlives the cascade.
LoopsFine ==
    /\ loops # <<>> => cascade # "none"
    /\ \A i, j \in 1 .. Len(loops) : loops[i].pipe = loops[j].pipe => i = j
    /\ \A i \in 1 .. Len(loops) :
           LET length == Len(scheduledMessagesList[loops[i].pipe])
           IN  /\ loops[i].at \in 1 .. length + 1
               /\ loops[i].sent => loops[i].sends /\ loops[i].at <= length
               /\ i < Len(loops) => loops[i].sent

\* A pipe lists a pointer once.
ListsApart ==
    \A o \in Pipes : \A j, k \in AliveAt(o) :
        scheduledMessagesList[o][j] = scheduledMessagesList[o][k] => j = k

\* A player that sends its bang still has the pointer to it, and no other
\* player does; one that takes a message has rendered the block up to there.
PlayersFine ==
    /\ phase # "dsp" => \A o \in Players : rendered[o] = 0
    /\ phase # "idle" => blockStartTimestamp < MaxBlocks * BlockDuration
    /\ inFlight # NULL <=> cascade = "process"
    /\ cascade = "process" => phase = "messages"
    /\ sending # NULL =>
           inFlight # NULL /\ outgoingMessage[sending] = inFlight
    /\ \A o \in Players :
           inFlight # NULL /\ outgoingMessage[o] = inFlight => sending = o
    /\ consuming # NULL =>
           /\ phase = "dsp"
           /\ cascade = "direct"
           /\ now = blockStartTimestamp + rendered[consuming]

Base ==
    /\ Typed
    /\ P!Owned
    /\ P!OwnOutlets
    /\ LoopsFine
    /\ ListsApart
    /\ PlayersFine

-----------------------------------------------------------------------------
(***************************************************************************)
(* The patch's constants are such as TimedObjects assumes.                 *)
(***************************************************************************)

\* Each object is of one kind.
LEMMA Kinds ==
    /\ DelayObjects \subseteq Timers /\ Metros \subseteq Timers
    /\ Lines \subseteq Timers /\ Pipes \subseteq Timers
    /\ Players \subseteq Timers
    /\ \A o \in DelayObjects : o \notin Metros \cup Lines \cup Pipes \cup Players
    /\ \A o \in Metros : o \notin DelayObjects \cup Lines \cup Pipes \cup Players
    /\ \A o \in Lines : o \notin DelayObjects \cup Metros \cup Pipes \cup Players
    /\ \A o \in Pipes : o \notin DelayObjects \cup Metros \cup Lines \cup Players
    /\ \A o \in Players : o \notin DelayObjects \cup Metros \cup Lines \cup Pipes
    /\ \A o \in Timers :
           o \in DelayObjects \cup Metros \cup Lines \cup Pipes \cup Players
    /\ Timers = Objects \ {SendController}
PROOF
<1>1. Timers \subseteq Objects \ {SendController}
  BY DelayAssumption, MetroAssumption, LineAssumption, PipeAssumption,
     PlayerAssumption DEF Timers
<1> QED
  BY <1>1, PatchAssumption DEF Timers

LEMMA PlayTimesAreTimes ==
    /\ PlayTimes \subseteq Nat
    /\ \A l \in Lengths : 0 .. l \subseteq PlayTimes
PROOF
<1>1. ASSUME NEW l \in Lengths
      PROVE  0 .. l \subseteq Nat
  BY PlayerAssumption
<1>2. \A l \in Lengths : 0 .. l \subseteq PlayTimes
  BY DEF PlayTimes
<1>3. ASSUME NEW t \in PlayTimes
      PROVE  t \in Nat
  <2>1. PICK l \in Lengths : t \in 0 .. l
    BY <1>3 DEF PlayTimes
  <2> QED
    BY <1>1, <2>1
<1> QED
  BY <1>2, <1>3

LEMMA DelaysOfKinds ==
    /\ Delays \subseteq Int
    /\ DelayTimes \subseteq Delays /\ Intervals \subseteq Delays
    /\ Grains \subseteq Delays /\ PipeDelays \subseteq Delays
    /\ PlayTimes \subseteq Delays
  BY PlayTimesAreTimes, DelayAssumption, MetroAssumption, LineAssumption,
     PipeAssumption DEF Delays

LEMMA OutletsOfKinds ==
    /\ TimedOutlet \in [Timers -> Outlets]
    /\ \A o \in Players : TimedOutlet[o] = 1
    /\ \A o \in Timers \ Players : TimedOutlet[o] = 0
  BY PlayerAssumption, Kinds DEF TimedOutlet

LEMMA TrackersFit == P!TrackersAssumption
  BY Kinds, DelaysOfKinds, OutletsOfKinds DEF P!TrackersAssumption

LEMMA ContextFits == P!ContextAssumption
  BY ContextAssumption DEF P!ContextAssumption, Blocks

-----------------------------------------------------------------------------
(***************************************************************************)
(* The pointers that the objects keep.                                     *)
(***************************************************************************)

LEMMA HeldOf ==
    /\ \A o \in Timers : held[o] = Held(o) /\ held'[o] = Held(o)'
    /\ held = [o \in Timers |-> Held(o)]
    /\ held' = [o \in Timers |-> Held(o)']
    /\ retimed = BeingSent /\ retimed' = BeingSent'
  BY DEF held, retimed

LEMMA HeldOfKinds ==
    /\ \A o \in DelayObjects : held[o] = {scheduledMessage[o]} \ {NULL}
    /\ \A o \in Metros : held[o] = {pendingMessage[o]} \ {NULL}
    /\ \A o \in Lines : held[o] = {line[o].pendingMessage} \ {NULL}
    /\ \A o \in Pipes : held[o] = Alive(o)
    /\ \A o \in Players :
           held[o] = ({outgoingMessage[o]} \ {NULL}) \ {inFlight}
  BY Kinds, HeldOf DEF Held

LEMMA HeldOfKindsNext ==
    /\ \A o \in DelayObjects : held'[o] = {scheduledMessage'[o]} \ {NULL}
    /\ \A o \in Metros : held'[o] = {pendingMessage'[o]} \ {NULL}
    /\ \A o \in Lines : held'[o] = {line'[o].pendingMessage} \ {NULL}
    /\ \A o \in Pipes : held'[o] = Alive(o)'
    /\ \A o \in Players :
           held'[o] = ({outgoingMessage'[o]} \ {NULL}) \ {inFlight'}
  BY Kinds, HeldOf DEF Held

\* A pointer that stays is the pointer that the object keeps.
LEMMA SameHeld ==
    /\ \A p \in DelayObjects :
           scheduledMessage'[p] = scheduledMessage[p] => held'[p] = held[p]
    /\ \A p \in Metros :
           pendingMessage'[p] = pendingMessage[p] => held'[p] = held[p]
    /\ \A p \in Lines :
           line'[p].pendingMessage = line[p].pendingMessage
               => held'[p] = held[p]
    /\ \A p \in Players :
           outgoingMessage'[p] = outgoingMessage[p] /\ inFlight' = inFlight
               => held'[p] = held[p]
PROOF
<1>1. ASSUME NEW p \in DelayObjects,
             scheduledMessage'[p] = scheduledMessage[p]
      PROVE  held'[p] = held[p]
  <2>1. held[p] = {scheduledMessage[p]} \ {NULL}
    BY HeldOfKinds
  <2>2. held'[p] = {scheduledMessage'[p]} \ {NULL}
    BY HeldOfKindsNext
  <2> QED
    BY <1>1, <2>1, <2>2
<1>2. ASSUME NEW p \in Metros, pendingMessage'[p] = pendingMessage[p]
      PROVE  held'[p] = held[p]
  <2>1. held[p] = {pendingMessage[p]} \ {NULL}
    BY HeldOfKinds
  <2>2. held'[p] = {pendingMessage'[p]} \ {NULL}
    BY HeldOfKindsNext
  <2> QED
    BY <1>2, <2>1, <2>2
<1>3. ASSUME NEW p \in Lines,
             line'[p].pendingMessage = line[p].pendingMessage
      PROVE  held'[p] = held[p]
  <2>1. held[p] = {line[p].pendingMessage} \ {NULL}
    BY HeldOfKinds
  <2>2. held'[p] = {line'[p].pendingMessage} \ {NULL}
    BY HeldOfKindsNext
  <2> QED
    BY <1>3, <2>1, <2>2
<1>4. ASSUME NEW p \in Players, outgoingMessage'[p] = outgoingMessage[p],
             inFlight' = inFlight
      PROVE  held'[p] = held[p]
  <2>1. held[p] = ({outgoingMessage[p]} \ {NULL}) \ {inFlight}
    BY HeldOfKinds
  <2>2. held'[p] = ({outgoingMessage'[p]} \ {NULL}) \ {inFlight'}
    BY HeldOfKindsNext
  <2> QED
    BY <1>4, <2>1, <2>2
<1> QED
  BY <1>1, <1>2, <1>3, <1>4

\* The loops and the lists say which messages the pipes have and send.
LEMMA SamePipes ==
    ASSUME UNCHANGED <<scheduledMessagesList, loops>>
    PROVE  retimed' = retimed /\ \A o \in Pipes : held'[o] = held[o]
PROOF
<1>1. \A o \in Pipes : AliveAt(o)' = AliveAt(o)
  BY DEF AliveAt
<1>2. \A o \in Pipes : Alive(o)' = Alive(o)
  BY <1>1 DEF Alive
<1>3. BeingSent' = BeingSent
  BY DEF BeingSent
<1> QED
  BY <1>2, <1>3, HeldOf, HeldOfKinds, HeldOfKindsNext

\* The loops, one by one.
LEMMA EachLoop ==
    ASSUME PipeTypes
    PROVE  /\ Len(loops) \in Nat
           /\ \A i \in 1 .. Len(loops) :
                  /\ loops[i] \in LoopFields
                  /\ loops[i].pipe \in Pipes
                  /\ loops[i].at \in Nat
                  /\ loops[i].sent \in BOOLEAN
                  /\ loops[i].sends \in BOOLEAN
           /\ \A o \in Pipes : Len(scheduledMessagesList[o]) \in Nat
PROOF
<1>1. loops \in Seq(LoopFields)
  BY DEF PipeTypes
<1>2. Len(loops) \in Nat /\ \A i \in 1 .. Len(loops) : loops[i] \in LoopFields
  BY <1>1, LenProperties, ElementOfSeq
<1>3. \A o \in Pipes : Len(scheduledMessagesList[o]) \in Nat
  <2> TAKE o \in Pipes
  <2>1. scheduledMessagesList[o] \in Seq(Messages)
    BY DEF PipeTypes
  <2> QED
    BY <2>1, LenProperties
<1> QED
  BY <1>2, <1>3 DEF LoopFields

\* A message that is being sent is one of a pipe.
LEMMA SentIsHeld ==
    ASSUME Typed, LoopsFine, NEW i \in 1 .. Len(loops), loops[i].sent
    PROVE  LET o == loops[i].pipe
           IN  /\ o \in Pipes
               /\ loops[i].at \in AliveAt(o)
               /\ scheduledMessagesList[o][loops[i].at] \in held[o]
PROOF
<1> DEFINE o == loops[i].pipe
<1>1. o \in Pipes /\ loops[i].at \in Nat /\ Len(loops) \in Nat
      /\ Len(scheduledMessagesList[o]) \in Nat
  BY EachLoop DEF Typed
<1>2. /\ loops[i].at \in 1 .. Len(scheduledMessagesList[o])
      /\ \A j \in 1 .. Len(loops) : loops[j].pipe = o => j = i
  BY <1>1 DEF LoopsFine
<1>3. loops[i].at \in AliveAt(o)
  BY <1>1, <1>2 DEF AliveAt
<1>4. scheduledMessagesList[o][loops[i].at] \in held[o]
  BY <1>1, <1>3, HeldOfKinds DEF Alive
<1> QED
  BY <1>1, <1>3, <1>4

\* Only a pipe is in the loop of a flush, and only its own loop makes it so.
LEMMA NotFlushing ==
    ASSUME Base, NEW o \in Timers,
           \A i \in 1 .. Len(loops) : loops[i].sent => loops[i].pipe # o
    PROVE  ~ P!Flushing(o)
PROOF
<1> SUFFICES ASSUME NEW m \in held[o], m \in retimed
             PROVE  FALSE
  BY DEF P!Flushing
<1>1. PICK i \in 1 .. Len(loops) :
          /\ loops[i].sent
          /\ m = scheduledMessagesList[loops[i].pipe][loops[i].at]
  BY HeldOf DEF BeingSent
<1>2. loops[i].pipe \in Pipes /\ m \in held[loops[i].pipe]
  BY <1>1, SentIsHeld DEF Base
<1>3. loops[i].pipe = o
  BY <1>2, Kinds, TrackersFit, ContextFits, P!HeldApart DEF Base
<1> QED
  BY <1>1, <1>3

LEMMA NotPipeNotFlushing ==
    ASSUME Base, NEW o \in Timers \ Pipes
    PROVE  ~ P!Flushing(o)
PROOF
<1>1. \A i \in 1 .. Len(loops) : loops[i].pipe \in Pipes
  BY EachLoop DEF Base, Typed
<1> QED
  BY <1>1, NotFlushing

-----------------------------------------------------------------------------
(***************************************************************************)
(* An object that keeps one pointer.                                       *)
(***************************************************************************)

\* What a step of the object o leaves to the others.
LEMMA HeldExcept ==
    ASSUME NEW o \in Timers, \A p \in Timers \ {o} : held'[p] = held[p]
    PROVE  held' = [held EXCEPT ![o] = held'[o]]
  BY HeldOf

\* It schedules a message in place of the one it has, if any.
LEMMA Replaces ==
    ASSUME Base, NEW o \in Timers \ Pipes,
           NEW x \in Messages \cup {NULL}, held[o] = {x} \ {NULL},
           NEW m \in Messages, NEW t, cascade # "none",
           m \in Fresh(CancelMessage(ctx, o, TimedOutlet[o], x)),
           ctx' = ScheduleMessage(CancelMessage(ctx, o, TimedOutlet[o], x), o,
                                  TimedOutlet[o], m, now + t),
           held'[o] = {m}, \A p \in Timers \ {o} : held'[p] = held[p],
           UNCHANGED <<blockStartTimestamp, phase, cascade, now, inFlight,
                       retimed>>
    PROVE  P!Schedule(o, x, t, m) /\ x \in held[o] \cup {NULL}
PROOF
<1>1. held' = [held EXCEPT ![o] = (@ \ {x}) \cup {m}]
  <2>1. held' = [held EXCEPT ![o] = {m}]
    BY HeldExcept
  <2>2. (held[o] \ {x}) \cup {m} = {m}
    OBVIOUS
  <2> QED
    BY <2>1, <2>2
<1>2. ~ P!Flushing(o)
  BY NotPipeNotFlushing
<1>3. x \in held[o] \cup {NULL}
  OBVIOUS
<1> QED
  BY <1>1, <1>2, <1>3, SameCancelMessage, SameScheduleMessage, SameSmall
     DEF P!Schedule

\* It cancels the message it has, if any.
LEMMA Drops ==
    ASSUME Base, NEW o \in Timers \ Pipes,
           NEW x \in Messages \cup {NULL}, held[o] = {x} \ {NULL},
           cascade # "none",
           ctx' = CancelMessage(ctx, o, TimedOutlet[o], x),
           held'[o] = {}, \A p \in Timers \ {o} : held'[p] = held[p],
           UNCHANGED <<blockStartTimestamp, phase, cascade, now, inFlight,
                       retimed>>
    PROVE  \/ x = NULL /\ UNCHANGED P!vars
           \/ x \in held[o] /\ P!Cancel(o, x)
PROOF
<1>1. held' = [held EXCEPT ![o] = {}]
  BY HeldExcept
<1>2. CASE x = NULL
  <2>1. held' = held
    <3>1. held[o] = {}
      BY <1>2
    <3> QED
      BY <1>1, <3>1, HeldOf
  <2>2. ctx' = ctx
    BY <1>2 DEF CancelMessage
  <2> QED
    BY <1>2, <2>1, <2>2 DEF P!vars, P!contextVars
<1>3. CASE x # NULL
  <2>1. x \in held[o] /\ held[o] \ {x} = {}
    BY <1>3
  <2>2. held' = [held EXCEPT ![o] = @ \ {x}]
    BY <1>1, <2>1
  <2>3. ~ P!Flushing(o)
    BY NotPipeNotFlushing
  <2> QED
    BY <2>1, <2>2, <2>3, SameCancelMessage DEF P!Cancel
<1> QED
  BY <1>2, <1>3

\* A step that the queue, the heap and the pointers do not see.
LEMMA Unseen ==
    ASSUME UNCHANGED contextVars, \A p \in Timers : held'[p] = held[p],
           retimed' = retimed
    PROVE  UNCHANGED P!vars
PROOF
<1>1. held' = held
  BY HeldOf
<1> QED
  BY <1>1 DEF P!vars, P!contextVars, contextVars

-----------------------------------------------------------------------------
(***************************************************************************)
(* The loop of process().                                                  *)
(***************************************************************************)

\* What there is when process() takes the first message: no call has begun,
\* and the message is one that its object has a pointer to.
LEMMA WhenDispatched ==
    ASSUME Base, NEW entry \in Entries, Dispatch(entry)
    PROVE  /\ phase = "messages" /\ inFlight = NULL
           /\ loops = <<>> /\ retimed = {}
           /\ sending = NULL /\ consuming = NULL
           /\ entry.object \in Timers => entry.message \in held[entry.object]
           /\ \A p \in Timers : entry.message \in held[p] => p = entry.object
           /\ entry.message \in Messages
           /\ inFlight' = entry.message
           /\ P!Dispatch(entry)
PROOF
<1>1. phase = "messages" /\ cascade = "none" /\ inFlight' = entry.message
  BY DEF Dispatch
<1>2. loops = <<>> /\ inFlight = NULL /\ sending = NULL /\ consuming = NULL
  BY <1>1 DEF Base, LoopsFine, PlayersFine
<1>3. retimed = {}
  BY <1>2, HeldOf DEF BeingSent
<1>4. P!Dispatch(entry) /\ entry \in P!Entries
  BY SameDispatch, SameSmall
<1>5. entry \in P!EntriesOf(ctx.queue)
  BY <1>4, TrackersFit, ContextFits, P!DeliverEffect DEF Base
<1>6. entry.object \in Timers => entry.message \in held[entry.object]
  BY <1>5, TrackersFit, ContextFits, P!EntriesAreHeld DEF Base
<1>7. ASSUME NEW p \in Timers, entry.message \in held[p]
      PROVE  p = entry.object
  <2>1. entry = P!Entry(p, TimedOutlet[p], entry.message)
    BY <1>5, <1>7, TrackersFit, ContextFits, P!HeldApart DEF Base
  <2>2. P!Entry(p, TimedOutlet[p], entry.message).object = p
    BY DEF P!Entry
  <2> QED
    BY <2>1, <2>2
<1> QED
  BY <1>1, <1>2, <1>3, <1>4, <1>6, <1>7 DEF Entries

\* Its object loses the pointer, no other does.
LEMMA HeldWhenDispatched ==
    ASSUME Base, NEW entry \in Entries, Dispatch(entry), NEW p \in Timers,
           p \in DelayObjects => \/ scheduledMessage'[p] = scheduledMessage[p]
                                 \/ p = entry.object,
           p \in Metros => \/ pendingMessage'[p] = pendingMessage[p]
                           \/ p = entry.object,
           p \in Lines => \/ line'[p].pendingMessage = line[p].pendingMessage
                          \/ p = entry.object,
           p \in Pipes => held'[p] = held[p] \/ p = entry.object,
           p \in Players => outgoingMessage'[p] = outgoingMessage[p]
    PROVE  /\ p # entry.object => held'[p] = held[p]
           /\ p \in Players /\ p = entry.object =>
                  held'[p] = held[p] \ {entry.message}
PROOF
<1>1. inFlight = NULL /\ inFlight' = entry.message
  BY WhenDispatched
<1>2. ASSUME p \in Players
      PROVE  held'[p] = held[p] \ {entry.message}
  BY <1>1, <1>2, HeldOfKinds, HeldOfKindsNext
<1>3. p # entry.object => entry.message \notin held[p]
  BY WhenDispatched
<1>4. ASSUME p \in Players, p # entry.object
      PROVE  held'[p] = held[p]
  BY <1>2, <1>3, <1>4
<1>5. ASSUME p \notin Players, p # entry.object
      PROVE  held'[p] = held[p]
  BY <1>5, SameHeld, Kinds
<1> QED
  BY <1>2, <1>4, <1>5

LEMMA Delivers ==
    ASSUME Base, NEW entry \in Entries, Dispatch(entry), ctx' = Popped(entry),
           \A p \in Timers : held'[p] = IF p = entry.object
                                        THEN held[p] \ {entry.message}
                                        ELSE held[p],
           retimed' = retimed
    PROVE  P!Deliver(entry)
PROOF
<1>1. held' = P!HeldAfterDelivery(entry)
  BY HeldOf DEF P!HeldAfterDelivery
<1> QED
  BY <1>1, SameDispatch DEF P!Deliver

\* The object schedules another before it sends this one.
LEMMA DeliversAndSchedules ==
    ASSUME Base, NEW entry \in Entries, Dispatch(entry),
           NEW o \in Timers \ Players, o = entry.object, NEW m, NEW t,
           held[o] \subseteq {entry.message},
           m \in Fresh(Popped(entry)),
           ctx' = ScheduleMessage(Popped(entry), o, 0, m, now' + t),
           held'[o] = {m}, \A p \in Timers \ {o} : held'[p] = held[p],
           retimed' = retimed
    PROVE  P!DeliverAndSchedule(entry, t, m)
PROOF
<1>1. held' = [P!HeldAfterDelivery(entry) EXCEPT ![entry.object] = @ \cup {m}]
  <2> DEFINE h == P!HeldAfterDelivery(entry)
  <2>1. h = [p \in Timers |-> IF p = o THEN held[p] \ {entry.message}
                                       ELSE held[p]]
    BY DEF P!HeldAfterDelivery
  <2>2. held[o] \ {entry.message} = {}
    OBVIOUS
  <2> HIDE DEF h
  <2>3. [h EXCEPT ![o] = @ \cup {m}]
            = [p \in Timers |-> IF p = o THEN {m} ELSE held[p]]
    BY <2>1, <2>2
  <2>4. held' = [p \in Timers |-> IF p = o THEN {m} ELSE held[p]]
    BY HeldOf
  <2> QED
    BY <2>3, <2>4 DEF h
<1>2. Fresh(Popped(entry)) = Fresh(ctx)
  BY DEF Fresh, Popped, SetTimestamp
<1>3. P!ScheduleMessage(P!Popped(entry), entry.object,
                        TimedOutlet[entry.object], m, now' + t)
          = ScheduleMessage(Popped(entry), o, 0, m, now' + t)
  <2>1. TimedOutlet[o] = 0
    BY OutletsOfKinds
  <2> QED
    BY <2>1, SameDispatch, SameScheduleMessage
<1> QED
  BY <1>1, <1>2, <1>3, SameDispatch, SameSmall DEF P!DeliverAndSchedule

LEMMA Returns ==
    ASSUME Base, Return
    PROVE  P!Return
PROOF
<1>1. loops = <<>> /\ EndCascade /\ PlayerReturn /\ LineReturn
      /\ UNCHANGED <<delayVars, metroVars, pipeVars>>
  BY DEF Return
<1>2. retimed = {}
  BY <1>1, HeldOf DEF BeingSent
<1>3. retimed' = retimed /\ \A p \in Pipes : held'[p] = held[p]
  BY <1>1, SamePipes DEF pipeVars
<1>4. ASSUME NEW p \in Players
      PROVE  held'[p] = held[p]
  <2>1. /\ outgoingMessage'[p] = IF p = sending THEN NULL
                                                ELSE outgoingMessage[p]
        /\ inFlight' = NULL
    BY <1>1 DEF PlayerReturn, EndCascade
  <2>2. p # NULL
    BY PlayerAssumption
  <2>3. /\ p = sending => outgoingMessage[p] = inFlight
        /\ p # sending => inFlight = NULL \/ outgoingMessage[p] # inFlight
    BY <2>2 DEF Base, PlayersFine
  <2>4. /\ held[p] = ({outgoingMessage[p]} \ {NULL}) \ {inFlight}
        /\ held'[p] = ({outgoingMessage'[p]} \ {NULL}) \ {inFlight'}
    BY HeldOfKinds, HeldOfKindsNext
  <2>5. CASE p = sending
    <3>1. held[p] = {}
      BY <2>3, <2>4, <2>5
    <3>2. held'[p] = {}
      BY <2>1, <2>4, <2>5
    <3> QED
      BY <3>1, <3>2
  <2>6. CASE p # sending
    <3>1. held'[p] = {outgoingMessage[p]} \ {NULL}
      BY <2>1, <2>4, <2>6
    <3>2. held[p] = {outgoingMessage[p]} \ {NULL}
      BY <2>3, <2>4, <2>6
    <3> QED
      BY <3>1, <3>2
  <2> QED
    BY <2>5, <2>6
<1>5. ASSUME NEW p \in DelayObjects \cup Metros \cup Lines
      PROVE  held'[p] = held[p]
  BY <1>1, HeldOfKinds, HeldOfKindsNext DEF delayVars, metroVars, LineReturn
<1>6. held' = held
  BY <1>3, <1>4, <1>5, Kinds, HeldOf
<1> QED
  BY <1>1, <1>2, <1>3, <1>6, SameSmall
     DEF P!Return, P!EndCascade, EndCascade

\* The pointers of the objects that do not act, one kind after the other.
LEMMA HeldOfOthers ==
    ASSUME NEW o, inFlight' = inFlight,
           \A p \in DelayObjects \ {o} :
               scheduledMessage'[p] = scheduledMessage[p],
           \A p \in Metros \ {o} : pendingMessage'[p] = pendingMessage[p],
           \A p \in Lines \ {o} :
               line'[p].pendingMessage = line[p].pendingMessage,
           \A p \in Pipes \ {o} : held'[p] = held[p],
           \A p \in Players \ {o} : outgoingMessage'[p] = outgoingMessage[p]
    PROVE  \A p \in Timers \ {o} : held'[p] = held[p]
  BY SameHeld, Kinds

-----------------------------------------------------------------------------
(***************************************************************************)
(* Each handler is a step of the timed objects.                            *)
(***************************************************************************)

Step(o) == P!TrackerStep(o) \/ UNCHANGED P!vars

\* What replaces a message or cancels it is a step.
LEMMA ReplacesIsStep ==
    ASSUME NEW o, NEW x \in held[o] \cup {NULL}, NEW m \in Messages,
           NEW t \in Delays, P!Schedule(o, x, t, m)
    PROVE  Step(o)
  BY DEF Step, P!TrackerStep

LEMMA DropsIsStep ==
    ASSUME NEW o, NEW x,
           \/ x = NULL /\ UNCHANGED P!vars
           \/ x \in held[o] /\ P!Cancel(o, x)
    PROVE  Step(o)
  BY DEF Step, P!TrackerStep

LEMMA DelayStepIsStep ==
    ASSUME Base, NEW o \in DelayObjects \cap patch, DelayStep(o),
           UNCHANGED <<metroVars, lineVars, pipeVars, playerVars>>
    PROVE  Step(o)
PROOF
<1> DEFINE x == scheduledMessage[o]
<1>1. /\ o \in Timers \ Pipes
      /\ TimedOutlet[o] = 0
      /\ x \in Messages \cup {NULL}
      /\ scheduledMessage \in [DelayObjects -> Messages \cup {NULL}]
      /\ delayMs[o] \in Delays
      /\ held[o] = {x} \ {NULL}
  BY Kinds, OutletsOfKinds, DelaysOfKinds, HeldOfKinds
     DEF Base, Typed, DelayTypes
<1>2. retimed' = retimed /\ \A p \in Pipes : held'[p] = held[p]
  BY SamePipes DEF pipeVars
<1>3. ASSUME inFlight' = inFlight,
             \A p \in DelayObjects \ {o} :
                 scheduledMessage'[p] = scheduledMessage[p]
      PROVE  \A p \in Timers \ {o} : held'[p] = held[p]
  BY <1>2, <1>3, HeldOfOthers DEF metroVars, lineVars, playerVars, playVars
<1>4. ASSUME NEW m \in Messages, DelayBang(o, m)
      PROVE  Step(o)
  <2>1. held'[o] = {m}
    <3>1. scheduledMessage'[o] = m
      BY <1>1, <1>4 DEF DelayBang
    <3>2. m # NULL
      BY ContextAssumption
    <3> QED
      BY <3>1, <3>2, HeldOfKindsNext
  <2>2. \A p \in Timers \ {o} : held'[p] = held[p]
    BY <1>1, <1>3, <1>4 DEF DelayBang
  <2>3. P!Schedule(o, x, delayMs[o], m) /\ x \in held[o] \cup {NULL}
    BY <1>1, <1>2, <1>4, <2>1, <2>2, Replaces DEF DelayBang, CancelScheduled
  <2> QED
    BY <1>1, <2>3, ReplacesIsStep
<1>5. ASSUME cascade # "none", ctx' = CancelScheduled(o),
             scheduledMessage' = [scheduledMessage EXCEPT ![o] = NULL],
             UNCHANGED <<blockStartTimestamp, phase, cascade, now, inFlight>>
      PROVE  Step(o)
  <2>1. held'[o] = {}
    <3>1. scheduledMessage'[o] = NULL
      BY <1>1, <1>5
    <3> QED
      BY <3>1, HeldOfKindsNext
  <2>2. \A p \in Timers \ {o} : held'[p] = held[p]
    BY <1>1, <1>3, <1>5
  <2>3. \/ x = NULL /\ UNCHANGED P!vars
        \/ x \in held[o] /\ P!Cancel(o, x)
    BY <1>1, <1>2, <1>5, <2>1, <2>2, Drops DEF CancelScheduled
  <2> QED
    BY <2>3, DropsIsStep
<1>6. DelayStop(o) => Step(o)
  BY <1>5 DEF DelayStop
<1>7. ASSUME NEW d, SetDelay(o, d)
      PROVE  Step(o)
  BY <1>5, <1>7 DEF SetDelay
<1> QED
  BY <1>4, <1>6, <1>7 DEF DelayStep

LEMMA MetroStepIsStep ==
    ASSUME Base, NEW o \in Metros \cap patch, MetroStep(o),
           UNCHANGED <<delayVars, lineVars, pipeVars, playerVars>>
    PROVE  Step(o)
PROOF
<1> DEFINE x == pendingMessage[o]
<1>1. /\ o \in Timers \ Pipes
      /\ TimedOutlet[o] = 0
      /\ x \in Messages \cup {NULL}
      /\ pendingMessage \in [Metros -> Messages \cup {NULL}]
      /\ intervalInMs[o] \in Delays
      /\ held[o] = {x} \ {NULL}
  BY Kinds, OutletsOfKinds, DelaysOfKinds, HeldOfKinds
     DEF Base, Typed, MetroTypes
<1>2. retimed' = retimed /\ \A p \in Pipes : held'[p] = held[p]
  BY SamePipes DEF pipeVars
<1>3. ASSUME inFlight' = inFlight,
             \A p \in Metros \ {o} : pendingMessage'[p] = pendingMessage[p]
      PROVE  \A p \in Timers \ {o} : held'[p] = held[p]
  BY <1>2, <1>3, HeldOfOthers DEF delayVars, lineVars, playerVars, playVars
<1>4. ASSUME NEW m \in Messages, StartMetro(o, m)
      PROVE  Step(o)
  <2>1. held'[o] = {m}
    <3>1. pendingMessage'[o] = m
      BY <1>1, <1>4 DEF StartMetro, Tick
    <3>2. m # NULL
      BY ContextAssumption
    <3> QED
      BY <3>1, <3>2, HeldOfKindsNext
  <2>2. \A p \in Timers \ {o} : held'[p] = held[p]
    BY <1>1, <1>3, <1>4 DEF StartMetro, Tick
  <2>3. P!Schedule(o, x, intervalInMs[o], m) /\ x \in held[o] \cup {NULL}
    BY <1>1, <1>2, <1>4, <2>1, <2>2, Replaces DEF StartMetro, Tick, CancelTick
  <2> QED
    BY <1>1, <2>3, ReplacesIsStep
<1>5. ASSUME StopMetro(o)
      PROVE  Step(o)
  <2>1. held'[o] = {}
    <3>1. pendingMessage'[o] = NULL
      BY <1>1, <1>5 DEF StopMetro
    <3> QED
      BY <3>1, HeldOfKindsNext
  <2>2. \A p \in Timers \ {o} : held'[p] = held[p]
    BY <1>1, <1>3, <1>5 DEF StopMetro
  <2>3. \/ x = NULL /\ UNCHANGED P!vars
        \/ x \in held[o] /\ P!Cancel(o, x)
    BY <1>1, <1>2, <1>5, <2>1, <2>2, Drops DEF StopMetro, CancelTick
  <2> QED
    BY <2>3, DropsIsStep
<1>6. ASSUME NEW i, SetInterval(o, i)
      PROVE  Step(o)
  <2>1. \A p \in Timers : held'[p] = held[p]
    BY <1>2, <1>6, SameHeld, Kinds
       DEF SetInterval, contextVars, delayVars, lineVars, playerVars, playVars
  <2> QED
    BY <1>2, <1>6, <2>1, Unseen DEF SetInterval, Step
<1> QED
  BY <1>4, <1>5, <1>6 DEF MetroStep

LEMMA LineStepIsStep ==
    ASSUME Base, NEW o \in Lines \cap patch, LineStep(o),
           UNCHANGED <<delayVars, metroVars, pipeVars, playerVars>>
    PROVE  Step(o)
PROOF
<1> DEFINE x == line[o].pendingMessage
<1>1. /\ o \in Timers \ Pipes
      /\ TimedOutlet[o] = 0
      /\ x \in Messages \cup {NULL}
      /\ line \in [Lines -> LineFields]
      /\ line[o] \in LineFields
      /\ line[o].grainRate \in Delays
      /\ held[o] = {x} \ {NULL}
  BY Kinds, OutletsOfKinds, DelaysOfKinds, HeldOfKinds
     DEF Base, Typed, LineTypes, LineFields
<1>2. retimed' = retimed /\ \A p \in Pipes : held'[p] = held[p]
  BY SamePipes DEF pipeVars
<1>3. ASSUME inFlight' = inFlight,
             \A p \in Lines \ {o} : line'[p] = line[p]
      PROVE  \A p \in Timers \ {o} : held'[p] = held[p]
  BY <1>2, <1>3, HeldOfOthers DEF delayVars, metroVars, playerVars, playVars
<1>4. ASSUME cascade # "none", ctx' = CancelNext(o),
             UNCHANGED <<blockStartTimestamp, phase, cascade, now, inFlight>>,
             NEW l, l.pendingMessage = NULL, line' = [line EXCEPT ![o] = l]
      PROVE  Step(o)
  <2>1. held'[o] = {}
    <3>1. line'[o].pendingMessage = NULL
      BY <1>1, <1>4
    <3> QED
      BY <3>1, HeldOfKindsNext
  <2>2. \A p \in Timers \ {o} : held'[p] = held[p]
    BY <1>1, <1>3, <1>4
  <2>3. \/ x = NULL /\ UNCHANGED P!vars
        \/ x \in held[o] /\ P!Cancel(o, x)
    BY <1>1, <1>2, <1>4, <2>1, <2>2, Drops DEF CancelNext
  <2> QED
    BY <2>3, DropsIsStep
<1>5. ASSUME cascade # "none",
             UNCHANGED <<blockStartTimestamp, phase, cascade, now, inFlight>>,
             NEW l \in LineFields, l.pendingMessage = NULL,
             l.grainRate = line[o].grainRate, NEW v, NEW values,
             SendRamp(o, CancelNext(o), l, values, now, v)
      PROVE  Step(o)
  <2>1. CASE Short(l, v)
    <3>1. PICK m \in Fresh(CancelNext(o)) :
              /\ ctx' = ScheduleMessage(CancelNext(o), o, 0, m,
                                        now + l.grainRate)
              /\ line' = [line EXCEPT ![o] =
                              [l EXCEPT !.currentValue = v,
                                        !.lastMessageTimestamp = now,
                                        !.pendingMessage = m]]
      BY <1>5, <2>1 DEF SendRamp
    <3>2. m \in Messages /\ m # NULL
      BY ContextAssumption DEF Fresh
    <3>3. held'[o] = {m}
      <4>1. line'[o].pendingMessage = m
        BY <1>1, <1>5, <3>1 DEF LineFields
      <4> QED
        BY <3>2, <4>1, HeldOfKindsNext
    <3>4. \A p \in Timers \ {o} : held'[p] = held[p]
      BY <1>1, <1>3, <1>5, <3>1
    <3>5. P!Schedule(o, x, l.grainRate, m) /\ x \in held[o] \cup {NULL}
      BY <1>1, <1>2, <1>5, <3>1, <3>2, <3>3, <3>4, Replaces DEF CancelNext
    <3> QED
      BY <1>1, <1>5, <3>2, <3>5, ReplacesIsStep
  <2>2. CASE ~ Short(l, v)
    <3> DEFINE k == [l EXCEPT !.currentValue = Clipped(l, v),
                              !.lastMessageTimestamp = now,
                              !.pendingMessage =
                                  IF l.slope = 0 THEN @ ELSE NULL]
    <3>1. ctx' = CancelNext(o) /\ line' = [line EXCEPT ![o] = k]
      BY <1>5, <2>2 DEF SendRamp
    <3>2. k.pendingMessage = NULL
      BY <1>5 DEF LineFields
    <3> HIDE DEF k
    <3> QED
      BY <1>4, <1>5, <3>1, <3>2
  <2> QED
    BY <2>1, <2>2
<1>6. ASSUME NEW v \in Values, Jump(o, v)
      PROVE  Step(o)
  <2> DEFINE l == [line[o] EXCEPT !.targetValue = v, !.currentValue = v,
                                  !.pendingMessage = NULL]
  <2>1. l \in LineFields /\ l.pendingMessage = NULL
        /\ l.grainRate = line[o].grainRate
    BY <1>1, LineAssumption DEF LineFields
  <2>2. SendRamp(o, CancelNext(o), l, ValueAfterFree(x), now, v)
        /\ cascade # "none"
        /\ UNCHANGED <<blockStartTimestamp, phase, cascade, now, inFlight>>
    BY <1>6 DEF Jump
  <2> HIDE DEF l
  <2> QED
    BY <1>5, <2>1, <2>2
<1>7. ASSUME NEW v \in Values, NEW d \in RampDurations, Ramp(o, v, d)
      PROVE  Step(o)
  <2> DEFINE slope == (v - Here(o)) \div d
             l == [line[o] EXCEPT !.targetValue = v,
                                  !.currentValue = Here(o),
                                  !.slope = slope,
                                  !.pendingMessage = NULL]
  <2>1. Here(o) \in Int /\ slope \in Int
    <3>1. now \in Int
      BY DEF Base, P!Owned, P!TypeOK, P!ContextTypeOK
    <3>2. Here(o) \in Int
      BY <1>1, <3>1 DEF Here, LineFields
    <3> QED
      BY <3>2, LineAssumption
  <2>2. l \in LineFields /\ l.pendingMessage = NULL
        /\ l.grainRate = line[o].grainRate
    <3> HIDE DEF slope
    <3> QED
      BY <1>1, <2>1, LineAssumption DEF LineFields
  <2>3. /\ cascade # "none"
        /\ UNCHANGED <<blockStartTimestamp, phase, cascade, now, inFlight>>
        /\ \/ SendRamp(o, CancelNext(o), l, ValueAfterFree(x), now, Here(o))
           \/ ctx' = CancelNext(o) /\ line' = [line EXCEPT ![o] = l]
    BY <1>7 DEF Ramp
  <2> HIDE DEF l, slope
  <2> QED
    BY <1>4, <1>5, <2>2, <2>3
<1>8. ASSUME StopRamp(o)
      PROVE  Step(o)
  <2> DEFINE l == [line[o] EXCEPT !.pendingMessage = NULL]
  <2>1. l.pendingMessage = NULL /\ line' = [line EXCEPT ![o] = l]
    BY <1>1, <1>8 DEF StopRamp, LineFields
  <2> HIDE DEF l
  <2> QED
    BY <1>4, <1>8, <2>1 DEF StopRamp
<1>9. ASSUME NEW v \in Values, SetValue(o, v)
      PROVE  Step(o)
  <2> DEFINE l == [line[o] EXCEPT !.pendingMessage = NULL, !.currentValue = v]
  <2>1. l.pendingMessage = NULL /\ line' = [line EXCEPT ![o] = l]
    BY <1>1, <1>9 DEF SetValue, LineFields
  <2> HIDE DEF l
  <2> QED
    BY <1>4, <1>9, <2>1 DEF SetValue
<1>10. ASSUME NEW g \in Grains, SetGrain(o, g)
       PROVE  Step(o)
  <2>1. \A p \in Lines : line'[p].pendingMessage = line[p].pendingMessage
    BY <1>1, <1>10 DEF SetGrain, LineFields
  <2>2. \A p \in Timers : held'[p] = held[p]
    BY <1>2, <1>10, <2>1, SameHeld, Kinds
       DEF SetGrain, contextVars, delayVars, metroVars, playerVars, playVars
  <2> QED
    BY <1>2, <1>10, <2>2, Unseen DEF SetGrain, Step
<1> QED
  BY <1>6, <1>7, <1>8, <1>9, <1>10 DEF LineStep

-----------------------------------------------------------------------------
(***************************************************************************)
(* Changes of the lists and the loops.                                     *)
(***************************************************************************)

\* The last element of a sequence is taken off.
LEMMA LastRemoved ==
    ASSUME NEW S, NEW s \in Seq(S), s # <<>>
    PROVE  /\ Len(s) \in Nat \ {0}
           /\ Last(s) = s[Len(s)] /\ Last(s) \in S
           /\ Front(s) \in Seq(S) /\ Len(Front(s)) = Len(s) - 1
           /\ \A i \in 1 .. Len(s) - 1 : Front(s)[i] = s[i]
PROOF
<1> DEFINE k == Len(s) - 1
<1>1. Len(s) \in Nat \ {0} /\ \A i \in 1 .. Len(s) : s[i] \in S
  BY EmptySeq, ElementOfSeq
<1>2. Front(s) = SubSeq(s, 1, k) /\ Last(s) = s[Len(s)] /\ Last(s) \in S
  BY <1>1 DEF Front, Last
<1>3. k \in Int /\ 0 <= k /\ \A i \in 1 .. k : s[i] \in S
  BY <1>1
<1> HIDE DEF k
<1>4. /\ SubSeq(s, 1, k) \in Seq(S)
      /\ Len(SubSeq(s, 1, k)) = IF 1 <= k THEN k - 1 + 1 ELSE 0
      /\ \A i \in 1 .. k - 1 + 1 : SubSeq(s, 1, k)[i] = s[1 + i - 1]
  BY <1>3, SubSeqProperties
<1>5. Len(SubSeq(s, 1, k)) = k
  BY <1>3, <1>4
<1>6. \A i \in 1 .. k : SubSeq(s, 1, k)[i] = s[i]
  BY <1>3, <1>4
<1> QED
  BY <1>1, <1>2, <1>4, <1>5, <1>6 DEF k

\* It is replaced.
LEMMA LastReplaced ==
    ASSUME NEW S, NEW s \in Seq(S), s # <<>>, NEW e \in S
    PROVE  /\ Append(Front(s), e) \in Seq(S)
           /\ Len(Append(Front(s), e)) = Len(s)
           /\ Append(Front(s), e)[Len(s)] = e
           /\ \A i \in 1 .. Len(s) - 1 : Append(Front(s), e)[i] = s[i]
PROOF
<1> DEFINE f == Front(s)
           t == Append(f, e)
<1>1. /\ Len(s) \in Nat \ {0} /\ f \in Seq(S) /\ Len(f) = Len(s) - 1
      /\ \A i \in 1 .. Len(s) - 1 : f[i] = s[i]
  BY LastRemoved
<1> HIDE DEF f
<1>3. /\ t \in Seq(S) /\ Len(t) = Len(f) + 1
      /\ \A i \in 1 .. Len(f) : t[i] = f[i]
      /\ t[Len(f) + 1] = e
  BY <1>1, AppendProperties
<1> HIDE DEF t
<1>4. Len(t) = Len(s) /\ Len(f) + 1 = Len(s)
  BY <1>1, <1>3
<1>5. \A i \in 1 .. Len(s) - 1 : t[i] = s[i]
  BY <1>1, <1>3
<1> QED
  BY <1>3, <1>4, <1>5 DEF f, t

\* The innermost loop.
LEMMA LastLoop ==
    ASSUME Typed, LoopsFine, loops # <<>>
    PROVE  LET n == Len(loops)
               o == loops[n].pipe
               list == scheduledMessagesList[o]
           IN  /\ n \in Nat \ {0} /\ n \in 1 .. n
               /\ Last(loops) = loops[n] /\ loops[n] \in LoopFields
               /\ o \in Pipes /\ o \in Timers
               /\ list \in Seq(Messages) /\ Len(list) \in Nat
               /\ loops[n].at \in 1 .. Len(list) + 1
               /\ loops[n].at \in Nat
               /\ \A i \in 1 .. n : loops[i].pipe = o <=> i = n
               /\ AliveAt(o) = loops[n].at .. Len(list)
PROOF
<1> DEFINE n == Len(loops)
           o == loops[n].pipe
           list == scheduledMessagesList[o]
<1>1. /\ loops \in Seq(LoopFields)
      /\ n \in Nat /\ \A i \in 1 .. n : loops[i] \in LoopFields
      /\ scheduledMessagesList \in [Pipes -> Seq(Messages)]
  BY EachLoop DEF Typed, PipeTypes
<1>2. n \in Nat \ {0} /\ Last(loops) = loops[n] /\ n \in 1 .. n
  BY <1>1, EmptySeq DEF Last
<1>3. /\ loops[n] \in LoopFields /\ o \in Pipes
      /\ list \in Seq(Messages) /\ Len(list) \in Nat
      /\ loops[n].at \in Nat
  BY <1>1, <1>2, LenProperties DEF LoopFields
<1>4. /\ loops[n].at \in 1 .. Len(list) + 1
      /\ \A i \in 1 .. n : loops[i].pipe = o <=> i = n
  BY <1>2 DEF LoopsFine
<1>5. AliveAt(o) = loops[n].at .. Len(list)
  <2>1. AliveAt(o) = {k \in 1 .. Len(list) : k >= loops[n].at}
    BY <1>2, <1>4 DEF AliveAt
  <2> QED
    BY <1>3, <1>4, <2>1
<1> QED
  BY <1>2, <1>3, <1>4, <1>5, Kinds

\* A message that is put into a pipe is behind all others.
LEMMA PutPointers ==
    ASSUME Typed, LoopsFine, NEW o \in Pipes, NEW m \in Messages,
           scheduledMessagesList' =
               [scheduledMessagesList EXCEPT ![o] = Append(@, m)],
           loops' = loops
    PROVE  LET list == scheduledMessagesList[o]
           IN  /\ scheduledMessagesList' \in [Pipes -> Seq(Messages)]
               /\ Len(list) \in Nat
               /\ Len(scheduledMessagesList'[o]) = Len(list) + 1
               /\ scheduledMessagesList'[o][Len(list) + 1] = m
               /\ \A k \in 1 .. Len(list) :
                      scheduledMessagesList'[o][k] = list[k]
               /\ AliveAt(o)' = AliveAt(o) \cup {Len(list) + 1}
               /\ held'[o] = held[o] \cup {m}
               /\ \A p \in Pipes \ {o} : held'[p] = held[p]
               /\ retimed' = retimed
PROOF
<1> DEFINE list == scheduledMessagesList[o]
           new == scheduledMessagesList'[o]
           n == Len(list)
<1>1. /\ scheduledMessagesList \in [Pipes -> Seq(Messages)]
      /\ list \in Seq(Messages) /\ n \in Nat
      /\ new = Append(list, m)
      /\ \A p \in Pipes \ {o} :
             scheduledMessagesList'[p] = scheduledMessagesList[p]
  BY LenProperties DEF Typed, PipeTypes
<1>2. /\ new \in Seq(Messages) /\ Len(new) = n + 1 /\ new[n + 1] = m
      /\ \A k \in 1 .. n : new[k] = list[k]
  BY <1>1, AppendProperties
<1>3. scheduledMessagesList' \in [Pipes -> Seq(Messages)]
  BY <1>1, <1>2
<1>4. \A i \in 1 .. Len(loops) :
          /\ loops[i].pipe \in Pipes
          /\ loops[i].at \in 1 .. Len(scheduledMessagesList[loops[i].pipe]) + 1
          /\ loops[i].sent =>
                 loops[i].at \in 1 .. Len(scheduledMessagesList[loops[i].pipe])
  BY EachLoop DEF Typed, LoopsFine
<1> HIDE DEF n, new, list
<1>5. AliveAt(o)' = AliveAt(o) \cup {n + 1}
  <2>1. \A i \in 1 .. Len(loops) :
            loops[i].pipe = o => loops[i].at \in 1 .. n + 1
    BY <1>4 DEF n, list
  <2>2. AliveAt(o)' = {k \in 1 .. n + 1 :
            \A i \in 1 .. Len(loops) : loops[i].pipe = o => k >= loops[i].at}
    BY <1>2 DEF AliveAt, new
  <2>3. AliveAt(o) = {k \in 1 .. n :
            \A i \in 1 .. Len(loops) : loops[i].pipe = o => k >= loops[i].at}
    BY DEF AliveAt, n, list
  <2>4. ASSUME NEW k \in 1 .. n + 1
        PROVE  k \in AliveAt(o)' <=> k \in AliveAt(o) \/ k = n + 1
    <3>1. CASE k = n + 1
      BY <1>1, <2>1, <2>2, <3>1
    <3>2. CASE k # n + 1
      BY <1>1, <2>2, <2>3, <3>2
    <3> QED
      BY <3>1, <3>2
  <2>5. /\ AliveAt(o)' \subseteq 1 .. n + 1 /\ AliveAt(o) \subseteq 1 .. n + 1
        /\ n + 1 \in 1 .. n + 1
    BY <1>1, <2>2, <2>3
  <2> QED
    BY <2>4, <2>5
<1>6. held'[o] = held[o] \cup {m}
  <2>1. held[o] = {list[k] : k \in AliveAt(o)} /\ AliveAt(o) \subseteq 1 .. n
    BY HeldOfKinds DEF Alive, AliveAt, n, list
  <2>2. held'[o] = {new[k] : k \in AliveAt(o)'}
    BY HeldOfKindsNext DEF Alive, new
  <2> QED
    BY <1>2, <1>5, <2>1, <2>2
<1>7. ASSUME NEW p \in Pipes \ {o}
      PROVE  held'[p] = held[p]
  <2>1. scheduledMessagesList'[p] = scheduledMessagesList[p]
    BY <1>1
  <2>2. AliveAt(p)' = AliveAt(p)
    BY <2>1 DEF AliveAt
  <2>3. Alive(p)' = Alive(p)
    BY <2>1, <2>2 DEF Alive
  <2> QED
    BY <2>3, HeldOfKinds, HeldOfKindsNext
<1>8. retimed' = retimed
  <2>1. \A i \in {j \in 1 .. Len(loops) : loops[j].sent} :
            scheduledMessagesList'[loops[i].pipe][loops[i].at]
                = scheduledMessagesList[loops[i].pipe][loops[i].at]
    BY <1>1, <1>2, <1>4 DEF n, new, list
  <2>2. BeingSent' = {scheduledMessagesList'[loops[i].pipe][loops[i].at] :
                          i \in {j \in 1 .. Len(loops) : loops[j].sent}}
    BY DEF BeingSent
  <2>3. BeingSent' = BeingSent
    BY <2>1, <2>2 DEF BeingSent
  <2> QED
    BY <2>3, HeldOf
<1> QED
  BY <1>1, <1>2, <1>3, <1>5, <1>6, <1>7, <1>8 DEF n, new, list

\* A loop that starts has cancelled nothing.
LEMMA LoopPointers ==
    ASSUME Typed, NEW loop \in LoopFields, loop.at = 1, loop.sent = FALSE,
           loops' = Append(loops, loop),
           UNCHANGED scheduledMessagesList
    PROVE  /\ loops' \in Seq(LoopFields)
           /\ Len(loops') = Len(loops) + 1
           /\ loops'[Len(loops) + 1] = loop
           /\ \A i \in 1 .. Len(loops) : loops'[i] = loops[i]
           /\ \A p \in Pipes : AliveAt(p)' = AliveAt(p)
           /\ \A p \in Pipes : held'[p] = held[p]
           /\ retimed' = retimed
PROOF
<1> DEFINE n == Len(loops)
<1>1. n \in Nat /\ loops \in Seq(LoopFields)
  BY EachLoop DEF Typed, PipeTypes
<1>2. /\ loops' \in Seq(LoopFields) /\ Len(loops') = n + 1
      /\ loops'[n + 1] = loop
      /\ \A i \in 1 .. n : loops'[i] = loops[i]
  BY <1>1, AppendProperties
<1> HIDE DEF n
<1>3. \A i \in 1 .. n + 1 : i \in 1 .. n \/ i = n + 1
  BY <1>1
<1>4. \A i \in 1 .. n : i \in 1 .. n + 1
  BY <1>1
<1>5. ASSUME NEW p \in Pipes
      PROVE  AliveAt(p)' = AliveAt(p)
  <2>1. ASSUME NEW k \in 1 .. Len(scheduledMessagesList[p])
        PROVE  (\A i \in 1 .. n + 1 : loops'[i].pipe = p => k >= loops'[i].at)
               <=> (\A i \in 1 .. n : loops[i].pipe = p => k >= loops[i].at)
    <3>1. k >= loop.at
      OBVIOUS
    <3> QED
      BY <1>2, <1>3, <1>4, <3>1
  <2> QED
    BY <1>2, <2>1 DEF AliveAt, n
<1>6. ASSUME NEW p \in Pipes
      PROVE  held'[p] = held[p]
  <2>1. Alive(p)' = Alive(p)
    BY <1>5 DEF Alive
  <2> QED
    BY <2>1, HeldOfKinds, HeldOfKindsNext
<1>7. retimed' = retimed
  <2>1. {j \in 1 .. n + 1 : loops'[j].sent} = {j \in 1 .. n : loops[j].sent}
    BY <1>2, <1>3, <1>4
  <2>2. BeingSent' = {scheduledMessagesList[loops'[i].pipe][loops'[i].at] :
                          i \in {j \in 1 .. n + 1 : loops'[j].sent}}
    BY <1>2 DEF BeingSent
  <2>3. BeingSent' = BeingSent
    BY <1>2, <2>1, <2>2 DEF BeingSent, n
  <2> QED
    BY <2>3, HeldOf
<1> QED
  BY <1>2, <1>5, <1>6, <1>7 DEF n

\* The innermost loop moves, and no other.
LEMMA LoopMoves ==
    ASSUME Typed, LoopsFine, loops # <<>>, NEW loop \in LoopFields,
           NEW o, o = loop.pipe, o = Last(loops).pipe,
           loops' = Append(Front(loops), loop),
           UNCHANGED scheduledMessagesList
    PROVE  LET n == Len(loops)
               list == scheduledMessagesList[o]
           IN  /\ loops' \in Seq(LoopFields) /\ Len(loops') = n
               /\ loops'[n] = loop
               /\ \A i \in 1 .. n - 1 : loops'[i] = loops[i]
               /\ AliveAt(o)' = {k \in 1 .. Len(list) : k >= loop.at}
               /\ held'[o] = {list[k] : k \in AliveAt(o)'}
               /\ \A p \in Pipes \ {o} : AliveAt(p)' = AliveAt(p)
               /\ \A p \in Pipes \ {o} : held'[p] = held[p]
PROOF
<1> DEFINE n == Len(loops)
           list == scheduledMessagesList[o]
<1>1. /\ loops \in Seq(LoopFields) /\ n \in Nat \ {0} /\ n \in 1 .. n
      /\ loops[n].pipe = o /\ o \in Pipes
      /\ \A i \in 1 .. n : loops[i].pipe = o <=> i = n
  BY LastLoop DEF Typed, PipeTypes
<1>2. /\ loops' \in Seq(LoopFields) /\ Len(loops') = n
      /\ loops'[n] = loop
      /\ \A i \in 1 .. n - 1 : loops'[i] = loops[i]
  <2>1. /\ loops \in Seq(LoopFields) /\ loops # <<>> /\ loop \in LoopFields
        /\ loops' = Append(Front(loops), loop)
    BY <1>1
  <2> QED
    BY <2>1, LastReplaced
<1>3. \A i \in 1 .. n : loops'[i].pipe = loops[i].pipe
                        /\ (i # n => loops'[i] = loops[i])
  <2> HIDE DEF n
  <2>1. \A i \in 1 .. n : i = n \/ i \in 1 .. n - 1
    BY <1>1
  <2> QED
    BY <1>1, <1>2, <2>1
<1>4. AliveAt(o)' = {k \in 1 .. Len(list) : k >= loop.at}
  <2>1. AliveAt(o)' = {k \in 1 .. Len(list) :
            \A i \in 1 .. n : loops'[i].pipe = o => k >= loops'[i].at}
    BY <1>2 DEF AliveAt
  <2> QED
    BY <1>1, <1>2, <1>3, <2>1
<1>5. held'[o] = {list[k] : k \in AliveAt(o)'}
  BY <1>1, HeldOfKindsNext DEF Alive
<1>6. ASSUME NEW p \in Pipes \ {o}
      PROVE  AliveAt(p)' = AliveAt(p)
  <2>1. AliveAt(p)' = {k \in 1 .. Len(scheduledMessagesList[p]) :
            \A i \in 1 .. n : loops'[i].pipe = p => k >= loops'[i].at}
    BY <1>2 DEF AliveAt
  <2>2. \A i \in 1 .. n :
            /\ loops'[i].pipe = p <=> loops[i].pipe = p
            /\ loops[i].pipe = p => loops'[i].at = loops[i].at
    BY <1>1, <1>3
  <2>3. AliveAt(p) = {k \in 1 .. Len(scheduledMessagesList[p]) :
            \A i \in 1 .. n : loops[i].pipe = p => k >= loops[i].at}
    BY DEF AliveAt
  <2> HIDE DEF n
  <2> QED
    BY <2>1, <2>2, <2>3
<1>7. ASSUME NEW p \in Pipes \ {o}
      PROVE  held'[p] = held[p]
  <2>1. Alive(p)' = Alive(p)
    BY <1>6 DEF Alive
  <2> QED
    BY <2>1, HeldOfKinds, HeldOfKindsNext
<1> QED
  BY <1>2, <1>4, <1>5, <1>6, <1>7

\* The messages that are sent, when the innermost loop has moved.
LEMMA SentMoves ==
    ASSUME Base, loops # <<>>, NEW loop \in LoopFields,
           NEW o, o = loop.pipe, o = Last(loops).pipe,
           loops' = Append(Front(loops), loop),
           UNCHANGED scheduledMessagesList
    PROVE  LET x == scheduledMessagesList[o][Last(loops).at]
               y == scheduledMessagesList[o][loop.at]
           IN  /\ retimed' = (IF Last(loops).sent THEN retimed \ {x}
                                                  ELSE retimed)
                             \cup (IF loop.sent THEN {y} ELSE {})
               /\ ~ Last(loops).sent => retimed \cap held[o] = {}
PROOF
<1> DEFINE n == Len(loops)
           list == scheduledMessagesList[o]
           Sent(i) == scheduledMessagesList[loops[i].pipe][loops[i].at]
           Rest == {Sent(i) : i \in {j \in 1 .. n - 1 : loops[j].sent}}
<1>1. /\ n \in Nat \ {0} /\ n \in 1 .. n /\ Last(loops) = loops[n]
      /\ loops[n].pipe = o /\ o \in Pipes /\ o \in Timers
      /\ \A i \in 1 .. n : loops[i].pipe = o <=> i = n
  BY LastLoop DEF Base
<1>2. /\ Len(loops') = n /\ loops'[n] = loop
      /\ \A i \in 1 .. n - 1 : loops'[i] = loops[i]
  BY LoopMoves DEF Base
<1>3. retimed = {Sent(i) : i \in {j \in 1 .. n : loops[j].sent}}
  BY HeldOf DEF BeingSent
<1>4. retimed' = {scheduledMessagesList[loops'[i].pipe][loops'[i].at] :
                      i \in {j \in 1 .. n : loops'[j].sent}}
  BY <1>2, HeldOf DEF BeingSent
<1>5. Rest \cap held[o] = {}
  <2> SUFFICES ASSUME NEW i \in 1 .. n - 1, loops[i].sent, Sent(i) \in held[o]
               PROVE  FALSE
    OBVIOUS
  <2>1. i \in 1 .. n /\ i # n
    BY <1>1
  <2>2. loops[i].pipe \in Pipes /\ Sent(i) \in held[loops[i].pipe]
    BY <2>1, SentIsHeld DEF Base
  <2>3. loops[i].pipe = o
    BY <1>1, <2>2, Kinds, TrackersFit, ContextFits, P!HeldApart DEF Base
  <2> QED
    BY <1>1, <2>1, <2>3
<1>6. \A i \in 1 .. n : i = n \/ i \in 1 .. n - 1
  BY <1>1
<1>7. \A i \in 1 .. n - 1 : i \in 1 .. n
  BY <1>1
<1>8. retimed = Rest \cup (IF loops[n].sent THEN {list[loops[n].at]} ELSE {})
  <2>1. Sent(n) = list[loops[n].at]
    BY <1>1
  <2> HIDE DEF Sent, n
  <2>2. retimed = Rest \cup {Sent(i) : i \in {j \in {n} : loops[j].sent}}
    BY <1>1, <1>3, <1>6, <1>7
  <2>3. {Sent(i) : i \in {j \in {n} : loops[j].sent}}
            = IF loops[n].sent THEN {Sent(n)} ELSE {}
    OBVIOUS
  <2> QED
    BY <2>1, <2>2, <2>3
<1>9. retimed' = Rest \cup (IF loop.sent THEN {list[loop.at]} ELSE {})
  <2> DEFINE Sends(i) == scheduledMessagesList[loops'[i].pipe][loops'[i].at]
  <2>1. Sends(n) = list[loop.at] /\ loops'[n].sent = loop.sent
    BY <1>2
  <2>2. \A i \in 1 .. n - 1 : Sends(i) = Sent(i)
                              /\ loops'[i].sent = loops[i].sent
    BY <1>2
  <2>3. retimed' = {Sends(i) : i \in {j \in 1 .. n : loops'[j].sent}}
    BY <1>4
  <2> HIDE DEF Sends, Sent, n
  <2>4. retimed' = {Sends(i) : i \in {j \in 1 .. n - 1 : loops'[j].sent}}
                    \cup {Sends(i) : i \in {j \in {n} : loops'[j].sent}}
    BY <1>1, <1>6, <1>7, <2>3
  <2>5. {Sends(i) : i \in {j \in {n} : loops'[j].sent}}
            = IF loop.sent THEN {list[loop.at]} ELSE {}
    BY <2>1
  <2>6. {Sends(i) : i \in {j \in 1 .. n - 1 : loops'[j].sent}} = Rest
    BY <2>2
  <2> QED
    BY <2>4, <2>5, <2>6
<1>10. loops[n].sent => list[loops[n].at] \in held[o]
  BY <1>1, SentIsHeld DEF Base
<1> QED
  <2> HIDE DEF Rest, list
  <2>1. loops[n].sent => Rest = retimed \ {list[loops[n].at]}
    BY <1>5, <1>8, <1>10
  <2>2. ~ loops[n].sent => Rest = retimed
    BY <1>8
  <2>3. retimed' = (IF loops[n].sent THEN retimed \ {list[loops[n].at]}
                                     ELSE retimed)
                    \cup (IF loop.sent THEN {list[loop.at]} ELSE {})
    BY <1>9, <2>1, <2>2
  <2>4. ~ loops[n].sent => retimed \cap held[o] = {}
    BY <1>5, <2>2
  <2> QED
    BY <1>1, <2>3, <2>4 DEF list

-----------------------------------------------------------------------------
(***************************************************************************)
(* The handlers of the pipes.                                              *)
(***************************************************************************)

LEMMA PutIsStep ==
    ASSUME Base, NEW o \in Pipes \cap patch, NEW m \in Messages, NEW d,
           Put(o, m, d),
           UNCHANGED <<delayVars, metroVars, lineVars, playerVars>>
    PROVE  /\ P!Schedule(o, NULL, pipeDelayMs[o], m)
           /\ pipeDelayMs[o] \in Delays
           /\ \A p \in Timers \ {o} : held'[p] = held[p]
PROOF
<1>1. /\ o \in Timers /\ o \in Pipes /\ TimedOutlet[o] = 0
      /\ pipeDelayMs[o] \in Delays
  BY Kinds, OutletsOfKinds, DelaysOfKinds DEF Base, Typed, PipeTypes
<1>2. /\ ctx' = ScheduleMessage(ctx, o, 0, m, now + pipeDelayMs[o])
      /\ m \in Fresh(ctx) /\ cascade # "none"
      /\ scheduledMessagesList' =
             [scheduledMessagesList EXCEPT ![o] = Append(@, m)]
      /\ loops' = loops
      /\ UNCHANGED <<blockStartTimestamp, phase, cascade, now, inFlight>>
  BY DEF Put, PatchRuns
<1>3. held'[o] = held[o] \cup {m} /\ retimed' = retimed
  BY <1>1, <1>2, PutPointers DEF Base
<1>4. \A p \in Pipes \ {o} : held'[p] = held[p]
  BY <1>1, <1>2, PutPointers DEF Base
<1>5. \A p \in Timers \ {o} : held'[p] = held[p]
  BY <1>2, <1>4, HeldOfOthers
     DEF delayVars, metroVars, lineVars, playerVars, playVars
<1>6. held' = [held EXCEPT ![o] = (@ \ {NULL}) \cup {m}]
  <2>1. held' = [held EXCEPT ![o] = held[o] \cup {m}]
    BY <1>1, <1>3, <1>5, HeldExcept
  <2>2. held[o] \ {NULL} = held[o]
    BY <1>1, TrackersFit, ContextFits, P!HeldApart DEF Base
  <2> QED
    BY <2>1, <2>2
<1>7. P!CancelMessage(ctx, o, TimedOutlet[o], NULL) = ctx
  BY SameCancelMessage DEF CancelMessage
<1>8. P!Schedule(o, NULL, pipeDelayMs[o], m)
  BY <1>1, <1>2, <1>3, <1>6, <1>7, SameScheduleMessage, SameSmall
     DEF P!Schedule
<1> QED
  BY <1>1, <1>5, <1>8

LEMMA PipeStepIsStep ==
    ASSUME Base, NEW o \in Pipes \cap patch, PipeStep(o),
           UNCHANGED <<delayVars, metroVars, lineVars, playerVars>>
    PROVE  Step(o) /\ \A p \in Timers \ {o} : held'[p] = held[p]
PROOF
<1>1. ASSUME NEW m \in Messages, NEW d, Put(o, m, d)
      PROVE  Step(o) /\ \A p \in Timers \ {o} : held'[p] = held[p]
  BY <1>1, PutIsStep, ReplacesIsStep
<1>2. ASSUME UNCHANGED contextVars, retimed' = retimed,
             \A p \in Pipes : held'[p] = held[p]
      PROVE  Step(o) /\ \A p \in Timers \ {o} : held'[p] = held[p]
  <2>1. \A p \in Timers : held'[p] = held[p]
    BY <1>2, SameHeld, Kinds
       DEF contextVars, delayVars, metroVars, lineVars, playerVars, playVars
  <2> QED
    BY <1>2, <2>1, Unseen DEF Step
<1>3. ASSUME NEW d, SetPipeDelay(o, d)
      PROVE  Step(o) /\ \A p \in Timers \ {o} : held'[p] = held[p]
  BY <1>2, <1>3, SamePipes DEF SetPipeDelay
<1>4. ASSUME NEW sends \in BOOLEAN, Loop(o, sends)
      PROVE  Step(o) /\ \A p \in Timers \ {o} : held'[p] = held[p]
  <2> DEFINE loop == [pipe |-> o, sends |-> sends, at |-> 1, sent |-> FALSE]
  <2>1. loop \in LoopFields /\ loop.at = 1 /\ loop.sent = FALSE
    BY DEF LoopFields
  <2>2. loops' = Append(loops, loop) /\ UNCHANGED scheduledMessagesList
        /\ UNCHANGED contextVars
    BY <1>4 DEF Loop
  <2> HIDE DEF loop
  <2>3. retimed' = retimed /\ \A p \in Pipes : held'[p] = held[p]
    BY <2>1, <2>2, LoopPointers DEF Base
  <2> QED
    BY <1>2, <2>2, <2>3
<1> QED
  BY <1>1, <1>3, <1>4 DEF PipeStep

\* The iterator goes on.
LEMMA LoopGoesOn ==
    ASSUME NEW l \in LoopFields
    PROVE  LET k == [l EXCEPT !.at = @ + 1, !.sent = FALSE]
           IN  /\ k \in LoopFields /\ k.pipe = l.pipe
               /\ k.at = l.at + 1 /\ k.sent = FALSE
PROOF
<1> DEFINE j == [l EXCEPT !.at = @ + 1]
           k == [j EXCEPT !.sent = FALSE]
<1>1. j \in LoopFields /\ j.pipe = l.pipe /\ j.at = l.at + 1
  BY DEF LoopFields
<1> HIDE DEF j
<1>2. /\ k \in LoopFields /\ k.pipe = j.pipe /\ k.at = j.at
      /\ k.sent = FALSE
  BY <1>1 DEF LoopFields
<1> QED
  BY <1>1, <1>2 DEF j

\* A turn of a loop is one of the pipe that it is in.
LEMMA PipeLoopsIsStep ==
    ASSUME Base, PipeLoops,
           UNCHANGED <<delayVars, metroVars, lineVars, playerVars>>,
           NEW l, l = Last(loops), NEW o, o = l.pipe
    PROVE  /\ o \in Pipes /\ o \in Timers
           /\ Step(o)
           /\ \A p \in Timers \ {o} : held'[p] = held[p]
PROOF
<1> DEFINE n == Len(loops)
           list == scheduledMessagesList[o]
           x == list[l.at]
<1>1. loops # <<>>
  BY DEF PipeLoops, LoopSend, LoopCancel, LoopEnd
<1>2. /\ n \in Nat \ {0} /\ n \in 1 .. n /\ l = loops[n] /\ l \in LoopFields
      /\ o \in Pipes /\ o \in Timers
      /\ list \in Seq(Messages) /\ Len(list) \in Nat
  BY <1>1, LastLoop DEF Base
<1>3. /\ l.at \in 1 .. Len(list) + 1 /\ l.at \in Nat
      /\ AliveAt(o) = l.at .. Len(list)
      /\ \A i \in 1 .. n : loops[i].pipe = o <=> i = n
  BY <1>1, LastLoop DEF Base
<1>4. TimedOutlet[o] = 0 /\ held[o] = {list[k] : k \in AliveAt(o)}
  BY <1>2, Kinds, OutletsOfKinds, HeldOfKinds DEF Alive
<1>5. cascade # "none"
  BY <1>1 DEF Base, LoopsFine
<1>6. ASSUME inFlight' = inFlight, \A p \in Pipes \ {o} : held'[p] = held[p]
      PROVE  \A p \in Timers \ {o} : held'[p] = held[p]
  BY <1>6, HeldOfOthers DEF delayVars, metroVars, lineVars, playerVars, playVars
<1>7. ~ l.sent => ~ P!Flushing(o)
  BY <1>2, <1>3, NotFlushing
<1>8. l.at <= Len(list) => x \in held[o]
  BY <1>2, <1>3, <1>4
<1>9. l.sent => x \in retimed
  BY <1>2, HeldOf DEF BeingSent
<1>10. ASSUME LoopSend
       PROVE  Step(o) /\ \A p \in Timers \ {o} : held'[p] = held[p]
  <2> DEFINE k == [l EXCEPT !.sent = TRUE]
  <2>1. /\ ~ l.sent /\ l.at <= Len(list)
        /\ ctx' = SetTimestamp(ctx, x, now)
        /\ loops' = Append(Front(loops), k)
        /\ UNCHANGED <<blockStartTimestamp, phase, cascade, now, inFlight,
                       scheduledMessagesList>>
    BY <1>10 DEF LoopSend
  <2>2. /\ k \in LoopFields /\ k.pipe = o /\ k.at = l.at /\ k.sent = TRUE
    BY <1>2 DEF LoopFields
  <2> HIDE DEF k
  <2>3. /\ held'[o] = {list[j] : j \in AliveAt(o)'}
        /\ AliveAt(o)' = {j \in 1 .. Len(list) : j >= l.at}
        /\ \A p \in Pipes \ {o} : held'[p] = held[p]
    BY <1>1, <2>1, <2>2, LoopMoves DEF Base
  <2>4. held'[o] = held[o]
    <3> DEFINE L == Len(list)
    <3>1. /\ L \in Nat /\ l.at \in Nat /\ l.at >= 1
          /\ AliveAt(o) = l.at .. L
          /\ AliveAt(o)' = {j \in 1 .. L : j >= l.at}
      BY <1>2, <1>3, <2>3
    <3> HIDE DEF L
    <3>2. {j \in 1 .. L : j >= l.at} = l.at .. L
      BY <3>1
    <3> QED
      BY <1>4, <2>3, <3>1, <3>2
  <2>5. retimed' = retimed \cup {x}
    BY <1>1, <2>1, <2>2, SentMoves
  <2>6. \A p \in Timers \ {o} : held'[p] = held[p]
    BY <1>6, <2>1, <2>3
  <2>7. held' = held
    BY <2>4, <2>6, HeldOf
  <2>8. P!FlushSend(o, x)
    BY <1>5, <1>7, <2>1, <2>5, <2>7, SameSmall DEF P!FlushSend
  <2> QED
    BY <1>8, <2>1, <2>6, <2>8 DEF Step, P!TrackerStep
<1>11. ASSUME LoopCancel
       PROVE  Step(o) /\ \A p \in Timers \ {o} : held'[p] = held[p]
  <2> DEFINE k == [l EXCEPT !.at = @ + 1, !.sent = FALSE]
  <2>1. /\ l.at <= Len(list)
        /\ ctx' = CancelMessage(ctx, o, 0, x)
        /\ loops' = Append(Front(loops), k)
        /\ UNCHANGED <<blockStartTimestamp, phase, cascade, now, inFlight,
                       scheduledMessagesList>>
    BY <1>11 DEF LoopCancel
  <2>2. /\ k \in LoopFields /\ k.pipe = o /\ k.at = l.at + 1 /\ k.sent = FALSE
    BY <1>2, LoopGoesOn
  <2>3. l.at \in AliveAt(o)
    BY <1>2, <1>3, <2>1
  <2> HIDE DEF k
  <2>4. /\ held'[o] = {list[j] : j \in AliveAt(o)'}
        /\ AliveAt(o)' = {j \in 1 .. Len(list) : j >= l.at + 1}
        /\ \A p \in Pipes \ {o} : held'[p] = held[p]
    BY <1>1, <2>1, <2>2, LoopMoves DEF Base
  <2>5. AliveAt(o)' = AliveAt(o) \ {l.at}
    BY <1>2, <1>3, <2>4
  <2>6. held'[o] = held[o] \ {x}
    <3>1. \A j \in AliveAt(o) : list[j] = x => j = l.at
      BY <1>2, <2>3 DEF Base, ListsApart
    <3> HIDE DEF list
    <3> QED
      BY <1>4, <2>3, <2>4, <2>5, <3>1
  <2>7. \A p \in Timers \ {o} : held'[p] = held[p]
    BY <1>6, <2>1, <2>4
  <2>8. held' = [held EXCEPT ![o] = @ \ {x}]
    BY <1>2, <2>6, <2>7, HeldExcept
  <2>9. x \in held[o] /\ ctx' = P!CancelMessage(ctx, o, TimedOutlet[o], x)
    BY <1>4, <1>8, <2>1, SameCancelMessage
  <2>10. retimed' = IF l.sent THEN retimed \ {x} ELSE retimed
    BY <1>1, <2>1, <2>2, SentMoves
  <2>11. CASE l.sent
    <3>1. P!FlushCancel(o, x)
      BY <1>5, <1>9, <2>1, <2>8, <2>9, <2>10, <2>11 DEF P!FlushCancel
    <3> QED
      BY <2>7, <2>9, <3>1 DEF Step, P!TrackerStep
  <2>12. CASE ~ l.sent
    <3>1. P!Cancel(o, x)
      BY <1>5, <1>7, <2>1, <2>8, <2>9, <2>10, <2>12 DEF P!Cancel
    <3> QED
      BY <2>7, <2>9, <3>1 DEF Step, P!TrackerStep
  <2> QED
    BY <2>11, <2>12
<1>12. ASSUME LoopEnd
       PROVE  Step(o) /\ \A p \in Timers \ {o} : held'[p] = held[p]
  <2>1. /\ ~ l.sent /\ l.at > Len(list)
        /\ scheduledMessagesList' =
               [scheduledMessagesList EXCEPT ![o] = <<>>]
        /\ loops' = Front(loops)
        /\ UNCHANGED contextVars
    BY <1>12 DEF LoopEnd
  <2>2. /\ Len(loops') = n - 1
        /\ \A i \in 1 .. n - 1 : loops'[i] = loops[i]
    BY <1>1, <1>2, <2>1, LastRemoved DEF Base, Typed, PipeTypes
  <2>3. /\ \A i \in 1 .. n : i = n \/ i \in 1 .. n - 1
        /\ \A i \in 1 .. n - 1 : i \in 1 .. n /\ i # n
    BY <1>2
  <2>4. \A p \in Pipes : scheduledMessagesList'[p] =
                             IF p = o THEN <<>> ELSE scheduledMessagesList[p]
    BY <2>1 DEF Base, Typed, PipeTypes
  <2>5. held'[o] = {}
    <3>1. Len(scheduledMessagesList'[o]) = 0
      BY <1>2, <2>4, EmptySeq
    <3>2. AliveAt(o)' = {}
      BY <3>1 DEF AliveAt
    <3> QED
      BY <1>2, <3>2, HeldOfKindsNext DEF Alive
  <2>6. held[o] = {}
    BY <1>2, <1>3, <1>4, <2>1
  <2>7. ASSUME NEW p \in Pipes \ {o}
        PROVE  held'[p] = held[p]
    <3>1. loops[n].pipe # p
      BY <1>2
    <3>2. AliveAt(p)' = AliveAt(p)
      BY <2>2, <2>3, <2>4, <3>1 DEF AliveAt
    <3>3. Alive(p)' = Alive(p)
      BY <2>4, <3>2 DEF Alive
    <3> QED
      BY <3>3, HeldOfKinds, HeldOfKindsNext
  <2>8. retimed' = retimed
    <3>1. {j \in 1 .. n - 1 : loops'[j].sent} = {j \in 1 .. n : loops[j].sent}
      BY <1>2, <2>1, <2>2, <2>3
    <3>2. \A j \in 1 .. n - 1 :
              scheduledMessagesList'[loops[j].pipe]
                  = scheduledMessagesList[loops[j].pipe]
      BY <1>3, <2>3, <2>4, EachLoop DEF Base, Typed
    <3>3. BeingSent' = {scheduledMessagesList'[loops'[i].pipe][loops'[i].at] :
                            i \in {j \in 1 .. n - 1 : loops'[j].sent}}
      BY <2>2 DEF BeingSent
    <3>4. BeingSent' = BeingSent
      BY <2>2, <3>1, <3>2, <3>3 DEF BeingSent
    <3> QED
      BY <3>4, HeldOf
  <2>9. \A p \in Timers \ {o} : held'[p] = held[p]
    BY <1>6, <2>1, <2>7 DEF contextVars
  <2>10. \A p \in Timers : held'[p] = held[p]
    BY <2>5, <2>6, <2>9
  <2> QED
    BY <2>1, <2>8, <2>10, Unseen DEF Step
<1> QED
  BY <1>2, <1>10, <1>11, <1>12 DEF PipeLoops

-----------------------------------------------------------------------------
(***************************************************************************)
(* The handlers of the players.                                            *)
(***************************************************************************)

\* A player that has a table has one of a length that tables are given.
LEMMA LengthOfTable ==
    ASSUME Typed, NEW o \in Players
    PROVE  /\ TableLength(o) \in Nat
           /\ table[o] # NULL /\ Players \cap patch # {} => TableLength(o) \in Lengths
PROOF
<1>1. /\ table[o] \in Tables \cup {NULL}
      /\ bufferLength \in [Tables -> Nat]
      /\ Players \cap patch # {} => bufferLength \in [Tables -> Lengths]
  BY DEF Typed, PlayerTypes
<1> QED
  BY <1>1 DEF TableLength

\* What plays in a block can be scheduled when the table has it.
LEMMA PlayTimesFit ==
    ASSUME Typed, NEW o \in Players \cap patch, table[o] # NULL,
           NEW start \in Int, NEW duration \in Int,
           start >= 0, duration >= -1, start < TableLength(o)
    PROVE  /\ EndIndex(o, start, duration) \in Int
           /\ EndIndex(o, start, duration) - start \in PlayTimes
           /\ EndIndex(o, start, duration) <= TableLength(o)
           /\ start <= EndIndex(o, start, duration)
PROOF
<1>1. TableLength(o) \in Lengths /\ TableLength(o) \in Nat
  BY LengthOfTable
<1>2. /\ EndIndex(o, start, duration) \in Int
      /\ EndIndex(o, start, duration) - start \in 0 .. TableLength(o)
      /\ EndIndex(o, start, duration) <= TableLength(o)
      /\ start <= EndIndex(o, start, duration)
  BY <1>1 DEF EndIndex
<1> QED
  BY <1>1, <1>2, PlayTimesAreTimes

LEMMA PlayTableIsStep ==
    ASSUME Base, NEW o \in Players \cap patch,
           NEW s \in Starts, NEW d \in PlayDurations, NEW m \in Messages,
           PlayTable(o, s, d, m),
           UNCHANGED <<delayVars, metroVars, lineVars, pipeVars>>
    PROVE  /\ inFlight = NULL
           /\ \/ /\ s < TableLength(o)
                 /\ P!Schedule(o, outgoingMessage[o], EndIndex(o, s, d) - s, m)
                 /\ outgoingMessage[o] \in held[o] \cup {NULL}
                 /\ EndIndex(o, s, d) - s \in Delays
              \/ s >= TableLength(o) /\ Step(o)
PROOF
<1> DEFINE x == outgoingMessage[o]
<1>1. /\ o \in Timers \ Pipes
      /\ TimedOutlet[o] = 1
      /\ x \in Messages \cup {NULL}
      /\ outgoingMessage \in [Players -> Messages \cup {NULL}]
      /\ TableLength(o) \in Nat /\ s \in Int /\ d \in Int
      /\ now \in Int
  BY Kinds, OutletsOfKinds, PlayerAssumption, LengthOfTable
     DEF Base, Typed, PlayerTypes, P!Owned, P!TypeOK, P!ContextTypeOK
<1>2. consuming = o /\ o # NULL
  BY PlayerAssumption DEF PlayTable
<1>3. cascade = "direct" /\ inFlight = NULL
  BY <1>2 DEF Base, PlayersFine
<1>4. held[o] = {x} \ {NULL}
  BY <1>1, <1>3, HeldOfKinds
<1>5. retimed' = retimed /\ \A p \in Pipes : held'[p] = held[p]
  BY SamePipes DEF pipeVars
<1>6. ASSUME inFlight' = inFlight,
             \A p \in Players \ {o} : outgoingMessage'[p] = outgoingMessage[p]
      PROVE  \A p \in Timers \ {o} : held'[p] = held[p]
  BY <1>5, <1>6, HeldOfOthers DEF delayVars, metroVars, lineVars
<1>7. UNCHANGED <<blockStartTimestamp, phase, cascade, now, inFlight>>
  BY DEF PlayTable
<1>8. CASE /\ s < TableLength(o)
           /\ m \in Fresh(CancelOutgoing(o))
           /\ ctx' = ScheduleMessage(CancelOutgoing(o), o, 1, m,
                                     DoneAt(o, s, d))
           /\ outgoingMessage' = [outgoingMessage EXCEPT ![o] = m]
  <2> DEFINE t == EndIndex(o, s, d) - s
  <2>1. t \in PlayTimes /\ EndIndex(o, s, d) \in Int
    BY <1>1, <1>8, PlayTimesFit DEF Base, PlayTable
  <2>2. DoneAt(o, s, d) = now + t
    BY <1>1, <2>1 DEF DoneAt
  <2>3. held'[o] = {m}
    <3>1. outgoingMessage'[o] = m
      BY <1>1, <1>8
    <3>2. m # NULL
      BY ContextAssumption
    <3> QED
      BY <1>3, <1>7, <3>1, <3>2, HeldOfKindsNext
  <2>4. \A p \in Timers \ {o} : held'[p] = held[p]
    BY <1>1, <1>6, <1>7, <1>8
  <2> HIDE DEF t
  <2>5. P!Schedule(o, x, t, m) /\ x \in held[o] \cup {NULL}
    BY <1>1, <1>3, <1>4, <1>5, <1>7, <1>8, <2>2, <2>3, <2>4, Replaces
       DEF CancelOutgoing
  <2>6. t \in Delays
    BY <2>1, DelaysOfKinds
  <2> QED
    BY <1>3, <1>8, <2>5, <2>6 DEF t
<1>9. CASE /\ s >= TableLength(o)
           /\ ctx' = CancelOutgoing(o)
           /\ outgoingMessage' = [outgoingMessage EXCEPT ![o] = NULL]
  <2>1. held'[o] = {}
    <3>1. outgoingMessage'[o] = NULL
      BY <1>1, <1>9
    <3> QED
      BY <3>1, HeldOfKindsNext
  <2>2. \A p \in Timers \ {o} : held'[p] = held[p]
    BY <1>1, <1>6, <1>7, <1>9
  <2>3. \/ x = NULL /\ UNCHANGED P!vars
        \/ x \in held[o] /\ P!Cancel(o, x)
    BY <1>1, <1>3, <1>4, <1>5, <1>7, <1>9, <2>1, <2>2, Drops
       DEF CancelOutgoing
  <2> QED
    BY <1>3, <1>9, <2>3, DropsIsStep
<1> QED
  BY <1>8, <1>9 DEF PlayTable

\* The samples of a block say nothing to the queue.
LEMMA ConsumeIsStep ==
    ASSUME Base, NEW o \in Players \cap patch, NEW i \in Samples, Consume(o, i),
           UNCHANGED <<delayVars, metroVars, lineVars, pipeVars>>
    PROVE  P!ContextStep /\ UNCHANGED <<held, retimed>>
PROOF
<1>1. retimed' = retimed /\ \A p \in Pipes : held'[p] = held[p]
  BY SamePipes DEF pipeVars
<1>2. \A p \in Timers : held'[p] = held[p]
  BY <1>1, SameHeld, Kinds
     DEF Consume, delayVars, metroVars, lineVars
<1>3. held' = held
  BY <1>2, HeldOf
<1>4. blockStartTimestamp + i \in DirectTimes \cup Blocks
  <2>1. /\ blockStartTimestamp \in Nat
        /\ blockStartTimestamp < MaxBlocks * BlockDuration
    BY DEF Consume, Base, P!Owned, P!TypeOK, P!ContextTypeOK, PlayersFine
  <2>2. /\ BlockDuration \in Nat \ {0} /\ MaxBlocks \in Nat
        /\ MaxBlocks * BlockDuration \in Nat
    BY ContextAssumption
  <2>3. i \in 0 .. BlockDuration - 1
    BY DEF Samples, blockSizeInt
  <2> DEFINE M == MaxBlocks * BlockDuration
  <2>4. M \in Nat /\ blockStartTimestamp < M
    BY <2>1, <2>2
  <2> HIDE DEF M
  <2>5. blockStartTimestamp + i \in 0 .. M + BlockDuration - 1
    BY <2>1, <2>2, <2>3, <2>4
  <2> QED
    BY <2>5 DEF Blocks, M
<1>5. P!BeginCascade(blockStartTimestamp + i)
  BY DEF Consume, P!BeginCascade
<1>6. P!ContextStep
  BY <1>4, <1>5 DEF P!ContextStep
<1> QED
  BY <1>1, <1>3, <1>6

LEMMA PlayerStepIsStep ==
    ASSUME Base, NEW o \in Players \cap patch, PlayerStep(o),
           UNCHANGED <<delayVars, metroVars, lineVars, pipeVars>>
    PROVE  Step(o) \/ (P!ContextStep /\ UNCHANGED <<held, retimed>>)
PROOF
<1>1. ASSUME NEW i \in Samples, Consume(o, i)
      PROVE  P!ContextStep /\ UNCHANGED <<held, retimed>>
  BY <1>1, ConsumeIsStep
<1>2. ASSUME Finish(o)
      PROVE  Step(o)
  <2>1. retimed' = retimed /\ \A p \in Pipes : held'[p] = held[p]
    BY SamePipes DEF pipeVars
  <2>2. \A p \in Timers : held'[p] = held[p]
    BY <1>2, <2>1, SameHeld, Kinds
       DEF Finish, contextVars, delayVars, metroVars, lineVars
  <2> QED
    BY <1>2, <2>1, <2>2, Unseen DEF Finish, Step
<1>3. ASSUME NEW s \in Starts, NEW d \in PlayDurations, NEW m \in Messages,
             PlayTable(o, s, d, m)
      PROVE  Step(o)
  BY <1>3, PlayTableIsStep, ReplacesIsStep
<1>4. ASSUME NEW t \in Tables \cup {NULL}, SetTable(o, t)
      PROVE  Step(o)
  <2>1. retimed' = retimed /\ \A p \in Pipes : held'[p] = held[p]
    BY SamePipes DEF pipeVars
  <2>2. \A p \in Timers : held'[p] = held[p]
    BY <1>4, <2>1, SameHeld, Kinds
       DEF SetTable, contextVars, playVars, delayVars, metroVars, lineVars
  <2> QED
    BY <1>4, <2>1, <2>2, Unseen DEF SetTable, Step
<1> QED
  BY <1>1, <1>2, <1>3, <1>4 DEF PlayerStep

-----------------------------------------------------------------------------
(***************************************************************************)
(* The handlers that process() calls.                                      *)
(***************************************************************************)

\* process() sends a message.
Sent(entry) ==
    \/ P!Deliver(entry)
    \/ /\ entry.object \in Timers
       /\ \E d \in Delays, m \in Messages : P!DeliverAndSchedule(entry, d, m)

LEMMA DelaySendIsSent ==
    ASSUME Base, NEW entry \in Entries, DelaySend(entry),
           UNCHANGED <<metroVars, lineVars, pipeVars, playerVars>>
    PROVE  Sent(entry)
PROOF
<1> DEFINE o == entry.object
<1>1. /\ o \in DelayObjects /\ o \in Timers /\ o \notin Players
      /\ scheduledMessage \in [DelayObjects -> Messages \cup {NULL}]
      /\ Dispatch(entry) /\ ctx' = Popped(entry)
      /\ scheduledMessage' = [scheduledMessage EXCEPT ![o] =
                                  IF @ = entry.message THEN NULL ELSE @]
  BY Kinds DEF DelaySend, Base, Typed, DelayTypes
<1>2. retimed' = retimed /\ \A p \in Pipes : held'[p] = held[p]
  BY SamePipes DEF pipeVars
<1>3. ASSUME NEW p \in Timers, p # o
      PROVE  held'[p] = held[p]
  <2>1. p \in DelayObjects => scheduledMessage'[p] = scheduledMessage[p]
    BY <1>1, <1>3
  <2> QED
    BY <1>1, <1>2, <1>3, <2>1, HeldWhenDispatched
       DEF metroVars, lineVars, playerVars, playVars
<1>4. held'[o] = held[o] \ {entry.message}
  <2>1. held[o] = {scheduledMessage[o]} \ {NULL}
    BY <1>1, HeldOfKinds
  <2>2. held'[o] = {scheduledMessage'[o]} \ {NULL}
    BY <1>1, HeldOfKindsNext
  <2>3. scheduledMessage'[o] = IF scheduledMessage[o] = entry.message
                               THEN NULL ELSE scheduledMessage[o]
    BY <1>1
  <2> HIDE DEF o
  <2> QED
    BY <2>1, <2>2, <2>3
<1>5. P!Deliver(entry)
  BY <1>1, <1>2, <1>3, <1>4, Delivers
<1> QED
  BY <1>5 DEF Sent

LEMMA MetroSendIsSent ==
    ASSUME Base, NEW entry \in Entries, MetroSend(entry),
           UNCHANGED <<delayVars, lineVars, pipeVars, playerVars>>
    PROVE  /\ entry.object \in Timers /\ retimed' = retimed
           /\ intervalInMs[entry.object] \in Delays
           /\ \E m \in Messages :
                  /\ Tick(entry.object, Popped(entry), now', m)
                  /\ P!DeliverAndSchedule(entry, intervalInMs[entry.object], m)
PROOF
<1> DEFINE o == entry.object
<1>1. /\ o \in Metros /\ o \in Timers \ Players
      /\ pendingMessage \in [Metros -> Messages \cup {NULL}]
      /\ Dispatch(entry)
  BY Kinds DEF MetroSend, Base, Typed, MetroTypes
<1>2. PICK m \in Messages : Tick(o, Popped(entry), now', m)
  BY DEF MetroSend
<1>3. retimed' = retimed /\ \A p \in Pipes : held'[p] = held[p]
  BY SamePipes DEF pipeVars
<1>4. pendingMessage' = [pendingMessage EXCEPT ![o] = m]
  BY <1>2 DEF Tick
<1>5. ASSUME NEW p \in Timers, p # o
      PROVE  held'[p] = held[p]
  <2>1. p \in Metros => pendingMessage'[p] = pendingMessage[p]
    BY <1>1, <1>4, <1>5
  <2> QED
    BY <1>1, <1>3, <1>5, <2>1, HeldWhenDispatched
       DEF delayVars, lineVars, playerVars, playVars
<1>6. held[o] = {entry.message} /\ pendingMessage[o] = entry.message
  <2>1. entry.message \in held[o]
    BY <1>1, WhenDispatched
  <2>2. held[o] = {pendingMessage[o]} \ {NULL}
    BY <1>1, HeldOfKinds
  <2> QED
    BY <2>1, <2>2
<1>7. held'[o] = {m}
  <2>1. held'[o] = {pendingMessage'[o]} \ {NULL}
    BY <1>1, HeldOfKindsNext
  <2>2. pendingMessage'[o] = m /\ m # NULL
    BY <1>1, <1>4, ContextAssumption
  <2> QED
    BY <2>1, <2>2
<1>8. /\ m \in Fresh(Popped(entry))
      /\ ctx' = ScheduleMessage(Popped(entry), o, 0, m, now' + intervalInMs[o])
  BY <1>2 DEF Tick
<1>9. o \in patch
  <2>1. entry.message # NULL
    BY ContextAssumption DEF Entries
  <2> QED
    BY <1>1, <1>6, <2>1 DEF Base, Typed, MetroTypes
<1>10. intervalInMs[o] \in Delays
  BY <1>1, <1>9, DelaysOfKinds DEF Base, Typed, MetroTypes
<1>11. P!DeliverAndSchedule(entry, intervalInMs[o], m)
  <2>1. held[o] \subseteq {entry.message}
    BY <1>6
  <2>2. \A p \in Timers \ {o} : held'[p] = held[p]
    BY <1>5
  <2> HIDE DEF o
  <2> QED
    BY <1>1, <1>3, <1>7, <1>8, <2>1, <2>2, DeliversAndSchedules DEF o
<1> QED
  BY <1>1, <1>2, <1>3, <1>10, <1>11

\* The floats of the messages of a line that sends one.
LEMMA LineSendIsSent ==
    ASSUME Base, NEW entry \in Entries, LineSend(entry),
           UNCHANGED <<delayVars, metroVars, pipeVars, playerVars>>
    PROVE  /\ entry.object \in Timers /\ entry.object \in Lines
           /\ entry.object \in patch
           /\ retimed' = retimed
           /\ line[entry.object].pendingMessage = entry.message
           /\ line[entry.object].slope # 0
           /\ line[entry.object].grainRate \in Delays
           /\ Sent(entry)
PROOF
<1> DEFINE o == entry.object
           l == line[o]
           v == value[entry.message]
<1>1. /\ o \in Lines /\ o \in Timers \ Players
      /\ line \in [Lines -> LineFields] /\ l \in LineFields
      /\ Dispatch(entry) /\ entry.message \in Messages
      /\ SendRamp(o, Popped(entry), l, value, now', v)
  BY Kinds DEF LineSend, Base, Typed, LineTypes, Entries
<1>2. retimed' = retimed /\ \A p \in Pipes : held'[p] = held[p]
  BY SamePipes DEF pipeVars
<1>3. ASSUME \A p \in Lines \ {o} : line'[p] = line[p]
      PROVE  \A p \in Timers \ {o} : held'[p] = held[p]
  <2> SUFFICES ASSUME NEW p \in Timers \ {o}
               PROVE  held'[p] = held[p]
    OBVIOUS
  <2>1. p \in Lines => line'[p].pendingMessage = line[p].pendingMessage
    BY <1>3
  <2> QED
    BY <1>1, <1>2, <2>1, HeldWhenDispatched
       DEF delayVars, metroVars, playerVars, playVars
<1>4. held[o] = {entry.message} /\ l.pendingMessage = entry.message
  <2>1. entry.message \in held[o]
    BY <1>1, WhenDispatched
  <2>2. held[o] = {l.pendingMessage} \ {NULL}
    BY <1>1, HeldOfKinds
  <2> HIDE DEF l
  <2> QED
    BY <2>1, <2>2
<1>5. entry.message # NULL
  BY <1>1, ContextAssumption
<1>6. o \in patch /\ l.slope # 0
  BY <1>1, <1>4, <1>5 DEF Base, Typed, LineTypes
<1>7. l.grainRate \in Delays
  BY <1>1, <1>6, DelaysOfKinds DEF Base, Typed, LineTypes
<1>8. CASE Short(l, v)
  <2>1. PICK m \in Fresh(Popped(entry)) :
            /\ ctx' = ScheduleMessage(Popped(entry), o, 0, m,
                                      now' + l.grainRate)
            /\ line' = [line EXCEPT ![o] =
                            [l EXCEPT !.currentValue = v,
                                      !.lastMessageTimestamp = now',
                                      !.pendingMessage = m]]
    BY <1>1, <1>8 DEF SendRamp
  <2>2. m \in Messages /\ m # NULL
    BY ContextAssumption DEF Fresh
  <2>3. line'[o].pendingMessage = m /\ \A p \in Lines \ {o} : line'[p] = line[p]
    BY <1>1, <2>1 DEF LineFields
  <2>4. held'[o] = {m}
    BY <1>1, <2>2, <2>3, HeldOfKindsNext
  <2>5. \A p \in Timers \ {o} : held'[p] = held[p]
    BY <1>3, <2>3
  <2>6. P!DeliverAndSchedule(entry, l.grainRate, m)
    <3>1. held[o] \subseteq {entry.message}
      BY <1>4
    <3> HIDE DEF o, l
    <3> QED
      BY <1>1, <1>2, <2>1, <2>4, <2>5, <3>1, DeliversAndSchedules DEF o
  <2> QED
    BY <1>1, <1>2, <1>4, <1>6, <1>7, <2>2, <2>6 DEF Sent
<1>9. CASE ~ Short(l, v)
  <2>1. /\ ctx' = Popped(entry)
        /\ line' = [line EXCEPT ![o] =
                        [l EXCEPT !.currentValue = Clipped(l, v),
                                  !.lastMessageTimestamp = now',
                                  !.pendingMessage =
                                      IF l.slope = 0 THEN @ ELSE NULL]]
    BY <1>1, <1>9 DEF SendRamp
  <2>2. line'[o].pendingMessage = NULL
    BY <1>1, <1>6, <2>1 DEF LineFields
  <2>3. \A p \in Lines \ {o} : line'[p] = line[p]
    BY <1>1, <2>1
  <2>4. held'[o] = {}
    BY <1>1, <2>2, HeldOfKindsNext
  <2>5. \A p \in Timers \ {o} : held'[p] = held[p]
    BY <1>3, <2>3
  <2>6. \A p \in Timers : held'[p] = IF p = o THEN held[p] \ {entry.message}
                                              ELSE held[p]
    BY <1>4, <2>4, <2>5
  <2>7. P!Deliver(entry)
    BY <1>1, <1>2, <2>1, <2>6, Delivers
  <2> QED
    BY <1>1, <1>2, <1>4, <1>6, <1>7, <2>7 DEF Sent
<1> QED
  BY <1>8, <1>9

\* A pipe takes the message off its list.
LEMMA PipeSendPointers ==
    ASSUME Base, NEW entry \in Entries, PipeSend(entry),
           NEW o, o = entry.object
    PROVE  LET list == scheduledMessagesList[o]
               new == scheduledMessagesList'[o]
           IN  /\ o \in Pipes /\ o \in Timers
               /\ loops = <<>> /\ loops' = <<>>
               /\ retimed = {} /\ retimed' = {}
               /\ list \in Seq(Messages)
               /\ scheduledMessagesList' \in [Pipes -> Seq(Messages)]
               /\ new = Without(list, entry.message)
               /\ \A p \in Pipes \ {o} :
                      scheduledMessagesList'[p] = scheduledMessagesList[p]
PROOF
<1> DEFINE list == scheduledMessagesList[o]
           new == scheduledMessagesList'[o]
<1>1. /\ o \in Pipes /\ o \in Timers /\ Dispatch(entry)
      /\ scheduledMessagesList' =
             [scheduledMessagesList EXCEPT ![o] = Without(@, entry.message)]
      /\ loops' = loops
  BY Kinds DEF PipeSend
<1>2. loops = <<>> /\ retimed = {}
  BY <1>1, WhenDispatched
<1>3. scheduledMessagesList \in [Pipes -> Seq(Messages)]
      /\ list \in Seq(Messages)
  BY <1>1 DEF Base, Typed, PipeTypes
<1>4. Without(list, entry.message) \in Seq(Messages)
  BY <1>3, WithoutRemoves
<1>5. retimed' = {}
  BY <1>1, <1>2, HeldOf DEF BeingSent
<1>6. /\ scheduledMessagesList' \in [Pipes -> Seq(Messages)]
      /\ new = Without(list, entry.message)
      /\ \A p \in Pipes \ {o} :
             scheduledMessagesList'[p] = scheduledMessagesList[p]
  BY <1>1, <1>3, <1>4
<1> QED
  BY <1>1, <1>2, <1>3, <1>5, <1>6

\* Without a loop all of a list's pointers are alive.
LEMMA NoLoops ==
    ASSUME NEW o
    PROVE  /\ loops = <<>> =>
                  AliveAt(o) = 1 .. Len(scheduledMessagesList[o])
           /\ loops' = <<>> =>
                  AliveAt(o)' = 1 .. Len(scheduledMessagesList'[o])
PROOF
<1>1. Len(<<>>) = 0
  BY EmptySeq
<1>2. ASSUME loops = <<>>
      PROVE  AliveAt(o) = 1 .. Len(scheduledMessagesList[o])
  BY <1>1, <1>2 DEF AliveAt
<1>3. ASSUME loops' = <<>>
      PROVE  AliveAt(o)' = 1 .. Len(scheduledMessagesList'[o])
  BY <1>1, <1>3 DEF AliveAt
<1> QED
  BY <1>2, <1>3

LEMMA PipeSendIsSent ==
    ASSUME Base, NEW entry \in Entries, PipeSend(entry),
           UNCHANGED <<delayVars, metroVars, lineVars, playerVars>>
    PROVE  Sent(entry)
PROOF
<1> SUFFICES ASSUME NEW o, o = entry.object
             PROVE  Sent(entry)
  OBVIOUS
<1> DEFINE m == entry.message
           list == scheduledMessagesList[o]
           new == scheduledMessagesList'[o]
<1>1. Dispatch(entry) /\ ctx' = Popped(entry)
  BY DEF PipeSend
<1>2. /\ o \in Pipes /\ o \in Timers
      /\ loops = <<>> /\ loops' = <<>>
      /\ retimed = {} /\ retimed' = {}
  BY PipeSendPointers
<1>3. /\ list \in Seq(Messages) /\ new = Without(list, m)
      /\ \A p \in Pipes \ {o} :
             scheduledMessagesList'[p] = scheduledMessagesList[p]
  BY PipeSendPointers
<1>4. \A p \in Pipes : /\ held[p] = Alive(p) /\ held'[p] = Alive(p)'
                       /\ AliveAt(p) = 1 .. Len(scheduledMessagesList[p])
                       /\ AliveAt(p)' = 1 .. Len(scheduledMessagesList'[p])
  BY <1>2, NoLoops, HeldOfKinds, HeldOfKindsNext
<1>5. held'[o] = held[o] \ {m}
  <2>1. held[o] = {list[j] : j \in 1 .. Len(list)}
    BY <1>2, <1>4 DEF Alive
  <2>2. held'[o] = {new[k] : k \in 1 .. Len(new)}
    BY <1>2, <1>4 DEF Alive
  <2>3. /\ \A k \in 1 .. Len(new) :
               \E j \in 1 .. Len(list) : new[k] = list[j] /\ list[j] # m
        /\ \A j \in 1 .. Len(list) :
               list[j] # m => \E k \in 1 .. Len(new) : new[k] = list[j]
    <3>1. HasOthers(new, list, Len(list), m)
      BY <1>3, WithoutRemoves
    <3> HIDE DEF list, new, m
    <3> QED
      BY <3>1 DEF HasOthers
  <2> HIDE DEF list, new, m
  <2> QED
    BY <2>1, <2>2, <2>3
<1>6. ASSUME NEW p \in Pipes \ {o}
      PROVE  held'[p] = held[p]
  <2>1. AliveAt(p)' = AliveAt(p)
    BY <1>3, <1>4
  <2>2. Alive(p)' = Alive(p)
    BY <1>3, <2>1 DEF Alive
  <2> QED
    BY <1>4, <2>2
<1>7. ASSUME NEW p \in Timers, p # o
      PROVE  held'[p] = held[p]
  BY <1>1, <1>6, <1>7, HeldWhenDispatched
     DEF delayVars, metroVars, lineVars, playerVars, playVars
<1>8. \A p \in Timers : held'[p] = IF p = entry.object THEN held[p] \ {m}
                                                       ELSE held[p]
  BY <1>5, <1>7
<1>9. P!Deliver(entry)
  BY <1>1, <1>2, <1>8, Delivers
<1> QED
  BY <1>9 DEF Sent

\* A message of a player, or of the MessageSendController, which keeps none.
LEMMA OtherSendIsSent ==
    ASSUME Base, NEW entry \in Entries, Dispatch(entry), ctx' = Popped(entry),
           entry.object \in Players \/ entry.object = SendController,
           outgoingMessage' = outgoingMessage,
           UNCHANGED <<delayVars, metroVars, lineVars, pipeVars>>
    PROVE  Sent(entry)
PROOF
<1>1. retimed' = retimed /\ \A p \in Pipes : held'[p] = held[p]
  BY SamePipes DEF pipeVars
<1>2. ASSUME NEW p \in Timers
      PROVE  /\ p # entry.object => held'[p] = held[p]
             /\ p \in Players /\ p = entry.object =>
                    held'[p] = held[p] \ {entry.message}
  BY <1>1, HeldWhenDispatched DEF delayVars, metroVars, lineVars
<1>3. entry.object \in Timers => entry.object \in Players
  BY Kinds
<1>4. \A p \in Timers : held'[p] = IF p = entry.object
                                   THEN held[p] \ {entry.message}
                                   ELSE held[p]
  BY <1>2, <1>3
<1>5. P!Deliver(entry)
  BY <1>1, <1>4, Delivers
<1> QED
  BY <1>5 DEF Sent

LEMMA SendIsSent ==
    ASSUME Base, NEW entry \in Entries, Send(entry)
    PROVE  Sent(entry)
PROOF
<1>1. CASE DelaySend(entry)
           /\ UNCHANGED <<metroVars, lineVars, pipeVars, playerVars>>
  BY <1>1, DelaySendIsSent
<1>2. CASE MetroSend(entry)
           /\ UNCHANGED <<delayVars, lineVars, pipeVars, playerVars>>
  BY <1>2, MetroSendIsSent DEF Sent
<1>3. CASE LineSend(entry)
           /\ UNCHANGED <<delayVars, metroVars, pipeVars, playerVars>>
  BY <1>3, LineSendIsSent
<1>4. CASE PipeSend(entry)
           /\ UNCHANGED <<delayVars, metroVars, lineVars, playerVars>>
  BY <1>4, PipeSendIsSent
<1>5. CASE PlayerSend(entry)
           /\ UNCHANGED <<delayVars, metroVars, lineVars, pipeVars>>
  BY <1>5, OtherSendIsSent DEF PlayerSend, playVars
<1>6. CASE /\ entry.object = SendController
           /\ Dispatch(entry)
           /\ ctx' = Popped(entry)
           /\ UNCHANGED <<delayVars, metroVars, lineVars, pipeVars, playerVars>>
  BY <1>6, OtherSendIsSent DEF playerVars, playVars
<1> QED
  BY <1>1, <1>2, <1>3, <1>4, <1>5, <1>6 DEF Send

-----------------------------------------------------------------------------
(***************************************************************************)
(* Every step of the patch.                                                *)
(***************************************************************************)

\* The steps of the context that no object takes.
Between == P!ContextStep /\ UNCHANGED <<held, retimed>>

LEMMA EndBlockIsBetween ==
    ASSUME EndBlock
    PROVE  Between
PROOF
<1>1. /\ EndProcess /\ outgoingMessage' = outgoingMessage
      /\ UNCHANGED <<delayVars, metroVars, lineVars, pipeVars>>
  BY DEF EndBlock, NewBlock, playVars
<1>2. retimed' = retimed /\ \A p \in Pipes : held'[p] = held[p]
  BY <1>1, SamePipes DEF pipeVars
<1>3. \A p \in Timers : held'[p] = held[p]
  BY <1>1, <1>2, SameHeld, Kinds DEF EndProcess, delayVars, metroVars, lineVars
<1>4. held' = held
  BY <1>3, HeldOf
<1>5. P!EndProcess
  BY <1>1 DEF EndProcess, P!EndProcess, nextBlockStartTimestamp,
              P!nextBlockStartTimestamp
<1> QED
  BY <1>2, <1>4, <1>5 DEF Between, P!ContextStep

LEMMA OtherStepIsBetween ==
    ASSUME OtherStep
    PROVE  Between
PROOF
<1>1. UNCHANGED <<delayVars, metroVars, lineVars, pipeVars, playerVars>>
  BY DEF OtherStep
<1>2. retimed' = retimed /\ \A p \in Pipes : held'[p] = held[p]
  BY <1>1, SamePipes DEF pipeVars
<1>3. ASSUME inFlight' = inFlight
      PROVE  held' = held
  <2>1. \A p \in Timers : held'[p] = held[p]
    BY <1>1, <1>2, <1>3, SameHeld, Kinds
       DEF delayVars, metroVars, lineVars, playerVars, playVars
  <2> QED
    BY <2>1, HeldOf
<1>4. ASSUME NEW n \in Outlets, NEW t \in DirectTimes, NEW m \in Fresh(ctx),
             ScheduleExternal(n, t, m)
      PROVE  Between
  <2>1. P!ScheduleExternal(n, t, m)
    BY <1>4, SameCardinality, SameScheduleMessage, SameSmall
       DEF ScheduleExternal, P!ScheduleExternal
  <2>2. m \in P!Fresh(ctx) /\ t \in DirectTimes \cup Blocks
    BY SameSmall
  <2>3. held' = held
    BY <1>3, <1>4 DEF ScheduleExternal
  <2> QED
    BY <1>2, <2>1, <2>2, <2>3 DEF Between, P!ContextStep
<1>5. ASSUME NEW t \in DirectTimes, BeginCascade(t)
      PROVE  Between
  <2>1. P!BeginCascade(t) /\ held' = held
    BY <1>3, <1>5 DEF BeginCascade, P!BeginCascade
  <2> QED
    BY <1>2, <2>1 DEF Between, P!ContextStep
<1>6. ASSUME BeginProcess
      PROVE  Between
  <2>1. P!BeginProcess /\ held' = held
    BY <1>3, <1>6 DEF BeginProcess, P!BeginProcess
  <2> QED
    BY <1>2, <2>1 DEF Between, P!ContextStep
<1>7. ASSUME BeginDsp
      PROVE  Between
  <2>1. P!BeginDsp /\ held' = held
    BY <1>3, <1>7, SameDispatch DEF BeginDsp, P!BeginDsp
  <2> QED
    BY <1>2, <2>1 DEF Between, P!ContextStep
<1> QED
  BY <1>4, <1>5, <1>6, <1>7 DEF OtherStep

LEMMA ResizeIsUnseen ==
    ASSUME ResizeTable
    PROVE  UNCHANGED P!vars
PROOF
<1>1. /\ UNCHANGED contextVars /\ outgoingMessage' = outgoingMessage
      /\ UNCHANGED <<delayVars, metroVars, lineVars, pipeVars>>
  BY DEF ResizeTable, ResizeBuffer, playVars
<1>2. retimed' = retimed /\ \A p \in Pipes : held'[p] = held[p]
  BY <1>1, SamePipes DEF pipeVars
<1>3. \A p \in Timers : held'[p] = held[p]
  BY <1>1, <1>2, SameHeld, Kinds DEF contextVars, delayVars, metroVars, lineVars
<1> QED
  BY <1>1, <1>2, <1>3, Unseen

LEMMA StutterIsUnseen ==
    ASSUME UNCHANGED vars
    PROVE  UNCHANGED P!vars
PROOF
<1>1. UNCHANGED <<contextVars, delayVars, metroVars, lineVars, pipeVars,
                  playerVars>>
  BY DEF vars
<1>2. retimed' = retimed /\ \A p \in Pipes : held'[p] = held[p]
  BY <1>1, SamePipes DEF pipeVars
<1>3. \A p \in Timers : held'[p] = held[p]
  BY <1>1, <1>2, SameHeld, Kinds
     DEF contextVars, delayVars, metroVars, lineVars, playerVars, playVars
<1> QED
  BY <1>1, <1>2, <1>3, Unseen

\* A step of the patch is one of the timed objects, or of none of them.
LEMMA NextImplements ==
    ASSUME Base, [Next]_vars
    PROVE  [P!Next]_P!vars
PROOF
<1>1. ASSUME NEW o \in Timers, Step(o)
      PROVE  [P!Next]_P!vars
  BY <1>1 DEF Step, P!Next
<1>2. ASSUME Between
      PROVE  [P!Next]_P!vars
  BY <1>2 DEF Between, P!Next
<1>3. CASE ReceiveDelay
  BY <1>1, <1>3, DelayStepIsStep, Kinds DEF ReceiveDelay
<1>4. CASE ReceiveMetro
  BY <1>1, <1>4, MetroStepIsStep, Kinds DEF ReceiveMetro
<1>5. CASE ReceiveLine
  BY <1>1, <1>5, LineStepIsStep, Kinds DEF ReceiveLine
<1>6. CASE ReceivePipe
  BY <1>1, <1>6, PipeStepIsStep, Kinds DEF ReceivePipe
<1>7. CASE LoopOfPipe
  BY <1>1, <1>7, PipeLoopsIsStep DEF LoopOfPipe
<1>8. CASE RunPlayer
  <2>1. PICK o \in Players \cap patch : PlayerStep(o)
    BY <1>8 DEF RunPlayer
  <2>2. Step(o) \/ Between
    BY <1>8, <2>1, PlayerStepIsStep DEF RunPlayer, Between
  <2> QED
    BY <1>1, <1>2, <2>2, Kinds
<1>9. CASE ResizeTable
  BY <1>9, ResizeIsUnseen
<1>10. ASSUME NEW entry \in Entries, Send(entry)
       PROVE  [P!Next]_P!vars
  <2>1. Sent(entry) /\ entry \in P!Entries
    BY <1>10, SendIsSent, SameSmall
  <2> QED
    BY <2>1 DEF Sent, P!Next
<1>11. CASE Return
  BY <1>11, Returns DEF P!Next
<1>12. CASE EndBlock
  BY <1>2, <1>12, EndBlockIsBetween
<1>13. CASE OtherStep
  BY <1>2, <1>13, OtherStepIsBetween
<1>14. CASE UNCHANGED vars
  BY <1>14, StutterIsUnseen
<1> QED
  BY <1>3, <1>4, <1>5, <1>6, <1>7, <1>8, <1>9, <1>10, <1>11, <1>12, <1>13,
     <1>14 DEF Next

-----------------------------------------------------------------------------
(***************************************************************************)
(* Who changes what.                                                       *)
(***************************************************************************)

LEMMA PatchStays ==
    ASSUME [Next]_vars
    PROVE  patch' = patch
  BY DEF Next, vars, ReceiveDelay, ReceiveMetro, ReceiveLine, ReceivePipe,
         LoopOfPipe, RunPlayer, ResizeTable, Send, Return, EndBlock, OtherStep

LEMMA WhoChangesDelays ==
    ASSUME [Next]_vars
    PROVE  \/ ReceiveDelay
           \/ \E entry \in Entries : DelaySend(entry)
           \/ UNCHANGED delayVars
  BY DEF Next, vars, ReceiveMetro, ReceiveLine, ReceivePipe, LoopOfPipe,
         RunPlayer, ResizeTable, Send, Return, EndBlock, OtherStep

LEMMA WhoChangesMetros ==
    ASSUME [Next]_vars
    PROVE  \/ ReceiveMetro
           \/ \E entry \in Entries : MetroSend(entry)
           \/ UNCHANGED metroVars
  BY DEF Next, vars, ReceiveDelay, ReceiveLine, ReceivePipe, LoopOfPipe,
         RunPlayer, ResizeTable, Send, Return, EndBlock, OtherStep

LEMMA WhoChangesLines ==
    ASSUME [Next]_vars
    PROVE  \/ ReceiveLine
           \/ \E entry \in Entries :
                  /\ LineSend(entry)
                  /\ UNCHANGED <<delayVars, metroVars, pipeVars, playerVars>>
           \/ Return
           \/ UNCHANGED lineVars
  BY DEF Next, vars, ReceiveDelay, ReceiveMetro, ReceivePipe, LoopOfPipe,
         RunPlayer, ResizeTable, Send, EndBlock, OtherStep

LEMMA WhoChangesPipes ==
    ASSUME [Next]_vars
    PROVE  \/ ReceivePipe
           \/ LoopOfPipe
           \/ \E entry \in Entries : PipeSend(entry)
           \/ UNCHANGED pipeVars
  BY DEF Next, vars, ReceiveDelay, ReceiveMetro, ReceiveLine, RunPlayer,
         ResizeTable, Send, Return, EndBlock, OtherStep

LEMMA WhoChangesPlayers ==
    ASSUME [Next]_vars
    PROVE  \/ RunPlayer
           \/ ResizeTable
           \/ \E entry \in Entries : PlayerSend(entry)
           \/ Return
           \/ EndBlock
           \/ UNCHANGED playerVars
  BY DEF Next, vars, ReceiveDelay, ReceiveMetro, ReceiveLine, ReceivePipe,
         LoopOfPipe, Send, OtherStep

\* The times in the context are integers.
LEMMA ContextTimes ==
    ASSUME Base
    PROVE  /\ now \in Int
           /\ blockStartTimestamp \in Nat
           /\ inFlight \in Messages \cup {NULL}
           /\ ctx.timestamp \in [Messages -> Int]
           /\ NULL \notin Messages
  BY ContextAssumption DEF Base, P!Owned, P!TypeOK, P!ContextTypeOK

LEMMA TimeOfDelivery ==
    ASSUME Base, NEW entry \in Entries, Dispatch(entry)
    PROVE  now' \in Int /\ DeliveryTime(entry.message) \in Int
  BY ContextTimes DEF Dispatch, DeliveryTime, Entries

-----------------------------------------------------------------------------
(***************************************************************************)
(* The types.                                                              *)
(***************************************************************************)

LEMMA DelayTypesNext ==
    ASSUME Base, [Next]_vars
    PROVE  DelayTypes'
PROOF
<1>1. patch' = patch /\ DelayTypes /\ now \in Int /\ NULL \notin Messages
  BY PatchStays, ContextTimes DEF Base, Typed
<1>2. ASSUME NEW o \in DelayObjects \cap patch, DelayStep(o)
      PROVE  DelayTypes'
  <2>1. ASSUME NEW m \in Messages, DelayBang(o, m)
        PROVE  DelayTypes'
    BY <1>1, <2>1 DEF DelayTypes, DelayBang
  <2>2. DelayStop(o) => DelayTypes'
    BY <1>1 DEF DelayTypes, DelayStop
  <2>3. ASSUME NEW d \in DelayTimes, SetDelay(o, d)
        PROVE  DelayTypes'
    BY <1>1, <2>3, DelayAssumption DEF DelayTypes, SetDelay
  <2> QED
    BY <1>2, <2>1, <2>2, <2>3 DEF DelayStep
<1>3. ASSUME NEW entry \in Entries, DelaySend(entry)
      PROVE  DelayTypes'
  BY <1>1, <1>3 DEF DelayTypes, DelaySend
<1>4. CASE UNCHANGED delayVars
  BY <1>1, <1>4 DEF DelayTypes, delayVars
<1> QED
  BY <1>2, <1>3, <1>4, WhoChangesDelays DEF ReceiveDelay

LEMMA MetroTypesNext ==
    ASSUME Base, [Next]_vars
    PROVE  MetroTypes'
PROOF
<1>1. patch' = patch /\ MetroTypes /\ now \in Int /\ NULL \notin Messages
  BY PatchStays, ContextTimes DEF Base, Typed
<1>2. ASSUME NEW o \in Metros \cap patch, NEW c, NEW t \in Int,
             NEW m \in Messages, Tick(o, c, t, m),
             running' \in [Metros -> BOOLEAN]
      PROVE  MetroTypes'
  <2>1. t + intervalInMs[o] \in Int
    BY <1>1 DEF MetroTypes
  <2> QED
    BY <1>1, <1>2, <2>1 DEF MetroTypes, Tick
<1>3. ASSUME NEW o \in Metros \cap patch, MetroStep(o)
      PROVE  MetroTypes'
  <2>1. ASSUME NEW m \in Messages, StartMetro(o, m)
        PROVE  MetroTypes'
    <3>1. running' \in [Metros -> BOOLEAN]
      BY <1>1, <2>1 DEF MetroTypes, StartMetro
    <3> QED
      BY <1>1, <1>2, <2>1, <3>1 DEF StartMetro
  <2>2. StopMetro(o) => MetroTypes'
    BY <1>1 DEF MetroTypes, StopMetro
  <2>3. ASSUME NEW i \in Intervals, SetInterval(o, i)
        PROVE  MetroTypes'
    BY <1>1, <2>3, MetroAssumption DEF MetroTypes, SetInterval
  <2> QED
    BY <1>3, <2>1, <2>2, <2>3 DEF MetroStep
<1>4. ASSUME NEW entry \in Entries, MetroSend(entry)
      PROVE  MetroTypes'
  <2>1. /\ entry.object \in Metros /\ Dispatch(entry)
        /\ \E m \in Messages : Tick(entry.object, Popped(entry), now', m)
        /\ running' = running
    BY <1>4 DEF MetroSend
  <2>2. now' \in Int
    BY <2>1, TimeOfDelivery
  <2>3. entry.object \in patch
    <3>1. entry.message \in held[entry.object] /\ entry.message # NULL
      BY <1>1, <2>1, WhenDispatched, Kinds DEF Entries
    <3> QED
      BY <1>1, <2>1, <3>1, HeldOfKinds DEF MetroTypes
  <2>4. running' \in [Metros -> BOOLEAN]
    BY <1>1, <2>1 DEF MetroTypes
  <2> QED
    BY <1>2, <2>1, <2>2, <2>3, <2>4
<1>5. CASE UNCHANGED metroVars
  BY <1>1, <1>5 DEF MetroTypes, metroVars
<1> QED
  BY <1>3, <1>4, <1>5, WhoChangesMetros DEF ReceiveMetro

\* The line has its fields and its next message, if any.
LEMMA SendRampTypes ==
    ASSUME Base, NEW o \in Lines \cap patch, NEW c, NEW l \in LineFields,
           l.grainRate \in Grains, l.slope = 0 => l.pendingMessage = NULL,
           NEW values \in [Messages -> Int], NEW time \in Int, NEW v \in Int,
           SendRamp(o, c, l, values, time, v),
           ramp' \in [Lines -> [start : Int, sent : Int, alone : BOOLEAN]],
           patch' = patch
    PROVE  LineTypes'
PROOF
<1>1. /\ LineTypes /\ line \in [Lines -> LineFields] /\ NULL \notin Messages
  BY ContextTimes DEF Base, Typed, LineTypes
<1>2. l.slope \in Int /\ l.grainRate \in Int /\ l.targetValue \in Int
      /\ l.pendingMessage \in Messages \cup {NULL}
  BY DEF LineFields
<1>3. ASSUME NEW k \in LineFields, line' = [line EXCEPT ![o] = k],
             value' \in [Messages -> Int],
             k.grainRate \in Grains, k.pendingMessage # NULL => k.slope # 0
      PROVE  LineTypes'
  <2>1. line' \in [Lines -> LineFields] /\ line'[o] = k
        /\ \A p \in Lines \ {o} : line'[p] = line[p]
    BY <1>1, <1>3
  <2>2. \A p \in Lines \cap patch : line'[p].grainRate \in Grains
    BY <1>1, <1>3, <2>1 DEF LineTypes
  <2>3. \A p \in Lines : line'[p].pendingMessage # NULL =>
                             p \in patch /\ line'[p].slope # 0
    BY <1>1, <1>3, <2>1 DEF LineTypes
  <2> QED
    BY <1>3, <2>1, <2>2, <2>3 DEF LineTypes
<1>4. ASSUME NEW m \in Messages, Short(l, v),
             value' = [values EXCEPT ![m] = v + l.slope * l.grainRate],
             line' = [line EXCEPT ![o] =
                          [l EXCEPT !.currentValue = v,
                                    !.lastMessageTimestamp = time,
                                    !.pendingMessage = m]]
      PROVE  LineTypes'
  <2> DEFINE k == [l EXCEPT !.currentValue = v,
                            !.lastMessageTimestamp = time,
                            !.pendingMessage = m]
  <2>1. k \in LineFields /\ k.grainRate = l.grainRate /\ k.slope = l.slope
    BY DEF LineFields
  <2>2. l.slope # 0
    BY <1>2, <1>4 DEF Short
  <2>3. v + l.slope * l.grainRate \in Int
    BY <1>2
  <2>4. value' \in [Messages -> Int]
    BY <1>4, <2>3
  <2>5. line' = [line EXCEPT ![o] = k]
    BY <1>4
  <2> HIDE DEF k
  <2> QED
    BY <1>3, <2>1, <2>2, <2>4, <2>5
<1>5. ASSUME ~ Short(l, v), value' = values,
             line' = [line EXCEPT ![o] =
                          [l EXCEPT !.currentValue = Clipped(l, v),
                                    !.lastMessageTimestamp = time,
                                    !.pendingMessage =
                                        IF l.slope = 0 THEN @ ELSE NULL]]
      PROVE  LineTypes'
  <2> DEFINE x == IF l.slope = 0 THEN l.pendingMessage ELSE NULL
             k == [l EXCEPT !.currentValue = Clipped(l, v),
                            !.lastMessageTimestamp = time,
                            !.pendingMessage = x]
  <2>1. x = NULL /\ Clipped(l, v) \in Int
    BY <1>2 DEF Clipped
  <2>2. k \in LineFields /\ k.grainRate = l.grainRate
        /\ k.pendingMessage = NULL
    BY <2>1 DEF LineFields
  <2>3. line' = [line EXCEPT ![o] = k]
    BY <1>5 DEF LineFields
  <2> HIDE DEF k
  <2> QED
    BY <1>3, <1>5, <2>2, <2>3
<1>6. CASE Short(l, v)
  <2>1. PICK m \in Fresh(c) :
            /\ value' = [values EXCEPT ![m] = v + l.slope * l.grainRate]
            /\ line' = [line EXCEPT ![o] =
                            [l EXCEPT !.currentValue = v,
                                      !.lastMessageTimestamp = time,
                                      !.pendingMessage = m]]
    BY <1>6, Zenon DEF SendRamp
  <2>2. m \in Messages
    BY DEF Fresh
  <2> QED
    BY <1>4, <1>6, <2>1, <2>2, Zenon
<1>7. CASE ~ Short(l, v)
  <2>1. /\ value' = values
        /\ line' = [line EXCEPT ![o] =
                        [l EXCEPT !.currentValue = Clipped(l, v),
                                  !.lastMessageTimestamp = time,
                                  !.pendingMessage =
                                      IF l.slope = 0 THEN @ ELSE NULL]]
    BY <1>7, Zenon DEF SendRamp
  <2> QED
    BY <1>5, <1>7, <2>1, Zenon
<1> QED
  BY <1>6, <1>7

LEMMA FreedValues ==
    ASSUME value \in [Messages -> Int], NEW x
    PROVE  ValueAfterFree(x) \in [Messages -> Int]
  BY DEF ValueAfterFree

\* Where a line is now, and its fields when it is told to go elsewhere.
LEMMA LineIsHere ==
    ASSUME Base, NEW o \in Lines
    PROVE  /\ Here(o) \in Int
           /\ line[o] \in LineFields
           /\ line[o].slope \in Int /\ line[o].targetValue \in Int
           /\ line[o].currentValue \in Int
           /\ line[o].grainRate \in Int
           /\ o \in patch => line[o].grainRate \in Grains
PROOF
<1>1. line[o] \in LineFields /\ now \in Int
      /\ (o \in patch => line[o].grainRate \in Grains)
  BY ContextTimes DEF Base, Typed, LineTypes
<1>2. /\ line[o].slope \in Int /\ line[o].currentValue \in Int
      /\ line[o].lastMessageTimestamp \in Int /\ line[o].targetValue \in Int
      /\ line[o].grainRate \in Int
  BY <1>1 DEF LineFields
<1>3. (now - line[o].lastMessageTimestamp) * line[o].slope \in Int
  BY <1>1, <1>2
<1> QED
  BY <1>1, <1>2, <1>3 DEF Here

LEMMA LineStepTypes ==
    ASSUME Base, NEW o \in Lines \cap patch, LineStep(o), patch' = patch
    PROVE  LineTypes'
PROOF
<1>1. /\ LineTypes /\ line \in [Lines -> LineFields]
      /\ value \in [Messages -> Int] /\ now \in Int
      /\ ramp \in [Lines -> [start : Int, sent : Int, alone : BOOLEAN]]
      /\ Values \subseteq Int /\ RampDurations \subseteq Nat \ {0}
      /\ Grains \subseteq Int
  BY ContextTimes, LineAssumption DEF Base, Typed, LineTypes
<1>2. /\ Here(o) \in Int /\ line[o] \in LineFields
      /\ line[o].grainRate \in Grains
  BY LineIsHere
<1>3. ValueAfterFree(line[o].pendingMessage) \in [Messages -> Int]
  BY <1>1, FreedValues
<1>4. ASSUME NEW k \in LineFields, line' = [line EXCEPT ![o] = k],
             value' \in [Messages -> Int],
             ramp' \in [Lines -> [start : Int, sent : Int, alone : BOOLEAN]],
             k.grainRate \in Grains,
             k.pendingMessage # NULL =>
                 /\ k.pendingMessage = line[o].pendingMessage
                 /\ k.slope = line[o].slope
      PROVE  LineTypes'
  <2>1. line' \in [Lines -> LineFields] /\ line'[o] = k
        /\ \A p \in Lines \ {o} : line'[p] = line[p]
    BY <1>1, <1>4
  <2>2. \A p \in Lines \cap patch : line'[p].grainRate \in Grains
    BY <1>1, <1>4, <2>1 DEF LineTypes
  <2>3. \A p \in Lines : line'[p].pendingMessage # NULL =>
                             p \in patch /\ line'[p].slope # 0
    BY <1>1, <1>4, <2>1 DEF LineTypes
  <2> QED
    BY <1>4, <2>1, <2>2, <2>3 DEF LineTypes
<1>5. ASSUME NEW v \in Values, Jump(o, v)
      PROVE  LineTypes'
  <2> DEFINE k == [line[o] EXCEPT !.targetValue = v, !.currentValue = v,
                                  !.pendingMessage = NULL]
  <2>1. v \in Int
    BY <1>1
  <2>2. k \in LineFields /\ k.grainRate = line[o].grainRate
        /\ k.pendingMessage = NULL
    BY <1>2, <2>1 DEF LineFields
  <2>3. ramp' \in [Lines -> [start : Int, sent : Int, alone : BOOLEAN]]
    BY <1>1, <1>5, <2>1 DEF Jump
  <2>4. SendRamp(o, CancelNext(o), k,
                 ValueAfterFree(line[o].pendingMessage), now, v)
    BY <1>5 DEF Jump
  <2> HIDE DEF k
  <2> QED
    BY <1>1, <1>2, <1>3, <2>1, <2>2, <2>3, <2>4, SendRampTypes
<1>6. ASSUME NEW v \in Values, NEW d \in RampDurations, Ramp(o, v, d)
      PROVE  LineTypes'
  <2> DEFINE slope == (v - Here(o)) \div d
             k == [line[o] EXCEPT !.targetValue = v,
                                  !.currentValue = Here(o),
                                  !.slope = slope,
                                  !.pendingMessage = NULL]
  <2>1. v \in Int /\ slope \in Int
    BY <1>1, <1>2
  <2>2. /\ IF slope # 0
           THEN SendRamp(o, CancelNext(o), k,
                         ValueAfterFree(line[o].pendingMessage), now, Here(o))
           ELSE /\ value' = ValueAfterFree(line[o].pendingMessage)
                /\ line' = [line EXCEPT ![o] = k]
        /\ ramp' = [ramp EXCEPT ![o] = [start |-> Here(o), sent |-> Here(o),
                                        alone |-> slope # 0]]
    BY <1>6 DEF Ramp
  <2> HIDE DEF slope
  <2>3. k \in LineFields /\ k.grainRate = line[o].grainRate
        /\ k.pendingMessage = NULL
    BY <1>2, <2>1 DEF LineFields
  <2>4. ramp' \in [Lines -> [start : Int, sent : Int, alone : BOOLEAN]]
    BY <1>1, <1>2, <2>2
  <2> HIDE DEF k
  <2>5. CASE slope # 0
    BY <1>1, <1>2, <1>3, <2>2, <2>3, <2>4, <2>5, SendRampTypes
  <2>6. CASE slope = 0
    BY <1>2, <1>3, <1>4, <2>2, <2>3, <2>4, <2>6
  <2> QED
    BY <2>5, <2>6
<1>7. ASSUME StopRamp(o)
      PROVE  LineTypes'
  <2> DEFINE k == [line[o] EXCEPT !.pendingMessage = NULL]
  <2>1. k \in LineFields /\ k.grainRate = line[o].grainRate
        /\ k.pendingMessage = NULL
    BY <1>2 DEF LineFields
  <2>2. ramp' \in [Lines -> [start : Int, sent : Int, alone : BOOLEAN]]
    BY <1>1, <1>7 DEF StopRamp
  <2>3. line' = [line EXCEPT ![o] = k]
        /\ value' = ValueAfterFree(line[o].pendingMessage)
    BY <1>1, <1>7 DEF StopRamp
  <2> HIDE DEF k
  <2> QED
    BY <1>2, <1>3, <1>4, <2>1, <2>2, <2>3
<1>8. ASSUME NEW v \in Values, SetValue(o, v)
      PROVE  LineTypes'
  <2> DEFINE k == [line[o] EXCEPT !.pendingMessage = NULL, !.currentValue = v]
  <2>1. k \in LineFields /\ k.grainRate = line[o].grainRate
        /\ k.pendingMessage = NULL
    BY <1>1, <1>2 DEF LineFields
  <2>2. ramp' \in [Lines -> [start : Int, sent : Int, alone : BOOLEAN]]
    BY <1>1, <1>8 DEF SetValue
  <2>3. line' = [line EXCEPT ![o] = k]
        /\ value' = ValueAfterFree(line[o].pendingMessage)
    BY <1>1, <1>8 DEF SetValue
  <2> HIDE DEF k
  <2> QED
    BY <1>2, <1>3, <1>4, <2>1, <2>2, <2>3
<1>9. ASSUME NEW g \in Grains, SetGrain(o, g)
      PROVE  LineTypes'
  <2> DEFINE k == [line[o] EXCEPT !.grainRate = g]
  <2>1. k \in LineFields /\ k.grainRate = g /\ k.slope = line[o].slope
        /\ k.pendingMessage = line[o].pendingMessage
    BY <1>1, <1>2 DEF LineFields
  <2>2. line' = [line EXCEPT ![o] = k] /\ value' = value /\ ramp' = ramp
    BY <1>1, <1>9 DEF SetGrain
  <2> HIDE DEF k
  <2> QED
    BY <1>1, <1>4, <2>1, <2>2
<1> QED
  BY <1>5, <1>6, <1>7, <1>8, <1>9 DEF LineStep

LEMMA LineTypesNext ==
    ASSUME Base, [Next]_vars
    PROVE  LineTypes'
PROOF
<1>1. /\ patch' = patch /\ LineTypes
      /\ line \in [Lines -> LineFields] /\ value \in [Messages -> Int]
      /\ ramp \in [Lines -> [start : Int, sent : Int, alone : BOOLEAN]]
  BY PatchStays DEF Base, Typed, LineTypes
<1>2. ASSUME NEW entry \in Entries, LineSend(entry),
             UNCHANGED <<delayVars, metroVars, pipeVars, playerVars>>
      PROVE  LineTypes'
  <2> DEFINE o == entry.object
             v == value[entry.message]
  <2>1. /\ o \in Lines \cap patch /\ line[o].slope # 0
    BY <1>2, LineSendIsSent
  <2>2. /\ Dispatch(entry)
        /\ SendRamp(o, Popped(entry), line[o], value, now', v)
        /\ ramp' = [ramp EXCEPT ![o].sent = Clipped(line[o], v)]
    BY <1>2 DEF LineSend
  <2>3. v \in Int /\ now' \in Int
    BY <1>1, <2>2, TimeOfDelivery DEF Entries
  <2>4. /\ line[o] \in LineFields /\ line[o].grainRate \in Grains
        /\ Clipped(line[o], v) \in Int
    BY <2>1, <2>3, LineIsHere DEF Clipped
  <2>5. ramp' \in [Lines -> [start : Int, sent : Int, alone : BOOLEAN]]
    BY <1>1, <2>2, <2>4
  <2> HIDE DEF o, v
  <2> QED
    BY <1>1, <2>1, <2>2, <2>3, <2>4, <2>5, SendRampTypes
<1>3. CASE Return
  <2>1. /\ line' = line /\ ramp' = ramp
        /\ value' = ValueAfterFree(inFlight)
    BY <1>3 DEF Return, LineReturn
  <2> QED
    BY <1>1, <2>1, FreedValues DEF LineTypes
<1>4. CASE UNCHANGED lineVars
  BY <1>1, <1>4 DEF LineTypes, lineVars
<1>5. CASE ReceiveLine
  BY <1>1, <1>5, LineStepTypes DEF ReceiveLine
<1> QED
  BY <1>2, <1>3, <1>4, <1>5, WhoChangesLines

-----------------------------------------------------------------------------
(***************************************************************************)
(* The pipes.                                                              *)
(***************************************************************************)

\* A handler other than a player's leaves the context's phase and time.
LEMMA InCascade ==
    ASSUME ReceiveDelay \/ ReceiveMetro \/ ReceiveLine \/ ReceivePipe
               \/ LoopOfPipe
    PROVE  /\ UNCHANGED <<blockStartTimestamp, phase, cascade, now, inFlight>>
           /\ UNCHANGED playerVars
PROOF
<1>1. ASSUME NEW o, DelayStep(o)
      PROVE  UNCHANGED <<blockStartTimestamp, phase, cascade, now, inFlight>>
  BY <1>1 DEF DelayStep, DelayBang, DelayStop, SetDelay
<1>2. ASSUME NEW o, MetroStep(o)
      PROVE  UNCHANGED <<blockStartTimestamp, phase, cascade, now, inFlight>>
  BY <1>2 DEF MetroStep, StartMetro, StopMetro, SetInterval, contextVars
<1>3. ASSUME NEW o, LineStep(o)
      PROVE  UNCHANGED <<blockStartTimestamp, phase, cascade, now, inFlight>>
  <2>1. ASSUME NEW v, NEW d, Ramp(o, v, d)
        PROVE  UNCHANGED <<blockStartTimestamp, phase, cascade, now, inFlight>>
    BY <2>1, Zenon DEF Ramp
  <2>2. ASSUME NEW v, Jump(o, v) \/ SetValue(o, v)
        PROVE  UNCHANGED <<blockStartTimestamp, phase, cascade, now, inFlight>>
    BY <2>2 DEF Jump, SetValue
  <2>3. ASSUME StopRamp(o)
        PROVE  UNCHANGED <<blockStartTimestamp, phase, cascade, now, inFlight>>
    BY <2>3 DEF StopRamp
  <2>4. ASSUME NEW g, SetGrain(o, g)
        PROVE  UNCHANGED <<blockStartTimestamp, phase, cascade, now, inFlight>>
    BY <2>4 DEF SetGrain, contextVars
  <2> QED
    BY <1>3, <2>1, <2>2, <2>3, <2>4 DEF LineStep
<1>4. ASSUME NEW o, PipeStep(o)
      PROVE  UNCHANGED <<blockStartTimestamp, phase, cascade, now, inFlight>>
  BY <1>4 DEF PipeStep, Put, SetPipeDelay, Loop, contextVars
<1>5. ASSUME PipeLoops
      PROVE  UNCHANGED <<blockStartTimestamp, phase, cascade, now, inFlight>>
  BY <1>5 DEF PipeLoops, LoopSend, LoopCancel, LoopEnd, contextVars
<1> QED
  BY <1>1, <1>2, <1>3, <1>4, <1>5
     DEF ReceiveDelay, ReceiveMetro, ReceiveLine, ReceivePipe, LoopOfPipe

\* A cascade ends when it returns.
LEMMA CascadeEnds ==
    ASSUME [Next]_vars
    PROVE  cascade' # "none" \/ cascade' = cascade \/ Return
PROOF
<1>1. ASSUME ReceiveDelay \/ ReceiveMetro \/ ReceiveLine \/ ReceivePipe
                 \/ LoopOfPipe
      PROVE  cascade' = cascade
  BY <1>1, InCascade
<1>2. ASSUME RunPlayer
      PROVE  cascade' # "none" \/ cascade' = cascade
  BY <1>2 DEF RunPlayer, PlayerStep, Consume, Finish, PlayTable, SetTable,
              contextVars
<1>3. ASSUME NEW entry, Send(entry)
      PROVE  cascade' # "none"
  <2>1. Dispatch(entry)
    BY <1>3 DEF Send, DelaySend, MetroSend, LineSend, PipeSend, PlayerSend
  <2> QED
    BY <2>1 DEF Dispatch
<1>4. ASSUME ResizeTable \/ EndBlock \/ OtherStep \/ UNCHANGED vars
      PROVE  cascade' # "none" \/ cascade' = cascade
  BY <1>4 DEF ResizeTable, ResizeBuffer, EndBlock, EndProcess, OtherStep,
              ScheduleExternal, BeginCascade, BeginProcess, BeginDsp, vars,
              contextVars
<1> QED
  BY <1>1, <1>2, <1>3, <1>4 DEF Next

LEMMA LoopsInCascade ==
    ASSUME Base, [Next]_vars, loops' = loops
    PROVE  loops' # <<>> => cascade' # "none"
  BY CascadeEnds DEF Base, LoopsFine, Return

\* What the pipes rely on.
PipesFine == PipeTypes /\ LoopsFine /\ ListsApart

LEMMA PutKeepsPipes ==
    ASSUME Base, NEW o \in Pipes \cap patch, NEW m \in Messages,
           NEW d \in PipeDelays, Put(o, m, d) \/ Put(o, m, pipeDelayMs[o]),
           patch' = patch
    PROVE  PipesFine'
PROOF
<1> DEFINE list == scheduledMessagesList[o]
           n == Len(list)
<1>1. /\ scheduledMessagesList' =
             [scheduledMessagesList EXCEPT ![o] = Append(@, m)]
      /\ loops' = loops /\ cascade' = cascade /\ m \in Fresh(ctx)
      /\ \/ pipeDelayMs' = [pipeDelayMs EXCEPT ![o] = d]
         \/ pipeDelayMs' = [pipeDelayMs EXCEPT ![o] = pipeDelayMs[o]]
  BY DEF Put
<1>2. /\ scheduledMessagesList' \in [Pipes -> Seq(Messages)]
      /\ n \in Nat
      /\ Len(scheduledMessagesList'[o]) = n + 1
      /\ scheduledMessagesList'[o][n + 1] = m
      /\ \A k \in 1 .. n : scheduledMessagesList'[o][k] = list[k]
      /\ AliveAt(o)' = AliveAt(o) \cup {n + 1}
  BY <1>1, PutPointers DEF Base
<1>3. /\ PipeTypes /\ LoopsFine /\ ListsApart
      /\ \A p \in Pipes \ {o} :
             scheduledMessagesList'[p] = scheduledMessagesList[p]
  BY <1>1 DEF Base, Typed, PipeTypes
<1>4. PipeTypes'
  BY <1>1, <1>2, <1>3, PipeAssumption DEF PipeTypes
<1>5. \A p \in Pipes : /\ Len(scheduledMessagesList'[p]) \in Nat
                       /\ Len(scheduledMessagesList[p]) \in Nat
                       /\ Len(scheduledMessagesList[p])
                              <= Len(scheduledMessagesList'[p])
  <2>1. \A p \in Pipes : Len(scheduledMessagesList[p]) \in Nat
    BY EachLoop DEF Base, Typed
  <2> HIDE DEF n
  <2>2. \A p \in Pipes \ {o} : Len(scheduledMessagesList'[p])
                                   = Len(scheduledMessagesList[p])
    BY <1>3
  <2>3. Len(scheduledMessagesList[o]) = n
    BY DEF n
  <2> QED
    BY <1>2, <2>1, <2>2, <2>3
<1>6. LoopsFine'
  <2>1. \A i \in 1 .. Len(loops) : loops[i].at \in Nat
                                   /\ loops[i].pipe \in Pipes
    BY EachLoop DEF Base, Typed
  <2>2. \A i \in 1 .. Len(loops) :
            LET length == Len(scheduledMessagesList'[loops[i].pipe])
            IN  /\ loops[i].at \in 1 .. length + 1
                /\ loops[i].sent => loops[i].sends /\ loops[i].at <= length
                /\ i < Len(loops) => loops[i].sent
    <3> TAKE i \in 1 .. Len(loops)
    <3> DEFINE before == Len(scheduledMessagesList[loops[i].pipe])
               after == Len(scheduledMessagesList'[loops[i].pipe])
    <3>1. before \in Nat /\ after \in Nat /\ before <= after
          /\ loops[i].at \in Nat
      BY <1>5, <2>1
    <3>2. /\ loops[i].at \in 1 .. before + 1
          /\ loops[i].sent => loops[i].sends /\ loops[i].at <= before
          /\ i < Len(loops) => loops[i].sent
      BY <1>3 DEF LoopsFine
    <3> HIDE DEF before, after
    <3>3. /\ loops[i].at \in 1 .. after + 1
          /\ loops[i].sent => loops[i].sends /\ loops[i].at <= after
          /\ i < Len(loops) => loops[i].sent
      BY <3>1, <3>2
    <3> QED
      BY <3>3 DEF after
  <2> QED
    BY <1>1, <1>3, <2>2 DEF LoopsFine
<1>7. m \notin held[o]
  <2>1. m \notin ctx.live
    BY <1>1 DEF Fresh
  <2>2. P!HeapIsQueuePlusInFlight
    BY TrackersFit, ContextFits, P!OwnedProperties DEF Base
  <2>3. ASSUME m \in held[o]
        PROVE  FALSE
    <3>1. m \in P!Queued
      BY <2>3, Kinds, TrackersFit, ContextFits, P!HeldApart DEF Base
    <3> QED
      BY <2>1, <2>2, <3>1 DEF P!HeapIsQueuePlusInFlight
  <2> QED
    BY <2>3
<1>8. ListsApart'
  <2>1. \A p \in Pipes \ {o} : AliveAt(p)' = AliveAt(p)
    BY <1>1, <1>3 DEF AliveAt
  <2>2. ASSUME NEW p \in Pipes \ {o}, NEW j \in AliveAt(p)',
               NEW k \in AliveAt(p)',
               scheduledMessagesList'[p][j] = scheduledMessagesList'[p][k]
        PROVE  j = k
    BY <1>3, <2>1, <2>2 DEF ListsApart
  <2>3. ASSUME NEW j \in AliveAt(o)
        PROVE  /\ j \in 1 .. n /\ list[j] \in held[o]
               /\ scheduledMessagesList'[o][j] = list[j]
    <3>1. j \in 1 .. n
      BY <2>3 DEF AliveAt
    <3>2. list[j] \in held[o]
      BY <2>3, HeldOfKinds DEF Alive
    <3> QED
      BY <1>2, <3>1, <3>2
  <2>4. ASSUME NEW j \in AliveAt(o)', NEW k \in AliveAt(o)',
               scheduledMessagesList'[o][j] = scheduledMessagesList'[o][k]
        PROVE  j = k
    <3>1. (j \in AliveAt(o) \/ j = n + 1) /\ (k \in AliveAt(o) \/ k = n + 1)
      BY <1>2
    <3>2. j \in AliveAt(o) /\ k \in AliveAt(o) => list[j] = list[k]
      BY <2>3, <2>4
    <3> QED
      BY <1>2, <1>3, <1>7, <2>3, <2>4, <3>1, <3>2 DEF ListsApart
  <2> QED
    BY <2>2, <2>4 DEF ListsApart
<1> QED
  BY <1>4, <1>6, <1>8 DEF PipesFine

\* The lists stay, and so do the loops but the innermost.
LEMMA LoopMoveKeepsPipes ==
    ASSUME Base, loops # <<>>, NEW loop \in LoopFields,
           NEW o, o = loop.pipe, o = Last(loops).pipe,
           loops' = Append(Front(loops), loop),
           UNCHANGED <<scheduledMessagesList, pipeDelayMs, cascade, patch>>,
           loop.at >= Last(loops).at,
           loop.at <= Len(scheduledMessagesList[o]) + 1,
           loop.sent => loop.sends
                        /\ loop.at <= Len(scheduledMessagesList[o])
    PROVE  PipesFine'
PROOF
<1> DEFINE n == Len(loops)
           list == scheduledMessagesList[o]
<1>1. /\ n \in Nat \ {0} /\ n \in 1 .. n /\ Last(loops) = loops[n]
      /\ loops[n].pipe = o /\ o \in Pipes /\ Len(list) \in Nat
      /\ \A i \in 1 .. n : loops[i].pipe = o <=> i = n
      /\ loops[n].at \in 1 .. Len(list) + 1
      /\ AliveAt(o) = loops[n].at .. Len(list)
      /\ loop.at \in Nat
  BY LastLoop DEF Base, LoopFields
<1>2. /\ loops' \in Seq(LoopFields) /\ Len(loops') = n /\ loops'[n] = loop
      /\ \A i \in 1 .. n - 1 : loops'[i] = loops[i]
      /\ AliveAt(o)' = {k \in 1 .. Len(list) : k >= loop.at}
      /\ \A p \in Pipes \ {o} : AliveAt(p)' = AliveAt(p)
  BY LoopMoves DEF Base
<1>3. PipeTypes /\ LoopsFine /\ ListsApart
  BY DEF Base, Typed
<1>4. PipeTypes'
  BY <1>2, <1>3 DEF PipeTypes
<1>5. LoopsFine'
  <2> HIDE DEF n
  <2>1. \A i \in 1 .. n : loops'[i].pipe = loops[i].pipe
    <3> TAKE i \in 1 .. n
    <3>1. CASE i = n
      BY <1>1, <1>2, <3>1
    <3>2. CASE i # n
      <4>1. i \in 1 .. n - 1
        BY <1>1, <3>2
      <4> QED
        BY <1>2, <4>1
    <3> QED
      BY <3>1, <3>2
  <2>2. cascade' # "none" /\ Len(loops) = n
        /\ \A i, j \in 1 .. n : loops[i].pipe = loops[j].pipe => i = j
    BY <1>3 DEF LoopsFine, n
  <2>3. ASSUME NEW i \in 1 .. n
        PROVE  LET length == Len(scheduledMessagesList[loops'[i].pipe])
               IN  /\ loops'[i].at \in 1 .. length + 1
                   /\ loops'[i].sent => loops'[i].sends
                                        /\ loops'[i].at <= length
                   /\ i < n => loops'[i].sent
    <3>1. CASE i = n
      <4>1. loops'[i] = loop /\ loop.pipe = o /\ ~ (i < n)
        BY <1>1, <1>2, <3>1
      <4>2. loop.at \in 1 .. Len(list) + 1
        BY <1>1
      <4> QED
        BY <4>1, <4>2
    <3>2. CASE i # n
      <4>1. i \in 1 .. n - 1
        BY <1>1, <3>2
      <4>2. loops'[i] = loops[i]
        BY <1>2, <4>1
      <4> QED
        BY <1>3, <2>2, <4>2 DEF LoopsFine
    <3> QED
      BY <3>1, <3>2
  <2> QED
    BY <1>2, <2>1, <2>2, <2>3 DEF LoopsFine
<1>6. ListsApart'
  <2>1. \A p \in Pipes : AliveAt(p)' \subseteq AliveAt(p)
    <3> TAKE p \in Pipes
    <3>1. CASE p = o
      BY <1>1, <1>2, <3>1
    <3> QED
      BY <1>2, <3>1
  <2> QED
    BY <1>3, <2>1 DEF ListsApart
<1> QED
  BY <1>4, <1>5, <1>6 DEF PipesFine

LEMMA LoopKeepsPipes ==
    ASSUME Base, NEW o \in Pipes \cap patch, NEW sends \in BOOLEAN,
           Loop(o, sends), patch' = patch
    PROVE  PipesFine'
PROOF
<1> DEFINE n == Len(loops)
           loop == [pipe |-> o, sends |-> sends, at |-> 1, sent |-> FALSE]
<1>1. loop \in LoopFields /\ loop.at = 1 /\ loop.sent = FALSE /\ loop.pipe = o
  BY DEF LoopFields
<1>2. /\ loops' = Append(loops, loop)
      /\ UNCHANGED <<scheduledMessagesList, pipeDelayMs, cascade>>
      /\ cascade # "none"
      /\ loops # <<>> => Last(loops).sent
      /\ \A i \in 1 .. n : loops[i].pipe # o
  BY DEF Loop, contextVars, PatchRuns, InLoop
<1> HIDE DEF loop
<1>3. /\ loops' \in Seq(LoopFields) /\ Len(loops') = n + 1
      /\ loops'[n + 1] = loop
      /\ \A i \in 1 .. n : loops'[i] = loops[i]
      /\ \A p \in Pipes : AliveAt(p)' = AliveAt(p)
  BY <1>1, <1>2, LoopPointers DEF Base
<1>4. /\ PipeTypes /\ LoopsFine /\ ListsApart /\ n \in Nat
      /\ Len(scheduledMessagesList[o]) \in Nat
      /\ n # 0 => loops # <<>> /\ Last(loops) = loops[n]
  BY EachLoop, LastLoop, EmptySeq DEF Base, Typed
<1>5. PipeTypes'
  BY <1>2, <1>3, <1>4 DEF PipeTypes
<1>6. LoopsFine'
  <2> HIDE DEF n
  <2>1. /\ Len(loops) = n
        /\ \A i, j \in 1 .. n : loops[i].pipe = loops[j].pipe => i = j
    BY <1>4 DEF LoopsFine, n
  <2>2. \A i \in 1 .. n + 1 : i \in 1 .. n \/ i = n + 1
    BY <1>4
  <2>3. \A i, j \in 1 .. n + 1 : loops'[i].pipe = loops'[j].pipe => i = j
    BY <1>1, <1>2, <1>3, <2>1, <2>2
  <2>4. ASSUME NEW i \in 1 .. n + 1
        PROVE  LET length == Len(scheduledMessagesList[loops'[i].pipe])
               IN  /\ loops'[i].at \in 1 .. length + 1
                   /\ loops'[i].sent => loops'[i].sends
                                        /\ loops'[i].at <= length
                   /\ i < n + 1 => loops'[i].sent
    <3>1. CASE i = n + 1
      <4>1. loops'[i] = loop /\ ~ (i < n + 1)
        BY <1>3, <1>4, <3>1
      <4>2. 1 \in 1 .. Len(scheduledMessagesList[o]) + 1
        BY <1>4
      <4> QED
        BY <1>1, <4>1, <4>2
    <3>2. CASE i \in 1 .. n
      <4>1. loops'[i] = loops[i]
        BY <1>3, <3>2
      <4>2. LET length == Len(scheduledMessagesList[loops[i].pipe])
            IN  /\ loops[i].at \in 1 .. length + 1
                /\ loops[i].sent => loops[i].sends /\ loops[i].at <= length
                /\ i < n => loops[i].sent
        BY <1>4, <2>1, <3>2 DEF LoopsFine
      <4>3. i = n => loops[i].sent
        BY <1>2, <1>4, <3>2
      <4> QED
        BY <1>4, <4>1, <4>2, <4>3
    <3> QED
      BY <2>2, <3>1, <3>2
  <2> QED
    BY <1>2, <1>3, <2>3, <2>4 DEF LoopsFine
<1>7. ListsApart'
  BY <1>2, <1>3, <1>4 DEF ListsApart
<1> QED
  BY <1>5, <1>6, <1>7 DEF PipesFine

LEMMA LoopEndKeepsPipes ==
    ASSUME Base, LoopEnd, patch' = patch, NEW o, o = Last(loops).pipe
    PROVE  PipesFine'
PROOF
<1> DEFINE n == Len(loops)
<1>1. /\ loops # <<>> /\ loops' = Front(loops)
      /\ scheduledMessagesList' = [scheduledMessagesList EXCEPT ![o] = <<>>]
      /\ UNCHANGED <<pipeDelayMs, cascade>>
  BY DEF LoopEnd, contextVars
<1>2. /\ n \in Nat \ {0} /\ n \in 1 .. n /\ Last(loops) = loops[n]
      /\ o \in Pipes /\ \A i \in 1 .. n : loops[i].pipe = o <=> i = n
  BY <1>1, LastLoop DEF Base
<1>3. /\ PipeTypes /\ LoopsFine /\ ListsApart /\ loops \in Seq(LoopFields)
  BY DEF Base, Typed, PipeTypes
<1>4. /\ loops' \in Seq(LoopFields) /\ Len(loops') = n - 1
      /\ \A i \in 1 .. n - 1 : loops'[i] = loops[i] /\ i \in 1 .. n
  BY <1>1, <1>2, <1>3, LastRemoved
<1>5. \A i \in 1 .. n - 1 : loops[i].pipe # o
  BY <1>2
<1>6. /\ <<>> \in Seq(Messages) /\ Len(<<>>) = 0
      /\ scheduledMessagesList' \in [Pipes -> Seq(Messages)]
      /\ scheduledMessagesList'[o] = <<>>
      /\ \A p \in Pipes \ {o} :
             scheduledMessagesList'[p] = scheduledMessagesList[p]
  <2>1. <<>> \in Seq(Messages) /\ Len(<<>>) = 0
    BY EmptySeq
  <2> QED
    BY <1>1, <1>2, <1>3, <2>1 DEF PipeTypes
<1>7. PipeTypes'
  BY <1>1, <1>3, <1>4, <1>6 DEF PipeTypes
<1> HIDE DEF n
<1>8. LoopsFine'
  <2>1. /\ Len(loops) = n /\ cascade # "none"
        /\ \A i, j \in 1 .. n : loops[i].pipe = loops[j].pipe => i = j
    BY <1>1, <1>3 DEF LoopsFine, n
  <2>2. \A i, j \in 1 .. n - 1 : loops'[i].pipe = loops'[j].pipe => i = j
    BY <1>4, <2>1
  <2>3. ASSUME NEW i \in 1 .. n - 1
        PROVE  LET length == Len(scheduledMessagesList'[loops'[i].pipe])
               IN  /\ loops'[i].at \in 1 .. length + 1
                   /\ loops'[i].sent => loops'[i].sends
                                        /\ loops'[i].at <= length
                   /\ i < n - 1 => loops'[i].sent
    <3>1. loops'[i] = loops[i] /\ i \in 1 .. n /\ loops[i].pipe # o
          /\ i < n
      BY <1>2, <1>4, <1>5
    <3>2. loops[i].pipe \in Pipes
      BY <2>1, <3>1, EachLoop DEF Base, Typed
    <3>3. scheduledMessagesList'[loops[i].pipe]
              = scheduledMessagesList[loops[i].pipe]
      BY <1>6, <3>1, <3>2
    <3> QED
      BY <1>3, <2>1, <3>1, <3>3 DEF LoopsFine
  <2> QED
    BY <1>1, <1>4, <2>1, <2>2, <2>3 DEF LoopsFine
<1>9. ListsApart'
  <2>1. AliveAt(o)' = {}
    <3>1. 1 .. Len(scheduledMessagesList'[o]) = {}
      BY <1>6
    <3> QED
      BY <1>6, <3>1 DEF AliveAt
  <2>2. ASSUME NEW p \in Pipes \ {o}
        PROVE  AliveAt(p)' \subseteq AliveAt(p)
    <3>1. \A i \in 1 .. n : loops[i].pipe = p => i \in 1 .. n - 1
      BY <1>2, <2>2
    <3>2. Len(loops) = n
      BY DEF n
    <3> QED
      BY <1>4, <1>6, <3>1, <3>2 DEF AliveAt
  <2> QED
    BY <1>3, <1>6, <2>1, <2>2 DEF ListsApart
<1> QED
  BY <1>7, <1>8, <1>9 DEF PipesFine

LEMMA PipeLoopsKeepPipes ==
    ASSUME Base, PipeLoops, patch' = patch
    PROVE  PipesFine'
PROOF
<1> SUFFICES ASSUME NEW l, l = Last(loops), NEW o, o = l.pipe
             PROVE  PipesFine'
  OBVIOUS
<1>1. CASE LoopSend
  <2> DEFINE loop == [l EXCEPT !.sent = TRUE]
  <2>1. /\ loops # <<>> /\ l.sends
        /\ l.at <= Len(scheduledMessagesList[o])
        /\ loops' = Append(Front(loops), loop)
        /\ UNCHANGED <<scheduledMessagesList, pipeDelayMs, cascade>>
    BY <1>1 DEF LoopSend
  <2>2. l \in LoopFields /\ l.at \in Nat
        /\ Len(scheduledMessagesList[o]) \in Nat
    BY <2>1, LastLoop DEF Base, LoopFields
  <2>3. /\ loop \in LoopFields /\ loop.pipe = l.pipe /\ loop.at = l.at
        /\ loop.sends = l.sends
    BY <2>2 DEF LoopFields
  <2> HIDE DEF loop
  <2>4. loop.at >= l.at /\ loop.at <= Len(scheduledMessagesList[o]) + 1
    BY <2>1, <2>2, <2>3
  <2> QED
    BY <2>1, <2>2, <2>3, <2>4, LoopMoveKeepsPipes
<1>2. CASE LoopCancel
  <2> DEFINE loop == [l EXCEPT !.at = @ + 1, !.sent = FALSE]
  <2>1. /\ loops # <<>> /\ l.at <= Len(scheduledMessagesList[o])
        /\ loops' = Append(Front(loops), loop)
        /\ UNCHANGED <<scheduledMessagesList, pipeDelayMs, cascade>>
    BY <1>2 DEF LoopCancel
  <2>2. l \in LoopFields /\ l.at \in Nat
        /\ Len(scheduledMessagesList[o]) \in Nat
    BY <2>1, LastLoop DEF Base, LoopFields
  <2>3. /\ loop \in LoopFields /\ loop.pipe = l.pipe
        /\ loop.at = l.at + 1 /\ loop.sent = FALSE
    BY <2>2, LoopGoesOn, Zenon
  <2> HIDE DEF loop
  <2>4. loop.at >= l.at /\ loop.at <= Len(scheduledMessagesList[o]) + 1
    BY <2>1, <2>2, <2>3
  <2> QED
    BY <2>1, <2>2, <2>3, <2>4, LoopMoveKeepsPipes
<1>3. CASE LoopEnd
  BY <1>3, LoopEndKeepsPipes
<1> QED
  BY <1>1, <1>2, <1>3 DEF PipeLoops

LEMMA PipeSendKeepsPipes ==
    ASSUME Base, NEW entry \in Entries, PipeSend(entry), patch' = patch
    PROVE  PipesFine'
PROOF
<1> DEFINE o == entry.object
           list == scheduledMessagesList[o]
           new == scheduledMessagesList'[o]
<1>1. /\ o \in Pipes /\ loops = <<>> /\ loops' = <<>>
      /\ list \in Seq(Messages)
      /\ scheduledMessagesList' \in [Pipes -> Seq(Messages)]
      /\ new = Without(list, entry.message)
      /\ \A p \in Pipes \ {o} :
             scheduledMessagesList'[p] = scheduledMessagesList[p]
      /\ pipeDelayMs' = pipeDelayMs
  BY PipeSendPointers DEF PipeSend
<1>2. PipeTypes /\ ListsApart
  BY DEF Base, Typed
<1>3. Len(<<>>) = 0
  BY EmptySeq
<1>4. PipeTypes' /\ LoopsFine'
  <2>1. loops' \in Seq(LoopFields)
    BY <1>1, EmptySeq
  <2> QED
    BY <1>1, <1>2, <1>3, <2>1 DEF PipeTypes, LoopsFine
<1>5. \A p \in Pipes : /\ AliveAt(p) = 1 .. Len(scheduledMessagesList[p])
                       /\ AliveAt(p)' = 1 .. Len(scheduledMessagesList'[p])
  BY <1>1, NoLoops
<1>6. ASSUME NEW j \in 1 .. Len(new), NEW k \in 1 .. Len(new),
             new[j] = new[k]
      PROVE  j = k
  <2>1. HasOthers(new, list, Len(list), entry.message)
    BY <1>1, WithoutRemoves
  <2>2. \A a, b \in 1 .. Len(list) : list[a] = list[b] => a = b
    BY <1>1, <1>2, <1>5 DEF ListsApart
  <2>3. Len(list) \in Nat /\ Len(new) \in Nat
    BY <1>1, LenProperties, WithoutRemoves
  <2>4. ASSUME NEW a \in 1 .. Len(new), NEW b \in 1 .. Len(new), a < b
        PROVE  new[a] # new[b]
    <3>1. PICK x, y \in 1 .. Len(list) :
              x < y /\ new[a] = list[x] /\ new[b] = list[y]
      BY <2>1, <2>4 DEF HasOthers
    <3>2. x # y
      BY <2>3, <3>1
    <3> QED
      BY <2>2, <3>1, <3>2
  <2> HIDE DEF new
  <2>5. j < k \/ k < j \/ j = k
    BY <2>3
  <2> QED
    BY <1>6, <2>4, <2>5
<1>7. ListsApart'
  <2>1. ASSUME NEW p \in Pipes, NEW j \in AliveAt(p)', NEW k \in AliveAt(p)',
               scheduledMessagesList'[p][j] = scheduledMessagesList'[p][k]
        PROVE  j = k
    <3>1. CASE p = o
      BY <1>5, <1>6, <2>1, <3>1
    <3>2. CASE p # o
      <4>1. /\ scheduledMessagesList'[p] = scheduledMessagesList[p]
            /\ AliveAt(p)' = AliveAt(p)
        BY <1>1, <1>5, <3>2
      <4> QED
        BY <1>2, <2>1, <4>1 DEF ListsApart
    <3> QED
      BY <3>1, <3>2
  <2> QED
    BY <2>1 DEF ListsApart
<1> QED
  BY <1>4, <1>7 DEF PipesFine

LEMMA PipesFineNext ==
    ASSUME Base, [Next]_vars
    PROVE  PipesFine'
PROOF
<1>1. patch' = patch /\ PipeTypes /\ LoopsFine /\ ListsApart
  BY PatchStays DEF Base, Typed
<1>2. ASSUME UNCHANGED <<scheduledMessagesList, loops>>,
             pipeDelayMs' \in [Pipes -> Int],
             \A o \in Pipes \cap patch : pipeDelayMs'[o] \in PipeDelays
      PROVE  PipesFine'
  <2>1. \A o \in Pipes : AliveAt(o)' = AliveAt(o)
    BY <1>2 DEF AliveAt
  <2>2. ListsApart'
    BY <1>1, <1>2, <2>1 DEF ListsApart
  <2>3. loops' # <<>> => cascade' # "none"
    BY <1>2, LoopsInCascade
  <2>4. LoopsFine'
    BY <1>1, <1>2, <2>3 DEF LoopsFine
  <2> QED
    BY <1>1, <1>2, <2>2, <2>4 DEF PipesFine, PipeTypes
<1>3. ASSUME NEW o \in Pipes \cap patch, PipeStep(o)
      PROVE  PipesFine'
  <2>1. ASSUME NEW m \in Messages,
               Put(o, m, pipeDelayMs[o])
                   \/ \E d \in PipeDelays : Put(o, m, d)
        PROVE  PipesFine'
    <3>1. pipeDelayMs[o] \in PipeDelays
      BY <1>1 DEF PipeTypes
    <3> QED
      BY <1>1, <2>1, <3>1, PutKeepsPipes
  <2>2. ASSUME NEW d \in PipeDelays, SetPipeDelay(o, d)
        PROVE  PipesFine'
    BY <1>1, <1>2, <2>2, PipeAssumption DEF SetPipeDelay, PipeTypes
  <2>3. ASSUME NEW sends \in BOOLEAN, Loop(o, sends)
        PROVE  PipesFine'
    BY <1>1, <2>3, LoopKeepsPipes
  <2> QED
    BY <1>3, <2>1, <2>2, <2>3 DEF PipeStep
<1>4. ASSUME PipeLoops
      PROVE  PipesFine'
  BY <1>1, <1>4, PipeLoopsKeepPipes
<1>5. ASSUME NEW entry \in Entries, PipeSend(entry)
      PROVE  PipesFine'
  BY <1>1, <1>5, PipeSendKeepsPipes
<1>6. CASE UNCHANGED pipeVars
  BY <1>1, <1>2, <1>6 DEF pipeVars, PipeTypes
<1> QED
  BY <1>3, <1>4, <1>5, <1>6, WhoChangesPipes DEF ReceivePipe, LoopOfPipe

-----------------------------------------------------------------------------
(***************************************************************************)
(* The players.                                                            *)
(***************************************************************************)

LEMMA Blocksize == blockSizeInt \in Nat \ {0} /\ Samples \subseteq Nat
  BY ContextAssumption DEF blockSizeInt, Samples

LEMMA ProcessTypes ==
    ASSUME Base, NEW o \in Players, NEW to \in 0 .. blockSizeInt,
           ProcessDspWithIndex(o, rendered[o], to)
    PROVE  /\ endTableIndex' \in [Players -> Int]
           /\ currentTableIndex' \in [Players -> Int]
           /\ rendered' \in [Players -> 0 .. blockSizeInt]
           /\ output' \in [Players -> [Samples -> Int]]
           /\ rendered' = [rendered EXCEPT ![o] = to]
PROOF
<1>1. /\ currentTableIndex \in [Players -> Int]
      /\ endTableIndex \in [Players -> Int]
      /\ TableLength(o) \in Nat
      /\ rendered \in [Players -> 0 .. blockSizeInt]
      /\ output \in [Players -> [Samples -> Int]]
      /\ Samples \subseteq Nat
  BY Blocksize, LengthOfTable DEF Base, Typed, PlayerTypes
<1>2. EndInTable(o) \in Int /\ rendered[o] \in Int /\ to \in Int
  BY <1>1, Blocksize DEF EndInTable
<1> DEFINE from == rendered[o]
           remaining == EndInTable(o) - currentTableIndex[o]
           at == currentTableIndex[o]
           new == [i \in Samples |->
                      IF remaining <= 0 THEN Silence
                      ELSE IF i < from \/ i >= to THEN output[o][i]
                      ELSE IF i - from < remaining THEN at + i - from
                      ELSE Silence]
<1>3. CASE table[o] = NULL
  BY <1>1, <1>3 DEF ProcessDspWithIndex
<1>4. /\ remaining \in Int /\ at \in Int /\ at + (to - from) \in Int
      /\ from \in Int
  BY <1>1, <1>2
<1>5. \A i \in Samples : output[o][i] \in Int /\ i \in Int
  BY <1>1
<1>6. new \in [Samples -> Int]
  <2> HIDE DEF remaining, at, from
  <2> QED
    BY <1>2, <1>4, <1>5 DEF Silence
<1>7. CASE table[o] # NULL
  <2>1. /\ endTableIndex' = [endTableIndex EXCEPT ![o] = EndInTable(o)]
        /\ output' = [output EXCEPT ![o] = new]
        /\ currentTableIndex' = [currentTableIndex EXCEPT ![o] =
               IF remaining <= 0 THEN at ELSE at + (to - from)]
        /\ rendered' = [rendered EXCEPT ![o] = to]
    BY <1>1, <1>7 DEF ProcessDspWithIndex, PlayOn
  <2> HIDE DEF remaining, at, from, new
  <2> QED
    BY <1>1, <1>2, <1>4, <1>6, <2>1
<1> QED
  BY <1>3, <1>7

LEMMA PlayerStepTypes ==
    ASSUME Base, NEW o \in Players \cap patch, PlayerStep(o), patch' = patch
    PROVE  PlayerTypes'
PROOF
<1>1. PlayerTypes
  BY DEF Base, Typed
<1>2. ASSUME NEW i \in Samples, Consume(o, i)
      PROVE  PlayerTypes'
  <2>1. i \in 0 .. blockSizeInt
    BY Blocksize DEF Samples
  <2>2. /\ ProcessDspWithIndex(o, rendered[o], i) /\ consuming' = o
        /\ UNCHANGED <<outgoingMessage, table, bufferLength, sending, resized>>
    BY <1>2 DEF Consume
  <2> QED
    BY <1>1, <2>1, <2>2, ProcessTypes DEF PlayerTypes
<1>3. ASSUME Finish(o)
      PROVE  PlayerTypes'
  <2>1. blockSizeInt \in 0 .. blockSizeInt
    BY Blocksize
  <2>2. /\ ProcessDspWithIndex(o, rendered[o], blockSizeInt)
        /\ UNCHANGED <<outgoingMessage, table, bufferLength, sending,
                       consuming, resized>>
    BY <1>3 DEF Finish
  <2> QED
    BY <1>1, <2>1, <2>2, ProcessTypes DEF PlayerTypes
<1>4. ASSUME NEW s \in Starts, NEW d \in PlayDurations, NEW m \in Messages,
             PlayTable(o, s, d, m)
      PROVE  PlayerTypes'
  <2>1. s \in Int /\ d \in Int /\ TableLength(o) \in Int
    BY <1>1, PlayerAssumption, LengthOfTable DEF Base
  <2>2. EndIndex(o, s, d) \in Int
    BY <2>1 DEF EndIndex
  <2>3. /\ outgoingMessage' \in [Players -> Messages \cup {NULL}]
        /\ currentTableIndex' \in [Players -> Int]
        /\ endTableIndex' \in [Players -> Int]
        /\ resized' \in [Players -> BOOLEAN]
        /\ UNCHANGED <<blockVars, table, bufferLength, sending, consuming>>
        /\ \A p \in Players : outgoingMessage'[p] # NULL => p \in patch
    <3>1. CASE s < TableLength(o)
      BY <1>1, <1>4, <2>1, <2>2, <3>1 DEF PlayTable, PlayerTypes
    <3>2. CASE s >= TableLength(o)
      BY <1>1, <1>4, <2>1, <2>2, <3>2 DEF PlayTable, PlayerTypes
    <3> QED
      BY <2>1, <3>1, <3>2
  <2> QED
    BY <1>1, <2>3 DEF PlayerTypes, blockVars
<1>5. ASSUME NEW t \in Tables \cup {NULL}, SetTable(o, t)
      PROVE  PlayerTypes'
  BY <1>1, <1>5 DEF SetTable, PlayerTypes, playVars, blockVars
<1> QED
  BY <1>2, <1>3, <1>4, <1>5 DEF PlayerStep

LEMMA PlayerTypesNext ==
    ASSUME Base, [Next]_vars
    PROVE  PlayerTypes'
PROOF
<1>1. patch' = patch /\ PlayerTypes
  BY PatchStays DEF Base, Typed
<1>2. CASE RunPlayer
  BY <1>1, <1>2, PlayerStepTypes DEF RunPlayer
<1>3. CASE ResizeTable
  <2>1. PICK t \in Tables, length \in Lengths : ResizeBuffer(t, length)
    BY <1>3 DEF ResizeTable
  <2>2. length \in Nat
    BY PlayerAssumption
  <2>3. /\ bufferLength' \in [Tables -> Nat]
        /\ Players \cap patch # {} => bufferLength' \in [Tables -> Lengths]
    BY <1>1, <2>1, <2>2 DEF ResizeBuffer, PlayerTypes
  <2> QED
    BY <1>1, <2>1, <2>3
       DEF ResizeBuffer, PlayerTypes, playVars, blockVars
<1>4. ASSUME NEW entry \in Entries, PlayerSend(entry)
      PROVE  PlayerTypes'
  BY <1>1, <1>4 DEF PlayerSend, PlayerTypes, playVars, blockVars
<1>5. CASE Return
  <2>1. PlayerReturn
    BY <1>5 DEF Return
  <2> QED
    BY <1>1, <2>1 DEF PlayerReturn, PlayerTypes, playVars, blockVars
<1>6. CASE EndBlock
  <2>1. NewBlock
    BY <1>6 DEF EndBlock
  <2>2. 0 \in 0 .. blockSizeInt /\ Stale \in Int
    BY Blocksize DEF Stale
  <2>3. /\ rendered' \in [Players -> 0 .. blockSizeInt]
        /\ output' \in [Players -> [Samples -> Int]]
    BY <2>1, <2>2 DEF NewBlock
  <2> QED
    BY <1>1, <2>1, <2>3 DEF NewBlock, PlayerTypes, playVars
<1>7. CASE UNCHANGED playerVars
  BY <1>1, <1>7 DEF PlayerTypes, playerVars, playVars, blockVars
<1> QED
  BY <1>2, <1>3, <1>4, <1>5, <1>6, <1>7, WhoChangesPlayers

\* A player that plays or is told to.
LEMMA RunPlayerKeepsPlayers ==
    ASSUME Base, NEW o \in Players \cap patch, PlayerStep(o)
    PROVE  PlayersFine'
PROOF
<1>1. PlayersFine /\ PlayerTypes /\ o # NULL /\ NULL \notin Messages
  BY PlayerAssumption, ContextAssumption DEF Base, Typed
<1>2. ASSUME NEW i \in Samples, Consume(o, i)
      PROVE  PlayersFine'
  <2>1. i \in 0 .. blockSizeInt
    BY Blocksize DEF Samples
  <2>2. /\ ProcessDspWithIndex(o, rendered[o], i) /\ consuming' = o
        /\ phase = "dsp" /\ cascade = "none" /\ cascade' = "direct"
        /\ now' = blockStartTimestamp + i
        /\ UNCHANGED <<blockStartTimestamp, phase, inFlight,
                       outgoingMessage, sending>>
    BY <1>2 DEF Consume
  <2>3. rendered' = [rendered EXCEPT ![o] = i]
        /\ rendered' \in [Players -> 0 .. blockSizeInt]
    BY <2>1, <2>2, ProcessTypes
  <2>4. inFlight = NULL /\ sending = NULL
    BY <1>1, <2>2 DEF PlayersFine
  <2>5. rendered'[o] = i
    BY <1>1, <2>1, <2>3 DEF PlayerTypes
  <2> QED
    BY <1>1, <2>2, <2>4, <2>5 DEF PlayersFine
<1>3. ASSUME Finish(o)
      PROVE  PlayersFine'
  <2>1. /\ phase = "dsp" /\ cascade = "none"
        /\ UNCHANGED <<contextVars, outgoingMessage, sending, consuming>>
    BY <1>3 DEF Finish
  <2>2. consuming = NULL
    BY <1>1, <2>1 DEF PlayersFine
  <2> QED
    BY <1>1, <2>1, <2>2 DEF PlayersFine, contextVars
<1>4. ASSUME NEW s \in Starts, NEW d \in PlayDurations, NEW m \in Messages,
             PlayTable(o, s, d, m)
      PROVE  PlayersFine'
  <2>1. /\ consuming = o
        /\ UNCHANGED <<blockStartTimestamp, phase, cascade, now, inFlight,
                       rendered, sending, consuming>>
    BY <1>4 DEF PlayTable, blockVars
  <2>2. inFlight = NULL /\ sending = NULL
    BY <1>1, <2>1 DEF PlayersFine
  <2> QED
    BY <1>1, <2>1, <2>2 DEF PlayersFine
<1>5. ASSUME NEW t \in Tables \cup {NULL}, SetTable(o, t)
      PROVE  PlayersFine'
  BY <1>1, <1>5 DEF SetTable, PlayersFine, contextVars, playVars, blockVars
<1> QED
  BY <1>2, <1>3, <1>4, <1>5 DEF PlayerStep

\* A message that process() sends is the one of a player that sends it.
LEMMA SendKeepsPlayers ==
    ASSUME Base, NEW entry \in Entries, Send(entry)
    PROVE  PlayersFine'
PROOF
<1>1. PlayersFine /\ PlayerTypes /\ NULL \notin Players
      /\ NULL \notin Messages
  BY PlayerAssumption, ContextAssumption DEF Base, Typed
<1>2. Dispatch(entry)
  BY DEF Send, DelaySend, MetroSend, LineSend, PipeSend, PlayerSend
<1>3. /\ phase = "messages" /\ inFlight = NULL
      /\ sending = NULL /\ consuming = NULL
      /\ entry.object \in Timers => entry.message \in held[entry.object]
      /\ \A p \in Timers : entry.message \in held[p] => p = entry.object
      /\ entry.message \in Messages
  BY <1>2, WhenDispatched
<1>4. /\ UNCHANGED <<blockStartTimestamp, phase>> /\ cascade' = "process"
      /\ inFlight' = entry.message
  BY <1>2 DEF Dispatch
<1>5. /\ outgoingMessage' = outgoingMessage /\ rendered' = rendered
      /\ consuming' = consuming
      /\ \/ entry.object \notin Players /\ sending' = sending
         \/ entry.object \in Players /\ sending' = entry.object
  <2>1. CASE PlayerSend(entry)
    BY <2>1 DEF PlayerSend, playVars, blockVars
  <2>2. CASE ~ PlayerSend(entry)
    <3>1. UNCHANGED playerVars
      BY <2>2 DEF Send
    <3>2. entry.object \notin Players
      BY <2>2, Kinds
         DEF Send, DelaySend, MetroSend, LineSend, PipeSend
    <3> QED
      BY <3>1, <3>2 DEF playerVars, playVars, blockVars
  <2> QED
    BY <2>1, <2>2
<1>6. ASSUME NEW p \in Players
      PROVE  outgoingMessage[p] = entry.message <=> p = entry.object
  <2>1. held[p] = ({outgoingMessage[p]} \ {NULL}) \ {inFlight} /\ p \in Timers
    BY HeldOfKinds, Kinds
  <2>2. entry.message # NULL
    BY <1>1, <1>3
  <2>3. outgoingMessage[p] = entry.message <=> entry.message \in held[p]
    BY <1>3, <2>1, <2>2
  <2> QED
    BY <1>3, <2>1, <2>3
<1> QED
  BY <1>1, <1>3, <1>4, <1>5, <1>6 DEF PlayersFine

LEMMA PlayersFineNext ==
    ASSUME Base, [Next]_vars
    PROVE  PlayersFine'
PROOF
<1>1. PlayersFine
  BY DEF Base
<1>2. ASSUME UNCHANGED <<blockStartTimestamp, phase, cascade, now, inFlight,
                         outgoingMessage, rendered, sending, consuming>>
      PROVE  PlayersFine'
  BY <1>1, <1>2 DEF PlayersFine
<1>3. ASSUME ReceiveDelay \/ ReceiveMetro \/ ReceiveLine \/ ReceivePipe
                 \/ LoopOfPipe
      PROVE  PlayersFine'
  BY <1>2, <1>3, InCascade DEF playerVars, playVars, blockVars
<1>4. ASSUME RunPlayer
      PROVE  PlayersFine'
  BY <1>4, RunPlayerKeepsPlayers DEF RunPlayer
<1>5. ASSUME ResizeTable \/ UNCHANGED vars
      PROVE  PlayersFine'
  BY <1>2, <1>5
     DEF ResizeTable, ResizeBuffer, contextVars, playVars, blockVars, vars,
         playerVars
<1>6. ASSUME NEW entry \in Entries, Send(entry)
      PROVE  PlayersFine'
  BY <1>6, SendKeepsPlayers
<1>7. CASE Return
  <2>1. EndCascade /\ PlayerReturn
    BY <1>7 DEF Return
  <2>2. /\ inFlight' = NULL /\ cascade' = "none" /\ sending' = NULL
        /\ consuming' = NULL
        /\ UNCHANGED <<blockStartTimestamp, phase, rendered>>
    BY <2>1 DEF EndCascade, PlayerReturn, blockVars
  <2> QED
    BY <1>1, <2>2 DEF PlayersFine
<1>8. CASE EndBlock
  <2>1. EndProcess /\ NewBlock
    BY <1>8 DEF EndBlock
  <2>2. /\ cascade = "none" /\ phase' = "idle"
        /\ rendered' = [o \in Players |-> 0]
        /\ UNCHANGED <<cascade, inFlight, outgoingMessage, sending, consuming>>
    BY <2>1 DEF EndProcess, NewBlock, playVars
  <2>3. inFlight = NULL /\ sending = NULL /\ consuming = NULL
    BY <1>1, <2>2 DEF PlayersFine
  <2> QED
    BY <2>2, <2>3 DEF PlayersFine
<1>9. CASE OtherStep
  <2>1. UNCHANGED <<outgoingMessage, rendered, sending, consuming>>
    BY <1>9 DEF OtherStep, playerVars, playVars, blockVars
  <2>2. ASSUME NEW n, NEW t, NEW m, ScheduleExternal(n, t, m)
        PROVE  PlayersFine'
    BY <1>2, <2>1, <2>2 DEF ScheduleExternal
  <2>3. ASSUME NEW t, BeginCascade(t)
        PROVE  PlayersFine'
    <3>1. cascade = "none" /\ cascade' = "direct"
          /\ UNCHANGED <<blockStartTimestamp, phase, inFlight>>
      BY <2>3 DEF BeginCascade
    <3>2. inFlight = NULL /\ sending = NULL /\ consuming = NULL
      BY <1>1, <3>1 DEF PlayersFine
    <3> QED
      BY <1>1, <2>1, <3>1, <3>2 DEF PlayersFine
  <2>4. CASE BeginProcess \/ BeginDsp
    <3>1. /\ cascade = "none" /\ phase' # "idle"
          /\ UNCHANGED <<blockStartTimestamp, cascade, inFlight, now>>
          /\ blockStartTimestamp < MaxBlocks * BlockDuration
          /\ phase' # "dsp" => phase # "dsp"
      BY <1>1, <2>4 DEF BeginProcess, BeginDsp, PlayersFine
    <3>2. inFlight = NULL /\ sending = NULL /\ consuming = NULL
      BY <1>1, <3>1 DEF PlayersFine
    <3> QED
      BY <1>1, <2>1, <3>1, <3>2 DEF PlayersFine
  <2> QED
    BY <1>9, <2>2, <2>3, <2>4 DEF OtherStep
<1> QED
  BY <1>3, <1>4, <1>5, <1>6, <1>7, <1>8, <1>9 DEF Next

-----------------------------------------------------------------------------
(***************************************************************************)
(* The patch implements TimedObjects.                                      *)
(***************************************************************************)

LEMMA BaseNext ==
    ASSUME Base, [Next]_vars
    PROVE  Base'
PROOF
<1>1. [P!Next]_P!vars
  BY NextImplements
<1>2. P!Owned' /\ P!OwnOutlets'
  BY <1>1, TrackersFit, ContextFits, P!OwnedNext, P!OwnOutletsNext DEF Base
<1>3. (patch \subseteq Timers)'
  BY PatchStays DEF Base, Typed
<1>4. Typed'
  BY <1>3, DelayTypesNext, MetroTypesNext, LineTypesNext, PipesFineNext,
     PlayerTypesNext DEF Typed, PipesFine
<1> QED
  BY <1>2, <1>4, PipesFineNext, PlayersFineNext DEF Base, PipesFine

LEMMA BaseInit ==
    ASSUME Init
    PROVE  Base /\ P!Init
PROOF
<1>1. /\ patch \in Patches /\ ContextInit
      /\ NULL \notin Messages /\ NULL \notin Players
  BY ContextAssumption, PlayerAssumption DEF Init
<1>2. DelayTypes
  <2>1. /\ scheduledMessage = [o \in DelayObjects |-> NULL]
        /\ bangedAt = [o \in DelayObjects |-> 0]
    BY DEF Init, DelayInit
  <2>2. /\ delayMs \in [DelayObjects -> Int]
        /\ \A o \in DelayObjects \cap patch : delayMs[o] \in DelayTimes
    <3>1. /\ delayMs \in [DelayObjects -> DelayTimes \cup {0}]
          /\ \A o \in DelayObjects :
                 delayMs[o] \in IF o \in patch THEN DelayTimes ELSE {0}
      BY DEF Init, DelayInit
    <3>2. DelayTimes \cup {0} \subseteq Int
      BY DelayAssumption
    <3>3. delayMs \in [DelayObjects -> Int]
      BY <3>1, <3>2, Zenon
    <3>4. \A o \in DelayObjects \cap patch : delayMs[o] \in DelayTimes
      BY <3>1, Zenon
    <3> QED
      BY <3>3, <3>4, Zenon
  <2> QED
    BY <2>1, <2>2 DEF DelayTypes
<1>3. MetroTypes
  <2>1. /\ pendingMessage = [o \in Metros |-> NULL]
        /\ running = [o \in Metros |-> FALSE]
        /\ nextTick = [o \in Metros |-> 0]
    BY DEF Init, MetroInit
  <2>2. /\ intervalInMs \in [Metros -> Int]
        /\ \A o \in Metros \cap patch : intervalInMs[o] \in Intervals
    <3>1. /\ intervalInMs \in [Metros -> Intervals \cup {0}]
          /\ \A o \in Metros :
                 intervalInMs[o] \in IF o \in patch THEN Intervals ELSE {0}
      BY DEF Init, MetroInit
    <3>2. Intervals \cup {0} \subseteq Int
      BY MetroAssumption
    <3>3. intervalInMs \in [Metros -> Int]
      BY <3>1, <3>2, Zenon
    <3>4. \A o \in Metros \cap patch : intervalInMs[o] \in Intervals
      BY <3>1, Zenon
    <3> QED
      BY <3>3, <3>4, Zenon
  <2> QED
    BY <2>1, <2>2 DEF MetroTypes
<1>4. LineTypes
  <2> DEFINE New == {NewLine(g, v) : g \in Grains, v \in Values}
  <2>1. /\ line = [o \in Lines |-> line[o]]
        /\ \A o \in Lines :
               line[o] \in IF o \in patch THEN New ELSE {NewLine(0, 0)}
    BY DEF Init, LineInit
  <2>2. /\ value = [m \in Messages |-> 0]
        /\ ramp = [o \in Lines |-> [start |-> 0, sent |-> 0, alone |-> FALSE]]
    BY DEF Init, LineInit
  <2>3. \A g, v \in Int : NewLine(g, v) \in LineFields
                          /\ NewLine(g, v).pendingMessage = NULL
                          /\ NewLine(g, v).grainRate = g
    BY DEF NewLine, LineFields
  <2>4. \A k \in New : /\ k \in LineFields /\ k.pendingMessage = NULL
                       /\ k.grainRate \in Grains
    BY <2>3, LineAssumption
  <2>5. /\ NewLine(0, 0) \in LineFields
        /\ NewLine(0, 0).pendingMessage = NULL
    BY <2>3
  <2> HIDE DEF New
  <2>6. /\ line \in [Lines -> LineFields]
        /\ \A o \in Lines \cap patch : line[o].grainRate \in Grains
        /\ \A o \in Lines : line[o].pendingMessage = NULL
    BY <2>1, <2>4, <2>5
  <2>7. /\ value \in [Messages -> Int]
        /\ ramp \in [Lines -> [start : Int, sent : Int, alone : BOOLEAN]]
    BY <2>2
  <2> QED
    BY <2>6, <2>7 DEF LineTypes
<1>5. PipeTypes /\ loops = <<>>
  <2>1. /\ scheduledMessagesList = [o \in Pipes |-> <<>>]
        /\ loops = <<>>
    BY DEF Init, PipeInit
  <2>2. /\ pipeDelayMs \in [Pipes -> Int]
        /\ \A o \in Pipes \cap patch : pipeDelayMs[o] \in PipeDelays
    <3>1. /\ pipeDelayMs \in [Pipes -> PipeDelays \cup {0}]
          /\ \A o \in Pipes :
                 pipeDelayMs[o] \in IF o \in patch THEN PipeDelays ELSE {0}
      BY DEF Init, PipeInit
    <3>2. PipeDelays \cup {0} \subseteq Int
      BY PipeAssumption
    <3>3. pipeDelayMs \in [Pipes -> Int]
      BY <3>1, <3>2, Zenon
    <3>4. \A o \in Pipes \cap patch : pipeDelayMs[o] \in PipeDelays
      BY <3>1, Zenon
    <3> QED
      BY <3>3, <3>4, Zenon
  <2>3. <<>> \in Seq(Messages) /\ <<>> \in Seq(LoopFields)
    BY EmptySeq
  <2> QED
    BY <2>1, <2>2, <2>3 DEF PipeTypes
<1>6. PlayerTypes
  <2>1. PlayerInit(patch)
    BY DEF Init
  <2>2. /\ rendered \in [Players -> 0 .. blockSizeInt]
        /\ output \in [Players -> [Samples -> Int]]
    BY <2>1, Blocksize DEF PlayerInit, Stale
  <2>3. /\ table \in [Players -> Tables \cup {NULL}]
        /\ bufferLength \in [Tables -> Nat]
        /\ Players \cap patch # {} => bufferLength \in [Tables -> Lengths]
    <3>1. \A l \in Lengths : l \in Nat
      BY PlayerAssumption
    <3>2. CASE Players \cap patch = {}
      BY <2>1, <3>2 DEF PlayerInit
    <3>3. CASE Players \cap patch # {}
      BY <2>1, <3>1, <3>3 DEF PlayerInit
    <3> QED
      BY <3>2, <3>3
  <2> QED
    BY <1>1, <2>1, <2>2, <2>3 DEF PlayerInit, PlayerTypes
<1>7. Typed
  BY <1>1, <1>2, <1>3, <1>4, <1>5, <1>6, PatchAssumption DEF Typed
<1>8. /\ \A o \in Pipes : Len(scheduledMessagesList[o]) = 0
      /\ Len(loops) = 0
  BY <1>5, EmptySeq DEF Init, PipeInit
<1>9. LoopsFine /\ ListsApart
  <2>1. \A o \in Pipes : AliveAt(o) = {}
    BY <1>8 DEF AliveAt
  <2> QED
    BY <1>5, <1>8, <2>1 DEF LoopsFine, ListsApart
<1>10. PlayersFine
  BY <1>1 DEF Init, PlayerInit, ContextInit, PlayersFine
<1>11. P!Init
  <2>1. \A o \in Pipes : held[o] = {}
    <3>1. \A o \in Pipes : AliveAt(o) = {}
      BY <1>8 DEF AliveAt
    <3> QED
      BY <3>1, HeldOfKinds DEF Alive
  <2>2. \A o \in DelayObjects : scheduledMessage[o] = NULL
    BY DEF Init, DelayInit
  <2>3. \A o \in Metros : pendingMessage[o] = NULL
    BY DEF Init, MetroInit
  <2>4. \A o \in Players : outgoingMessage[o] = NULL
    BY DEF Init, PlayerInit
  <2>5. \A o \in Lines : line[o].pendingMessage = NULL
    <3>1. \A g, v : NewLine(g, v).pendingMessage = NULL
      BY DEF NewLine
    <3>2. \A o \in Lines : \E g, v : line[o] = NewLine(g, v)
      BY DEF Init, LineInit
    <3> QED
      BY <3>1, <3>2
  <2>6. \A o \in Timers : held[o] = {}
    BY <2>1, <2>2, <2>3, <2>4, <2>5, HeldOfKinds, Kinds
  <2>7. held = [o \in Timers |-> {}]
    BY <2>6, HeldOf
  <2>8. retimed = {}
    BY <1>8, HeldOf DEF BeingSent
  <2> QED
    BY <1>1, <2>7, <2>8 DEF P!Init, ContextInit, P!ContextInit
<1>12. P!Owned
  BY <1>11, TrackersFit, ContextFits, P!OwnedInit
<1>13. P!OwnOutlets
  <2>1. P!EntriesOf(ctx.queue) = {}
    BY <1>1, EmptySeq DEF ContextInit, P!EntriesOf
  <2> QED
    BY <2>1 DEF P!OwnOutlets
<1> QED
  BY <1>7, <1>9, <1>10, <1>11, <1>12, <1>13 DEF Base

\* The invariant holds in every state of the patch.
LEMMA BaseAlways == Spec => []Base
PROOF
<1>1. Init => Base
  BY BaseInit
<1>2. Base /\ [Next]_vars => Base'
  BY BaseNext
<1> QED
  BY <1>1, <1>2, PTL DEF Spec

LEMMA InitImplements ==
    ASSUME Init
    PROVE  Timed!Init
  BY BaseInit DEF P!Init, Timed!Init, P!ContextInit, Timed!ContextInit

\* Whatever the patch does, its context sees objects that cancel only what
\* they have queued, with the outlet it was queued with, and keep no pointer
\* to a message that is gone (scheduleMessage and cancelMessage, and the
\* handlers of delay, metro, line, pipe and tabplay~ that call them).
THEOREM Implements == Spec => IsTimed
PROOF
<1>1. Init => Timed!Init
  BY InitImplements
<1>2. Base /\ [Next]_vars => [Timed!Next]_Timed!vars
  BY NextImplements, SameNext
<1>3. Spec => []Base
  BY BaseAlways
<1> QED
  BY <1>1, <1>2, <1>3, PTL DEF Spec, IsTimed, Timed!Spec

-----------------------------------------------------------------------------
(***************************************************************************)
(* An object that does not act finds what it left.                         *)
(***************************************************************************)

SameDelay(o) ==
    /\ scheduledMessage'[o] = scheduledMessage[o]
    /\ delayMs'[o] = delayMs[o]
    /\ bangedAt'[o] = bangedAt[o]

SameMetro(o) ==
    /\ pendingMessage'[o] = pendingMessage[o]
    /\ intervalInMs'[o] = intervalInMs[o]
    /\ running'[o] = running[o]
    /\ nextTick'[o] = nextTick[o]

SameLine(o) == line'[o] = line[o] /\ ramp'[o] = ramp[o]

SamePipe(o) ==
    /\ scheduledMessagesList'[o] = scheduledMessagesList[o]
    /\ AliveAt(o)' = AliveAt(o)

SameFields(o) ==
    /\ o \in DelayObjects => SameDelay(o)
    /\ o \in Metros => SameMetro(o)
    /\ o \in Lines => SameLine(o)
    /\ o \in Pipes => SamePipe(o)

LEMMA UntouchedFields ==
    ASSUME NEW o
    PROVE  /\ UNCHANGED delayVars => SameDelay(o)
           /\ UNCHANGED metroVars => SameMetro(o)
           /\ UNCHANGED lineVars => SameLine(o)
           /\ UNCHANGED <<scheduledMessagesList, loops>> => SamePipe(o)
  BY DEF delayVars, metroVars, lineVars, SameDelay, SameMetro, SameLine,
         SamePipe, AliveAt

\* A handler writes the fields of its own object.
LEMMA OtherDelays ==
    ASSUME Base, NEW p \in DelayObjects, NEW o \in DelayObjects \ {p},
           \/ DelayStep(p)
           \/ \E entry \in Entries : entry.object = p /\ DelaySend(entry)
    PROVE  SameDelay(o)
  BY DEF Base, Typed, DelayTypes, DelayStep, DelayBang, DelayStop, SetDelay,
         DelaySend, SameDelay

LEMMA OtherMetros ==
    ASSUME Base, NEW p \in Metros, NEW o \in Metros \ {p},
           \/ MetroStep(p)
           \/ \E entry \in Entries : entry.object = p /\ MetroSend(entry)
    PROVE  SameMetro(o)
  BY DEF Base, Typed, MetroTypes, MetroStep, StartMetro, StopMetro,
         SetInterval, MetroSend, Tick, SameMetro

LEMMA OtherLines ==
    ASSUME Base, NEW p \in Lines, NEW o \in Lines \ {p},
           \/ LineStep(p)
           \/ \E entry \in Entries : entry.object = p /\ LineSend(entry)
    PROVE  SameLine(o)
PROOF
<1>1. line \in [Lines -> LineFields]
      /\ ramp \in [Lines -> [start : Int, sent : Int, alone : BOOLEAN]]
  BY DEF Base, Typed, LineTypes
<1>2. ASSUME NEW c, NEW l, NEW w, NEW t, NEW v, SendRamp(p, c, l, w, t, v)
      PROVE  line'[o] = line[o]
  <2>1. PICK k : line' = [line EXCEPT ![p] = k]
    BY <1>2, Zenon DEF SendRamp
  <2> QED
    BY <1>1, <2>1
<1>3. ASSUME NEW v, Jump(p, v)
      PROVE  SameLine(o)
  BY <1>1, <1>2, <1>3 DEF Jump, SameLine
<1>4. ASSUME NEW v, SetValue(p, v)
      PROVE  SameLine(o)
  BY <1>1, <1>4 DEF SetValue, SameLine
<1>5. ASSUME NEW v, NEW d, Ramp(p, v, d)
      PROVE  SameLine(o)
  <2>1. line'[o] = line[o]
    <3>1. CASE \E c, l, w, t, x : SendRamp(p, c, l, w, t, x)
      BY <1>2, <3>1
    <3>2. CASE \E k : line' = [line EXCEPT ![p] = k]
      BY <1>1, <3>2
    <3> QED
      BY <1>5, <3>1, <3>2, Zenon DEF Ramp
  <2>2. \E r : ramp' = [ramp EXCEPT ![p] = r]
    BY <1>5, Zenon DEF Ramp
  <2> QED
    BY <1>1, <2>1, <2>2 DEF SameLine
<1>6. ASSUME StopRamp(p)
      PROVE  SameLine(o)
  BY <1>1, <1>6 DEF StopRamp, SameLine
<1>7. ASSUME NEW g, SetGrain(p, g)
      PROVE  SameLine(o)
  BY <1>1, <1>7 DEF SetGrain, SameLine
<1>8. ASSUME NEW entry \in Entries, entry.object = p, LineSend(entry)
      PROVE  SameLine(o)
  BY <1>1, <1>2, <1>8 DEF LineSend, SameLine
<1> QED
  BY <1>3, <1>4, <1>5, <1>6, <1>7, <1>8 DEF LineStep

LEMMA OtherPipes ==
    ASSUME Base, NEW p \in Pipes, NEW o \in Pipes \ {p},
           \/ PipeStep(p)
           \/ PipeLoops /\ Last(loops).pipe = p
           \/ \E entry \in Entries : entry.object = p /\ PipeSend(entry)
    PROVE  SamePipe(o)
PROOF
<1>1. scheduledMessagesList \in [Pipes -> Seq(Messages)] /\ Typed /\ LoopsFine
  BY DEF Base, Typed, PipeTypes
<1>2. ASSUME NEW m, NEW d, Put(p, m, d)
      PROVE  SamePipe(o)
  <2>1. loops' = loops
        /\ scheduledMessagesList'[o] = scheduledMessagesList[o]
    BY <1>1, <1>2 DEF Put
  <2> QED
    BY <2>1 DEF SamePipe, AliveAt
<1>3. ASSUME NEW d, SetPipeDelay(p, d)
      PROVE  SamePipe(o)
  BY <1>3, UntouchedFields DEF SetPipeDelay
<1>4. ASSUME NEW sends \in BOOLEAN, Loop(p, sends)
      PROVE  SamePipe(o)
  <2> DEFINE loop == [pipe |-> p, sends |-> sends, at |-> 1, sent |-> FALSE]
  <2>1. loop \in LoopFields /\ loop.at = 1 /\ loop.sent = FALSE
    BY DEF LoopFields
  <2>2. /\ loops' = Append(loops, loop)
        /\ scheduledMessagesList' = scheduledMessagesList
    BY <1>4 DEF Loop
  <2> HIDE DEF loop
  <2>3. AliveAt(o)' = AliveAt(o)
    BY <1>1, <2>1, <2>2, LoopPointers
  <2> QED
    BY <2>2, <2>3 DEF SamePipe
<1>5. ASSUME loops # <<>>, Last(loops).pipe = p, NEW loop \in LoopFields,
             loop.pipe = p, loops' = Append(Front(loops), loop),
             UNCHANGED scheduledMessagesList
      PROVE  SamePipe(o)
  <2>1. AliveAt(o)' = AliveAt(o)
    BY <1>1, <1>5, LoopMoves
  <2> QED
    BY <1>5, <2>1 DEF SamePipe
<1>6. ASSUME LoopSend, Last(loops).pipe = p
      PROVE  SamePipe(o)
  <2> DEFINE l == Last(loops)
             k == [l EXCEPT !.sent = TRUE]
  <2>1. loops # <<>> /\ l \in LoopFields
    BY <1>1, <1>6, LastLoop DEF LoopSend
  <2>2. /\ loops' = Append(Front(loops), k)
        /\ scheduledMessagesList' = scheduledMessagesList
    BY <1>6 DEF LoopSend
  <2> HIDE DEF l
  <2>3. k \in LoopFields /\ k.pipe = l.pipe
    BY <2>1 DEF LoopFields
  <2> HIDE DEF k
  <2> QED
    BY <1>5, <1>6, <2>1, <2>2, <2>3 DEF l
<1>7. ASSUME LoopCancel, Last(loops).pipe = p
      PROVE  SamePipe(o)
  <2> DEFINE l == Last(loops)
             k == [l EXCEPT !.at = @ + 1, !.sent = FALSE]
  <2>1. loops # <<>> /\ l \in LoopFields
    BY <1>1, <1>7, LastLoop DEF LoopCancel
  <2>2. /\ loops' = Append(Front(loops), k)
        /\ scheduledMessagesList' = scheduledMessagesList
    BY <1>7 DEF LoopCancel
  <2> HIDE DEF l
  <2>3. k \in LoopFields /\ k.pipe = l.pipe
    BY <2>1, LoopGoesOn, Zenon
  <2> HIDE DEF k
  <2> QED
    BY <1>5, <1>7, <2>1, <2>2, <2>3 DEF l
<1>8. ASSUME LoopEnd, Last(loops).pipe = p
      PROVE  SamePipe(o)
  <2> DEFINE n == Len(loops)
  <2>1. /\ loops # <<>> /\ loops' = Front(loops)
        /\ scheduledMessagesList'[o] = scheduledMessagesList[o]
    BY <1>1, <1>8 DEF LoopEnd
  <2>2. n \in Nat \ {0} /\ loops[n].pipe = p
    BY <1>1, <1>8, <2>1, LastLoop
  <2>3. /\ Len(loops') = n - 1
        /\ \A i \in 1 .. n - 1 : loops'[i] = loops[i]
    BY <1>1, <2>1, LastRemoved DEF Typed, PipeTypes
  <2> HIDE DEF n
  <2>4. ASSUME NEW k
        PROVE  (\A i \in 1 .. n : loops[i].pipe = o => k >= loops[i].at)
               <=> (\A i \in 1 .. n - 1 : loops'[i].pipe = o => k >= loops'[i].at)
    BY <2>2, <2>3
  <2>5. AliveAt(o)' = AliveAt(o)
    BY <2>1, <2>3, <2>4 DEF AliveAt, n
  <2> QED
    BY <2>1, <2>5 DEF SamePipe
<1>9. ASSUME NEW entry \in Entries, entry.object = p, PipeSend(entry)
      PROVE  SamePipe(o)
  <2>1. /\ loops = <<>> /\ loops' = <<>>
        /\ scheduledMessagesList'[o] = scheduledMessagesList[o]
    BY <1>9, PipeSendPointers
  <2> QED
    BY <2>1, NoLoops DEF SamePipe
<1> QED
  BY <1>2, <1>3, <1>4, <1>6, <1>7, <1>8, <1>9 DEF PipeStep, PipeLoops

\* The steps that a timed object sees another take.
LEMMA StepsOfOthers ==
    ASSUME NEW o \in Timers
    PROVE  /\ \A p \in Timers : p # o /\ Step(p) => P!StepOfOthers(o)
           /\ \A entry \in Entries :
                  entry.object # o /\ Sent(entry) => P!StepOfOthers(o)
           /\ Between => P!StepOfOthers(o)
           /\ P!Return => P!StepOfOthers(o)
           /\ UNCHANGED P!vars => P!StepOfOthers(o)
PROOF
<1>1. ASSUME NEW p \in Timers, p # o, Step(p)
      PROVE  P!StepOfOthers(o)
  BY <1>1 DEF Step, P!StepOfOthers
<1>2. ASSUME NEW entry \in Entries, entry.object # o, Sent(entry)
      PROVE  P!StepOfOthers(o)
  BY <1>2, SameSmall DEF Sent, P!StepOfOthers
<1>3. Between => P!StepOfOthers(o)
  BY DEF Between, P!StepOfOthers
<1>4. P!Return => P!StepOfOthers(o)
  BY DEF P!StepOfOthers
<1>5. UNCHANGED P!vars => P!StepOfOthers(o)
  BY DEF P!StepOfOthers
<1> QED
  BY <1>1, <1>2, <1>3, <1>4, <1>5

\* The object o acts: one of its handlers, or a message that it sends.
Acts(o) ==
    \/ o \in DelayObjects \cap patch /\ DelayStep(o) /\ ReceiveDelay
    \/ o \in Metros \cap patch /\ MetroStep(o) /\ ReceiveMetro
    \/ o \in Lines \cap patch /\ LineStep(o) /\ ReceiveLine
    \/ o \in Pipes \cap patch /\ PipeStep(o) /\ ReceivePipe
    \/ Last(loops).pipe = o /\ LoopOfPipe
    \/ o \in Players \cap patch /\ PlayerStep(o) /\ RunPlayer
    \/ \E entry \in Entries : entry.object = o /\ Send(entry)

LEMMA SendOfOthers ==
    ASSUME Base, NEW o \in Timers, NEW entry \in Entries, entry.object # o,
           Send(entry)
    PROVE  SameFields(o)
PROOF
<1>1. CASE DelaySend(entry)
              /\ UNCHANGED <<metroVars, lineVars, pipeVars, playerVars>>
  <2>1. entry.object \in DelayObjects
    BY <1>1 DEF DelaySend
  <2> QED
    BY <1>1, <2>1, OtherDelays, UntouchedFields DEF SameFields, pipeVars
<1>2. CASE MetroSend(entry)
              /\ UNCHANGED <<delayVars, lineVars, pipeVars, playerVars>>
  <2>1. entry.object \in Metros
    BY <1>2 DEF MetroSend
  <2> QED
    BY <1>2, <2>1, OtherMetros, UntouchedFields DEF SameFields, pipeVars
<1>3. CASE LineSend(entry)
              /\ UNCHANGED <<delayVars, metroVars, pipeVars, playerVars>>
  <2>1. entry.object \in Lines
    BY <1>3 DEF LineSend
  <2> QED
    BY <1>3, <2>1, OtherLines, UntouchedFields DEF SameFields, pipeVars
<1>4. CASE PipeSend(entry)
              /\ UNCHANGED <<delayVars, metroVars, lineVars, playerVars>>
  <2>1. entry.object \in Pipes
    BY <1>4 DEF PipeSend
  <2> QED
    BY <1>4, <2>1, OtherPipes, UntouchedFields DEF SameFields
<1>5. CASE UNCHANGED <<delayVars, metroVars, lineVars, pipeVars>>
  BY <1>5, UntouchedFields DEF SameFields, pipeVars
<1> QED
  BY <1>1, <1>2, <1>3, <1>4, <1>5 DEF Send

LEMMA ActsOrNot ==
    ASSUME Base, [Next]_vars, NEW o \in Timers
    PROVE  Acts(o) \/ (P!StepOfOthers(o) /\ SameFields(o))
PROOF
<1>1. CASE ReceiveDelay
  <2>1. PICK p \in DelayObjects \cap patch : DelayStep(p)
    BY <1>1 DEF ReceiveDelay
  <2>2. UNCHANGED <<metroVars, lineVars, pipeVars, playerVars>>
    BY <1>1 DEF ReceiveDelay
  <2>3. Step(p)
    BY <2>1, <2>2, DelayStepIsStep
  <2>4. CASE p # o
    BY <2>1, <2>2, <2>3, <2>4, Kinds, StepsOfOthers, OtherDelays,
       UntouchedFields DEF SameFields, pipeVars
  <2> QED
    BY <1>1, <2>1, <2>4 DEF Acts
<1>2. CASE ReceiveMetro
  <2>1. PICK p \in Metros \cap patch : MetroStep(p)
    BY <1>2 DEF ReceiveMetro
  <2>2. UNCHANGED <<delayVars, lineVars, pipeVars, playerVars>>
    BY <1>2 DEF ReceiveMetro
  <2>3. Step(p)
    BY <2>1, <2>2, MetroStepIsStep
  <2>4. CASE p # o
    BY <2>1, <2>2, <2>3, <2>4, Kinds, StepsOfOthers, OtherMetros,
       UntouchedFields DEF SameFields, pipeVars
  <2> QED
    BY <1>2, <2>1, <2>4 DEF Acts
<1>3. CASE ReceiveLine
  <2>1. PICK p \in Lines \cap patch : LineStep(p)
    BY <1>3 DEF ReceiveLine
  <2>2. UNCHANGED <<delayVars, metroVars, pipeVars, playerVars>>
    BY <1>3 DEF ReceiveLine
  <2>3. Step(p)
    BY <2>1, <2>2, LineStepIsStep
  <2>4. CASE p # o
    BY <2>1, <2>2, <2>3, <2>4, Kinds, StepsOfOthers, OtherLines,
       UntouchedFields DEF SameFields, pipeVars
  <2> QED
    BY <1>3, <2>1, <2>4 DEF Acts
<1>4. CASE ReceivePipe
  <2>1. PICK p \in Pipes \cap patch : PipeStep(p)
    BY <1>4 DEF ReceivePipe
  <2>2. UNCHANGED <<delayVars, metroVars, lineVars, playerVars>>
    BY <1>4 DEF ReceivePipe
  <2>3. Step(p)
    BY <2>1, <2>2, PipeStepIsStep
  <2>4. CASE p # o
    BY <2>1, <2>2, <2>3, <2>4, Kinds, StepsOfOthers, OtherPipes,
       UntouchedFields DEF SameFields
  <2> QED
    BY <1>4, <2>1, <2>4 DEF Acts
<1>5. CASE LoopOfPipe
  <2> SUFFICES ASSUME NEW l, l = Last(loops), NEW p, p = l.pipe
               PROVE  Acts(o) \/ (P!StepOfOthers(o) /\ SameFields(o))
    OBVIOUS
  <2>1. PipeLoops /\ UNCHANGED <<delayVars, metroVars, lineVars, playerVars>>
    BY <1>5 DEF LoopOfPipe
  <2>2. p \in Pipes /\ p \in Timers /\ Step(p)
    BY <2>1, PipeLoopsIsStep
  <2>3. CASE p # o
    BY <2>1, <2>2, <2>3, Kinds, StepsOfOthers, OtherPipes, UntouchedFields
       DEF SameFields
  <2> QED
    BY <1>5, <2>3 DEF Acts
<1>6. CASE RunPlayer
  <2>1. PICK p \in Players \cap patch : PlayerStep(p)
    BY <1>6 DEF RunPlayer
  <2>2. UNCHANGED <<delayVars, metroVars, lineVars, pipeVars>>
    BY <1>6 DEF RunPlayer
  <2>3. Step(p) \/ Between
    BY <2>1, <2>2, PlayerStepIsStep DEF Between
  <2>4. CASE p # o
    BY <2>1, <2>2, <2>3, <2>4, Kinds, StepsOfOthers, UntouchedFields
       DEF SameFields, pipeVars
  <2> QED
    BY <1>6, <2>1, <2>4 DEF Acts
<1>7. ASSUME UNCHANGED <<delayVars, metroVars, lineVars, pipeVars>>,
             \/ Between
             \/ UNCHANGED P!vars
      PROVE  P!StepOfOthers(o) /\ SameFields(o)
  BY <1>7, StepsOfOthers, UntouchedFields DEF SameFields, pipeVars
<1>8. CASE ResizeTable
  BY <1>7, <1>8, ResizeIsUnseen DEF ResizeTable
<1>9. ASSUME NEW entry \in Entries, Send(entry), entry.object # o
      PROVE  P!StepOfOthers(o) /\ SameFields(o)
  BY <1>9, SendOfOthers, SendIsSent, StepsOfOthers
<1>10. CASE Return
  <2>1. P!StepOfOthers(o)
    BY <1>10, Returns, StepsOfOthers
  <2>2. /\ UNCHANGED <<delayVars, metroVars, pipeVars>>
        /\ line' = line /\ ramp' = ramp
    BY <1>10 DEF Return, LineReturn
  <2> QED
    BY <2>1, <2>2, UntouchedFields DEF SameFields, SameLine, pipeVars
<1>11. CASE EndBlock
  BY <1>7, <1>11, EndBlockIsBetween DEF EndBlock
<1>12. CASE OtherStep
  BY <1>7, <1>12, OtherStepIsBetween DEF OtherStep
<1>13. CASE UNCHANGED vars
  BY <1>7, <1>13, StutterIsUnseen DEF vars
<1>14. CASE \E entry \in Entries : Send(entry)
  BY <1>9, <1>14 DEF Acts
<1> QED
  BY <1>1, <1>2, <1>3, <1>4, <1>5, <1>6, <1>8, <1>10, <1>11, <1>12, <1>13,
     <1>14 DEF Next

\* What an object that does not act has in the queue stays as it is.
LEMMA KeepsWhatItHas ==
    ASSUME Base, NEW o \in Timers, P!StepOfOthers(o)
    PROVE  /\ held'[o] = held[o]
           /\ \A m \in held[o] :
                  /\ ctx'.timestamp[m] = ctx.timestamp[m]
                  /\ \A n \in held[o] : P!Before(ctx.queue, m, n)
                                            => P!Before(ctx'.queue, m, n)
                  /\ m \in retimed' <=> m \in retimed
PROOF
<1>1. P!KeptOf(o)
  BY TrackersFit, ContextFits, P!OthersKeep DEF Base
<1> QED
  BY <1>1 DEF P!KeptOf

\* Who it is that acts.
LEMMA ActsOfKinds ==
    ASSUME Base, NEW o \in Timers, Acts(o)
    PROVE  /\ o \in DelayObjects =>
                  \/ DelayStep(o)
                  \/ \E entry \in Entries : entry.object = o /\ DelaySend(entry)
           /\ o \in Metros =>
                  \/ MetroStep(o)
                  \/ \E entry \in Entries : entry.object = o /\ MetroSend(entry)
           /\ o \in Lines =>
                  \/ o \in patch /\ LineStep(o)
                  \/ \E entry \in Entries :
                         /\ entry.object = o
                         /\ LineSend(entry)
                         /\ UNCHANGED <<delayVars, metroVars, pipeVars,
                                        playerVars>>
           /\ o \in Pipes =>
                  \/ o \in patch /\ PipeStep(o) /\ ReceivePipe
                  \/ Last(loops).pipe = o /\ LoopOfPipe
                  \/ \E entry \in Entries :
                         /\ entry.object = o
                         /\ PipeSend(entry)
                         /\ UNCHANGED <<delayVars, metroVars, lineVars,
                                        playerVars>>
           /\ o \in Players =>
                  \/ o \in patch /\ PlayerStep(o) /\ RunPlayer
                  \/ \E entry \in Entries :
                         /\ entry.object = o
                         /\ PlayerSend(entry)
PROOF
<1>1. Last(loops).pipe = o /\ LoopOfPipe => o \in Pipes
  <2> SUFFICES ASSUME NEW l, l = Last(loops), l.pipe = o, LoopOfPipe
               PROVE  o \in Pipes
    OBVIOUS
  <2> QED
    BY PipeLoopsIsStep DEF LoopOfPipe
<1>2. ASSUME NEW entry \in Entries, entry.object = o, Send(entry)
      PROVE  /\ o \in DelayObjects => DelaySend(entry)
             /\ o \in Metros => MetroSend(entry)
             /\ o \in Lines =>
                    /\ LineSend(entry)
                    /\ UNCHANGED <<delayVars, metroVars, pipeVars, playerVars>>
             /\ o \in Pipes =>
                    /\ PipeSend(entry)
                    /\ UNCHANGED <<delayVars, metroVars, lineVars, playerVars>>
             /\ o \in Players => PlayerSend(entry)
  <2>1. o # SendController
    BY Kinds
  <2> QED
    BY <1>2, <2>1, Kinds
       DEF Send, DelaySend, MetroSend, LineSend, PipeSend, PlayerSend
<1> QED
  BY <1>1, <1>2, Kinds DEF Acts

\* The time that a message is scheduled for.
IsContext(c) == c = [f \in {"queue", "live", "timestamp"} |-> c[f]]

LEMMA ContextRecord ==
    ASSUME Base
    PROVE  IsContext(ctx)
PROOF
<1>1. ctx = [queue |-> ctx.queue, live |-> ctx.live,
             timestamp |-> ctx.timestamp]
  BY DEF Base, P!Owned, P!TypeOK, P!ContextTypeOK
<1> QED
  BY <1>1 DEF IsContext

LEMMA StaysContext ==
    ASSUME NEW c, IsContext(c), NEW q, NEW l, NEW t, NEW m
    PROVE  /\ IsContext([c EXCEPT !.queue = q])
           /\ IsContext(FreeMessage(c, m))
           /\ IsContext(SetTimestamp(c, m, t))
PROOF
<1>1. IsContext([c EXCEPT !.queue = q])
  BY DEF IsContext
<1>2. IsContext(FreeMessage(c, m))
  BY DEF IsContext, FreeMessage
<1>3. IsContext(SetTimestamp(c, m, t))
  BY DEF IsContext, SetTimestamp
<1> QED
  BY <1>1, <1>2, <1>3

LEMMA TimeOfScheduled ==
    ASSUME NEW c, IsContext(c), NEW o, NEW n, NEW m \in Messages, NEW time
    PROVE  ScheduleMessage(c, o, n, m, time).timestamp[m] = time
  BY DEF IsContext, ScheduleMessage, SetTimestamp

LEMMA ScheduledInPlace ==
    ASSUME Base, NEW o, NEW n, NEW x, NEW m \in Messages, NEW time,
           ctx' = ScheduleMessage(CancelMessage(ctx, o, n, x), o, n, m, time)
    PROVE  ctx'.timestamp[m] = time
PROOF
<1>1. IsContext(CancelMessage(ctx, o, n, x))
  BY ContextRecord, StaysContext DEF CancelMessage
<1> QED
  BY <1>1, TimeOfScheduled

LEMMA ScheduledWhenSent ==
    ASSUME Base, NEW o, NEW n, NEW entry, NEW m \in Messages, NEW time,
           ctx' = ScheduleMessage(Popped(entry), o, n, m, time)
    PROVE  ctx'.timestamp[m] = time
PROOF
<1>1. IsContext(Popped(entry))
  BY ContextRecord, StaysContext DEF Popped
<1> QED
  BY <1>1, TimeOfScheduled

-----------------------------------------------------------------------------
(***************************************************************************)
(* [delay]                                                                 *)
(***************************************************************************)

DelayFine ==
    \A o \in DelayObjects :
        scheduledMessage[o] # NULL =>
            ctx.timestamp[scheduledMessage[o]] = bangedAt[o] + delayMs[o]

LEMMA DelayFineNext ==
    ASSUME Base, DelayFine, [Next]_vars
    PROVE  DelayFine'
PROOF
<1> SUFFICES ASSUME NEW o \in DelayObjects, scheduledMessage'[o] # NULL
             PROVE  ctx'.timestamp[scheduledMessage'[o]]
                        = bangedAt'[o] + delayMs'[o]
  BY DEF DelayFine
<1>1. /\ o \in Timers
      /\ held[o] = {scheduledMessage[o]} \ {NULL}
      /\ scheduledMessage \in [DelayObjects -> Messages \cup {NULL}]
      /\ bangedAt \in [DelayObjects -> Int]
  BY Kinds, HeldOfKinds DEF Base, Typed, DelayTypes
<1>2. CASE P!StepOfOthers(o) /\ SameFields(o)
  <2>1. SameDelay(o)
    BY <1>2 DEF SameFields
  <2>2. scheduledMessage[o] \in held[o]
    BY <1>1, <2>1 DEF SameDelay
  <2>3. ctx'.timestamp[scheduledMessage[o]] = ctx.timestamp[scheduledMessage[o]]
    BY <1>1, <1>2, <2>2, KeepsWhatItHas
  <2> QED
    BY <1>1, <2>1, <2>2, <2>3 DEF SameDelay, DelayFine
<1>3. ASSUME NEW m \in Messages, DelayBang(o, m)
      PROVE  ctx'.timestamp[scheduledMessage'[o]] = bangedAt'[o] + delayMs'[o]
  <2>1. ctx'.timestamp[m] = now + delayMs[o]
    BY <1>3, ScheduledInPlace DEF DelayBang, CancelScheduled
  <2>2. scheduledMessage'[o] = m /\ bangedAt'[o] = now /\ delayMs' = delayMs
    BY <1>1, <1>3 DEF DelayBang
  <2> QED
    BY <2>1, <2>2
<1>4. ~ DelayStop(o) /\ \A d : ~ SetDelay(o, d)
  BY <1>1 DEF DelayStop, SetDelay
<1>5. ASSUME NEW entry \in Entries, entry.object = o, DelaySend(entry)
      PROVE  FALSE
  <2>1. entry.message \in held[o]
    BY <1>1, <1>5, WhenDispatched DEF DelaySend
  <2>2. scheduledMessage[o] = entry.message
    BY <1>1, <2>1
  <2> QED
    BY <1>1, <1>5, <2>2 DEF DelaySend
<1>6. CASE Acts(o)
  BY <1>1, <1>3, <1>4, <1>5, <1>6, ActsOfKinds DEF DelayStep
<1> QED
  BY <1>1, <1>2, <1>6, ActsOrNot

\* A message in the queue is one that its object has the pointer to.
LEMMA QueuedOfTimers ==
    ASSUME Base, NEW o \in Timers, NEW i \in 1 .. Len(ctx.queue),
           ctx.queue[i].object = o
    PROVE  ctx.queue[i].message \in held[o]
PROOF
<1>1. ctx.queue[i] \in P!EntriesOf(ctx.queue)
  BY DEF P!EntriesOf
<1> QED
  BY <1>1, TrackersFit, ContextFits, P!EntriesAreHeld DEF Base

\* A pending bang is due the delay after the last bang received: a new delay
\* or a second bang leaves no message of the old one (MessageDelay::process-
\* Message, cancelScheduledMessageIfExists).
THEOREM BangIsDue == Spec => []DueAfterLastBang
PROOF
<1>1. Init => Base /\ DelayFine
  BY BaseInit DEF DelayFine, Init, DelayInit
<1>2. Base /\ DelayFine /\ [Next]_vars => Base' /\ DelayFine'
  BY BaseNext, DelayFineNext
<1>3. Base /\ DelayFine => DueAfterLastBang
  <2> SUFFICES ASSUME Base, DelayFine, NEW o \in DelayObjects,
                      NEW i \in 1 .. Len(ctx.queue), ctx.queue[i].object = o
               PROVE  ctx.timestamp[ctx.queue[i].message]
                          = bangedAt[o] + delayMs[o]
    BY DEF DueAfterLastBang
  <2>1. ctx.queue[i].message \in held[o]
    BY Kinds, QueuedOfTimers
  <2>2. scheduledMessage[o] # NULL /\ ctx.queue[i].message = scheduledMessage[o]
    BY <2>1, HeldOfKinds
  <2> QED
    BY <2>2 DEF DelayFine
<1> QED
  BY <1>1, <1>2, <1>3, PTL DEF Spec

-----------------------------------------------------------------------------
(***************************************************************************)
(* [metro]                                                                 *)
(***************************************************************************)

MetroFine ==
    \A o \in Metros :
        /\ running[o] <=> pendingMessage[o] # NULL
        /\ running[o] => ctx.timestamp[pendingMessage[o]] = nextTick[o]

LEMMA MetroFineNext ==
    ASSUME Base, MetroFine, [Next]_vars
    PROVE  MetroFine'
PROOF
<1> SUFFICES ASSUME NEW o \in Metros
             PROVE  /\ running'[o] <=> pendingMessage'[o] # NULL
                    /\ running'[o] => ctx'.timestamp[pendingMessage'[o]]
                                          = nextTick'[o]
  BY DEF MetroFine
<1>1. /\ o \in Timers
      /\ held[o] = {pendingMessage[o]} \ {NULL}
      /\ pendingMessage \in [Metros -> Messages \cup {NULL}]
      /\ running \in [Metros -> BOOLEAN]
      /\ nextTick \in [Metros -> Int]
      /\ NULL \notin Messages
  BY Kinds, HeldOfKinds, ContextAssumption DEF Base, Typed, MetroTypes
<1>2. CASE P!StepOfOthers(o) /\ SameFields(o)
  <2>1. SameMetro(o)
    BY <1>2 DEF SameFields
  <2>2. CASE running[o]
    <3>1. pendingMessage[o] \in held[o]
      BY <1>1, <2>2 DEF MetroFine
    <3>2. ctx'.timestamp[pendingMessage[o]] = ctx.timestamp[pendingMessage[o]]
      BY <1>1, <1>2, <3>1, KeepsWhatItHas
    <3> QED
      BY <2>1, <3>2 DEF SameMetro, MetroFine
  <2>3. CASE ~ running[o]
    BY <2>1, <2>3 DEF SameMetro, MetroFine
  <2> QED
    BY <2>2, <2>3
<1>3. ASSUME NEW m \in Messages, StartMetro(o, m)
      PROVE  /\ running'[o] <=> pendingMessage'[o] # NULL
             /\ ctx'.timestamp[pendingMessage'[o]] = nextTick'[o]
  <2>1. ctx'.timestamp[m] = now + intervalInMs[o]
    BY <1>3, ScheduledInPlace DEF StartMetro, Tick, CancelTick
  <2>2. /\ pendingMessage'[o] = m /\ nextTick'[o] = now + intervalInMs[o]
        /\ running'[o]
    BY <1>1, <1>3 DEF StartMetro, Tick
  <2> QED
    BY <1>1, <2>1, <2>2
<1>4. ASSUME StopMetro(o)
      PROVE  pendingMessage'[o] = NULL /\ ~ running'[o]
  BY <1>1, <1>4 DEF StopMetro
<1>5. ASSUME NEW i, SetInterval(o, i)
      PROVE  UNCHANGED <<ctx, pendingMessage, running, nextTick>>
  BY <1>5 DEF SetInterval, contextVars
<1>6. ASSUME NEW entry \in Entries, entry.object = o, MetroSend(entry)
      PROVE  /\ running'[o] <=> pendingMessage'[o] # NULL
             /\ ctx'.timestamp[pendingMessage'[o]] = nextTick'[o]
  <2>1. entry.message \in held[o]
    BY <1>1, <1>6, WhenDispatched DEF MetroSend
  <2>2. running[o] /\ running' = running
    BY <1>1, <1>6, <2>1 DEF MetroFine, MetroSend
  <2>3. PICK m \in Messages : Tick(o, Popped(entry), now', m)
    BY <1>6 DEF MetroSend
  <2>4. ctx'.timestamp[m] = now' + intervalInMs[o]
    BY <2>3, ScheduledWhenSent DEF Tick
  <2>5. pendingMessage'[o] = m /\ nextTick'[o] = now' + intervalInMs[o]
    BY <1>1, <2>3 DEF Tick
  <2> QED
    BY <1>1, <2>2, <2>4, <2>5
<1>7. CASE Acts(o)
  <2>1. CASE MetroStep(o)
    BY <1>3, <1>4, <1>5, <2>1 DEF MetroStep, MetroFine
  <2> QED
    BY <1>1, <1>6, <1>7, <2>1, ActsOfKinds
<1> QED
  BY <1>1, <1>2, <1>7, ActsOrNot

\* A metro that runs has exactly one tick ahead of it, an interval after the
\* last; one that was stopped has none (MessageMetro::startMetro, stopMetro,
\* sendMessage).
THEOREM OneTickIsAhead == Spec => []OneTickAhead
PROOF
<1>1. Init => Base /\ MetroFine
  BY BaseInit DEF MetroFine, Init, MetroInit
<1>2. Base /\ MetroFine /\ [Next]_vars => Base' /\ MetroFine'
  BY BaseNext, MetroFineNext
<1>3. Base /\ MetroFine => OneTickAhead
  <2> SUFFICES ASSUME Base, MetroFine, NEW o \in Metros,
                      NEW ticks, ticks = {i \in 1 .. Len(ctx.queue) :
                                              ctx.queue[i].object = o}
               PROVE  IF running[o]
                      THEN \E i \in ticks :
                               /\ ticks = {i}
                               /\ ctx.timestamp[ctx.queue[i].message]
                                      = nextTick[o]
                      ELSE ticks = {}
    BY DEF OneTickAhead
  <2>1. /\ o \in Timers
        /\ held[o] = {pendingMessage[o]} \ {NULL}
    BY Kinds, HeldOfKinds
  <2>2. \A i \in ticks : ctx.queue[i].message \in held[o]
    BY <2>1, QueuedOfTimers
  <2>3. CASE running[o]
    <3>1. pendingMessage[o] \in held[o]
      BY <2>1, <2>3 DEF MetroFine
    <3>2. P!Entry(o, TimedOutlet[o], pendingMessage[o])
              \in P!EntriesOf(ctx.queue)
      BY <2>1, <3>1, TrackersFit, ContextFits, P!HeldApart DEF Base
    <3>3. PICK i \in 1 .. Len(ctx.queue) :
              ctx.queue[i] = P!Entry(o, TimedOutlet[o], pendingMessage[o])
      BY <3>2 DEF P!EntriesOf
    <3>4. i \in ticks /\ ctx.queue[i].message = pendingMessage[o]
      BY <3>3 DEF P!Entry
    <3>5. ASSUME NEW j \in ticks
          PROVE  j = i
      <4>1. ctx.queue[j].message = ctx.queue[i].message
        BY <2>1, <2>2, <3>4
      <4>2. P!PointsOnce(ctx.queue)
        BY TrackersFit, ContextFits, P!OwnedProperties
           DEF Base, P!HeapIsQueuePlusInFlight
      <4> QED
        BY <4>1, <4>2 DEF P!PointsOnce
    <3>6. ticks = {i}
      BY <3>4, <3>5
    <3> QED
      BY <2>3, <3>4, <3>6 DEF MetroFine
  <2>4. CASE ~ running[o]
    BY <2>1, <2>2, <2>4 DEF MetroFine
  <2> QED
    BY <2>3, <2>4
<1> QED
  BY <1>1, <1>2, <1>3, PTL DEF Spec

-----------------------------------------------------------------------------
(***************************************************************************)
(* [line]                                                                  *)
(***************************************************************************)

\* The value of a message is written by the line that schedules it and lost
\* when it is freed.
LEMMA RampValues ==
    ASSUME Base, NEW o \in Lines, NEW c, NEW l \in LineFields,
           NEW values \in [Messages -> Int], NEW t, NEW v \in Int,
           SendRamp(o, c, l, values, t, v), NEW x \in Messages
    PROVE  value'[x] = values[x] \/ x = line'[o].pendingMessage
PROOF
<1>1. line \in [Lines -> LineFields]
  BY DEF Base, Typed, LineTypes
<1>2. CASE value' = values
  BY <1>2
<1>3. ASSUME NEW m \in Messages, NEW d,
             value' = [values EXCEPT ![m] = v + l.slope * l.grainRate],
             line' = [line EXCEPT ![o] = [l EXCEPT !.currentValue = v,
                                                   !.lastMessageTimestamp = t,
                                                   !.pendingMessage = m]]
      PROVE  value'[x] = values[x] \/ x = line'[o].pendingMessage
  <2>1. line'[o].pendingMessage = m
    BY <1>1, <1>3 DEF LineFields
  <2> QED
    BY <1>3, <2>1
<1> QED
  BY <1>2, <1>3, Zenon DEF SendRamp, Fresh

LEMMA LineStepValues ==
    ASSUME Base, NEW o \in Lines \cap patch, LineStep(o), NEW x \in Messages
    PROVE  \/ value'[x] = value[x]
           \/ x = line[o].pendingMessage
           \/ x = line'[o].pendingMessage
PROOF
<1> DEFINE freed == ValueAfterFree(line[o].pendingMessage)
<1>1. /\ freed \in [Messages -> Int]
      /\ freed[x] = value[x] \/ x = line[o].pendingMessage
  BY FreedValues DEF ValueAfterFree, Base, Typed, LineTypes
<1>2. Here(o) \in Int /\ line[o] \in LineFields
  BY LineIsHere
<1> HIDE DEF freed
<1>3. ASSUME NEW l \in LineFields, NEW v \in Int,
             SendRamp(o, CancelNext(o), l, freed, now, v)
      PROVE  freed[x] = value'[x] \/ x = line'[o].pendingMessage
  BY <1>1, <1>3, RampValues
<1>4. ASSUME NEW v \in Values, Jump(o, v)
      PROVE  freed[x] = value'[x] \/ x = line'[o].pendingMessage
  <2> DEFINE l == [line[o] EXCEPT !.targetValue = v, !.currentValue = v,
                                  !.pendingMessage = NULL]
  <2>1. l \in LineFields /\ v \in Int
    BY <1>2, LineAssumption DEF LineFields
  <2>2. SendRamp(o, CancelNext(o), l, freed, now, v)
    BY <1>4 DEF Jump, freed
  <2> HIDE DEF l
  <2> QED
    BY <1>3, <2>1, <2>2
<1>5. ASSUME NEW v \in Values, NEW d \in RampDurations, Ramp(o, v, d)
      PROVE  freed[x] = value'[x] \/ x = line'[o].pendingMessage
  <2> DEFINE slope == (v - Here(o)) \div d
             l == [line[o] EXCEPT !.targetValue = v,
                                  !.currentValue = Here(o),
                                  !.slope = slope,
                                  !.pendingMessage = NULL]
  <2>1. slope \in Int /\ v \in Int
    BY <1>2, LineAssumption
  <2>2. \/ SendRamp(o, CancelNext(o), l, freed, now, Here(o))
        \/ value' = freed
    BY <1>5, Zenon DEF Ramp, freed
  <2> HIDE DEF slope
  <2>3. l \in LineFields
    BY <1>2, <2>1 DEF LineFields
  <2> HIDE DEF l
  <2> QED
    BY <1>2, <1>3, <2>2, <2>3
<1>6. ASSUME NEW v \in Values, SetValue(o, v)
      PROVE  value' = freed
  BY <1>6 DEF SetValue, freed
<1>7. ASSUME StopRamp(o)
      PROVE  value' = freed
  BY <1>7 DEF StopRamp, freed
<1>8. ASSUME NEW g \in Grains, SetGrain(o, g)
      PROVE  value' = value
  BY <1>8 DEF SetGrain
<1> QED
  BY <1>1, <1>4, <1>5, <1>6, <1>7, <1>8 DEF LineStep

\* No two objects keep the same pointer.
HeldOnce == \A p, q \in Timers : \A m \in held[p] : m \in held[q] => p = q

LEMMA OwnedHeldOnce == P!Owned => HeldOnce
  BY TrackersFit, ContextFits, P!HeldApart DEF HeldOnce

LEMMA HeldOnceNext ==
    ASSUME P!Owned'
    PROVE  \A p, q \in Timers : \A m \in held'[p] : m \in held'[q] => p = q
PROOF
<1>1. HeldOnce'
  BY OwnedHeldOnce, PTL
<1> QED
  BY <1>1 DEF HeldOnce

\* The next message of a line that does not act keeps its value.
LEMMA ValuesOfOthers ==
    ASSUME Base, [Next]_vars, NEW o \in Lines, ~ Acts(o),
           line[o].pendingMessage # NULL
    PROVE  value'[line[o].pendingMessage] = value[line[o].pendingMessage]
PROOF
<1> DEFINE x == line[o].pendingMessage
<1>1. /\ o \in Timers /\ x \in held[o] /\ x \in Messages /\ x # inFlight
      /\ \A p \in Timers : x \in held[p] => p = o
  <2>1. o \in Timers /\ x \in held[o]
    BY Kinds, HeldOfKinds
  <2> QED
    BY <2>1, TrackersFit, ContextFits, P!HeldApart DEF Base
<1>2. held'[o] = held[o]
  BY <1>1, ActsOrNot, KeepsWhatItHas
<1>3. \A p \in Timers : x \in held'[p] => p = o
  BY <1>1, <1>2, BaseNext, HeldOnceNext DEF Base
<1> HIDE DEF x
<1>4. ASSUME NEW p \in Lines, p # o
      PROVE  x # line[p].pendingMessage /\ x # line'[p].pendingMessage
  <2>1. p \in Timers /\ x # NULL
    BY <1>1, Kinds, ContextAssumption
  <2>2. /\ held[p] = {line[p].pendingMessage} \ {NULL}
        /\ held'[p] = {line'[p].pendingMessage} \ {NULL}
    BY HeldOfKinds, HeldOfKindsNext
  <2> QED
    BY <1>1, <1>3, <1>4, <2>1, <2>2
<1>5. CASE ReceiveLine
  <2>1. PICK p \in Lines \cap patch : LineStep(p)
    BY <1>5 DEF ReceiveLine
  <2>2. p # o
    BY <1>5, <2>1 DEF Acts
  <2> QED
    BY <1>1, <1>4, <2>1, <2>2, LineStepValues DEF x
<1>6. ASSUME NEW entry \in Entries, LineSend(entry),
             UNCHANGED <<delayVars, metroVars, pipeVars, playerVars>>
      PROVE  value'[x] = value[x]
  <2> DEFINE p == entry.object
             v == value[entry.message]
  <2>1. Send(entry)
    BY <1>6, PatchStays DEF Send
  <2>2. p # o
    BY <2>1 DEF Acts
  <2>3. /\ p \in Lines
        /\ SendRamp(p, Popped(entry), line[p], value, now', v)
    BY <1>6 DEF LineSend
  <2>4. /\ line[p] \in LineFields /\ value \in [Messages -> Int] /\ v \in Int
    BY <2>3, LineIsHere DEF Base, Typed, LineTypes, Entries
  <2> HIDE DEF p, v
  <2> QED
    BY <1>1, <1>4, <2>2, <2>3, <2>4, RampValues
<1>7. CASE Return
  <2>1. value' = ValueAfterFree(inFlight) /\ value \in [Messages -> Int]
    BY <1>7 DEF Return, LineReturn, Base, Typed, LineTypes
  <2> QED
    BY <1>1, <2>1 DEF ValueAfterFree, x
<1>8. CASE UNCHANGED lineVars
  BY <1>8 DEF lineVars
<1> QED
  BY <1>5, <1>6, <1>7, <1>8, WhoChangesLines DEF x

\* How far a ramp that is left alone has come, and that its next message is
\* further on.
RampFine(l, r, next) ==
    r.alone =>
        /\ l.slope # 0
        /\ l.slope > 0 =>
               /\ r.start <= r.sent /\ r.sent <= l.targetValue
               /\ l.pendingMessage # NULL => r.sent <= next
        /\ l.slope < 0 =>
               /\ r.start >= r.sent /\ r.sent >= l.targetValue
               /\ l.pendingMessage # NULL => r.sent >= next
        /\ l.pendingMessage = NULL => r.sent = l.targetValue

LineFine ==
    \A o \in Lines :
        RampFine(line[o], ramp[o], value[line[o].pendingMessage])

\* A grain goes on in the direction of the slope.
LEMMA GrainGoesOn ==
    ASSUME NEW v \in Int, NEW slope \in Int, NEW grain \in Nat
    PROVE  /\ v + slope * grain \in Int
           /\ slope > 0 => v + slope * grain >= v
           /\ slope < 0 => v + slope * grain <= v
PROOF
<1>1. slope * grain \in Int
  OBVIOUS
<1>2. slope > 0 => slope * grain >= 0
  OBVIOUS
<1>3. slope < 0 => slope * grain <= 0
  OBVIOUS
<1> QED
  BY <1>1, <1>2, <1>3

\* A ramp has the direction of its slope.
LEMMA RampGoesThere ==
    ASSUME NEW x \in Int, NEW d \in Nat \ {0}
    PROVE  /\ x \div d \in Int
           /\ x \div d > 0 => x > 0
           /\ x \div d < 0 => x < 0
PROOF
<1>1. x \div d \in Int
  OBVIOUS
<1>2. x <= 0 => x \div d <= 0
  OBVIOUS
<1>3. x >= 0 => x \div d >= 0
  OBVIOUS
<1> DEFINE q == x \div d
<1> HIDE DEF q
<1>4. /\ q \in Int
      /\ x <= 0 => q <= 0
      /\ x >= 0 => q >= 0
  BY <1>1, <1>2, <1>3 DEF q
<1>5. q > 0 => x > 0
  BY <1>4
<1>6. q < 0 => x < 0
  BY <1>4
<1> QED
  BY <1>4, <1>5, <1>6 DEF q

\* What a line sends, from where the ramp is.
LEMMA RampOn ==
    ASSUME Base, Grains \subseteq Nat, NEW o \in Lines, NEW c,
           NEW l \in LineFields, l.grainRate \in Grains,
           NEW values \in [Messages -> Int], NEW t \in Int, NEW v \in Int,
           SendRamp(o, c, l, values, t, v),
           NEW r, r.alone => /\ l.slope # 0
                             /\ r.start \in Int /\ r.sent = Clipped(l, v)
                             /\ l.slope > 0 => r.start <= v
                                               /\ r.start <= l.targetValue
                             /\ l.slope < 0 => r.start >= v
                                               /\ r.start >= l.targetValue
    PROVE  RampFine(line'[o], r, value'[line'[o].pendingMessage])
PROOF
<1>1. line \in [Lines -> LineFields]
  BY DEF Base, Typed, LineTypes
<1>2. /\ l.slope \in Int /\ l.targetValue \in Int /\ l.grainRate \in Nat
  BY DEF LineFields
<1>3. CASE Short(l, v)
  <2>1. PICK m \in Messages :
            /\ value' = [values EXCEPT ![m] = v + l.slope * l.grainRate]
            /\ line' = [line EXCEPT ![o] =
                            [l EXCEPT !.currentValue = v,
                                      !.lastMessageTimestamp = t,
                                      !.pendingMessage = m]]
    BY <1>3, Zenon DEF SendRamp, Fresh
  <2>2. /\ line'[o].slope = l.slope /\ line'[o].targetValue = l.targetValue
        /\ line'[o].pendingMessage = m
        /\ value'[m] = v + l.slope * l.grainRate
    BY <1>1, <2>1 DEF LineFields
  <2>3. Clipped(l, v) = v /\ m # NULL
    BY <1>3, ContextAssumption DEF Clipped
  <2>4. /\ l.slope > 0 => v + l.slope * l.grainRate >= v
        /\ l.slope < 0 => v + l.slope * l.grainRate <= v
    BY <1>2, GrainGoesOn
  <2> DEFINE next == v + l.slope * l.grainRate
  <2>5. next \in Int
    BY <1>2, GrainGoesOn
  <2> HIDE DEF next
  <2> QED
    BY <1>2, <1>3, <2>2, <2>3, <2>4, <2>5 DEF RampFine, Short, next
<1>4. CASE ~ Short(l, v)
  <2>1. line' = [line EXCEPT ![o] =
                     [l EXCEPT !.currentValue = Clipped(l, v),
                               !.lastMessageTimestamp = t,
                               !.pendingMessage =
                                   IF l.slope = 0 THEN @ ELSE NULL]]
    BY <1>4, Zenon DEF SendRamp
  <2>2. /\ line'[o].slope = l.slope /\ line'[o].targetValue = l.targetValue
        /\ l.slope # 0 => line'[o].pendingMessage = NULL
    BY <1>1, <2>1 DEF LineFields
  <2>3. l.slope # 0 => Clipped(l, v) = l.targetValue
    BY <1>4 DEF Clipped
  <2> QED
    BY <1>2, <2>2, <2>3 DEF RampFine
<1> QED
  BY <1>3, <1>4

LEMMA LineStepFine ==
    ASSUME Base, Grains \subseteq Nat, LineFine,
           NEW o \in Lines \cap patch, LineStep(o)
    PROVE  RampFine(line'[o], ramp'[o], value'[line'[o].pendingMessage])
PROOF
<1>1. /\ line \in [Lines -> LineFields]
      /\ ramp \in [Lines -> [start : Int, sent : Int, alone : BOOLEAN]]
      /\ now \in Int
  BY ContextTimes DEF Base, Typed, LineTypes
<1>2. /\ Here(o) \in Int /\ line[o] \in LineFields
      /\ line[o].grainRate \in Grains
  BY LineIsHere
<1>3. ASSUME ramp'[o].alone = FALSE
      PROVE  RampFine(line'[o], ramp'[o], value'[line'[o].pendingMessage])
  BY <1>3 DEF RampFine
<1>4. ASSUME NEW v \in Values, Jump(o, v)
      PROVE  ramp'[o].alone = FALSE
  BY <1>1, <1>4 DEF Jump
<1>5. ASSUME NEW v \in Values, SetValue(o, v)
      PROVE  ramp'[o].alone = FALSE
  BY <1>1, <1>5 DEF SetValue
<1>6. ASSUME StopRamp(o)
      PROVE  ramp'[o].alone = FALSE
  BY <1>1, <1>6 DEF StopRamp
<1>7. ASSUME NEW g \in Grains, SetGrain(o, g)
      PROVE  RampFine(line'[o], ramp'[o], value'[line'[o].pendingMessage])
  <2> DEFINE k == [line[o] EXCEPT !.grainRate = g]
  <2>1. /\ k.slope = line[o].slope /\ k.targetValue = line[o].targetValue
        /\ k.pendingMessage = line[o].pendingMessage
    BY <1>2 DEF LineFields
  <2>2. line'[o] = k /\ ramp' = ramp /\ value' = value
    BY <1>1, <1>7 DEF SetGrain
  <2> HIDE DEF k
  <2>3. RampFine(line[o], ramp[o], value[line[o].pendingMessage])
    BY DEF LineFine
  <2> QED
    BY <2>1, <2>2, <2>3 DEF RampFine
<1>8. ASSUME NEW v \in Values, NEW d \in RampDurations, Ramp(o, v, d)
      PROVE  RampFine(line'[o], ramp'[o], value'[line'[o].pendingMessage])
  <2> DEFINE slope == (v - Here(o)) \div d
             l == [line[o] EXCEPT !.targetValue = v,
                                  !.currentValue = Here(o),
                                  !.slope = slope,
                                  !.pendingMessage = NULL]
             r == [start |-> Here(o), sent |-> Here(o), alone |-> slope # 0]
             freed == ValueAfterFree(line[o].pendingMessage)
  <2>1. v \in Int /\ d \in Nat \ {0} /\ v - Here(o) \in Int
    BY <1>2, LineAssumption
  <2>2. /\ slope \in Int
        /\ slope > 0 => v - Here(o) > 0
        /\ slope < 0 => v - Here(o) < 0
    BY <2>1, RampGoesThere
  <2>3. /\ slope # 0 => SendRamp(o, CancelNext(o), l, freed, now, Here(o))
        /\ ramp' = [ramp EXCEPT ![o] = r]
    BY <1>8, Zenon DEF Ramp
  <2>4. ramp'[o] = r
    BY <1>1, <2>3
  <2> HIDE DEF slope
  <2>5. /\ l \in LineFields /\ l.slope = slope /\ l.targetValue = v
        /\ l.grainRate = line[o].grainRate
    BY <1>2, <2>1, <2>2 DEF LineFields
  <2>6. /\ r.start = Here(o) /\ r.sent = Here(o)
        /\ r.alone = (slope # 0)
    OBVIOUS
  <2>7. freed \in [Messages -> Int]
    BY FreedValues DEF Base, Typed, LineTypes
  <2> HIDE DEF l, r, freed
  <2>8. CASE slope # 0
    <3> DEFINE here == Here(o)
    <3>1. here \in Int /\ (slope > 0 => here < v) /\ (slope < 0 => here > v)
      BY <1>2, <2>1, <2>2
    <3>2. Clipped(l, Here(o)) = Here(o)
      BY <2>2, <2>5, <2>8, <3>1 DEF Clipped, Short
    <3>3. /\ r.alone => l.slope # 0
          /\ r.start \in Int /\ r.sent = Clipped(l, Here(o))
          /\ l.slope > 0 => r.start <= Here(o) /\ r.start <= l.targetValue
          /\ l.slope < 0 => r.start >= Here(o) /\ r.start >= l.targetValue
      BY <2>1, <2>5, <2>6, <2>8, <3>1, <3>2
    <3>4. l.grainRate \in Grains
      BY <1>2, <2>5
    <3>5. RampFine(line'[o], r, value'[line'[o].pendingMessage])
      BY <1>1, <1>2, <2>3, <2>5, <2>7, <2>8, <3>3, <3>4, RampOn
    <3> QED
      BY <2>4, <3>5
  <2>9. CASE slope = 0
    BY <1>3, <2>4, <2>6, <2>9
  <2> QED
    BY <2>8, <2>9
<1> QED
  BY <1>3, <1>4, <1>5, <1>6, <1>7, <1>8 DEF LineStep

LEMMA LineSendFine ==
    ASSUME Base, Grains \subseteq Nat, LineFine, NEW entry \in Entries,
           LineSend(entry), UNCHANGED <<delayVars, metroVars, pipeVars, playerVars>>,
           NEW o, o = entry.object
    PROVE  RampFine(line'[o], ramp'[o], value'[line'[o].pendingMessage])
PROOF
<1> DEFINE v == value[entry.message]
           l == line[o]
           r == ramp'[o]
<1>1. /\ o \in Lines /\ o \in patch /\ l.pendingMessage = entry.message
      /\ l.slope # 0
  BY LineSendIsSent
<1>2. /\ l \in LineFields /\ l.grainRate \in Grains
      /\ value \in [Messages -> Int] /\ v \in Int
      /\ ramp \in [Lines -> [start : Int, sent : Int, alone : BOOLEAN]]
      /\ entry.message # NULL
  BY <1>1, ContextAssumption DEF Base, Typed, LineTypes, Entries
<1>3. SendRamp(o, Popped(entry), l, value, now', v) /\ now' \in Int
  BY TimeOfDelivery DEF LineSend
<1>4. ramp' = [ramp EXCEPT ![o].sent = Clipped(l, v)]
  BY DEF LineSend
<1>5. r.alone = ramp[o].alone /\ r.start = ramp[o].start
      /\ r.sent = Clipped(l, v) /\ r.start \in Int /\ ramp[o].sent \in Int
  BY <1>1, <1>2, <1>4
<1>6. RampFine(l, ramp[o], v)
  BY <1>1 DEF LineFine
<1>7. l.slope \in Int /\ l.targetValue \in Int
  BY <1>2 DEF LineFields
<1> HIDE DEF v, l, r
<1>8. r.alone => /\ l.slope # 0
                 /\ r.start \in Int /\ r.sent = Clipped(l, v)
                 /\ l.slope > 0 => r.start <= v /\ r.start <= l.targetValue
                 /\ l.slope < 0 => r.start >= v /\ r.start >= l.targetValue
  BY <1>1, <1>2, <1>5, <1>6, <1>7 DEF RampFine
<1>9. RampFine(line'[o], r, value'[line'[o].pendingMessage])
  BY <1>1, <1>2, <1>3, <1>8, RampOn
<1> QED
  BY <1>9 DEF r

LEMMA LineFineNext ==
    ASSUME Base, Grains \subseteq Nat, LineFine, [Next]_vars
    PROVE  LineFine'
PROOF
<1> SUFFICES ASSUME NEW o \in Lines
             PROVE  RampFine(line'[o], ramp'[o],
                             value'[line'[o].pendingMessage])
  BY DEF LineFine
<1>1. o \in Timers
  BY Kinds
<1>2. CASE ~ Acts(o)
  <2>1. line'[o] = line[o] /\ ramp'[o] = ramp[o]
    BY <1>1, <1>2, ActsOrNot DEF SameFields, SameLine
  <2>2. RampFine(line[o], ramp[o], value[line[o].pendingMessage])
    BY DEF LineFine
  <2>3. CASE line[o].pendingMessage = NULL
    BY <2>1, <2>2, <2>3 DEF RampFine
  <2>4. CASE line[o].pendingMessage # NULL
    BY <1>2, <2>1, <2>2, <2>4, ValuesOfOthers
  <2> QED
    BY <2>3, <2>4
<1>3. CASE Acts(o)
  BY <1>1, <1>3, ActsOfKinds, LineStepFine, LineSendFine
<1> QED
  BY <1>2, <1>3

\* A ramp that is left alone stays between where it started and its target,
\* and ends exactly there (MessageLine::sendMessage, processMessage).  The
\* code takes any grain from its arguments and messages; with one below zero
\* the next value lies behind the last: the theorem is about the others.
THEOREM RampEnds == Grains \subseteq Nat => (Spec => []RampEndsAtTarget)
PROOF
<1> SUFFICES ASSUME Grains \subseteq Nat
             PROVE  Spec => []RampEndsAtTarget
  OBVIOUS
<1>1. Init => Base /\ LineFine
  BY BaseInit DEF LineFine, RampFine, Init, LineInit
<1>2. Base /\ LineFine /\ [Next]_vars => Base' /\ LineFine'
  BY BaseNext, LineFineNext
<1>3. Base /\ LineFine => RampEndsAtTarget
  <2> SUFFICES ASSUME Base, LineFine, NEW o \in Lines, ramp[o].alone
               PROVE  /\ \/ /\ ramp[o].start <= ramp[o].sent
                            /\ ramp[o].sent <= line[o].targetValue
                         \/ /\ line[o].targetValue <= ramp[o].sent
                            /\ ramp[o].sent <= ramp[o].start
                      /\ line[o].pendingMessage = NULL =>
                             ramp[o].sent = line[o].targetValue
    BY DEF RampEndsAtTarget
  <2>1. /\ line[o].slope \in Int /\ line[o].targetValue \in Int
        /\ ramp[o].start \in Int /\ ramp[o].sent \in Int
    BY DEF Base, Typed, LineTypes, LineFields
  <2> QED
    BY <2>1 DEF LineFine, RampFine
<1> QED
  BY <1>1, <1>2, <1>3, PTL DEF Spec

-----------------------------------------------------------------------------
(***************************************************************************)
(* [pipe]                                                                  *)
(***************************************************************************)

\* Of two messages of a pipe the older is ahead in the queue, unless it is due
\* later or is the one that a flush has given another time.
PipeInOrder ==
    \A o \in Pipes : \A j, k \in AliveAt(o) :
        LET list == scheduledMessagesList[o]
        IN  /\ j < k
            /\ list[j] \notin retimed
            /\ ctx.timestamp[list[j]] <= ctx.timestamp[list[k]]
            => P!Before(ctx.queue, list[j], list[k])

\* Where a pointer that is alive is.
LEMMA AliveIsListed ==
    ASSUME Typed, NEW o \in Pipes, NEW k \in AliveAt(o)
    PROVE  /\ k \in 1 .. Len(scheduledMessagesList[o])
           /\ Len(scheduledMessagesList[o]) \in Nat
           /\ k \in Nat
           /\ scheduledMessagesList[o][k] \in held[o]
PROOF
<1>1. k \in 1 .. Len(scheduledMessagesList[o])
      /\ Len(scheduledMessagesList[o]) \in Nat
  BY EachLoop DEF Typed, AliveAt
<1>2. scheduledMessagesList[o][k] \in held[o]
  BY HeldOfKinds DEF Alive
<1> QED
  BY <1>1, <1>2

\* Messages that are kept stay in order.
LEMMA PairKept ==
    ASSUME PipeInOrder, NEW o \in Pipes, NEW a \in AliveAt(o),
           NEW b \in AliveAt(o), a < b,
           NEW x, x = scheduledMessagesList[o][a],
           NEW y, y = scheduledMessagesList[o][b],
           x \notin retimed,
           ctx'.timestamp[x] = ctx.timestamp[x],
           ctx'.timestamp[y] = ctx.timestamp[y],
           P!Before(ctx.queue, x, y) => P!Before(ctx'.queue, x, y),
           ctx'.timestamp[x] <= ctx'.timestamp[y]
    PROVE  P!Before(ctx'.queue, x, y)
  BY DEF PipeInOrder

LEMMA PairKeptBut ==
    ASSUME Base, PipeInOrder, NEW o \in Pipes, NEW gone,
           P!KeptBut(ctx', ctx, gone),
           NEW a \in AliveAt(o), NEW b \in AliveAt(o), a < b,
           NEW x, x = scheduledMessagesList[o][a], x \notin retimed,
           NEW y, y = scheduledMessagesList[o][b],
           x \notin gone, y \notin gone,
           ctx'.timestamp[x] <= ctx'.timestamp[y]
    PROVE  P!Before(ctx'.queue, x, y)
PROOF
<1>1. x \in held[o] /\ y \in held[o] /\ o \in Timers
  BY AliveIsListed, Kinds DEF Base
<1>2. x \in P!Queued /\ y \in P!Queued
  BY <1>1, TrackersFit, ContextFits, P!HeldApart DEF Base
<1>3. /\ ctx'.timestamp[x] = ctx.timestamp[x]
      /\ ctx'.timestamp[y] = ctx.timestamp[y]
      /\ P!Before(ctx.queue, x, y) => P!Before(ctx'.queue, x, y)
  BY <1>2 DEF P!KeptBut, P!Queued
<1> QED
  BY <1>3, PairKept

\* A pipe that does not act.
LEMMA OtherPipesInOrder ==
    ASSUME Base, PipeInOrder, NEW o \in Pipes, P!StepOfOthers(o), SamePipe(o),
           NEW j \in AliveAt(o)', NEW k \in AliveAt(o)', j < k,
           NEW x, x = scheduledMessagesList'[o][j], x \notin retimed',
           NEW y, y = scheduledMessagesList'[o][k],
           ctx'.timestamp[x] <= ctx'.timestamp[y]
    PROVE  P!Before(ctx'.queue, x, y)
PROOF
<1>1. /\ j \in AliveAt(o) /\ k \in AliveAt(o)
      /\ x = scheduledMessagesList[o][j]
      /\ y = scheduledMessagesList[o][k]
  BY DEF SamePipe
<1>2. x \in held[o] /\ y \in held[o] /\ o \in Timers
  BY <1>1, AliveIsListed, Kinds DEF Base
<1>3. /\ ctx'.timestamp[x] = ctx.timestamp[x]
      /\ ctx'.timestamp[y] = ctx.timestamp[y]
      /\ P!Before(ctx.queue, x, y) => P!Before(ctx'.queue, x, y)
      /\ x \notin retimed
  BY <1>2, KeepsWhatItHas
<1> QED
  BY <1>1, <1>3, PairKept

\* The newest message goes behind all that are due no later.
LEMMA PutInOrder ==
    ASSUME Base, P!InTime, Delays \subseteq Nat, PipeInOrder,
           NEW o \in Pipes \cap patch, NEW m \in Messages, NEW d,
           Put(o, m, d), UNCHANGED <<delayVars, metroVars, lineVars, playerVars>>,
           NEW j \in AliveAt(o)', NEW k \in AliveAt(o)', j < k,
           NEW x, x = scheduledMessagesList'[o][j], x \notin retimed',
           NEW y, y = scheduledMessagesList'[o][k],
           ctx'.timestamp[x] <= ctx'.timestamp[y]
    PROVE  P!Before(ctx'.queue, x, y)
PROOF
<1> DEFINE list == scheduledMessagesList[o]
           n == Len(list)
<1>1. /\ scheduledMessagesList' =
             [scheduledMessagesList EXCEPT ![o] = Append(@, m)]
      /\ loops' = loops
  BY DEF Put
<1>2. /\ n \in Nat
      /\ scheduledMessagesList'[o][n + 1] = m
      /\ \A i \in 1 .. n : scheduledMessagesList'[o][i] = list[i]
      /\ AliveAt(o)' = AliveAt(o) \cup {n + 1}
      /\ retimed' = retimed
  BY <1>1, PutPointers DEF Base
<1>3. \A i \in AliveAt(o) : i \in 1 .. n
  BY AliveIsListed DEF Base
<1>4. P!Schedule(o, NULL, pipeDelayMs[o], m) /\ pipeDelayMs[o] \in Delays
      /\ o \in Timers
  BY PutIsStep, Kinds
<1>5. /\ P!KeptBut(ctx', ctx, {NULL})
      /\ ctx'.timestamp[m] = now + pipeDelayMs[o]
  <2>1. ASSUME NEW delay \in Delays, P!Schedule(o, NULL, delay, m)
        PROVE  P!KeptBut(ctx', ctx, {NULL})
    <3>1. NULL \in held[o] \cup {NULL} /\ o \in Timers /\ P!Owned
      BY <1>4 DEF Base
    <3> QED
      BY ONLY <2>1, <3>1, TrackersFit, ContextFits, P!ScheduleEffect,
              m \in Messages
  <2>2. ctx' = ScheduleMessage(ctx, o, 0, m, now + pipeDelayMs[o])
    BY DEF Put
  <2>3. ctx'.timestamp[m] = now + pipeDelayMs[o]
    BY <2>2, ContextRecord, TimeOfScheduled DEF Base
  <2>4. P!KeptBut(ctx', ctx, {NULL})
    BY ONLY <1>4, <2>1
  <2> QED
    BY <2>3, <2>4
<1> HIDE DEF n
<1>6. j \in AliveAt(o)
  BY <1>2, <1>3
<1>7. x = list[j] /\ x \in held[o] /\ x \notin retimed
  BY <1>2, <1>3, <1>6, AliveIsListed DEF Base
<1>8. x \in P!Queued /\ x # NULL
  BY <1>4, <1>7, TrackersFit, ContextFits, P!HeldApart DEF Base
<1>9. CASE k \in AliveAt(o)
  <2>1. y = list[k] /\ y \in held[o]
    BY <1>2, <1>3, <1>9, AliveIsListed DEF Base
  <2>2. y # NULL
    BY <1>4, <2>1, TrackersFit, ContextFits, P!HeldApart DEF Base
  <2> QED
    BY <1>5, <1>6, <1>7, <1>8, <1>9, <2>1, <2>2, PairKeptBut
<1>10. CASE k = n + 1
  <2>1. y = m
    BY <1>2, <1>10
  <2>2. ctx'.timestamp[x] = ctx.timestamp[x]
    BY <1>5, <1>8 DEF P!KeptBut, P!Queued
  <2>3. ctx.timestamp[x] <= now + pipeDelayMs[o]
    BY <1>5, <2>1, <2>2
  <2>4. NULL \in held[o] \cup {NULL} /\ x \in P!Queued \ retimed
    BY <1>7, <1>8
  <2>5. P!Before(ctx'.queue, x, m)
    BY <1>4, <1>8, <2>3, <2>4, TrackersFit, ContextFits, P!ScheduledBehind
  <2> QED
    BY <2>1, <2>5
<1> QED
  BY <1>2, <1>9, <1>10

\* A turn of a loop changes the time of the message it sends, and cancels it.
LEMMA LoopKeepsOrder ==
    ASSUME Base, PipeInOrder, PipeLoops,
           UNCHANGED <<delayVars, metroVars, lineVars, playerVars>>,
           NEW l, l = Last(loops), NEW o, o = l.pipe,
           NEW j \in AliveAt(o)', NEW k \in AliveAt(o)', j < k,
           NEW x, x = scheduledMessagesList'[o][j], x \notin retimed',
           NEW y, y = scheduledMessagesList'[o][k],
           ctx'.timestamp[x] <= ctx'.timestamp[y]
    PROVE  P!Before(ctx'.queue, x, y)
PROOF
<1> DEFINE list == scheduledMessagesList[o]
<1> SUFFICES ASSUME NEW z, z = list[l.at]
             PROVE  P!Before(ctx'.queue, x, y)
  OBVIOUS
<1>1. loops # <<>>
  BY DEF PipeLoops, LoopSend, LoopCancel, LoopEnd
<1>2. /\ l \in LoopFields /\ o \in Pipes /\ o \in Timers
      /\ Len(list) \in Nat /\ l.at \in Nat \ {0}
      /\ AliveAt(o) = l.at .. Len(list)
      /\ TimedOutlet[o] = 0
  <2>1. o \in Pipes /\ l = loops[Len(loops)]
    BY <1>1, LastLoop DEF Base
  <2> QED
    BY <1>1, <2>1, LastLoop, Kinds, OutletsOfKinds DEF Base
<1>3. ASSUME NEW i \in AliveAt(o)
      PROVE  list[i] \in held[o] /\ (i # l.at => list[i] # z)
  <2>1. list[i] \in held[o]
    BY <1>2, AliveIsListed DEF Base
  <2>2. i \in l.at .. Len(list)
    BY <1>2
  <2>3. l.at \in AliveAt(o)
    BY <1>2, <2>2
  <2> QED
    BY <1>2, <2>1, <2>3 DEF Base, ListsApart
<1>4. ASSUME P!KeptBut(ctx', ctx, {z}), AliveAt(o)' \subseteq AliveAt(o),
             UNCHANGED scheduledMessagesList, x # z, y # z, x \notin retimed
      PROVE  P!Before(ctx'.queue, x, y)
  <2>1. /\ j \in AliveAt(o) /\ k \in AliveAt(o) /\ x = list[j] /\ y = list[k]
        /\ x \notin {z} /\ y \notin {z}
    BY <1>4
  <2> QED
    BY <1>2, <1>4, <2>1, PairKeptBut
<1>5. CASE LoopSend
  <2> DEFINE new == [l EXCEPT !.sent = TRUE]
  <2>1. /\ l.at <= Len(list) /\ ~ l.sent
        /\ ctx' = SetTimestamp(ctx, z, now)
        /\ loops' = Append(Front(loops), new)
        /\ UNCHANGED scheduledMessagesList
    BY <1>5 DEF LoopSend
  <2>2. /\ new \in LoopFields /\ new.pipe = o /\ new.at = l.at
        /\ new.sent = TRUE
    BY <1>2 DEF LoopFields
  <2> HIDE DEF new
  <2>3. AliveAt(o)' = {i \in 1 .. Len(list) : i >= l.at}
    BY <1>1, <2>1, <2>2, LoopMoves DEF Base
  <2>4. AliveAt(o)' \subseteq AliveAt(o) /\ k # l.at
    BY <1>2, <2>3
  <2>5. retimed' = retimed \cup {z}
    BY <1>1, <2>1, <2>2, SentMoves
  <2>6. x \notin retimed /\ x # z
    BY <2>5
  <2>7. y # z
    BY <1>3, <2>1, <2>4
  <2>8. P!KeptBut(ctx', ctx, {z})
    <3>1. ctx \in P!Contexts /\ now \in Int
      BY DEF Base, P!Owned, P!TypeOK, P!ContextTypeOK, P!Sound
    <3>2. ctx' = P!SetTimestamp(ctx, z, now)
      BY <2>1, SameSmall
    <3> QED
      BY <3>1, <3>2, ContextFits, TrackersFit, P!SetTimestampKeeps
  <2> QED
    BY <1>4, <2>1, <2>4, <2>6, <2>7, <2>8
<1>6. CASE LoopCancel
  <2> DEFINE new == [l EXCEPT !.at = @ + 1, !.sent = FALSE]
  <2>1. /\ l.at <= Len(list)
        /\ ctx' = CancelMessage(ctx, o, 0, z)
        /\ loops' = Append(Front(loops), new)
        /\ UNCHANGED scheduledMessagesList
    BY <1>6 DEF LoopCancel
  <2>2. /\ new \in LoopFields /\ new.pipe = o /\ new.at = l.at + 1
        /\ new.sent = FALSE
    <3>1. l \in LoopFields /\ l.pipe = o
      BY <1>2
    <3>2. /\ new \in LoopFields /\ new.pipe = l.pipe
          /\ new.at = l.at + 1 /\ new.sent = FALSE
      BY ONLY <3>1, LoopGoesOn, Zenon
    <3> QED
      BY <3>1, <3>2, Zenon
  <2> HIDE DEF new
  <2>3. AliveAt(o)' = {i \in 1 .. Len(list) : i >= l.at + 1}
    BY <1>1, <2>1, <2>2, LoopMoves DEF Base
  <2>4. /\ AliveAt(o)' \subseteq AliveAt(o) /\ l.at \in AliveAt(o)
        /\ l.at \notin AliveAt(o)'
    BY <1>2, <2>1, <2>3
  <2>5. x # z /\ y # z
    BY <1>3, <2>1, <2>4
  <2>6. retimed' = IF l.sent THEN retimed \ {z} ELSE retimed
    BY <1>1, <2>1, <2>2, SentMoves
  <2>7. x \notin retimed
    BY <2>5, <2>6
  <2>8. P!KeptBut(ctx', ctx, {z})
    <3>1. z \in held[o] /\ ctx' = P!CancelMessage(ctx, o, TimedOutlet[o], z)
      BY <1>2, <1>3, <2>1, <2>4, SameCancelMessage
    <3> QED
      BY <1>2, <3>1, ContextFits, TrackersFit, P!CancelEffect DEF Base
  <2> QED
    BY <1>4, <2>1, <2>4, <2>5, <2>7, <2>8
<1>7. CASE LoopEnd
  <2>1. scheduledMessagesList' = [scheduledMessagesList EXCEPT ![o] = <<>>]
    BY <1>7 DEF LoopEnd
  <2>2. scheduledMessagesList'[o] = <<>>
    BY <1>2, <2>1 DEF Base, Typed, PipeTypes
  <2>3. AliveAt(o)' = {}
    BY <2>2, EmptySeq DEF AliveAt
  <2> QED
    BY <2>3
<1> QED
  BY <1>5, <1>6, <1>7 DEF PipeLoops

\* What process() sends is taken off the list, the others stay in order.
LEMMA PipeSendKeepsOrder ==
    ASSUME Base, PipeInOrder, NEW entry \in Entries, PipeSend(entry),
           NEW o, o = entry.object,
           NEW j \in AliveAt(o)', NEW k \in AliveAt(o)', j < k,
           NEW x, x = scheduledMessagesList'[o][j],
           NEW y, y = scheduledMessagesList'[o][k],
           ctx'.timestamp[x] <= ctx'.timestamp[y]
    PROVE  P!Before(ctx'.queue, x, y)
PROOF
<1> SUFFICES ASSUME NEW z, z = entry.message
             PROVE  P!Before(ctx'.queue, x, y)
  OBVIOUS
<1> DEFINE list == scheduledMessagesList[o]
           new == scheduledMessagesList'[o]
<1>1. /\ o \in Pipes /\ loops = <<>> /\ loops' = <<>> /\ retimed = {}
      /\ list \in Seq(Messages) /\ new = Without(list, z)
  BY PipeSendPointers
<1>2. AliveAt(o) = 1 .. Len(list) /\ AliveAt(o)' = 1 .. Len(new)
  BY <1>1, NoLoops
<1>3. HasOthers(new, list, Len(list), z)
  BY <1>1, WithoutRemoves
<1> HIDE DEF list, new
<1>4. x = new[j] /\ y = new[k] /\ j \in 1 .. Len(new) /\ k \in 1 .. Len(new)
  BY <1>2 DEF new
<1>5. x # z /\ y # z
  BY <1>3, <1>4 DEF HasOthers
<1>6. PICK a, b \in 1 .. Len(list) : a < b /\ x = list[a] /\ y = list[b]
  BY <1>3, <1>4 DEF HasOthers
<1>7. P!KeptBut(ctx', ctx, {z})
  <2>1. /\ P!Dispatch(entry) /\ ctx' = P!Popped(entry)
        /\ entry \in P!Entries /\ P!Owned
    BY SameDispatch, SameSmall DEF PipeSend, Base
  <2> QED
    BY ONLY <2>1, z = entry.message, ContextFits, TrackersFit,
            P!DeliverEffect
<1>8. /\ a \in AliveAt(o) /\ b \in AliveAt(o)
      /\ x \notin {z} /\ y \notin {z} /\ x \notin retimed
  BY <1>1, <1>2, <1>5
<1> QED
  BY <1>1, <1>6, <1>7, <1>8, PairKeptBut DEF list

LEMMA PipeInOrderNext ==
    ASSUME Base, P!InTime, Delays \subseteq Nat, PipeInOrder, [Next]_vars
    PROVE  PipeInOrder'
PROOF
<1> SUFFICES ASSUME NEW o \in Pipes,
                    NEW j \in AliveAt(o)', NEW k \in AliveAt(o)', j < k,
                    NEW x, x = scheduledMessagesList'[o][j], x \notin retimed',
                    NEW y, y = scheduledMessagesList'[o][k],
                    ctx'.timestamp[x] <= ctx'.timestamp[y]
             PROVE  P!Before(ctx'.queue, x, y)
  BY DEF PipeInOrder
<1>1. o \in Timers
  BY Kinds
<1>2. CASE P!StepOfOthers(o) /\ SameFields(o)
  BY <1>2, OtherPipesInOrder DEF SameFields
<1>3. CASE o \in patch /\ PipeStep(o) /\ ReceivePipe
  <2>1. UNCHANGED <<delayVars, metroVars, lineVars, playerVars>>
    BY <1>3 DEF ReceivePipe
  <2>2. ASSUME NEW m \in Messages, NEW d, Put(o, m, d)
        PROVE  P!Before(ctx'.queue, x, y)
    BY <1>3, <2>1, <2>2, PutInOrder
  <2>3. ASSUME UNCHANGED contextVars, retimed' = retimed,
               UNCHANGED scheduledMessagesList, AliveAt(o)' = AliveAt(o)
        PROVE  P!Before(ctx'.queue, x, y)
    BY <2>3 DEF PipeInOrder, contextVars
  <2>4. ASSUME NEW d, SetPipeDelay(o, d)
        PROVE  P!Before(ctx'.queue, x, y)
    <3>1. UNCHANGED <<contextVars, scheduledMessagesList, loops>>
      BY <2>4 DEF SetPipeDelay
    <3>2. AliveAt(o)' = AliveAt(o)
      BY <3>1 DEF AliveAt
    <3>3. retimed' = retimed
      BY <3>1, SamePipes
    <3> QED
      BY <2>3, <3>1, <3>2, <3>3
  <2>5. ASSUME NEW sends \in BOOLEAN, Loop(o, sends)
        PROVE  P!Before(ctx'.queue, x, y)
    <3> DEFINE l == [pipe |-> o, sends |-> sends, at |-> 1, sent |-> FALSE]
    <3>1. l \in LoopFields /\ l.at = 1 /\ l.sent = FALSE
      BY DEF LoopFields
    <3>2. loops' = Append(loops, l) /\ UNCHANGED scheduledMessagesList
          /\ UNCHANGED contextVars
      BY <2>5 DEF Loop
    <3> HIDE DEF l
    <3>3. retimed' = retimed /\ AliveAt(o)' = AliveAt(o)
      BY <3>1, <3>2, LoopPointers DEF Base
    <3> QED
      BY <2>3, <3>2, <3>3
  <2> QED
    BY <1>3, <2>2, <2>4, <2>5 DEF PipeStep
<1>4. CASE Last(loops).pipe = o /\ LoopOfPipe
  <2>1. PipeLoops /\ UNCHANGED <<delayVars, metroVars, lineVars, playerVars>>
    BY <1>4 DEF LoopOfPipe
  <2>2. ASSUME NEW l, l = Last(loops)
        PROVE  P!Before(ctx'.queue, x, y)
    BY <1>4, <2>1, <2>2, LoopKeepsOrder
  <2> QED
    BY <2>2
<1>5. ASSUME NEW entry \in Entries, entry.object = o, PipeSend(entry)
      PROVE  P!Before(ctx'.queue, x, y)
  BY <1>5, PipeSendKeepsOrder
<1>6. CASE Acts(o)
  BY <1>1, <1>3, <1>4, <1>5, <1>6, ActsOfKinds
<1> QED
  BY <1>1, <1>2, <1>6, ActsOrNot

\* Messages that are due together leave a pipe in the order they came in, and
\* one that is due earlier than a message before it overtakes that message:
\* whatever delays the pipe is given and whatever is flushed or cleared in
\* between, also by what a flush sends (MessagePipe::processMessage).  The code
\* takes negative delays, which put a message into the past, where a flush may
\* leave the queue out of order: the theorem is about the others.
THEOREM PipesKeepOrder ==
    Delays \subseteq Nat => (Spec => []FirstInFirstOut)
PROOF
<1> SUFFICES ASSUME Delays \subseteq Nat
             PROVE  Spec => []FirstInFirstOut
  OBVIOUS
<1> DEFINE IInv == Base /\ P!InTime /\ PipeInOrder
<1>1. Init => IInv
  <2> SUFFICES ASSUME Init
               PROVE  IInv
    OBVIOUS
  <2>1. P!InTime
    BY BaseInit, ContextFits, TrackersFit, P!InTimeInit
  <2>2. PipeInOrder
    <3> SUFFICES ASSUME NEW o \in Pipes
                 PROVE  AliveAt(o) = {}
      BY DEF PipeInOrder
    <3>1. scheduledMessagesList[o] = <<>>
      BY DEF Init, PipeInit
    <3> QED
      BY <3>1, EmptySeq DEF AliveAt
  <2> QED
    BY <2>1, <2>2, BaseInit
<1>2. IInv /\ [Next]_vars => IInv'
  BY BaseNext, NextImplements, PipeInOrderNext, ContextFits, TrackersFit,
     P!InTimeNext
<1>3. IInv => FirstInFirstOut
  <2> SUFFICES ASSUME IInv, NEW o \in Pipes, ~ InLoop(o),
                      NEW j \in 1 .. Len(scheduledMessagesList[o]),
                      NEW k \in 1 .. Len(scheduledMessagesList[o]), j < k,
                      NEW x, x = scheduledMessagesList[o][j],
                      NEW y, y = scheduledMessagesList[o][k],
                      ctx.timestamp[x] <= ctx.timestamp[y]
               PROVE  P!Before(ctx.queue, x, y)
    BY DEF FirstInFirstOut, Before, P!Before
  <2>1. j \in AliveAt(o) /\ k \in AliveAt(o)
    BY DEF InLoop, AliveAt
  <2>2. x \in held[o]
    BY <2>1, AliveIsListed DEF Base
  <2>3. ~ P!Flushing(o)
    BY Kinds, NotFlushing DEF InLoop
  <2>4. x \notin retimed
    BY <2>2, <2>3 DEF P!Flushing
  <2> QED
    BY <2>1, <2>4 DEF PipeInOrder
<1> QED
  BY <1>1, <1>2, <1>3, PTL DEF Spec

-----------------------------------------------------------------------------
(***************************************************************************)
(* [tabplay~]                                                              *)
(***************************************************************************)

\* A bang is as far from what has been rendered as there are samples left to
\* play, or is not ahead of it when there are none.
OnTime(time, position, left) ==
    IF left > 0 THEN time = position + left ELSE time <= position

\* This is so in the middle of a block as well as between blocks, of a bang
\* that is not being sent, and while the table has what is to be played.
PlayersOnTime ==
    \A o \in Players :
        outgoingMessage[o] \notin {NULL, inFlight} /\ ~ resized[o] =>
            /\ table[o] # NULL /\ endTableIndex[o] <= TableLength(o)
            /\ OnTime(ctx.timestamp[outgoingMessage[o]],
                      blockStartTimestamp + rendered[o],
                      endTableIndex[o] - currentTableIndex[o])

\* Rendering moves the position and what is left by the same number.
LEMMA RenderedOnTime ==
    ASSUME NEW time \in Int, NEW start \in Int, NEW from \in Int,
           NEW to \in Int, from <= to, NEW at \in Int, NEW end \in Int,
           OnTime(time, start + from, end - at)
    PROVE  OnTime(time, start + to,
                  end - (IF end - at <= 0 THEN at ELSE at + (to - from)))
  BY DEF OnTime

\* A player that renders a part of the block, or starts to play.
LEMMA PlayerStepOnTime ==
    ASSUME Base, PlayersOnTime, NEW o \in Players \cap patch, PlayerStep(o),
           NEW m, m = outgoingMessage'[o],
           m \notin {NULL, inFlight'}, ~ resized'[o]
    PROVE  /\ (table[o] # NULL /\ endTableIndex[o] <= TableLength(o))'
           /\ OnTime(ctx'.timestamp[m], blockStartTimestamp' + rendered'[o],
                     endTableIndex'[o] - currentTableIndex'[o])
PROOF
<1>1. /\ outgoingMessage \in [Players -> Messages \cup {NULL}]
      /\ currentTableIndex \in [Players -> Int]
      /\ endTableIndex \in [Players -> Int]
      /\ rendered \in [Players -> 0 .. blockSizeInt]
      /\ TableLength(o) \in Nat /\ resized \in [Players -> BOOLEAN]
  BY LengthOfTable DEF Base, Typed, PlayerTypes
<1>2. /\ currentTableIndex[o] \in Int /\ endTableIndex[o] \in Int
      /\ rendered[o] \in Int /\ blockStartTimestamp \in Int /\ now \in Int
      /\ ctx.timestamp \in [Messages -> Int]
  BY <1>1, Blocksize, ContextTimes
<1>3. ASSUME NEW to \in 0 .. blockSizeInt, rendered[o] <= to,
             ProcessDspWithIndex(o, rendered[o], to),
             UNCHANGED <<ctx, blockStartTimestamp, inFlight,
                         outgoingMessage, table, bufferLength, resized>>
      PROVE  /\ (table[o] # NULL /\ endTableIndex[o] <= TableLength(o))'
             /\ OnTime(ctx'.timestamp[m], blockStartTimestamp' + rendered'[o],
                       endTableIndex'[o] - currentTableIndex'[o])
  <2> DEFINE at == currentTableIndex[o]
             end == endTableIndex[o]
             from == rendered[o]
             time == ctx.timestamp[m]
  <2>1. /\ table[o] # NULL /\ end <= TableLength(o)
        /\ OnTime(time, blockStartTimestamp + from, end - at)
        /\ m \in Messages
    BY <1>1, <1>3 DEF PlayersOnTime
  <2>2. EndInTable(o) = end
    BY <1>1, <1>2, <2>1 DEF EndInTable
  <2>3. /\ endTableIndex'[o] = end
        /\ currentTableIndex'[o] = IF end - at <= 0 THEN at ELSE at + (to - from)
        /\ rendered'[o] = to
    BY <1>1, <1>3, <2>1, <2>2 DEF ProcessDspWithIndex, PlayOn
  <2>4. time \in Int /\ to \in Int
    BY <1>2, <2>1, Blocksize
  <2> HIDE DEF at, end, from, time
  <2>5. OnTime(time, blockStartTimestamp + to,
               end - (IF end - at <= 0 THEN at ELSE at + (to - from)))
    BY <1>2, <1>3, <2>1, <2>4, RenderedOnTime DEF at, end, from
  <2> QED
    BY <1>3, <2>1, <2>3, <2>5 DEF time, end, TableLength
<1>4. ASSUME NEW i \in Samples, Consume(o, i)
      PROVE  /\ (table[o] # NULL /\ endTableIndex[o] <= TableLength(o))'
             /\ OnTime(ctx'.timestamp[m], blockStartTimestamp' + rendered'[o],
                       endTableIndex'[o] - currentTableIndex'[o])
  <2>1. i \in 0 .. blockSizeInt
    BY Blocksize DEF Samples
  <2>2. /\ rendered[o] <= i /\ ProcessDspWithIndex(o, rendered[o], i)
        /\ UNCHANGED <<ctx, blockStartTimestamp, inFlight, outgoingMessage,
                       table, bufferLength, resized>>
    BY <1>2, <1>4, <2>1 DEF Consume
  <2> QED
    BY <1>3, <2>1, <2>2
<1>5. ASSUME Finish(o)
      PROVE  /\ (table[o] # NULL /\ endTableIndex[o] <= TableLength(o))'
             /\ OnTime(ctx'.timestamp[m], blockStartTimestamp' + rendered'[o],
                       endTableIndex'[o] - currentTableIndex'[o])
  <2>1. blockSizeInt \in 0 .. blockSizeInt /\ rendered[o] <= blockSizeInt
    BY <1>1, Blocksize
  <2>2. /\ ProcessDspWithIndex(o, rendered[o], blockSizeInt)
        /\ UNCHANGED <<ctx, blockStartTimestamp, inFlight, outgoingMessage,
                       table, bufferLength, resized>>
    BY <1>5 DEF Finish, contextVars
  <2> QED
    BY <1>3, <2>1, <2>2
<1>6. ASSUME NEW s \in Starts, NEW d \in PlayDurations, NEW n \in Messages,
             PlayTable(o, s, d, n)
      PROVE  /\ (table[o] # NULL /\ endTableIndex[o] <= TableLength(o))'
             /\ OnTime(ctx'.timestamp[m], blockStartTimestamp' + rendered'[o],
                       endTableIndex'[o] - currentTableIndex'[o])
  <2>1. /\ s \in Int /\ d \in Int /\ s >= 0 /\ d >= -1
        /\ now = blockStartTimestamp + rendered[o]
        /\ UNCHANGED <<blockStartTimestamp, rendered, table, bufferLength>>
    BY <1>6, PlayerAssumption DEF PlayTable, blockVars, Base, PlayersFine
  <2>2. table[o] # NULL /\ s < TableLength(o)
    BY <1>1, <1>6 DEF PlayTable
  <2>3. /\ ctx' = ScheduleMessage(CancelMessage(ctx, o, 1, outgoingMessage[o]),
                                  o, 1, n, DoneAt(o, s, d))
        /\ outgoingMessage'[o] = n /\ currentTableIndex'[o] = s
        /\ endTableIndex'[o] = EndIndex(o, s, d)
    BY <1>1, <1>2, <1>6, <2>1, <2>2 DEF PlayTable, CancelOutgoing
  <2>4. ctx'.timestamp[m] = DoneAt(o, s, d)
    BY <2>3, ScheduledInPlace
  <2>5. EndIndex(o, s, d) \in Int /\ EndIndex(o, s, d) <= TableLength(o)
        /\ s <= EndIndex(o, s, d)
    BY <1>1, <2>1, <2>2 DEF EndIndex
  <2> QED
    BY <1>2, <2>1, <2>2, <2>3, <2>4, <2>5 DEF DoneAt, OnTime, TableLength
<1>7. ASSUME NEW t \in Tables \cup {NULL}, SetTable(o, t)
      PROVE  UNCHANGED <<ctx, blockStartTimestamp, inFlight, playVars, rendered,
                         table, bufferLength>>
  BY <1>1, <1>7 DEF SetTable, contextVars, blockVars, Base, Typed, PlayerTypes
<1>8. ASSUME NEW t \in Tables \cup {NULL}, SetTable(o, t)
      PROVE  /\ (table[o] # NULL /\ endTableIndex[o] <= TableLength(o))'
             /\ OnTime(ctx'.timestamp[m], blockStartTimestamp' + rendered'[o],
                       endTableIndex'[o] - currentTableIndex'[o])
  <2>1. ~ resized[o]
    BY <1>1, <1>8 DEF SetTable
  <2> QED
    BY <1>7, <1>8, <2>1 DEF PlayersOnTime, playVars, TableLength
<1> QED
  BY <1>4, <1>5, <1>6, <1>8 DEF PlayerStep

\* What changes a player, the block or the message that is being sent.
LEMMA WhoMovesPlayers ==
    ASSUME [Next]_vars
    PROVE  \/ RunPlayer /\ UNCHANGED <<blockStartTimestamp, inFlight>>
           \/ ResizeTable
           \/ \E entry \in Entries : Send(entry)
           \/ Return
           \/ EndBlock
           \/ UNCHANGED <<playerVars, blockStartTimestamp, inFlight>>
PROOF
<1>1. CASE OtherStep
  BY <1>1 DEF OtherStep, ScheduleExternal, BeginCascade, BeginProcess, BeginDsp
<1>2. CASE RunPlayer
  BY <1>2 DEF RunPlayer, PlayerStep, Consume, Finish, PlayTable, SetTable,
              contextVars
<1>3. CASE ReceiveDelay \/ ReceiveMetro \/ ReceiveLine \/ ReceivePipe
               \/ LoopOfPipe
  BY <1>3, InCascade DEF ReceiveDelay, ReceiveMetro, ReceiveLine, ReceivePipe,
                         LoopOfPipe
<1>4. CASE UNCHANGED vars
  BY <1>4 DEF vars, contextVars
<1> QED
  BY <1>1, <1>2, <1>3, <1>4 DEF Next

LEMMA PlayersOnTimeNext ==
    ASSUME Base, PlayersOnTime, [Next]_vars
    PROVE  PlayersOnTime'
PROOF
<1> SUFFICES ASSUME NEW o \in Players, NEW m, m = outgoingMessage'[o],
                    m \notin {NULL, inFlight'}, ~ resized'[o]
             PROVE  /\ (table[o] # NULL /\ endTableIndex[o] <= TableLength(o))'
                    /\ OnTime(ctx'.timestamp[m],
                              blockStartTimestamp' + rendered'[o],
                              endTableIndex'[o] - currentTableIndex'[o])
  BY DEF PlayersOnTime
<1> DEFINE Goal == /\ (table[o] # NULL /\ endTableIndex[o] <= TableLength(o))'
                   /\ OnTime(ctx'.timestamp[m],
                             blockStartTimestamp' + rendered'[o],
                             endTableIndex'[o] - currentTableIndex'[o])
<1>1. /\ o \in Timers /\ NULL \notin Players
      /\ held[o] = ({outgoingMessage[o]} \ {NULL}) \ {inFlight}
      /\ PlayersFine
  BY Kinds, HeldOfKinds, PlayerAssumption DEF Base
\* As long as the player has the same message, and as much of it to play, as
\* there was at a position of the same time.
<1>2. ASSUME m = outgoingMessage[o], m # inFlight, P!StepOfOthers(o),
             ~ resized[o],
             UNCHANGED <<currentTableIndex, endTableIndex, table, bufferLength>>,
             blockStartTimestamp' + rendered'[o]
                 = blockStartTimestamp + rendered[o]
      PROVE  Goal
  <2>1. ctx'.timestamp[m] = ctx.timestamp[m]
    BY <1>1, <1>2, KeepsWhatItHas
  <2> QED
    BY <1>2, <2>1 DEF PlayersOnTime, TableLength
<1>3. CASE o \in patch /\ PlayerStep(o) /\ RunPlayer
  BY <1>3, PlayerStepOnTime
<1>4. ASSUME NEW entry \in Entries, entry.object = o, PlayerSend(entry)
      PROVE  FALSE
  <2>1. entry.message \in held[o] /\ inFlight' = entry.message
    BY <1>1, <1>4, WhenDispatched DEF PlayerSend
  <2>2. outgoingMessage'[o] = outgoingMessage[o]
    BY <1>4 DEF PlayerSend, playVars
  <2> QED
    BY <1>1, <2>1, <2>2
<1>5. CASE Acts(o)
  BY <1>1, <1>3, <1>4, <1>5, ActsOfKinds
<1>6. CASE P!StepOfOthers(o)
  <2>1. CASE EndBlock
    <3>1. /\ EndProcess /\ NewBlock
          /\ \A p \in Players \cap patch : rendered[p] = blockSizeInt
      BY <2>1 DEF EndBlock
    <3>2. /\ rendered'[o] = 0 /\ cascade = "none"
          /\ blockStartTimestamp' = blockStartTimestamp + blockSizeInt
          /\ UNCHANGED <<outgoingMessage, currentTableIndex, endTableIndex,
                         table, bufferLength, resized, inFlight>>
      BY <3>1 DEF NewBlock, EndProcess, nextBlockStartTimestamp, blockSizeInt,
                  playVars
    <3>3. o \in patch
      BY <3>2 DEF Base, Typed, PlayerTypes
    <3>4. blockStartTimestamp' + rendered'[o]
              = blockStartTimestamp + rendered[o]
      BY <3>1, <3>2, <3>3, Blocksize, ContextTimes
    <3> QED
      BY <1>2, <1>6, <3>2, <3>4
  <2>2. CASE Return
    <3>1. /\ m = IF o = sending THEN NULL ELSE outgoingMessage[o]
          /\ UNCHANGED <<currentTableIndex, endTableIndex, table,
                         bufferLength, resized, rendered, blockStartTimestamp>>
      BY <2>2 DEF Return, PlayerReturn, EndCascade, blockVars
    <3>2. m = outgoingMessage[o] /\ o # sending
      BY <3>1
    <3>3. m # inFlight
      BY <1>1, <3>2 DEF PlayersFine
    <3> QED
      BY <1>2, <1>6, <3>1, <3>2, <3>3
  <2>3. ASSUME NEW entry \in Entries, Send(entry), ~ Acts(o)
        PROVE  Goal
    <3>1. /\ UNCHANGED <<playVars, rendered, table, bufferLength, resized,
                         blockStartTimestamp>>
      BY <2>3 DEF Send, DelaySend, MetroSend, LineSend, PipeSend, PlayerSend,
                  Dispatch, playerVars, playVars, blockVars
    <3>2. inFlight = NULL
      BY <2>3, WhenDispatched
         DEF Send, DelaySend, MetroSend, LineSend, PipeSend, PlayerSend
    <3> QED
      BY <1>2, <1>6, <3>1, <3>2 DEF playVars
  <2>4. ASSUME UNCHANGED <<blockStartTimestamp, inFlight>>, RunPlayer, ~ Acts(o)
        PROVE  Goal
    <3>1. PICK p \in Players \cap patch : PlayerStep(p)
      BY <2>4 DEF RunPlayer
    <3>2. p # o
      BY <2>4, <3>1 DEF Acts
    <3>3. /\ outgoingMessage'[o] = outgoingMessage[o]
          /\ currentTableIndex'[o] = currentTableIndex[o]
          /\ endTableIndex'[o] = endTableIndex[o]
          /\ rendered'[o] = rendered[o]
          /\ table'[o] = table[o] /\ bufferLength' = bufferLength
          /\ resized'[o] = resized[o]
      BY <3>1, <3>2
         DEF PlayerStep, Consume, Finish, PlayTable, SetTable,
             ProcessDspWithIndex, PlayOn, Base, Typed, PlayerTypes, playVars,
             blockVars
    <3>4. ctx'.timestamp[m] = ctx.timestamp[m]
      BY <1>1, <1>6, <2>4, <3>3, KeepsWhatItHas
    <3> QED
      BY <2>4, <3>3, <3>4 DEF PlayersOnTime, TableLength
  <2>5. CASE ResizeTable
    <3>1. PICK t \in Tables, length \in Lengths : ResizeBuffer(t, length)
      BY <2>5 DEF ResizeTable
    <3>2. ~ resized[o] /\ table[o] # t
      BY <3>1 DEF ResizeBuffer
    <3>3. /\ UNCHANGED <<contextVars, playVars, blockVars, table>>
          /\ table[o] # NULL => bufferLength'[table[o]] = bufferLength[table[o]]
      BY <3>1, <3>2 DEF ResizeBuffer, Base, Typed, PlayerTypes
    <3> QED
      BY <3>2, <3>3 DEF PlayersOnTime, TableLength, contextVars, playVars, blockVars
  <2>6. CASE UNCHANGED <<playerVars, blockStartTimestamp, inFlight>>
    BY <1>2, <1>6, <2>6 DEF playerVars, playVars, blockVars
  <2>7. CASE ~ Acts(o)
    BY <2>1, <2>2, <2>3, <2>4, <2>5, <2>6, <2>7, WhoMovesPlayers
  <2> QED
    BY <1>5, <2>7
<1> QED
  BY <1>1, <1>5, <1>6, ActsOrNot

\* The bang of a player comes when its samples have been played, however many
\* blocks it takes and whatever messages come while it plays, as long as the
\* table keeps its length and the player its table (DspTablePlay::playTable
\* schedules the bang, and processDspWithIndex counts the samples).
THEOREM BangWhenItIsPlayed == Spec => []BangWhenPlayed
PROOF
<1>1. Init => Base /\ PlayersOnTime
  BY BaseInit DEF PlayersOnTime, Init, PlayerInit
<1>2. Base /\ PlayersOnTime /\ [Next]_vars => Base' /\ PlayersOnTime'
  BY BaseNext, PlayersOnTimeNext
<1>3. Base /\ PlayersOnTime => BangWhenPlayed
  <2> SUFFICES ASSUME Base, PlayersOnTime, NEW o \in Players, phase = "idle",
                      NEW m, m = outgoingMessage[o], m # NULL, ~ resized[o],
                      NEW left, left = endTableIndex[o] - currentTableIndex[o],
                      NEW due, due = ctx.timestamp[m] - blockStartTimestamp
               PROVE  IF left > 0 THEN due = left ELSE due <= 0
    BY DEF BangWhenPlayed
  <2>1. rendered[o] = 0 /\ inFlight = NULL
    BY DEF Base, PlayersFine
  <2>2. /\ left \in Int /\ blockStartTimestamp \in Int
        /\ m \in Messages /\ ctx.timestamp[m] \in Int
    BY ContextTimes DEF Base, Typed, PlayerTypes
  <2>3. OnTime(ctx.timestamp[m], blockStartTimestamp + rendered[o], left)
    BY <2>1 DEF PlayersOnTime
  <2> QED
    BY <2>1, <2>2, <2>3 DEF OnTime
<1> QED
  BY <1>1, <1>2, <1>3, PTL DEF Spec

\* What is read of a table is inside it, also when the table is cut while it
\* is played, and when the player is set to another table, or to none: the end
\* is looked at again before each part of a block, in the table that the
\* player then has (DspTablePlay::processDspWithIndex).
THEOREM PlayersReadTheTable == Spec => ReadsInsideTable
PROOF
<1>1. Base /\ [Next]_vars =>
          [\A o \in Players, i \in Samples :
               output'[o][i] # output[o][i] => output'[o][i] < TableLength(o)
          ]_<<contextVars, playerVars>>
  <2> SUFFICES ASSUME Base, [Next]_vars, ~ UNCHANGED <<contextVars, playerVars>>,
                      NEW o \in Players, NEW i \in Samples,
                      output'[o][i] # output[o][i]
               PROVE  output'[o][i] < TableLength(o)
    OBVIOUS
  <2>1. /\ currentTableIndex \in [Players -> Int]
        /\ endTableIndex \in [Players -> Int]
        /\ TableLength(o) \in Nat
        /\ output \in [Players -> [Samples -> Int]]
        /\ rendered \in [Players -> 0 .. blockSizeInt]
        /\ i \in Int
    BY Blocksize, LengthOfTable DEF Base, Typed, PlayerTypes
  <2>2. ASSUME NEW p \in Players, NEW to,
               ProcessDspWithIndex(p, rendered[p], to)
        PROVE  output'[o][i] < TableLength(o)
    <3> DEFINE remaining == EndInTable(p) - currentTableIndex[p]
               from == rendered[p]
    <3>1. p = o /\ table[p] # NULL
      BY <2>1, <2>2 DEF ProcessDspWithIndex, PlayOn
    <3>2. /\ remaining \in Int /\ EndInTable(p) <= TableLength(o)
          /\ currentTableIndex[p] \in Int /\ from \in Int
          /\ EndInTable(p) \in Int
      BY <2>1, <3>1, Blocksize DEF EndInTable
    <3>3. output'[o][i] =
              IF remaining <= 0 THEN Silence
              ELSE IF i < from \/ i >= to THEN output[o][i]
              ELSE IF i - from < remaining THEN currentTableIndex[p] + i - from
              ELSE Silence
      BY <2>1, <2>2, <3>1 DEF ProcessDspWithIndex, PlayOn
    <3>4. Silence < TableLength(o)
      BY <2>1 DEF Silence
    <3>5. i - from < remaining => currentTableIndex[p] + i - from < TableLength(o)
      BY <2>1, <3>2
    <3> HIDE DEF remaining, from
    <3> QED
      BY <3>3, <3>4, <3>5
  <2>3. CASE RunPlayer
    BY <2>2, <2>3
       DEF RunPlayer, PlayerStep, Consume, Finish, PlayTable, SetTable, blockVars
  <2>4. CASE EndBlock
    <3>1. output'[o][i] = Stale
      BY <2>4 DEF EndBlock, NewBlock
    <3> QED
      BY <2>1, <3>1 DEF Stale
  <2>5. output' = output \/ RunPlayer \/ EndBlock
    BY WhoChangesPlayers
       DEF ResizeTable, ResizeBuffer, PlayerSend, Return, PlayerReturn,
           playerVars, blockVars
  <2> QED
    BY <2>3, <2>4, <2>5
<1> QED
  BY <1>1, BaseAlways, PTL DEF Spec, ReadsInsideTable

=============================================================================
