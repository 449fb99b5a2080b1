----------------------------- MODULE TimedPatch -----------------------------
(***************************************************************************)
(* A patch of timed objects on one context: any of the [delay], [metro],   *)
(* [line], [pipe] and [tabplay~] of the modules below, connected in any    *)
(* way.  In a cascade each object may receive any message at any time, so  *)
(* that every order in which the patch's connections could call them is a  *)
(* behaviour; an object is reached from its own outlet too.                *)
(*                                                                         *)
(* It implements TimedObjects: what that module says of the queue and the  *)
(* heap holds for objects of different kinds that share them.              *)
(***************************************************************************)
EXTENDS MessageDelay, MessageMetro, MessageLine, MessagePipe, DspTablePlay

CONSTANT Patches \* sets of objects; a patch is one of them

Timers == DelayObjects \cup Metros \cup Lines \cup Pipes \cup Players

\* Each object is of one kind.
ASSUME PatchAssumption ==
    /\ Patches \subseteq SUBSET Timers
    /\ Objects = Timers \cup {SendController}
    /\ DelayObjects \cap (Metros \cup Lines \cup Pipes \cup Players) = {}
    /\ Metros \cap (Lines \cup Pipes \cup Players) = {}
    /\ Lines \cap (Pipes \cup Players) = {}
    /\ Pipes \cap Players = {}

VARIABLE patch \* the objects there are

vars == <<contextVars, delayVars, metroVars, lineVars, pipeVars, playerVars,
          patch>>

Init ==
    /\ patch \in Patches
    /\ ContextInit
    /\ DelayInit(patch)
    /\ MetroInit(patch)
    /\ LineInit(patch)
    /\ PipeInit(patch)
    /\ PlayerInit(patch)

-----------------------------------------------------------------------------
\* The calls of the cascade are all inside of an object's sendMessage: no
\* object is in the middle of its processMessage.
Reachable == PatchRuns /\ consuming = NULL

ReceiveDelay ==
    /\ Reachable
    /\ \E o \in DelayObjects \cap patch : DelayStep(o)
    /\ UNCHANGED <<metroVars, lineVars, pipeVars, playerVars, patch>>

ReceiveMetro ==
    /\ Reachable
    /\ \E o \in Metros \cap patch : MetroStep(o)
    /\ UNCHANGED <<delayVars, lineVars, pipeVars, playerVars, patch>>

ReceiveLine ==
    /\ Reachable
    /\ \E o \in Lines \cap patch : LineStep(o)
    /\ UNCHANGED <<delayVars, metroVars, pipeVars, playerVars, patch>>

ReceivePipe ==
    /\ Reachable
    /\ \E o \in Pipes \cap patch : PipeStep(o)
    /\ UNCHANGED <<delayVars, metroVars, lineVars, playerVars, patch>>

LoopOfPipe ==
    /\ PipeLoops
    /\ UNCHANGED <<delayVars, metroVars, lineVars, playerVars, patch>>

RunPlayer ==
    /\ \E o \in Players \cap patch : PlayerStep(o)
    /\ UNCHANGED <<delayVars, metroVars, lineVars, pipeVars, patch>>

\* The host, between blocks, or a message to the table.
ResizeTable ==
    /\ phase = "idle" \/ Reachable
    /\ Players \cap patch # {}
    /\ \E t \in Tables, length \in Lengths : ResizeBuffer(t, length)
    /\ UNCHANGED <<delayVars, metroVars, lineVars, pipeVars, patch>>

\* process() sends the first message of the queue, as its object does it.
Send(entry) ==
    /\ \/ /\ DelaySend(entry)
          /\ UNCHANGED <<metroVars, lineVars, pipeVars, playerVars>>
       \/ /\ MetroSend(entry)
          /\ UNCHANGED <<delayVars, lineVars, pipeVars, playerVars>>
       \/ /\ LineSend(entry)
          /\ UNCHANGED <<delayVars, metroVars, pipeVars, playerVars>>
       \/ /\ PipeSend(entry)
          /\ UNCHANGED <<delayVars, metroVars, lineVars, playerVars>>
       \/ /\ PlayerSend(entry)
          /\ UNCHANGED <<delayVars, metroVars, lineVars, pipeVars>>
       \/ /\ entry.object = SendController
          /\ Dispatch(entry)
          /\ ctx' = Popped(entry)
          /\ UNCHANGED <<delayVars, metroVars, lineVars, pipeVars, playerVars>>
    /\ UNCHANGED patch

\* The outermost call of a cascade returns.
Return ==
    /\ loops = <<>>
    /\ EndCascade
    /\ LineReturn
    /\ PlayerReturn
    /\ UNCHANGED <<delayVars, metroVars, pipeVars, patch>>

\* The graphs have been run when each of their objects has its block.
EndBlock ==
    /\ \A o \in Players \cap patch : rendered[o] = blockSizeInt
    /\ EndProcess
    /\ NewBlock
    /\ UNCHANGED <<delayVars, metroVars, lineVars, pipeVars, patch>>

OtherStep ==
    /\ \/ \E n \in Outlets, t \in DirectTimes, m \in Fresh(ctx) :
              ScheduleExternal(n, t, m)
       \/ \E t \in DirectTimes : BeginCascade(t)
       \/ BeginProcess
       \/ BeginDsp
    /\ UNCHANGED <<delayVars, metroVars, lineVars, pipeVars, playerVars, patch>>

Next ==
    \/ ReceiveDelay \/ ReceiveMetro \/ ReceiveLine \/ ReceivePipe
    \/ LoopOfPipe
    \/ RunPlayer
    \/ ResizeTable
    \/ \E entry \in Entries : Send(entry)
    \/ Return
    \/ EndBlock
    \/ OtherStep

Spec == Init /\ [][Next]_vars

-----------------------------------------------------------------------------
(* The patch as timed objects.                                             *)

\* The pointers an object keeps.  A player forgets its pointer only after it
\* has sent the bang; what it is told meanwhile has to wait for the graphs to
\* run, and finds the pointer gone.
Held(o) ==
    IF o \in Pipes THEN Alive(o)
    ELSE ({IF o \in DelayObjects THEN scheduledMessage[o]
           ELSE IF o \in Metros THEN pendingMessage[o]
           ELSE IF o \in Lines THEN line[o].pendingMessage
           ELSE outgoingMessage[o]} \ {NULL})
             \ (IF o \in Players THEN {inFlight} ELSE {})

held == [o \in Timers |-> Held(o)]
retimed == BeingSent

TimedOutlet == [o \in Timers |-> IF o \in Players THEN 1 ELSE 0]
Delays == DelayTimes \cup Intervals \cup Grains \cup PipeDelays \cup PlayTimes

\* When a player can consume a message.
Blocks == 0 .. MaxBlocks * BlockDuration + BlockDuration - 1

Timed == INSTANCE TimedObjects WITH Trackers <- Timers,
                                    DirectTimes <- DirectTimes \cup Blocks

\* Every object of the library that keeps a message in the queue, beside any
\* other and called back by any other while it runs its own handler, does
\* nothing to the queue and the heap that TimedObjects does not allow: it
\* cancels only what it has queued, with the outlet it was queued with, and
\* has no pointer to a message that was delivered, cancelled or flushed.
IsTimed == Timed!Spec

=============================================================================
