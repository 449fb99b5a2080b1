---------------------------- MODULE DspTablePlay ----------------------------
(***************************************************************************)
(* [tabplay~] (DspTablePlay.cpp): plays a part of a table and sends a bang *)
(* when it has been played.  The end is reached twice, by the bang that is *)
(* scheduled when playing starts, and by the samples that are copied block *)
(* by block; in between the table may change its length, and the player be *)
(* set to another table.                                                   *)
(*                                                                         *)
(* Time is counted in samples.  tabplay~ is a DspObject: it renders the    *)
(* block up to the index of each message it has received, processes the    *)
(* message, and goes on from there (DspObject is about this loop; here its *)
(* messages come in order, at indices of the block).                       *)
(***************************************************************************)
EXTENDS PdContext

CONSTANTS
    Players,   \* the [tabplay~] objects of the patch
    Tables,
    Starts,    \* the start indices that a patch sends
    PlayDurations, \* the durations, -1 for the rest of the table
    Lengths    \* the lengths that the tables are given

ASSUME PlayerAssumption ==
    /\ Players \subseteq Objects \ {SendController}
    /\ NULL \notin Players \cup Tables
    /\ Starts \subseteq Int
    /\ PlayDurations \subseteq Int
    /\ Lengths \subseteq Nat \ {0}
    /\ {0, 1} \subseteq Outlets

VARIABLES
    outgoingMessage,
    currentTableIndex,
    endTableIndex,
    table,        \* of each player, or NULL
    bufferLength, \* of each table
    sending,      \* the player whose sendMessage runs, or NULL
    consuming,    \* the player whose processMessage runs, or NULL
    rendered,     \* how much of the block each player has rendered
    output,       \* the table index that each sample of the block was read
                  \* from, or Silence, or Stale when it was not written yet
    resized       \* history: its table has changed since a player started

playVars == <<outgoingMessage, currentTableIndex, endTableIndex>>
blockVars == <<rendered, output>>
playerVars ==
    <<playVars, blockVars, table, bufferLength, sending, consuming, resized>>

Silence == -1
Stale == -2
blockSizeInt == BlockDuration
Samples == 0 .. blockSizeInt - 1

\* Without a player in the patch the tables are of no interest.
PlayerInit(patch) ==
    /\ outgoingMessage = [o \in Players |-> NULL]
    /\ currentTableIndex = [o \in Players |-> 0]
    /\ endTableIndex = [o \in Players |-> 0]
    /\ IF Players \cap patch = {}
       THEN /\ table = [o \in Players |-> NULL]
            /\ bufferLength = [t \in Tables |-> 0]
       ELSE /\ table \in [Players -> Tables \cup {NULL}]
            /\ bufferLength \in [Tables -> Lengths]
    /\ sending = NULL
    /\ consuming = NULL
    /\ rendered = [o \in Players |-> 0]
    /\ output = [o \in Players |-> [i \in Samples |-> Stale]]
    /\ resized = [o \in Players |-> FALSE]

-----------------------------------------------------------------------------
(* The samples.                                                            *)

\* Mistaken: the end of a table that was cut short is not looked at again.
EndAsAsked(o) == endTableIndex[o]

TableLength(o) == IF table[o] = NULL THEN 0 ELSE bufferLength[table[o]]

\* The end, "in case the table length has been reset while tabplay~ is
\* playing the buffer".
EndInTable(o) == IF TableLength(o) < endTableIndex[o] THEN TableLength(o)
                                                       ELSE endTableIndex[o]

\* Writes the samples from `from' up to `to', but when there is nothing left
\* to play clears those of the whole block.
PlayOn(o, from, to) ==
    LET remaining == EndInTable(o) - currentTableIndex[o]
    IN  /\ endTableIndex' = [endTableIndex EXCEPT ![o] = EndInTable(o)]
        /\ output' = [output EXCEPT ![o] =
               [i \in Samples |->
                   IF remaining <= 0 THEN Silence
                   ELSE IF i < from \/ i >= to THEN @[i]
                   ELSE IF i - from < remaining
                        THEN currentTableIndex[o] + i - from
                   ELSE Silence]]
        /\ currentTableIndex' = [currentTableIndex EXCEPT ![o] =
               IF remaining <= 0 THEN @ ELSE @ + (to - from)]

\* Without a table the samples are left as they are.
ProcessDspWithIndex(o, from, to) ==
    /\ IF table[o] = NULL
       THEN UNCHANGED <<currentTableIndex, endTableIndex, output>>
       ELSE PlayOn(o, from, to)
    /\ rendered' = [rendered EXCEPT ![o] = to]

\* The block is rendered up to the index of a message, which is processed.
Consume(o, index) ==
    /\ phase = "dsp"
    /\ cascade = "none"
    /\ index >= rendered[o]
    /\ ProcessDspWithIndex(o, rendered[o], index)
    /\ consuming' = o
    /\ cascade' = "direct"
    /\ now' = blockStartTimestamp + index
    /\ UNCHANGED <<ctx, blockStartTimestamp, phase, inFlight,
                   outgoingMessage, table, bufferLength, sending, resized>>

\* The rest of the block.
Finish(o) ==
    /\ phase = "dsp"
    /\ cascade = "none"
    /\ rendered[o] < blockSizeInt
    /\ ProcessDspWithIndex(o, rendered[o], blockSizeInt)
    /\ UNCHANGED <<contextVars, outgoingMessage, table, bufferLength, sending,
                   consuming, resized>>

\* The buffers are written anew in the next block.
NewBlock ==
    /\ rendered' = [o \in Players |-> 0]
    /\ output' = [o \in Players |-> [i \in Samples |-> Stale]]
    /\ UNCHANGED <<playVars, table, bufferLength, sending, consuming, resized>>

-----------------------------------------------------------------------------
(* The messages.                                                           *)

CancelOutgoing(o) == CancelMessage(ctx, o, 1, outgoingMessage[o])

\* The index to play to.
EndIndex(o, start, duration) ==
    IF duration = -1 \/ start + duration > TableLength(o)
    THEN TableLength(o)
    ELSE start + duration

\* Mistaken: the bang is due a sample early.
DoneEarly(o, start, duration) == now + EndIndex(o, start, duration) - start - 1

\* When the part that starts now will have been played.
DoneAt(o, start, duration) == now + EndIndex(o, start, duration) - start

\* playTable, on a bang or a float.  Indices out of range are ignored, and a
\* start past the end of the table only stops the playing.  (Left out is a
\* player without a table, whose missing buffer ends the program.)
PlayTable(o, start, duration, message) ==
    /\ consuming = o
    /\ table[o] # NULL
    /\ start >= 0 /\ duration >= -1
    /\ \/ /\ start < TableLength(o)
          /\ message \in Fresh(CancelOutgoing(o))
          /\ ctx' = ScheduleMessage(CancelOutgoing(o), o, 1, message,
                                    DoneAt(o, start, duration))
          /\ outgoingMessage' = [outgoingMessage EXCEPT ![o] = message]
          /\ currentTableIndex' = [currentTableIndex EXCEPT ![o] = start]
          /\ endTableIndex' = [endTableIndex EXCEPT
                                   ![o] = EndIndex(o, start, duration)]
       \/ /\ start >= TableLength(o)
          /\ ctx' = CancelOutgoing(o)
          /\ outgoingMessage' = [outgoingMessage EXCEPT ![o] = NULL]
          /\ currentTableIndex' = [currentTableIndex EXCEPT
                                       ![o] = TableLength(o)]
          /\ UNCHANGED endTableIndex
    /\ resized' = [resized EXCEPT ![o] = FALSE]
    /\ UNCHANGED <<blockStartTimestamp, phase, cascade, now, inFlight,
                   blockVars, table, bufferLength, sending, consuming>>

\* The message set: the table of another name, or none if no table has it.
\* What is played goes on in it.  Or, between blocks, a table of the player's
\* name is registered, or the player is unregistered.
SetTable(o, t) ==
    /\ consuming = o \/ phase = "idle"
    /\ table' = [table EXCEPT ![o] = t]
    /\ resized' = [resized EXCEPT ![o] = @ \/ t # table[o]]
    /\ UNCHANGED <<contextVars, playVars, blockVars, bufferLength, sending,
                   consuming>>

\* The host sets a table's buffer, or a message resizes it.
ResizeBuffer(t, length) ==
    /\ phase = "idle" \/ cascade # "none"
    /\ bufferLength' = [bufferLength EXCEPT ![t] = length]
    /\ resized' = [o \in Players |-> resized[o] \/ table[o] = t]
    /\ UNCHANGED <<contextVars, playVars, blockVars, table, sending, consuming>>

\* sendMessage from process(): a player sends its bang before it forgets it.
PlayerSend(entry) ==
    /\ entry.object \in Players
    /\ Dispatch(entry)
    /\ ctx' = Popped(entry)
    /\ sending' = entry.object
    /\ UNCHANGED <<playVars, blockVars, table, bufferLength, consuming, resized>>

\* The calls of a player's sendMessage and processMessage return.
PlayerReturn ==
    /\ outgoingMessage' = [o \in Players |-> IF o = sending
                                             THEN NULL
                                             ELSE outgoingMessage[o]]
    /\ sending' = NULL
    /\ consuming' = NULL
    /\ UNCHANGED <<currentTableIndex, endTableIndex, blockVars, table,
                   bufferLength, resized>>

PlayerStep(o) ==
    \/ \E i \in Samples : Consume(o, i)
    \/ Finish(o)
    \/ \E s \in Starts, d \in PlayDurations, m \in Messages :
           PlayTable(o, s, d, m)
    \/ \E t \in Tables \cup {NULL} : SetTable(o, t)

-----------------------------------------------------------------------------
\* The delays of the bangs.
PlayTimes == UNION {0 .. l : l \in Lengths}

\* The bang and the samples agree on when the part has been played, however
\* many blocks and messages it takes: between blocks, the bang is as far off as
\* there are samples left to play.  (Said of a part whose table keeps its
\* length, and of a player that is not set to another table while it plays:
\* neither puts off the bang.)
BangWhenPlayed ==
    \A o \in Players :
        LET left == endTableIndex[o] - currentTableIndex[o]
            due == ctx.timestamp[outgoingMessage[o]] - blockStartTimestamp
        IN  phase = "idle" /\ outgoingMessage[o] # NULL /\ ~ resized[o]
                => IF left > 0 THEN due = left ELSE due <= 0

\* A player reads only samples that its table has, even if the table is cut
\* while it is played, or the player is set to a shorter one or to none
\* between two parts of a block.
ReadsInsideTable ==
    [][\A o \in Players, i \in Samples :
           output'[o][i] # output[o][i] => output'[o][i] < TableLength(o)
      ]_<<contextVars, playerVars>>

=============================================================================
