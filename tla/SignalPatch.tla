----------------------------- MODULE SignalPatch -----------------------------
(***************************************************************************)
(* A patch of audio objects: DspObject says which part of the block each   *)
(* one computes and when it processes a message; here it computes it and   *)
(* processes it, as DspArithmetic, DspBuffers and DspShapes say.         *)
(*                                                                         *)
(* The host's input is a ramp, from which a sample tells its time, and a   *)
(* second channel of ones and twos.  An outlet's buffer keeps what was in  *)
(* it where nothing is written.  A step that the code does not survive     *)
(* ends the behaviour.                                                     *)
(***************************************************************************)
EXTENDS DspObject, DspBuffers, DspShapes

CONSTANTS
    Kind,        \* the label of an object
    Arguments,   \* the arguments it may have been made with
    SourcesOf,   \* what is connected to its audio inlets
    adc_1, adc_2, Silent, \* the host's input channels and the zero buffer
    BuildsOf,    \* the builds that are worth telling apart for it
    MessagesTo,  \* the messages it may receive
    Offsets,     \* ticks into the block at which it may receive them
    DirectTimes, \* those that the host's direct messages to it may carry
    TableLengths,
    MaxMessages  \* a bound on the number of messages from the patch and host

ASSUME SignalAssumption ==
    /\ \A o \in DspObjects : BuildsOf[o] \subseteq Builds
    /\ \A l \in TableLengths : l \in Nat \ {0}
    /\ \A o \in Adapts : Kind[o] \in Arithmetic \cup {"log~"}
    /\ {adc_1, adc_2, Silent} \cap DspObjects = {}
    /\ adc_1 # adc_2 /\ Silent \notin {adc_1, adc_2}
    /\ \A o \in DspObjects : /\ Arguments[o] \subseteq Seq(Int)
                             /\ \A message \in MessagesTo[o] :
                                    message.floats \in Seq(Int)
    /\ BlockSize % 8 = 0
    /\ Outside \in Int
    /\ Offsets \subseteq Nat
    /\ DirectTimes \in [DspObjects -> SUBSET Int]
    /\ MaxMessages \in Nat

VARIABLES
    build,
    signal,      \* each object's record
    output,      \* the channels that the host will hear
    connected,   \* those of Adapts that have audio at the right inlet as well
    tableLength, \* of the table that is read
    lost,        \* the process has died
    messages,    \* the number of messages so far
    seen         \* history: what was in force at each sample of the block
                 \* (setBy), the number an object was given (given), the course
                 \* that a line~ was (path), the block before (before), whether
                 \* a filter was cleared, or a vline~ asked for no sample
                 \* (disturbed)

signalVars ==
    <<build, signal, output, connected, tableLength, lost, messages, seen>>
vars == <<dspVars, signalVars>>

-----------------------------------------------------------------------------
zeros == [k \in Part(0, BlockSize) |-> 0]
unwritten == [k \in Part(0, BlockSize) |-> Outside]

\* noise~ gives any samples, and never looks at its messages.
NewDspNoise ==
    [lets |-> <<1, 0, 0, 1>>, functions |-> <<"signal", "default">>, out |-> zeros]
NewDspSnapshot == [lets |-> <<1, 1, 1, 0>>, functions |-> <<"null", "null">>]

NewObject(o, arguments) ==
    CASE Kind[o] = "+~" -> NewDspAdd(arguments, zeros)
      [] Kind[o] = "-~" -> NewDspSubtract(arguments, zeros)
      [] Kind[o] = "*~" -> NewDspMultiply(arguments, zeros)
      [] Kind[o] = "/~" -> NewDspDivide(arguments, zeros)
      [] Kind[o] = "min~" -> NewDspMinimum(arguments, zeros)
      [] Kind[o] = "sig~" -> NewDspSignal(arguments, zeros)
      [] Kind[o] = "clip~" -> NewDspClip(arguments, zeros)
      [] Kind[o] = "wrap~" -> NewDspWrap(zeros)
      [] Kind[o] = "log~" -> NewDspLog(arguments, zeros)
      [] Kind[o] = "sqrt~" -> NewDspSqrt(zeros)
      [] Kind[o] = "rsqrt~" -> NewDspReciprocalSqrt(zeros)
      [] Kind[o] = "cos~" -> NewDspCosine(zeros)
      [] Kind[o] = "lop~" -> NewDspLowpassFilter(arguments, zeros)
      [] Kind[o] = "hip~" -> NewDspHighpassFilter(arguments, zeros)
      [] Kind[o] = "bp~" -> NewDspBandpassFilter(arguments, zeros)
      [] Kind[o] = "delwrite~" -> NewDspDelayWrite(arguments, BlockSize)
      [] Kind[o] = "delread~" -> NewDspDelayRead(arguments, zeros)
      [] Kind[o] = "vd~" -> NewDspVariableDelay(zeros)
      [] Kind[o] = "tabread~" -> NewDspTableRead(zeros)
      [] Kind[o] = "tabread4~" -> NewDspTableRead4(zeros)
      [] Kind[o] = "line~" -> NewDspLine(zeros)
      [] Kind[o] = "vline~" -> NewDspVariableLine(zeros)
      [] Kind[o] = "phasor~" -> NewDspPhasor(arguments, zeros, Outside)
      [] Kind[o] = "osc~" -> NewDspOsc(arguments, zeros)
      [] Kind[o] = "env~" -> NewDspEnvelope(arguments, BlockSize, Outside)
      [] Kind[o] = "throw~" -> NewDspThrow(arguments, unwritten)
      [] Kind[o] = "catch~" -> NewDspCatch(arguments, zeros)
      [] Kind[o] = "send~" -> NewDspSend(arguments, unwritten)
      [] Kind[o] = "receive~" -> NewDspReceive(arguments, unwritten)
      [] Kind[o] = "noise~" -> NewDspNoise
      [] Kind[o] = "snapshot~" -> NewDspSnapshot
      [] Kind[o] = "dac~" -> NewDspDac(2)

\* A connection of audio changes processFunction (onInletConnectionUpdate): all
\* patches have one at the left inlet of those that adapt, and phasor~ has one
\* that it runs its processSignal for.
HandlesMessages(o, d) ==
    \/ o \in Adapts
    \/ /\ d.functions[1] = d.functions[2]
       /\ Kind[o] = "phasor~" => SourcesOf[o][1] = Silent

\* What DspObject is told of the objects is what their constructors do, and
\* messages and audio come to inlets that there are.
ASSUME ConstructorAssumption ==
    \A o \in DspObjects : \A arguments \in Arguments[o] :
        LET d == NewObject(o, arguments) IN
        /\ o \in Handles <=> HandlesMessages(o, d)
        /\ \A message \in MessagesTo[o] : message.inlet \in 0 .. d.lets[1] - 1
        /\ Len(SourcesOf[o]) <= d.lets[2]

Fixed == {"wrap~", "sqrt~", "rsqrt~", "cos~"}
Settable == Arithmetic \cup {"sig~", "clip~", "log~"} \cup Fixed

Level == [start |-> 0, target |-> 0, t0 |-> 0, length |-> 0, stopped |-> FALSE,
          whole |-> TRUE]

Init ==
    /\ DspInit
    /\ build \in {b \in Builds : \A o \in patch : b \in BuildsOf[o]}
    /\ \E arguments \in [patch -> UNION Range(Arguments)] :
           /\ \A o \in patch : arguments[o] \in Arguments[o]
           /\ signal = [o \in patch |-> NewObject(o, arguments[o])]
    /\ output = <<zeros, zeros>>
    /\ connected = {}
    /\ tableLength \in TableLengths
    /\ lost = FALSE
    /\ messages = 0
    /\ seen = [o \in patch |->
                  [setBy |-> zeros, path |-> Level, disturbed |-> FALSE,
                   given |-> IF Kind[o] \in Settable \ Fixed
                             THEN signal[o].constant ELSE 0,
                   before |-> [out |-> zeros, setBy |-> zeros,
                               whole |-> TRUE, ran |-> FALSE]]]

-----------------------------------------------------------------------------
(* The buffers at the inlets.                                              *)

blockStart == blockStartTimestamp \div TicksPerSample

Host(t) == IF t < 0 THEN 0 ELSE Unit * (t + 1)
Host2(t) == (t % 2) + 1

\* A host with whole numbers gives those of both channels in turn.
HostShort(t, c) ==
    (((5 + 6 * c) * t) % (2 * ShortUnit)) - ShortUnit
WholeNumbers == \E o \in patch : Kind[o] = "dac~"
inputBuffers ==
    [i \in Part(0, 2 * BlockSize) |->
        HostShort(blockStart + (i \div 2), (i % 2) + 1)]

\* What comes from the host or from nowhere, at time t.
Input(source, t) ==
    CASE source = adc_1 -> Host(t) [] source = adc_2 -> Host2(t)
      [] source = Silent -> 0

Buffer(source) ==
    IF source \in patch THEN signal[source].out
    ELSE IF WholeNumbers
    THEN uninterleaved(inputBuffers, 2, BlockSize, IF source = adc_1 THEN 1 ELSE 2)
    ELSE [k \in DOMAIN zeros |-> Input(source, blockStart + k)]

Inlets(o) ==
    [i \in DOMAIN SourcesOf[o] |->
        IF i = 2 /\ o \in Adapts \ connected THEN zeros
        ELSE Buffer(SourcesOf[o][i])]

SampleRate == 1000 * SamplesPerMs

line == signal[CHOOSE o \in patch : Kind[o] = "delwrite~"]
\* The buffers of the throw~s of a name.
NameOf(o) == signal[o].name
ThrowsOf(o) ==
    SelectSeq(nodes, LAMBDA t : Kind[t] = "throw~" /\ NameOf(t) = NameOf(o))
throwList(o) == [i \in DOMAIN ThrowsOf(o) |-> signal[ThrowsOf(o)[i]].out]

SendsOf(o) == {s \in patch : Kind[s] = "send~" /\ NameOf(s) = NameOf(o)}

\* The inlet of a receive~.
Received(o) ==
    IF SendsOf(o) = {} THEN zeros
    ELSE LET send == CHOOSE s \in SendsOf(o) : TRUE
         IN  bufferOfSend(signal[o], signal[send], Inlets(send)[1])

table == [i \in Part(0, tableLength) |-> Unit * (i * i + 1)]

-----------------------------------------------------------------------------
(* The process functions.                                                  *)

\* Both audio inlets are connected: processSignal.
ProcessSignal(o, d, x) ==
    CASE Kind[o] = "+~" -> DspAddSignal(build, d, x, BlockSize)
      [] Kind[o] = "-~" -> DspSubtractSignal(build, d, x, BlockSize)
      [] Kind[o] = "*~" -> DspMultiplySignal(build, d, x, BlockSize)
      [] Kind[o] = "/~" -> DspDivideSignal(build, d, x, BlockSize)
      [] Kind[o] = "min~" -> DspMinimumSignal(d, x, BlockSize)
      [] Kind[o] = "log~" -> DspLogSignal(d)

\* A part of the block, or all of it.
ProcessPart(o, d, x, from, to) ==
    CASE Kind[o] = "+~" -> DspAdd(build, d, x, from, to)
      [] Kind[o] = "-~" -> DspSubtract(build, d, x, from, to)
      [] Kind[o] = "*~" -> DspMultiply(build, d, x, from, to)
      [] Kind[o] = "/~" -> DspDivide(build, d, x, from, to)
      [] Kind[o] = "min~" -> DspMinimum(d, x, from, to)
      [] Kind[o] = "sig~" -> DspSignal(build, d, from, to)
      [] Kind[o] = "clip~" -> DspClip(d, x, from, to)
      [] Kind[o] = "wrap~" -> DspWrap(d, x, to)
      [] Kind[o] = "log~" -> DspLog(build, d, x, from, to)
      [] Kind[o] = "sqrt~" -> DspSqrt(build, d, x, to, Outside)
      [] Kind[o] = "rsqrt~" -> DspReciprocalSqrt(d, x, to)
      [] Kind[o] = "cos~" -> DspCosine(d, x, SampleRate, from, to)
      [] Kind[o] \in Filters -> DspFilter(d, x, from, to)
      [] Kind[o] = "delwrite~" -> DspDelayWrite(d, x, to)
      [] Kind[o] = "delread~" -> DspDelayRead(d, line, to)
      [] Kind[o] = "vd~" -> DspVariableDelay(d, line, x, BlockSize)
      [] Kind[o] = "tabread~" ->
             DspTableRead(d, table, tableLength, x, from, to)
      [] Kind[o] = "tabread4~" ->
             DspTableRead4(d, table, tableLength, x, from, to)
      [] Kind[o] = "line~" -> DspLine(build, d, from, to)
      [] Kind[o] = "vline~" -> DspVariableLine(build, d, from, to, Outside)
      [] Kind[o] = "osc~" -> DspOsc(d, from, to)
      [] Kind[o] = "phasor~" ->
             IF SourcesOf[o][1] = Silent THEN DspPhasor(d, from, to, Outside)
                                         ELSE DspPhasorSignal(d, x, to)
      [] Kind[o] = "env~" -> DspEnvelope(d, x, to)
      [] Kind[o] = "throw~" -> DspThrow(d, x, to)
      [] Kind[o] = "send~" -> DspSend(d, x, to)
      [] Kind[o] = "receive~" -> DspReceive(d, Received(o), to)
      [] Kind[o] = "catch~" -> DspCatch(build, d, throwList(o), to)
      [] OTHER -> d

\* An osc~ with audio at its inlet looks at the frequency there first.
Present(o) ==
    IF Kind[o] = "osc~" /\ SourcesOf[o][1] # Silent
    THEN updateFrequency(signal[o], Inlets(o)) ELSE signal[o]

Processed(o, from, to) ==
    IF processFunction[o] = "other" /\ o \in Adapts
    THEN ProcessSignal(o, signal[o], Inlets(o))
    ELSE ProcessPart(o, Present(o), Inlets(o), from, to)

\* What the code does not survive: loops that count past zero, fours that are
\* not at a multiple of four, copies of negative length, and what is written
\* before the start of a buffer or past its end.
Dies(o, from, to) ==
    /\ ~ (processFunction[o] = "other" /\ o \in Adapts)
    /\ \/ /\ from < to /\ (from < 0 \/ to > BlockSize)
          /\ Kind[o] # "snapshot~"
       \/ /\ Kind[o] \in {"+~", "-~", "*~", "log~"}
          /\ build # "plain"
          /\ Overruns(build, from, to) \/ Misloads(build, from, to)
       \/ /\ Kind[o] = "/~"
          /\ build = "SSE"
          /\ Overruns(build, from, to) \/ Misloads(build, from, to)
       \/ Kind[o] = "sig~" /\ build # "plain" /\ Overruns(build, from, to)
       \/ /\ Kind[o] = "line~" /\ build # "plain"
          /\ signal[o].numSamplesToTarget <= 0 /\ from < to
          /\ Overruns(build, from, to)
       \/ /\ Kind[o] = "vline~" /\ build # "plain"
          /\ LET left == signal[o].numSamplesToTarget
             IN  \/ left <= 0 /\ Overruns(build, from, to)
                \/ /\ left > 0 /\ to - from >= left
                   /\ Overruns(build, from + left, to)
       \/ Kind[o] \in Filters /\ to < from
       \/ Kind[o] = "osc~" /\ to < FirstEight(from)
       \/ Kind[o] = "phasor~" /\ to < FirstFour(from)

-----------------------------------------------------------------------------
(* The messages.                                                           *)

ProcessedMessage(o, d, message) ==
    CASE Kind[o] \in {"+~", "-~", "*~", "min~"} -> TakesConstant(d, message)
      [] Kind[o] = "/~" -> TakesDivisor(d, message)
      [] Kind[o] = "sig~" -> TakesSignal(d, message)
      [] Kind[o] = "clip~" -> TakesBound(d, message)
      [] Kind[o] = "lop~" -> TakesLowpass(d, message)
      [] Kind[o] = "hip~" -> TakesHighpass(d, message)
      [] Kind[o] = "bp~" -> TakesBandpass(d, message)
      [] Kind[o] = "tabread~" -> TakesTable(d, message)
      [] Kind[o] = "tabread4~" -> TakesTable4(d, message)
      [] Kind[o] = "line~" -> TakesRamp(d, message)
      [] Kind[o] = "log~" -> TakesBase(d, message)
      [] Kind[o] = "vline~" -> TakesSegment(d, message)
      [] Kind[o] = "phasor~" -> TakesStep(d, message)
      [] Kind[o] = "osc~" -> TakesFrequency(d, message, Inlets(o))
      [] OTHER -> d

\* Mistaken: the index is rounded up, as that of the part is.
SnapshotAfter(o, entry) ==
    [inlet |-> 0, selector |-> "float",
     floats |-> <<At(Inlets(o)[1], BlockIndex(entry.time))>>]

\* snapshot~ answers a bang with the sample it has at the message's index,
\* rounded towards zero.
DspSnapshot(o, entry) ==
    LET ticks == entry.time - blockStartTimestamp
        blockIndex == IF ticks >= 0 THEN ticks \div TicksPerSample
                                    ELSE -((-ticks) \div TicksPerSample)
    IN  [inlet |-> 0, selector |-> "float",
         floats |-> <<At(Inlets(o)[1], blockIndex)>>]

-----------------------------------------------------------------------------
(* History.                                                                *)

\* Where a line~ or vline~ that was asked for this course is at time t.
PathAt(path, t) ==
    IF t >= path.t0 + path.length THEN path.target
    ELSE path.start + ((path.target - path.start) * (t - path.t0))
                          \div path.length

\* The samples that a line~ or vline~ is given for a ramp.
PathLength(o, message) ==
    LET ms == ArgumentOr(message.floats, 2, 0)
    IN  IF Len(message.floats) = 1 THEN 0
        ELSE IF Kind[o] = "vline~" THEN SamplesPerMs * ms
        ELSE rampInSamples(ms)

\* A ramp is whole if it and those before it rise by whole steps.
NewPath(o, path, message, t) ==
    LET here == PathAt(path, t)
        length == PathLength(o, message)
    IN  IF message.inlet # 0 THEN path
        ELSE IF message.floats # <<>>
        THEN [start |-> here, target |-> message.floats[1], t0 |-> t,
              length |-> length, stopped |-> FALSE,
              whole |-> \/ length = 0
                        \/ path.whole
                           /\ (message.floats[1] - here) % length = 0]
        ELSE IF Kind[o] = "vline~" /\ message.selector = "stop"
        THEN [path EXCEPT !.start = here, !.target = here, !.t0 = t,
                          !.length = 0, !.stopped = TRUE]
        ELSE path

\* The right inlet of arithmetic and the left one of sig~ take a number, the
\* others of clip~ its bounds.
Given(o, given, message) ==
    LET inlet == message.inlet
    IN  IF ~ isFloat(message, 1) THEN given
        ELSE IF Kind[o] = "log~"
        THEN IF inlet = 1 /\ message.floats[1] > 0 THEN message.floats[1]
             ELSE given
        ELSE IF Kind[o] = "clip~" /\ inlet \in {1, 2}
        THEN [given EXCEPT ![inlet] = message.floats[1]]
        ELSE IF \/ Kind[o] \in Arithmetic /\ inlet = 1
                \/ Kind[o] = "sig~" /\ inlet = 0
        THEN IF Kind[o] = "/~" /\ message.floats[1] = 0 THEN 1
             ELSE message.floats[1]
        ELSE given

Setting(o, d) ==
    CASE Kind[o] \in {"line~", "vline~"} -> seen[o].path
      [] Kind[o] \in Settable -> seen[o].given
      [] Kind[o] \in {"tabread~", "tabread4~"} -> <<d.offset, d.hasTable>>
      [] Kind[o] \in Filters \cup {"osc~", "phasor~"} -> d.constant
      [] OTHER -> 0

\* A part was computed.
Noted(o, from, to) ==
    [seen EXCEPT ![o].setBy =
        [k \in DOMAIN zeros |->
            IF k \in Part(from, to) THEN Setting(o, Present(o)) ELSE @[k]]]

AskedForNone(o, from, to) == Kind[o] = "vline~" /\ from = to

-----------------------------------------------------------------------------
Compute(from, to) ==
    IF Dies(Turn, from, to)
    THEN lost' = TRUE /\ UNCHANGED <<signal, output, seen>>
    ELSE /\ signal' = [signal EXCEPT ![Turn] = Processed(Turn, from, to)]
         /\ output' = IF Kind[Turn] = "dac~"
                      THEN DspDac(build, output, Inlets(Turn), to) ELSE output
         /\ seen' = [Noted(Turn, from, to) EXCEPT
                         ![Turn].disturbed = @ \/ AskedForNone(Turn, from, to)]
         /\ UNCHANGED lost

ComputeBlock ==
    /\ ProcessBlock
    /\ Compute(0, BlockSize)
    /\ UNCHANGED <<build, connected, tableLength, messages>>

ComputeRest ==
    /\ ProcessRest
    /\ Compute(blockIndexOfLastMessage, BlockSize)
    /\ UNCHANGED <<build, connected, tableLength, messages>>

ComputeToMessage ==
    /\ OnTurn /\ messageQueue[Turn] # <<>>
    /\ LET entry == Head(messageQueue[Turn])
           message == entry.message
           from == blockIndexOfLastMessage
           to == BlockIndex(entry.time)
           bang == Kind[Turn] = "snapshot~" /\ message.selector = "bang"
       IN  /\ ProcessMessage(IF bang THEN Feeds[Turn] ELSE {},
                             IF bang THEN DspSnapshot(Turn, entry) ELSE message)
           /\ IF Dies(Turn, from, to)
              THEN lost' = TRUE /\ UNCHANGED <<signal, seen>>
              ELSE /\ signal' = [signal EXCEPT ![Turn] =
                          ProcessedMessage(Turn, Processed(Turn, from, to),
                                           message)]
                   /\ seen' = [Noted(Turn, from, to)
                          EXCEPT ![Turn].path =
                                     NewPath(Turn, @, message, blockStart + to),
                                 ![Turn].given = Given(Turn, @, message),
                                 ![Turn].disturbed =
                                     \/ @ \/ message.selector = "clear"
                                     \/ AskedForNone(Turn, from, to)]
                   /\ UNCHANGED lost
    /\ UNCHANGED <<build, output, connected, tableLength, messages>>

EndBlock ==
    /\ EndProcess
    /\ seen' = [o \in patch |-> [seen[o] EXCEPT !.before =
                   [out |-> IF "out" \in DOMAIN signal[o]
                            THEN signal[o].out ELSE zeros,
                    setBy |-> seen[o].setBy,
                    whole |-> \A i \in DOMAIN rendered[o] :
                                  rendered[o][i].from % 8 = 0,
                    ran |-> rendered[o] # <<>>]]]
    /\ UNCHANGED <<build, signal, output, connected, tableLength, lost, messages>>

\* A message reaches an object, from the host or from the patch.
Tell(o) ==
    /\ messages < MaxMessages
    /\ messages' = messages + 1
    /\ \E message \in MessagesTo[o] :
           \/ \E t \in DirectTimes[o] :
                  SendDirect(o, blockStartTimestamp + t, message)
           \/ \E t \in Offsets : Receive(o, blockStartTimestamp + t, message)
    /\ UNCHANGED <<build, signal, output, connected, tableLength, lost, seen>>

\* The audio at the right inlet of an object is connected or cut.
Connect(o) ==
    LET both == o \notin connected
    IN  /\ onInletConnectionUpdate(o, IF both THEN "other" ELSE "noMessage")
        /\ connected' = IF both THEN connected \cup {o} ELSE connected \ {o}
        /\ UNCHANGED <<build, signal, output, tableLength, lost, messages, seen>>

\* A table may have another length whenever its readers do not run.
ResizeTable ==
    /\ phase \in {"idle", "messages"}
    /\ \E o \in patch : Kind[o] \in {"tabread~", "tabread4~"}
    /\ tableLength' \in TableLengths \ {tableLength}
    /\ UNCHANGED <<dspVars, build, signal, output, connected, lost, messages,
                   seen>>

\* The output is silent before the graph runs.
BeginBlock ==
    /\ BeginProcess
    /\ output' = <<zeros, zeros>>
    /\ UNCHANGED <<build, signal, connected, tableLength, lost, messages, seen>>

OtherStep ==
    /\ \/ \E g \in Switchable \cap UNION {Around[o] : o \in patch} : setSwitch(g)
       \/ BeginDsp \/ PassOver
    /\ UNCHANGED signalVars

Next ==
    /\ ~ lost
    /\ \/ \E o \in patch : Tell(o) \/ Connect(o)
       \/ ResizeTable
       \/ ComputeBlock \/ ComputeToMessage \/ ComputeRest
       \/ BeginBlock \/ EndBlock
       \/ OtherStep

Spec == Init /\ [][Next]_vars

-----------------------------------------------------------------------------
(* What the proofs assume of a patch besides.                              *)

\* An object runs after those that it hears, which the order of PdGraph gives
\* to patches without loops.
HearsBefore ==
    \A p \in Patches : \A i, j \in 1 .. Len(dspNodeList[p]) :
        (\E n \in DOMAIN SourcesOf[dspNodeList[p][j]] :
             SourcesOf[dspNodeList[p][j]][n] = dspNodeList[p][i])
        => i < j

\* A snapshot~ that sends hears the host's first channel, in a patch without a
\* dac~ and a graph without a switch~; its direct messages are of the time that
\* the block starts at, nothing sends to it while the graph runs, and no others
\* send numbers to the left inlet of what it feeds.
SnapshotsHearTheHost ==
    \A p \in Patches : \A s \in p : Feeds[s] # {} =>
        /\ Kind[s] = "snapshot~" /\ SourcesOf[s] = <<adc_1>>
        /\ Around[s] \cap Switchable = {} /\ DirectTimes[s] = {0}
        /\ \A o \in p : Kind[o] # "dac~" /\ s \notin Feeds[o]
        /\ \A o \in Feeds[s] : \A message \in MessagesTo[o] :
               message.selector = "float" => message.inlet # 0

\* What is at an object's left inlet comes from the host or from a sig~ to which
\* no snapshot~ sends.
IsGivenNumbers(p, o) ==
    /\ 1 \in DOMAIN SourcesOf[o]
    /\ \/ SourcesOf[o][1] \in {adc_1, adc_2, Silent}
       \/ /\ SourcesOf[o][1] \in p /\ Kind[SourcesOf[o][1]] = "sig~"
          /\ \A s \in p : SourcesOf[o][1] \notin Feeds[s]

\* What is read at places that a signal gives is given them so.
PlacesAreGiven ==
    \A p \in Patches : \A o \in p :
        Kind[o] \in {"vd~", "tabread~", "tabread4~"} => IsGivenNumbers(p, o)

\* Where a delay line is read there is one, of the host's first channel, in a
\* graph without a switch~ and a patch without a dac~, and no delay is negative.
DelayLinesHearTheHost ==
    \A p \in Patches : \A o \in p : Kind[o] \in {"delread~", "vd~"} =>
        /\ \A v \in p : Kind[v] # "dac~"
        /\ Kind[o] = "delread~" => \A a \in Arguments[o] : a[1] \in Nat
        /\ \E w \in p : /\ \A v \in p : Kind[v] = "delwrite~" <=> v = w
                        /\ SourcesOf[w] = <<adc_1>>
                        /\ Around[w] \cap Switchable = {}
                        /\ \A a \in Arguments[w] : a[1] \in Nat

\* What has a course is in a graph without a switch~, which would hold it up, and
\* has direct messages of the time that the block starts at only.  A filter and
\* an env~ hear the host's first channel, in a patch without a dac~; an osc~ and a
\* phasor~ are given numbers, a vline~ no ramp of negative length, and an env~
\* the length of its window.
Courses == {"line~", "vline~", "osc~", "phasor~", "env~"} \cup Filters

CoursesGoOn ==
    \A p \in Patches : \A o \in p : Kind[o] \in Courses =>
        /\ Around[o] \cap Switchable = {} /\ DirectTimes[o] = {0}
        /\ Kind[o] \in Filters \cup {"env~"} =>
               /\ SourcesOf[o] = <<adc_1>>
               /\ \A v \in p : Kind[v] # "dac~"
        /\ Kind[o] \in {"osc~", "phasor~"} => IsGivenNumbers(p, o)
        /\ Kind[o] = "vline~" =>
               \A message \in MessagesTo[o] :
                   ArgumentOr(message.floats, 2, 0) >= 0
        /\ Kind[o] = "env~" => \A a \in Arguments[o] : a # <<>>

-----------------------------------------------------------------------------
\* The graph has run, and every one of these objects has its block.
Done(kinds) ==
    IF phase = "dsp" /\ turn > Len(nodes) /\ ~ lost
    THEN {o \in patch \ (late \cup Fed) : Kind[o] \in kinds /\ Runs(o)}
    ELSE {}

Out(o) == signal[o].out

\* The input for a place between two samples, in Unit-ths.
HostAt(y) ==
    LET t == y \div Unit
    IN  Host(t) + ((Host(t + 1) - Host(t)) * (y - t * Unit)) \div Unit

Before(o, p) ==
    \E i, j \in 1 .. Len(nodes) : i < j /\ nodes[i] = o /\ nodes[j] = p

\* A reader that runs before the delay line is written hears a block later.
Behind(o) ==
    IF \E w \in patch : Kind[w] = "delwrite~" /\ Before(o, w)
    THEN BlockSize ELSE 0

\* A delread~ hears the input as it was its delay ago, for every delay up to
\* the length that the delwrite~ was made with, wherever the buffer's head is,
\* across its end too, and a block later if it runs before the delwrite~
\* (DspDelayRead::processSignal).
DelaysByItsTime ==
    \A o \in Done({"delread~"}) :
        signal[o].delayInSamples <= line.delay =>
            \A k \in DOMAIN zeros :
                Out(o)[k] = Host(blockStart + k - Behind(o)
                                     - signal[o].delayInSamples)

\* A vd~ hears it as it was the delay at that very sample ago, between two
\* samples too, the last of the buffer and the first among them
\* (DspVariableDelay::processDspWithIndex).
VariesTheDelay ==
    \A o \in Done({"vd~"}) : \A k \in DOMAIN zeros :
        LET delay == Inlets(o)[1][k]
        IN  delay <= line.delay * Unit =>
                Out(o)[k] =
                    HostAt((blockStart + k - Behind(o)) * Unit
                               - (IF delay < 0 THEN 0 ELSE delay))

\* A line~ is on the straight course from where it was to its target, at every
\* sample, and arrives in time, however the blocks and the messages cut its
\* ramps (DspLine::processDspWithIndex).  (Said of ramps that rise by whole
\* steps: a slope that is rounded adds up.)
LineKeepsItsCourse ==
    \A o \in Done({"line~"}) : \A k \in DOMAIN zeros :
        LET path == seen[o].setBy[k]
        IN  path.whole => Out(o)[k] = PathAt(path, blockStart + k)

\* A vline~ arrives at its target in time and stays there, in every build; with
\* Apple's vector library it is on its course before that, if the ramps rise by
\* whole steps and until it was asked for a part of no samples
\* (DspVariableLine::processSignal).
VariableLineArrives ==
    \A o \in Done({"vline~"}) : \A k \in DOMAIN zeros :
        LET path == seen[o].setBy[k]
            t == blockStart + k
        IN  \/ Out(o)[k] = PathAt(path, t)
            \/ /\ build # "plain" \/ seen[o].disturbed \/ ~ path.whole
               /\ path.stopped \/ t < path.t0 + path.length

\* A phasor~ is where it was four samples ago and four of the steps then in
\* force further, across blocks, whatever it started from, if its blocks are
\* cut at multiples of four; with audio at its inlet it moves on by each sample
\* of that (DspPhasor::processScalar, processSignal).
PhasorKeepsItsPhase ==
    \A o \in Done({"phasor~"}) :
        LET before == seen[o].before
            phase0(k) == IF k < 0 THEN before.out[BlockSize + k] ELSE Out(o)[k]
            step(k) == IF k < 0 THEN before.setBy[BlockSize + k]
                       ELSE seen[o].setBy[k]
            first(n) == IF before.ran /\ before.whole THEN 0 ELSE n
        IN  IF SourcesOf[o][1] = Silent
            THEN (\A i \in DOMAIN rendered[o] : rendered[o][i].from % 4 = 0) =>
                     \A k \in Part(first(4), BlockSize) :
                         phase0(k) = (phase0(k - 4) + 4 * step(k - 4)) % Word
            ELSE \A k \in Part(first(1), BlockSize) :
                     phase0(k) = (phase0(k - 1) + Inlets(o)[1][k]) % Word

AllEights(o) == \A i \in DOMAIN rendered[o] : rendered[o][i].from % 8 = 0

\* An osc~ goes on from each sample by the step in force there, through the
\* block and into the next, with steps of more than 2^15 / 8 as well, as long
\* as its blocks are cut at multiples of eight only (DspOsc::processScalar).
OscKeepsItsPhase ==
    \A o \in Done({"osc~"}) :
        AllEights(o) =>
            /\ \A k \in DOMAIN zeros \ {0} :
                   Out(o)[k] = (Out(o)[k - 1] + seen[o].setBy[k - 1]) % Word
            /\ blockStart > 0 /\ seen[o].before.whole =>
                   LET end == BlockSize - 1
                   IN  Out(o)[0] = (seen[o].before.out[end]
                                      + seen[o].before.setBy[end]) % Word

\* An env~ reports at the end of each interval, of the last samples and no
\* others once it has heard a window of them, if window and interval are whole
\* blocks (DspEnvelope::processSignal).
EnvelopeHearsTheWindow ==
    \A o \in Done({"env~"}) :
        LET d == signal[o]
            heard == blockStart + BlockSize
        IN  d.windowSize % BlockSize = 0 /\ d.windowInterval % BlockSize = 0 =>
                /\ d.report # {} <=> heard % d.windowInterval = 0
                /\ d.report # {} /\ heard >= d.windowSize =>
                       d.report = {Host(t) : t \in Part(heard - d.windowSize,
                                                        heard)}

\* The output of a filter before this block is that of the last one: each
\* sample follows from those before it with the coefficients in force, however
\* the blocks are cut (DspFilter::processFilter).
FilterCarriesOver ==
    \A o \in Done(Filters) :
        LET y(k) == IF k < 0 THEN seen[o].before.out[BlockSize + k]
                             ELSE Out(o)[k]
            x(k) == Host(blockStart + k)
        IN  ~ seen[o].disturbed =>
                \A k \in DOMAIN zeros :
                    LET b == seen[o].setBy[k]
                    IN  y(k) = b[1] * x(k) + b[2] * x(k - 1) + b[3] * x(k - 2)
                                 - b[4] * y(k - 1) - b[5] * y(k - 2)

\* What a sample of the left inlet becomes with a number at the right.
Becomes(b, kind, x, setting) ==
    CASE kind = "+~" -> x + setting
      [] kind = "-~" -> x - setting
      [] kind = "*~" -> x * setting
      [] kind = "/~" -> x \div setting
      [] kind = "min~" -> IF x <= setting THEN x ELSE setting
      [] kind = "sig~" -> setting
      [] kind = "clip~" -> Clipped(x, setting[1], setting[2])
      [] kind = "wrap~" -> x % Unit
      [] kind = "log~" -> (IF x <= 0 THEN -1000 ELSE x) * setting
      [] kind = "sqrt~" -> IF x >= 0 THEN x
                           ELSE IF b = "plain" THEN Outside ELSE 0
      [] kind = "rsqrt~" -> IF x > 0 THEN x ELSE 0
      [] kind = "cos~" -> (((IF x < 0 THEN -x ELSE x) % Unit) * SampleRate)
                              \div Unit

Served(o, k) ==
    Out(o)[k] = Becomes(build, Kind[o], Inlets(o)[1][k], seen[o].setBy[k])

\* The objects that compute with a number.
DoneWithNumber ==
    {o \in Done(Settable) : ~ (o \in Adapts /\ processFunction[o] = "other")}

\* A part that all builds compute alike.
Exact(o, part) ==
    \/ build = "plain"
    \/ Kind[o] \in {"sig~", "clip~", "min~", "log~"} \cup Fixed
    \/ build = "NEON" /\ Kind[o] = "/~"
    \/ part.from % 4 = 0 /\ part.to % 4 = 0

\* A number takes effect at the index of its message, rounded up, and each
\* sample is computed from that of the input with the number in force: in the
\* plain build always, in the others where the part begins and ends at a
\* multiple of four (ArrayArithmetic.h, processScalar of each class).
SettingTakesEffect ==
    \A o \in DoneWithNumber : \A i \in DOMAIN rendered[o] :
        Exact(o, rendered[o][i]) =>
            \A k \in Part(rendered[o][i].from, rendered[o][i].to) :
                Served(o, k)

\* "In all SSE cases, input vectors can be (16-byte) unaligned"
\* (ArrayArithmetic.h:40): a number takes effect at any index.
UnalignedIsServed ==
    /\ ~ lost
    /\ \A o \in DoneWithNumber : \A k \in DOMAIN zeros : Served(o, k)

\* With audio at both inlets a whole block is computed from the two, whatever
\* messages wait (processSignal of each class).
BothInletsHeard ==
    \A o \in Done(Arithmetic) \cap Adapts :
        processFunction[o] = "other" =>
            \A k \in DOMAIN zeros :
                Out(o)[k] =
                    Becomes(build, Kind[o], Inlets(o)[1][k], Inlets(o)[2][k])

\* A place in the table, the nearest for those outside.
Place(i) == Clipped(i, 0, tableLength - 1)

\* tabread~ gives the sample at the place, tabread4~ one between those on both
\* sides of it, and the first or the last outside of the table, whatever its
\* length has become (DspTableRead4::processDspWithIndex).
TableReadsInside ==
    \A o \in Done({"tabread~", "tabread4~"}) : \A k \in DOMAIN zeros :
        LET y == Inlets(o)[1][k] + seen[o].setBy[k][1]
            low == table[Place(y \div Unit)]
            high == table[Place(y \div Unit + 1)]
        IN  seen[o].setBy[k][2] =>
                IF Kind[o] = "tabread~"
                THEN Out(o)[k] = table[Place(Truncated(y))]
                ELSE /\ low <= Out(o)[k] /\ Out(o)[k] <= high
                     /\ y % Unit = 0 => Out(o)[k] = low

Lag(o, p) == IF Before(o, p) THEN 0 ELSE BlockSize

\* A catch~ hears every throw~ of its name, however many there are, and those
\* that run after it a block later (DspCatch::addThrow, processMany).
CatchHearsEveryThrow ==
    \A o \in Done({"catch~"}) :
        LET throws == Range(ThrowsOf(o))
            heard(k) == [t \in throws |->
                Input(SourcesOf[t][1], blockStart + k - Lag(t, o))]
        IN  (\A t \in throws : IF Before(t, o) THEN Runs(t)
                                             ELSE seen[t].before.ran) =>
                \A k \in DOMAIN zeros :
                    Out(o)[k] = MapThenSumSet(LAMBDA t : heard(k)[t], throws)

\* A receive~ hears the send~ of its name: one that was registered before it a
\* block later if it runs first, one that came after it at once
\* (PdContext::registerDspReceive, registerDspSend).
ReceiveHearsItsSend ==
    \A o \in Done({"receive~"}) : \A s \in SendsOf(o) :
        LET wait == IF signal[o].registeredLate THEN 0 ELSE Lag(s, o)
        IN  wait = 0 \/ seen[s].before.ran =>
                \A k \in DOMAIN zeros :
                    Out(o)[k] = Input(SourcesOf[s][1], blockStart + k - wait)

Distance(x, y) == IF x < y THEN y - x ELSE x - y

\* A host with whole numbers hears on each channel the sum of what the dac~s
\* that run have at their inlets, clipped, and not a sample of another channel
\* or time (zg_context_process_s).
HostHearsEveryDac ==
    LET dacs == Done({"dac~"})
        channel(o, c) == IF SourcesOf[o][c] = adc_1 THEN 1 ELSE 2
        sum(k, c) ==
            MapThenSumSet(LAMBDA o : HostShort(blockStart + k, channel(o, c)),
                          dacs)
        outputBuffers == interleaved(output, BlockSize)
    IN  dacs # {} =>
            \A k \in DOMAIN zeros : \A c \in 1 .. 2 :
                Distance(outputBuffers[2 * k + c - 1],
                         Clipped(sum(k, c), -ShortUnit, ShortUnit)) <= 1

\* What a snapshot~ sends is the input at the time of the bang it answers, for
\* bangs of the block that it runs in (DspSnapshot::processMessage): one that the
\* host sends directly with another time is answered with what lies there
\* (SnapshotsHearTheHost).
SnapshotIsOfItsTime ==
    \A o \in Fed \cap patch : \A i \in DOMAIN messageQueue[o] :
        LET entry == messageQueue[o][i]
        IN  entry.message.selector = "float" /\ entry.message.inlet = 0 =>
                entry.message.floats =
                    <<Host(entry.time \div TicksPerSample)>>

\* What is read from a delay line or a table at a place that a signal gives is
\* what is there (DspDelayRead, DspVariableDelay, DspTableRead, DspTableRead4).
ReadsAtItsPlace == DelaysByItsTime /\ VariesTheDelay /\ TableReadsInside

\* What goes on from sample to sample comes out the same wherever blocks and
\* messages cut it: ramps, phases, the samples before that a filter computes
\* with, and the window of an env~.  It is said of objects whose direct messages
\* have the time that the block starts at (CoursesGoOn): with another, out of
\* order, a part is computed again or not at all.
CoursesAreKept ==
    /\ LineKeepsItsCourse
    /\ VariableLineArrives
    /\ PhasorKeepsItsPhase
    /\ OscKeepsItsPhase
    /\ FilterCarriesOver
    /\ EnvelopeHearsTheWindow

\* A message or a signal at an inlet acts on the samples of its time.
InletsAreHeard ==
    SettingTakesEffect /\ BothInletsHeard /\ SnapshotIsOfItsTime

\* No block is lost, heard twice or heard late between those that are connected
\* by a name, or on the way to the host.
BusesCarry ==
    CatchHearsEveryThrow /\ ReceiveHearsItsSend /\ HostHearsEveryDac

=============================================================================
