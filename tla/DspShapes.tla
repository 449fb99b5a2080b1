------------------------------ MODULE DspShapes ------------------------------
(***************************************************************************)
(* Audio objects with a course of their own: [line~], [vline~], [osc~] and *)
(* [phasor~] as they are built for SSE3, and [env~].                       *)
(***************************************************************************)
EXTENDS DspArithmetic

CONSTANT SamplesPerMs

ASSUME SamplesAssumption == SamplesPerMs \in Nat \ {0}

-----------------------------------------------------------------------------
(* line~                                                                   *)

NewLine(lets, functions, zeros) ==
    [lets |-> lets, functions |-> functions,
     target |-> 0, slope |-> 0, numSamplesToTarget |-> 0,
     lastOutputSample |-> 0, out |-> zeros]

NewDspLine(zeros) == NewLine(<<2, 0, 0, 1>>, Default, zeros)
NewDspVariableLine(zeros) ==
    NewLine(<<3, 0, 0, 1>>, <<"signal", "signal">>, zeros)

\* No ramp is shorter than a millisecond.
rampInSamples(ms) == SamplesPerMs * (IF ms < 1 THEN 1 ELSE ms)

\* One number is jumped to, two are a target and the time to it.
TakesRamp(d, message) ==
    IF message.inlet # 0 \/ message.floats = <<>> THEN d
    ELSE IF Len(message.floats) = 1
    THEN [d EXCEPT !.target = message.floats[1], !.slope = 0,
                   !.lastOutputSample = message.floats[1],
                   !.numSamplesToTarget = 0]
    ELSE LET n == rampInSamples(message.floats[2])
         IN  [d EXCEPT !.target = message.floats[1],
                       !.numSamplesToTarget = n,
                       !.slope = (message.floats[1] - d.lastOutputSample)
                                     \div n]

\* Mistaken: the first sample is a step ahead.
RampAhead(d, n) == d.lastOutputSample + (n + 1) * d.slope

\* The n-th sample of a ramp that goes on.
RampAt(d, n) == d.lastOutputSample + n * d.slope

\* At rest, arriving in this part, or on the way to its end.
DspLine(build, d, from, to) ==
    LET n == to - from
    IN  IF n <= 0 THEN d
        ELSE IF d.numSamplesToTarget <= 0
        THEN [d EXCEPT !.out = fill(build, d.target, @, from, to),
                       !.lastOutputSample = d.target]
        ELSE IF d.numSamplesToTarget < n
        THEN [d EXCEPT !.out = [k \in DOMAIN @ |->
                  IF k \notin Part(from, to) THEN @[k]
                  ELSE IF k < from + d.numSamplesToTarget THEN RampAt(d, k - from)
                  ELSE d.target],
                       !.lastOutputSample = d.target,
                       !.numSamplesToTarget = 0]
        ELSE [d EXCEPT !.out = [k \in DOMAIN @ |->
                  IF k \in Part(from, to) THEN RampAt(d, k - from) ELSE @[k]],
                       !.lastOutputSample = RampAt(d, n),
                       !.numSamplesToTarget = @ - n]

-----------------------------------------------------------------------------
(* osc~: an index into a cosine table of 2^16 places.  A sample is named   *)
(* by its place there.  Eight indices are kept, a step apart, and advanced *)
(* by eight steps, all in 16 bits.                                         *)

Word == 65536

NewDspOsc(arguments, zeros) ==
    [lets |-> <<2, 2, 0, 1>>, functions |-> Scalar,
     index |-> 0, constant |-> ArgumentOr(arguments, 1, 0), out |-> zeros]

\* updateFrequency: whatever it is given, the frequency is the first sample
\* at the audio inlet.
updateFrequency(d, x) == [d EXCEPT !.constant = x[1][0]]

\* A frequency for the left inlet.
TakesFrequency(d, message, x) ==
    IF message.inlet = 0 /\ isFloat(message, 1) THEN updateFrequency(d, x)
    ELSE d

\* The step recovered from eight of them.
eighthOf(step) == ((8 * step) % Word) \div 8

FirstEight(from) == -8 * ((-from) \div 8)

\* Mistaken: the eights go on from where the block began.
EightsHeld(index, step, n8) == index

\* The indices move on by the samples that were made in eights.
EightsOn(index, step, n8) == (index + n8 * step) % Word

\* Single samples up to a multiple of eight, then eights, which start from
\* the index from before those, then single samples.
DspOsc(d, from, to) ==
    LET step == d.constant
        single == eighthOf(step)
        first == FirstEight(from)
        n8 == 8 * ((to - first) \div 8)
        rest == to - first - n8
        current == EightsOn(d.index, step, n8)
        place(k) ==
            IF k < first THEN d.index + (k - from) * single
            ELSE IF k < first + n8 THEN d.index + (k - first) * step
            ELSE current + (k - first - n8) * single
    IN  [d EXCEPT !.out = [k \in DOMAIN @ |->
                      IF k \in Part(from, to) THEN place(k) % Word ELSE @[k]],
                  !.index = (current + rest * single) % Word,
                  !.constant = IF rest = 0 THEN step ELSE single]

-----------------------------------------------------------------------------
(* vline~: without Apple's vector library a ramp is not written, and what  *)
(* the buffer holds is taken for it.                                       *)

\* updatePathWithMessage, a level or a ramp to the target.
updatePath(d, target, samples) ==
    [d EXCEPT !.target = target, !.numSamplesToTarget = samples,
              !.lastOutputSample = IF samples = 0 THEN target ELSE @,
              !.slope = IF samples = 0 THEN 0
                        ELSE (target - d.lastOutputSample) \div samples]

\* Of the messages those that have no delay, and "stop".
TakesSegment(d, message) ==
    IF message.inlet # 0 THEN d
    ELSE IF isFloat(message, 1)
    THEN updatePath(d, message.floats[1],
                    SamplesPerMs * ArgumentOr(message.floats, 2, 0))
    ELSE IF message.selector = "stop"
    THEN [d EXCEPT !.numSamplesToTarget = 0, !.slope = 0]
    ELSE d

\* Mistaken: it arrives a sample late.
SamplesAndOne(d) == d.numSamplesToTarget + 1

SamplesToTarget(d) == d.numSamplesToTarget

\* The ramp in a buffer; vDSP_vramp.
Ramped(build, d, from, n) ==
    [k \in DOMAIN d.out |->
        IF build = "plain" /\ k \in Part(from, from + n)
        THEN RampAt(d, k - from) ELSE d.out[k]]

\* At rest, on the way, or arriving in this part.  before is what is in memory
\* before the buffer.
DspVariableLine(build, d, from, to, before) ==
    LET n == to - from
        left == SamplesToTarget(d)
        ramp == Ramped(build, d, from, n)
    IN  IF d.numSamplesToTarget <= 0
        THEN [d EXCEPT !.out = fill(build, d.lastOutputSample, @, from, to)]
        ELSE IF n < d.numSamplesToTarget
        THEN [d EXCEPT !.out = ramp,
                       !.lastOutputSample =
                           (IF to = 0 THEN before ELSE ramp[to - 1]) + d.slope,
                       !.numSamplesToTarget = @ - n]
        ELSE [d EXCEPT !.out = fill(build, d.target,
                                    Ramped(build, d, from, left),
                                    from + left, to),
                       !.lastOutputSample = d.target, !.slope = 0,
                       !.numSamplesToTarget = 0]

-----------------------------------------------------------------------------
(* phasor~ as it is built for SSE3: four indices in 16 bits, and what is   *)
(* added to all of them at once, four steps.  The indices are not          *)
(* initialised, nor is the one that single samples are made from: it has   *)
(* what the processor's register had.                                      *)

NewDspPhasor(arguments, zeros, unset) ==
    [lets |-> <<2, 2, 0, 1>>, functions |-> Scalar,
     indicies |-> [lane \in 0 .. 3 |-> unset % Word],
     constant |-> ArgumentOr(arguments, 1, 0), out |-> zeros]

TakesStep(d, message) ==
    IF message.inlet = 0 /\ isFloat(message, 1)
    THEN [d EXCEPT !.constant = message.floats[1]] ELSE d

\* Mistaken: by one step, which is four too few.
IncrementOne(step) == step

Increment(step) == 4 * step

\* The step recovered from four of them.
quarterOf(step) == ((4 * step) % Word) \div 4

FirstFour(from) == -4 * ((-from) \div 4)

Lanes(idx, step) == [lane \in 0 .. 3 |-> (idx + lane * step) % Word]

\* Up to three single samples, then fours, then up to three single ones, which
\* start from the index after the leading ones, or, three of them, from the
\* last lane before the part.
DspPhasor(d, from, to, register) ==
    LET s == quarterOf(d.constant)
        first == FirstFour(from)
        leading == first - from
        rest == (to - first) % 4
        end == to - rest
        idx == IF leading = 3 THEN d.indicies[0] ELSE register
        lanes == IF leading = 0 THEN d.indicies
                 ELSE Lanes(idx + leading * s, s)
        four(k) == lanes[k % 4] + ((k - first) \div 4) * Increment(d.constant)
        tail == IF rest = 3 THEN d.indicies[3] ELSE idx + leading * s
        place(k) == IF k < first THEN idx + (k - from) * s
                    ELSE IF k < end THEN four(k) ELSE tail + (k - end) * s
    IN  [d EXCEPT !.out = [k \in DOMAIN @ |->
                      IF k \in Part(from, to) THEN place(k) % Word ELSE @[k]],
                  !.indicies = IF rest = 0
                               THEN [lane \in 0 .. 3 |->
                                        four(end + lane) % Word]
                               ELSE Lanes(tail + rest * s, s)]

\* With audio at the left inlet, a step for each sample.
DspPhasorSignal(d, x, to) ==
    LET index[k \in -1 .. to - 1] ==
            IF k = -1 THEN d.indicies[3] ELSE (index[k - 1] + x[1][k]) % Word
    IN  [d EXCEPT !.out = [k \in DOMAIN @ |-> IF k < to THEN index[k] ELSE @[k]],
                  !.indicies = [lane \in 0 .. 3 |-> index[to - 4 + lane]]]

-----------------------------------------------------------------------------
(* env~                                                                    *)

\* setWindowInterval: the nearest multiple of the block size.
setWindowInterval(interval, blockSize) ==
    LET i == interval % blockSize
    IN  IF i = 0 THEN interval
        ELSE IF i <= blockSize \div 2 THEN (interval \div blockSize) * blockSize
        ELSE (interval \div blockSize + 1) * blockSize

AtLeast(x, y) == IF x < y THEN y ELSE x

\* The buffer is of whole blocks and holds whatever the memory did.
initBuffers(windowSize, blockSize, unwritten) ==
    [i \in Part(0, -blockSize * ((-windowSize) \div blockSize)) |-> unwritten]

\* Two arguments are taken as they are.
NewDspEnvelope(arguments, blockSize, unwritten) ==
    LET windowSize == AtLeast(arguments[1], blockSize)
        interval == IF Len(arguments) > 1 THEN arguments[2]
                    ELSE setWindowInterval(arguments[1] \div 2, blockSize)
    IN  [lets |-> <<0, 1, 1, 0>>, functions |-> <<"signal", "default">>,
         windowSize |-> windowSize,
         windowInterval |-> AtLeast(interval, blockSize),
         numSamplesReceived |-> 0, numSamplesReceivedSinceLastInterval |-> 0,
         signalBuffer |-> initBuffers(windowSize, blockSize, unwritten),
         report |-> {}]

\* Mistaken: the buffer is filled from its middle again.
WindowHalf(n, windowSize) == IF n >= windowSize THEN n \div 2 ELSE n

\* A full window is filled from its start again.
WindowStart(n, windowSize) == IF n >= windowSize THEN 0 ELSE n

\* A block is heard, and at the end of an interval the samples of the window
\* are reported; what is computed from them is left out.
DspEnvelope(d, x, to) ==
    LET buffer == [i \in DOMAIN d.signalBuffer |->
            IF i \in Part(d.numSamplesReceived, d.numSamplesReceived + to)
            THEN x[1][i - d.numSamplesReceived] ELSE d.signalBuffer[i]]
        since == d.numSamplesReceivedSinceLastInterval + to
        due == since = d.windowInterval
    IN  [d EXCEPT
            !.signalBuffer = buffer,
            !.numSamplesReceived = WindowStart(@ + to, d.windowSize),
            !.numSamplesReceivedSinceLastInterval = IF due THEN 0 ELSE since,
            !.report =
                IF due THEN {buffer[i] : i \in Part(0, d.windowSize)} ELSE {}]

=============================================================================
