----------------------------- MODULE DspBuffers ------------------------------
(***************************************************************************)
(* Memories of samples that several objects, or the host, have in common:  *)
(* the delay line of a [delwrite~], which [delread~] and [vd~] read, the   *)
(* table of a [tabread~] or [tabread4~], the buses from [throw~] to        *)
(* [catch~] and from [send~] to [receive~], and the output of the context. *)
(*                                                                         *)
(* Delays in the signal at the inlet of [vd~], and places in the one at    *)
(* the inlet of [tabread4~], are counted in samples, of Unit each, where   *)
(* the first are milliseconds in the code.  Samples for a host that uses   *)
(* whole numbers are counted in ShortUnit-ths: there 1.0 is ShortUnit.     *)
(***************************************************************************)
EXTENDS DspArithmetic

CONSTANTS
    Outside,  \* what is read outside of a memory, or where none was written
    ShortUnit \* 2^15 in the code

ASSUME ShortAssumption == ShortUnit \in Nat \ {0}

\* The sample at a place of a memory.
At(memory, i) == IF i \in DOMAIN memory THEN memory[i] ELSE Outside

\* Towards zero, as a conversion from float to int.
Truncated(y) == IF y >= 0 THEN y \div Unit ELSE -((-y) \div Unit)

\* (slope * dx) + y0, between a place and the next.
Interpolated(memory, y) ==
    LET x0 == Truncated(y)
        dx == y - x0 * Unit
    IN  At(memory, x0)
          + ((IF dx = 0 THEN 0 ELSE At(memory, x0 + 1) - At(memory, x0)) * dx)
              \div Unit

-----------------------------------------------------------------------------
(* delwrite~                                                               *)

\* Mistaken: no block more than the delay.
LengthOfDelay(delay, blockSize) ==
    IF delay % blockSize # 0 THEN (delay \div blockSize + 1) * blockSize
                             ELSE delay

\* In whole blocks, with one more for the block that is written.
bufferLengthFor(delay, blockSize) ==
    IF delay % blockSize # 0 THEN (delay \div blockSize + 2) * blockSize
                             ELSE delay + blockSize

\* buffer[bufferLength] repeats buffer[0].
NewDspDelayWrite(arguments, blockSize) ==
    LET delay == arguments[1]
        length == bufferLengthFor(delay, blockSize)
    IN  [lets |-> <<0, 1, 0, 0>>, functions |-> <<"signal", "default">>,
         bufferLength |-> length, headIndex |-> 0, delay |-> delay,
         buffer |-> [i \in 0 .. length |-> 0]]

\* Mistaken: the sample past the end is not kept up.
DspDelayWriteAlone(d, x, to) ==
    LET head == d.headIndex + to
    IN  [d EXCEPT !.buffer = [i \in DOMAIN @ |->
                      IF i \in Part(d.headIndex, head)
                      THEN x[1][i - d.headIndex] ELSE @[i]],
                  !.headIndex = IF head >= d.bufferLength THEN 0 ELSE head]

DspDelayWrite(d, x, to) ==
    LET head == d.headIndex + to
    IN  [d EXCEPT !.buffer = [i \in DOMAIN @ |->
                      IF i \in Part(d.headIndex, head)
                      THEN x[1][i - d.headIndex]
                      ELSE IF i = d.bufferLength /\ d.headIndex = 0
                      THEN x[1][0] ELSE @[i]],
                  !.headIndex = IF head >= d.bufferLength THEN 0 ELSE head]

-----------------------------------------------------------------------------
(* delread~ vd~: line is the delay line                                    *)

NewDspDelayRead(arguments, zeros) ==
    [lets |-> <<1, 0, 0, 1>>, functions |-> <<"signal", "default">>,
     delayInSamples |-> arguments[1], out |-> zeros]
NewDspVariableDelay(zeros) ==
    [lets |-> <<0, 1, 0, 1>>, functions |-> Default, out |-> zeros]

\* Where a delread~ starts to read the block that is delayed.
delayIndex(d, line, to) ==
    LET index == line.headIndex - to - d.delayInSamples
    IN  IF index < 0 THEN index + line.bufferLength ELSE index

\* The block that wraps is read in two runs.
DspDelayRead(d, line, to) ==
    LET index == delayIndex(d, line, to)
        samplesInBuffer == IF index > line.bufferLength - to
                           THEN line.bufferLength - index ELSE to
    IN  [d EXCEPT !.out = [k \in DOMAIN @ |->
            IF k < samplesInBuffer THEN At(line.buffer, index + k)
            ELSE IF k < to THEN At(line.buffer, k - samplesInBuffer)
            ELSE @[k]]]

\* The delay of a sample, between none and the whole line.
delayInSamples(y, line) == Clipped(y, 0, line.bufferLength * Unit)

\* The whole block, whatever part is asked for.
DspVariableDelay(d, line, x, blockSize) ==
    LET targetIndexBase == (line.headIndex - blockSize) * Unit
        target(k) == targetIndexBase + k * Unit - delayInSamples(x[1][k], line)
        targetSampleIndex(k) ==
            IF target(k) < 0 THEN target(k) + line.bufferLength * Unit
                             ELSE target(k)
    IN  [d EXCEPT !.out =
            [k \in DOMAIN @ |-> Interpolated(line.buffer, targetSampleIndex(k))]]

-----------------------------------------------------------------------------
(* tabread~ tabread4~: table is the buffer of the table that has the name  *)
(* they were given, for as long as it is theirs.                           *)

\* The context finds the table when the object is registered.
NewDspTableRead(zeros) ==
    [lets |-> <<2, 1, 0, 1>>, functions |-> Default,
     offset |-> 0, hasTable |-> TRUE, out |-> zeros]
NewDspTableRead4(zeros) == NewDspTableRead(zeros)

\* "set" and a name, which a table has or has not, or the offset.
TakesTable(d, message) ==
    IF message.inlet = 0 /\ message.selector = "set"
    THEN [d EXCEPT !.hasTable = message.floats[1] = 1]
    ELSE IF message.inlet = 1 /\ isFloat(message, 1)
    THEN [d EXCEPT !.offset = message.floats[1]]
    ELSE d

\* tabread4~ takes the same.
TakesTable4(d, message) == TakesTable(d, message)

\* Mistaken: the last place is one further.
TableSamplePast(table, length, x) ==
    IF x <= 0 THEN At(table, 0)
    ELSE IF x > length THEN At(table, length - 1)
    ELSE At(table, x)

TableSample(table, length, x) ==
    IF x <= 0 THEN At(table, 0)
    ELSE IF x >= length THEN At(table, length - 1)
    ELSE At(table, x)

\* Between 0 and 1 it is the first sample too.
TableSample4(table, maxIndex, xf) ==
    IF Truncated(xf) <= 0 THEN At(table, 0)
    ELSE IF Truncated(xf) >= maxIndex THEN At(table, maxIndex)
    ELSE Interpolated(table, xf)

DspTableRead(d, table, length, x, from, to) ==
    IF ~ d.hasTable THEN d
    ELSE [d EXCEPT !.out = [k \in DOMAIN @ |->
              IF k \in Part(from, to)
              THEN TableSample(table, length, Truncated(x[1][k] + d.offset))
              ELSE @[k]]]

DspTableRead4(d, table, length, x, from, to) ==
    IF ~ d.hasTable THEN d
    ELSE [d EXCEPT !.out = [k \in DOMAIN @ |->
              IF k \in Part(from, to)
              THEN TableSample4(table, length - 1, x[1][k] + d.offset)
              ELSE @[k]]]

-----------------------------------------------------------------------------
(* throw~ catch~ send~ receive~: objects of a name                         *)

NewNamed(lets, process, arguments, buffer) ==
    [lets |-> lets, functions |-> <<process, "default">>,
     name |-> arguments[1], out |-> buffer]
\* The buffers that are copied to hold whatever the memory did.
NewDspThrow(arguments, unwritten) ==
    NewNamed(<<0, 1, 0, 0>>, "signal", arguments, unwritten)
NewDspSend(arguments, unwritten) ==
    NewNamed(<<0, 1, 0, 0>>, "signal", arguments, unwritten)
NewDspCatch(arguments, zeros) ==
    NewNamed(<<0, 0, 0, 1>>, "none", arguments, zeros)

\* A receive~ is registered before the send~ of its name, or (1) after it.
NewDspReceive(arguments, buffer) ==
    [lets |-> <<1, 0, 0, 1>>, functions |-> <<"signal", "default">>,
     name |-> arguments[1], registeredLate |-> arguments[2] = 1, out |-> buffer]

\* Mistaken: it is always given the buffer that the send~ copies.
InletOfSend(d, send, inlet) == inlet

\* What a receive~ is given by the context: the buffer that the send~ copies
\* to, or, when it comes later, the one that it copies from.
bufferOfSend(d, send, inlet) == IF d.registeredLate THEN inlet ELSE send.out

\* The buffer of a throw~ or send~, and what a receive~ makes of one.
Copied(d, buffer, to) ==
    [d EXCEPT !.out = [k \in DOMAIN @ |-> IF k < to THEN buffer[k] ELSE @[k]]]

DspThrow(d, x, to) == Copied(d, x[1], to)
DspSend(d, x, to) == Copied(d, x[1], to)
DspReceive(d, sent, to) == Copied(d, sent, to)

\* Mistaken: no more than two are added up.
CaughtFirstTwo(build, throws, output, to) ==
    add(build, throws[1], throws[2], output, 0, to)

\* processMany
CaughtMany(build, throws, output, to) ==
    LET sum[i \in 2 .. Len(throws)] ==
            IF i = 2 THEN add(build, throws[1], throws[2], output, 0, to)
            ELSE add(build, sum[i - 1], throws[i], sum[i - 1], 0, to)
    IN  sum[Len(throws)]

\* throws is the list of the buffers of the throw~s that were added.
DspCatch(build, d, throws, to) ==
    CASE Len(throws) = 0 -> [d EXCEPT !.out = fill("plain", 0, @, 0, to)]
      [] Len(throws) = 1 -> Copied(d, throws[1], to)
      [] OTHER -> [d EXCEPT !.out = CaughtMany(build, throws, @, to)]

-----------------------------------------------------------------------------
(* dac~ and zg_context_process_s.  Channels count from 1, samples from 0.  *)

\* With a mono or stereo host; a dac~ adds to the output of the context.
NewDspDac(numOutputChannels) ==
    [lets |-> <<0, numOutputChannels, 0, 0>>, functions |-> <<"signal", "default">>]

\* Added to the channels of the context, the first two of them.
DspDac(build, channels, x, to) ==
    [c \in DOMAIN channels |->
        IF c <= 2 THEN add(build, channels[c], x[c], channels[c], 0, to)
                  ELSE channels[c]]

\* One channel of what the host gives, a sample of each channel in turn.
uninterleaved(shorts, channels, blockSize, c) ==
    [k \in Part(0, blockSize) |-> shorts[k * channels + c - 1]]

\* (short) (f * 32767.0f), towards zero, of what is clipped to [-1, 1].
toShort(y) ==
    LET scaled == Clipped(y, -ShortUnit, ShortUnit) * (ShortUnit - 1)
    IN  IF scaled >= 0 THEN scaled \div ShortUnit
                       ELSE -((-scaled) \div ShortUnit)

\* Mistaken: one channel after the other, as they are in the context.
InSequence(channels, blockSize) ==
    [i \in Part(0, Len(channels) * blockSize) |->
        toShort(channels[(i \div blockSize) + 1][i % blockSize])]

interleaved(channels, blockSize) ==
    LET n == Len(channels)
    IN  [i \in Part(0, n * blockSize) |-> toShort(channels[(i % n) + 1][i \div n])]

=============================================================================
