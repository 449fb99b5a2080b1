---------------------------- MODULE DspArithmetic ----------------------------
(***************************************************************************)
(* Audio objects that compute each sample from those at their inlets: the  *)
(* arithmetic of signals, [sig~], [clip~], [wrap~] and the filters.        *)
(*                                                                         *)
(* An object is a record; its operators are named for its class.  x is the *)
(* sequence of the buffers at its inlets, from and to the part of the      *)
(* block to compute.  A message is a record of the inlet it comes to, a    *)
(* selector and its numbers.  Samples are integers: Unit of them are 1.0.  *)
(*                                                                         *)
(* A constructor says how many inlets and outlets an object has (lets: for *)
(* messages in, audio in, messages out, audio out) and what processFunction *)
(* and processFunctionNoMessage are at first (functions).                  *)
(***************************************************************************)
EXTENDS Integers, Sequences

CONSTANT Unit

ASSUME UnitAssumption == Unit \in Nat \ {0}

-----------------------------------------------------------------------------
(***************************************************************************)
(* Arithmetic on parts of arrays (ArrayArithmetic.h), as it is built.      *)
(*                                                                         *)
(*   "plain"  one sample after the other, or Apple's vector library        *)
(*   "SSE"    single samples up to the first multiple of four, then fours, *)
(*            then single samples                                          *)
(*   "NEON"   fours from the first sample on, then single samples          *)
(*                                                                         *)
(* An array is a function from 0 .. n - 1 and buffers start at a multiple  *)
(* of four.  The single samples of the operations with a constant are made *)
(* from the output instead of the input, and leave the input's pointer     *)
(* where it is.  A routine for SSE dies when it is given less than the     *)
(* single samples it begins with, for it counts down to zero from below,   *)
(* and when it loads four samples that do not start at a multiple of four. *)
(***************************************************************************)

Builds == {"plain", "SSE", "NEON"}

Part(from, to) == from .. to - 1

\* Where the fours begin and end.
firstFour(build, from) == IF build = "SSE" THEN -4 * ((-from) \div 4) ELSE from
lastFour(first, to) == first + 4 * ((to - first) \div 4)

\* output = input0 op input1
elementwise(build, op(_, _), x, y, output, from, to) ==
    [k \in DOMAIN output |-> IF k \in Part(from, to)
                             THEN op(x[k], y[k]) ELSE output[k]]

\* output = input op constant
withConstant(build, op(_, _), x, constant, output, from, to) ==
    LET first == firstFour(build, from)
        fours == Part(first, lastFour(first, to))
    IN  [k \in DOMAIN output |->
            IF k \notin Part(from, to) THEN output[k]
            ELSE IF build = "plain" \/ k \in fours
                 THEN op(x[k], constant)
                 ELSE op(output[k], constant)]

Plus(x, y) == x + y
Minus(x, y) == x - y
Times(x, y) == x * y
Over(x, y) == x \div y

\* NEON has no division.
dividing(build) == IF build = "SSE" THEN "SSE" ELSE "plain"

add(build, x, y, output, from, to) ==
    elementwise(build, Plus, x, y, output, from, to)
subtract(build, x, y, output, from, to) ==
    elementwise(build, Minus, x, y, output, from, to)
multiply(build, x, y, output, from, to) ==
    elementwise(build, Times, x, y, output, from, to)
divide(build, x, y, output, from, to) ==
    elementwise(dividing(build), Over, x, y, output, from, to)

addConstant(build, x, constant, output, from, to) ==
    withConstant(build, Plus, x, constant, output, from, to)
subtractConstant(build, x, constant, output, from, to) ==
    withConstant(build, Minus, x, constant, output, from, to)
multiplyConstant(build, x, constant, output, from, to) ==
    withConstant(build, Times, x, constant, output, from, to)
divideConstant(build, x, constant, output, from, to) ==
    withConstant(dividing(build), Over, x, constant, output, from, to)

fill(build, constant, output, from, to) ==
    [k \in DOMAIN output |->
        IF k \in Part(from, to) THEN constant ELSE output[k]]

\* The single samples at the start reach past the part.
Overruns(build, from, to) == to < firstFour(build, from)

\* Fours are loaded from where the input's pointer is left.
Misloads(build, from, to) ==
    LET first == firstFour(build, from)
    IN  first # from /\ first < lastFour(first, to)

-----------------------------------------------------------------------------
(* The objects.                                                            *)

Arithmetic == {"+~", "-~", "*~", "/~", "min~"}
Filters == {"lop~", "hip~", "bp~"}

isFloat(message, i) == Len(message.floats) >= i

\* An argument, or what stands for it.
ArgumentOr(arguments, i, default) ==
    IF Len(arguments) >= i THEN arguments[i] ELSE default

-----------------------------------------------------------------------------
(* +~ -~ *~ /~ min~ with a number at the right inlet                       *)

NewArithmetic(functions, arguments, zeros) ==
    [lets |-> <<2, 2, 0, 1>>, functions |-> functions,
     constant |-> ArgumentOr(arguments, 1, 0), out |-> zeros]
Scalar == <<"scalar", "scalar">>
\* DspObject::init, which a constructor may leave as it is.
Default == <<"default", "default">>

\* Three of them run processScalar once a connection has been made.
NewDspAdd(arguments, zeros) ==
    NewArithmetic(<<"default", "scalar">>, arguments, zeros)
NewDspSubtract(arguments, zeros) ==
    NewArithmetic(<<"default", "scalar">>, arguments, zeros)
NewDspMultiply(arguments, zeros) ==
    NewArithmetic(<<"default", "scalar">>, arguments, zeros)
NewDspDivide(arguments, zeros) == NewArithmetic(Scalar, arguments, zeros)
NewDspMinimum(arguments, zeros) == NewArithmetic(Scalar, arguments, zeros)

\* Mistaken: the left inlet sets the number too.
TakesAnyFloat(d, message) ==
    IF isFloat(message, 1) THEN [d EXCEPT !.constant = message.floats[1]]
    ELSE d

TakesConstant(d, message) ==
    IF message.inlet = 1 /\ isFloat(message, 1)
    THEN [d EXCEPT !.constant = message.floats[1]] ELSE d

\* A divisor of zero becomes 1.
TakesDivisor(d, message) ==
    IF message.inlet = 1 /\ isFloat(message, 1) /\ message.floats[1] = 0
    THEN [d EXCEPT !.constant = 1] ELSE TakesConstant(d, message)

DspAdd(build, d, x, from, to) ==
    [d EXCEPT !.out = addConstant(build, x[1], d.constant, @, from, to)]
DspSubtract(build, d, x, from, to) ==
    [d EXCEPT !.out = subtractConstant(build, x[1], d.constant, @, from, to)]
DspMultiply(build, d, x, from, to) ==
    [d EXCEPT !.out = multiplyConstant(build, x[1], d.constant, @, from, to)]
DspDivide(build, d, x, from, to) ==
    [d EXCEPT !.out = divideConstant(build, x[1], d.constant, @, from, to)]

Least(x, y) == IF x <= y THEN x ELSE y

DspMinimum(d, x, from, to) ==
    [d EXCEPT !.out = [k \in DOMAIN @ |->
        IF k \in Part(from, to) THEN Least(x[1][k], d.constant) ELSE @[k]]]

\* Mistaken: the signal at the right inlet is passed over.
DspSubtractLeft(build, d, x, to) == [d EXCEPT !.out = x[1]]

(* with a signal at both inlets: the whole block at once                   *)
DspAddSignal(build, d, x, to) ==
    [d EXCEPT !.out = add(build, x[1], x[2], @, 0, to)]
DspSubtractSignal(build, d, x, to) ==
    [d EXCEPT !.out = subtract(build, x[1], x[2], @, 0, to)]
DspMultiplySignal(build, d, x, to) ==
    [d EXCEPT !.out = multiply(build, x[1], x[2], @, 0, to)]
DspDivideSignal(build, d, x, to) ==
    [d EXCEPT !.out = divide(build, x[1], x[2], @, 0, to)]
DspMinimumSignal(d, x, to) ==
    [d EXCEPT !.out = [k \in DOMAIN @ |->
        IF k < to THEN Least(x[1][k], x[2][k]) ELSE @[k]]]

-----------------------------------------------------------------------------
(* sig~ clip~ wrap~                                                        *)

NewDspSignal(arguments, zeros) ==
    [lets |-> <<1, 0, 0, 1>>, functions |-> Scalar,
     constant |-> ArgumentOr(arguments, 1, 0), out |-> zeros]

\* sig~ takes a number at whatever inlet it comes to.
TakesSignal(d, message) ==
    IF isFloat(message, 1) THEN [d EXCEPT !.constant = message.floats[1]]
    ELSE d

DspSignal(build, d, from, to) ==
    [d EXCEPT !.out = fill(build, d.constant, @, from, to)]

NewDspClip(arguments, zeros) ==
    [lets |-> <<3, 1, 0, 1>>, functions |-> Scalar,
     constant |-> <<ArgumentOr(arguments, 1, -Unit),
                    ArgumentOr(arguments, 2, Unit)>>,
     out |-> zeros]

\* The inlets on the right are the lower and the upper bound.
TakesBound(d, message) ==
    IF message.inlet \in {1, 2} /\ isFloat(message, 1)
    THEN [d EXCEPT !.constant[message.inlet] = message.floats[1]] ELSE d

\* The lower bound wins where the bounds have crossed.
Clipped(y, lowerBound, upperBound) ==
    IF y < lowerBound THEN lowerBound
    ELSE IF y > upperBound THEN upperBound ELSE y

DspClip(d, x, from, to) ==
    [d EXCEPT !.out = [k \in DOMAIN @ |->
        IF k \in Part(from, to)
        THEN Clipped(x[1][k], d.constant[1], d.constant[2]) ELSE @[k]]]

\* What has no settings: a message would wait for ever.
NewFixed(zeros) ==
    [lets |-> <<0, 1, 0, 1>>, functions |-> <<"signal", "default">>, out |-> zeros]
NewDspWrap(zeros) == NewFixed(zeros)

\* The fraction, from the next integer below.
DspWrap(d, x, to) ==
    [d EXCEPT !.out = [k \in DOMAIN @ |->
        IF k < to THEN x[1][k] % Unit ELSE @[k]]]

-----------------------------------------------------------------------------
(* lop~ hip~ bp~: of what the cutoff gives for alpha, integers             *)

\* calcFiltCoeff.  For bp~ any numbers that depend on both, in their places.
LowpassCoefficients(alpha) == <<alpha, 0, 0, alpha - 1, 0>>
HighpassCoefficients(alpha) == <<alpha, -alpha, 0, -alpha, 0>>
BandpassCoefficients(fc, q) == <<q, 0, -q, -fc, q - fc>>

NewDspFilter(numMessageInlets, fc, q, coefficients, zeros) ==
    [lets |-> <<numMessageInlets, 1, 0, 1>>, functions |-> <<"filter", "filter">>,
     fc |-> fc, q |-> q, constant |-> coefficients,
     x1 |-> 0, x2 |-> 0, y1 |-> 0, y2 |-> 0, out |-> zeros]

\* Without an argument lop~ and hip~ are open: alpha is 1.
NewDspLowpassFilter(arguments, zeros) ==
    LET fc == ArgumentOr(arguments, 1, 1) IN
    NewDspFilter(2, fc, 1, LowpassCoefficients(fc), zeros)
NewDspHighpassFilter(arguments, zeros) ==
    LET fc == ArgumentOr(arguments, 1, 1) IN
    NewDspFilter(2, fc, 1, HighpassCoefficients(fc), zeros)
NewDspBandpassFilter(arguments, zeros) ==
    LET fc == ArgumentOr(arguments, 1, 1)
        q == ArgumentOr(arguments, 2, 1)
    IN  NewDspFilter(3, fc, q, BandpassCoefficients(fc, q), zeros)

\* "clear" forgets the past input and the first two samples of the block that
\* is being computed, not the past output.
TakesClear(d, message) ==
    IF message.inlet = 0 /\ message.selector = "clear"
    THEN [d EXCEPT !.x1 = 0, !.x2 = 0, !.out[0] = 0, !.out[1] = 0] ELSE d

TakesLowpass(d, message) ==
    IF message.inlet = 1 /\ isFloat(message, 1)
    THEN [d EXCEPT !.constant = LowpassCoefficients(message.floats[1])]
    ELSE TakesClear(d, message)
TakesHighpass(d, message) ==
    IF message.inlet = 1 /\ isFloat(message, 1)
    THEN [d EXCEPT !.constant = HighpassCoefficients(message.floats[1])]
    ELSE TakesClear(d, message)

\* A new centre or a new quality, with the other one of the arguments.
TakesBandpass(d, message) ==
    IF message.inlet \in {1, 2} /\ isFloat(message, 1)
    THEN [d EXCEPT !.constant =
             IF message.inlet = 1 THEN BandpassCoefficients(message.floats[1], d.q)
             ELSE BandpassCoefficients(d.fc, message.floats[1])]
    ELSE TakesClear(d, message)

\* Mistaken: the output before the last is that before the part.
Retained(d, before, n) ==
    [d EXCEPT !.y1 = before.y[n + 1], !.x1 = before.x[n + 1],
              !.x2 = before.x[n]]

\* The last two samples of the input and of the output.
Retain(d, before, n) ==
    [d EXCEPT !.y1 = before.y[n + 1], !.y2 = before.y[n],
              !.x1 = before.x[n + 1], !.x2 = before.x[n]]

\* processFilter: bufferIn and bufferOut hold two samples before the part.
DspFilter(d, x, from, to) ==
    LET n == to - from
        b == d.constant
        bufferIn == [i \in 0 .. n + 1 |->
            CASE i = 0 -> d.x2 [] i = 1 -> d.x1 [] OTHER -> x[1][from + i - 2]]
        \* An output with the one before it.
        lastTwo[i \in 1 .. n + 1] ==
            IF i = 1 THEN <<d.y2, d.y1>>
            ELSE LET y == lastTwo[i - 1]
                 IN  <<y[2], b[1] * bufferIn[i] + b[2] * bufferIn[i - 1]
                               + b[3] * bufferIn[i - 2]
                               - b[4] * y[2] - b[5] * y[1]>>
        bufferOut == [i \in 0 .. n + 1 |->
            IF i = 0 THEN d.y2 ELSE lastTwo[i][2]]
    IN  Retain([d EXCEPT !.out = [k \in DOMAIN @ |->
                    IF k \in Part(from, to) THEN bufferOut[k - from + 2]
                                            ELSE @[k]]],
               [x |-> bufferIn, y |-> bufferOut], n)

-----------------------------------------------------------------------------
(* log~ sqrt~ rsqrt~ cos~: a logarithm or a root is named by what it is of *)
(* or, times a constant, by the product; a cosine by its place in a table  *)
(* of cycle places.                                                        *)

\* Of e, if no base is given; what that is worth is 1 here.
NewDspLog(arguments, zeros) ==
    [lets |-> <<2, 2, 0, 1>>, functions |-> Scalar,
     constant |-> ArgumentOr(arguments, 1, 1), out |-> zeros]

\* A base that is not positive is refused.  constant stands for what the base
\* is worth.
TakesBase(d, message) ==
    IF message.inlet = 1 /\ isFloat(message, 1) /\ message.floats[1] > 0
    THEN [d EXCEPT !.constant = message.floats[1]] ELSE d

\* Of what has none, -1000.
log2Approx(y) == IF y <= 0 THEN -1000 ELSE y

\* In place, so that the single samples of multiply are of the input too.
DspLog(build, d, x, from, to) ==
    LET logs == [k \in DOMAIN d.out |->
            IF k \in Part(from, to) THEN log2Approx(x[1][k]) ELSE d.out[k]]
    IN  [d EXCEPT !.out =
            multiplyConstant(build, logs, d.constant, logs, from, to)]

\* With audio at both inlets nothing is written.
DspLogSignal(d) == d

NewDspSqrt(zeros) == NewFixed(zeros)
NewDspReciprocalSqrt(zeros) == NewFixed(zeros)
NewDspCosine(zeros) == NewFixed(zeros)

\* Not a number without vectors, zero with them, of negative ones.
DspSqrt(build, d, x, to, notANumber) ==
    [d EXCEPT !.out = [k \in DOMAIN @ |->
        IF k >= to THEN @[k]
        ELSE IF x[1][k] >= 0 THEN x[1][k]
        ELSE IF build = "plain" THEN notANumber ELSE 0]]

\* Of the smallest number there is (0 here) at least.  There is no other build.
DspReciprocalSqrt(d, x, to) ==
    [d EXCEPT !.out = [k \in DOMAIN @ |->
        IF k >= to THEN @[k] ELSE IF x[1][k] > 0 THEN x[1][k] ELSE 0]]

\* The cosine is symmetric about zero.
DspCosine(d, x, cycle, from, to) ==
    LET f(y) == IF y < 0 THEN (-y) % Unit ELSE y % Unit
    IN  [d EXCEPT !.out = [k \in DOMAIN @ |->
            IF k \in Part(from, to) THEN (f(x[1][k]) * cycle) \div Unit
            ELSE @[k]]]

=============================================================================
