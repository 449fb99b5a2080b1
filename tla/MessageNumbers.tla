---------------------------- MODULE MessageNumbers ----------------------------
(***************************************************************************)
(* The message objects that compute a number.  The operator of an object   *)
(* is its processMessage: from the state of the object, the inlet and the  *)
(* message it gives what the state becomes and what is sent, in the order  *)
(* of the calls of sendMessage.                                            *)
(***************************************************************************)
EXTENDS PdMessage

CONSTANT LibM(_, _, _) \* the functions of the C library, of two arguments

\* What a call of sendMessage sends from an outlet, or to the receivers of a
\* name: a list of atoms, the message that is being processed itself, or the
\* one that the object keeps.
NoName == ""
Sent(kind, outlet, name, atoms) ==
    [kind |-> kind, outlet |-> outlet, name |-> name, atoms |-> atoms]
Out(outlet, atom) == Sent("atoms", outlet, NoName, <<atom>>)
Reply(state, sends) == [becomes |-> state, sends |-> sends]
Silent(state) == Reply(state, <<>>)

\* What the constructor of a class makes of its arguments: the number of
\* message inlets and of message outlets, and the state.
New(inlets, outlets, state) ==
    [inlets |-> inlets, outlets |-> outlets, state |-> state]

\* The constant of an object, from its arguments.
FloatOr(message, i, default) ==
    IF isFloat(message, i) THEN getFloat(message, i) ELSE default
Constant(arguments) == FloatOr(arguments, 0, 0)
WithConstant(arguments) == [constant |-> Constant(arguments)]
WithLastOutput(arguments) == [constant |-> Constant(arguments), lastOutput |-> 0]
NothingToDo == [constant |-> 0]

\* The right inlet of those with a constant.
SetConstant(state, message) ==
    IF isFloat(message, 0) THEN [state EXCEPT !.constant = getFloat(message, 0)]
    ELSE state

\* Those that answer a float at the left inlet with a number computed of it
\* and the constant, and nothing else.
Answers(state, inlet, message, Result(_, _)) ==
    CASE inlet = 1 -> Silent(SetConstant(state, message))
      [] inlet = 0 /\ isFloat(message, 0) ->
             Reply(state, <<Out(0, Float(Result(getFloat(message, 0),
                                                state.constant)))>>)
      [] OTHER -> Silent(state)

\* Those that keep what they answered and give it again to a bang.
Remembers(state, inlet, message, Result(_, _)) ==
    LET output == Result(getFloat(message, 0), state.constant) IN
    CASE inlet = 1 -> Silent(SetConstant(state, message))
      [] inlet = 0 /\ isFloat(message, 0) ->
             Reply([state EXCEPT !.lastOutput = output], <<Out(0, Float(output))>>)
      [] inlet = 0 /\ isBang(message, 0) ->
             Reply(state, <<Out(0, Float(state.lastOutput))>>)
      [] OTHER -> Silent(state)

\* Those with one inlet.
Maps(state, inlet, message, Result(_)) ==
    IF isFloat(message, 0)
    THEN Reply(state, <<Out(0, Float(Result(getFloat(message, 0))))>>)
    ELSE Silent(state)

Truth(condition) == IF condition THEN Unit ELSE 0
Magnitude(x) == IF x < 0 THEN -x ELSE x
Quotient(n, d) == IF (n >= 0) = (d > 0) THEN Magnitude(n) \div Magnitude(d)
                  ELSE -(Magnitude(n) \div Magnitude(d))
\* The sign of C's % is that of the dividend.
CRemainder(n, d) == n - d * Quotient(n, d)

-----------------------------------------------------------------------------
NewMessageAdd(arguments) == New(2, 1, WithConstant(arguments))
MessageAdd(state, inlet, message) ==
    Answers(state, inlet, message, LAMBDA x, c : x + c)
NewMessageSubtract(arguments) == New(2, 1, WithConstant(arguments))
MessageSubtract(state, inlet, message) ==
    Answers(state, inlet, message, LAMBDA x, c : x - c)
NewMessageMultiply(arguments) == New(2, 1, WithConstant(arguments))
MessageMultiply(state, inlet, message) ==
    Answers(state, inlet, message, LAMBDA x, c : Quotient(x * c, Unit))
NewMessageDivide(arguments) == New(2, 1, WithConstant(arguments))
MessageDivide(state, inlet, message) ==
    Answers(state, inlet, message,
            LAMBDA x, c : IF c = 0 THEN 0 ELSE Quotient(x * Unit, c))

\* Made positive, and 1 if it is 0, when it is set.
Divisor(x) == IF x = 0 THEN Unit ELSE Magnitude(x)
NewMessageDiv(arguments) ==
    New(2, 1, [constant |-> Divisor(FloatOr(arguments, 0, Unit))])

\* Mistaken: rounds towards zero, also below it.
MessageDivTowardsZero(state, inlet, message) ==
    LET answer == Answers(state, inlet, message,
                          LAMBDA x, c : Quotient(x, c) * Unit)
    IN  [answer EXCEPT !.becomes.constant = Divisor(@)]

\* A dividend below zero is moved so that cutting off rounds it down.
MessageDiv(state, inlet, message) ==
    LET d == state.constant
        answer == Answers(state, inlet, message,
            LAMBDA x, c : Quotient(IF x < 0 THEN x - (d - Unit) ELSE x, d) * Unit)
    IN  [answer EXCEPT !.becomes.constant = Divisor(@)]

NewMessageModulus(arguments) == New(2, 1, WithLastOutput(arguments))
MessageModulus(state, inlet, message) ==
    Remembers(state, inlet, message,
        LAMBDA x, c :
            LET r == IF c = 0 THEN 0 ELSE CRemainder(ToInt(x), ToInt(c)) * Unit
            IN  IF r < 0 THEN r + Magnitude(c) ELSE r)

\* The constant is an int.
NewMessageRemainder(arguments) == New(2, 1, WithConstant(arguments))
MessageRemainder(state, inlet, message) ==
    Answers(state, inlet, message,
            LAMBDA x, c : IF ToInt(c) = 0 THEN 0
                          ELSE CRemainder(ToInt(x), ToInt(c)) * Unit)

NewMessagePow(arguments) == New(2, 1, WithConstant(arguments))
MessagePow(state, inlet, message) ==
    Answers(state, inlet, message,
            LAMBDA x, c : IF x <= 0 THEN 0 ELSE LibM("powf", x, c))
NewMessageArcTangent2(arguments) == New(2, 1, WithConstant(arguments))
MessageArcTangent2(state, inlet, message) ==
    Answers(state, inlet, message, LAMBDA x, c : LibM("atan2f", x, c))

NewMessageEqualsEquals(arguments) == New(2, 1, WithLastOutput(arguments))
MessageEqualsEquals(state, inlet, message) ==
    Remembers(state, inlet, message, LAMBDA x, c : Truth(x = c))
NewMessageNotEquals(arguments) == New(2, 1, WithLastOutput(arguments))
MessageNotEquals(state, inlet, message) ==
    Remembers(state, inlet, message, LAMBDA x, c : Truth(x # c))
NewMessageLessThan(arguments) == New(2, 1, WithLastOutput(arguments))
MessageLessThan(state, inlet, message) ==
    Remembers(state, inlet, message, LAMBDA x, c : Truth(x < c))
NewMessageLessThanOrEqualTo(arguments) == New(2, 1, WithLastOutput(arguments))
MessageLessThanOrEqualTo(state, inlet, message) ==
    Remembers(state, inlet, message, LAMBDA x, c : Truth(x <= c))
NewMessageGreaterThan(arguments) == New(2, 1, WithLastOutput(arguments))
MessageGreaterThan(state, inlet, message) ==
    Remembers(state, inlet, message, LAMBDA x, c : Truth(x > c))
NewMessageGreaterThanOrEqualTo(arguments) ==
    New(2, 1, WithLastOutput(arguments))
MessageGreaterThanOrEqualTo(state, inlet, message) ==
    Remembers(state, inlet, message, LAMBDA x, c : Truth(x >= c))
NewMessageMinimum(arguments) == New(2, 1, WithLastOutput(arguments))
MessageMinimum(state, inlet, message) ==
    Remembers(state, inlet, message, LAMBDA x, c : IF x < c THEN x ELSE c)
NewMessageMaximum(arguments) == New(2, 1, WithLastOutput(arguments))
MessageMaximum(state, inlet, message) ==
    Remembers(state, inlet, message, LAMBDA x, c : IF x > c THEN x ELSE c)

\* Both operands are kept, and arguments ignored.
Logic(state, inlet, message, Result(_, _)) ==
    LET left == IF isFloat(message, 0) THEN getFloat(message, 0) ELSE state.left
    IN  CASE inlet = 0 /\ getType(message, 0) \in {"FLOAT", "BANG"} ->
                 Reply([state EXCEPT !.left = left],
                       <<Out(0, Float(Truth(Result(left # 0, state.right # 0))))>>)
          [] inlet = 1 /\ isFloat(message, 0) ->
                 Silent([state EXCEPT !.right = getFloat(message, 0)])
          [] OTHER -> Silent(state)
WithOperands == [left |-> 0, right |-> 0]
NewMessageLogicalAnd(arguments) == New(2, 1, WithOperands)
MessageLogicalAnd(state, inlet, message) ==
    Logic(state, inlet, message, LAMBDA l, r : l /\ r)
NewMessageLogicalOr(arguments) == New(2, 1, WithOperands)
MessageLogicalOr(state, inlet, message) ==
    Logic(state, inlet, message, LAMBDA l, r : l \/ r)

-----------------------------------------------------------------------------
NewMessageAbsoluteValue(arguments) == New(1, 1, NothingToDo)
MessageAbsoluteValue(state, inlet, message) ==
    Maps(state, inlet, message, Magnitude)
NewMessageSqrt(arguments) == New(1, 1, NothingToDo)
MessageSqrt(state, inlet, message) ==
    Maps(state, inlet, message, LAMBDA x : IF x < 0 THEN 0 ELSE LibM("sqrtf", x, 0))
NewMessageExp(arguments) == New(1, 1, NothingToDo)
MessageExp(state, inlet, message) ==
    Maps(state, inlet, message, LAMBDA x : LibM("expf", x, 0))
NewMessageLog(arguments) == New(1, 1, NothingToDo)
MessageLog(state, inlet, message) ==
    Maps(state, inlet, message,
         LAMBDA x : IF x <= 0 THEN -1000 * Unit ELSE LibM("logf", x, 0))
NewMessageSine(arguments) == New(1, 1, NothingToDo)
MessageSine(state, inlet, message) ==
    Maps(state, inlet, message, LAMBDA x : LibM("sinf", x, 0))
NewMessageCosine(arguments) == New(1, 1, NothingToDo)
MessageCosine(state, inlet, message) ==
    Maps(state, inlet, message, LAMBDA x : LibM("cosf", x, 0))
NewMessageTangent(arguments) == New(1, 1, NothingToDo)
MessageTangent(state, inlet, message) ==
    Maps(state, inlet, message, LAMBDA x : LibM("tanf", x, 0))
NewMessageArcTangent(arguments) == New(1, 1, NothingToDo)
MessageArcTangent(state, inlet, message) ==
    Maps(state, inlet, message, LAMBDA x : LibM("atanf", x, 0))

NewMessageFrequencyToMidi(arguments) == New(1, 1, NothingToDo)
\* 12 * log2(f / 440) + 69, and back.
MessageFrequencyToMidi(state, inlet, message) ==
    Maps(state, inlet, message,
         LAMBDA f : IF f <= 0 THEN -1500 * Unit
                    ELSE 12 * LibM("log2f", Quotient(f, 440), 0) + 69 * Unit)
NewMessageMidiToFrequency(arguments) == New(1, 1, NothingToDo)
MessageMidiToFrequency(state, inlet, message) ==
    Maps(state, inlet, message,
         LAMBDA n : 440 * LibM("exp2f", Quotient(n - 69 * Unit, 12), 0))

\* 100 decibel are an amplitude and a power of 1, and 0 are none.
\* Mistaken: an amplitude is taken for a power.
MessageRmsToDbOfPower(state, inlet, message) ==
    Maps(state, inlet, message,
         LAMBDA f : IF f <= 0 THEN 0 ELSE 10 * LibM("log10f", f * 100000, 0))
NewMessageRmsToDb(arguments) == New(1, 1, NothingToDo)
MessageRmsToDb(state, inlet, message) ==
    Maps(state, inlet, message,
         LAMBDA f : IF f <= 0 THEN 0 ELSE 20 * LibM("log10f", f * 100000, 0))
NewMessageDbToRms(arguments) == New(1, 1, NothingToDo)
MessageDbToRms(state, inlet, message) ==
    Maps(state, inlet, message,
         LAMBDA d : IF d <= 0 THEN 0
                    ELSE Quotient(LibM("exp10f", Quotient(d, 20), 0), 100000))
NewMessagePowToDb(arguments) == New(1, 1, NothingToDo)
MessagePowToDb(state, inlet, message) ==
    Maps(state, inlet, message,
         LAMBDA f : IF f <= 0 THEN 0 ELSE 100 * Unit + 10 * LibM("log10f", f, 0))
NewMessageDbToPow(arguments) == New(1, 1, NothingToDo)
MessageDbToPow(state, inlet, message) ==
    Maps(state, inlet, message,
         LAMBDA d : IF d <= 0 THEN 0
                    ELSE LET rms == Quotient(LibM("exp10f", Quotient(d, 20), 0), 100000)
                         IN  Quotient(rms * rms, Unit))

-----------------------------------------------------------------------------
NewMessageClip(arguments) ==
    New(3, 1, [lowerBound |-> Constant(arguments),
               upperBound |-> IF isFloat(arguments, 0)
                              THEN FloatOr(arguments, 1, 0) ELSE 0])
MessageClip(state, inlet, message) ==
    IF ~isFloat(message, 0) THEN Silent(state)
    ELSE LET x == getFloat(message, 0) IN
         CASE inlet = 0 ->
                  Reply(state, <<Out(0, Float(
                      CASE x < state.lowerBound -> state.lowerBound
                        [] x >= state.lowerBound /\ x > state.upperBound ->
                               state.upperBound
                        [] OTHER -> x))>>)
           [] inlet = 1 -> Silent([state EXCEPT !.lowerBound = x])
           [] inlet = 2 -> Silent([state EXCEPT !.upperBound = x])

\* The bounds of [wrap], in order.
Ordered(state, lower, upper) ==
    IF upper < lower THEN [state EXCEPT !.lower = upper, !.upper = lower]
    ELSE [state EXCEPT !.lower = lower, !.upper = upper]

\* With more arguments the bounds are not initialised, which no patch here has.
NewMessageWrap(arguments) ==
    New(2, 1, IF Len(arguments) = 1
              THEN [lower |-> 0, upper |-> FloatOr(arguments, 0, Unit)]
              ELSE Ordered([lower |-> 0, upper |-> 0], FloatOr(arguments, 0, 0),
                           FloatOr(arguments, 1, Unit)))

\* Mistaken: the upper bound belongs to the range.
WrappedWithUpper(x, lower, upper) ==
    IF x > upper THEN lower + ((x - lower) % (upper - lower))
    ELSE IF x < lower THEN lower + ((x - lower) % (upper - lower)) ELSE x

\* The two loops that add or take away the range: neither ends if it is 0,
\* which no patch here has.
Wrapped(x, lower, upper) ==
    IF upper <= x THEN lower + ((x - lower) % (upper - lower))
    ELSE IF x < lower THEN lower + ((x - lower) % (upper - lower)) ELSE x

MessageWrap(state, inlet, message) ==
    CASE inlet = 0 /\ isFloat(message, 0) ->
             Reply(state, <<Out(0, Float(Wrapped(getFloat(message, 0),
                                                 state.lower, state.upper)))>>)
      [] inlet = 1 /\ isFloat(message, 0) ->
             Silent(CASE Len(message) = 1 ->
                             Ordered(state, getFloat(message, 0), 0)
                      [] Len(message) = 2 ->
                             Ordered(state, getFloat(message, 0), getFloat(message, 1))
                      [] OTHER -> Ordered(state, state.lower, state.upper))
      [] OTHER -> Silent(state)
=============================================================================
