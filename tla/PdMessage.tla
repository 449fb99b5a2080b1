------------------------------ MODULE PdMessage ------------------------------
(***************************************************************************)
(* A message (PdMessage.cpp): a list of atoms, each a float, a symbol or a *)
(* bang, and in the templates of some objects a type alone.  An atom is a  *)
(* pair of its type and its value.                                         *)
(*                                                                         *)
(* A float is a whole number of steps of 1/Unit.  A text is identified     *)
(* with the atom that parseAndSetMessageElement makes of it: "3" with a    *)
(* float, "bang" with a bang, every other with a symbol.  %g and atof are  *)
(* exact for the few digits used here.                                     *)
(***************************************************************************)
EXTENDS Integers, Sequences, SequencesExt, TLC

CONSTANT Unit \* the steps of a float in the number one

ASSUME UnitAssumption == Unit \in Nat \ {0}

Float(x) == <<"FLOAT", x>>
Symbol(s) == <<"SYMBOL", s>>
Bang == <<"BANG", 0>>
Anything == <<"ANYTHING", 0>>
ListType == <<"LIST", 0>>
Whole(n) == Float(n * Unit)

\* (int) x and truncf(x): towards zero.
ToInt(x) == IF x >= 0 THEN x \div Unit ELSE -((-x) \div Unit)
Truncated(x) == ToInt(x) * Unit

-----------------------------------------------------------------------------
\* Indices count from 0, as in the code.
getType(message, i) ==
    IF i < Len(message) THEN message[i + 1][1] ELSE "ANYTHING"
isFloat(message, i) == i < Len(message) /\ message[i + 1][1] = "FLOAT"
isSymbol(message, i) == i < Len(message) /\ message[i + 1][1] = "SYMBOL"
isBang(message, i) == i < Len(message) /\ message[i + 1][1] = "BANG"
Says(message, i, symbol) ==
    isSymbol(message, i) /\ message[i + 1] = Symbol(symbol)
getFloat(message, i) == message[i + 1][2]
getSymbol(message, i) == message[i + 1][2]

hasFormat(message, format) ==
    /\ Len(format) = Len(message)
    /\ \A i \in 0..(Len(message) - 1) :
           CASE format[i + 1] = "f" -> isFloat(message, i)
             [] format[i + 1] = "s" -> isSymbol(message, i)
             [] format[i + 1] = "b" -> isBang(message, i)
             [] OTHER -> FALSE

\* Two types without a value are not equal even to themselves.
atomIsEqualTo(a, b) == a = b /\ a[1] \in {"FLOAT", "SYMBOL", "BANG"}

\* The arguments of [trigger], [pack] and [unpack] name types.
ResolvedToType(atom) ==
    IF atom[1] # "SYMBOL" THEN atom
    ELSE CASE atom[2] \in {"symbol", "s"} -> atom
           [] atom[2] \in {"bang", "b"} -> Bang
           [] atom[2] \in {"float", "f"} -> Float(0)
           [] atom[2] \in {"list", "l"} -> ListType
           [] OTHER -> Anything
resolveSymbolsToType(message) ==
    [i \in DOMAIN message |-> ResolvedToType(message[i])]

-----------------------------------------------------------------------------
(* A word of a patch file is a text, the argument "\$n", or one joined to  *)
(* a text that follows it, as in "\$0-name".                               *)
Literal(atom) == <<"text", atom, 0>>
Dollar(n) == <<"argument", n, 0>>
Joined(n, symbol) == <<"joined", n, symbol>>

Comma == <<"comma", 0, 0>>
Semicolon == <<"semicolon", 0, 0>>

\* The words between the delimiters; what follows the last may not be empty.
tokenizeString(words, delimiter) ==
    LET pieces == FoldLeft(LAMBDA found, word :
                               IF word[1] = delimiter[1] THEN Append(found, <<>>)
                               ELSE [found EXCEPT ![Len(found)] = Append(@, word)],
                           << <<>> >>, words)
    IN  IF Last(pieces) = <<>> THEN Front(pieces) ELSE pieces

EmptyText == Symbol("")

\* What is written of an atom with a value; the floats are whole here.
Written(atom) == IF atom[1] = "FLOAT" THEN ToString(ToInt(atom[2])) ELSE atom[2]

\* A bang among the arguments writes nothing, and one that is missing "0".
ArgumentText(arguments, n) ==
    IF n < 0 \/ n >= Len(arguments) THEN Float(0)
    ELSE IF getType(arguments, n) \in {"FLOAT", "SYMBOL"}
         THEN arguments[n + 1]
         ELSE EmptyText

\* Mistaken: the offset of message boxes is used for objects, or none at all.
resolveStringAsIs(word, arguments, offset) ==
    IF word[1] = "text" THEN word[2]
    ELSE LET text == ArgumentText(arguments, word[2]) IN
         IF word[1] = "argument" THEN text
         ELSE Symbol(Written(text) \o word[3])

resolveString(word, arguments, offset) ==
    IF word[1] = "text" THEN word[2]
    ELSE LET text == ArgumentText(arguments, word[2] - offset) IN
         IF word[1] = "argument" THEN text
         ELSE Symbol(Written(text) \o word[3])

\* The texts of a string that are left when it is cut at blanks, at least
\* one atom and at most maxElements.
initWithString(maxElements, texts) ==
    LET tokens == SelectSeq(texts, LAMBDA t : t # EmptyText) IN
    IF tokens = <<>> THEN <<Bang>>
    ELSE SubSeq(tokens, 1, IF Len(tokens) < maxElements
                           THEN Len(tokens) ELSE maxElements)

initWithSARb(maxElements, words, arguments) ==
    initWithString(maxElements,
                   [i \in DOMAIN words |-> resolveString(words[i], arguments, 0)])
=============================================================================
