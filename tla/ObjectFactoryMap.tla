--------------------------- MODULE ObjectFactoryMap ---------------------------
(***************************************************************************)
(* The objects that a label stands for (ObjectFactoryMap.cpp): what they   *)
(* are when they have been constructed, their inlets and outlets, and the  *)
(* processMessage that a message reaches.                                  *)
(*                                                                         *)
(* The objects with a clock and those with audio have modules of their     *)
(* own, and are not in this table; a message box ("msg") is made without   *)
(* it, from its words.                                                     *)
(***************************************************************************)
EXTENDS MessageControls

CONSTANT SampleRate

Values == {"value", "v"}
Bangs == {"bang", "bng", "b"}
Floats == {"float", "f", "nbx", "hsl", "vsl"}
Integers1 == {"int", "i"}
Sends == {"send", "s"}
Receives == {"receive", "r"}
Triggers == {"trigger", "t"}
Selects == {"select", "sel"}
Toggles == {"toggle", "tgl"}

Labels ==
    Bangs \cup Floats \cup Integers1 \cup Toggles \cup Selects \cup Triggers
        \cup Sends \cup Receives \cup Values
    \cup {
       "+", "-", "*", "/", "div", "%", "mod", "pow", "atan2", "==", "!=",
       "<", "<=", ">", ">=", "min", "max", "&&", "||", "abs", "sqrt", "exp",
       "log", "sin", "cos", "tan", "atan", "ftom", "mtof", "rmstodb",
       "dbtorms", "powtodb", "dbtopow", "clip", "wrap", "symbol", "change",
       "spigot", "moses", "swap", "until", "route", "pack", "unpack",
       "list", "inlet", "outlet", "makefilename", "notein", "stripnote",
       "random", "timer", "samplerate", "table", "tabread", "tabwrite",
       "soundfiler",
       "text", "print", "loadbang", "declare"}

\* The constructor that a label stands for.
constructed(label, arguments) ==
    CASE label = "+" -> NewMessageAdd(arguments)
      [] label = "-" -> NewMessageSubtract(arguments)
      [] label = "*" -> NewMessageMultiply(arguments)
      [] label = "/" -> NewMessageDivide(arguments)
      [] label = "div" -> NewMessageDiv(arguments)
      [] label = "%" -> NewMessageRemainder(arguments)
      [] label = "mod" -> NewMessageModulus(arguments)
      [] label = "pow" -> NewMessagePow(arguments)
      [] label = "atan2" -> NewMessageArcTangent2(arguments)
      [] label = "==" -> NewMessageEqualsEquals(arguments)
      [] label = "!=" -> NewMessageNotEquals(arguments)
      [] label = "<" -> NewMessageLessThan(arguments)
      [] label = "<=" -> NewMessageLessThanOrEqualTo(arguments)
      [] label = ">" -> NewMessageGreaterThan(arguments)
      [] label = ">=" -> NewMessageGreaterThanOrEqualTo(arguments)
      [] label = "min" -> NewMessageMinimum(arguments)
      [] label = "max" -> NewMessageMaximum(arguments)
      [] label = "&&" -> NewMessageLogicalAnd(arguments)
      [] label = "||" -> NewMessageLogicalOr(arguments)
      [] label = "abs" -> NewMessageAbsoluteValue(arguments)
      [] label = "sqrt" -> NewMessageSqrt(arguments)
      [] label = "exp" -> NewMessageExp(arguments)
      [] label = "log" -> NewMessageLog(arguments)
      [] label = "sin" -> NewMessageSine(arguments)
      [] label = "cos" -> NewMessageCosine(arguments)
      [] label = "tan" -> NewMessageTangent(arguments)
      [] label = "atan" -> NewMessageArcTangent(arguments)
      [] label = "ftom" -> NewMessageFrequencyToMidi(arguments)
      [] label = "mtof" -> NewMessageMidiToFrequency(arguments)
      [] label = "rmstodb" -> NewMessageRmsToDb(arguments)
      [] label = "dbtorms" -> NewMessageDbToRms(arguments)
      [] label = "powtodb" -> NewMessagePowToDb(arguments)
      [] label = "dbtopow" -> NewMessageDbToPow(arguments)
      [] label = "clip" -> NewMessageClip(arguments)
      [] label = "wrap" -> NewMessageWrap(arguments)
      [] label \in Bangs -> NewMessageBang(arguments)
      [] label \in Floats -> NewMessageFloat(arguments)
      [] label \in Integers1 -> NewMessageInteger(arguments)
      [] label = "symbol" -> NewMessageSymbol(arguments)
      [] label \in Toggles -> NewMessageToggle(arguments)
      [] label = "change" -> NewMessageChange(arguments)
      [] label = "spigot" -> NewMessageSpigot(arguments)
      [] label = "moses" -> NewMessageMoses(arguments)
      [] label = "swap" -> NewMessageSwap(arguments)
      [] label = "until" -> NewMessageUntil(arguments)
      [] label \in Selects -> NewMessageSelect(arguments)
      [] label = "route" -> NewMessageRoute(arguments)
      [] label \in Triggers -> NewMessageTrigger(arguments)
      [] label = "pack" -> NewMessagePack(arguments)
      [] label = "unpack" -> NewMessageUnpack(arguments)
      [] label = "list" -> NewMessageList(arguments)
      [] label \in Sends -> NewMessageSend(arguments)
      [] label \in Receives -> NewMessageReceive(arguments)
      [] label = "inlet" -> NewMessageInlet(arguments)
      [] label = "outlet" -> NewMessageOutlet(arguments)
      [] label = "makefilename" -> NewMessageMakefilename(arguments)
      [] label = "notein" -> NewMessageNotein(arguments)
      [] label = "stripnote" -> NewMessageStripNote(arguments)
      [] label = "random" -> NewMessageRandom(arguments)
      [] label = "timer" -> NewMessageTimer(arguments)
      [] label = "samplerate" -> NewMessageSamplerate(arguments)
      [] label \in Values -> NewMessageValue(arguments)
      [] label = "table" -> NewMessageTable(arguments)
      [] label = "tabread" -> NewMessageTableRead(arguments)
      [] label = "tabwrite" -> NewMessageTableWrite(arguments)
      [] label = "soundfiler" -> NewMessageSoundfiler(arguments)
      [] label = "text" -> NewMessageText(arguments)
      [] label = "print" -> NewMessagePrint(arguments)
      [] label = "loadbang" -> NewMessageLoadbang(arguments)
      [] label = "declare" -> NewMessageDeclare(arguments)

\* Of the objects with more than one inlet, those that take a list as it is.
TakesLists(label, arguments) ==
    \/ label \in Sends \cup {"tabwrite", "random"}
    \/ label = "list" /\ ~Says(arguments, 0, "prepend") /\ ~Says(arguments, 0, "split")

-----------------------------------------------------------------------------
\* The k-th message is about to be sent; drawn is what a generator gives.
Processed(label, arguments, state, inlet, message, k, drawn, now) ==
    CASE label = "+" -> MessageAdd(state, inlet, message)
      [] label = "-" -> MessageSubtract(state, inlet, message)
      [] label = "*" -> MessageMultiply(state, inlet, message)
      [] label = "/" -> MessageDivide(state, inlet, message)
      [] label = "div" -> MessageDiv(state, inlet, message)
      [] label = "%" -> MessageRemainder(state, inlet, message)
      [] label = "mod" -> MessageModulus(state, inlet, message)
      [] label = "pow" -> MessagePow(state, inlet, message)
      [] label = "atan2" -> MessageArcTangent2(state, inlet, message)
      [] label = "==" -> MessageEqualsEquals(state, inlet, message)
      [] label = "!=" -> MessageNotEquals(state, inlet, message)
      [] label = "<" -> MessageLessThan(state, inlet, message)
      [] label = "<=" -> MessageLessThanOrEqualTo(state, inlet, message)
      [] label = ">" -> MessageGreaterThan(state, inlet, message)
      [] label = ">=" -> MessageGreaterThanOrEqualTo(state, inlet, message)
      [] label = "min" -> MessageMinimum(state, inlet, message)
      [] label = "max" -> MessageMaximum(state, inlet, message)
      [] label = "&&" -> MessageLogicalAnd(state, inlet, message)
      [] label = "||" -> MessageLogicalOr(state, inlet, message)
      [] label = "abs" -> MessageAbsoluteValue(state, inlet, message)
      [] label = "sqrt" -> MessageSqrt(state, inlet, message)
      [] label = "exp" -> MessageExp(state, inlet, message)
      [] label = "log" -> MessageLog(state, inlet, message)
      [] label = "sin" -> MessageSine(state, inlet, message)
      [] label = "cos" -> MessageCosine(state, inlet, message)
      [] label = "tan" -> MessageTangent(state, inlet, message)
      [] label = "atan" -> MessageArcTangent(state, inlet, message)
      [] label = "ftom" -> MessageFrequencyToMidi(state, inlet, message)
      [] label = "mtof" -> MessageMidiToFrequency(state, inlet, message)
      [] label = "rmstodb" -> MessageRmsToDb(state, inlet, message)
      [] label = "dbtorms" -> MessageDbToRms(state, inlet, message)
      [] label = "powtodb" -> MessagePowToDb(state, inlet, message)
      [] label = "dbtopow" -> MessageDbToPow(state, inlet, message)
      [] label = "clip" -> MessageClip(state, inlet, message)
      [] label = "wrap" -> MessageWrap(state, inlet, message)
      [] label \in Bangs -> MessageBang(state, inlet, message)
      [] label \in Floats -> MessageFloat(state, inlet, message)
      [] label \in Integers1 -> MessageInteger(state, inlet, message)
      [] label = "symbol" -> MessageSymbol(state, inlet, message)
      [] label \in Toggles -> MessageToggle(state, inlet, message)
      [] label = "change" -> MessageChange(state, inlet, message)
      [] label = "spigot" -> MessageSpigot(state, inlet, message)
      [] label = "moses" -> MessageMoses(state, inlet, message)
      [] label = "swap" -> MessageSwap(state, inlet, message)
      [] label = "until" -> MessageUntil(state, inlet, message, k)
      [] label \in Selects -> MessageSelect(state, inlet, message)
      [] label = "route" -> MessageRoute(state, inlet, message)
      [] label \in Triggers -> MessageTrigger(state, inlet, message)
      [] label = "pack" -> MessagePack(state, inlet, message)
      [] label = "unpack" -> MessageUnpack(state, inlet, message)
      [] label = "list" ->
             (CASE Says(arguments, 0, "prepend") -> MessageListPrepend(state, inlet, message)
                [] Says(arguments, 0, "split") -> MessageListSplit(state, inlet, message)
                [] Says(arguments, 0, "trim") -> MessageListTrim(state, inlet, message)
                [] Says(arguments, 0, "length") -> MessageListLength(state, inlet, message)
                [] OTHER -> MessageListAppend(state, inlet, message))
      [] label = "msg" -> MessageMessageBox(state, inlet, message)
      [] label \in Sends -> MessageSend(state, inlet, message)
      [] label \in Receives -> MessageReceive(state, inlet, message)
      [] label = "inlet" -> MessageInlet(state, inlet, message)
      [] label = "outlet" -> MessageOutlet(state, inlet, message)
      [] label = "makefilename" -> MessageMakefilename(state, inlet, message)
      [] label = "notein" -> MessageNotein(state, inlet, message)
      [] label = "stripnote" -> MessageStripNote(state, inlet, message)
      [] label = "random" -> MessageRandom(state, inlet, message, drawn)
      [] label = "timer" -> MessageTimer(state, inlet, message, now)
      [] label = "samplerate" -> MessageSamplerate(state, inlet, message, SampleRate)
      [] OTHER -> Silent(state)
=============================================================================
