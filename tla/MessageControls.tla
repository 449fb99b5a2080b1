---------------------------- MODULE MessageControls ----------------------------
(***************************************************************************)
(* The message objects that keep, choose and route messages, and those     *)
(* that read and write what a context shares by name.  As in               *)
(* MessageNumbers the operator of an object is its processMessage.         *)
(*                                                                         *)
(* Some objects read their state or the message they received again for    *)
(* each message they send (see LateReaders of MessageObject).  What they    *)
(* send is an expression of the state and the message as they then are.    *)
(***************************************************************************)
EXTENDS MessageNumbers

CONSTANTS
    Forever,           \* stands for 0xFFFFFFFF: more than any loop here runs
    SymbolBufferLength,
    DEFAULT_BUFFER_LENGTH

ASSUME ControlAssumption ==
    /\ Forever \in Nat
    /\ SymbolBufferLength \in Nat
    /\ DEFAULT_BUFFER_LENGTH \in Nat

OutList(outlet, atoms) == Sent("atoms", outlet, NoName, atoms)
Pass(outlet) == Sent("received", outlet, NoName, <<>>)
PassTo(name) == Sent("received", 0, name, <<>>)

\* The memory of a message without elements begins with a bang.
FirstAtom(message) == IF message = <<>> THEN Bang ELSE message[1]

\* Mistaken: outlets from left to right.
Leftmost(sends) == FlattenSeq(sends)
\* Outlets from right to left.
Rightmost(sends) == FlattenSeq(Reverse(sends))

-----------------------------------------------------------------------------
NewMessageBang(arguments) == New(1, 1, NothingToDo)
MessageBang(state, inlet, message) == Reply(state, <<Out(0, Bang)>>)

\* The value is set before it is sent: a cascade that comes back finds it.
Stores(state, inlet, message, Stored(_)) ==
    LET new == IF isFloat(message, 0)
               THEN [state EXCEPT !.constant = Stored(getFloat(message, 0))]
               ELSE state
    IN  IF inlet = 0 /\ getType(message, 0) \in {"FLOAT", "BANG"}
        THEN Reply(new, <<Out(0, Float(new.constant))>>)
        ELSE Silent(new)
NewMessageFloat(arguments) == New(2, 1, WithConstant(arguments))
MessageFloat(state, inlet, message) ==
    Stores(state, inlet, message, LAMBDA x : x)
MessageInteger(state, inlet, message) ==
    Stores(state, inlet, message, Truncated)

NewMessageInteger(arguments) ==
    New(2, 1, [constant |-> Truncated(Constant(arguments))])

\* A symbol that does not fit is ignored, and the old one sent instead.
CopiedString(state, message) ==
    IF isSymbol(message, 0) /\ Len(getSymbol(message, 0)) < SymbolBufferLength
    THEN [state EXCEPT !.symbol = getSymbol(message, 0)] ELSE state
NewMessageSymbol(arguments) ==
    New(2, 1, CopiedString([symbol |-> ""], arguments))
MessageSymbol(state, inlet, message) ==
    LET new == CopiedString(state, message) IN
    IF inlet = 0 /\ getType(message, 0) \in {"SYMBOL", "BANG"}
    THEN Reply(new, <<Out(0, Symbol(new.symbol))>>) ELSE Silent(new)

NewMessageToggle(arguments) ==
    New(1, 1, [isOn |-> FALSE, onOutput |-> Unit])
\* Switched on, with what it then sends: a number other than 0.
Switched(state, x) ==
    [state EXCEPT !.isOn = x # 0, !.onOutput = IF x # 0 THEN x ELSE @]
MessageToggle(state, inlet, message) ==
    LET Shows(new) == Reply(new, <<Out(0, Float(IF new.isOn THEN new.onOutput
                                                ELSE 0))>>)
    IN  CASE isFloat(message, 0) -> Shows(Switched(state, getFloat(message, 0)))
          [] isBang(message, 0) -> Shows([state EXCEPT !.isOn = ~@])
          [] Says(message, 0, "set") /\ isFloat(message, 1) ->
                 Silent(Switched(state, getFloat(message, 1)))
          [] OTHER -> Silent(state)

NewMessageChange(arguments) ==
    New(1, 1, [prevValue |-> Constant(arguments)])

\* Mistaken: the value is remembered after it was sent, that is, not before
\* the cascade comes back with it.
MessageChangeLate(state, inlet, message) ==
    CASE isFloat(message, 0) -> Reply(state, <<Out(0, message[1])>>)
      [] isBang(message, 0) -> Reply(state, <<Out(0, Float(state.prevValue))>>)
      [] OTHER -> Silent(state)

MessageChange(state, inlet, message) ==
    CASE isFloat(message, 0) /\ getFloat(message, 0) # state.prevValue ->
             Reply([state EXCEPT !.prevValue = getFloat(message, 0)],
                   <<Out(0, message[1])>>)
      [] isBang(message, 0) -> Reply(state, <<Out(0, Float(state.prevValue))>>)
      [] Says(message, 0, "set") /\ isFloat(message, 1) ->
             Silent([state EXCEPT !.prevValue = getFloat(message, 1)])
      [] OTHER -> Silent(state)

NewMessageSpigot(arguments) == New(2, 1, WithConstant(arguments))

\* Mistaken: open at 1 only.
MessageSpigotAtOne(state, inlet, message) ==
    IF inlet = 1 THEN Silent(SetConstant(state, message))
    ELSE IF state.constant = Unit THEN Reply(state, <<Pass(0)>>) ELSE Silent(state)

MessageSpigot(state, inlet, message) ==
    IF inlet = 1 THEN Silent(SetConstant(state, message))
    ELSE IF state.constant # 0 THEN Reply(state, <<Pass(0)>>) ELSE Silent(state)

NewMessageMoses(arguments) == New(2, 2, WithConstant(arguments))
MessageMoses(state, inlet, message) ==
    IF inlet = 1 THEN Silent(SetConstant(state, message))
    ELSE IF isFloat(message, 0)
         THEN Reply(state, <<Pass(IF getFloat(message, 0) < state.constant
                                  THEN 0 ELSE 1)>>)
         ELSE Silent(state)

NewMessageSwap(arguments) ==
    New(2, 2, [left |-> 0, right |-> Constant(arguments)])

MessageSwap(state, inlet, message) ==
    CASE inlet = 1 /\ isFloat(message, 0) ->
             Silent([state EXCEPT !.right = getFloat(message, 0)])
      [] inlet = 0 /\ getType(message, 0) \in {"FLOAT", "BANG"} ->
             Reply(IF isFloat(message, 0)
                   THEN [state EXCEPT !.left = getFloat(message, 0)] ELSE state,
                   <<Out(1, Float(state.left)), Out(0, Float(state.right))>>)
      [] OTHER -> Silent(state)

NewMessageUntil(arguments) == New(2, 1, [maxIterations |-> 0])

\* Mistaken: the number of rounds is read once.
MessageUntilUnstopped(state, inlet, message, k) ==
    IF inlet = 0
    THEN Reply(state, [j \in 1..(IF isFloat(message, 0) THEN ToInt(getFloat(message, 0))
                                 ELSE Forever) |-> Out(0, Bang)])
    ELSE Silent(state)

\* The k-th round of the loop: a stop inside of it is seen before the next.
MessageUntil(state, inlet, message, k) ==
    CASE inlet = 0 ->
             Reply([state EXCEPT !.maxIterations =
                       CASE isFloat(message, 0) -> ToInt(getFloat(message, 0))
                         [] isBang(message, 0) -> Forever
                         [] OTHER -> @],
                   IF k <= state.maxIterations
                   THEN [j \in 1..k |-> Out(0, Bang)] ELSE <<>>)
      [] inlet = 1 /\ isBang(message, 0) ->
             Silent([state EXCEPT !.maxIterations = 0])
      [] OTHER -> Silent(state)

-----------------------------------------------------------------------------
\* Outlets for one selector more than there may be, and a right inlet for a
\* single one.
NewMessageSelect(arguments) ==
    LET single == Len(arguments) < 2
    IN  New(IF single THEN 2 ELSE 1, IF single THEN 2 ELSE Len(arguments) + 1,
            [arguments |-> arguments])
NewMessageRoute(arguments) ==
    New(1, Len(arguments) + 1, [arguments |-> arguments])

\* The first selector that the first atom equals, or their number.
Selected(selectors, message) ==
    LET equal == {i \in DOMAIN selectors :
                      atomIsEqualTo(selectors[i], FirstAtom(message))}
    IN  IF equal = {} THEN Len(selectors) ELSE Min(equal) - 1

\* The right inlet, which one with a single selector has, is not supported.
MessageSelect(state, inlet, message) ==
    LET i == Selected(state.arguments, message) IN
    IF inlet # 0 THEN Silent(state)
    ELSE IF i = Len(state.arguments) THEN Reply(state, <<Pass(i)>>)
         ELSE Reply(state, <<Out(i, Bang)>>)

\* Mistaken: the atom that chose the outlet is sent along.
MessageRouteWhole(state, inlet, message) ==
    Reply(state, <<Pass(Selected(state.arguments, message))>>)

MessageRoute(state, inlet, message) ==
    LET i == Selected(state.arguments, message) IN
    IF i = Len(state.arguments) THEN Reply(state, <<Pass(i)>>)
    ELSE Reply(state, <<OutList(i, Tail(message))>>)

NewMessageTrigger(arguments) ==
    New(1, Len(arguments), [template |-> resolveSymbolsToType(arguments)])

\* What [trigger] makes of an atom for an outlet of a type: "s" and "f" ask
\* too much of a symbol, and there is no conversion to a list.
Cast(atom, type) ==
    CASE atom[1] = "FLOAT" /\ type \in {"ANYTHING", "FLOAT"} -> <<atom>>
      [] atom[1] = "FLOAT" /\ type = "SYMBOL" -> <<Symbol("float")>>
      [] atom[1] = "SYMBOL" /\ type \in {"FLOAT", "SYMBOL"} -> <<>>
      [] atom[1] = "SYMBOL" /\ type = "ANYTHING" -> <<atom>>
      [] atom[1] = "BANG" /\ type = "FLOAT" -> <<Float(0)>>
      [] atom[1] = "BANG" /\ type = "SYMBOL" -> <<Symbol("symbol")>>
      [] OTHER -> <<Bang>>

MessageTrigger(state, inlet, message) ==
    Reply(state, Rightmost([j \in DOMAIN state.template |->
        LET sent == Cast(<<getType(message, 0), FirstAtom(message)[2]>>,
                         state.template[j][1])
        IN  [x \in DOMAIN sent |-> Out(j - 1, sent[x])]]))

NewMessagePack(arguments) ==
    New(Len(arguments), 1, [template |-> resolveSymbolsToType(arguments)])

\* An atom of a type other than the template's is dropped.
MessagePack(state, inlet, message) ==
    LET type == getType(message, 0)
        new == IF type \in {"FLOAT", "SYMBOL"}
               THEN [state EXCEPT !.template[inlet + 1] = message[1]] ELSE state
    IN  IF \/ type = "BANG"
           \/ type \in {"FLOAT", "SYMBOL"} /\ type = state.template[inlet + 1][1]
        THEN Reply(new, IF inlet = 0 THEN <<Sent("kept", 0, NoName, <<>>)>> ELSE <<>>)
        ELSE Silent(state)

NewMessageUnpack(arguments) ==
    LET template == IF Len(arguments) < 2 THEN <<Anything, Anything>>
                    ELSE resolveSymbolsToType(arguments)
    IN  New(1, Len(template), [template |-> template])

\* A bang for an outlet of any type finds the message sent before it: no
\* patch here sends one.
MessageUnpack(state, inlet, message) ==
    LET n == Min({Len(state.template), Len(message)})
        Fits(j) == /\ message[j][1] \in {"FLOAT", "SYMBOL"}
                   /\ state.template[j][1] \in {message[j][1], "ANYTHING"}
    IN  Reply(state, Rightmost([j \in 1..n |->
            IF Fits(j) THEN <<Out(j - 1, message[j])>> ELSE <<>>]))

-----------------------------------------------------------------------------
NewMessageListAppend(arguments) == New(2, 1, [kept |-> arguments])
NewMessageListPrepend(arguments) == New(2, 1, [kept |-> arguments])
NewMessageListSplit(arguments) ==
    New(2, 3, [splitIndex |-> ToInt(FloatOr(arguments, 0, 0))])
NewMessageListTrim(arguments) == New(1, 1, NothingToDo)
NewMessageListLength(arguments) == New(1, 1, NothingToDo)

\* [list] makes one of five objects, and may give it the arguments after its
\* name.
NewMessageList(arguments) ==
    CASE Says(arguments, 0, "append") -> NewMessageListAppend(Tail(arguments))
      [] Says(arguments, 0, "prepend") -> NewMessageListPrepend(Tail(arguments))
      [] Says(arguments, 0, "split") -> NewMessageListSplit(Tail(arguments))
      [] Says(arguments, 0, "trim") -> NewMessageListTrim(arguments)
      [] Says(arguments, 0, "length") -> NewMessageListLength(arguments)
      [] OTHER -> NewMessageListAppend(arguments)

MessageListAppend(state, inlet, message) ==
    LET elements == IF isBang(message, 0) THEN <<>> ELSE message
        all == elements \o state.kept
    IN  IF inlet = 1 THEN Silent([state EXCEPT !.kept = elements])
        ELSE Reply(state, <<OutList(0, IF all = <<>> THEN <<Bang>> ELSE all)>>)

MessageListPrepend(state, inlet, message) ==
    IF inlet = 1 THEN Silent([state EXCEPT !.kept = message])
    ELSE Reply(state, <<OutList(0, state.kept \o message)>>)

MessageListSplit(state, inlet, message) ==
    LET n == state.splitIndex IN
    CASE inlet = 1 /\ isFloat(message, 0) ->
             Silent([state EXCEPT !.splitIndex =
                         IF getFloat(message, 0) < 0 THEN 0
                         ELSE ToInt(getFloat(message, 0))])
      [] inlet = 0 ->
             Reply(state, IF Len(message) <= n THEN <<Pass(2)>>
                          ELSE <<OutList(1, SubSeq(message, n + 1, Len(message))),
                                 OutList(0, SubSeq(message, 1, n))>>)
      [] OTHER -> Silent(state)

\* Lists are messages like any other.
MessageListTrim(state, inlet, message) == Reply(state, <<Pass(0)>>)

MessageListLength(state, inlet, message) ==
    Reply(state, <<Out(0, IF isBang(message, 0) THEN Float(0)
                          ELSE Whole(Len(message)))>>)

\* The lists before the first ";" are sent from the outlet, and those after
\* it to the receivers they name, where an argument stays a text.
AsSymbol(text) == IF text[1] = "FLOAT" THEN Symbol(Written(text)) ELSE text
Filled(words, message) ==
    [j \in DOMAIN words |-> resolveString(words[j], message, 1)]
FilledRemote(words, message) ==
    [j \in DOMAIN words |-> IF words[j][1] = "text" THEN words[j][2]
                            ELSE AsSymbol(resolveString(words[j], message, 1))]
\* A destination is followed by a message here: without, it would be both.
NewMessageMessageBox(words) ==
    LET all == tokenizeString(words, Semicolon) \o << <<>> >>
        locals == tokenizeString(all[1], Comma)
    IN  New(1, 1,
            [local |-> [j \in DOMAIN locals |->
                 IF locals[j] = <<>> THEN <<Literal(Bang)>> ELSE locals[j]],
             remote |-> [j \in 1..(Len(all) - 2) |->
                 <<Head(all[j + 1]), Tail(all[j + 1])>>]])
MessageMessageBox(state, inlet, message) ==
    Reply(state,
          [j \in DOMAIN state.local |-> OutList(0, Filled(state.local[j], message))]
          \o [j \in DOMAIN state.remote |->
                 Sent("atoms", 0,
                      AsSymbol(resolveString(state.remote[j][1], message, 1))[2],
                      FilledRemote(state.remote[j][2], message))])

DefaultName == "zg_default_sendreceive_name"
NameOr(arguments, default) ==
    [name |-> IF isSymbol(arguments, 0) THEN getSymbol(arguments, 0) ELSE default]
NewMessageSend(arguments) ==
    New(IF isSymbol(arguments, 0) THEN 1 ELSE 2, 0, NameOr(arguments, DefaultName))

\* The name of the receivers stands for the outlet.
MessageSend(state, inlet, message) ==
    CASE inlet = 0 -> Reply(state, <<PassTo(state.name)>>)
      [] inlet = 1 /\ isSymbol(message, 0) ->
             Silent([state EXCEPT !.name = getSymbol(message, 0)])
      [] OTHER -> Silent(state)
NewMessageReceive(arguments) == New(0, 1, NameOr(arguments, DefaultName))
MessageReceive(state, inlet, message) == Reply(state, <<Pass(0)>>)
NewMessageInlet(arguments) == New(1, 1, NothingToDo)
MessageInlet(state, inlet, message) == Reply(state, <<Pass(0)>>)
NewMessageOutlet(arguments) == New(1, 1, NothingToDo)
MessageOutlet(state, inlet, message) == Reply(state, <<Pass(0)>>)

-----------------------------------------------------------------------------
NewMessageMakefilename(arguments) ==
    New(1, 1, [format |-> IF isSymbol(arguments, 0)
                          THEN getSymbol(arguments, 0) ELSE ""])

\* The format is a text that the argument is written after.
MessageMakefilename(state, inlet, message) ==
    CASE isFloat(message, 0) ->
             Reply(state, <<Out(0, Symbol(state.format
                                          \o Written(Float(getFloat(message, 0)))))>>)
      [] Says(message, 0, "set") /\ isSymbol(message, 1) ->
             Silent([state EXCEPT !.format = getSymbol(message, 1)])
      [] isSymbol(message, 0) ->
             Reply(state, <<Out(0, Symbol(state.format \o getSymbol(message, 0)))>>)
      [] OTHER -> Silent(state)

\* Mistaken: the channel is expected first.
MessageNoteinReversed(state, inlet, message) ==
    Reply(state, <<Out(0, message[1]), Out(1, message[2])>>
                 \o IF state.isOmni THEN <<Out(2, message[3])>> ELSE <<>>)

\* The channels of a patch count from 1.
NewMessageNotein(arguments) ==
    LET channel == Constant(arguments)
    IN  New(0, 3,
            IF channel >= Unit /\ channel <= 16 * Unit
            THEN [isOmni |-> FALSE,
                  name |-> "zg_notein_" \o Written(Float(channel - Unit))]
            ELSE [isOmni |-> TRUE, name |-> "zg_notein_omni"])

\* Note, velocity and channel, the last only if it listens to all channels.
MessageNotein(state, inlet, message) ==
    Reply(state, (IF state.isOmni THEN <<Out(2, message[3])>> ELSE <<>>)
                 \o <<Out(1, message[2]), Out(0, message[1])>>)

NewMessageStripNote(arguments) == New(2, 2, NothingToDo)
MessageStripNote(state, inlet, message) ==
    IF inlet = 0 /\ isFloat(message, 0) /\ isFloat(message, 1)
       /\ getFloat(message, 1) > 0
    THEN Reply(state, <<Out(1, message[2]), Out(0, message[1])>>)
    ELSE Silent(state)

NewMessageRandom(arguments) ==
    New(2, 1, [max_inc |-> ToInt(FloatOr(arguments, 0, 2 * Unit)) - 1])

\* drawn is one of the numbers that the generator may give.
MessageRandom(state, inlet, message, drawn) ==
    CASE inlet = 0 /\ isBang(message, 0) -> Reply(state, <<Out(0, Whole(drawn))>>)
      [] inlet = 1 /\ isFloat(message, 0) ->
             Silent([state EXCEPT !.max_inc = ToInt(getFloat(message, 0)) - 1])
      [] OTHER -> Silent(state)

NewMessageTimer(arguments) == New(2, 1, [timestampStart |-> 0])

\* Mistaken: it is started again when it is stopped.
MessageTimerRestarted(state, inlet, message, now) ==
    IF ~isBang(message, 0) THEN Silent(state)
    ELSE Reply([state EXCEPT !.timestampStart = now],
               IF inlet = 1 THEN <<Out(0, Float(now - state.timestampStart))>> ELSE <<>>)

MessageTimer(state, inlet, message, now) ==
    CASE inlet = 0 /\ isBang(message, 0) ->
             Silent([state EXCEPT !.timestampStart = now])
      [] inlet = 1 /\ isBang(message, 0) ->
             Reply(state, <<Out(0, Float(now - state.timestampStart))>>)
      [] OTHER -> Silent(state)

NewMessageSamplerate(arguments) == New(1, 1, NothingToDo)
NewMessageText(arguments) == New(0, 0, NothingToDo)
NewMessagePrint(arguments) == New(1, 0, NothingToDo)
NewMessageDeclare(arguments) == New(0, 0, NothingToDo)
NewMessageLoadbang(arguments) == New(0, 1, NothingToDo)
MessageSamplerate(state, inlet, message, sampleRate) ==
    IF isBang(message, 0) THEN Reply(state, <<Out(0, Whole(sampleRate))>>)
    ELSE Silent(state)

-----------------------------------------------------------------------------
(* Values and tables.  These operators take the values or the tables as     *)
(* they are, and give them as they become.  A table is registered once and  *)
(* stays: the pointer of a reader is the table of its name, or none.        *)

ReplyStored(reply, stored) ==
    [becomes |-> reply.becomes, sends |-> reply.sends, stored |-> stored]

\* The name of an object, that the context finds it or its partners by.
Named(arguments) == NameOr(arguments, NoName)

getValueForName(values, name) == IF name \in DOMAIN values THEN values[name] ELSE 0
setValueForName(values, name, constant) == (name :> constant) @@ values

NewMessageValue(arguments) == New(1, 1, Named(arguments))
MessageValue(state, inlet, message, values) ==
    CASE isFloat(message, 0) ->
             ReplyStored(Silent(state),
                         setValueForName(values, state.name, getFloat(message, 0)))
      [] isBang(message, 0) ->
             ReplyStored(Reply(state,
                               <<Out(0, Float(getValueForName(values, state.name)))>>),
                         values)
      [] OTHER -> ReplyStored(Silent(state), values)

-----------------------------------------------------------------------------
NewMessageTable(arguments) == New(0, 0, Named(arguments))

\* Index i of a buffer is element i + 1.
Zeros(n) == [i \in 1..n |-> 0]
NewTable(arguments) ==
    Zeros(IF isFloat(arguments, 1) THEN ToInt(getFloat(arguments, 1))
          ELSE DEFAULT_BUFFER_LENGTH)

registerTable(tables, name, buffer) ==
    IF name \in DOMAIN tables THEN tables ELSE (name :> buffer) @@ tables

InTable(tables, name, i) == name \in DOMAIN tables /\ i >= 0 /\ i < Len(tables[name])

Renamed(state, message) ==
    IF Says(message, 0, "set") /\ isSymbol(message, 1)
    THEN [state EXCEPT !.name = getSymbol(message, 1)] ELSE state

NewMessageTableRead(arguments) == New(1, 1, Named(arguments))
MessageTableRead(state, inlet, message, tables) ==
    LET i == ToInt(FloatOr(message, 0, 0)) IN
    IF isFloat(message, 0) /\ InTable(tables, state.name, i)
    THEN Reply(state, <<Out(0, Float(tables[state.name][i + 1]))>>)
    ELSE Silent(Renamed(state, message))

NewMessageTableWrite(arguments) ==
    New(2, 0, Named(arguments) @@ [index |-> 0])
MessageTableWrite(state, inlet, message, tables) ==
    CASE inlet = 0 /\ isFloat(message, 0) /\ InTable(tables, state.name, state.index) ->
             ReplyStored(Silent(state),
                         [tables EXCEPT ![state.name][state.index + 1] =
                             getFloat(message, 0)])
      [] inlet = 1 /\ isFloat(message, 0) ->
             ReplyStored(Silent([state EXCEPT !.index = ToInt(getFloat(message, 0))]),
                         tables)
      [] inlet = 0 /\ ~isFloat(message, 0) ->
             ReplyStored(Silent(Renamed(state, message)), tables)
      [] OTHER -> ReplyStored(Silent(state), tables)

\* Mistaken: a longer table begins anew.
resizeBufferAnew(buffer, length) ==
    IF length > Len(buffer) THEN Zeros(length) ELSE SubSeq(buffer, 1, length)

resizeBuffer(buffer, length) ==
    IF length <= 0 THEN buffer
    ELSE IF length <= Len(buffer) THEN SubSeq(buffer, 1, length)
    ELSE buffer \o Zeros(length - Len(buffer))

\* Mistaken: every table keeps its length.
LoadedAsItIs(buffer, frames, resize) ==
    [i \in DOMAIN buffer |->
        IF i <= Len(frames) THEN frames[i][Min({2, Len(frames[1])})] ELSE buffer[i]]

\* The frames of a sound file hold a sample of each channel; the second, if
\* there is one, is written over the first.  A table that is not resized is
\* taken to be as long as the file: what does not fit is written past its end.
LoadedInto(buffer, frames, resize) ==
    LET table == IF resize THEN resizeBuffer(buffer, Len(frames)) ELSE buffer
        channel == Min({2, Len(frames[1])})
    IN  [i \in DOMAIN table |->
            IF i <= Len(frames) THEN frames[i][channel] ELSE table[i]]

\* Flags, and a file and a table in turn; no table without a file comes here.
\* A file that is not there ends the message, a table that is not does not.
NewMessageSoundfiler(arguments) == New(1, 1, NothingToDo)
MessageSoundfiler(state, inlet, message, tables, Frames(_)) ==
    LET IsFlag(text) == SubSeq(text, 1, 1) = "-"
        Read(call, atom) ==
            LET text == atom[2]
                frames == Frames(call.file)
            IN  CASE call.stopped -> call
                  [] call.file = NoName /\ IsFlag(text) ->
                         [call EXCEPT !.resize = @ \/ text = "-resize"]
                  [] call.file = NoName /\ ~IsFlag(text) ->
                         [call EXCEPT !.file = text]
                  [] call.file # NoName /\ text \notin DOMAIN call.tables ->
                         [call EXCEPT !.file = NoName]
                  [] OTHER ->
                         IF frames = <<>> THEN [call EXCEPT !.stopped = TRUE]
                         ELSE [call EXCEPT
                                  !.file = NoName,
                                  !.tables[text] = LoadedInto(@, frames, call.resize),
                                  !.sends = Append(@, Out(0, Whole(Len(frames))))]
        read == FoldLeft(Read, [resize |-> FALSE, file |-> NoName, tables |-> tables,
                                sends |-> <<>>, stopped |-> FALSE], Tail(message))
    IN  IF Says(message, 0, "read")
        THEN ReplyStored(Reply(state, read.sends), read.tables)
        ELSE ReplyStored(Silent(state), tables)

\* Divided by the magnitude of the sum of all, over what is asked for.
Normalized(buffer, to) ==
    LET sum == Magnitude(FoldLeft(+, 0, buffer)) IN
    IF sum = 0 THEN buffer
    ELSE [i \in DOMAIN buffer |-> Quotient(buffer[i] * to, sum)]

MessageTable(state, inlet, message, tables) ==
    ReplyStored(Silent(state),
        CASE Says(message, 0, "resize") /\ isFloat(message, 1) ->
                 [tables EXCEPT ![state.name] =
                     resizeBuffer(@, ToInt(getFloat(message, 1)))]
          [] Says(message, 0, "normalize") ->
                 [tables EXCEPT ![state.name] =
                     Normalized(@, FloatOr(message, 1, Unit))]
          [] OTHER -> tables)

=============================================================================
