---------------------------- MODULE MessageObject ----------------------------
(***************************************************************************)
(* How messages run through a patch: receiveMessage, processMessage and    *)
(* sendMessage call each other, depth first, from the message that the     *)
(* context delivers (MessageObject.cpp, and the objects that override      *)
(* them).  The calls that have begun are on a stack, the innermost last.   *)
(*                                                                         *)
(* The host sends to receivers and hears what is sent to the names it has  *)
(* registered.  Its messages are delivered one after the other; their      *)
(* timestamps and the queue are PdContext's.                               *)
(***************************************************************************)
EXTENDS PdPatch

CONSTANTS
    Inputs(_),         \* what the host may send: names and lists of atoms
    Requests(_),       \* how many messages it sends
    ExternalReceivers, \* the names that it registered
    MaxDepth,          \* bound on the calls that have begun
    MaxNow             \* bound on the time

ASSUME CascadeAssumption == MaxDepth \in Nat /\ MaxNow \in Nat

VARIABLES
    stack,
    values, \* the values of a context, by name
    fed,    \* what the host sent and when, the last message last
    heard,  \* what it heard since its last message
    now

cascadeVars == <<stack, values, fed, heard, now>>

\* A message is one of its own, or the one that an object keeps.
NoObject == <<0, 0>>
NewMessage(atoms) == [of |-> NoObject, atoms |-> atoms]
Atoms(message) == IF message.of = NoObject THEN message.atoms
                  ELSE Node(message.of).state.template

\* A call of processMessage, with its k-th message to be sent next; a list, with
\* the inlets it is still to be distributed to; a call of sendMessage, with the
\* objects and inlets that are still to receive the message.
CallOf(o, inlet, message, sends) ==
    [kind |-> "call", object |-> o, inlet |-> inlet, message |-> message, k |-> 1,
     sends |-> sends, receivers |-> <<>>, name |-> NoName]
SendTo(receivers, message, name) ==
    [CallOf(NoObject, 0, message, <<>>)
        EXCEPT !.kind = "send", !.receivers = receivers, !.name = name]
ListFor(receivers, message) ==
    [SendTo(receivers, message, NoName) EXCEPT !.kind = "list"]

CascadeInit ==
    /\ stack = <<>> /\ values = <<>> /\ fed = <<>> /\ heard = <<>> /\ now = 0

top == Last(stack)
Running(kind) == stack # <<>> /\ top.kind = kind

-----------------------------------------------------------------------------
\* They read their state, or the message they received, again for each
\* message they send.
LateReaders == {"swap", "until", "unpack", "msg", "list"} \cup Triggers

Reaction(o, inlet, atoms, k, drawn) ==
    LET node == Node(o) IN
    CASE node.label \in Values ->
             MessageValue(node.state, inlet, atoms, values)
      [] node.label = "tabread" ->
             ReplyStored(MessageTableRead(node.state, inlet, atoms, tables), tables)
      [] node.label = "tabwrite" -> MessageTableWrite(node.state, inlet, atoms, tables)
      [] node.label = "table" -> MessageTable(node.state, inlet, atoms, tables)
      [] node.label = "soundfiler" ->
             MessageSoundfiler(node.state, inlet, atoms, tables,
                               LAMBDA file : SoundOf(o[1], file))
      [] OTHER -> ReplyStored(Processed(node.label, node.arguments, node.state, inlet,
                                        atoms, k, drawn, now), tables)

\* The numbers that the generator of an object may give.
Draws(o) == IF Node(o).label = "random" THEN 0..Node(o).state.max_inc ELSE {0}

\* processMessage, when calls is what has begun before.
ProcessMessage(calls, o, inlet, message) ==
    \E drawn \in Draws(o) :
        LET reaction == Reaction(o, inlet, Atoms(message), 1, drawn) IN
        /\ graphs' = [graphs EXCEPT ![o[1]].nodes[o[2]].state = reaction.becomes]
        /\ values' = IF Node(o).label \in Values THEN reaction.stored
                     ELSE values
        /\ tables' = IF Node(o).label \in {"tabread", "tabwrite", "table", "soundfiler"}
                     THEN reaction.stored ELSE tables
        /\ stack' = IF reaction.sends = <<>> /\ Node(o).label \notin LateReaders
                    THEN calls
                    ELSE Append(calls, CallOf(o, inlet, message, reaction.sends))
        /\ Len(stack') <= MaxDepth

\* To the right-most inlet first.
Distributed(o, message) ==
    LET n == Min({Len(Atoms(message)), NumInletsOf(Node(o))}) IN
    ListFor([i \in 1..n |-> <<o, n - i>>], message)

\* These objects have a receiveMessage of their own; a list for the left inlet
\* of most others is distributed to their inlets.
IsDistributed(o, inlet, message) ==
    LET node == Node(o) IN
    /\ inlet = 0 /\ Len(Atoms(message)) > 1
    /\ node.label \notin Sends \cup Receives \cup {"inlet", "outlet"}
    /\ NumInletsOf(node) > 1
    /\ ~TakesLists(node.label, node.arguments)

\* What a message for a graph reaches is the object of its inlet.
Target(o, inlet) ==
    IF Node(o).label = "pd"
    THEN <<<<Node(o).graph, graphs[Node(o).graph].inletList[inlet + 1]>>, 0>>
    ELSE <<o, inlet>>

\* receiveMessage of the next object a message is sent to.
Receive ==
    /\ Running("send") /\ top.receivers # <<>>
    /\ LET to == Head(top.receivers)
           target == Target(to[1], to[2])
           o == target[1]
           calls == Append(Front(stack), [top EXCEPT !.receivers = Tail(@)])
       IN  IF IsDistributed(o, target[2], top.message)
           THEN /\ stack' = Append(calls, Distributed(o, top.message))
                /\ Len(stack') <= MaxDepth
                /\ UNCHANGED <<graphs, values, tables>>
           ELSE ProcessMessage(calls, o, target[2], top.message)
    /\ UNCHANGED <<loadbangs, fed, heard, now>>

\* The atom of a list for the next inlet.
Distribute ==
    /\ Running("list") /\ top.receivers # <<>>
    /\ LET to == Head(top.receivers)
           calls == Append(Front(stack), [top EXCEPT !.receivers = Tail(@)])
       IN  ProcessMessage(calls, to[1], to[2],
                          NewMessage(<<Atoms(top.message)[to[2] + 1]>>))
    /\ UNCHANGED <<loadbangs, fed, heard, now>>

\* What the k-th call of sendMessage of an object sends, as the object is now.
SendsOf(call) ==
    IF Node(call.object).label \in LateReaders
    THEN Reaction(call.object, call.inlet, Atoms(call.message), call.k, 0).sends
    ELSE call.sends
Passed(call, sent) ==
    CASE sent.kind = "atoms" -> NewMessage(sent.atoms)
      [] sent.kind = "kept" -> [of |-> call.object, atoms |-> <<>>]
      [] sent.kind = "received" -> call.message

\* The receivers of a name are kept in the order of their addresses.
Orders(set) == {order \in [1..Cardinality(set) -> set] :
                    \A i, j \in DOMAIN order : order[i] = order[j] => i = j}
AtLeft(objects) == [i \in DOMAIN objects |-> <<objects[i], 0>>]

\* sendMessage, to an outlet or to the receivers of a name.
Send ==
    /\ Running("call") /\ top.k <= Len(SendsOf(top))
    /\ LET sent == SendsOf(top)[top.k]
           calls == Append(Front(stack), [top EXCEPT !.k = @ + 1])
           message == Passed(top, sent)
       IN  \/ /\ sent.name = NoName
              /\ stack' = Append(calls, SendTo(Receivers(top.object, sent.outlet),
                                               message, NoName))
           \/ /\ sent.name # NoName
              /\ \E order \in Orders(NamedReceivers(sent.name)) :
                     stack' = Append(calls, SendTo(AtLeft(order), message, sent.name))
    /\ Len(stack') <= MaxDepth
    /\ UNCHANGED <<graphs, values, tables, loadbangs, fed, heard, now>>

\* The host hears a message to a name that it registered after the receivers
\* in the patch.
Return ==
    /\ stack # <<>>
    /\ top.receivers = <<>>
    /\ top.kind = "call" => top.k > Len(SendsOf(top))
    /\ stack' = Front(stack)
    /\ heard' = IF top.name \in ExternalReceivers
                THEN Append(heard, [name |-> top.name, atoms |-> Atoms(top.message)])
                ELSE heard
    /\ UNCHANGED <<graphs, values, tables, loadbangs, fed, now>>

-----------------------------------------------------------------------------
\* The first messages of a context: those of [loadbang], in the order in which
\* the objects were made.
Loadbang ==
    /\ stack = <<>> /\ loadbangs # <<>>
    /\ stack' = <<SendTo(Receivers(Head(loadbangs), 0), NewMessage(<<Bang>>), NoName)>>
    /\ loadbangs' = Tail(loadbangs)
    /\ UNCHANGED <<graphs, values, tables, fed, heard, now>>

\* A message from the host.
Feed(patch) ==
    /\ stack = <<>> /\ loadbangs = <<>>
    /\ Len(fed) < Requests(patch)
    /\ \E input \in Inputs(patch) :
           /\ fed' = Append(fed, input @@ [at |-> now])
           /\ \E order \in Orders(NamedReceivers(input.name)) :
                  stack' = <<SendTo(AtLeft(order), NewMessage(input.atoms), NoName)>>
    /\ heard' = <<>>
    /\ UNCHANGED <<graphs, values, tables, loadbangs, now>>

\* Time is read by [timer] alone.
Tick ==
    /\ stack = <<>> /\ loadbangs = <<>> /\ fed # <<>>
    /\ now < MaxNow * Unit /\ \E o \in Objects : Node(o).label = "timer"
    /\ now' = now + Unit
    /\ UNCHANGED <<graphs, values, tables, loadbangs, stack, fed, heard>>

CascadeNext(patch) ==
    \/ Receive \/ Distribute \/ Send \/ Return \/ Loadbang \/ Feed(patch) \/ Tick
=============================================================================
