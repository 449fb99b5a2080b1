------------------------ MODULE MessageSendController ------------------------
(***************************************************************************)
(* The dispatcher of messages to names (MessageSendController.cpp), with   *)
(* the calls of PdContext that schedule and deliver messages through it.   *)
(* A scheduled message carries the index of its name in a table; receivers *)
(* come and go while it is in the queue.                                   *)
(*                                                                         *)
(* Receivers are added and removed while no message is being sent: calls   *)
(* by the host from inside its callback are left out, and so is a receiver *)
(* named pd.  In what order scheduled messages are delivered is PdContext's*)
(* matter.                                                                 *)
(***************************************************************************)
EXTENDS Integers, Sequences, SequencesExt

CONSTANTS
    Receivers,
    NameOf,    \* of each receiver
    Names,
    Pd,        \* the name of the system
    Lapsed,    \* the names that the host schedules messages for also after
               \* their last receiver has gone
    NOBODY,    \* neither a receiver nor a name
    MaxQueued, \* a bound on the messages scheduled at a time
    MaxDepth   \* a bound on the depth of messages sent while one is received

ASSUME ControllerAssumption ==
    /\ Pd \in Names
    /\ NameOf \in [Receivers -> Names \ {Pd}]
    /\ NOBODY \notin Receivers \cup Names
    /\ Lapsed \subseteq Names
    /\ MaxQueued \in Nat /\ MaxDepth \in Nat

VARIABLES
    sendStack,           \* the table: names and their receivers
    externalReceiverSet,
    queue,               \* the indices of the scheduled messages
    sends,               \* the calls of sendMessage, the innermost last: the
                         \* receivers left of its copy of the set, and the
                         \* name to look up in externalReceiverSet afterwards
    last                 \* history: who got a message in this step

SYSTEM_NAME_INDEX == 2147483647

vars == <<sendStack, externalReceiverSet, queue, sends, last>>

\* An index in the queue is that of the system or of an entry of the table.
TypeOK ==
    /\ sendStack \in Seq([name : Names \ {Pd}, receivers : SUBSET Receivers])
    /\ Len(sendStack) < SYSTEM_NAME_INDEX
    /\ externalReceiverSet \in SUBSET Names
    /\ queue \in Seq(1 .. Len(sendStack) \cup {SYSTEM_NAME_INDEX})
    /\ sends \in Seq([left : SUBSET Receivers, by : Names \cup {NOBODY}])
    /\ last \in Receivers \cup Names \cup {NOBODY}

Init ==
    /\ sendStack = <<>>
    /\ externalReceiverSet = {}
    /\ queue = <<>>
    /\ sends = <<>>
    /\ last = NOBODY

-----------------------------------------------------------------------------
\* Indices into the table, which are counted from 1 here.
IndicesOf(name) == {i \in 1 .. Len(sendStack) : sendStack[i].name = name}

\* The index of a name, 0 (in the code, -1) if it has none.
getNameIndex(name) ==
    IF name = Pd THEN SYSTEM_NAME_INDEX
    ELSE IF IndicesOf(name) = {} THEN 0
    ELSE CHOOSE i \in IndicesOf(name) : \A j \in IndicesOf(name) : i <= j

receiverExists(name) == getNameIndex(name) > 0

Entry(name, set) == [name |-> name, receivers |-> set]

\* Mistaken: the name is taken for a new one.
AddedAnew(r) == Append(sendStack, Entry(NameOf[r], {r}))

\* Mistaken: a new name takes the place of one that has no receivers left.
AddedInPlace(r) ==
    LET i == getNameIndex(NameOf[r])
        free == {j \in 1 .. Len(sendStack) : sendStack[j].receivers = {}}
    IN  IF i # 0 THEN [sendStack EXCEPT ![i].receivers = @ \cup {r}]
        ELSE IF free = {} THEN AddedAnew(r)
        ELSE [sendStack EXCEPT ![CHOOSE j \in free : TRUE] = Entry(NameOf[r], {r})]

Added(r) ==
    LET i == getNameIndex(NameOf[r])
    IN  IF i = 0 THEN Append(sendStack, Entry(NameOf[r], {r}))
                 ELSE [sendStack EXCEPT ![i].receivers = @ \cup {r}]

\* Mistaken: a name without receivers is erased from the table.
RemovedWithName(r) ==
    LET i == getNameIndex(NameOf[r])
    IN  IF i = 0 THEN sendStack
        ELSE IF sendStack[i].receivers \subseteq {r} THEN RemoveAt(sendStack, i)
        ELSE [sendStack EXCEPT ![i].receivers = @ \ {r}]

Removed(r) ==
    LET i == getNameIndex(NameOf[r])
    IN  IF i = 0 THEN sendStack
                 ELSE [sendStack EXCEPT ![i].receivers = @ \ {r}]

Idle == sends = <<>>

\* The index of the system is never reached.
addReceiver(r) ==
    /\ Idle
    /\ Len(sendStack) + 1 < SYSTEM_NAME_INDEX
    /\ sendStack' = Added(r)
    /\ last' = NOBODY
    /\ UNCHANGED <<externalReceiverSet, queue, sends>>

removeReceiver(r) ==
    /\ Idle
    /\ sendStack' = Removed(r)
    /\ last' = NOBODY
    /\ UNCHANGED <<externalReceiverSet, queue, sends>>

registerExternalReceiver(name) ==
    /\ externalReceiverSet' = externalReceiverSet \cup {name}
    /\ last' = NOBODY
    /\ UNCHANGED <<sendStack, queue, sends>>

unregisterExternalReceiver(name) ==
    /\ externalReceiverSet' = externalReceiverSet \ {name}
    /\ last' = NOBODY
    /\ UNCHANGED <<sendStack, queue, sends>>

-----------------------------------------------------------------------------
\* The receivers that sendMessage iterates over: a copy of the set, and for a
\* system message the callback alone.
ReceiversAt(index) ==
    IF index = SYSTEM_NAME_INDEX \/ index = 0 THEN {}
    ELSE sendStack[index].receivers

\* scheduleExternalMessage, "if the receiver exists" (PdContext.cpp:470): the
\* code takes a name that has an entry for one that has a receiver.
scheduleExternalMessage(name) ==
    /\ receiverExists(name)
    /\ \/ ReceiversAt(getNameIndex(name)) # {}
       \/ name \in Lapsed \cup {Pd}
    /\ Len(queue) < MaxQueued
    /\ queue' = Append(queue, getNameIndex(name))
    /\ last' = NOBODY
    /\ UNCHANGED <<sendStack, externalReceiverSet, sends>>

sendMessage(index, hear) ==
    /\ Len(sends) < MaxDepth
    /\ sends' = Append(sends, [left |-> ReceiversAt(index), by |-> hear])
    /\ last' = NOBODY
    /\ UNCHANGED <<sendStack, externalReceiverSet>>

\* A message sent in the patch, also while another one is being received.
receiveMessage(name) ==
    /\ sendMessage(getNameIndex(name), name)
    /\ UNCHANGED queue

\* process() delivers a scheduled message.
Deliver(i) ==
    /\ Idle
    /\ sendMessage(queue[i], NOBODY)
    /\ queue' = RemoveAt(queue, i)

\* One turn of the loop of sendMessage, over the set in any order.
Reach(r) ==
    /\ ~ Idle /\ r \in Last(sends).left
    /\ sends' = [sends EXCEPT ![Len(sends)].left = @ \ {r}]
    /\ last' = r
    /\ UNCHANGED <<sendStack, externalReceiverSet, queue>>

\* The loop ends, and the callback is called for a registered name.
End ==
    /\ ~ Idle /\ Last(sends).left = {}
    /\ last' = IF Last(sends).by \in externalReceiverSet THEN Last(sends).by
                                                         ELSE NOBODY
    /\ sends' = Front(sends)
    /\ UNCHANGED <<sendStack, externalReceiverSet, queue>>

Next ==
    \/ \E r \in Receivers : addReceiver(r) \/ removeReceiver(r) \/ Reach(r)
    \/ \E n \in Names :
           \/ registerExternalReceiver(n) \/ unregisterExternalReceiver(n)
           \/ scheduleExternalMessage(n)
           \/ receiveMessage(n)
    \/ \E i \in 1 .. Len(queue) : Deliver(i)
    \/ End

Spec == Init /\ [][Next]_vars

-----------------------------------------------------------------------------
\* A name has one entry, however its receivers come and go: were there two, a
\* message would miss the receivers of the other.
NamesOnce ==
    \A i, j \in 1 .. Len(sendStack) :
        sendStack[i].name = sendStack[j].name => i = j

\* "PdContext depends on the nameIndex to be constant for all receiver names
\* once they are defined" (MessageSendController.cpp:107): an entry keeps its
\* place and its name, so that a queued index always denotes the name that
\* the message was sent to.
IndexIsConstant ==
    [][\A i \in 1 .. Len(sendStack) :
           /\ i <= Len(sendStack')
           /\ sendStack'[i].name = sendStack[i].name]_vars

\* The name that an index denotes.
NameAt(index) ==
    IF index = SYSTEM_NAME_INDEX THEN Pd ELSE sendStack[index].name

Directory ==
    INSTANCE NamedReceivers
        WITH receivers <- [n \in Names |-> ReceiversAt(IF n = Pd THEN 0
                                                       ELSE getNameIndex(n))],
             external <- externalReceiverSet,
             queued <- [i \in 1 .. Len(queue) |-> NameAt(queue[i])]

\* A message reaches all receivers of its name and no others, each once,
\* whatever receivers come and go, and whatever other messages they send,
\* between the time it was scheduled and its delivery.  "If no receiver exists
\* with the given name, then this funtion does nothing" (ZenGarden.h:188,
\* :204) is part of the promise.  It excludes Lapsed, as the code does not
\* keep it there: a message for a name that has had a receiver is queued and
\* reaches one that is added before it is delivered.
ReachesReceiversOfName == Directory!Spec

=============================================================================
