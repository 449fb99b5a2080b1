------------------------ MODULE OrderedMessageQueue ------------------------
(***************************************************************************)
(* The list of scheduled messages of a context (OrderedMessageQueue.cpp).  *)
(*                                                                         *)
(* A queue is a sequence of entries [object, message, outlet], the         *)
(* ObjectMessageLetPair of the code.  The message of an entry is a         *)
(* pointer: its timestamp is not stored in the list but read through the   *)
(* pointer whenever two messages are compared, so every operator that      *)
(* compares takes the function `timestamp' from messages to times.         *)
(***************************************************************************)
EXTENDS Integers, Sequences, SequencesExt

Entry(object, outlet, message) ==
    [object |-> object, outlet |-> outlet, message |-> message]

\* The messages that a queue points to.
MessagesOf(queue) == {queue[i].message : i \in 1 .. Len(queue)}

\* Each message is in the queue once.
PointsOnce(queue) ==
    \A i, j \in 1 .. Len(queue) : queue[i].message = queue[j].message => i = j

\* The entries are sorted by timestamp when those of the messages in `moved'
\* are left aside.
OrderedExcept(queue, timestamp, moved) ==
    \A i, j \in 1 .. Len(queue) :
        LET m == queue[i].message
            n == queue[j].message
        IN  i < j /\ m \notin moved /\ n \notin moved
                => timestamp[m] <= timestamp[n]

\* One message is ahead of another.
Before(queue, message, other) ==
    \E i, j \in 1 .. Len(queue) :
        i < j /\ queue[i].message = message /\ queue[j].message = other

\* True of the positions where insertMessage stops walking: every earlier
\* entry has a timestamp that is no larger, and the entry there (if any) has a
\* strictly larger one.
InsertionPoint(queue, message, timestamp, i) ==
    /\ \A j \in 1 .. i - 1 :
           timestamp[queue[j].message] <= timestamp[message]
    /\ i <= Len(queue) => timestamp[message] < timestamp[queue[i].message]

\* Mistaken: at the end, and at the front, whatever the timestamps are.
InsertMessageLast(queue, object, outlet, message, timestamp) ==
    Append(queue, Entry(object, outlet, message))

InsertMessageFirst(queue, object, outlet, message, timestamp) ==
    <<Entry(object, outlet, message)>> \o queue

\* insertMessage: before the first strictly later message, else at the end.
InsertMessage(queue, object, outlet, message, timestamp) ==
    InsertAt(queue,
             CHOOSE i \in 1 .. Len(queue) + 1 :
                 InsertionPoint(queue, message, timestamp, i),
             Entry(object, outlet, message))

\* The first entry that matches on all three components.
FirstMatch(queue, entry, i) ==
    /\ queue[i] = entry
    /\ \A j \in 1 .. i - 1 : queue[j] # entry

\* removeMessage: erases the first match, and does nothing without one.
RemoveMessage(queue, object, outlet, message) ==
    LET entry == Entry(object, outlet, message)
    IN  IF \E i \in 1 .. Len(queue) : queue[i] = entry
        THEN RemoveAt(queue, CHOOSE i \in 1 .. Len(queue) :
                                 FirstMatch(queue, entry, i))
        ELSE queue

\* peek, pop and empty; pop and peek are only called on a queue that is not
\* empty.
Peek(queue) == Head(queue)
Pop(queue) == Tail(queue)
IsEmpty(queue) == queue = <<>>

=============================================================================
