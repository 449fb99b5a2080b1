--------------------------- MODULE NamedReceivers ---------------------------
(***************************************************************************)
(* What a context promises about messages to names, without a table of     *)
(* names: a message sent to a name goes to every receiver that the name    *)
(* has when it is sent, and one that is scheduled for a name to those the  *)
(* name has when it is delivered.  One for a name without receivers is not *)
(* scheduled.  The callback of the host hears those that are sent in the   *)
(* patch to a name it has registered.                                      *)
(* MessageSendController implements it.                                    *)
(***************************************************************************)
EXTENDS Integers, Sequences, SequencesExt

CONSTANTS
    Receivers,
    NameOf,    \* of each receiver
    Names,
    Pd,        \* the name of the context itself
    NOBODY,    \* neither a receiver nor a name
    MaxQueued, \* a bound on the messages scheduled at a time
    MaxDepth   \* a bound on the depth of messages sent while one is received

VARIABLES
    receivers, \* of each name
    external,  \* the names that the host has registered
    queued,    \* the names of the scheduled messages
    sends,     \* the messages being sent, the innermost last: the receivers
               \* to come, and the name if the callback is to hear of it
    last       \* who got a message in this step

vars == <<receivers, external, queued, sends, last>>

Init ==
    /\ receivers = [n \in Names |-> {}]
    /\ external = {}
    /\ queued = <<>>
    /\ sends = <<>>
    /\ last = NOBODY

Idle == sends = <<>>

Join(r) ==
    /\ Idle
    /\ receivers' = [receivers EXCEPT ![NameOf[r]] = @ \cup {r}]
    /\ last' = NOBODY
    /\ UNCHANGED <<external, queued, sends>>

Leave(r) ==
    /\ Idle
    /\ receivers' = [receivers EXCEPT ![NameOf[r]] = @ \ {r}]
    /\ last' = NOBODY
    /\ UNCHANGED <<external, queued, sends>>

SetExternal(names) ==
    /\ external' = names
    /\ last' = NOBODY
    /\ UNCHANGED <<receivers, queued, sends>>

\* "If no receiver exists with the given name, then this funtion does nothing"
\* (ZenGarden.h:188).  The system always hears.
Schedule(name) ==
    /\ receivers[name] # {} \/ name = Pd
    /\ Len(queued) < MaxQueued
    /\ queued' = Append(queued, name)
    /\ last' = NOBODY
    /\ UNCHANGED <<receivers, external, sends>>

Send(name, hear) ==
    /\ Len(sends) < MaxDepth
    /\ sends' = Append(sends, [left |-> receivers[name], by |-> hear])
    /\ last' = NOBODY
    /\ UNCHANGED <<receivers, external>>

SendNow(name) ==
    /\ Send(name, name)
    /\ UNCHANGED queued

Deliver(i) ==
    /\ Idle
    /\ Send(queued[i], NOBODY)
    /\ queued' = RemoveAt(queued, i)

Reach(r) ==
    /\ ~ Idle /\ r \in Last(sends).left
    /\ sends' = [sends EXCEPT ![Len(sends)].left = @ \ {r}]
    /\ last' = r
    /\ UNCHANGED <<receivers, external, queued>>

End ==
    /\ ~ Idle /\ Last(sends).left = {}
    /\ last' = IF Last(sends).by \in external THEN Last(sends).by ELSE NOBODY
    /\ sends' = Front(sends)
    /\ UNCHANGED <<receivers, external, queued>>

Next ==
    \/ \E r \in Receivers : Join(r) \/ Leave(r) \/ Reach(r)
    \/ \E names \in SUBSET Names : SetExternal(names)
    \/ \E n \in Names : Schedule(n) \/ SendNow(n)
    \/ \E i \in 1 .. Len(queued) : Deliver(i)
    \/ End

Spec == Init /\ [][Next]_vars

=============================================================================
