----------------------------- MODULE ContextLock -----------------------------
(***************************************************************************)
(* The threads of a host and the lock of a context (PdContext.h,           *)
(* PdGraph.cpp, ZenGarden.cpp).  One thread calls zg_context_process;      *)
(* others build, attach, change and control graphs meanwhile.  A call that *)
(* changes a graph takes the lock only if the graph is attached, and gives *)
(* it back only if it is attached then.  The calls about one graph are     *)
(*   edit     addObject, addConnection, removeConnection and the ordering  *)
(*            of an attached graph: all they touch of the context is what  *)
(*            it keeps of an attached graph;                               *)
(*   control  removeObject, which unregisters, and zg_object_send_message, *)
(*            which may schedule: attached or not, they use the context;   *)
(*   create   the making of an object or a graph, before it is added: it   *)
(*            may schedule (loadbang), order (the buffers are the          *)
(*            context's) and print, and takes no lock of its own.          *)
(*                                                                         *)
(* Calls nest: removeObject removes connections, what is made is added, a  *)
(* graph orders its subgraphs, and a callback of the context may send      *)
(* messages.  The lock is recursive.  An object has finitely many          *)
(* connections and a callback returns, so a call makes only a bounded      *)
(* number of nested calls.                                                 *)
(*                                                                         *)
(* A graph is built and controlled by one thread at a time, its owner.     *)
(***************************************************************************)
EXTENDS Integers, Sequences, SequencesExt, FiniteSets

CONSTANTS
    Audio,     \* the thread that calls process()
    Controls,  \* the other threads of the host
    Graphs,    \* the graphs of the context
    OwnerOf,   \* the thread that controls each graph
    NOBODY,    \* no thread
    HostCalls, \* the kinds of calls about graphs that the host makes
    MaxDepth,  \* a bound on the depth of nested calls
    MaxNested, \* a bound on the calls that one call makes
    MaxListed  \* a bound on the length of the list of graphs

Threads == Controls \cup {Audio}
Kinds ==
    {"process", "attach", "unattach", "delete", "edit", "control", "create",
     "external"}

ASSUME LockAssumption ==
    /\ Audio \notin Controls
    /\ NOBODY \notin Threads
    /\ OwnerOf \in [Graphs -> Controls]
    /\ HostCalls \subseteq Kinds \ {"process", "external"}
    /\ MaxDepth \in Nat \ {0}
    /\ MaxNested \in Nat
    /\ MaxListed \in Nat

VARIABLES
    contextLock,         \* its owner and how often it has been taken
    calls,               \* the calls each thread is in, the innermost last
    isAttachedToContext, \* the graphs whose flag is set
    graphList,           \* of the context
    deleted              \* the graphs that have been deleted

vars == <<contextLock, calls, isAttachedToContext, graphList, deleted>>

Calls == [kind : Kinds, graph : Graphs \cup {NOBODY},
          at : {"begin", "body", "end"}, next : Nat, nested : 0 .. MaxNested]

TypeOK ==
    /\ contextLock \in [owner : Threads \cup {NOBODY}, count : Nat]
    /\ calls \in [Threads -> Seq(Calls)]
    /\ isAttachedToContext \in SUBSET Graphs
    /\ graphList \in Seq(Graphs)
    /\ deleted \in SUBSET Graphs
    /\ \A t \in Threads : \A i \in 1 .. Len(calls[t]) :
           calls[t][i].next <= Len(graphList) + 1

Init ==
    /\ contextLock = [owner |-> NOBODY, count |-> 0]
    /\ calls = [t \in Threads |-> <<>>]
    /\ isAttachedToContext = {}
    /\ graphList = <<>>
    /\ deleted = {}

-----------------------------------------------------------------------------
(* pthread_mutex_lock and pthread_mutex_unlock of a recursive mutex.  The   *)
(* latter fails, and changes nothing, if another thread or none has it.     *)

Lock(t) ==
    /\ contextLock.owner \in {NOBODY, t}
    /\ contextLock' = [owner |-> t, count |-> contextLock.count + 1]

\* Mistaken: nothing is unlocked by a nested call.
UnlockOutermost(t) ==
    IF contextLock.owner = t /\ Len(calls[t]) = 1
    THEN contextLock' = [owner |-> IF contextLock.count = 1 THEN NOBODY ELSE t,
                         count |-> contextLock.count - 1]
    ELSE UNCHANGED contextLock

Unlock(t) ==
    IF contextLock.owner = t
    THEN contextLock' = [owner |-> IF contextLock.count = 1 THEN NOBODY ELSE t,
                         count |-> contextLock.count - 1]
    ELSE UNCHANGED contextLock

-----------------------------------------------------------------------------
InCall(t) == calls[t] # <<>>
Current(t) == Last(calls[t])
At(t, where) == InCall(t) /\ Current(t).at = where

\* The innermost call goes on to another place.
GoTo(t, where) ==
    calls' = [calls EXCEPT ![t][Len(calls[t])].at = where]

NewCall(kind, graph) ==
    [kind |-> kind, graph |-> graph, at |-> "begin", next |-> 1, nested |-> 0]

Enter(t, kind, graph) ==
    /\ ~ InCall(t)
    /\ calls' = [calls EXCEPT ![t] = <<NewCall(kind, graph)>>]
    /\ UNCHANGED <<contextLock, isAttachedToContext, graphList, deleted>>

EnterNested(t, kind, graph) ==
    /\ At(t, "body")
    /\ Len(calls[t]) < MaxDepth /\ Current(t).nested < MaxNested
    /\ LET counted == [calls[t] EXCEPT ![Len(calls[t])].nested = @ + 1]
       IN  calls' = [calls EXCEPT ![t] = Append(counted, NewCall(kind, graph))]
    /\ UNCHANGED <<contextLock, isAttachedToContext, graphList, deleted>>

CallProcess == Enter(Audio, "process", NOBODY)

\* A call about a graph that its owner has not deleted.  A graph is attached
\* when it is not, and unattached when it is.
CallGraph(t, kind, graph) ==
    /\ kind \in HostCalls
    /\ OwnerOf[graph] = t
    /\ graph \notin deleted
    /\ kind = "attach" => graph \notin isAttachedToContext
                          /\ Len(graphList) < MaxListed
    /\ kind = "unattach" => graph \in isAttachedToContext
    /\ Enter(t, kind, graph)

\* A message to a named receiver, or a change to the registry of external
\* receivers: from a control thread, or from a callback in a call.
CallExternal(t) ==
    \/ t \in Controls /\ Enter(t, "external", NOBODY)
    \/ InCall(t) /\ Current(t).kind \in {"process", "edit", "control", "create"}
       /\ EnterNested(t, "external", NOBODY)

\* removeObject calls removeConnection, and what is made is added.
CallNestedEdit(t) ==
    /\ InCall(t) /\ Current(t).kind \in {"edit", "control", "create"}
    /\ EnterNested(t, "edit", Current(t).graph)

\* Mistaken: of the calls about a graph only the attachment locks.
LocksWrongly(call) == call.kind \in {"process", "attach", "external"}

\* Whether a call locks, and whether it unlocks, by what it sees then:
\* lockContextIfAttached and unlockContextIfAttached of the calls about one
\* graph, and no lock at all in zg_graph_unattach, zg_graph_delete and the
\* making of objects.
Locks(call) ==
    \/ call.kind \in {"process", "attach", "external"}
    \/ /\ call.kind \in {"edit", "control"}
       /\ call.graph \in isAttachedToContext

Begin(t) ==
    /\ At(t, "begin")
    /\ IF Locks(Current(t)) THEN Lock(t) ELSE UNCHANGED contextLock
    /\ GoTo(t, "body")
    /\ UNCHANGED <<isAttachedToContext, graphList, deleted>>

\* What attachGraph, zg_graph_unattach and zg_graph_delete do: the first adds
\* the graph to the list of graphs to process, the others leave it there.
Attach(t) ==
    /\ At(t, "body") /\ Current(t).kind = "attach"
    /\ graphList' = Append(graphList, Current(t).graph)
    /\ isAttachedToContext' = isAttachedToContext \cup {Current(t).graph}
    /\ GoTo(t, "end")
    /\ UNCHANGED <<contextLock, deleted>>

Unattach(t) ==
    /\ At(t, "body") /\ Current(t).kind = "unattach"
    /\ isAttachedToContext' = isAttachedToContext \ {Current(t).graph}
    /\ GoTo(t, "end")
    /\ UNCHANGED <<contextLock, graphList, deleted>>

Delete(t) ==
    /\ At(t, "body") /\ Current(t).kind = "delete"
    /\ deleted' = deleted \cup {Current(t).graph}
    /\ GoTo(t, "end")
    /\ UNCHANGED <<contextLock, isAttachedToContext, graphList>>

\* process() runs the next graph of the list, if there is one.
ProcessGraph ==
    /\ At(Audio, "body") /\ Current(Audio).kind = "process"
    /\ Current(Audio).next <= Len(graphList)
    /\ calls' = [calls EXCEPT ![Audio][1].next = @ + 1]
    /\ UNCHANGED <<contextLock, isAttachedToContext, graphList, deleted>>

\* The body of process(), or of a call whose work is not told apart, is done.
EndBody(t) ==
    /\ At(t, "body")
    /\ \/ Current(t).kind \in {"edit", "control", "create", "external"}
       \/ Current(t).kind = "process" /\ Current(t).next > Len(graphList)
    /\ GoTo(t, "end")
    /\ UNCHANGED <<contextLock, isAttachedToContext, graphList, deleted>>

Return(t) ==
    /\ At(t, "end")
    /\ IF Locks(Current(t)) THEN Unlock(t) ELSE UNCHANGED contextLock
    /\ calls' = [calls EXCEPT ![t] = Front(@)]
    /\ UNCHANGED <<isAttachedToContext, graphList, deleted>>

CallStep(t) ==
    \/ Begin(t)
    \/ Attach(t) \/ Unattach(t) \/ Delete(t)
    \/ t = Audio /\ ProcessGraph
    \/ EndBody(t)
    \/ Return(t)

HostStep(t) ==
    \/ t = Audio /\ CallProcess
    \/ \E k \in HostCalls, g \in Graphs : CallGraph(t, k, g)
    \/ CallExternal(t)
    \/ CallNestedEdit(t)

Next == \E t \in Threads : CallStep(t) \/ HostStep(t)

Spec == Init /\ [][Next]_vars

\* A thread that runs goes on to the end of its call.  Nothing makes the host
\* call, and a thread that waits for the lock may be overtaken: pthread
\* mutexes are not fair, so only the thread that has the lock is sure to run.
Fairness ==
    \A t \in Threads :
        /\ WF_vars(t = contextLock.owner /\ (Begin(t) \/ Return(t)))
        /\ WF_vars(EndBody(t) \/ (t = Audio /\ ProcessGraph) \/ Attach(t))

FairSpec == Spec /\ Fairness

-----------------------------------------------------------------------------
\* The thread is inside a call that runs or changes the attached graph.
\* zg_graph_unattach and zg_graph_delete, which take no lock, are left out:
\* a host has to call them when no other call runs.
Uses(t, graph) ==
    /\ graph \in isAttachedToContext
    /\ \E i \in 1 .. Len(calls[t]) :
           LET call == calls[t][i]
           IN  /\ call.at = "body"
               /\ \/ /\ call.kind \in {"edit", "control", "attach"}
                     /\ call.graph = graph
                  \/ /\ call.kind = "process" /\ call.next <= Len(graphList)
                     /\ graphList[call.next] = graph

\* A call that may read or change what belongs to the whole context: the queue
\* of messages, the registries, the buffers, the list of graphs.
UsesContext(call) ==
    /\ call.at = "body"
    /\ call.kind = "edit" => call.graph \in isAttachedToContext

\* One that the code lets into the context without its lock.
Unguarded(call) ==
    \/ call.kind \in {"create", "unattach", "delete"}
    \/ call.kind = "control" /\ call.graph \notin isAttachedToContext

\* No two threads are in the same attached graph at a time: it is not changed
\* while process() runs it, also if it was built on another thread and attached
\* to a running context, or unattached and attached again.  And no two are in
\* the context, its queue and registries, except for the calls that use it
\* without its lock: what makes an object or a graph, removes an object of a
\* graph that is not attached or sends to one directly (PdGraph.cpp:173,
\* MessageLoadbang.cpp:33, ZenGarden.cpp:116), and the two above.  Nothing
\* keeps those out of the context while process() runs.
Exclusive ==
    \A t, u \in Threads :
        t # u =>
            /\ \A g \in Graphs : ~ (Uses(t, g) /\ Uses(u, g))
            /\ \A i \in 1 .. Len(calls[t]), j \in 1 .. Len(calls[u]) :
                   UsesContext(calls[t][i]) /\ UsesContext(calls[u][j]) =>
                       Unguarded(calls[t][i]) \/ Unguarded(calls[u][j])

\* The calls of a thread that have taken the lock and will give it back.
Locking(t) ==
    {i \in 1 .. Len(calls[t]) :
        calls[t][i].at # "begin" /\ Locks(calls[t][i])}

\* The lock is held exactly by the thread that is inside a locking call, as
\* often as it has entered one: it is not given back in the middle of the
\* outer call, and not kept past it.
LockCountsCalls ==
    \A t \in Threads :
        Cardinality(Locking(t)) =
            IF contextLock.owner = t THEN contextLock.count ELSE 0

\* A thread that has the lock gives it back, however many calls it nests.
LockIsReleased ==
    \A t \in Threads : contextLock.owner = t ~> contextLock.owner # t

\* "If attached, the graph is automatically removed from its context."
\* (ZenGarden.h:129): process() runs no graph that has been deleted.
DeletedIsRemoved ==
    \A i \in 1 .. Len(graphList) : graphList[i] \notin deleted

=============================================================================
