--------------------- MODULE MessageSendControllerProofs ---------------------
(***************************************************************************)
(* The table of names never loses, moves or doubles an entry, for any      *)
(* receivers and names, and so the controller implements NamedReceivers.   *)
(***************************************************************************)
EXTENDS MessageSendController, SequenceTheorems, TLAPS

\* t is s without its element at position i.
IsRemoved(t, s, i) ==
    /\ Len(t) = Len(s) - 1
    /\ \A j \in 1 .. Len(s) - 1 : t[j] = IF j < i THEN s[j] ELSE s[j + 1]

\* list::erase moves the elements behind the erased one by one.
LEMMA RemoveAtElements ==
    ASSUME NEW S, NEW s \in Seq(S), NEW i \in 1 .. Len(s)
    PROVE  /\ RemoveAt(s, i) \in Seq(S)
           /\ IsRemoved(RemoveAt(s, i), s, i)
PROOF
<1> DEFINE a == SubSeq(s, 1, i - 1)
           b == SubSeq(s, i + 1, Len(s))
           d == a \o b
<1>1. /\ Len(s) \in Nat
      /\ i \in Int
      /\ \A j \in 1 .. Len(s) : s[j] \in S
  BY LenProperties, ElementOfSeq
<1>2. /\ a \in Seq(S)
      /\ Len(a) = i - 1
      /\ \A j \in 1 .. i - 1 : a[j] = s[j]
  <2>1. \A j \in 1 .. i - 1 : s[j] \in S
    BY <1>1
  <2> QED
    BY <1>1, <2>1, SubSeqProperties
<1>3. /\ b \in Seq(S)
      /\ Len(b) = Len(s) - i
      /\ \A j \in 1 .. Len(s) - i : b[j] = s[i + j]
  <2>1. \A j \in i + 1 .. Len(s) : s[j] \in S
    BY <1>1
  <2>2. /\ b \in Seq(S)
        /\ Len(b) = IF i + 1 <= Len(s) THEN Len(s) - (i + 1) + 1 ELSE 0
        /\ \A j \in 1 .. Len(s) - (i + 1) + 1 : b[j] = s[i + 1 + j - 1]
    BY <1>1, <2>1, SubSeqProperties
  <2> QED
    BY <1>1, <2>2
<1> HIDE DEF a, b
<1>4. /\ d \in Seq(S)
      /\ Len(d) = Len(a) + Len(b)
      /\ \A j \in 1 .. Len(a) + Len(b) :
             d[j] = IF j <= Len(a) THEN a[j] ELSE b[j - Len(a)]
  BY <1>2, <1>3, ConcatProperties
<1>5. RemoveAt(s, i) = d
  BY DEF RemoveAt, a, b
<1> HIDE DEF d
<1>6. Len(d) = Len(s) - 1
  BY <1>1, <1>2, <1>3, <1>4
<1>7. ASSUME NEW j \in 1 .. Len(s) - 1
      PROVE  d[j] = IF j < i THEN s[j] ELSE s[j + 1]
  <2>1. CASE j < i
    <3>1. j \in 1 .. Len(a) + Len(b) /\ j <= Len(a) /\ j \in 1 .. i - 1
      BY <1>1, <1>2, <1>3, <2>1
    <3>2. d[j] = a[j] /\ a[j] = s[j]
      BY <1>2, <1>4, <3>1
    <3> QED
      BY <2>1, <3>2
  <2>2. CASE j >= i
    <3>1. d[j] = b[j - (i - 1)]
      <4>1. j \in 1 .. Len(a) + Len(b) /\ ~ (j <= Len(a))
        BY <1>1, <1>2, <1>3, <2>2
      <4> QED
        BY <1>2, <1>4, <4>1
    <3>2. j - (i - 1) \in 1 .. Len(s) - i /\ i + (j - (i - 1)) = j + 1
      BY <1>1, <2>2
    <3>3. b[j - (i - 1)] = s[i + (j - (i - 1))]
      BY <1>3, <3>2
    <3>4. ~ (j < i)
      BY <1>1, <2>2
    <3> QED
      BY <3>1, <3>2, <3>3, <3>4
  <2>3. j < i \/ j >= i
    BY <1>1
  <2> QED
    BY <2>1, <2>2, <2>3
<1> QED
  BY <1>4, <1>5, <1>6, <1>7 DEF IsRemoved

Inv == TypeOK /\ NamesOnce

\* What getNameIndex returns: the index of the name's entry, 0 if it has none.
IndexIsOfName ==
    \A n \in Names \ {Pd} :
        LET i == getNameIndex(n)
        IN  /\ i \in 0 .. Len(sendStack)
            /\ i = 0 => \A j \in 1 .. Len(sendStack) : sendStack[j].name # n
            /\ i # 0 => sendStack[i].name = n

\* getNameIndex returns the index of the name's entry, or none.
LEMMA NameIndex == Inv => IndexIsOfName
<1> SUFFICES ASSUME Inv, NEW n \in Names \ {Pd}
             PROVE  LET i == getNameIndex(n)
                    IN  /\ i \in 0 .. Len(sendStack)
                        /\ i = 0 => \A j \in 1 .. Len(sendStack) :
                                        sendStack[j].name # n
                        /\ i # 0 => sendStack[i].name = n
  BY DEF IndexIsOfName
<1>0. Len(sendStack) \in Nat
  BY DEF Inv, TypeOK
<1>1. CASE IndicesOf(n) = {}
  <2>1. getNameIndex(n) = 0
    BY <1>1 DEF getNameIndex
  <2> QED
    BY <2>1, <1>0, <1>1 DEF IndicesOf
<1>2. CASE IndicesOf(n) # {}
  <2>1. PICK k \in IndicesOf(n) : TRUE
    BY <1>2
  <2>2. k \in 1 .. Len(sendStack) /\ sendStack[k].name = n
    BY <2>1 DEF IndicesOf
  <2>3. \A j \in IndicesOf(n) : k <= j
    BY <2>2, <1>0 DEF Inv, NamesOnce, IndicesOf
  <2>4. getNameIndex(n) \in IndicesOf(n)
    BY <1>2, <2>1, <2>3 DEF getNameIndex
  <2> QED
    BY <2>4, <1>0 DEF IndicesOf
<1> QED
  BY <1>1, <1>2

Table == [name : Names \ {Pd}, receivers : SUBSET Receivers]

\* push_back puts one element at the end and leaves the others.
LEMMA AppendEntry ==
    ASSUME NEW E, NEW s \in Seq(E), NEW e \in E
    PROVE  /\ Append(s, e) \in Seq(E)
           /\ Len(Append(s, e)) = Len(s) + 1
           /\ Append(s, e)[Len(s) + 1] = e
           /\ \A j \in 1 .. Len(s) : Append(s, e)[j] = s[j]
  OBVIOUS

Updated(s, i, set) == [s EXCEPT ![i].receivers = set]

\* An entry is given other receivers: names and other entries stay.
LEMMA UpdateEntry ==
    ASSUME NEW s \in Seq(Table), NEW i \in 1 .. Len(s),
           NEW S \in SUBSET Receivers
    PROVE  LET t == Updated(s, i, S)
           IN  /\ t \in Seq(Table)
               /\ Len(t) = Len(s)
               /\ t[i].receivers = S
               /\ \A j \in 1 .. Len(s) : t[j].name = s[j].name
               /\ \A j \in 1 .. Len(s) : j # i => t[j] = s[j]
<1> DEFINE e == [s[i] EXCEPT !.receivers = S]
           t == [s EXCEPT ![i] = e]
<1>1. s[i] \in Table
  OBVIOUS
<1>2. e \in Table /\ e.receivers = S /\ e.name = s[i].name
  BY <1>1 DEF Table
<1> HIDE DEF e
<1>3. /\ t \in Seq(Table)
      /\ Len(t) = Len(s)
      /\ t[i] = e
      /\ \A j \in 1 .. Len(s) : j # i => t[j] = s[j]
  BY <1>2
<1>4. Updated(s, i, S) = t
  BY DEF e, Updated
<1> HIDE DEF t
<1> QED
  BY <1>2, <1>3, <1>4

\* What addReceiver and removeReceiver do to the table.
LEMMA AddedToTable ==
    ASSUME Inv, NEW r \in Receivers
    PROVE  LET n == NameOf[r]
               i == getNameIndex(n)
           IN  /\ n \in Names \ {Pd}
               /\ Added(r) \in Seq(Table)
               /\ i \in 0 .. Len(sendStack)
               /\ \A j \in 1 .. Len(sendStack) :
                      /\ Added(r)[j].name = sendStack[j].name
                      /\ j # i => Added(r)[j] = sendStack[j]
               /\ i = 0 => /\ Len(Added(r)) = Len(sendStack) + 1
                           /\ Added(r)[Len(sendStack) + 1] = Entry(n, {r})
               /\ i # 0 => /\ Len(Added(r)) = Len(sendStack)
                           /\ Added(r)[i].receivers = sendStack[i].receivers \cup {r}
<1> DEFINE n == NameOf[r]
           i == getNameIndex(n)
<1>1. n \in Names \ {Pd}
  BY ControllerAssumption
<1>2. i \in 0 .. Len(sendStack)
  BY <1>1, NameIndex DEF IndexIsOfName
<1>3. sendStack \in Seq(Table) /\ Len(sendStack) \in Nat
  BY DEF Inv, TypeOK, Table
<1>4. CASE i = 0
  <2>1. Added(r) = Append(sendStack, Entry(n, {r}))
    BY <1>4 DEF Added
  <2>2. Entry(n, {r}) \in Table
    BY <1>1 DEF Entry, Table
  <2> QED
    BY <1>1, <1>2, <1>3, <1>4, <2>1, <2>2, AppendEntry
<1>5. CASE i # 0
  <2>1. i \in 1 .. Len(sendStack)
    BY <1>2, <1>3, <1>5
  <2> DEFINE S == sendStack[i].receivers \cup {r}
             u == Updated(sendStack, i, S)
  <2>2. Added(r) = u
    BY <1>5 DEF Added, Updated
  <2> HIDE DEF i
  <2>3. sendStack[i] \in Table
    BY <2>1, <1>3
  <2>4. S \in SUBSET Receivers
    BY <2>3 DEF Table
  <2> HIDE DEF S
  <2>5. /\ u \in Seq(Table)
        /\ Len(u) = Len(sendStack)
        /\ u[i].receivers = S
        /\ \A j \in 1 .. Len(sendStack) : u[j].name = sendStack[j].name
        /\ \A j \in 1 .. Len(sendStack) : j # i => u[j] = sendStack[j]
    BY ONLY <1>3, <2>1, <2>4, UpdateEntry
  <2> HIDE DEF u
  <2> QED
    BY <1>1, <1>2, <1>5, <2>2, <2>5 DEF S, i
<1> QED
  BY <1>4, <1>5

\* removeReceiver takes the receiver from its name's entry: entries and names
\* stay where they are, and the receivers of other names too.
LEMMA RemovedFromTable ==
    ASSUME Inv, NEW r \in Receivers
    PROVE  LET n == NameOf[r]
               i == getNameIndex(n)
           IN  /\ n \in Names \ {Pd}
               /\ Removed(r) \in Seq(Table)
               /\ i \in 0 .. Len(sendStack)
               /\ Len(Removed(r)) = Len(sendStack)
               /\ \A j \in 1 .. Len(sendStack) :
                      /\ Removed(r)[j].name = sendStack[j].name
                      /\ j # i => Removed(r)[j] = sendStack[j]
               /\ i # 0 => Removed(r)[i].receivers = sendStack[i].receivers \ {r}
<1> DEFINE n == NameOf[r]
           i == getNameIndex(n)
<1>1. n \in Names \ {Pd}
  BY ControllerAssumption
<1>2. i \in 0 .. Len(sendStack)
  BY <1>1, NameIndex DEF IndexIsOfName
<1>3. sendStack \in Seq(Table) /\ Len(sendStack) \in Nat
  BY DEF Inv, TypeOK, Table
<1>4. CASE i = 0
  BY <1>1, <1>2, <1>3, <1>4 DEF Removed
<1>5. CASE i # 0
  <2>1. i \in 1 .. Len(sendStack)
    BY <1>2, <1>3, <1>5
  <2> DEFINE S == sendStack[i].receivers \ {r}
             u == Updated(sendStack, i, S)
  <2>2. Removed(r) = u
    BY <1>5 DEF Removed, Updated
  <2> HIDE DEF i
  <2>3. sendStack[i] \in Table
    BY <2>1, <1>3
  <2>4. S \in SUBSET Receivers
    BY <2>3 DEF Table
  <2> HIDE DEF S
  <2>5. /\ u \in Seq(Table)
        /\ Len(u) = Len(sendStack)
        /\ u[i].receivers = S
        /\ \A j \in 1 .. Len(sendStack) : u[j].name = sendStack[j].name
        /\ \A j \in 1 .. Len(sendStack) : j # i => u[j] = sendStack[j]
    BY ONLY <1>3, <2>1, <2>4, UpdateEntry
  <2> HIDE DEF u
  <2> QED
    BY <1>1, <1>2, <1>5, <2>2, <2>5 DEF S, i
<1> QED
  BY <1>4, <1>5

-----------------------------------------------------------------------------
(* The invariant.                                                          *)

Indices == 1 .. Len(sendStack) \cup {SYSTEM_NAME_INDEX}

\* A call of sendMessage is added to those in progress.
LEMMA SendsInType ==
    ASSUME TypeOK, NEW set \in SUBSET Receivers, NEW by \in Names \cup {NOBODY}
    PROVE  Append(sends, [left |-> set, by |-> by])
               \in Seq([left : SUBSET Receivers, by : Names \cup {NOBODY}])
<1> DEFINE Calls == [left : SUBSET Receivers, by : Names \cup {NOBODY}]
           call == [left |-> set, by |-> by]
<1>1. sends \in Seq(Calls) /\ call \in Calls
  BY DEF TypeOK
<1> HIDE DEF Calls, call
<1>2. Append(sends, call) \in Seq(Calls)
  BY <1>1
<1> QED
  BY <1>2 DEF Calls, call

\* The innermost call, and what is left when it returns.
LEMMA SendsEnd ==
    ASSUME TypeOK, ~ Idle
    PROVE  /\ Len(sends) \in 1 .. Len(sends)
           /\ Last(sends) \in [left : SUBSET Receivers, by : Names \cup {NOBODY}]
           /\ Front(sends) \in Seq([left : SUBSET Receivers,
                                    by : Names \cup {NOBODY}])
<1> DEFINE Calls == [left : SUBSET Receivers, by : Names \cup {NOBODY}]
<1>1. sends \in Seq(Calls) /\ sends # <<>>
  BY DEF TypeOK, Idle
<1> HIDE DEF Calls
<1>2. Len(sends) \in Nat /\ Len(sends) > 0
  BY <1>1
<1>3. sends[Len(sends)] \in Calls
  BY <1>1, <1>2
<1>4. \A j \in 1 .. Len(sends) - 1 : sends[j] \in Calls
  BY <1>1, <1>2
<1>5. SubSeq(sends, 1, Len(sends) - 1) \in Seq(Calls)
  BY <1>1, <1>2, <1>4, SubSeqProperties
<1> QED
  BY <1>2, <1>3, <1>5 DEF Last, Front, Calls

\* Whatever is sent, there are receivers for it in the table, or none.
LEMMA ReceiversInType ==
    ASSUME TypeOK, NEW i \in Indices \cup {0}
    PROVE  ReceiversAt(i) \in SUBSET Receivers
<1>1. CASE i = SYSTEM_NAME_INDEX \/ i = 0
  BY <1>1 DEF ReceiversAt
<1>2. CASE ~ (i = SYSTEM_NAME_INDEX \/ i = 0)
  <2>1. i \in 1 .. Len(sendStack) /\ sendStack \in Seq(Table)
    BY <1>2 DEF Indices, TypeOK, Table
  <2>2. sendStack[i] \in Table
    BY <2>1
  <2> QED
    BY <1>2, <2>2 DEF ReceiversAt, Table
<1> QED
  BY <1>1, <1>2

\* An empty table satisfies the invariant.
LEMMA InitInv == Init => Inv
  BY DEF Init, Inv, TypeOK, NamesOnce, SYSTEM_NAME_INDEX

\* addReceiver appends an entry only for a name that has none.
LEMMA AddInv ==
    ASSUME Inv, NEW r \in Receivers, addReceiver(r)
    PROVE  Inv'
<1> DEFINE n == NameOf[r]
           i == getNameIndex(n)
           L == Len(sendStack)
<1>1. sendStack' = Added(r) /\ L + 1 < SYSTEM_NAME_INDEX
  BY DEF addReceiver
<1>2. /\ n \in Names \ {Pd}
      /\ sendStack' \in Seq(Table)
      /\ i \in 0 .. L
      /\ \A j \in 1 .. L : sendStack'[j].name = sendStack[j].name
      /\ i = 0 => /\ Len(sendStack') = L + 1
                  /\ sendStack'[L + 1] = Entry(n, {r})
      /\ i # 0 => Len(sendStack') = L
  BY <1>1, AddedToTable
<1>3. i = 0 => \A j \in 1 .. L : sendStack[j].name # n
  BY <1>2, NameIndex DEF IndexIsOfName
<1>4. L \in Nat /\ SYSTEM_NAME_INDEX \in Nat
  BY DEF Inv, TypeOK, SYSTEM_NAME_INDEX
<1> HIDE DEF i, n, L
<1>5. NamesOnce'
  <2>1. i = 0 => sendStack'[L + 1].name = n
    BY <1>2 DEF Entry
  <2>2. \A j, k \in 1 .. L : sendStack[j].name = sendStack[k].name => j = k
    BY DEF Inv, NamesOnce, L
  <2>3. \A j, k \in 1 .. Len(sendStack') :
            sendStack'[j].name = sendStack'[k].name => j = k
    <3>1. CASE i = 0
      BY <3>1, <1>2, <1>3, <1>4, <2>1, <2>2
    <3>2. CASE i # 0
      BY <3>2, <1>2, <2>2
    <3> QED
      BY <3>1, <3>2
  <2> QED
    BY <2>3 DEF NamesOnce
<1>6. TypeOK'
  <2>1. Len(sendStack') < SYSTEM_NAME_INDEX /\ Len(sendStack') \in {L, L + 1}
    BY <1>1, <1>2, <1>4 DEF L
  <2>2. queue \in Seq(1 .. Len(sendStack') \cup {SYSTEM_NAME_INDEX})
    <3>1. queue \in Seq(1 .. L \cup {SYSTEM_NAME_INDEX})
      BY DEF Inv, TypeOK, L
    <3>2. 1 .. L \subseteq 1 .. Len(sendStack')
      BY <2>1, <1>4
    <3> QED
      BY <3>1, <3>2
  <2> QED
    BY <1>2, <2>1, <2>2 DEF Inv, TypeOK, addReceiver, Table
<1> QED
  BY <1>5, <1>6 DEF Inv

\* removeReceiver changes no name.
LEMMA RemoveInv ==
    ASSUME Inv, NEW r \in Receivers, removeReceiver(r)
    PROVE  Inv'
<1>1. sendStack' = Removed(r)
  BY DEF removeReceiver
<1>2. /\ sendStack' \in Seq(Table)
      /\ Len(sendStack') = Len(sendStack)
      /\ \A j \in 1 .. Len(sendStack) : sendStack'[j].name = sendStack[j].name
  BY <1>1, RemovedFromTable
<1>3. NamesOnce'
  BY <1>2 DEF Inv, NamesOnce
<1>4. TypeOK'
  BY <1>2 DEF Inv, TypeOK, removeReceiver, Table
<1> QED
  BY <1>3, <1>4 DEF Inv

\* The other steps leave the table alone.
LEMMA SendInv ==
    ASSUME Inv, NEW i \in Indices \cup {0}, NEW hear \in Names \cup {NOBODY},
           sendMessage(i, hear), queue' \in Seq(Indices)
    PROVE  Inv'
<1>1. ReceiversAt(i) \in SUBSET Receivers
  BY ReceiversInType DEF Inv
<1>2. sends' \in Seq([left : SUBSET Receivers, by : Names \cup {NOBODY}])
  BY <1>1, SendsInType DEF sendMessage, Inv
<1> QED
  BY <1>2 DEF Inv, TypeOK, NamesOnce, sendMessage, Indices

\* A name has an index, 0 included.
LEMMA IndexInType ==
    ASSUME Inv, NEW n \in Names
    PROVE  getNameIndex(n) \in Indices \cup {0}
<1>1. CASE n = Pd
  BY <1>1 DEF getNameIndex, Indices
<1>2. CASE n # Pd
  <2>1. getNameIndex(n) \in 0 .. Len(sendStack)
    BY <1>2, NameIndex DEF IndexIsOfName
  <2>2. Len(sendStack) \in Nat
    BY DEF Inv, TypeOK
  <2> QED
    BY <2>1, <2>2 DEF Indices
<1> QED
  BY <1>1, <1>2

\* The invariant is inductive.
LEMMA NextInv == Inv /\ [Next]_vars => Inv'
<1> SUFFICES ASSUME Inv, [Next]_vars
             PROVE  Inv'
  OBVIOUS
<1> USE DEF Inv
<1>0. queue \in Seq(Indices)
  BY DEF TypeOK, Indices
<1>1. ASSUME NEW r \in Receivers, addReceiver(r)
      PROVE  Inv'
  BY <1>1, AddInv
<1>2. ASSUME NEW r \in Receivers, removeReceiver(r)
      PROVE  Inv'
  BY <1>2, RemoveInv
<1>3. ASSUME NEW r \in Receivers, Reach(r)
      PROVE  Inv'
  <2> DEFINE Calls == [left : SUBSET Receivers, by : Names \cup {NOBODY}]
             call == [sends[Len(sends)] EXCEPT !.left = @ \ {r}]
  <2>1. Len(sends) \in 1 .. Len(sends) /\ sends[Len(sends)] \in Calls
    BY <1>3, SendsEnd DEF Reach, Last
  <2>2. call \in Calls
    BY <2>1
  <2>3. sends' = [sends EXCEPT ![Len(sends)] = call]
    BY <1>3 DEF Reach
  <2>4. sends \in Seq(Calls)
    BY DEF TypeOK
  <2> HIDE DEF Calls, call
  <2>5. sends' \in Seq(Calls)
    BY <2>1, <2>2, <2>3, <2>4
  <2> QED
    BY <1>3, <2>5 DEF Reach, TypeOK, NamesOnce, Calls
<1>4. ASSUME NEW n \in Names,
             registerExternalReceiver(n) \/ unregisterExternalReceiver(n)
      PROVE  Inv'
  BY <1>4 DEF registerExternalReceiver, unregisterExternalReceiver, TypeOK,
              NamesOnce
<1>5. ASSUME NEW n \in Names, scheduleExternalMessage(n)
      PROVE  Inv'
  <2>1. getNameIndex(n) \in Indices \cup {0} /\ getNameIndex(n) > 0
    BY <1>5, IndexInType DEF scheduleExternalMessage, receiverExists
  <2>2. Append(queue, getNameIndex(n)) \in Seq(Indices)
    BY <1>0, <2>1
  <2> QED
    BY <1>5, <2>2 DEF scheduleExternalMessage, TypeOK, NamesOnce, Indices
<1>6. ASSUME NEW n \in Names, receiveMessage(n)
      PROVE  Inv'
  <2>1. queue' \in Seq(Indices)
    BY <1>0, <1>6 DEF receiveMessage
  <2> QED
    BY <1>6, <2>1, IndexInType, SendInv DEF receiveMessage
<1>7. ASSUME NEW i \in 1 .. Len(queue), Deliver(i)
      PROVE  Inv'
  <2>1. queue' \in Seq(Indices)
    BY <1>0, <1>7, RemoveAtElements DEF Deliver
  <2>2. queue[i] \in Indices
    BY <1>0
  <2> QED
    BY <1>7, <2>1, <2>2, SendInv DEF Deliver
<1>8. CASE End
  <2>1. /\ Front(sends) \in Seq([left : SUBSET Receivers,
                                by : Names \cup {NOBODY}])
        /\ Last(sends).by \in Names \cup {NOBODY}
    BY <1>8, SendsEnd DEF End
  <2> QED
    BY <1>8, <2>1 DEF End, TypeOK, NamesOnce
<1>9. CASE UNCHANGED vars
  BY <1>9 DEF vars, TypeOK, NamesOnce
<1> QED
  BY <1>1, <1>2, <1>3, <1>4, <1>5, <1>6, <1>7, <1>8, <1>9 DEF Next

\* The invariant holds in every state of the controller.
LEMMA InvAlways == Spec => []Inv
  BY InitInv, NextInv, PTL DEF Spec

\* A queued index always is that of an entry of the table, or of the system.
THEOREM TypeCorrect == Spec => []TypeOK
  BY InvAlways, PTL DEF Inv

\* A name has one entry, whatever receivers come and go.
THEOREM NamesCorrect == Spec => []NamesOnce
  BY InvAlways, PTL DEF Inv

\* No entry moves, is renamed or is lost.
THEOREM IndexCorrect == Spec => IndexIsConstant
<1> DEFINE Stays == \A i \in 1 .. Len(sendStack) :
                        /\ i <= Len(sendStack')
                        /\ sendStack'[i].name = sendStack[i].name
<1>1. Inv /\ [Next]_vars => [Stays]_vars
  <2> SUFFICES ASSUME Inv, Next
               PROVE  Stays
    OBVIOUS
  <2>0. Len(sendStack) \in Nat
    BY DEF Inv, TypeOK
  <2>1. ASSUME NEW r \in Receivers, addReceiver(r)
        PROVE  Stays
    <3>1. sendStack' = Added(r)
      BY <2>1 DEF addReceiver
    <3>2. /\ \A j \in 1 .. Len(sendStack) :
                 sendStack'[j].name = sendStack[j].name
          /\ Len(sendStack') \in {Len(sendStack), Len(sendStack) + 1}
      BY <3>1, AddedToTable
    <3> QED
      BY <2>0, <3>2
  <2>2. ASSUME NEW r \in Receivers, removeReceiver(r)
        PROVE  Stays
    <3>1. sendStack' = Removed(r)
      BY <2>2 DEF removeReceiver
    <3> QED
      BY <2>0, <3>1, RemovedFromTable
  <2>3. UNCHANGED sendStack => Stays
    BY <2>0
  <2> QED
    BY <2>1, <2>2, <2>3 DEF Next, Reach, registerExternalReceiver,
           unregisterExternalReceiver, scheduleExternalMessage, receiveMessage,
           sendMessage, Deliver, End
<1> QED
  BY <1>1, InvAlways, PTL DEF Spec, IndexIsConstant

-----------------------------------------------------------------------------
(* The implementation of NamedReceivers.                                   *)

\* The variables of NamedReceivers, as functions of those here.
receiversBar == [n \in Names |-> ReceiversAt(IF n = Pd THEN 0
                                              ELSE getNameIndex(n))]
queuedBar == [i \in 1 .. Len(queue) |-> NameAt(queue[i])]

\* An entry has a name, which is not that of the system.
LEMMA EntryInTable ==
    ASSUME Inv, NEW j \in 1 .. Len(sendStack)
    PROVE  sendStack[j] \in Table /\ sendStack[j].name \in Names \ {Pd}
<1>1. sendStack \in Seq(Table)
  BY DEF Inv, TypeOK, Table
<1>2. sendStack[j] \in Table
  BY <1>1
<1> QED
  BY <1>2 DEF Table

\* The entry of a name has the receivers of the name.
EntryIsOfName ==
    /\ \A j \in 1 .. Len(sendStack) :
           /\ sendStack[j].name \in Names \ {Pd}
           /\ getNameIndex(sendStack[j].name) = j
           /\ receiversBar[sendStack[j].name] = sendStack[j].receivers
    /\ \A n \in Names :
           (\A j \in 1 .. Len(sendStack) : sendStack[j].name # n)
               => receiversBar[n] = {}

\* As a name has one entry, it is found there with all of its receivers.
LEMMA EntryNames == Inv => EntryIsOfName
<1> SUFFICES ASSUME Inv
             PROVE  EntryIsOfName
  OBVIOUS
<1>0. Len(sendStack) \in Nat /\ Len(sendStack) < SYSTEM_NAME_INDEX
  BY DEF Inv, TypeOK
<1>1. ASSUME NEW j \in 1 .. Len(sendStack)
      PROVE  /\ sendStack[j].name \in Names \ {Pd}
             /\ getNameIndex(sendStack[j].name) = j
             /\ receiversBar[sendStack[j].name] = sendStack[j].receivers
  <2>1. sendStack[j].name \in Names \ {Pd}
    BY EntryInTable
  <2>2. getNameIndex(sendStack[j].name) = j
    BY <1>0, <2>1, NameIndex DEF IndexIsOfName, Inv, NamesOnce
  <2> QED
    BY <1>0, <2>1, <2>2 DEF receiversBar, ReceiversAt, SYSTEM_NAME_INDEX
<1>2. ASSUME NEW n \in Names,
             \A j \in 1 .. Len(sendStack) : sendStack[j].name # n
      PROVE  receiversBar[n] = {}
  <2>1. n # Pd => getNameIndex(n) = 0
    BY <1>0, <1>2, NameIndex DEF IndexIsOfName
  <2> QED
    BY <2>1 DEF receiversBar, ReceiversAt
<1> QED
  BY <1>1, <1>2 DEF EntryIsOfName

\* The same in the next state.
LEMMA EntryNamesNext == Inv' => EntryIsOfName'
  BY EntryNames, PTL

\* The index of a queued message denotes its name as long as entries stay.
LEMMA QueuedStays ==
    ASSUME Inv, UNCHANGED queue,
           \A j \in 1 .. Len(sendStack) : sendStack'[j].name = sendStack[j].name
    PROVE  queuedBar' = queuedBar
<1>1. ASSUME NEW i \in 1 .. Len(queue)
      PROVE  NameAt(queue[i])' = NameAt(queue[i])
  <2>1. queue[i] \in 1 .. Len(sendStack) \cup {SYSTEM_NAME_INDEX}
    BY DEF Inv, TypeOK
  <2> QED
    BY <2>1 DEF NameAt
<1> QED
  BY <1>1 DEF queuedBar

\* addReceiver adds the receiver to those of its name and of no other.
LEMMA JoinStep ==
    ASSUME Inv, Inv', NEW r \in Receivers, addReceiver(r)
    PROVE  Directory!Join(r)
<1> DEFINE n == NameOf[r]
           i == getNameIndex(n)
           L == Len(sendStack)
<1>1. EntryIsOfName /\ EntryIsOfName'
  BY EntryNames, EntryNamesNext
<1>2. sendStack' = Added(r)
  BY DEF addReceiver
<1>3. n \in Names \ {Pd} /\ i \in 0 .. L /\ L \in Nat
  <2>1. n \in Names \ {Pd} /\ i \in 0 .. L
    BY AddedToTable
  <2>2. L \in Nat
    BY DEF Inv, TypeOK
  <2> QED
    BY <2>1, <2>2
<1>31. \A j \in 1 .. L : sendStack'[j].name = sendStack[j].name
  BY <1>2, AddedToTable
<1>32. \A j \in 1 .. L : j # i => sendStack'[j] = sendStack[j]
  BY <1>2, AddedToTable
<1>33. i = 0 => /\ Len(sendStack') = L + 1
               /\ sendStack'[L + 1] = Entry(n, {r})
  BY <1>2, AddedToTable
<1>34. i # 0 => /\ Len(sendStack') = L
               /\ sendStack'[i].receivers = sendStack[i].receivers \cup {r}
  BY <1>2, AddedToTable
<1>35. 1 .. L \subseteq 1 .. Len(sendStack')
  BY <1>3, <1>33, <1>34
<1>4. /\ i = 0 => \A j \in 1 .. L : sendStack[j].name # n
      /\ i # 0 => sendStack[i].name = n
  BY <1>3, NameIndex DEF IndexIsOfName
<1>6. \A j \in 1 .. L : sendStack[j].name = n => j = i
  BY <1>1 DEF EntryIsOfName
<1>7. i = 0 => /\ sendStack'[L + 1].name = n
              /\ sendStack'[L + 1].receivers = {r}
  BY <1>33 DEF Entry
<1> HIDE DEF n, i, L
<1>8. ASSUME NEW m \in Names
      PROVE  receiversBar'[m] = IF m = n THEN receiversBar[m] \cup {r}
                                         ELSE receiversBar[m]
  <2>1. CASE \E j \in 1 .. L : sendStack[j].name = m
    <3>1. PICK j \in 1 .. L : sendStack[j].name = m
      BY <2>1
    <3>2. j \in 1 .. Len(sendStack') /\ sendStack'[j].name = m
      BY <1>31, <1>35, <3>1
    <3>3. /\ receiversBar[m] = sendStack[j].receivers
          /\ receiversBar'[m] = sendStack'[j].receivers
      BY <1>1, <3>1, <3>2 DEF EntryIsOfName, L
    <3>4. m = n <=> j = i
      BY <1>3, <1>4, <1>6, <3>1
    <3>5. CASE j = i
      BY <1>3, <1>34, <3>1, <3>3, <3>4, <3>5
    <3>6. CASE j # i
      BY <1>32, <3>1, <3>3, <3>4, <3>6
    <3> QED
      BY <3>5, <3>6
  <2>2. CASE \A j \in 1 .. L : sendStack[j].name # m
    <3>1. receiversBar[m] = {}
      BY <1>1, <2>2 DEF EntryIsOfName, L
    <3>2. CASE m = n
      <4>1. i = 0
        BY <1>3, <1>4, <2>2, <3>2
      <4>2. L + 1 \in 1 .. Len(sendStack')
        BY <1>3, <1>33, <4>1
      <4>3. receiversBar'[m] = {r}
        BY <1>1, <1>7, <3>2, <4>1, <4>2 DEF EntryIsOfName
      <4> QED
        BY <3>1, <3>2, <4>3
    <3>3. CASE m # n
      <4>1. \A j \in 1 .. Len(sendStack') : sendStack'[j].name # m
        BY <1>3, <1>31, <1>33, <1>34, <1>7, <2>2, <3>3
      <4>2. receiversBar'[m] = {}
        BY <1>1, <4>1 DEF EntryIsOfName
      <4> QED
        BY <3>1, <3>3, <4>2
    <3> QED
      BY <3>2, <3>3
  <2> QED
    BY <2>1, <2>2
<1>9. receiversBar' = [receiversBar EXCEPT ![n] = @ \cup {r}]
  BY <1>8, <1>3 DEF receiversBar
<1>11. queuedBar' = queuedBar
  BY <1>31, QueuedStays DEF addReceiver, L
<1> QED
  BY <1>9, <1>11 DEF addReceiver, Idle, Directory!Join, Directory!Idle,
                            receiversBar, queuedBar, n

\* removeReceiver takes the receiver from its name and from no other.
LEMMA LeaveStep ==
    ASSUME Inv, Inv', NEW r \in Receivers, removeReceiver(r)
    PROVE  Directory!Leave(r)
<1> DEFINE n == NameOf[r]
           i == getNameIndex(n)
           L == Len(sendStack)
<1>1. EntryIsOfName /\ EntryIsOfName'
  BY EntryNames, EntryNamesNext
<1>2. sendStack' = Removed(r)
  BY DEF removeReceiver
<1>3. n \in Names \ {Pd} /\ i \in 0 .. L /\ L \in Nat
  <2>1. n \in Names \ {Pd} /\ i \in 0 .. L
    BY RemovedFromTable
  <2>2. L \in Nat
    BY DEF Inv, TypeOK
  <2> QED
    BY <2>1, <2>2
<1>4. Len(sendStack') = L
  BY <1>2, RemovedFromTable
<1>5. \A j \in 1 .. L : sendStack'[j].name = sendStack[j].name
  BY <1>2, RemovedFromTable
<1>6. \A j \in 1 .. L : j # i => sendStack'[j] = sendStack[j]
  BY <1>2, RemovedFromTable
<1>7. i # 0 => sendStack'[i].receivers = sendStack[i].receivers \ {r}
  BY <1>2, RemovedFromTable
<1>8. /\ i = 0 => \A j \in 1 .. L : sendStack[j].name # n
      /\ i # 0 => sendStack[i].name = n
  BY <1>3, NameIndex DEF IndexIsOfName
<1>9. \A j \in 1 .. L : sendStack[j].name = n => j = i
  BY <1>1 DEF EntryIsOfName
<1> HIDE DEF n, i, L
<1>10. ASSUME NEW m \in Names
       PROVE  receiversBar'[m] = IF m = n THEN receiversBar[m] \ {r}
                                          ELSE receiversBar[m]
  <2>1. CASE \E j \in 1 .. L : sendStack[j].name = m
    <3>1. PICK j \in 1 .. L : sendStack[j].name = m
      BY <2>1
    <3>2. j \in 1 .. Len(sendStack') /\ sendStack'[j].name = m
      BY <1>4, <1>5, <3>1
    <3>3. /\ receiversBar[m] = sendStack[j].receivers
          /\ receiversBar'[m] = sendStack'[j].receivers
      BY <1>1, <3>1, <3>2 DEF EntryIsOfName, L
    <3>4. m = n <=> j = i
      BY <1>3, <1>8, <1>9, <3>1
    <3>5. CASE j = i
      BY <1>3, <1>7, <3>1, <3>3, <3>4, <3>5
    <3>6. CASE j # i
      BY <1>6, <3>1, <3>3, <3>4, <3>6
    <3> QED
      BY <3>5, <3>6
  <2>2. CASE \A j \in 1 .. L : sendStack[j].name # m
    <3>1. receiversBar[m] = {}
      BY <1>1, <2>2 DEF EntryIsOfName, L
    <3>2. \A j \in 1 .. Len(sendStack') : sendStack'[j].name # m
      BY <1>4, <1>5, <2>2
    <3>3. receiversBar'[m] = {}
      BY <1>1, <3>2 DEF EntryIsOfName
    <3> QED
      BY <3>1, <3>3
  <2> QED
    BY <2>1, <2>2
<1>11. receiversBar' = [receiversBar EXCEPT ![n] = @ \ {r}]
  BY <1>10, <1>3 DEF receiversBar
<1>13. queuedBar' = queuedBar
  BY <1>5, QueuedStays DEF removeReceiver, L
<1> QED
  BY <1>11, <1>13 DEF removeReceiver, Idle, Directory!Leave,
         Directory!Idle, receiversBar, queuedBar, n

\* A step that leaves the table and the queue alone.
LEMMA SameBars ==
    ASSUME UNCHANGED sendStack
    PROVE  /\ receiversBar' = receiversBar
           /\ queue' = queue => queuedBar' = queuedBar
  BY DEF receiversBar, queuedBar, NameAt, ReceiversAt, getNameIndex, IndicesOf

\* What sendMessage sends to, by name.
LEMMA SendByName ==
    ASSUME Inv, NEW i \in Indices
    PROVE  NameAt(i) \in Names /\ ReceiversAt(i) = receiversBar[NameAt(i)]
<1>1. CASE i = SYSTEM_NAME_INDEX
  BY <1>1, ControllerAssumption DEF NameAt, ReceiversAt, receiversBar
<1>2. CASE i # SYSTEM_NAME_INDEX
  <2>1. i \in 1 .. Len(sendStack) /\ i # 0
    BY <1>2 DEF Indices
  <2>2. /\ sendStack[i].name \in Names \ {Pd}
        /\ receiversBar[sendStack[i].name] = sendStack[i].receivers
    BY <2>1, EntryNames DEF EntryIsOfName
  <2> QED
    BY <1>2, <2>1, <2>2 DEF NameAt, ReceiversAt
<1> QED
  BY <1>1, <1>2

\* What receiveMessage sends to is what the name has now.
LEMMA SendNowByName ==
    ASSUME Inv, NEW n \in Names
    PROVE  ReceiversAt(getNameIndex(n)) = receiversBar[n]
  BY DEF receiversBar, ReceiversAt, getNameIndex

\* Queueing the index of a name is queueing the name.
LEMMA ScheduleStep ==
    ASSUME Inv, Lapsed = {}, NEW n \in Names, scheduleExternalMessage(n)
    PROVE  Directory!Schedule(n)
<1> DEFINE i == getNameIndex(n)
<1>1. /\ receiversBar[n] # {} \/ n = Pd
      /\ i \in Indices
      /\ UNCHANGED <<sendStack, externalReceiverSet, sends>>
      /\ queue' = Append(queue, i)
      /\ Len(queue) < MaxQueued
  BY IndexInType, SendNowByName DEF scheduleExternalMessage, receiverExists
<1>2. NameAt(i) = n
  <2>1. CASE n = Pd
    BY <2>1 DEF NameAt, getNameIndex
  <2>2. CASE n # Pd
    <3>1. i \in 1 .. Len(sendStack) /\ sendStack[i].name = n
      BY <2>2, NameIndex DEF IndexIsOfName, scheduleExternalMessage,
                             receiverExists
    <3>2. i # SYSTEM_NAME_INDEX
      BY <3>1 DEF Inv, TypeOK, SYSTEM_NAME_INDEX
    <3> QED
      BY <3>1, <3>2 DEF NameAt
  <2> QED
    BY <2>1, <2>2
<1>3. queue \in Seq(Indices) /\ Len(queue) \in Nat
  BY DEF Inv, TypeOK, Indices
<1> HIDE DEF i
<1>4. /\ Len(queue') = Len(queue) + 1
      /\ queue'[Len(queue) + 1] = i
      /\ \A j \in 1 .. Len(queue) : queue'[j] = queue[j]
  BY <1>1, <1>3, AppendEntry
<1>5. \A x \in Indices : NameAt(x)' = NameAt(x)
  BY <1>1 DEF NameAt
<1>6. /\ queuedBar' = [j \in 1 .. Len(queue) + 1 |-> NameAt(queue'[j])]
      /\ queuedBar = [j \in 1 .. Len(queue) |-> NameAt(queue[j])]
  BY <1>1, <1>4 DEF queuedBar, NameAt
<1>7. queuedBar \in Seq(Names) /\ Len(queuedBar) = Len(queue)
  BY <1>3, <1>6, SendByName
<1>8. queuedBar' = Append(queuedBar, n)
  BY <1>2, <1>3, <1>4, <1>6, <1>7
<1> QED
  BY <1>1, <1>7, <1>8, SameBars DEF scheduleExternalMessage, Directory!Schedule,
         receiversBar, queuedBar

\* Removing commutes with naming.
LEMMA RemoveByName ==
    ASSUME Inv, UNCHANGED sendStack, NEW k \in 1 .. Len(queue),
           queue' = RemoveAt(queue, k)
    PROVE  queuedBar' = RemoveAt(queuedBar, k)
<1>1. queue \in Seq(Indices) /\ Len(queue) \in Nat
  BY DEF Inv, TypeOK, Indices
<1>2. queue' \in Seq(Indices) /\ IsRemoved(queue', queue, k)
  BY <1>1, RemoveAtElements
<1>3. /\ queuedBar' = [j \in 1 .. Len(queue') |-> NameAt(queue'[j])]
      /\ queuedBar = [j \in 1 .. Len(queue) |-> NameAt(queue[j])]
  BY DEF queuedBar, NameAt
<1>4. queuedBar \in Seq(Names) /\ Len(queuedBar) = Len(queue)
  BY <1>1, <1>3, SendByName
<1> DEFINE t == RemoveAt(queuedBar, k)
<1>5. t \in Seq(Names) /\ IsRemoved(t, queuedBar, k)
  BY <1>4, RemoveAtElements
<1> HIDE DEF t
<1>6. Len(queue') = Len(queue) - 1 /\ Len(t) = Len(queue) - 1
  BY <1>2, <1>4, <1>5 DEF IsRemoved
<1>7. ASSUME NEW j \in 1 .. Len(queue) - 1
      PROVE  t[j] = NameAt(queue'[j])
  <2>1. CASE j < k
    <3>1. t[j] = queuedBar[j] /\ queue'[j] = queue[j]
      BY <1>2, <1>4, <1>5, <1>6, <2>1 DEF IsRemoved
    <3>2. j \in 1 .. Len(queue)
      BY <1>1
    <3> QED
      BY <1>3, <3>1, <3>2
  <2>2. CASE ~ (j < k)
    <3>1. t[j] = queuedBar[j + 1] /\ queue'[j] = queue[j + 1]
      BY <1>1, <1>2, <1>4, <1>5, <1>6, <2>2 DEF IsRemoved
    <3>2. j + 1 \in 1 .. Len(queue)
      BY <1>1
    <3> QED
      BY <1>3, <3>1, <3>2
  <2> QED
    BY <2>1, <2>2
<1>8. t = [j \in 1 .. Len(t) |-> t[j]]
  BY <1>5
<1>9. t = [j \in 1 .. Len(queue') |-> NameAt(queue'[j])]
  BY <1>6, <1>7, <1>8
<1> QED
  BY <1>3, <1>9 DEF t

\* receiveMessage sends to the receivers of the name.
LEMMA SendNowStep ==
    ASSUME Inv, NEW n \in Names, receiveMessage(n)
    PROVE  Directory!SendNow(n)
<1>1. /\ Len(sends) < MaxDepth
      /\ sends' = Append(sends, [left |-> receiversBar[n], by |-> n])
      /\ last' = NOBODY
      /\ UNCHANGED <<sendStack, externalReceiverSet, queue>>
  BY SendNowByName DEF receiveMessage, sendMessage
<1> QED
  BY <1>1, SameBars DEF Directory!SendNow, Directory!Send, receiversBar,
                        queuedBar

\* Delivering to a queued index is delivering to the name it was queued for.
LEMMA DeliverStep ==
    ASSUME Inv, NEW k \in 1 .. Len(queue), Deliver(k)
    PROVE  k \in 1 .. Len(queuedBar) /\ Directory!Deliver(k)
<1>0. queue \in Seq(Indices) /\ Len(queue) \in Nat
  BY DEF Inv, TypeOK, Indices
<1>1. queuedBar[k] = NameAt(queue[k]) /\ Len(queuedBar) = Len(queue)
  BY <1>0 DEF queuedBar
<1>2. /\ Len(sends) < MaxDepth
      /\ sends = <<>>
      /\ sends' = Append(sends, [left |-> receiversBar[queuedBar[k]],
                                by |-> NOBODY])
      /\ last' = NOBODY
      /\ UNCHANGED <<sendStack, externalReceiverSet>>
  BY <1>0, <1>1, SendByName DEF Deliver, sendMessage, Idle
<1>3. queuedBar' = RemoveAt(queuedBar, k)
  BY <1>2, RemoveByName DEF Deliver
<1>4. receiversBar' = receiversBar
  BY <1>2, SameBars
<1> QED
  BY <1>1, <1>2, <1>3, <1>4 DEF Directory!Deliver, Directory!Send,
         Directory!Idle, RemoveAt, Directory!RemoveAt, receiversBar,
         queuedBar

\* The empty table is the empty directory.
LEMMA InitStep == Init => Directory!Init
<1> SUFFICES ASSUME Init
             PROVE  Directory!Init
  OBVIOUS
<1>1. Inv /\ Len(sendStack) = 0 /\ Len(queue) = 0
  BY InitInv DEF Init
<1>2. \A n \in Names : receiversBar[n] = {}
  BY <1>1, EntryNames DEF EntryIsOfName
<1>3. receiversBar = [n \in Names |-> {}]
  BY <1>2 DEF receiversBar
<1>4. queuedBar = <<>>
  BY <1>1 DEF queuedBar
<1> QED
  BY <1>3, <1>4 DEF Init, Directory!Init, receiversBar, queuedBar

\* Every step of the controller is a step of the directory, or none.
LEMMA NextStep ==
    ASSUME Lapsed = {}
    PROVE  Inv /\ Inv' /\ [Next]_vars => [Directory!Next]_(Directory!vars)
<1> SUFFICES ASSUME Inv, Inv', [Next]_vars
             PROVE  Directory!Next \/ UNCHANGED Directory!vars
  OBVIOUS
<1>1. ASSUME NEW r \in Receivers, addReceiver(r)
      PROVE  Directory!Next
  BY <1>1, JoinStep DEF Directory!Next
<1>2. ASSUME NEW r \in Receivers, removeReceiver(r)
      PROVE  Directory!Next
  BY <1>2, LeaveStep DEF Directory!Next
<1>3. ASSUME NEW r \in Receivers, Reach(r)
      PROVE  Directory!Next
  <2>1. Directory!Reach(r)
    BY <1>3, SameBars DEF Reach, Idle, Last, Directory!Reach,
           Directory!Idle, Directory!Last, receiversBar, queuedBar
  <2> QED
    BY <2>1 DEF Directory!Next
<1>4. ASSUME NEW n \in Names,
             registerExternalReceiver(n) \/ unregisterExternalReceiver(n)
      PROVE  Directory!Next
  <2>1. externalReceiverSet' \in SUBSET Names
    BY <1>4 DEF Inv, TypeOK, registerExternalReceiver,
                unregisterExternalReceiver
  <2>2. Directory!SetExternal(externalReceiverSet')
    BY <1>4, SameBars DEF registerExternalReceiver, unregisterExternalReceiver,
                Directory!SetExternal, receiversBar, queuedBar
  <2> QED
    BY <2>1, <2>2 DEF Directory!Next
<1>5. ASSUME NEW n \in Names, scheduleExternalMessage(n)
      PROVE  Directory!Next
  BY <1>5, ScheduleStep DEF Directory!Next
<1>6. ASSUME NEW n \in Names, receiveMessage(n)
      PROVE  Directory!Next
  BY <1>6, SendNowStep DEF Directory!Next
<1>7. ASSUME NEW k \in 1 .. Len(queue), Deliver(k)
      PROVE  Directory!Next
  BY <1>7, DeliverStep DEF Directory!Next, queuedBar
<1>8. ASSUME End
      PROVE  Directory!Next
  <2>1. Directory!End
    BY <1>8, SameBars DEF End, Idle, Last, Front, Directory!End,
           Directory!Idle, Directory!Last, Directory!Front, receiversBar,
                        queuedBar
  <2> QED
    BY <2>1 DEF Directory!Next
<1>9. ASSUME UNCHANGED vars
      PROVE  UNCHANGED Directory!vars
  BY <1>9, SameBars DEF vars, Directory!vars, receiversBar, queuedBar
<1> QED
  BY <1>1, <1>2, <1>3, <1>4, <1>5, <1>6, <1>7, <1>8, <1>9 DEF Next

\* A message reaches exactly the receivers that its name has when it is sent
\* or delivered, each once, whatever has become of the table of names since,
\* and does nothing if there is none, provided that the host schedules none
\* for a name whose last receiver has gone.
THEOREM Implements ==
    ASSUME Lapsed = {}
    PROVE  Spec => ReachesReceiversOfName
<1>1. Inv /\ Inv' /\ [Next]_vars => [Directory!Next]_(Directory!vars)
  BY NextStep
<1> QED
  BY <1>1, InitStep, InvAlways, PTL DEF Spec, ReachesReceiversOfName,
                                        Directory!Spec

=============================================================================
