---------------------------- MODULE StagingProofs ----------------------------
(***************************************************************************)
(* Proofs about routing and draining, for any number of events, tasks,     *)
(* locks and faults.                                                       *)
(***************************************************************************)
EXTENDS StagingProperties, FiniteSetTheorems, SequenceTheorems, WellFoundedInduction, TLAPS

\* A drain that publishes or deletes has a row to do so; a routed event exists.
Busy ==
    /\ IsFiniteSet(staged)
    /\ \A t \in Tasks : drain[t] \in {"publishing", "deleting"} => todo[t] # <<>>
    /\ cons # "polling" => next \in Events

\* Events that are on their way or have been given up: they stay so.
Sent == EventsIn(Queued \cup Range(topic)) \cup {l[1] : l \in lost}

\* An event counts before its offset is committed; a row that is about to be deleted
\* has been published.
Accounted ==
    /\ 1 .. next - 1 \subseteq EventsIn(staged) \cup Sent
    /\ cons = "routed" => next \in EventsIn(staged) \cup Sent
    /\ \A t \in Tasks : drain[t] = "deleting" => Head(todo[t]).event \in Sent

-----------------------------------------------------------------------------
(* The order of the rows.                                                  *)

Rows(log) == {log[i].row : i \in DOMAIN log}
Logged == Rows(topic) \cup Rows(dbuf)
Selected == UNION {Rows(todo[t]) : t \in Tasks}
StagedRows == {m.row : m \in staged}
KnownRows == StagedRows \cup Selected \cup Logged

\* Row k comes before position p.
Precedes(k, log, p) == \E q \in DOMAIN log : q < p /\ log[q].row = k

\* Before a row is published, every row that was staged earlier has been.
TopicOrdered ==
    \A p \in DOMAIN topic : \A k \in KnownRows :
        0 < k /\ k < topic[p].row => Precedes(k, topic, p)

QueueOrdered ==
    \A p \in DOMAIN dbuf : \A k \in KnownRows :
        0 < k /\ k < dbuf[p].row => k \in Rows(topic) \/ Precedes(k, dbuf, p)

TasksOrdered ==
    \A t \in Tasks : \A p \in DOMAIN todo[t] : \A k \in KnownRows :
        0 < k /\ k < todo[t][p].row => k \in Logged \/ Precedes(k, todo[t], p)

\* Rows are numbered as they are staged; a row that has gone has been published.
RowsTracked ==
    /\ nextRow > 0 /\ \A k \in KnownRows : k < nextRow
    /\ \A p \in DOMAIN nbuf : nbuf[p].row = 0
    /\ \A t \in Tasks : \A p \in DOMAIN todo[t] : todo[t][p] \in staged \/ todo[t][p].row \in Logged
    /\ \A t \in Tasks : drain[t] = "deleting" => Head(todo[t]).row \in Logged

OrderInv ==
    (\A l \in lost : l[2] # "undelivered") =>
        RowsTracked /\ TopicOrdered /\ QueueOrdered /\ TasksOrdered

-----------------------------------------------------------------------------
(* Sequences of messages.                                                  *)

LEMMA Appended ==
    ASSUME NEW s \in Seq(Message), NEW m \in Message
    PROVE  LET t == Append(s, m)
           IN  /\ t \in Seq(Message) /\ Len(s) \in Nat
               /\ DOMAIN s = 1 .. Len(s) /\ DOMAIN t = 1 .. Len(s) + 1
               /\ t[Len(s) + 1] = m /\ \A i \in 1 .. Len(s) : t[i] = s[i]
  OBVIOUS

LEMMA AppendedRows ==
    ASSUME NEW s \in Seq(Message), NEW m \in Message
    PROVE  /\ Range(Append(s, m)) = Range(s) \cup {m}
           /\ Rows(Append(s, m)) = Rows(s) \cup {m.row}
  <1> DEFINE t == Append(s, m)
  <1>1. /\ Len(s) \in Nat /\ DOMAIN s = 1 .. Len(s) /\ DOMAIN t = 1 .. Len(s) + 1
        /\ t[Len(s) + 1] = m /\ \A i \in 1 .. Len(s) : t[i] = s[i]
    BY Appended
  <1> HIDE DEF t
  <1>2. Range(t) = Range(s) \cup {m}
    <2>1. \A x \in Range(t) : x \in Range(s) \cup {m}
      BY <1>1 DEF Range
    <2>2. \A x \in Range(s) \cup {m} : x \in Range(t)
      BY <1>1 DEF Range
    <2> QED
      BY <2>1, <2>2
  <1>3. Rows(t) = Rows(s) \cup {m.row}
    <2>1. \A x \in Rows(t) : x \in Rows(s) \cup {m.row}
      BY <1>1 DEF Rows
    <2>2. \A x \in Rows(s) \cup {m.row} : x \in Rows(t)
      BY <1>1 DEF Rows
    <2> QED
      BY <2>1, <2>2
  <1> QED
    BY <1>2, <1>3 DEF t

LEMMA Shortened ==
    ASSUME NEW s \in Seq(Message), s # <<>>
    PROVE  /\ Tail(s) \in Seq(Message) /\ Head(s) \in Message /\ Head(s) = s[1]
           /\ 1 \in DOMAIN s /\ DOMAIN Tail(s) = 1 .. Len(s) - 1 /\ DOMAIN s = 1 .. Len(s)
           /\ Len(s) \in Nat /\ \A i \in 1 .. Len(s) - 1 : Tail(s)[i] = s[i + 1]
           /\ Len(s) # 1 => Tail(s) # <<>>
  <1>1. /\ Tail(s) \in Seq(Message) /\ Len(Tail(s)) = Len(s) - 1
        /\ Len(s) \in Nat /\ DOMAIN s = 1 .. Len(s) /\ Len(s) # 0
    OBVIOUS
  <1>2. Head(s) \in Message /\ Head(s) = s[1] /\ 1 \in DOMAIN s
    BY <1>1
  <1>3. \A i \in 1 .. Len(s) - 1 : Tail(s)[i] = s[i + 1]
    BY <1>1
  <1>4. Len(s) # 1 => Tail(s) # <<>>
    <2> DEFINE t == Tail(s)
               n == Len(s)
    <2>1. t \in Seq(Message) /\ Len(t) = n - 1 /\ n \in Nat
      BY <1>1
    <2> HIDE DEF t, n
    <2>2. n # 1 => t # <<>>
      BY <2>1, EmptySeq
    <2> QED
      BY <2>2 DEF t, n
  <1>5. DOMAIN Tail(s) = 1 .. Len(s) - 1
    BY <1>1
  <1> QED
    BY <1>1, <1>2, <1>3, <1>4, <1>5

LEMMA ShortenedRows ==
    ASSUME NEW s \in Seq(Message), s # <<>>
    PROVE  /\ Range(s) = {Head(s)} \cup Range(Tail(s))
           /\ Rows(s) = {Head(s).row} \cup Rows(Tail(s))
  <1> DEFINE t == Tail(s)
  <1>1. /\ Head(s) = s[1] /\ 1 \in DOMAIN s /\ DOMAIN t = 1 .. Len(s) - 1
        /\ DOMAIN s = 1 .. Len(s) /\ Len(s) \in Nat
        /\ \A i \in 1 .. Len(s) - 1 : t[i] = s[i + 1]
    BY Shortened
  <1>2. \A i \in DOMAIN s : i = 1 \/ (i - 1 \in DOMAIN t /\ s[i] = t[i - 1])
    BY <1>1
  <1>3. \A i \in DOMAIN t : i + 1 \in DOMAIN s /\ t[i] = s[i + 1]
    BY <1>1
  <1> HIDE DEF t
  <1>4. Range(s) = {Head(s)} \cup Range(t)
    <2>1. \A x \in Range(s) : x \in {Head(s)} \cup Range(t)
      BY <1>1, <1>2 DEF Range
    <2>2. \A x \in {Head(s)} \cup Range(t) : x \in Range(s)
      BY <1>1, <1>3 DEF Range
    <2> QED
      BY <2>1, <2>2
  <1>5. Rows(s) = {Head(s).row} \cup Rows(t)
    <2>1. \A x \in Rows(s) : x \in {Head(s).row} \cup Rows(t)
      BY <1>1, <1>2 DEF Rows
    <2>2. \A x \in {Head(s).row} \cup Rows(t) : x \in Rows(s)
      BY <1>1, <1>3 DEF Rows
    <2> QED
      BY <2>1, <2>2
  <1> QED
    BY <1>4, <1>5 DEF t

LEMMA NothingInEmpty ==
    <<>> \in Seq(Message) /\ Range(<<>>) = {} /\ Rows(<<>>) = {} /\ DOMAIN <<>> = {}
  BY DEF Range, Rows

\* What SELECT ... ORDER BY returns: every row, in the order of staging.
LEMMA SelectedRows ==
    ASSUME NEW rows \in SUBSET Message, IsFiniteSet(rows), NEW s \in InStagedOrder(rows)
    PROVE  /\ s \in Seq(Message) /\ (rows # {} => s # <<>>)
           /\ DOMAIN s = 1 .. Cardinality(rows)
           /\ \A i, j \in DOMAIN s : i < j => s[i].row < s[j].row
           /\ \A i \in DOMAIN s : s[i] \in rows
           /\ \A m \in rows : \E i \in DOMAIN s : s[i] = m
  <1> DEFINE n == Cardinality(rows)
  <1>1. n \in Nat /\ (n = 0 <=> rows = {})
    BY FS_CardinalityType, FS_EmptySet
  <1>2. /\ s \in [1 .. n -> rows]
        /\ \A i, j \in DOMAIN s : i < j => s[i].row < s[j].row
    BY DEF InStagedOrder
  <1> HIDE DEF n
  <1>3. s \in Seq(Message) /\ DOMAIN s = 1 .. n
    BY <1>1, <1>2
  <1>4. \A i \in 1 .. n : s[i] \in rows /\ s[i].row \in Nat
    BY <1>2 DEF Message
  <1>5. s \in Injection(1 .. n, rows)
    <2>1. ASSUME NEW i \in 1 .. n, NEW j \in 1 .. n, s[i] = s[j] PROVE i = j
      BY <1>1, <1>2, <1>4, <2>1
    <2> QED
      BY <1>2, <2>1 DEF Injection, IsInjective
  <1>6. Cardinality(1 .. n) = n
    BY <1>1, FS_Interval
  <1>7. s \in Surjection(1 .. n, rows)
    BY <1>5, <1>6, FS_Injection DEF n
  <1>8. \A m \in rows : \E i \in DOMAIN s : s[i] = m
    BY <1>2, <1>7 DEF Surjection
  <1> QED
    BY <1>1, <1>2, <1>3, <1>4, <1>8 DEF n

-----------------------------------------------------------------------------
(* Types.                                                                  *)

LEMMA InitTyped == Init => TypeOK /\ Busy
  <1> SUFFICES ASSUME Init PROVE TypeOK /\ Busy
    OBVIOUS
  <1>1. N \in Nat /\ 1 \in 1 .. N + 1 /\ IsFiniteSet({})
    BY ConstantsAssumption, FS_EmptySet
  <1>2. TypeOK
    BY <1>1, NothingInEmpty DEF Init, TypeOK
  <1>3. Busy
    BY <1>1 DEF Init, Busy
  <1> QED
    BY <1>2, <1>3

LEMMA SpendTyped ==
    ASSUME TypeOK, NEW kind \in {"locks", "faults"}, Spend(kind)
    PROVE  used' \in [{"locks", "faults"} -> Nat]
  BY DEF TypeOK, Spend

LEMMA DirectIsMessage == \A e \in Events : Direct(e) \in Message
  BY DEF Direct, Message

LEMMA TypedStep == TypeOK /\ Busy /\ [Next]_vars => TypeOK' /\ Busy'
  <1> SUFFICES ASSUME TypeOK, Busy, [Next]_vars PROVE TypeOK' /\ Busy'
    OBVIOUS
  <1>0. N \in Nat /\ \A e \in Events : e \in 1 .. N + 1 /\ e + 1 \in 1 .. N + 1
    BY ConstantsAssumption DEF Events
  <1> USE DEF consumerVars, drainVars, tableVars, listenVars
  <1>1. CASE LockExists
    BY <1>1 DEF LockExists, TypeOK, Busy
  <1>2. CASE InsertStaged
    <2>1. [row |-> nextRow, event |-> next] \in Message
      BY <1>2 DEF InsertStaged, TypeOK, Busy, Message
    <2>2. TypeOK'
      BY <1>2, <2>1 DEF InsertStaged, TypeOK
    <2>3. Busy'
      BY <1>2, FS_AddElement DEF InsertStaged, Busy
    <2> QED
      BY <2>2, <2>3
  <1>3. CASE Produce
    <2>1. Append(nbuf, Direct(next)) \in Seq(Message)
      BY <1>3, DirectIsMessage, Appended DEF Produce, TypeOK, Busy
    <2>2. TypeOK'
      BY <1>3, <2>1 DEF Produce, TypeOK
    <2>3. Busy'
      BY <1>3 DEF Produce, Busy
    <2> QED
      BY <2>2, <2>3
  <1>4. CASE CommitOffset
    <2>1. next + 1 \in 1 .. N + 1
      BY <1>0, <1>4 DEF CommitOffset, Busy
    <2>2. TypeOK'
      BY <1>4, <2>1 DEF CommitOffset, TypeOK
    <2>3. Busy'
      BY <1>4 DEF CommitOffset, Busy
    <2> QED
      BY <2>2, <2>3
  <1>5. CASE RoutingFails
    <2>1. /\ next + 1 \in 1 .. N + 1 /\ next \in Events
          /\ used' \in [{"locks", "faults"} -> Nat]
      BY <1>0, <1>5, SpendTyped DEF RoutingFails
    <2>2. TypeOK'
      BY <1>5, <2>1 DEF RoutingFails, TypeOK
    <2>3. Busy'
      BY <1>5 DEF RoutingFails, Busy
    <2> QED
      BY <2>2, <2>3
  <1>6. CASE SweepOnce
    BY <1>6 DEF SweepOnce, TypeOK, Busy, Tasks
  <1>7. ASSUME NEW t \in Tasks, OnNotify(t) PROVE TypeOK' /\ Busy'
    BY <1>7 DEF OnNotify, TypeOK, Busy
  <1>8. ASSUME NEW t \in Tasks, SelectStaged(t) PROVE TypeOK' /\ Busy'
    <2>1. PICK rows \in InStagedOrder(staged) : todo' = [todo EXCEPT ![t] = rows]
      BY <1>8 DEF SelectStaged
    <2>2. rows \in Seq(Message) /\ (staged # {} => rows # <<>>)
      BY <2>1, SelectedRows DEF TypeOK, Busy
    <2>3. TypeOK'
      BY <1>8, <2>1, <2>2 DEF SelectStaged, TypeOK
    <2>4. Busy'
      BY <1>8, <2>1, <2>2 DEF SelectStaged, TypeOK, Busy
    <2> QED
      BY <2>3, <2>4
  <1>9. ASSUME NEW t \in Tasks, Publish(t) PROVE TypeOK' /\ Busy'
    <2>1. Head(todo[t]) \in Message
      BY <1>9, Shortened DEF Publish, TypeOK, Busy
    <2>2. Append(dbuf, Head(todo[t])) \in Seq(Message)
      BY <2>1, Appended DEF TypeOK
    <2>3. TypeOK'
      BY <1>9, <2>2 DEF Publish, TypeOK
    <2>4. Busy'
      BY <1>9 DEF Publish, TypeOK, Busy
    <2> QED
      BY <2>3, <2>4
  <1>10. ASSUME NEW t \in Tasks, DeleteStaged(t) PROVE TypeOK' /\ Busy'
    <2>1. /\ Tail(todo[t]) \in Seq(Message)
          /\ Len(todo[t]) # 1 => Tail(todo[t]) # <<>>
      BY <1>10, Shortened DEF DeleteStaged, TypeOK, Busy
    <2>2. TypeOK'
      BY <1>10, <2>1 DEF DeleteStaged, TypeOK
    <2>3. IsFiniteSet(staged')
      BY <1>10, FS_RemoveElement DEF DeleteStaged, Busy
    <2>4. Busy'
      BY <1>10, <2>1, <2>3 DEF DeleteStaged, TypeOK, Busy
    <2> QED
      BY <2>2, <2>4
  <1>11. ASSUME NEW t \in Tasks, DrainRaises(t) PROVE TypeOK' /\ Busy'
    <2>1. used' \in [{"locks", "faults"} -> Nat]
      BY <1>11, SpendTyped DEF DrainRaises
    <2>2. TypeOK'
      BY <1>11, <2>1, NothingInEmpty DEF DrainRaises, TypeOK
    <2>3. Busy'
      BY <1>11 DEF DrainRaises, TypeOK, Busy
    <2> QED
      BY <2>2, <2>3
  <1>12. CASE ListenerConnects
    BY <1>12 DEF ListenerConnects, TypeOK, Busy
  <1>13. CASE ListenerDrops
    <2>1. used' \in [{"locks", "faults"} -> Nat]
      BY <1>13, SpendTyped DEF ListenerDrops
    <2> QED
      BY <1>13, <2>1 DEF ListenerDrops, TypeOK, Busy
  <1>14. CASE DeliverRouted
    <2>1. Append(topic, Head(nbuf)) \in Seq(Message) /\ Tail(nbuf) \in Seq(Message)
      BY <1>14, Shortened, Appended DEF DeliverRouted, TypeOK
    <2> QED
      BY <1>14, <2>1 DEF DeliverRouted, TypeOK, Busy
  <1>15. CASE DeliverDrained
    <2>1. Append(topic, Head(dbuf)) \in Seq(Message) /\ Tail(dbuf) \in Seq(Message)
      BY <1>15, Shortened, Appended DEF DeliverDrained, TypeOK
    <2> QED
      BY <1>15, <2>1 DEF DeliverDrained, TypeOK, Busy
  <1>16. CASE DeliveryFails
    <2>1. used' \in [{"locks", "faults"} -> Nat]
      BY <1>16, SpendTyped DEF DeliveryFails
    <2>2. ASSUME NEW buf \in Seq(Message), buf # <<>>
          PROVE  Head(buf).event \in Events /\ Tail(buf) \in Seq(Message)
      BY <2>2, Shortened DEF Message
    <2>3. TypeOK'
      <3>1. lost' \subseteq Events \X {"skipped", "undelivered", "crashed"}
        <4>1. PICK buf \in {nbuf, dbuf} :
                  buf # <<>> /\ lost' = lost \cup {<<Head(buf).event, "undelivered">>}
          BY <1>16 DEF DeliveryFails
        <4>2. Head(buf).event \in Events
          BY <2>2, <4>1 DEF TypeOK
        <4> QED
          BY <4>1, <4>2 DEF TypeOK
      <3>2. nbuf' \in Seq(Message) /\ dbuf' \in Seq(Message)
        BY <1>16, <2>2 DEF DeliveryFails, TypeOK
      <3> QED
        BY <1>16, <2>1, <3>1, <3>2 DEF DeliveryFails, TypeOK
    <2>4. Busy'
      BY <1>16 DEF DeliveryFails, Busy
    <2> QED
      BY <2>3, <2>4
  <1>17. CASE Crash
    <2>1. used' \in [{"locks", "faults"} -> Nat]
      BY <1>17, SpendTyped DEF Crash
    <2>2. EventsIn(Queued) \subseteq Events
      <3>1. \A m \in Queued : m \in Message
        BY DEF Queued, Range, TypeOK
      <3> QED
        BY <3>1 DEF EventsIn, Message
    <2>3. TypeOK'
      BY <1>17, <2>1, <2>2, NothingInEmpty DEF Crash, TypeOK
    <2>4. Busy'
      BY <1>17 DEF Crash, Busy
    <2> QED
      BY <2>3, <2>4
  <1>18. CASE TakeLock \/ ReleaseLock
    <2>1. used' \in [{"locks", "faults"} -> Nat]
      BY <1>18, SpendTyped DEF TakeLock, ReleaseLock, TypeOK
    <2>2. Busy' /\ lockRow' \in BOOLEAN /\ notified' \in BOOLEAN
      BY <1>18 DEF TakeLock, ReleaseLock, TypeOK, Busy
    <2> QED
      BY <1>18, <2>1, <2>2 DEF TakeLock, ReleaseLock, TypeOK
  <1>19. CASE UNCHANGED vars
    BY <1>19 DEF vars, TypeOK, Busy
  <1> QED
    BY <1>1, <1>2, <1>3, <1>4, <1>5, <1>6, <1>7, <1>8, <1>9, <1>10, <1>11, <1>12, <1>13,
       <1>14, <1>15, <1>16, <1>17, <1>18, <1>19 DEF Next, Consumer, Drain

\* Every reachable state of routing and draining is well typed.
THEOREM StagingTypeCorrect == Spec => []TypeOK
  <1>1. Spec => [](TypeOK /\ Busy)
    BY InitTyped, TypedStep, PTL DEF Spec
  <1> QED
    BY <1>1, PTL

-----------------------------------------------------------------------------
(* No event is forgotten.                                                  *)

LEMMA InitAccounted == Init => Accounted
  <1> SUFFICES ASSUME Init PROVE Accounted
    OBVIOUS
  <1>1. 1 .. next - 1 = {}
    BY DEF Init
  <1> QED
    BY <1>1 DEF Init, Accounted

\* What is queued, in the topic or given up.
LEMMA SentIs ==
    Sent = {m.event : m \in Range(nbuf)} \cup {m.event : m \in Range(dbuf)}
              \cup {m.event : m \in Range(topic)} \cup {l[1] : l \in lost}
  BY DEF Sent, EventsIn, Queued

LEMMA SentWas ==
    Sent' = {m.event : m \in Range(nbuf')} \cup {m.event : m \in Range(dbuf')}
              \cup {m.event : m \in Range(topic')} \cup {l[1] : l \in lost'}
  BY DEF Sent, EventsIn, Queued

LEMMA SentGrows == TypeOK /\ Busy /\ [Next]_vars => Sent \subseteq Sent'
  <1> SUFFICES ASSUME TypeOK, Busy, [Next]_vars PROVE Sent \subseteq Sent'
    OBVIOUS
  <1> USE DEF consumerVars, drainVars, tableVars, listenVars
  <1>1. CASE UNCHANGED <<nbuf, dbuf, topic>> /\ lost \subseteq lost'
    BY <1>1, SentIs, SentWas
  <1>2. CASE Produce
    <2>1. Range(nbuf') = Range(nbuf) \cup {Direct(next)}
      BY <1>2, DirectIsMessage, AppendedRows DEF Produce, TypeOK, Busy
    <2> QED
      BY <1>2, <2>1, SentIs, SentWas DEF Produce
  <1>3. ASSUME NEW t \in Tasks, Publish(t) PROVE Sent \subseteq Sent'
    <2>1. Head(todo[t]) \in Message
      BY <1>3, Shortened DEF Publish, TypeOK, Busy
    <2>2. Range(dbuf') = Range(dbuf) \cup {Head(todo[t])}
      BY <1>3, <2>1, AppendedRows DEF Publish, TypeOK
    <2> QED
      BY <1>3, <2>2, SentIs, SentWas DEF Publish
  <1>4. CASE DeliverRouted
    <2>1. /\ Range(topic') = Range(topic) \cup {Head(nbuf)}
          /\ Range(nbuf) = {Head(nbuf)} \cup Range(nbuf')
      BY <1>4, Shortened, ShortenedRows, AppendedRows DEF DeliverRouted, TypeOK
    <2> QED
      BY <1>4, <2>1, SentIs, SentWas DEF DeliverRouted
  <1>5. CASE DeliverDrained
    <2>1. /\ Range(topic') = Range(topic) \cup {Head(dbuf)}
          /\ Range(dbuf) = {Head(dbuf)} \cup Range(dbuf')
      BY <1>5, Shortened, ShortenedRows, AppendedRows DEF DeliverDrained, TypeOK
    <2> QED
      BY <1>5, <2>1, SentIs, SentWas DEF DeliverDrained
  <1>6. CASE DeliveryFails
    <2>1. ASSUME NEW buf \in Seq(Message), buf # <<>>,
                 lost' = lost \cup {<<Head(buf).event, "undelivered">>}
          PROVE  {m.event : m \in Range(buf)}
                    \subseteq {m.event : m \in Range(Tail(buf))} \cup {l[1] : l \in lost'}
      <3>1. Range(buf) = {Head(buf)} \cup Range(Tail(buf))
        BY <2>1, ShortenedRows
      <3>2. Head(buf).event \in {l[1] : l \in lost'}
        <4> DEFINE l == <<Head(buf).event, "undelivered">>
        <4>1. l \in lost' /\ l[1] = Head(buf).event
          BY <2>1
        <4> QED
          BY <4>1
      <3> QED
        BY <3>1, <3>2
    <2>2. CASE /\ nbuf # <<>> /\ nbuf' = Tail(nbuf) /\ UNCHANGED dbuf
               /\ lost' = lost \cup {<<Head(nbuf).event, "undelivered">>}
      BY <1>6, <2>1, <2>2, SentIs, SentWas DEF DeliveryFails, TypeOK
    <2>3. CASE /\ dbuf # <<>> /\ dbuf' = Tail(dbuf) /\ UNCHANGED nbuf
               /\ lost' = lost \cup {<<Head(dbuf).event, "undelivered">>}
      BY <1>6, <2>1, <2>3, SentIs, SentWas DEF DeliveryFails, TypeOK
    <2> QED
      BY <1>6, <2>2, <2>3 DEF DeliveryFails
  <1>7. CASE Crash
    <2>1. \A e \in EventsIn(Queued) : e \in {l[1] : l \in lost'}
      <3> SUFFICES ASSUME NEW e \in EventsIn(Queued) PROVE e \in {l[1] : l \in lost'}
        OBVIOUS
      <3> DEFINE l == <<e, "crashed">>
      <3>1. l \in lost' /\ l[1] = e
        BY <1>7 DEF Crash
      <3> QED
        BY <3>1
    <2>2. lost \subseteq lost' /\ topic' = topic
      BY <1>7 DEF Crash
    <2>3. /\ {m.event : m \in Range(nbuf)} \subseteq EventsIn(Queued)
          /\ {m.event : m \in Range(dbuf)} \subseteq EventsIn(Queued)
      BY DEF EventsIn, Queued
    <2> QED
      BY <2>1, <2>2, <2>3, SentIs, SentWas
  <1> QED
    BY <1>1, <1>2, <1>3, <1>4, <1>5, <1>6, <1>7
    DEF Next, Consumer, Drain, vars, LockExists, InsertStaged, CommitOffset, RoutingFails,
        SweepOnce, OnNotify, SelectStaged, DeleteStaged, DrainRaises, ListenerConnects,
        ListenerDrops, TakeLock, ReleaseLock

\* A row is deleted when its event has been sent.
LEMMA AccountGrows ==
    TypeOK /\ Busy /\ Accounted /\ [Next]_vars
        => EventsIn(staged) \cup Sent \subseteq EventsIn(staged') \cup Sent'
  <1> SUFFICES ASSUME TypeOK, Busy, Accounted, [Next]_vars, Sent \subseteq Sent'
               PROVE  EventsIn(staged) \cup Sent \subseteq EventsIn(staged') \cup Sent'
    BY SentGrows
  <1> USE DEF consumerVars, drainVars, tableVars, listenVars
  <1>1. CASE staged \subseteq staged'
    BY <1>1 DEF EventsIn
  <1>2. ASSUME NEW t \in Tasks, DeleteStaged(t)
        PROVE  EventsIn(staged) \cup Sent \subseteq EventsIn(staged') \cup Sent'
    <2>1. Head(todo[t]).event \in Sent'
      BY <1>2 DEF DeleteStaged, Accounted
    <2>2. staged \subseteq staged' \cup {Head(todo[t])}
      BY <1>2 DEF DeleteStaged
    <2> QED
      BY <2>1, <2>2 DEF EventsIn
  <1> QED
    BY <1>1, <1>2
    DEF Next, Consumer, Drain, vars, LockExists, InsertStaged, Produce, CommitOffset,
        RoutingFails, SweepOnce, OnNotify, SelectStaged, Publish, DrainRaises,
        ListenerConnects, ListenerDrops, DeliverRouted, DeliverDrained, DeliveryFails, Crash,
        TakeLock, ReleaseLock

LEMMA AccountedStep == TypeOK /\ Busy /\ Accounted /\ [Next]_vars => Accounted'
  <1> SUFFICES ASSUME TypeOK, Busy, Accounted, [Next]_vars PROVE Accounted'
    OBVIOUS
  <1> USE DEF consumerVars, drainVars, tableVars, listenVars
  <1>0. /\ Sent \subseteq Sent'
        /\ EventsIn(staged) \cup Sent \subseteq EventsIn(staged') \cup Sent'
        /\ N \in Nat
    BY SentGrows, AccountGrows, ConstantsAssumption
  <1>1. 1 .. next' - 1 \subseteq EventsIn(staged') \cup Sent'
    <2>1. CASE UNCHANGED next
      BY <1>0, <2>1 DEF Accounted
    <2>2. CASE CommitOffset \/ RoutingFails
      <3>1. next \in EventsIn(staged') \cup Sent'
        <4>1. CASE CommitOffset
          BY <1>0, <4>1 DEF CommitOffset, Accounted
        <4>2. CASE RoutingFails
          <5>1. <<next, "skipped">> \in lost'
            BY <4>2 DEF RoutingFails
          <5> QED
            BY <5>1, SentWas
        <4> QED
          BY <2>2, <4>1, <4>2
      <3>2. next' = next + 1 /\ next \in Nat
        BY <1>0, <2>2 DEF CommitOffset, RoutingFails, TypeOK
      <3>3. \A e \in 1 .. next' - 1 : e = next \/ e \in 1 .. next - 1
        BY <3>2
      <3> QED
        BY <1>0, <3>1, <3>3 DEF Accounted
    <2> QED
      BY <2>1, <2>2
      DEF Next, Consumer, Drain, vars, LockExists, InsertStaged, Produce, SweepOnce, OnNotify,
          SelectStaged, Publish, DeleteStaged, DrainRaises, ListenerConnects, ListenerDrops,
          DeliverRouted, DeliverDrained, DeliveryFails, Crash, TakeLock, ReleaseLock
  <1>2. ASSUME cons' = "routed" PROVE next' \in EventsIn(staged') \cup Sent'
    <2>1. CASE UNCHANGED <<next, cons>>
      BY <1>0, <1>2, <2>1 DEF Accounted
    <2>2. CASE InsertStaged
      <3> DEFINE m == [row |-> nextRow, event |-> next]
      <3>1. m \in staged' /\ m.event = next /\ next' = next
        BY <2>2 DEF InsertStaged
      <3> QED
        BY <3>1 DEF EventsIn
    <2>3. CASE Produce
      <3>1. Direct(next) \in Range(nbuf') /\ next' = next /\ Direct(next).event = next
        BY <2>3, DirectIsMessage, AppendedRows DEF Produce, TypeOK, Busy, Direct
      <3> QED
        BY <3>1, SentWas
    <2> QED
      BY <1>2, <2>1, <2>2, <2>3
      DEF Next, Consumer, Drain, vars, LockExists, CommitOffset, RoutingFails, SweepOnce,
          OnNotify, SelectStaged, Publish, DeleteStaged, DrainRaises, ListenerConnects,
          ListenerDrops, DeliverRouted, DeliverDrained, DeliveryFails, Crash, TakeLock,
          ReleaseLock
  <1>3. ASSUME NEW t \in Tasks, drain'[t] = "deleting" PROVE Head(todo'[t]).event \in Sent'
    <2>1. CASE drain[t] = "deleting" /\ todo'[t] = todo[t]
      BY <1>0, <2>1 DEF Accounted
    <2>2. ASSUME NEW s \in Tasks, Publish(s) PROVE Head(todo'[t]).event \in Sent'
      <3>1. CASE s # t
        BY <1>3, <2>1, <2>2, <3>1 DEF Publish, TypeOK
      <3>2. CASE s = t
        <4>1. Head(todo[t]) \in Message
          BY <2>2, <3>2, Shortened DEF Publish, TypeOK, Busy
        <4>2. Head(todo[t]) \in Range(dbuf') /\ todo' = todo
          BY <2>2, <3>2, <4>1, AppendedRows DEF Publish, TypeOK
        <4> QED
          BY <4>2, SentWas
      <3> QED
        BY <3>1, <3>2
    <2>3. ASSUME NEW s \in Tasks, SelectStaged(s) \/ DeleteStaged(s) \/ DrainRaises(s) \/ OnNotify(s)
          PROVE  drain[t] = "deleting" /\ todo'[t] = todo[t]
      <3>1. drain'[s] # "deleting"
        BY <2>3 DEF SelectStaged, DeleteStaged, DrainRaises, OnNotify, TypeOK
      <3>2. s # t
        BY <1>3, <3>1
      <3> QED
        BY <1>3, <2>3, <3>2 DEF SelectStaged, DeleteStaged, DrainRaises, OnNotify, TypeOK
    <2>4. CASE SweepOnce
      BY <1>3, <2>1, <2>4 DEF SweepOnce, TypeOK, Tasks
    <2>5. CASE Crash
      BY <1>3, <2>5 DEF Crash
    <2> QED
      BY <1>3, <2>1, <2>2, <2>3, <2>4, <2>5
      DEF Next, Consumer, Drain, vars, LockExists, InsertStaged, Produce, CommitOffset,
          RoutingFails, ListenerConnects, ListenerDrops, DeliverRouted, DeliverDrained,
          DeliveryFails, TakeLock, ReleaseLock
  <1> QED
    BY <1>1, <1>2, <1>3 DEF Accounted

\* An event whose raw offset is committed is in the topic, staged or queued, unless the
\* service gave it up.
THEOREM NoEventForgotten == Spec => []CommittedEventsAccounted
  <1>1. Accounted => CommittedEventsAccounted
    BY DEF Accounted, CommittedEventsAccounted, Sent, EventsIn
  <1> QED
    BY <1>1, InitTyped, TypedStep, InitAccounted, AccountedStep, PTL DEF Spec

-----------------------------------------------------------------------------
(* The order of staged rows in the topic.                                  *)

\* Nothing is said of a topic whose broker has refused a message.
InOrder == RowsTracked /\ TopicOrdered /\ QueueOrdered /\ TasksOrdered

LEMMA InitOrder == Init => OrderInv
  <1> SUFFICES ASSUME Init PROVE InOrder
    BY DEF OrderInv, InOrder
  <1>1. /\ Rows(topic) = {} /\ Rows(dbuf) = {} /\ \A t \in Tasks : todo[t] = <<>>
        /\ DOMAIN <<>> = {} /\ staged = {} /\ nextRow = 1
        /\ \A t \in Tasks : drain[t] # "deleting"
        /\ topic = <<>> /\ dbuf = <<>> /\ nbuf = <<>>
    BY NothingInEmpty DEF Init
  <1>2. KnownRows = {}
    BY <1>1, NothingInEmpty DEF KnownRows, StagedRows, Selected, Logged
  <1> QED
    BY <1>1, <1>2 DEF InOrder, RowsTracked, TopicOrdered, QueueOrdered, TasksOrdered

LEMMA KnownTypes ==
    ASSUME TypeOK
    PROVE  /\ KnownRows \subseteq Nat
           /\ \A p \in DOMAIN topic : topic[p].row \in KnownRows
           /\ \A p \in DOMAIN dbuf : dbuf[p].row \in KnownRows
           /\ \A t \in Tasks : \A p \in DOMAIN todo[t] : todo[t][p].row \in KnownRows
           /\ \A m \in staged : m.row \in KnownRows
  <1>1. /\ \A p \in DOMAIN topic : topic[p].row \in Nat
        /\ \A p \in DOMAIN dbuf : dbuf[p].row \in Nat
        /\ \A t \in Tasks : \A p \in DOMAIN todo[t] : todo[t][p].row \in Nat
        /\ \A m \in staged : m.row \in Nat
    <2>1. \A log \in Seq(Message) : \A p \in DOMAIN log : log[p] \in Message
      OBVIOUS
    <2>2. /\ \A p \in DOMAIN topic : topic[p] \in Message
          /\ \A p \in DOMAIN dbuf : dbuf[p] \in Message
          /\ \A t \in Tasks : \A p \in DOMAIN todo[t] : todo[t][p] \in Message
          /\ \A m \in staged : m \in Message
      BY <2>1 DEF TypeOK
    <2>3. \A m \in Message : m.row \in Nat
      BY DEF Message
    <2> QED
      BY <2>2, <2>3
  <1> QED
    BY <1>1 DEF KnownRows, StagedRows, Selected, Logged, Rows

\* Steps that add at most a staged row or a direct message, or throw work away.
LEMMA OrderKept ==
    ASSUME TypeOK, InOrder, UNCHANGED topic, dbuf' \in {dbuf, <<>>},
           \A t \in Tasks : todo'[t] \in {todo[t], <<>>},
           dbuf' # dbuf => \A t \in Tasks : todo'[t] = <<>>,
           staged \subseteq staged', nextRow' \in {nextRow, nextRow + 1},
           \A m \in staged' : m \in staged \/ (m.row = nextRow /\ nextRow' = nextRow + 1),
           \A p \in DOMAIN nbuf' : nbuf'[p].row = 0,
           \A t \in Tasks : drain'[t] = "deleting" =>
               drain[t] = "deleting" /\ todo'[t] = todo[t] /\ dbuf' = dbuf
    PROVE  InOrder'
  <1>1. nextRow \in Nat /\ nextRow > 0 /\ \A k \in KnownRows : k \in Nat /\ k < nextRow
    BY KnownTypes DEF InOrder, RowsTracked, TypeOK
  <1>2. \A t \in Tasks : \A p \in DOMAIN todo'[t] :
            p \in DOMAIN todo[t] /\ todo'[t] = todo[t] /\ dbuf' = dbuf
    BY NothingInEmpty
  <1>3. \A p \in DOMAIN dbuf' : p \in DOMAIN dbuf /\ dbuf' = dbuf
    BY NothingInEmpty
  <1>4. \A k \in KnownRows' : k \in KnownRows \/ (k = nextRow /\ nextRow' = nextRow + 1)
    <2>1. \A k \in StagedRows' : k \in StagedRows \/ (k = nextRow /\ nextRow' = nextRow + 1)
      BY DEF StagedRows
    <2>2. \A k \in Selected' : k \in Selected
      BY <1>2 DEF Selected, Rows
    <2>3. \A k \in Logged' : k \in Logged
      BY <1>3 DEF Logged, Rows
    <2> QED
      BY <2>1, <2>2, <2>3 DEF KnownRows
  <1>5. TopicOrdered'
    <2> SUFFICES ASSUME NEW p \in DOMAIN topic, NEW k \in KnownRows', 0 < k, k < topic[p].row
                 PROVE  Precedes(k, topic, p)
      BY DEF TopicOrdered, Precedes
    <2>1. k \in KnownRows
      BY <1>1, <1>4, KnownTypes
    <2> QED
      BY <2>1 DEF InOrder, TopicOrdered
  <1>6. QueueOrdered'
    <2> SUFFICES ASSUME NEW p \in DOMAIN dbuf, dbuf' = dbuf, NEW k \in KnownRows', 0 < k,
                        k < dbuf[p].row
                 PROVE  k \in Rows(topic) \/ Precedes(k, dbuf, p)
      BY <1>3 DEF QueueOrdered, Precedes, Rows
    <2>1. k \in KnownRows
      BY <1>1, <1>4, KnownTypes
    <2> QED
      BY <2>1 DEF InOrder, QueueOrdered
  <1>7. TasksOrdered'
    <2> SUFFICES ASSUME NEW t \in Tasks, NEW p \in DOMAIN todo[t], todo'[t] = todo[t],
                        dbuf' = dbuf, NEW k \in KnownRows', 0 < k, k < todo[t][p].row
                 PROVE  k \in Logged \/ Precedes(k, todo[t], p)
      BY <1>2 DEF TasksOrdered, Precedes, Logged, Rows
    <2>1. k \in KnownRows
      BY <1>1, <1>4, KnownTypes
    <2> QED
      BY <2>1 DEF InOrder, TasksOrdered
  <1>8. RowsTracked'
    <2>1. nextRow' > 0 /\ \A k \in KnownRows' : k < nextRow'
      BY <1>1, <1>4
    <2>2. dbuf' = dbuf => Logged' = Logged
      BY DEF Logged, Rows
    <2>3. \A t \in Tasks : \A p \in DOMAIN todo'[t] :
              todo'[t][p] \in staged' \/ todo'[t][p].row \in Logged'
      BY <1>2, <2>2 DEF InOrder, RowsTracked
    <2>4. \A t \in Tasks : drain'[t] = "deleting" => Head(todo'[t]).row \in Logged'
      BY <2>2 DEF InOrder, RowsTracked
    <2> QED
      BY <2>1, <2>3, <2>4 DEF RowsTracked
  <1> QED
    BY <1>5, <1>6, <1>7, <1>8 DEF InOrder

\* The snapshot of a drain holds every row that is not published yet.
LEMMA OrderSelect ==
    ASSUME TypeOK, Busy, InOrder, NEW t \in Tasks, SelectStaged(t)
    PROVE  InOrder'
  <1>1. PICK s \in InStagedOrder(staged) : todo' = [todo EXCEPT ![t] = s]
    BY DEF SelectStaged
  <1>2. /\ s \in Seq(Message) /\ DOMAIN s = 1 .. Cardinality(staged)
        /\ \A i, j \in DOMAIN s : i < j => s[i].row < s[j].row
        /\ \A i \in DOMAIN s : s[i] \in staged /\ s[i].row \in Nat
        /\ \A m \in staged : \E i \in DOMAIN s : s[i] = m
        /\ \A i \in DOMAIN s : i \in Nat
    <2>1. staged \subseteq Message /\ IsFiniteSet(staged) /\ Cardinality(staged) \in Nat
      BY FS_CardinalityType DEF TypeOK, Busy
    <2>2. /\ s \in Seq(Message) /\ DOMAIN s = 1 .. Cardinality(staged)
          /\ \A i, j \in DOMAIN s : i < j => s[i].row < s[j].row
          /\ \A i \in DOMAIN s : s[i] \in staged
          /\ \A m \in staged : \E i \in DOMAIN s : s[i] = m
      BY <2>1, SelectedRows
    <2>3. \A m \in staged : m.row \in Nat
      BY <2>1 DEF Message
    <2> QED
      BY <2>1, <2>2, <2>3
  <1>3. /\ UNCHANGED <<topic, dbuf, nbuf, staged, nextRow>>
        /\ \A u \in Tasks : todo'[u] = IF u = t THEN s ELSE todo[u]
        /\ \A u \in Tasks : drain'[u] = "deleting" => u # t /\ drain[u] = "deleting"
    BY <1>1 DEF SelectStaged, TypeOK, consumerVars, tableVars
  <1>4. Logged' = Logged /\ StagedRows' = StagedRows
    BY <1>3 DEF Logged, StagedRows, Rows
  <1>5. KnownRows' \subseteq KnownRows
    <2>1. ASSUME NEW k \in Selected' PROVE k \in Selected \/ k \in StagedRows
      <3>1. PICK u \in Tasks : \E i \in DOMAIN todo'[u] : todo'[u][i].row = k
        BY DEF Selected, Rows
      <3>2. PICK i \in DOMAIN todo'[u] : todo'[u][i].row = k
        BY <3>1
      <3>3. CASE u = t
        BY <1>2, <1>3, <3>2, <3>3 DEF StagedRows
      <3>4. CASE u # t
        BY <1>3, <3>2, <3>4 DEF Selected, Rows
      <3> QED
        BY <3>3, <3>4
    <2> QED
      BY <1>4, <2>1 DEF KnownRows
  <1>6. TopicOrdered' /\ QueueOrdered'
    BY <1>3, <1>5 DEF InOrder, TopicOrdered, QueueOrdered, Precedes, Rows
  <1>7. ASSUME NEW p \in DOMAIN s, NEW k \in KnownRows, 0 < k, k < s[p].row
        PROVE  k \in Logged \/ Precedes(k, s, p)
    <2>1. ASSUME NEW m \in staged, m.row = k PROVE Precedes(k, s, p)
      <3>1. PICK q \in DOMAIN s : s[q] = m
        BY <1>2
      <3>2. q < p
        BY <1>2, <1>7, <2>1, <3>1
      <3> QED
        BY <2>1, <3>1, <3>2 DEF Precedes
    <2>2. CASE k \in Selected
      <3>1. PICK u \in Tasks : \E x \in DOMAIN todo[u] : todo[u][x].row = k
        BY <2>2 DEF Selected, Rows
      <3>2. PICK x \in DOMAIN todo[u] : todo[u][x].row = k
        BY <3>1
      <3>3. todo[u][x] \in staged \/ k \in Logged
        BY <3>2 DEF InOrder, RowsTracked
      <3> QED
        BY <2>1, <3>2, <3>3
    <2>3. CASE k \in StagedRows
      BY <2>1, <2>3 DEF StagedRows
    <2> QED
      BY <2>2, <2>3 DEF KnownRows
  <1>8. TasksOrdered'
    <2> SUFFICES ASSUME NEW u \in Tasks, NEW p \in DOMAIN todo'[u], NEW k \in KnownRows', 0 < k,
                        k < todo'[u][p].row
                 PROVE  k \in Logged' \/ Precedes(k, todo'[u], p)
      BY DEF TasksOrdered, Precedes
    <2>1. CASE u = t
      BY <1>3, <1>4, <1>5, <1>7, <2>1
    <2>2. CASE u # t
      BY <1>3, <1>4, <1>5, <2>2 DEF InOrder, TasksOrdered
    <2> QED
      BY <2>1, <2>2
  <1>9. RowsTracked'
    <2>1. nextRow' > 0 /\ \A k \in KnownRows' : k < nextRow'
      BY <1>3, <1>5 DEF InOrder, RowsTracked
    <2>2. \A u \in Tasks : \A p \in DOMAIN todo'[u] :
              todo'[u][p] \in staged' \/ todo'[u][p].row \in Logged'
      BY <1>2, <1>3, <1>4 DEF InOrder, RowsTracked
    <2>3. \A u \in Tasks : drain'[u] = "deleting" => Head(todo'[u]).row \in Logged'
      BY <1>3, <1>4 DEF InOrder, RowsTracked
    <2> QED
      BY <1>3, <2>1, <2>2, <2>3 DEF InOrder, RowsTracked
  <1> QED
    BY <1>6, <1>8, <1>9 DEF InOrder

LEMMA OrderPublish ==
    ASSUME TypeOK, Busy, InOrder, NEW t \in Tasks, Publish(t)
    PROVE  InOrder'
  <1> DEFINE m == Head(todo[t])
             n == Len(dbuf)
  <1>1. todo[t] \in Seq(Message) /\ todo[t] # <<>> /\ dbuf \in Seq(Message)
    BY DEF Publish, TypeOK, Busy
  <1>2. m \in Message /\ 1 \in DOMAIN todo[t] /\ m = todo[t][1] /\ DOMAIN todo[t] = 1 .. Len(todo[t])
    BY <1>1, Shortened
  <1>3. /\ dbuf' = Append(dbuf, m)
        /\ UNCHANGED <<topic, todo, nbuf, staged, nextRow>>
        /\ \A u \in Tasks : drain'[u] = IF u = t THEN "deleting" ELSE drain[u]
    BY DEF Publish, TypeOK, consumerVars, tableVars
  <1>4. /\ n \in Nat /\ DOMAIN dbuf = 1 .. n /\ DOMAIN dbuf' = 1 .. n + 1
        /\ dbuf'[n + 1] = m /\ \A i \in 1 .. n : dbuf'[i] = dbuf[i]
        /\ Rows(dbuf') = Rows(dbuf) \cup {m.row}
    BY <1>1, <1>2, <1>3, Appended, AppendedRows
  <1> HIDE DEF m, n
  <1>5. Logged' = Logged \cup {m.row} /\ KnownRows' = KnownRows
    <2>1. Rows(topic)' = Rows(topic) /\ Rows(dbuf)' = Rows(dbuf')
      BY <1>3 DEF Rows
    <2>2. m.row \in Selected
      BY <1>2 DEF Selected, Rows
    <2>3. Selected' = Selected /\ StagedRows' = StagedRows
      BY <1>3 DEF Selected, Rows, StagedRows
    <2> QED
      BY <1>4, <2>1, <2>2, <2>3 DEF Logged, KnownRows
  <1>6. TopicOrdered'
    BY <1>3, <1>5 DEF InOrder, TopicOrdered, Precedes
  <1>7. QueueOrdered'
    <2> SUFFICES ASSUME NEW p \in DOMAIN dbuf', NEW k \in KnownRows, 0 < k, k < dbuf'[p].row
                 PROVE  k \in Rows(topic) \/ Precedes(k, dbuf', p)
      BY <1>3, <1>5 DEF QueueOrdered, Precedes, Rows
    <2>1. CASE p \in 1 .. n
      <3>1. k \in Rows(topic) \/ Precedes(k, dbuf, p)
        BY <1>4, <2>1 DEF InOrder, QueueOrdered
      <3> QED
        BY <1>4, <3>1 DEF Precedes
    <2>2. CASE p = n + 1
      <3>1. k < todo[t][1].row
        BY <1>2, <1>4, <2>2
      <3>2. ~Precedes(k, todo[t], 1)
        BY <1>2, <1>1 DEF Precedes
      <3>3. k \in Rows(topic) \/ k \in Rows(dbuf)
        BY <1>2, <3>1, <3>2 DEF InOrder, TasksOrdered, Logged
      <3>4. k \in Rows(dbuf) => Precedes(k, dbuf', p)
        BY <1>4, <2>2 DEF Rows, Precedes
      <3> QED
        BY <3>3, <3>4
    <2> QED
      BY <1>4, <2>1, <2>2
  <1>8. TasksOrdered'
    BY <1>3, <1>5 DEF InOrder, TasksOrdered, Precedes
  <1>9. RowsTracked'
    <2>1. \A u \in Tasks : drain'[u] = "deleting" => Head(todo'[u]).row \in Logged'
      BY <1>3, <1>5 DEF InOrder, RowsTracked, m
    <2> QED
      BY <1>3, <1>5, <2>1 DEF InOrder, RowsTracked
  <1> QED
    BY <1>6, <1>7, <1>8, <1>9 DEF InOrder

\* A row is deleted after it has been published.
LEMMA OrderDelete ==
    ASSUME TypeOK, Busy, InOrder, NEW t \in Tasks, DeleteStaged(t)
    PROVE  InOrder'
  <1> DEFINE old == todo[t]
             rest == Tail(todo[t])
             n == Len(todo[t])
  <1>1. /\ old[1].row \in Logged /\ Head(old) = old[1] /\ DOMAIN rest = 1 .. n - 1
        /\ DOMAIN old = 1 .. n /\ n \in Nat
        /\ \A i \in 1 .. n - 1 : rest[i] = old[i + 1]
    <2>1. old \in Seq(Message) /\ old # <<>>
      BY DEF DeleteStaged, TypeOK, Busy
    <2>2. Head(old).row \in Logged
      BY DEF DeleteStaged, InOrder, RowsTracked
    <2> QED
      BY <2>1, <2>2, Shortened
  <1>2. /\ UNCHANGED <<topic, dbuf, nbuf, nextRow>>
        /\ staged' = staged \ {old[1]}
        /\ \A u \in Tasks : todo'[u] = IF u = t THEN rest ELSE todo[u]
        /\ \A u \in Tasks : drain'[u] = "deleting" => u # t /\ drain[u] = "deleting"
    BY <1>1 DEF DeleteStaged, TypeOK, consumerVars
  <1> HIDE DEF rest, n
  <1>3. \A i \in DOMAIN rest : i + 1 \in DOMAIN old /\ rest[i] = old[i + 1] /\ i \in Nat
    BY <1>1
  <1>4. Logged' = Logged
    BY <1>2 DEF Logged, Rows
  <1>5. KnownRows' \subseteq KnownRows
    <2>1. StagedRows' \subseteq StagedRows
      BY <1>2 DEF StagedRows
    <2>2. ASSUME NEW k \in Selected' PROVE k \in Selected
      <3>1. PICK u \in Tasks : \E i \in DOMAIN todo'[u] : todo'[u][i].row = k
        BY DEF Selected, Rows
      <3>2. PICK i \in DOMAIN todo'[u] : todo'[u][i].row = k
        BY <3>1
      <3>3. \E x \in DOMAIN todo[u] : todo[u][x].row = k
        BY <1>2, <1>3, <3>2
      <3> QED
        BY <3>3 DEF Selected, Rows
    <2> QED
      BY <1>4, <2>1, <2>2 DEF KnownRows
  <1>6. TopicOrdered' /\ QueueOrdered'
    BY <1>2, <1>5 DEF InOrder, TopicOrdered, QueueOrdered, Precedes, Rows
  <1>7. ASSUME NEW p \in DOMAIN rest, NEW k \in KnownRows, 0 < k, k < rest[p].row
        PROVE  k \in Logged \/ Precedes(k, rest, p)
    <2>1. k \in Logged \/ Precedes(k, old, p + 1)
      BY <1>3, <1>7 DEF InOrder, TasksOrdered
    <2>2. ASSUME NEW q \in DOMAIN old, q < p + 1, old[q].row = k
          PROVE  k \in Logged \/ Precedes(k, rest, p)
      <3>1. CASE q = 1
        BY <1>1, <2>2, <3>1
      <3>2. CASE q # 1
        <4>1. q - 1 \in DOMAIN rest /\ q - 1 < p /\ rest[q - 1] = old[q]
          BY <1>1, <1>3, <2>2, <3>2
        <4> QED
          BY <2>2, <4>1 DEF Precedes
      <3> QED
        BY <3>1, <3>2
    <2> QED
      BY <2>1, <2>2 DEF Precedes
  <1>8. TasksOrdered'
    <2> SUFFICES ASSUME NEW u \in Tasks, NEW p \in DOMAIN todo'[u], NEW k \in KnownRows', 0 < k,
                        k < todo'[u][p].row
                 PROVE  k \in Logged' \/ Precedes(k, todo'[u], p)
      BY DEF TasksOrdered, Precedes
    <2>1. CASE u = t
      BY <1>2, <1>4, <1>5, <1>7, <2>1
    <2>2. CASE u # t
      BY <1>2, <1>4, <1>5, <2>2 DEF InOrder, TasksOrdered
    <2> QED
      BY <2>1, <2>2
  <1>9. RowsTracked'
    <2>1. nextRow' > 0 /\ \A k \in KnownRows' : k < nextRow'
      BY <1>2, <1>5 DEF InOrder, RowsTracked
    <2>2. ASSUME NEW u \in Tasks, NEW x \in DOMAIN todo[u]
          PROVE  todo[u][x] \in staged' \/ todo[u][x].row \in Logged'
      BY <1>1, <1>2, <1>4 DEF InOrder, RowsTracked
    <2>3. ASSUME NEW u \in Tasks, NEW p \in DOMAIN todo'[u]
          PROVE  todo'[u][p] \in staged' \/ todo'[u][p].row \in Logged'
      BY <1>2, <1>3, <2>2, <2>3
    <2>4. \A u \in Tasks : drain'[u] = "deleting" => Head(todo'[u]).row \in Logged'
      BY <1>2, <1>4 DEF InOrder, RowsTracked
    <2> QED
      BY <1>2, <2>1, <2>3, <2>4 DEF InOrder, RowsTracked
  <1> QED
    BY <1>6, <1>8, <1>9 DEF InOrder

\* A message of the consumer's queue is no staged row.
LEMMA OrderDeliverRouted ==
    ASSUME TypeOK, InOrder, DeliverRouted
    PROVE  InOrder'
  <1> DEFINE m == Head(nbuf)
             n == Len(topic)
             rest == Tail(nbuf)
  <1>1. /\ nbuf \in Seq(Message) /\ nbuf # <<>> /\ topic \in Seq(Message)
        /\ topic' = Append(topic, m) /\ nbuf' = rest
        /\ UNCHANGED <<drain, todo, dbuf, staged, nextRow>>
    BY DEF DeliverRouted, TypeOK, drainVars, tableVars
  <1>2. /\ m \in Message /\ m.row = 0 /\ \A i \in DOMAIN rest : rest[i].row = 0
    <2>1. \A i \in DOMAIN nbuf : nbuf[i].row = 0
      BY DEF InOrder, RowsTracked
    <2> QED
      BY <1>1, <2>1, Shortened
  <1>3. /\ n \in Nat /\ DOMAIN topic = 1 .. n /\ DOMAIN topic' = 1 .. n + 1
        /\ topic'[n + 1] = m /\ \A i \in 1 .. n : topic'[i] = topic[i]
        /\ Rows(topic') = Rows(topic) \cup {0}
    BY <1>1, <1>2, Appended, AppendedRows
  <1> HIDE DEF m, n, rest
  <1>4. Logged' = Logged \cup {0} /\ KnownRows' = KnownRows \cup {0}
    <2>1. Rows(topic)' = Rows(topic') /\ Rows(dbuf)' = Rows(dbuf)
      BY <1>1 DEF Rows
    <2>2. Selected' = Selected /\ StagedRows' = StagedRows
      BY <1>1 DEF Selected, Rows, StagedRows
    <2> QED
      BY <1>3, <2>1, <2>2 DEF Logged, KnownRows
  <1>5. TopicOrdered'
    <2> SUFFICES ASSUME NEW p \in DOMAIN topic', NEW k \in KnownRows', 0 < k, k < topic'[p].row
                 PROVE  Precedes(k, topic', p)
      BY DEF TopicOrdered, Precedes
    <2>1. k \in Nat /\ k \in KnownRows
      BY <1>4, KnownTypes
    <2>2. p \in 1 .. n
      BY <1>2, <1>3, <2>1
    <2>3. Precedes(k, topic, p)
      BY <1>3, <2>1, <2>2 DEF InOrder, TopicOrdered
    <2> QED
      BY <1>3, <2>2, <2>3 DEF Precedes
  <1>6. QueueOrdered'
    <2> SUFFICES ASSUME NEW p \in DOMAIN dbuf, NEW k \in KnownRows', 0 < k, k < dbuf[p].row
                 PROVE  k \in Rows(topic') \/ Precedes(k, dbuf, p)
      BY <1>1 DEF QueueOrdered, Precedes, Rows
    <2>1. k \in KnownRows
      BY <1>4
    <2> QED
      BY <1>3, <2>1 DEF InOrder, QueueOrdered
  <1>7. TasksOrdered'
    <2> SUFFICES ASSUME NEW t \in Tasks, NEW p \in DOMAIN todo[t], NEW k \in KnownRows', 0 < k,
                        k < todo[t][p].row
                 PROVE  k \in Logged' \/ Precedes(k, todo[t], p)
      BY <1>1 DEF TasksOrdered, Precedes
    <2>1. k \in KnownRows
      BY <1>4
    <2> QED
      BY <1>4, <2>1 DEF InOrder, TasksOrdered
  <1>8. RowsTracked'
    <2>1. \A t \in Tasks : \A p \in DOMAIN todo[t] :
              todo[t][p] \in staged \/ todo[t][p].row \in Logged'
      BY <1>4 DEF InOrder, RowsTracked
    <2>2. \A t \in Tasks : drain[t] = "deleting" => Head(todo[t]).row \in Logged'
      BY <1>4 DEF InOrder, RowsTracked
    <2>3. nextRow > 0 /\ \A k \in KnownRows' : k < nextRow
      BY <1>4 DEF InOrder, RowsTracked
    <2> QED
      BY <1>1, <1>2, <2>1, <2>2, <2>3 DEF RowsTracked
  <1> QED
    BY <1>5, <1>6, <1>7, <1>8 DEF InOrder

\* The head of the drain's queue has every earlier row in the topic before it.
LEMMA OrderDeliverDrained ==
    ASSUME TypeOK, InOrder, DeliverDrained
    PROVE  InOrder'
  <1> DEFINE m == Head(dbuf)
             n == Len(topic)
             rest == Tail(dbuf)
             d == Len(dbuf)
  <1>1. /\ dbuf \in Seq(Message) /\ dbuf # <<>> /\ topic \in Seq(Message)
        /\ topic' = Append(topic, m) /\ dbuf' = rest
        /\ UNCHANGED <<drain, todo, nbuf, staged, nextRow>>
    BY DEF DeliverDrained, TypeOK, consumerVars, tableVars
  <1>2. /\ m \in Message /\ m = dbuf[1] /\ d \in Nat /\ 1 \in DOMAIN dbuf
        /\ DOMAIN dbuf = 1 .. d /\ DOMAIN rest = 1 .. d - 1
        /\ \A i \in 1 .. d - 1 : rest[i] = dbuf[i + 1]
        /\ Rows(dbuf) = {m.row} \cup Rows(rest)
    BY <1>1, Shortened, ShortenedRows
  <1>3. /\ n \in Nat /\ DOMAIN topic = 1 .. n /\ DOMAIN topic' = 1 .. n + 1
        /\ topic'[n + 1] = m /\ \A i \in 1 .. n : topic'[i] = topic[i]
        /\ Rows(topic') = Rows(topic) \cup {m.row}
    BY <1>1, <1>2, Appended, AppendedRows
  <1> HIDE DEF m, n, rest, d
  <1>4. Logged' = Logged /\ KnownRows' = KnownRows
    <2>1. Rows(topic)' = Rows(topic') /\ Rows(dbuf)' = Rows(rest)
      BY <1>1 DEF Rows
    <2>2. Selected' = Selected /\ StagedRows' = StagedRows
      BY <1>1 DEF Selected, Rows, StagedRows
    <2> QED
      BY <1>2, <1>3, <2>1, <2>2 DEF Logged, KnownRows
  <1>5. TopicOrdered'
    <2> SUFFICES ASSUME NEW p \in DOMAIN topic', NEW k \in KnownRows, 0 < k, k < topic'[p].row
                 PROVE  Precedes(k, topic', p)
      BY <1>4 DEF TopicOrdered, Precedes
    <2>1. CASE p \in 1 .. n
      <3>1. Precedes(k, topic, p)
        BY <1>3, <2>1 DEF InOrder, TopicOrdered
      <3> QED
        BY <1>3, <3>1 DEF Precedes
    <2>2. CASE p = n + 1
      <3>1. k < dbuf[1].row
        BY <1>2, <1>3, <2>2
      <3>2. ~Precedes(k, dbuf, 1)
        BY <1>2 DEF Precedes
      <3>3. k \in Rows(topic)
        BY <1>2, <3>1, <3>2 DEF InOrder, QueueOrdered
      <3> QED
        BY <1>3, <2>2, <3>3 DEF Rows, Precedes
    <2> QED
      BY <1>3, <2>1, <2>2
  <1>6. QueueOrdered'
    <2> SUFFICES ASSUME NEW p \in DOMAIN rest, NEW k \in KnownRows, 0 < k, k < rest[p].row
                 PROVE  k \in Rows(topic') \/ Precedes(k, rest, p)
      BY <1>1, <1>4 DEF QueueOrdered, Precedes, Rows
    <2>1. p \in 1 .. d - 1 /\ p + 1 \in DOMAIN dbuf /\ rest[p] = dbuf[p + 1]
      BY <1>2
    <2>2. k \in Rows(topic) \/ Precedes(k, dbuf, p + 1)
      BY <2>1 DEF InOrder, QueueOrdered
    <2>3. ASSUME NEW q \in DOMAIN dbuf, q < p + 1, dbuf[q].row = k
          PROVE  k \in Rows(topic') \/ Precedes(k, rest, p)
      <3>1. CASE q = 1
        BY <1>2, <1>3, <2>3, <3>1
      <3>2. CASE q # 1
        <4>1. q - 1 \in DOMAIN rest /\ q - 1 < p /\ rest[q - 1] = dbuf[q]
          BY <1>2, <2>1, <2>3, <3>2
        <4> QED
          BY <2>3, <4>1 DEF Precedes
      <3> QED
        BY <3>1, <3>2
    <2> QED
      BY <1>3, <2>2, <2>3 DEF Precedes
  <1>7. TasksOrdered' /\ RowsTracked'
    <2>1. TasksOrdered'
      BY <1>1, <1>4 DEF InOrder, TasksOrdered, Precedes
    <2>2. RowsTracked'
      BY <1>1, <1>4 DEF InOrder, RowsTracked
    <2> QED
      BY <2>1, <2>2
  <1> QED
    BY <1>5, <1>6, <1>7 DEF InOrder

LEMMA OrderStep == TypeOK /\ Busy /\ OrderInv /\ [Next]_vars => OrderInv'
  <1> SUFFICES ASSUME TypeOK, Busy, OrderInv, [Next]_vars,
                      \A l \in lost' : l[2] # "undelivered"
               PROVE  InOrder'
    BY DEF OrderInv, InOrder
  <1> USE DEF consumerVars, drainVars, tableVars, listenVars
  <1>0. /\ todo \in [Tasks -> Seq(Message)] /\ drain \in [Tasks -> {"idle", "due", "publishing", "deleting"}]
        /\ nextRow \in Nat
    BY DEF TypeOK
  <1>1. lost \subseteq lost' /\ ~DeliveryFails
    <2>1. lost \subseteq lost'
      BY DEF Next, Consumer, Drain, vars, LockExists, InsertStaged, Produce, CommitOffset,
             RoutingFails, SweepOnce, OnNotify, SelectStaged, Publish, DeleteStaged, DrainRaises,
             ListenerConnects, ListenerDrops, DeliverRouted, DeliverDrained, DeliveryFails, Crash,
             TakeLock, ReleaseLock
    <2>2. ASSUME NEW e, lost' = lost \cup {<<e, "undelivered">>} PROVE FALSE
      <3>1. <<e, "undelivered">> \in lost' /\ <<e, "undelivered">>[2] = "undelivered"
        BY <2>2
      <3> QED
        BY <3>1
    <2> QED
      BY <2>1, <2>2 DEF DeliveryFails
  <1>2. InOrder
    BY <1>1 DEF OrderInv, InOrder
  <1>3. \A p \in DOMAIN nbuf : nbuf[p].row = 0
    BY <1>2 DEF InOrder, RowsTracked
  <1>4. CASE InsertStaged
    <2>1. \A m \in staged' : m \in staged \/ (m.row = nextRow /\ nextRow' = nextRow + 1)
      BY <1>4 DEF InsertStaged
    <2>2. /\ UNCHANGED <<topic, dbuf, todo, drain, nbuf>>
          /\ staged \subseteq staged' /\ nextRow' = nextRow + 1
      BY <1>4 DEF InsertStaged
    <2> QED
      BY <1>2, <1>3, <2>1, <2>2, OrderKept
  <1>5. CASE Produce
    <2>1. /\ UNCHANGED <<topic, dbuf, todo, drain, staged, nextRow>>
          /\ nbuf' = Append(nbuf, Direct(next))
      BY <1>5 DEF Produce
    <2>2. \A p \in DOMAIN nbuf' : nbuf'[p].row = 0
      <3>1. Direct(next) \in Message /\ Direct(next).row = 0 /\ nbuf \in Seq(Message)
        BY <1>5, DirectIsMessage DEF Produce, Busy, Direct, TypeOK
      <3> DEFINE m == Direct(next)
                 n == Len(nbuf)
      <3>2. /\ n \in Nat /\ DOMAIN nbuf = 1 .. n /\ DOMAIN nbuf' = 1 .. n + 1
            /\ nbuf'[n + 1] = m /\ \A i \in 1 .. n : nbuf'[i] = nbuf[i]
        BY <2>1, <3>1, Appended
      <3> HIDE DEF m, n
      <3>3. m.row = 0
        BY <3>1 DEF m
      <3> QED
        BY <1>3, <3>2, <3>3
    <2> QED
      BY <1>2, <2>1, <2>2, OrderKept
  <1>6. CASE \/ LockExists \/ CommitOffset \/ RoutingFails \/ ListenerConnects
             \/ ListenerDrops \/ TakeLock \/ ReleaseLock \/ UNCHANGED vars
    <2>1. UNCHANGED <<topic, dbuf, todo, drain, nbuf, staged, nextRow>>
      BY <1>6 DEF LockExists, CommitOffset, RoutingFails, ListenerConnects, ListenerDrops,
                  TakeLock, ReleaseLock, vars
    <2> QED
      BY <1>2, <1>3, <2>1, OrderKept
  <1>7. ASSUME NEW t \in Tasks, SweepOnce \/ OnNotify(t) PROVE InOrder'
    <2>1. /\ UNCHANGED <<topic, dbuf, todo, nbuf, staged, nextRow>>
          /\ \A u \in Tasks : drain'[u] = "deleting" => drain[u] = "deleting"
      BY <1>0, <1>7 DEF SweepOnce, OnNotify
    <2> QED
      BY <1>2, <1>3, <2>1, OrderKept
  <1>8. ASSUME NEW t \in Tasks, DrainRaises(t) PROVE InOrder'
    <2>1. /\ UNCHANGED <<topic, dbuf, nbuf, staged, nextRow>>
          /\ \A u \in Tasks : todo'[u] \in {todo[u], <<>>}
          /\ \A u \in Tasks : drain'[u] = "deleting" =>
                 drain[u] = "deleting" /\ todo'[u] = todo[u]
      BY <1>0, <1>8 DEF DrainRaises
    <2> QED
      BY <1>2, <1>3, <2>1, OrderKept
  <1>9. CASE Crash
    <2>1. /\ UNCHANGED <<topic, staged, nextRow>> /\ nbuf' = <<>> /\ dbuf' = <<>>
          /\ \A u \in Tasks : todo'[u] = <<>> /\ drain'[u] # "deleting"
      BY <1>9 DEF Crash
    <2>2. \A p \in DOMAIN nbuf' : nbuf'[p].row = 0
      BY <2>1, NothingInEmpty
    <2> QED
      BY <1>2, <2>1, <2>2, OrderKept
  <1>10. ASSUME NEW t \in Tasks, Drain(t) PROVE InOrder'
    BY <1>2, <1>10, OrderSelect, OrderPublish, OrderDelete DEF Drain
  <1>11. CASE DeliverRouted \/ DeliverDrained
    BY <1>2, <1>11, OrderDeliverRouted, OrderDeliverDrained
  <1> QED
    BY <1>1, <1>4, <1>5, <1>6, <1>7, <1>8, <1>9, <1>10, <1>11 DEF Next, Consumer, Tasks

NatLess == {ss \in Nat \X Nat : ss[1] < ss[2]}

\* The natural numbers are well ordered.
LEMMA NatLessIsWellFounded == IsWellFoundedOn(NatLess, Nat)
  BY NatLessThanWellFounded, Zenon DEF OpToRel, NatLess

LEMMA FirstIsLeast ==
    ASSUME NEW log \in Seq(Message), NEW p \in DOMAIN log
    PROVE  /\ FirstOf(log[p].row, log) \in {i \in DOMAIN log : log[i].row = log[p].row}
           /\ \A q \in DOMAIN log : log[q].row = log[p].row => FirstOf(log[p].row, log) <= q
  <1> DEFINE places == {i \in DOMAIN log : log[i].row = log[p].row}
  <1>1. places \subseteq Nat /\ places # {}
    OBVIOUS
  <1>2. PICK d \in places : \A e \in places : ~(<<e, d>> \in NatLess)
    BY <1>1, NatLessIsWellFounded, WFMin
  <1>3. ASSUME NEW e \in places PROVE d <= e
    <2>1. ~(<<e, d>> \in NatLess) /\ e \in Nat /\ d \in Nat
      BY <1>1, <1>2
    <2>2. ~(e < d)
      BY <2>1 DEF NatLess
    <2> QED
      BY <2>1, <2>2
  <1>4. \E x \in places : \A y \in places : x <= y
    BY <1>3
  <1>5. Min(places) \in places /\ \A y \in places : Min(places) <= y
    BY <1>4 DEF Min
  <1> QED
    BY <1>5 DEF FirstOf

\* Concurrent, interrupted and repeated drains: a row is published for the first time
\* before every later row.
THEOREM RowsDrainInOrder == Spec => []DrainedInOrder
  <1>1. ASSUME TypeOK, OrderInv PROVE DrainedInOrder
    <2> SUFFICES ASSUME \A l \in lost : l[2] # "undelivered",
                        NEW i \in DOMAIN topic, NEW j \in DOMAIN topic,
                        0 < topic[i].row, topic[i].row < topic[j].row
                 PROVE  FirstOf(topic[i].row, topic) < FirstOf(topic[j].row, topic)
      BY DEF DrainedInOrder
    <2>1. topic \in Seq(Message) /\ DOMAIN topic \subseteq Nat
      <3>1. topic \in Seq(Message)
        BY <1>1 DEF TypeOK
      <3> QED
        BY <3>1
    <2> DEFINE f(p) == FirstOf(topic[p].row, topic)
    <2>2. /\ f(i) \in Nat /\ f(j) \in DOMAIN topic /\ f(j) \in Nat
          /\ topic[f(j)].row = topic[j].row
          /\ \A q \in DOMAIN topic : topic[q].row = topic[i].row => f(i) <= q
      BY <2>1, FirstIsLeast
    <2>3. topic[i].row \in KnownRows
      BY <1>1, KnownTypes
    <2>4. PICK q \in DOMAIN topic : q < f(j) /\ topic[q].row = topic[i].row
      BY <1>1, <2>2, <2>3 DEF OrderInv, TopicOrdered, Precedes
    <2>5. f(i) <= q /\ q \in Nat
      BY <2>1, <2>2, <2>4
    <2> HIDE DEF f
    <2>6. f(i) < f(j)
      BY <2>2, <2>4, <2>5
    <2> QED
      BY <2>6 DEF f
  <1> QED
    BY <1>1, InitTyped, TypedStep, InitOrder, OrderStep, PTL DEF Spec
=============================================================================
