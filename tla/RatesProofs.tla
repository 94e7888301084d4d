----------------------------- MODULE RatesProofs -----------------------------
(***************************************************************************)
(* Machine-checked proofs about the historical rows, for any dates and     *)
(* rates, any number of writers, and any number of publications; and about *)
(* the polled rows, for any dates and rates, when one process polls.       *)
(***************************************************************************)
EXTENDS RatesProperties, SequenceTheorems, WellFoundedInduction, TLAPS

-----------------------------------------------------------------------------
(* SlotIn. *)

NatLess == {ss \in Nat \X Nat : ss[1] < ss[2]}

\* The natural numbers are well ordered.
LEMMA NatLessIsWellFounded == IsWellFoundedOn(NatLess, Nat)
  BY NatLessThanWellFounded, Zenon DEF OpToRel, NatLess

\* ORDER BY valid_from ASC LIMIT 1 finds a row if there is one.
LEMMA FirstIsEarliest ==
    ASSUME NEW rows \in SUBSET HistoricalRows, rows # {}
    PROVE  First(rows) \in rows /\ \A y \in rows : First(rows).from <= y.from
  <1> DEFINE dates == {x.from : x \in rows}
  <1>1. dates \subseteq Nat /\ dates # {}
    BY RatesAssumption DEF HistoricalRows
  <1>2. PICK d \in dates : \A e \in dates : ~(<<e, d>> \in NatLess)
    BY <1>1, NatLessIsWellFounded, WFMin
  <1>3. ASSUME NEW e \in dates PROVE d <= e
    <2>1. ~(<<e, d>> \in NatLess) /\ e \in Nat /\ d \in Nat
      BY <1>1, <1>2
    <2>2. ~(e < d)
      BY <2>1 DEF NatLess
    <2> QED
      BY <2>1, <2>2
  <1>4. \E x \in rows : \A y \in rows : x.from <= y.from
    BY <1>3
  <1> QED
    BY <1>4 DEF First

\* There is a row that is still valid, unless there is none at all.
Open(rows) == rows = {} \/ \E x \in rows : x.to = Forever

\* What an upsert of rate r at t makes of the rows.
SlottedIn(rows, after, t, r) ==
    /\ after \subseteq HistoricalRows
    /\ Tiles(after)
    /\ Open(after)
    /\ \A x \in rows : \E y \in after : y.from = x.from
    /\ \E y \in after : y.from = t
    /\ \A y \in after :
          IF y.from = t THEN y.rate = r
                        ELSE \E x \in rows : x.from = y.from /\ x.rate = y.rate

\* With an open row before t, some row covers t or begins there.
LEMMA NeverOrphaned ==
    ASSUME NEW rows \in SUBSET HistoricalRows, NEW t \in Times, Open(rows)
    PROVE  ~Orphaned(rows, t)
  BY RatesAssumption DEF Orphaned, Open, Covering, HistoricalRows

\* Case 1: a row begins at t; its rate is corrected in place.
LEMMA CorrectedTiles ==
    ASSUME NEW rows \in SUBSET HistoricalRows, Tiles(rows), Open(rows),
           NEW t \in Times, NEW r \in Rates,
           NEW x \in rows, x.from = t
    PROVE  SlottedIn(rows, (rows \ {x}) \cup {Corrected(x, r)}, t, r)
  <1> DEFINE y == Corrected(x, r)
             after == (rows \ {x}) \cup {y}
  <1>1. y \in HistoricalRows /\ y.from = t /\ y.to = x.to /\ y.rate = r
    BY DEF Corrected, RatesEqual, HistoricalRows
  <1>2. \A u \in rows \ {x} : u.from # t
    <2>1. \A u \in rows : u.from \in Nat /\ u.to \in Nat /\ u.from < u.to
      BY RatesAssumption DEF Tiles, HistoricalRows, Ends
    <2>2. \A u \in rows \ {x} : u.to <= x.from \/ x.to <= u.from
      BY DEF Tiles
    <2> QED
      BY <2>1, <2>2
  <1>3. \A u \in rows : \E v \in after : v.from = u.from /\ v.to = u.to
    BY <1>1
  <1>4. \A v \in after : \E u \in rows : u.from = v.from /\ u.to = v.to
    BY <1>1
  <1>5. Tiles(after)
    <2>1. \A u, v \in after : u # v => u.to <= v.from \/ v.to <= u.from
      BY <1>1 DEF Tiles
    <2>2. \A v \in after : v.from < v.to /\ (v.to = Forever \/ \E u \in after : u.from = v.to)
      BY <1>3, <1>4 DEF Tiles
    <2> QED
      BY <2>1, <2>2 DEF Tiles
  <1>6. Open(after)
    BY <1>3 DEF Open
  <1>7. \A v \in after :
           IF v.from = t THEN v.rate = r
                         ELSE \E u \in rows : u.from = v.from /\ u.rate = v.rate
    BY <1>1, <1>2
  <1> QED
    BY <1>1, <1>3, <1>5, <1>6, <1>7 DEF SlottedIn

\* Case 2: a row covers t; it is split.
LEMMA SplitTiles ==
    ASSUME NEW rows \in SUBSET HistoricalRows, Tiles(rows), Open(rows),
           NEW t \in Times, NEW r \in Rates,
           NEW x \in rows, x.from < t, t < x.to
    PROVE  SlottedIn(rows,
               (rows \ {x}) \cup {[x EXCEPT !.to = t], [from |-> t, to |-> x.to, rate |-> r]}, t, r)
  <1> DEFINE left  == [x EXCEPT !.to = t]
             right == [from |-> t, to |-> x.to, rate |-> r]
             after == (rows \ {x}) \cup {left, right}
  <1>1. /\ left \in HistoricalRows /\ right \in HistoricalRows
        /\ left.from = x.from /\ left.to = t /\ left.rate = x.rate
        /\ right.from = t /\ right.to = x.to /\ right.rate = r
    BY DEF HistoricalRows, Ends
  <1>2. /\ \A u \in HistoricalRows : u.from \in Nat /\ u.to \in Nat
        /\ t \in Nat
    BY RatesAssumption DEF HistoricalRows, Ends
  <1>3. \A u \in rows \ {x} : u.to <= x.from \/ x.to <= u.from
    BY DEF Tiles
  <1>4. \A u \in rows : u.from < u.to
    BY DEF Tiles
  <1>5. \A u \in rows \ {x} : u.from # t
    BY <1>2, <1>3, <1>4
  <1>6. \A u \in rows : \E v \in after : v.from = u.from
    BY <1>1
  <1>7. Tiles(after)
    <2>1. \A u, v \in after : u # v => u.to <= v.from \/ v.to <= u.from
      <3>1. \A u \in rows \ {x} : /\ u.to <= left.from \/ left.to <= u.from
                                  /\ u.to <= right.from \/ right.to <= u.from
        BY <1>1, <1>2, <1>3
      <3>2. left.to <= right.from
        BY <1>1, <1>2
      <3> QED
        BY <3>1, <3>2 DEF Tiles
    <2>2. \A v \in after : v.from < v.to
      BY <1>1, <1>4
    <2>3. \A v \in after : v.to = Forever \/ \E u \in after : u.from = v.to
      <3>1. \A u \in rows : u.to = Forever \/ \E v \in after : v.from = u.to
        BY <1>6 DEF Tiles
      <3>2. right \in after /\ right.from = left.to
        BY <1>1
      <3>3. right.to = Forever \/ \E u \in after : u.from = right.to
        BY <1>1, <3>1
      <3> HIDE DEF left, right
      <3> QED
        BY <3>1, <3>2, <3>3
    <2> QED
      BY <2>1, <2>2, <2>3 DEF Tiles
  <1>8. Open(after)
    <2>1. PICK u \in rows : u.to = Forever
      BY DEF Open
    <2>2. CASE u = x
      BY <1>1, <2>1, <2>2 DEF Open
    <2>3. CASE u # x
      BY <2>1, <2>3 DEF Open
    <2> QED
      BY <2>2, <2>3
  <1>9. \A v \in after :
           IF v.from = t THEN v.rate = r
                         ELSE \E u \in rows : u.from = v.from /\ u.rate = v.rate
    <2>1. x.from # t
      BY <1>2
    <2>2. \A v \in rows \ {x} : v.from # t /\ \E u \in rows : u.from = v.from /\ u.rate = v.rate
      BY <1>5
    <2>3. left.from # t /\ \E u \in rows : u.from = left.from /\ u.rate = left.rate
      BY <1>1, <2>1
    <2> HIDE DEF left, right
    <2> QED
      BY <1>1, <2>2, <2>3
  <1> QED
    BY <1>1, <1>6, <1>7, <1>8, <1>9 DEF SlottedIn

\* Case 3: t precedes the first later row y, and nothing covers it.
LEMMA PrependTiles ==
    ASSUME NEW rows \in SUBSET HistoricalRows, Tiles(rows), Open(rows),
           NEW t \in Times, NEW r \in Rates,
           \A u \in rows : u.from # t, Covering(rows, t) = {},
           NEW y \in rows, t < y.from,
           \A u \in rows : t < u.from => y.from <= u.from
    PROVE  SlottedIn(rows, rows \cup {[from |-> t, to |-> y.from, rate |-> r]}, t, r)
  <1> DEFINE new   == [from |-> t, to |-> y.from, rate |-> r]
             after == rows \cup {new}
  <1>1. /\ new \in HistoricalRows
        /\ new.from = t /\ new.to = y.from /\ new.rate = r
    BY DEF HistoricalRows, Ends
  <1>2. /\ \A u \in HistoricalRows : u.from \in Nat /\ u.to \in Nat
        /\ t \in Nat
    BY RatesAssumption DEF HistoricalRows, Ends
  <1>3. \A u \in rows : u.to <= new.from \/ new.to <= u.from
    BY <1>1, <1>2 DEF Covering
  <1>4. Tiles(after)
    <2>1. \A u, v \in after : u # v => u.to <= v.from \/ v.to <= u.from
      BY <1>3 DEF Tiles
    <2>2. \A v \in after : v.from < v.to /\ (v.to = Forever \/ \E u \in after : u.from = v.to)
      BY <1>1 DEF Tiles
    <2> QED
      BY <2>1, <2>2 DEF Tiles
  <1>5. Open(after)
    BY DEF Open
  <1>6. \A v \in after :
           IF v.from = t THEN v.rate = r
                         ELSE \E u \in rows : u.from = v.from /\ u.rate = v.rate
    BY <1>1
  <1> QED
    BY <1>1, <1>4, <1>5, <1>6 DEF SlottedIn
\* Case 4: there is no row at all.
LEMMA OnlyRowTiles ==
    ASSUME NEW t \in Times, NEW r \in Rates
    PROVE  SlottedIn({}, {[from |-> t, to |-> Forever, rate |-> r]}, t, r)
  BY RatesAssumption DEF SlottedIn, Tiles, Open, HistoricalRows, Ends

\* The slot-in logic, whatever the order of the dates: the rows still tile the time, t
\* has its new rate and every other date the one it had.
THEOREM SlotInIsSound ==
    ASSUME NEW rows \in SUBSET HistoricalRows, Tiles(rows), Open(rows),
           NEW t \in Times, NEW r \in Rates
    PROVE  SlottedIn(rows, SlotIn(rows, t, r), t, r)
  <1> DEFINE same  == {x \in rows : x.from = t}
             later == {x \in rows : x.from > t}
  <1>1. CASE same # {}
    <2> DEFINE x == CHOOSE x \in same : TRUE
    <2>1. x \in rows /\ x.from = t
      BY <1>1
    <2>2. SlotIn(rows, t, r) = (rows \ {x}) \cup {Corrected(x, r)}
      BY <1>1 DEF SlotIn
    <2> HIDE DEF x
    <2> QED
      BY <2>1, <2>2, CorrectedTiles
  <1>2. CASE same = {} /\ Covering(rows, t) # {}
    <2> DEFINE x == CHOOSE x \in Covering(rows, t) : TRUE
    <2>1. x \in rows /\ x.from < t /\ t < x.to
      BY <1>2 DEF Covering
    <2>2. SlotIn(rows, t, r) =
            (rows \ {x}) \cup {[x EXCEPT !.to = t], [from |-> t, to |-> x.to, rate |-> r]}
      BY <1>2 DEF SlotIn
    <2> HIDE DEF x
    <2> QED
      BY <2>1, <2>2, SplitTiles
  <1>3. CASE same = {} /\ Covering(rows, t) = {} /\ later # {}
    <2> DEFINE y == First(later)
    <2>1. y \in later /\ \A u \in later : y.from <= u.from
      BY <1>3, FirstIsEarliest
    <2>2. SlotIn(rows, t, r) = rows \cup {[from |-> t, to |-> y.from, rate |-> r]}
      BY <1>3 DEF SlotIn
    <2>3. /\ \A u \in rows : u.from # t
          /\ y \in rows /\ t < y.from
          /\ \A u \in rows : t < u.from => y.from <= u.from
      BY <1>3, <2>1, RatesAssumption DEF HistoricalRows
    <2> HIDE DEF y
    <2> QED
      BY <1>3, <2>2, <2>3, PrependTiles
  <1>4. CASE same = {} /\ Covering(rows, t) = {} /\ later = {}
    <2>1. rows = {}
      <3>1. \A x \in rows : x.from < t
        <4>1. \A x \in rows : x.from \in Nat /\ t \in Nat
          BY RatesAssumption DEF HistoricalRows
        <4>2. \A x \in rows : x.from # t /\ ~(x.from > t)
          BY <1>4
        <4> QED
          BY <4>1, <4>2
      <3> QED
        BY <1>4, <3>1, NeverOrphaned DEF Orphaned
    <2>2. SlotIn(rows, t, r) = {[from |-> t, to |-> Forever, rate |-> r]}
      BY <1>4, <2>1 DEF SlotIn
    <2> QED
      BY <2>1, <2>2, OnlyRowTiles
  <1> QED
    BY <1>1, <1>2, <1>3, <1>4

-----------------------------------------------------------------------------
(* The inductive invariant.                                                *)

\* The publication i is the last one of date d.
LatestAt(i, d) ==
    /\ published[i].at = d
    /\ \A j \in DOMAIN published : j > i => published[j].at # d

\* There is a row for each date that was published, with the rate published last.
PublishedRows ==
    /\ \A i \in DOMAIN published : \E x \in history : x.from = published[i].at
    /\ \A x \in history : \E i \in DOMAIN published :
          published[i].rate = x.rate /\ LatestAt(i, x.from)

\* What a historian has read is what the table holds, and nobody else has read.
ReadIsCurrent ==
    \A h \in Historians : pc[h] = "read" =>
        /\ read[h] = history
        /\ \A g \in Historians : pc[g] = "read" => g = h

HistoryInv ==
    /\ TypeOK
    /\ Tiles(history)
    /\ Open(history)
    /\ PublishedRows
    /\ ReadIsCurrent
    /\ OrphanGuardSilent

\* The empty table satisfies the invariant.
LEMMA HistoryInit == Init => HistoryInv
  <1> SUFFICES ASSUME Init PROVE HistoryInv
    OBVIOUS
  <1>1. (CHOOSE t \in Times : TRUE) \in Times /\ (CHOOSE r \in Rates : TRUE) \in Rates
    BY RatesAssumption
  <1>2. TypeOK
    BY <1>1, EmptySeq DEF Init, TypeOK, Writers
  <1>3. Tiles(history) /\ Open(history)
    BY DEF Init, Tiles, Open
  <1>4. PublishedRows
    BY DEF Init, PublishedRows
  <1>5. ReadIsCurrent /\ OrphanGuardSilent
    BY DEF Init, ReadIsCurrent, OrphanGuardSilent, Writers
  <1> QED
    BY <1>2, <1>3, <1>4, <1>5 DEF HistoryInv

\* A step that writes no historical row and takes nobody to "read" or "raised".
LEMMA HistoryKept ==
    ASSUME HistoryInv, TypeOK', UNCHANGED <<history, published, read>>,
           \A w \in Writers : pc'[w] \in {"read", "raised"} => pc'[w] = pc[w]
    PROVE  HistoryInv'
  <1>1. Tiles(history)' /\ Open(history)'
    BY DEF HistoryInv
  <1>2. PublishedRows'
    BY DEF HistoryInv, PublishedRows, LatestAt
  <1>3. ReadIsCurrent' /\ OrphanGuardSilent'
    BY DEF HistoryInv, ReadIsCurrent, OrphanGuardSilent, Writers
  <1> QED
    BY <1>1, <1>2, <1>3 DEF HistoryInv

\* Fetching a rate touches no row.
LEMMA FetchPreserves ==
    ASSUME HistoryInv, NEW w \in Writers, NEW t \in Times, NEW r \in Rates,
           Fetched(w, t, r), bankDate' \in Nat
    PROVE  HistoryInv'
  <1>1. TypeOK'
    BY DEF HistoryInv, TypeOK, Fetched, tableVars, ghostVars
  <1>2. \A v \in Writers : pc'[v] \in {"read", "raised"} => pc'[v] = pc[v]
    BY DEF HistoryInv, TypeOK, Fetched
  <1> QED
    BY <1>1, <1>2, HistoryKept DEF Fetched, tableVars, ghostVars

\* Giving a rate up leaves the table alone and releases the lock.
LEMMA AbortPreserves ==
    ASSUME HistoryInv, NEW w \in Writers, Abort(w)
    PROVE  HistoryInv'
  <1>1. TypeOK'
    BY DEF HistoryInv, TypeOK, Abort, tableVars, ghostVars
  <1>2. \A v \in Writers : pc'[v] \in {"read", "raised"} => pc'[v] = pc[v]
    BY DEF HistoryInv, TypeOK, Abort
  <1> QED
    BY <1>1, <1>2, HistoryKept DEF Abort, tableVars, ghostVars

\* A poller's snapshot.
LEMMA SelectPreserves ==
    ASSUME HistoryInv, NEW p \in Pollers, SelectOpen(p)
    PROVE  HistoryInv'
  <1>1. OpenRows \in SUBSET Nat
    BY LenProperties DEF OpenRows, HistoryInv, TypeOK
  <1>2. TypeOK'
    BY <1>1 DEF HistoryInv, TypeOK, SelectOpen, tableVars, ghostVars, Writers
  <1>3. \A v \in Writers : pc'[v] \in {"read", "raised"} => pc'[v] = pc[v]
    BY DEF HistoryInv, TypeOK, SelectOpen
  <1> QED
    BY <1>2, <1>3, HistoryKept DEF SelectOpen, tableVars, ghostVars

\* Bumping, closing and opening rows leaves a sequence of polled rows.
LEMMA PolledTyped ==
    ASSUME NEW rows \in Seq(PolledRows), NEW i \in DOMAIN rows, NEW t \in Times, NEW r \in Rates
    PROVE  /\ NewRow(t, r) \in PolledRows
           /\ [rows EXCEPT ![i] = Bumped(@, t)] \in Seq(PolledRows)
           /\ [rows EXCEPT ![i] = Closed(@, t)] \in Seq(PolledRows)
  <1>1. rows[i] \in PolledRows
    BY ElementOfSeq, LenProperties
  <1>2. /\ NewRow(t, r) \in PolledRows
        /\ Bumped(rows[i], t) \in PolledRows
        /\ Closed(rows[i], t) \in PolledRows
    BY <1>1 DEF PolledRows, NewRow, Bumped, Closed, Ends
  <1> QED
    BY <1>2, ExceptSeq, LenProperties

\* Polled rows are a sequence of their own.
LEMMA UpsertPolledPreserves ==
    ASSUME HistoryInv, NEW p \in Pollers, UpsertPolled(p)
    PROVE  HistoryInv'
  <1> DEFINE t       == at[p]
             current == seen[p] \cap OpenRows
  <1>1. t \in Times /\ rate[p] \in Rates /\ polled \in Seq(PolledRows)
    BY DEF HistoryInv, TypeOK, Writers
  <1>2. NewRow(t, rate[p]) \in PolledRows
    BY <1>1 DEF PolledRows, NewRow, Ends
  <1>3. polled' \in Seq(PolledRows)
    <2>1. CASE \E i \in current :
                 polled' = IF RatesEqual(polled[i], rate[p])
                           THEN [polled EXCEPT ![i] = Bumped(@, t)]
                           ELSE Append([polled EXCEPT ![i] = Closed(@, t)], NewRow(t, rate[p]))
      BY <1>1, <1>2, <2>1, PolledTyped, AppendProperties DEF OpenRows
    <2>2. CASE polled' = Append(polled, NewRow(t, rate[p]))
      BY <1>1, <1>2, <2>2, AppendProperties
    <2> QED
      BY <2>1, <2>2 DEF UpsertPolled
  <1>4. reported' \in Seq(Reports)
    <2>1. reported \in Seq(Reports) /\ [at |-> t, rate |-> rate[p]] \in Reports
      BY <1>1 DEF HistoryInv, TypeOK, Reports
    <2> QED
      BY <2>1, AppendProperties DEF UpsertPolled
  <1>5. TypeOK'
    BY <1>3, <1>4 DEF HistoryInv, TypeOK, UpsertPolled, Writers
  <1>6. \A v \in Writers : pc'[v] \in {"read", "raised"} => pc'[v] = pc[v]
    BY DEF HistoryInv, TypeOK, UpsertPolled
  <1> QED
    BY <1>5, <1>6, HistoryKept DEF UpsertPolled

\* The advisory lock is granted when nobody else has read.
LEMMA ReadPreserves ==
    ASSUME HistoryInv, NEW h \in Historians, ReadHistory(h)
    PROVE  HistoryInv'
  <1>1. TypeOK'
    BY DEF HistoryInv, TypeOK, ReadHistory, LockFree, tableVars, ghostVars, Writers
  <1>2. UNCHANGED <<history, published>>
    BY DEF ReadHistory, tableVars, ghostVars
  <1>3. Tiles(history)' /\ Open(history)' /\ PublishedRows'
    BY <1>2 DEF HistoryInv, PublishedRows, LatestAt
  <1>4. /\ \A g \in Historians : pc'[g] = IF g = h THEN "read" ELSE pc[g]
        /\ read'[h] = history
        /\ \A g \in Historians : pc[g] # "read"
    BY DEF HistoryInv, TypeOK, ReadHistory, LockFree, Writers
  <1>5. ReadIsCurrent'
    BY <1>2, <1>4 DEF ReadIsCurrent
  <1>6. OrphanGuardSilent'
    BY <1>4 DEF HistoryInv, OrphanGuardSilent
  <1> QED
    BY <1>1, <1>3, <1>5, <1>6 DEF HistoryInv

\* The upsert writes what SlotIn says and is the last publication of its date.
LEMMA UpsertHistoricalPreserves ==
    ASSUME HistoryInv, NEW h \in Historians, UpsertHistorical(h)
    PROVE  HistoryInv'
  <1> DEFINE t     == at[h]
             r     == rate[h]
             after == SlotIn(history, t, r)
             n     == Len(published)
             entry == [at |-> t, rate |-> r]
  <1>1. /\ t \in Times /\ r \in Rates /\ history \in SUBSET HistoricalRows
        /\ published \in Seq(Reports) /\ entry \in Reports
    BY DEF HistoryInv, TypeOK, Writers, Reports
  <1>2. read[h] = history /\ pc[h] = "read" /\ \A g \in Historians : pc[g] = "read" => g = h
    BY DEF HistoryInv, ReadIsCurrent, UpsertHistorical
  <1>3. SlottedIn(history, after, t, r)
    BY <1>1, SlotInIsSound DEF HistoryInv
  <1>4. ~Orphaned(read[h], t)
    BY <1>1, <1>2, NeverOrphaned DEF HistoryInv
  <1>5. /\ history' = after
        /\ published' = Append(published, entry)
        /\ pc' = [pc EXCEPT ![h] = "idle"]
        /\ UNCHANGED <<polled, at, rate, seen, read, bankDate, reported, used>>
    BY <1>2, <1>4 DEF UpsertHistorical
  <1>6. /\ published' \in Seq(Reports)
        /\ DOMAIN published = 1 .. n /\ DOMAIN published' = 1 .. n + 1 /\ n \in Nat
        /\ \A i \in 1 .. n : published'[i] = published[i]
        /\ published'[n + 1] = entry
    BY <1>1, <1>5, AppendProperties, LenProperties
  <1>7. TypeOK'
    BY <1>3, <1>5, <1>6 DEF HistoryInv, TypeOK, SlottedIn, Writers
  <1>8. Tiles(history)' /\ Open(history)'
    BY <1>3, <1>5 DEF SlottedIn
  <1>9. PublishedRows'
    <2>1. ASSUME NEW i \in DOMAIN published'
          PROVE  \E x \in after : x.from = published'[i].at
      <3>1. CASE i = n + 1
        BY <1>3, <1>6, <3>1 DEF SlottedIn
      <3>2. CASE i \in 1 .. n
        <4>1. PICK x \in history : x.from = published[i].at
          BY <1>6, <3>2 DEF HistoryInv, PublishedRows
        <4> QED
          BY <1>3, <1>6, <3>2, <4>1 DEF SlottedIn
      <3> QED
        BY <1>6, <3>1, <3>2
    <2>2. ASSUME NEW y \in after
          PROVE  \E i \in DOMAIN published' :
                    published'[i].rate = y.rate /\ LatestAt(i, y.from)'
      <3>1. CASE y.from = t
        <4>0. PICK k \in Nat : k = n + 1
          BY <1>6
        <4>1. published'[k].rate = y.rate /\ published'[k].at = y.from
          BY <1>3, <1>6, <3>1, <4>0 DEF SlottedIn
        <4>2. k \in DOMAIN published' /\ \A j \in DOMAIN published' : ~(j > k)
          BY <1>6, <4>0
        <4>3. LatestAt(k, y.from)'
          BY <4>1, <4>2 DEF LatestAt
        <4> QED
          BY <4>1, <4>2, <4>3
      <3>2. CASE y.from # t
        <4>1. PICK x \in history : x.from = y.from /\ x.rate = y.rate
          BY <1>3, <3>2 DEF SlottedIn
        <4>2. PICK i \in DOMAIN published : published[i].rate = x.rate /\ LatestAt(i, x.from)
          BY DEF HistoryInv, PublishedRows
        <4>3. i \in 1 .. n /\ published'[i] = published[i]
          BY <1>6, <4>2
        <4>4. /\ published[i].at = x.from
              /\ \A j \in 1 .. n : j > i => published[j].at # x.from
          BY <1>6, <4>2 DEF LatestAt
        <4>5. published'[i].rate = y.rate /\ published'[i].at = y.from
          BY <4>3, <4>4, <4>1, <4>2
        <4>6. \A j \in 1 .. n : j > i => published'[j].at # y.from
          BY <1>6, <4>4, <4>1
        <4>7. published'[n + 1].at # y.from
          BY <1>6, <3>2
        <4>8. LatestAt(i, y.from)'
          BY <1>6, <4>5, <4>6, <4>7 DEF LatestAt
        <4> QED
          BY <1>6, <4>3, <4>5, <4>8
      <3> QED
        BY <3>1, <3>2
    <2> QED
      BY <1>5, <2>1, <2>2 DEF PublishedRows
  <1>10. \A g \in Historians : pc'[g] = IF g = h THEN "idle" ELSE pc[g]
    BY <1>5 DEF HistoryInv, TypeOK, Writers
  <1>11. ReadIsCurrent' /\ OrphanGuardSilent'
    BY <1>2, <1>10 DEF HistoryInv, ReadIsCurrent, OrphanGuardSilent
  <1> QED
    BY <1>7, <1>8, <1>9, <1>11 DEF HistoryInv

\* One case per action of Next.
LEMMA HistoryStep == HistoryInv /\ [Next]_vars => HistoryInv'
  <1> SUFFICES ASSUME HistoryInv, [Next]_vars PROVE HistoryInv'
    OBVIOUS
  <1>1. ASSUME NEW p \in Pollers, FetchRate(p) PROVE HistoryInv'
    <2>1. PICK t \in Times, r \in Rates : Fetched(p, t, r) /\ bankDate' = t
      BY <1>1 DEF FetchRate
    <2> QED
      BY <2>1, FetchPreserves, RatesAssumption DEF Writers
  <1>2. ASSUME NEW p \in Pollers, SelectOpen(p) PROVE HistoryInv'
    BY <1>2, SelectPreserves
  <1>3. ASSUME NEW p \in Pollers, UpsertPolled(p) PROVE HistoryInv'
    BY <1>3, UpsertPolledPreserves
  <1>4. ASSUME NEW h \in Historians, FetchHistorical(h) PROVE HistoryInv'
    <2>1. PICK t \in Times, r \in Rates : Fetched(h, t, r) /\ UNCHANGED bankDate
      BY <1>4 DEF FetchHistorical
    <2>2. bankDate' \in Nat
      BY <2>1 DEF HistoryInv, TypeOK
    <2> QED
      BY <2>1, <2>2, FetchPreserves DEF Writers
  <1>5. ASSUME NEW h \in Historians, ReadHistory(h) PROVE HistoryInv'
    BY <1>5, ReadPreserves
  <1>6. ASSUME NEW h \in Historians, UpsertHistorical(h) PROVE HistoryInv'
    BY <1>6, UpsertHistoricalPreserves
  <1>7. ASSUME NEW w \in Writers, Abort(w) PROVE HistoryInv'
    BY <1>7, AbortPreserves
  <1>8. CASE UNCHANGED vars
    <2>1. TypeOK'
      BY <1>8 DEF HistoryInv, TypeOK, vars, tableVars, writerVars, ghostVars
    <2> QED
      BY <1>8, <2>1, HistoryKept DEF vars, tableVars, writerVars, ghostVars
  <1> QED
    BY <1>1, <1>2, <1>3, <1>4, <1>5, <1>6, <1>7, <1>8 DEF Next

\* The invariant of every step of every writer.
THEOREM HistoryInvHolds == Spec => []HistoryInv
  BY HistoryInit, HistoryStep, PTL DEF Spec

-----------------------------------------------------------------------------
(* What follows from it. *)

\* Every reachable state is well typed.
THEOREM RatesTypeCorrect == Spec => []TypeOK
  <1>1. HistoryInv => TypeOK
    BY DEF HistoryInv
  <1> QED
    BY <1>1, HistoryInvHolds, PTL

\* For any number of writers and any order of the dates, historical rows tile the time.
THEOREM HistoryTilesTime == Spec => []HistoryTiles
  <1>1. HistoryInv => HistoryTiles
    BY DEF HistoryInv, HistoryTiles
  <1> QED
    BY <1>1, HistoryInvHolds, PTL

\* The guard of the slot-in logic never raises.
THEOREM OrphanGuardNeverRaises == Spec => []OrphanGuardSilent
  <1>1. HistoryInv => OrphanGuardSilent
    BY DEF HistoryInv
  <1> QED
    BY <1>1, HistoryInvHolds, PTL

\* The rows of t and the publications in force at t have the same rate.
LEMMA HistoryInvAnswers == HistoryInv => HistoryAnswers
  <1> SUFFICES ASSUME HistoryInv, NEW t \in Times
               PROVE  {x.rate : x \in RatesAt(t)} = InForce(published, t)
    BY DEF HistoryAnswers
  <1>1. /\ t \in Nat /\ t < Forever
        /\ \A x \in history : x.from \in Nat /\ x.to \in Nat /\ x.from < x.to
        /\ \A x, y \in history : x # y => x.to <= y.from \/ y.to <= x.from
        /\ \A x \in history : x.to = Forever \/ \E y \in history : y.from = x.to
    BY RatesAssumption DEF HistoryInv, TypeOK, Tiles, HistoricalRows, Ends
  <1>2. \A i \in DOMAIN published : i \in Nat /\ published[i].at \in Nat
    <2>1. published \in Seq(Reports)
      BY DEF HistoryInv, TypeOK
    <2>2. \A i \in DOMAIN published : i \in Nat /\ published[i] \in Reports
      BY <2>1, LenProperties, ElementOfSeq
    <2> QED
      BY <2>2, RatesAssumption DEF Reports
  <1>3. ASSUME NEW x \in RatesAt(t)
        PROVE  \E i \in DOMAIN published : Prevails(published, i, t) /\ published[i].rate = x.rate
    <2>1. x \in history /\ x.from <= t /\ t < x.to
      BY <1>3 DEF RatesAt
    <2>2. PICK i \in DOMAIN published : published[i].rate = x.rate /\ LatestAt(i, x.from)
      BY <2>1 DEF HistoryInv, PublishedRows
    <2>3. ASSUME NEW j \in DOMAIN published, published[j].at <= t
          PROVE  published[j].at < x.from \/ published[j].at = x.from
      <3>1. PICK y \in history : y.from = published[j].at
        BY DEF HistoryInv, PublishedRows
      <3>2. y # x => y.to <= x.from
        BY <1>1, <2>1, <2>3, <3>1
      <3> QED
        BY <1>1, <2>1, <3>1, <3>2
    <2>4. \A j \in DOMAIN published : published[j].at = x.from => j <= i
      BY <1>2, <2>2 DEF LatestAt
    <2>5. published[i].at = x.from
      BY <2>2 DEF LatestAt
    <2>6. Prevails(published, i, t)
      <3>1. published[i].at <= t
        BY <2>1, <2>5
      <3>2. ASSUME NEW j \in DOMAIN published, published[j].at <= t
            PROVE  \/ published[j].at < published[i].at
                   \/ published[j].at = published[i].at /\ j <= i
        <4>1. published[j].at < x.from \/ published[j].at = x.from
          BY <2>3, <3>2
        <4> QED
          BY <2>4, <2>5, <4>1
      <3> QED
        BY <3>1, <3>2 DEF Prevails
    <2> QED
      BY <2>2, <2>6
  <1>4. ASSUME NEW i \in DOMAIN published, Prevails(published, i, t)
        PROVE  \E x \in RatesAt(t) : x.rate = published[i].rate
    <2>1. PICK x \in history : x.from = published[i].at
      BY DEF HistoryInv, PublishedRows
    <2>2. t < x.to
      <3> SUFFICES ASSUME x.to <= t PROVE FALSE
        BY <1>1
      <3>1. PICK y \in history : y.from = x.to
        BY <1>1
      <3>2. PICK j \in DOMAIN published : published[j].at = y.from
        BY DEF HistoryInv, PublishedRows, LatestAt
      <3>3. published[j].at <= published[i].at
        BY <1>2, <1>4, <3>1, <3>2 DEF Prevails
      <3> QED
        BY <1>1, <2>1, <3>1, <3>2, <3>3
    <2>3. PICK k \in DOMAIN published : published[k].rate = x.rate /\ LatestAt(k, x.from)
      BY DEF HistoryInv, PublishedRows
    <2>4. k = i
      BY <1>2, <1>4, <2>1, <2>3 DEF Prevails, LatestAt
    <2> QED
      BY <1>4, <2>1, <2>2, <2>3, <2>4 DEF RatesAt, Prevails
  <1> QED
    BY <1>3, <1>4 DEF InForce

\* Whatever the order in which dates are written and corrected, and whoever writes them,
\* the table answers for a date with the newest publication not after it.
THEOREM HistoryIsNewestPublication == Spec => []HistoryAnswers
  BY HistoryInvAnswers, HistoryInvHolds, PTL

-----------------------------------------------------------------------------
(* The polled rows of one poller.                                          *)

\* What the poller holds is the bank's newest date and the table's open row.
PollerIsCurrent ==
    \A p \in Pollers :
        /\ pc[p] \in {"fetched", "selected"} => at[p] = bankDate
        /\ pc[p] = "selected" => seen[p] = OpenRows

\* Rows follow each other, and the last one is open.
RowsInOrder ==
    /\ \A i \in DOMAIN polled :
          /\ polled[i].to = Forever <=> i = Len(polled)
          /\ polled[i].to # Forever => polled[i].to <= bankDate
          /\ polled[i].from <= bankDate
    /\ \A i, j \in DOMAIN polled : i < j => polled[i].to <= polled[j].from

\* The last row has been confirmed by the last report.
LastRowConfirmed ==
    \A i \in DOMAIN reported :
        /\ reported[i].at <= bankDate
        /\ polled # <<>>
        /\ reported[i].at <= polled[Len(polled)].last

Covers(i, t) == polled[i].from <= t /\ t < polled[i].to

\* What a row says of a time is what the bank had last reported then.
RowsSayReports ==
    \A i \in DOMAIN polled : \A t \in Times :
        Covers(i, t) => InForce(reported, t) = {polled[i].rate}

PolledInv ==
    /\ PollerIsCurrent
    /\ RowsInOrder
    /\ LastRowConfirmed
    /\ RowsSayReports

\* A report does not change what was in force before its date.
LEMMA InForceBefore ==
    ASSUME NEW reports \in Seq(Reports), NEW e \in Reports, NEW t \in Times, t < e.at
    PROVE  InForce(Append(reports, e), t) = InForce(reports, t)
  <1> DEFINE more == Append(reports, e)
             n    == Len(reports)
  <1>1. /\ DOMAIN reports = 1 .. n /\ DOMAIN more = 1 .. n + 1 /\ n \in Nat
        /\ \A i \in 1 .. n : more[i] = reports[i]
        /\ more[n + 1] = e
    BY AppendProperties, LenProperties
  <1>2. e.at \in Nat /\ t \in Nat
    BY RatesAssumption DEF Reports
  <1>3. ~(more[n + 1].at <= t)
    BY <1>1, <1>2
  <1> HIDE DEF more, n
  <1>4. \A i \in 1 .. n : Prevails(more, i, t) <=> Prevails(reports, i, t)
    BY <1>1, <1>3 DEF Prevails
  <1>5. ~Prevails(more, n + 1, t)
    BY <1>3 DEF Prevails
  <1>6. {i \in DOMAIN more : Prevails(more, i, t)} = {i \in DOMAIN reports : Prevails(reports, i, t)}
    BY <1>1, <1>4, <1>5
  <1>7. InForce(more, t) = InForce(reports, t)
    BY <1>1, <1>6 DEF InForce
  <1> QED
    BY <1>7 DEF more

\* A report that is not older than any before it is in force from its date on.
LEMMA InForceAfter ==
    ASSUME NEW reports \in Seq(Reports), NEW e \in Reports, NEW t \in Times, e.at <= t,
           \A i \in DOMAIN reports : reports[i].at <= e.at
    PROVE  InForce(Append(reports, e), t) = {e.rate}
  <1> DEFINE more == Append(reports, e)
             n    == Len(reports)
  <1>1. /\ DOMAIN reports = 1 .. n /\ DOMAIN more = 1 .. n + 1 /\ n \in Nat
        /\ \A i \in 1 .. n : more[i] = reports[i] /\ reports[i] \in Reports
        /\ more[n + 1] = e
    BY AppendProperties, LenProperties, ElementOfSeq
  <1>2. e.at \in Nat /\ t \in Nat /\ \A i \in 1 .. n : reports[i].at \in Nat
    BY <1>1, RatesAssumption DEF Reports
  <1>3. \A j \in 1 .. n + 1 : more[j].at <= e.at /\ more[j].at \in Nat
    BY <1>1, <1>2
  <1> HIDE DEF more, n
  <1>4. Prevails(more, n + 1, t)
    <2>1. more[n + 1].at <= t
      BY <1>1
    <2>2. ASSUME NEW j \in DOMAIN more
          PROVE  more[j].at < more[n + 1].at \/ (more[j].at = more[n + 1].at /\ j <= n + 1)
      BY <1>1, <1>2, <1>3
    <2> QED
      BY <2>1, <2>2 DEF Prevails
  <1>5. ASSUME NEW i \in 1 .. n, Prevails(more, i, t) PROVE FALSE
    <2>1. n + 1 \in DOMAIN more /\ more[n + 1].at <= t
      BY <1>1
    <2>2. more[n + 1].at < more[i].at \/ n + 1 <= i
      BY <1>5, <2>1 DEF Prevails
    <2> QED
      BY <1>1, <1>2, <1>3, <2>2
  <1>6. {i \in DOMAIN more : Prevails(more, i, t)} = {n + 1}
    BY <1>1, <1>4, <1>5
  <1>7. InForce(more, t) = {e.rate}
    BY <1>1, <1>6 DEF InForce
  <1> QED
    BY <1>7 DEF more

\* The empty table.
LEMMA PolledInit == Init => PolledInv
  BY DEF Init, PolledInv, PollerIsCurrent, RowsInOrder, LastRowConfirmed, RowsSayReports, Writers

\* A step that leaves the table and the reports alone, and at which the bank's date does
\* not go back.
LEMMA PolledKept ==
    ASSUME TypeOK, PolledInv, UNCHANGED <<polled, reported>>,
           bankDate' \in Nat, bankDate <= bankDate', PollerIsCurrent'
    PROVE  PolledInv'
  <1>1. /\ bankDate \in Nat
        /\ \A i \in DOMAIN polled : polled[i].from \in Nat /\ polled[i].to \in Nat
    <2>1. \A i \in DOMAIN polled : polled[i] \in PolledRows
      BY LenProperties, ElementOfSeq DEF TypeOK
    <2> QED
      BY <2>1, RatesAssumption DEF TypeOK, PolledRows, Ends
  <1>2. \A i \in DOMAIN reported : reported[i].at \in Nat
    <2>1. \A i \in DOMAIN reported : reported[i] \in Reports
      BY LenProperties, ElementOfSeq DEF TypeOK
    <2> QED
      BY <2>1, RatesAssumption DEF Reports
  <1>3. RowsInOrder'
    BY <1>1 DEF PolledInv, RowsInOrder
  <1>4. LastRowConfirmed'
    BY <1>1, <1>2 DEF PolledInv, LastRowConfirmed
  <1>5. RowsSayReports'
    BY DEF PolledInv, RowsSayReports, Covers
  <1> QED
    BY <1>3, <1>4, <1>5 DEF PolledInv

\* What the poller finds when it has selected: nothing, or the last row.
LEMMA OpenIsLast ==
    ASSUME TypeOK, PolledInv
    PROVE  /\ polled = <<>> => OpenRows = {}
           /\ polled # <<>> => OpenRows = {Len(polled)} /\ Len(polled) \in DOMAIN polled
  <1>1. polled \in Seq(PolledRows)
    BY DEF TypeOK
  <1>2. DOMAIN polled = 1 .. Len(polled) /\ Len(polled) \in Nat
    BY <1>1, LenProperties
  <1>3. polled # <<>> => Len(polled) # 0
    BY <1>1, EmptySeq
  <1>4. polled = <<>> => DOMAIN polled = {}
    OBVIOUS
  <1> QED
    BY <1>2, <1>3, <1>4 DEF OpenRows, PolledInv, RowsInOrder

\* What an upsert does when nobody else polls: it opens the first row, confirms the last
\* row, or closes it and opens another.
LEMMA UpsertIsOneOf ==
    ASSUME TypeOK, PolledInv, NEW p \in Pollers, UpsertPolled(p)
    PROVE  LET t == at[p]
               n == Len(polled)
           IN  \/ polled = <<>> /\ polled' = Append(polled, NewRow(t, rate[p]))
               \/ /\ polled # <<>> /\ polled[n].rate = rate[p]
                  /\ polled' = [polled EXCEPT ![n] = Bumped(@, t)]
               \/ /\ polled # <<>> /\ polled[n].rate # rate[p]
                  /\ polled' = Append([polled EXCEPT ![n] = Closed(@, t)], NewRow(t, rate[p]))
  <1>1. seen[p] \cap OpenRows = OpenRows
    BY DEF UpsertPolled, PolledInv, PollerIsCurrent
  <1>2. CASE polled = <<>>
    BY <1>1, <1>2, OpenIsLast DEF UpsertPolled
  <1>3. CASE polled # <<>>
    <2>1. seen[p] \cap OpenRows = {Len(polled)}
      BY <1>1, <1>3, OpenIsLast
    <2>2. polled' = IF RatesEqual(polled[Len(polled)], rate[p])
                    THEN [polled EXCEPT ![Len(polled)] = Bumped(@, at[p])]
                    ELSE Append([polled EXCEPT ![Len(polled)] = Closed(@, at[p])],
                                NewRow(at[p], rate[p]))
      BY <2>1 DEF UpsertPolled
    <2> QED
      BY <1>3, <2>2 DEF RatesEqual
  <1> QED
    BY <1>2, <1>3

\* The rows and reports that the table holds, with the types of what is compared.
LEMMA PolledTypes ==
    ASSUME TypeOK
    PROVE  /\ polled \in Seq(PolledRows) /\ reported \in Seq(Reports)
           /\ DOMAIN polled = 1 .. Len(polled) /\ Len(polled) \in Nat
           /\ \A i \in DOMAIN polled :
                 /\ polled[i] \in PolledRows /\ i \in Nat
                 /\ polled[i].from \in Nat /\ polled[i].to \in Nat /\ polled[i].last \in Nat
           /\ \A i \in DOMAIN reported : reported[i] \in Reports /\ reported[i].at \in Nat
           /\ bankDate \in Nat
           /\ \A t \in Times : t \in Nat /\ t < Forever
  <1>1. /\ polled \in Seq(PolledRows) /\ reported \in Seq(Reports)
        /\ bankDate \in Nat
    BY DEF TypeOK
  <1>2. /\ DOMAIN polled = 1 .. Len(polled) /\ Len(polled) \in Nat
        /\ \A i \in DOMAIN polled : polled[i] \in PolledRows
        /\ \A i \in DOMAIN reported : reported[i] \in Reports
    BY <1>1, LenProperties, ElementOfSeq
  <1>3. \A x \in PolledRows : x.from \in Nat /\ x.to \in Nat /\ x.last \in Nat
    BY RatesAssumption DEF PolledRows, Ends
  <1>4. \A e \in Reports : e.at \in Nat
    BY RatesAssumption DEF Reports
  <1>5. \A t \in Times : t \in Nat /\ t < Forever
    BY RatesAssumption
  <1>6. \A i \in 1 .. Len(polled) : i \in Nat
    OBVIOUS
  <1> QED
    BY <1>1, <1>2, <1>3, <1>4, <1>5, <1>6

\* A report reaches the table.  Whatever becomes of the rows, they say of times before
\* its date what they said, and of times from its date on what it says.
LEMMA ReportKeeps ==
    ASSUME TypeOK, PolledInv, NEW T \in Times, NEW r \in Rates, T = bankDate,
           reported' = Append(reported, [at |-> T, rate |-> r]),
           \A i \in DOMAIN polled' : \A t \in Times :
              Covers(i, t)' =>
                 \/ t < T /\ i \in DOMAIN polled /\ Covers(i, t) /\ polled'[i].rate = polled[i].rate
                 \/ T <= t /\ polled'[i].rate = r
    PROVE  RowsSayReports'
  <1> DEFINE e == [at |-> T, rate |-> r]
  <1>1. e \in Reports /\ e.at = T /\ e.rate = r
    BY DEF Reports
  <1>2. \A i \in DOMAIN reported : reported[i].at <= e.at
    BY <1>1 DEF PolledInv, LastRowConfirmed
  <1>3. reported \in Seq(Reports) /\ reported' = Append(reported, e)
    BY PolledTypes
  <1> HIDE DEF e
  <1>4. ASSUME NEW i \in DOMAIN polled', NEW t \in Times, Covers(i, t)'
        PROVE  InForce(reported', t) = {polled'[i].rate}
    <2>1. CASE t < T /\ i \in DOMAIN polled /\ Covers(i, t) /\ polled'[i].rate = polled[i].rate
      <3>1. InForce(reported', t) = InForce(reported, t)
        BY <1>1, <1>3, <2>1, InForceBefore
      <3>2. InForce(reported, t) = {polled[i].rate}
        BY <2>1 DEF PolledInv, RowsSayReports
      <3> QED
        BY <2>1, <3>1, <3>2
    <2>2. CASE T <= t /\ polled'[i].rate = r
      <3>1. InForce(reported', t) = {e.rate}
        BY <1>1, <1>2, <1>3, <2>2, InForceAfter
      <3> QED
        BY <1>1, <2>2, <3>1
    <2> QED
      BY <1>4, <2>1, <2>2
  <1>5. \A i \in DOMAIN polled' : \A t \in Times :
           Covers(i, t)' => InForce(reported', t) = {polled'[i].rate}
    BY <1>4
  <1> QED
    BY <1>5 DEF RowsSayReports

\* The reports are confirmed by a last row of date T.
LEMMA ReportConfirmed ==
    ASSUME TypeOK, PolledInv, NEW T \in Times, NEW r \in Rates, T = bankDate, bankDate' = bankDate,
           reported' = Append(reported, [at |-> T, rate |-> r]),
           polled' # <<>>, polled'[Len(polled')].last = T
    PROVE  LastRowConfirmed'
  <1> DEFINE e == [at |-> T, rate |-> r]
             n == Len(reported)
  <1>1. e \in Reports /\ e.at = T
    BY DEF Reports
  <1>2. /\ DOMAIN reported = 1 .. n /\ DOMAIN reported' = 1 .. n + 1 /\ n \in Nat
        /\ \A i \in 1 .. n : reported'[i] = reported[i]
        /\ reported'[n + 1] = e
    BY <1>1, PolledTypes, AppendProperties, LenProperties
  <1> HIDE DEF e, n
  <1>3. \A i \in 1 .. n : reported[i].at <= T
    BY <1>2 DEF PolledInv, LastRowConfirmed
  <1>4. T <= T
    BY PolledTypes
  <1>5. \A i \in 1 .. n + 1 : reported'[i].at <= T
    BY <1>1, <1>2, <1>3, <1>4
  <1> QED
    BY <1>2, <1>5 DEF LastRowConfirmed

\* The first row.
LEMMA FirstRowPreserves ==
    ASSUME TypeOK, PolledInv, NEW T \in Times, NEW r \in Rates, T = bankDate, bankDate' = bankDate,
           reported' = Append(reported, [at |-> T, rate |-> r]),
           polled = <<>>, polled' = Append(polled, NewRow(T, r))
    PROVE  RowsInOrder' /\ LastRowConfirmed' /\ RowsSayReports'
  <1>1. T \in Nat /\ T < Forever /\ NewRow(T, r) \in PolledRows
    BY PolledTypes DEF PolledRows, NewRow, Ends
  <1>2. polled' = <<NewRow(T, r)>>
    OBVIOUS
  <1>3. DOMAIN polled' = {1} /\ Len(polled') = 1 /\ polled'[1] = NewRow(T, r) /\ polled' # <<>>
    BY <1>2
  <1>4. RowsInOrder'
    BY <1>1, <1>3 DEF RowsInOrder, NewRow
  <1>5. LastRowConfirmed'
    BY <1>3, ReportConfirmed DEF NewRow
  <1>6. RowsSayReports'
    <2>1. \A i \in DOMAIN polled' : \A t \in Times : Covers(i, t)' => T <= t /\ polled'[i].rate = r
      BY <1>3 DEF Covers, NewRow
    <2> QED
      BY <2>1, ReportKeeps
  <1> QED
    BY <1>4, <1>5, <1>6

\* The same rate again.
LEMMA BumpPreserves ==
    ASSUME TypeOK, PolledInv, NEW T \in Times, NEW r \in Rates, T = bankDate, bankDate' = bankDate,
           reported' = Append(reported, [at |-> T, rate |-> r]),
           polled # <<>>, polled[Len(polled)].rate = r,
           polled' = [polled EXCEPT ![Len(polled)] = Bumped(@, T)]
    PROVE  RowsInOrder' /\ LastRowConfirmed' /\ RowsSayReports'
  <1> DEFINE n == Len(polled)
  <1>1. n \in DOMAIN polled /\ OpenRows = {n}
    BY OpenIsLast
  <1>2. /\ DOMAIN polled' = DOMAIN polled /\ Len(polled') = n /\ polled' # <<>>
        /\ \A i \in DOMAIN polled : i # n => polled'[i] = polled[i]
        /\ polled'[n] = Bumped(polled[n], T)
    <2>1. polled \in Seq(PolledRows) /\ Bumped(polled[n], T) \in PolledRows
      BY <1>1, PolledTypes DEF PolledRows, Bumped
    <2>2. polled' \in Seq(PolledRows) /\ Len(polled') = n
      BY <1>1, <2>1, ExceptSeq, PolledTypes
    <2> QED
      BY <1>1, <2>2
  <1>3. polled[n] \in PolledRows
    BY <1>1, PolledTypes
  <1>4. /\ polled'[n].from = polled[n].from /\ polled'[n].to = polled[n].to
        /\ polled'[n].rate = polled[n].rate /\ polled'[n].last = T
    BY <1>2, <1>3 DEF PolledRows, Bumped
  <1> HIDE DEF n
  <1>5. \A i \in DOMAIN polled : /\ polled'[i].from = polled[i].from
                                 /\ polled'[i].to = polled[i].to
                                 /\ polled'[i].rate = polled[i].rate
    BY <1>2, <1>4
  <1>6. RowsInOrder'
    BY <1>2, <1>5 DEF PolledInv, RowsInOrder, n
  <1>7. LastRowConfirmed'
    BY <1>2, <1>4, ReportConfirmed
  <1>8. RowsSayReports'
    <2>1. ASSUME NEW i \in DOMAIN polled', NEW t \in Times, Covers(i, t)'
          PROVE  \/ t < T /\ i \in DOMAIN polled /\ Covers(i, t) /\ polled'[i].rate = polled[i].rate
                 \/ T <= t /\ polled'[i].rate = r
      <3>1. i \in DOMAIN polled /\ Covers(i, t)
        BY <1>2, <1>5, <2>1 DEF Covers
      <3>2. CASE i = n
        <4>1. polled'[i].rate = r /\ (t < T \/ T <= t)
          BY <1>4, <3>2, PolledTypes DEF n
        <4> QED
          BY <1>5, <3>1, <4>1
      <3>3. CASE i # n
        <4>1. polled[i].to <= bankDate /\ t < polled[i].to
          BY <3>1, <3>3 DEF PolledInv, RowsInOrder, Covers, n
        <4>2. t < T
          BY <3>1, <4>1, PolledTypes
        <4> QED
          BY <1>5, <3>1, <4>2
      <3> QED
        BY <3>2, <3>3
    <2> QED
      BY <2>1, ReportKeeps
  <1> QED
    BY <1>6, <1>7, <1>8

\* What becomes of the rows when the last one is replaced.
Replaced(rows, after, T, r) ==
    LET n == Len(rows)
    IN  /\ DOMAIN after = 1 .. n + 1 /\ Len(after) = n + 1 /\ after # <<>>
        /\ \A i \in 1 .. n : /\ after[i].from = rows[i].from
                             /\ after[i].rate = rows[i].rate
                             /\ after[i].last = rows[i].last
                             /\ i # n => after[i].to = rows[i].to
                             /\ i = n => after[i].to = T
        /\ after[n + 1] = NewRow(T, r)

\* The last row is closed and another follows.
LEMMA ReplacedRows ==
    ASSUME NEW rows \in Seq(PolledRows), rows # <<>>, NEW T \in Times, NEW r \in Rates
    PROVE  Replaced(rows, Append([rows EXCEPT ![Len(rows)] = Closed(@, T)], NewRow(T, r)), T, r)
  <1> DEFINE n      == Len(rows)
             closed == [rows EXCEPT ![n] = Closed(@, T)]
             new    == NewRow(T, r)
             after  == Append(closed, new)
  <1>1. n \in Nat /\ n # 0 /\ DOMAIN rows = 1 .. n
    BY LenProperties, EmptySeq
  <1>2. n \in DOMAIN rows
    BY <1>1
  <1>3. closed \in Seq(PolledRows) /\ new \in PolledRows
    BY <1>2, PolledTyped
  <1>4. DOMAIN closed = 1 .. n /\ Len(closed) = n
    BY <1>1, <1>3, LenProperties
  <1>5. \A i \in 1 .. n : rows[i] \in PolledRows
    BY <1>1, ElementOfSeq
  <1>6. \A i \in 1 .. n : closed[i] = IF i = n THEN Closed(rows[n], T) ELSE rows[i]
    BY <1>1
  <1>7. \A x \in PolledRows : /\ Closed(x, T).from = x.from /\ Closed(x, T).rate = x.rate
                              /\ Closed(x, T).last = x.last
                              /\ Closed(x, T).to = T
    BY DEF PolledRows, Closed
  <1>8. rows[n] \in PolledRows
    BY <1>1, <1>5
  <1> HIDE DEF n, closed, new
  <1>9. /\ after \in Seq(PolledRows) /\ Len(after) = n + 1
        /\ \A i \in 1 .. n : after[i] = closed[i]
        /\ after[n + 1] = new
    BY <1>3, <1>4, AppendProperties
  <1>10. DOMAIN after = 1 .. n + 1 /\ after # <<>>
    BY <1>1, <1>9, LenProperties, EmptySeq
  <1> HIDE DEF after
  <1>11. \A i \in 1 .. n : /\ after[i].from = rows[i].from
                           /\ after[i].rate = rows[i].rate
                           /\ after[i].last = rows[i].last
                           /\ i # n => after[i].to = rows[i].to
                           /\ i = n => after[i].to = T
    BY <1>5, <1>6, <1>7, <1>8, <1>9
  <1> QED
    BY <1>9, <1>10, <1>11 DEF n, closed, new, after, Replaced

\* Another rate.
LEMMA ReplacePreserves ==
    ASSUME TypeOK, PolledInv, NEW T \in Times, NEW r \in Rates, T = bankDate, bankDate' = bankDate,
           reported' = Append(reported, [at |-> T, rate |-> r]),
           polled # <<>>, Replaced(polled, polled', T, r)
    PROVE  RowsInOrder' /\ LastRowConfirmed' /\ RowsSayReports'
  <1> DEFINE n == Len(polled)
  <1>1. n \in DOMAIN polled /\ OpenRows = {n} /\ n \in Nat /\ DOMAIN polled = 1 .. n
    BY OpenIsLast, PolledTypes
  <1>2. \A i \in 1 .. n : polled[i].to \in Nat
    BY <1>1, PolledTypes
  <1>3. /\ DOMAIN polled' = 1 .. n + 1 /\ Len(polled') = n + 1 /\ polled' # <<>>
        /\ polled'[n + 1] = NewRow(T, r)
    BY DEF Replaced
  <1>5. \A i \in 1 .. n : /\ polled'[i].from = polled[i].from
                          /\ polled'[i].rate = polled[i].rate
                          /\ i # n => polled'[i].to = polled[i].to
                          /\ i = n => polled'[i].to = T
    BY DEF Replaced
  <1> HIDE DEF n
  <1>6. /\ polled'[n + 1].from = T /\ polled'[n + 1].to = Forever
        /\ polled'[n + 1].last = T /\ polled'[n + 1].rate = r
    BY <1>3 DEF NewRow
  <1>7. /\ \A i \in 1 .. n : /\ polled[i].from <= T
                             /\ polled[i].to = Forever <=> i = n
                             /\ i # n => polled[i].to <= T
        /\ \A i, j \in 1 .. n : i < j => polled[i].to <= polled[j].from
    BY <1>1 DEF PolledInv, RowsInOrder, n
  <1>8. T \in Nat /\ T < Forever
    BY PolledTypes
  <1>9. \A i \in 1 .. n : polled'[i].to <= T /\ polled'[i].to # Forever /\ polled'[i].from <= T
    <2> SUFFICES ASSUME NEW i \in 1 .. n
                 PROVE  polled'[i].to <= T /\ polled'[i].to # Forever /\ polled'[i].from <= T
      OBVIOUS
    <2>1. CASE i = n
      <3>1. polled'[i].to = T /\ polled'[i].from = polled[i].from /\ polled[i].from <= T
        BY <1>5, <1>7, <2>1
      <3> QED
        BY <1>8, <3>1
    <2>2. CASE i # n
      <3>1. /\ polled'[i].to = polled[i].to /\ polled'[i].from = polled[i].from
            /\ polled[i].from <= T /\ polled[i].to # Forever /\ polled[i].to <= T
        BY <1>5, <1>7, <2>2
      <3> QED
        BY <3>1
    <2> QED
      BY <2>1, <2>2
  <1>10. RowsInOrder'
    <2>1. ASSUME NEW i \in DOMAIN polled'
          PROVE  /\ polled'[i].to = Forever <=> i = Len(polled')
                 /\ polled'[i].to # Forever => polled'[i].to <= T
                 /\ polled'[i].from <= T
      <3>1. CASE i = n + 1
        BY <1>3, <1>6, <1>8, <3>1
      <3>2. CASE i \in 1 .. n
        <4>1. i # n + 1
          BY <1>1, <3>2
        <4> QED
          BY <1>3, <1>9, <3>2, <4>1
      <3> QED
        BY <1>1, <1>3, <3>1, <3>2
    <2>2. ASSUME NEW i \in DOMAIN polled', NEW j \in DOMAIN polled', i < j
          PROVE  polled'[i].to <= polled'[j].from
      <3>1. i \in 1 .. n /\ i # j
        BY <1>1, <1>3, <2>2
      <3>2. CASE j = n + 1
        BY <1>6, <1>9, <3>1, <3>2
      <3>3. CASE j \in 1 .. n
        <4>1. i # n
          BY <1>1, <2>2, <3>3
        <4> QED
          BY <1>5, <1>7, <2>2, <3>1, <3>3, <4>1
      <3> QED
        BY <1>1, <1>3, <3>2, <3>3
    <2> QED
      BY <2>1, <2>2 DEF RowsInOrder
  <1>11. LastRowConfirmed'
    BY <1>3, <1>6, ReportConfirmed
  <1>12. RowsSayReports'
    <2>1. ASSUME NEW i \in DOMAIN polled', NEW t \in Times, Covers(i, t)'
          PROVE  \/ t < T /\ i \in DOMAIN polled /\ Covers(i, t) /\ polled'[i].rate = polled[i].rate
                 \/ T <= t /\ polled'[i].rate = r
      <3>1. polled'[i].from <= t /\ t < polled'[i].to
        BY <2>1 DEF Covers
      <3>2. CASE i = n + 1
        BY <1>6, <3>1, <3>2
      <3>3. CASE i \in 1 .. n
        <4>1. polled[i].from <= t /\ polled'[i].rate = polled[i].rate
          BY <1>5, <3>1, <3>3
        <4>2. t \in Nat /\ t < Forever /\ polled'[i].to \in Nat
          BY <1>2, <1>5, <1>8, <3>3, PolledTypes
        <4>3. t < T
          BY <1>8, <1>9, <3>1, <3>3, <4>2
        <4>4. t < polled[i].to
          BY <1>5, <1>7, <3>1, <3>3, <4>2
        <4> QED
          BY <1>1, <3>3, <4>1, <4>3, <4>4 DEF Covers
      <3> QED
        BY <1>1, <1>3, <3>2, <3>3
    <2> QED
      BY <2>1, ReportKeeps
  <1> QED
    BY <1>10, <1>11, <1>12

\* An upsert.
LEMMA UpsertKeepsPolledInv ==
    ASSUME TypeOK, PolledInv, OnePoller, NEW p \in Pollers, UpsertPolled(p)
    PROVE  PolledInv'
  <1>1. /\ at[p] \in Times /\ rate[p] \in Rates /\ at[p] = bankDate /\ bankDate' = bankDate
        /\ reported' = Append(reported, [at |-> at[p], rate |-> rate[p]])
    BY DEF TypeOK, Writers, UpsertPolled, PolledInv, PollerIsCurrent
  <1>2. RowsInOrder' /\ LastRowConfirmed' /\ RowsSayReports'
    BY <1>1, UpsertIsOneOf, PolledTypes, ReplacedRows, FirstRowPreserves, BumpPreserves, ReplacePreserves
  <1>3. PollerIsCurrent'
    BY DEF UpsertPolled, PollerIsCurrent, OnePoller, TypeOK, Writers
  <1> QED
    BY <1>2, <1>3 DEF PolledInv

\* One case per action of Next.
LEMMA PolledStep ==
    ASSUME TypeOK, PolledInv, OnePoller, [Next]_vars
    PROVE  PolledInv'
  <1>1. ASSUME NEW p \in Pollers, FetchRate(p) PROVE PolledInv'
    <2>1. PICK t \in Times, r \in Rates : t >= bankDate /\ Fetched(p, t, r) /\ bankDate' = t
      BY <1>1 DEF FetchRate
    <2>2. UNCHANGED <<polled, reported>> /\ bankDate' \in Nat /\ bankDate <= bankDate'
      BY <2>1, PolledTypes DEF Fetched, tableVars, ghostVars
    <2>3. PollerIsCurrent'
      BY <2>1 DEF Fetched, PollerIsCurrent, OnePoller, TypeOK, Writers
    <2> QED
      BY <2>2, <2>3, PolledKept
  <1>2. ASSUME NEW p \in Pollers, SelectOpen(p) PROVE PolledInv'
    <2>1. UNCHANGED <<polled, reported, bankDate>>
      BY <1>2 DEF SelectOpen, tableVars, ghostVars
    <2>2. bankDate \in Nat /\ bankDate <= bankDate
      BY PolledTypes
    <2>3. PollerIsCurrent'
      <3>1. OpenRows' = OpenRows
        BY <2>1 DEF OpenRows
      <3>2. at[p] = bankDate
        BY <1>2 DEF SelectOpen, PolledInv, PollerIsCurrent
      <3> QED
        BY <1>2, <3>1, <3>2 DEF SelectOpen, PollerIsCurrent, OnePoller, TypeOK, Writers
    <2> QED
      BY <2>1, <2>2, <2>3, PolledKept
  <1>3. ASSUME NEW p \in Pollers, UpsertPolled(p) PROVE PolledInv'
    BY <1>3, UpsertKeepsPolledInv
  <1>4. ASSUME UNCHANGED <<polled, reported, bankDate, seen>>,
               \A p \in Pollers : pc'[p] # "idle" => pc'[p] = pc[p] /\ at'[p] = at[p]
        PROVE  PolledInv'
    <2>1. bankDate \in Nat /\ bankDate <= bankDate /\ OpenRows' = OpenRows
      BY <1>4, PolledTypes DEF OpenRows
    <2>2. PollerIsCurrent'
      BY <1>4, <2>1 DEF PolledInv, PollerIsCurrent
    <2> QED
      BY <1>4, <2>1, <2>2, PolledKept
  <1>5. ASSUME NEW h \in Historians, FetchHistorical(h) \/ ReadHistory(h) \/ UpsertHistorical(h)
        PROVE  PolledInv'
    <2>1. \A p \in Pollers : p # h
      BY RatesAssumption
    <2>2. UNCHANGED <<polled, reported, bankDate, seen>>
      BY <1>5 DEF FetchHistorical, Fetched, ReadHistory, UpsertHistorical, tableVars, ghostVars
    <2>3. \A p \in Pollers : pc'[p] = pc[p] /\ at'[p] = at[p]
      BY <1>5, <2>1 DEF FetchHistorical, Fetched, ReadHistory, UpsertHistorical, TypeOK, Writers
    <2> QED
      BY <1>4, <2>2, <2>3
  <1>6. ASSUME NEW w \in Writers, Abort(w) PROVE PolledInv'
    <2>1. UNCHANGED <<polled, reported, bankDate, seen>>
      BY <1>6 DEF Abort, tableVars, ghostVars
    <2>2. \A p \in Pollers : pc'[p] # "idle" => pc'[p] = pc[p] /\ at'[p] = at[p]
      BY <1>6 DEF Abort, TypeOK, Writers
    <2> QED
      BY <1>4, <2>1, <2>2
  <1>7. CASE UNCHANGED vars
    BY <1>4, <1>7 DEF vars, tableVars, writerVars, ghostVars
  <1> QED
    BY <1>1, <1>2, <1>3, <1>5, <1>6, <1>7 DEF Next

\* The invariant of the polled rows, for a source that one process polls.
OnePollerInv == OnePoller => PolledInv

\* The invariant of every step, whoever writes.
THEOREM PolledInvHolds == Spec => []OnePollerInv
  <1>1. Init => OnePollerInv
    BY PolledInit DEF OnePollerInv
  <1>2. TypeOK /\ OnePollerInv /\ [Next]_vars => OnePollerInv'
    BY PolledStep DEF OnePollerInv, OnePoller
  <1> QED
    BY <1>1, <1>2, RatesTypeCorrect, PTL DEF Spec

-----------------------------------------------------------------------------
(* What readers of polled rows get. *)

\* The row that find_fresh_rate returns.
Fresh(i, t) == Covers(i, t) /\ t <= polled[i].last + Grace

FreshRates(t) == {polled[i].rate : i \in {j \in DOMAIN polled : Fresh(j, t)}}

FreshFromRows == \A t \in Times : {x.rate : x \in FindFreshRate(t)} = FreshRates(t)

\* At most one row covers a time, so there is nothing to choose from.
LEMMA FreshIsUnique == TypeOK /\ PolledInv => FreshFromRows
  <1> SUFFICES ASSUME TypeOK, PolledInv, NEW t \in Times
               PROVE  {x.rate : x \in FindFreshRate(t)} = FreshRates(t)
    BY DEF FreshFromRows
  <1> DEFINE fresh == {x \in {polled[i] : i \in DOMAIN polled} :
                          x.from <= t /\ t < x.to /\ t <= x.last + Grace}
  <1>1. FindFreshRate(t) = IF fresh = {} THEN {} ELSE {Newest(fresh)}
    BY DEF FindFreshRate
  <1>2. fresh = {polled[i] : i \in {j \in DOMAIN polled : Fresh(j, t)}}
    BY DEF Fresh, Covers
  <1>3. ASSUME NEW i \in DOMAIN polled, NEW j \in DOMAIN polled, Fresh(i, t), Fresh(j, t)
        PROVE  i = j
    <2>1. /\ polled[i].from <= t /\ t < polled[i].to
          /\ polled[j].from <= t /\ t < polled[j].to
      BY <1>3 DEF Fresh, Covers
    <2>2. /\ i < j => polled[i].to <= polled[j].from
          /\ j < i => polled[j].to <= polled[i].from
      BY DEF PolledInv, RowsInOrder
    <2>3. /\ i \in Nat /\ j \in Nat /\ t \in Nat
          /\ polled[i].from \in Nat /\ polled[i].to \in Nat
          /\ polled[j].from \in Nat /\ polled[j].to \in Nat
      BY PolledTypes
    <2> QED
      BY <2>1, <2>2, <2>3
  <1>4. CASE fresh = {}
    BY <1>1, <1>2, <1>4 DEF FreshRates
  <1>5. ASSUME NEW i \in DOMAIN polled, Fresh(i, t)
        PROVE  {x.rate : x \in FindFreshRate(t)} = FreshRates(t)
    <2>1. {j \in DOMAIN polled : Fresh(j, t)} = {i}
      BY <1>3, <1>5
    <2>2. fresh = {polled[i]}
      BY <1>2, <2>1
    <2>3. polled[i].from >= polled[i].from
      BY PolledTypes
    <2>4. Newest({polled[i]}) = polled[i]
      BY <2>3 DEF Newest
    <2>5. FindFreshRate(t) = {polled[i]}
      BY <1>1, <2>2, <2>4
    <2> QED
      BY <2>1, <2>5 DEF FreshRates
  <1> QED
    BY <1>2, <1>4, <1>5

\* A conversion with a fresh rate uses what the bank had last reported then, when one
\* process polls the source.
THEOREM FreshRateIsLastReport == Spec => []FreshIsLastReport
  <1>1. TypeOK /\ OnePollerInv => FreshIsLastReport
    <2> SUFFICES ASSUME TypeOK, PolledInv, NEW t \in Times
                 PROVE  {x.rate : x \in FindFreshRate(t)} \subseteq InForce(reported, t)
      BY DEF OnePollerInv, FreshIsLastReport
    <2>1. \A i \in DOMAIN polled : Fresh(i, t) => InForce(reported, t) = {polled[i].rate}
      BY DEF Fresh, PolledInv, RowsSayReports
    <2> QED
      BY <2>1, FreshIsUnique DEF FreshFromRows, FreshRates
  <1> QED
    BY <1>1, RatesTypeCorrect, PolledInvHolds, PTL

\* A later report leaves the rows of a settled time fresh, and makes no other fresh.
LEMMA UpsertSettled ==
    ASSUME TypeOK, PolledInv, NEW p \in Pollers, UpsertPolled(p),
           NEW t \in Times, NEW k \in DOMAIN reported, t < reported[k].at
    PROVE  FreshRates(t)' = FreshRates(t)
  <1> DEFINE T == at[p]
  <1>0. PICK n \in Nat : n = Len(polled)
    BY PolledTypes
  <1>1. T \in Times /\ rate[p] \in Rates /\ T = bankDate
    BY DEF TypeOK, Writers, UpsertPolled, PolledInv, PollerIsCurrent
  <1>2. polled # <<>> /\ reported[k].at <= polled[n].last /\ reported[k].at <= T
    BY <1>0, <1>1 DEF PolledInv, LastRowConfirmed
  <1>3. n \in DOMAIN polled /\ DOMAIN polled = 1 .. n /\ n \in Nat
    BY <1>0, <1>2, OpenIsLast, PolledTypes
  <1>4. /\ t \in Nat /\ T \in Nat /\ t < Forever /\ Forever \in Nat /\ Grace \in Nat
        /\ reported[k].at \in Nat /\ polled[n].last \in Nat
    BY <1>1, <1>3, PolledTypes, RatesAssumption
  <1>5. t < T /\ t <= polled[n].last + Grace /\ t <= T + Grace
    BY <1>2, <1>4
  <1>6. polled[n].to = Forever
    BY <1>0, <1>3 DEF PolledInv, RowsInOrder
  <1>7. polled \in Seq(PolledRows) /\ polled[n] \in PolledRows
    BY <1>3, PolledTypes
  <1>8. CASE polled' = [polled EXCEPT ![n] = Bumped(@, T)]
    <2>1. /\ DOMAIN polled' = DOMAIN polled
          /\ \A i \in DOMAIN polled : i # n => polled'[i] = polled[i]
          /\ polled'[n] = Bumped(polled[n], T)
      BY <1>3, <1>8
    <2>2. /\ polled'[n].from = polled[n].from /\ polled'[n].to = polled[n].to
          /\ polled'[n].rate = polled[n].rate /\ polled'[n].last = T
      BY <1>7, <2>1 DEF PolledRows, Bumped
    <2> HIDE DEF T
    <2>3. Fresh(n, t)' <=> Fresh(n, t)
      BY <1>5, <2>2 DEF Fresh, Covers
    <2>4. \A i \in DOMAIN polled : /\ Fresh(i, t)' <=> Fresh(i, t)
                                   /\ polled'[i].rate = polled[i].rate
      BY <2>1, <2>2, <2>3 DEF Fresh, Covers
    <2> QED
      BY <2>1, <2>4 DEF FreshRates
  <1>9. CASE polled' = Append([polled EXCEPT ![n] = Closed(@, T)], NewRow(T, rate[p]))
    <2>1. Replaced(polled, polled', T, rate[p])
      BY <1>0, <1>1, <1>2, <1>7, <1>9, ReplacedRows
    <2>2. /\ DOMAIN polled' = 1 .. n + 1
          /\ polled'[n + 1] = NewRow(T, rate[p])
      BY <1>0, <2>1 DEF Replaced
    <2>3. \A i \in 1 .. n : /\ polled'[i].from = polled[i].from
                            /\ polled'[i].rate = polled[i].rate
                            /\ i # n => polled'[i].to = polled[i].to
                            /\ i = n => polled'[i].to = T
      BY <1>0, <2>1 DEF Replaced
    <2>4. \A i \in 1 .. n : polled'[i].last = polled[i].last
      BY <1>0, <2>1 DEF Replaced
    <2> HIDE DEF T
    <2>5. ~Fresh(n + 1, t)'
      BY <1>4, <1>5, <2>2 DEF Fresh, Covers, NewRow
    <2>6. ASSUME NEW i \in 1 .. n PROVE Fresh(i, t)' <=> Fresh(i, t)
      <3>1. CASE i = n
        BY <1>4, <1>5, <1>6, <2>3, <2>4, <3>1 DEF Fresh, Covers
      <3>2. CASE i # n
        BY <2>3, <2>4, <3>2 DEF Fresh, Covers
      <3> QED
        BY <3>1, <3>2
    <2>7. {j \in DOMAIN polled' : Fresh(j, t)'} = {j \in DOMAIN polled : Fresh(j, t)}
      <3>1. \A j \in 1 .. n + 1 : j \in 1 .. n \/ j = n + 1
        BY <1>3
      <3>2. \A j \in 1 .. n : j \in 1 .. n + 1
        BY <1>3
      <3> QED
        BY <1>3, <2>2, <2>5, <2>6, <3>1, <3>2
    <2> QED
      BY <1>3, <2>3, <2>7 DEF FreshRates
  <1> QED
    BY <1>0, <1>2, <1>8, <1>9, UpsertIsOneOf

FreshFromOneRow == OnePoller => FreshFromRows

\* Once a later report has reached the table, a conversion of an earlier time gives the
\* same rate again, or again none.
THEOREM FreshRateIsSettled == Spec => FreshSettled
  <1>1. TypeOK /\ OnePollerInv /\ FreshFromOneRow /\ FreshFromOneRow' /\ [Next]_vars
          => [OnePoller =>
                \A t \in Times :
                   (\E i \in DOMAIN reported : t < reported[i].at)
                     => {x.rate : x \in FindFreshRate(t)}' = {x.rate : x \in FindFreshRate(t)}]_vars
    <2> SUFFICES ASSUME TypeOK, PolledInv, [Next]_vars, FreshFromRows, FreshFromRows',
                        NEW t \in Times, NEW k \in DOMAIN reported, t < reported[k].at
                 PROVE  {x.rate : x \in FindFreshRate(t)}' = {x.rate : x \in FindFreshRate(t)}
      BY DEF OnePollerInv, FreshFromOneRow, OnePoller
    <2>1. ASSUME NEW p \in Pollers, UpsertPolled(p)
          PROVE  {x.rate : x \in FindFreshRate(t)}' = {x.rate : x \in FindFreshRate(t)}
      <3>1. {x.rate : x \in FindFreshRate(t)} = FreshRates(t)
        BY DEF FreshFromRows
      <3>2. {x.rate : x \in FindFreshRate(t)}' = FreshRates(t)'
        BY DEF FreshFromRows
      <3> QED
        BY <2>1, <3>1, <3>2, UpsertSettled
    <2>2. CASE UNCHANGED polled
      BY <2>2 DEF FindFreshRate
    <2>3. \/ \E p \in Pollers : UpsertPolled(p)
          \/ UNCHANGED polled
      BY DEF Next, FetchRate, FetchHistorical, Fetched, SelectOpen, ReadHistory,
             UpsertHistorical, Abort, tableVars, vars
    <2> QED
      BY <2>1, <2>2, <2>3
  <1>2. Spec => [](TypeOK /\ OnePollerInv /\ FreshFromOneRow)
    <2>1. TypeOK /\ OnePollerInv => FreshFromOneRow
      BY FreshIsUnique DEF OnePollerInv, FreshFromOneRow
    <2> QED
      BY <2>1, RatesTypeCorrect, PolledInvHolds, PTL
  <1> QED
    BY <1>1, <1>2, PTL DEF Spec, FreshSettled
=============================================================================
