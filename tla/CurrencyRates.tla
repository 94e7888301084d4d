---------------------------- MODULE CurrencyRates ----------------------------
(***************************************************************************)
(* The table currency_rates for one (source, currency_from, currency_to):  *)
(* a sequence of polled rows and one of historical rows, written by        *)
(* pollers, the daily loop and backfill jobs (READ COMMITTED).  Times are  *)
(* dates the bank gives its rates; valid_to IS NULL is Forever.            *)
(***************************************************************************)
EXTENDS Integers, Sequences

CONSTANTS
    Times,
    Forever,
    Rates,          \* what a row says: the rates that are compared when it is written again
    Pollers,        \* rate loops of polled sources (one per running ingestion process)
    Historians,     \* writers of historical rates: the daily loop, backfill jobs
    Grace,          \* tolerance times cadence of a polled row
    MaxTasks        \* bound: rates that are fetched

ASSUME RatesAssumption ==
    /\ Times \subseteq Nat /\ Times # {}
    /\ Forever \in Nat
    /\ \A t \in Times : t < Forever
    /\ Rates \subseteq [mid : Nat, buy : Nat] /\ Rates # {}
    /\ Pollers \cap Historians = {}
    /\ Grace \in Nat
    /\ MaxTasks \in Nat

VARIABLES
    polled,     \* polled rows in the order of insertion
    history,    \* historical rows
    pc,         \* where each writer is
    at,         \* valid_from of the rate it has fetched
    rate,       \* the rate
    seen,       \* open rows in the snapshot of a poller's SELECT ... FOR UPDATE
    read,       \* historical rows that a historian's SELECTs saw under its lock
    bankDate,   \* date of the bank's newest report
    reported,   \* ghost: the reports that reached the table, [at, rate] in commit order
    published,  \* ghost: the same of the historical rates
    used        \* how many rates have been fetched

tableVars  == <<polled, history>>
writerVars == <<pc, at, rate, seen, read>>
ghostVars  == <<reported, published>>
vars       == <<tableVars, writerVars, bankDate, ghostVars, used>>

Writers == Pollers \cup Historians
Ends == Times \cup {Forever}
PolledRows == [from : Times, to : Ends, last : Times, rate : Rates]
HistoricalRows == [from : Times, to : Ends, rate : Rates]
Reports == [at : Times, rate : Rates]

\* Types of the rows and of what each writer has read.
TypeOK ==
    /\ polled \in Seq(PolledRows)
    /\ history \subseteq HistoricalRows
    /\ pc \in [Writers -> {"idle", "fetched", "selected", "read", "raised"}]
    /\ at \in [Writers -> Times]
    /\ rate \in [Writers -> Rates]
    /\ seen \in [Pollers -> SUBSET Nat]
    /\ read \in [Historians -> SUBSET HistoricalRows]
    /\ bankDate \in Nat
    /\ reported \in Seq(Reports) /\ published \in Seq(Reports)
    /\ used \in Nat

Init ==
    /\ polled = <<>>
    /\ history = {}
    /\ pc = [w \in Writers |-> "idle"]
    /\ at = [w \in Writers |-> CHOOSE t \in Times : TRUE]
    /\ rate = [w \in Writers |-> CHOOSE r \in Rates : TRUE]
    /\ seen = [p \in Pollers |-> {}]
    /\ read = [h \in Historians |-> {}]
    /\ bankDate = 0
    /\ reported = <<>> /\ published = <<>>
    /\ used = 0

\* Mutant: a change of the buying rate goes unnoticed.
SameMid(row, r) == row.rate.mid = r.mid

RatesEqual(row, r) == row.rate = r

-----------------------------------------------------------------------------
Fetched(w, t, r) ==
    /\ pc[w] = "idle"
    /\ used < MaxTasks
    /\ used' = used + 1
    /\ pc' = [pc EXCEPT ![w] = "fetched"]
    /\ at' = [at EXCEPT ![w] = t]
    /\ rate' = [rate EXCEPT ![w] = r]
    /\ UNCHANGED <<tableVars, seen, read, ghostVars>>

\* The bank does not report an older date after a newer one.
FetchRate(p) ==
    \E t \in Times, r \in Rates :
        t >= bankDate /\ Fetched(p, t, r) /\ bankDate' = t

\* A date may be published again with another rate, and a backfill may fetch any date.
FetchHistorical(h) ==
    \E t \in Times, r \in Rates : Fetched(h, t, r) /\ UNCHANGED bankDate

\* The connection or the process breaks, or the error reaches the loop: the transaction
\* is rolled back and the rate given up.
Abort(w) ==
    /\ pc[w] # "idle"
    /\ pc' = [pc EXCEPT ![w] = "idle"]
    /\ UNCHANGED <<tableVars, at, rate, seen, read, bankDate, ghostVars, used>>

-----------------------------------------------------------------------------
(* upsert_polled *)

OpenRows == {i \in DOMAIN polled : polled[i].to = Forever}

\* The SELECT takes its snapshot; it may then have to wait for the row.
SelectOpen(p) ==
    /\ pc[p] = "fetched"
    /\ seen' = [seen EXCEPT ![p] = OpenRows]
    /\ pc' = [pc EXCEPT ![p] = "selected"]
    /\ UNCHANGED <<tableVars, at, rate, read, bankDate, ghostVars, used>>

Bumped(row, t) == [row EXCEPT !.last = t]

\* Mutant: as if valid_to still belonged to the row's time.
ClosedAfter(row, t) == [row EXCEPT !.to = t + 1]

\* Mutant: the wrong column is the end.
ClosedAtStart(row, t) == [row EXCEPT !.to = row.from]

Closed(row, t) == [row EXCEPT !.to = t]

NewRow(t, r) == [from |-> t, to |-> Forever, last |-> t, rate |-> r]

\* The row is locked: if another poller has closed it meanwhile, it no longer satisfies
\* the query and is dropped, and a row that the other has opened is not in the snapshot.
UpsertPolled(p) ==
    LET t       == at[p]
        current == seen[p] \cap OpenRows
    IN  /\ pc[p] = "selected"
        /\ \/ \E i \in current :
                polled' = IF RatesEqual(polled[i], rate[p])
                          THEN [polled EXCEPT ![i] = Bumped(@, t)]
                          ELSE Append([polled EXCEPT ![i] = Closed(@, t)], NewRow(t, rate[p]))
           \/ /\ current = {}
              /\ polled' = Append(polled, NewRow(t, rate[p]))
        /\ reported' = Append(reported, [at |-> t, rate |-> rate[p]])
        /\ pc' = [pc EXCEPT ![p] = "idle"]
        /\ UNCHANGED <<history, at, rate, seen, read, bankDate, published, used>>

-----------------------------------------------------------------------------
(* upsert_historical *)

\* Mutant: no pg_advisory_xact_lock.
LockIgnored(h) == pc[h] = "fetched"

LockFree(h) == pc[h] = "fetched" /\ \A g \in Historians : pc[g] # "read"

\* The advisory lock, then the SELECTs; nobody else writes historical rows meanwhile.
ReadHistory(h) ==
    /\ LockFree(h)
    /\ read' = [read EXCEPT ![h] = history]
    /\ pc' = [pc EXCEPT ![h] = "read"]
    /\ UNCHANGED <<tableVars, at, rate, seen, bankDate, ghostVars, used>>

\* Mutant: the open row does not count as covering.
ClosedCovering(rows, t) == {x \in rows : x.from < t /\ t < x.to /\ x.to # Forever}

Covering(rows, t) == {x \in rows : x.from < t /\ t < x.to}

First(rows) == CHOOSE x \in rows : \A y \in rows : x.from <= y.from

\* Mutant: the first publication of a date stays.
KeepRate(row, r) == row

Corrected(row, r) == IF RatesEqual(row, r) THEN row ELSE [row EXCEPT !.rate = r]

\* The table after the upsert when it was rows before.
SlotIn(rows, t, r) ==
    LET same     == {x \in rows : x.from = t}
        covering == Covering(rows, t)
        later    == {x \in rows : x.from > t}
        row(end) == [from |-> t, to |-> end, rate |-> r]
    IN  CASE same # {} ->
               LET x == CHOOSE x \in same : TRUE IN (rows \ {x}) \cup {Corrected(x, r)}
          [] same = {} /\ covering # {} ->
               LET x == CHOOSE x \in covering : TRUE
               IN  (rows \ {x}) \cup {[x EXCEPT !.to = t], row(x.to)}
          [] same = {} /\ covering = {} /\ later # {} ->
               rows \cup {row(First(later).from)}
          [] OTHER -> rows \cup {row(Forever)}

\* No row covers the date and none follows, and yet there are rows.
Orphaned(rows, t) ==
    rows # {} /\ Covering(rows, t) = {} /\ \A x \in rows : x.from < t

UpsertHistorical(h) ==
    LET t     == at[h]
        after == SlotIn(read[h], t, rate[h])
    IN  /\ pc[h] = "read"
        /\ IF Orphaned(read[h], t)
           THEN /\ pc' = [pc EXCEPT ![h] = "raised"]
                /\ UNCHANGED <<history, published>>
           ELSE /\ pc' = [pc EXCEPT ![h] = "idle"]
                /\ history' = (history \ (read[h] \ after)) \cup (after \ read[h])
                /\ published' = Append(published, [at |-> t, rate |-> rate[h]])
        /\ UNCHANGED <<polled, at, rate, seen, read, bankDate, reported, used>>

-----------------------------------------------------------------------------
Next ==
    \/ \E p \in Pollers : FetchRate(p) \/ SelectOpen(p) \/ UpsertPolled(p)
    \/ \E h \in Historians : FetchHistorical(h) \/ ReadHistory(h) \/ UpsertHistorical(h)
    \/ \E w \in Writers : Abort(w)

Spec == Init /\ [][Next]_vars

-----------------------------------------------------------------------------
(* Readers. *)

\* GET /v1/rates/at, historical rows only.
RatesAt(t) == {x \in history : x.from <= t /\ t < x.to}

Newest(rows) == CHOOSE x \in rows : \A y \in rows : x.from >= y.from

\* find_fresh_rate: at most one row.
FindFreshRate(t) ==
    LET fresh == {x \in {polled[i] : i \in DOMAIN polled} :
                     x.from <= t /\ t < x.to /\ t <= x.last + Grace}
    IN  IF fresh = {} THEN {} ELSE {Newest(fresh)}
=============================================================================
