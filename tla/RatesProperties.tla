--------------------------- MODULE RatesProperties ---------------------------
(* What readers of currency_rates rely on. *)
EXTENDS CurrencyRates

\* Report i is in force at t: no newer date that is not after t was reported, and that
\* date was not reported again later.
Prevails(reports, i, t) ==
    /\ reports[i].at <= t
    /\ \A j \in DOMAIN reports :
          reports[j].at <= t =>
             \/ reports[j].at < reports[i].at
             \/ reports[j].at = reports[i].at /\ j <= i

InForce(reports, t) ==
    {reports[i].rate : i \in {j \in DOMAIN reports : Prevails(reports, j, t)}}

\* Rows neither overlap nor leave a gap: each ends where another begins, or never.
Tiles(rows) ==
    /\ \A x, y \in rows : x # y => x.to <= y.from \/ y.to <= x.from
    /\ \A x \in rows : x.from < x.to /\ (x.to = Forever \/ \E y \in rows : y.from = x.to)

\* History has this form however backfills and the daily loop interleave and in
\* whatever order dates are published.
HistoryTiles == Tiles(history)

\* The table answers "what rates applied then" with the newest publication not after
\* the date: the order in which dates were written does not matter.
HistoryAnswers ==
    \A t \in Times : {x.rate : x \in RatesAt(t)} = InForce(published, t)

\* The error that "indicates a bug in the slot-in logic" is never raised.
OrphanGuardSilent == \A h \in Historians : pc[h] # "raised"

\* One ingestion process polls the source.
OnePoller == \A p, q \in Pollers : p = q

\* A fresh rate is what the bank had last reported at that time.
FreshIsLastReport ==
    OnePoller =>
        \A t \in Times : {x.rate : x \in FindFreshRate(t)} \subseteq InForce(reported, t)

\* A fresh rate of a time before the last poll is settled: a transaction that is
\* converted again later gets the same rate, or again none.
FreshSettled ==
    [][OnePoller =>
         \A t \in Times :
            (\E i \in DOMAIN reported : t < reported[i].at)
              => {x.rate : x \in FindFreshRate(t)}' = {x.rate : x \in FindFreshRate(t)}]_vars
=============================================================================
