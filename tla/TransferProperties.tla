------------------------- MODULE TransferProperties -------------------------
(***************************************************************************)
(* What transfer detection guarantees as long as nothing is restored.      *)
(* Which legs belong together is stated here anew, as a relation between   *)
(* two legs that does not know which of them came first.                   *)
(***************************************************************************)
EXTENDS TransferPairing

SameMovement(a, b) ==
    /\ a.transfer /\ b.transfer
    /\ {a.direction, b.direction} = {"income", "expense"}
    /\ a.account # b.account
    /\ a.time <= b.time + 2 /\ b.time <= a.time + 2
    /\ a.amount = b.opAmount \/ b.amount = a.opAmount

\* The bank names the end of a chain in its expense legs; all other IBANs are meant.
NamesPartner(leg) ==
    leg.cpIban # NoIban /\ ~(leg.direction = "expense" /\ leg.description.multiHop)

Mates(t, u) ==
    LET a == event[t]
        b == event[u]
    IN  /\ SameMovement(a, b)
        /\ NamesPartner(a) => a.cpIban = b.account
        /\ NamesPartner(b) => b.cpIban = a.account

\* A manual leg can be found, but finds nobody.
Detected(t, u) == event[t].source = "monobank" /\ event[u].source = "monobank"

Witnesses(t, u) ==
    Cardinality({x \in {<<t, u>>, <<u, t>>} :
                    /\ NamesPartner(event[x[1]])
                    /\ event[x[1]].cpIban = event[x[2]].account})

NoRestore == used.restores = 0

\* A message that is processed again while its row is being deleted finds the row, is
\* taken for a duplicate, and is inserted without detection once the row has gone.
GateReliable == used.jobs = 0 \/ used.faults = 0

-----------------------------------------------------------------------------
\* The two legs of a transfer name each other, whatever was redelivered, moved to
\* another member of the group, deleted or replayed meanwhile.
LegsNameEachOther ==
    \A t \in stored : related[t] # NoTx =>
        /\ related[t] \in stored
        /\ related[related[t]] = t
        /\ pair[t] = pair[related[t]]

PairsMutual == NoRestore => LegsNameEachOther

\* Two stored Monobank legs that could belong together and were never claimed are left
\* apart only with a terminal anomaly on one of them: neither the order of arrival nor an
\* account that was linked late makes the detection overlook its chance.  (Rows of a
\* DELETE that runs cannot be claimed; their replay gets another chance.)  And a leg
\* that has found its partner is no longer reported as unpaired.
UnpairedExplained ==
    NoRestore =>
        /\ \A t \in stored : related[t] # NoTx => anomaly[t] \notin Unpaired
        /\ GateReliable => \A t, u \in stored \ doomed :
              Mates(t, u) /\ Detected(t, u) /\ ~pair[t].claimed /\ ~pair[u].claimed
                  => {anomaly[t], anomaly[u]} \cap Terminal # {}

\* A new row never passes over a row that nobody has claimed and for which the IBANs
\* speak more clearly than for the one it takes.  (A row of a DELETE that runs may be
\* locked by it, and is then skipped.)
StrongestPartner ==
    [][\A t \in Txs : NoRestore' /\ t \notin stored /\ t \in stored' /\ related'[t] # NoTx
          => \A c \in stored \ doomed : Mates(t, c) /\ ~pair[c].claimed
                => Witnesses(t, c) <= Witnesses(t, related'[t])]_vars

\* Two Monobank legs that match nothing but each other end up as a pair, in spite of crashes,
\* duplicates and a moved partition, in either order of arrival.
OnlyMates(t, u) ==
    /\ Mates(t, u) /\ Detected(t, u)
    /\ \A v \in Txs \ {t, u} : ~Mates(t, v) /\ ~Mates(u, v)

MatesFindEachOther ==
    []<>(\A t, u \in Txs :
            OnlyMates(t, u) /\ {t, u} \subseteq published /\ used.jobs = 0 => related[t] = u)
=============================================================================
