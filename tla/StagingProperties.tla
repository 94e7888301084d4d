-------------------------- MODULE StagingProperties --------------------------
(***************************************************************************)
(* What routing and draining guarantee, and what is said of them that the  *)
(* code does not keep.                                                     *)
(***************************************************************************)
EXTENDS StagingRouting

\* An event whose raw offset is committed is in the topic, staged, or in a
\* producer queue, unless it was lost in one of three ways: routing raised, the
\* broker never took it, or a crash emptied the queues.  Concurrent drains,
\* repeated drains and redelivery lose nothing by themselves.
CommittedEventsAccounted ==
    1 .. next - 1 \subseteq EventsIn(staged \cup Queued \cup Range(topic))
                            \cup {l[1] : l \in lost}

\* Position of the first message of a staged row in a log.
FirstOf(row, log) == Min({i \in DOMAIN log : log[i].row = row})

\* Two drains of the same rows may run at once, stop half way and start again:
\* a row still reaches the topic for the first time before every later row,
\* as long as the broker takes what the producer sends.
DrainedInOrder ==
    (\A l \in lost : l[2] # "undelivered") =>
        \A i, j \in DOMAIN topic :
            /\ 0 < topic[i].row
            /\ topic[i].row < topic[j].row
            => FirstOf(topic[i].row, topic) < FirstOf(topic[j].row, topic)

\* The staging table empties once the user stays unlocked, also when the NOTIFY
\* was lost, drains raise, or the service restarts.
StagingEmpties == (~lockRow /\ staged # {}) ~> (lockRow \/ staged = {})
=============================================================================
