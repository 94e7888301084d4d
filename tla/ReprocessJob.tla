---------------------------- MODULE ReprocessJob ----------------------------
(***************************************************************************)
(* The reprocess of one user's transactions: the trigger request of the    *)
(* ingestion API, the job pod that backs up, deletes, replays and verifies *)
(* the rows, its Kafka producer, the normalized_transactions partition and *)
(* the enrichment consumer that writes the replayed rows back.             *)
(*                                                                         *)
(* Everything here is keyed by user_id (lock row, advisory lock, backup,   *)
(* partition key), so one user is modelled.  Tx are the ids of the user's  *)
(* transactions, numbered in (time, id) order.                             *)
(***************************************************************************)
EXTENDS Naturals, Sequences, FiniteSets, Functions

CONSTANTS
    Pods,           \* job pods; a K8s Job has backoff_limit = 0 and one pod
    NoPod,          \* "nobody"
    Tx,             \* transaction ids
    MaxArrivals,    \* bound: events other than replays that reach the topic
    MaxFailures,    \* bound: pods killed or stopped by an unhandled exception
    MaxDrops,       \* bound: messages the producer never delivers, and redeliveries
    MaxRollbacks,   \* bound: triggers rolled back although the Job was created
    StrictRouting   \* TRUE: no event is published while the lock row is visible

ASSUME ConstantsAssumption ==
    /\ NoPod \notin Pods
    /\ Tx \subseteq Nat
    /\ IsFiniteSet(Tx)
    /\ {MaxArrivals, MaxFailures, MaxDrops, MaxRollbacks} \subseteq Nat
    /\ StrictRouting \in BOOLEAN

VARIABLES
    pc,         \* where each pod is in reprocess_user
    snap,       \* snapshot_ids of each pod
    events,     \* events each pod reconstructed from the rows it read
    outbox,     \* messages in each pod's producer queue
    backup,     \* the most recent reprocessing_backups row: its writer and its ids
    advisory,   \* the pod whose session holds the advisory lock
    lockRow,    \* the reprocessing_locks row is committed
    trigger,    \* the pod whose trigger transaction is still open
    topic,      \* uncommitted messages of the user's normalized_transactions partition
    enr,        \* enrichment consumer: "polling", or "inserted" before its offset commit
    stored,     \* ids in the transactions table
    arrived,    \* history: every id that ever reached the topic or the table
    used        \* how much of each bound has been spent

jobVars   == <<pc, snap, events, outbox, backup, advisory>>
lockVars  == <<lockRow, trigger>>
kafkaVars == <<topic, enr>>
vars      == <<jobVars, lockVars, kafkaVars, stored, arrived, used>>

Bound == [arrivals  |-> MaxArrivals, failures |-> MaxFailures,
          drops     |-> MaxDrops,    rollbacks |-> MaxRollbacks]

Spend(kind) ==
    /\ used[kind] < Bound[kind]
    /\ used' = [used EXCEPT ![kind] = @ + 1]

-----------------------------------------------------------------------------
(* Phases of a pod.                                                        *)

\* The advisory lock is this session's.
Holding   == {"acquired", "snapped", "read", "wiped", "waiting", "verifying",
              "restoring", "releasing"}
\* The rows were deleted and have neither been verified nor restored.
OwesRows  == {"wiped", "waiting", "verifying", "restoring"}
Live      == Holding \cup {"created", "checked", "unlocking"}
\* aborted: stopped with the rows in place; stranded: stopped while owing them.
Terminal  == {"done", "skipped", "aborted", "stranded"}
Phases    == {"none"} \cup Live \cup Terminal

\* Types of the tables, the pods and the queues.
TypeOK ==
    /\ pc \in [Pods -> Phases]
    /\ snap \in [Pods -> SUBSET Tx]
    /\ events \in [Pods -> Seq(Tx)]
    /\ outbox \in [Pods -> Seq(Tx)]
    /\ backup \in [by : Pods \cup {NoPod}, rows : SUBSET Tx]
    /\ advisory \in Pods \cup {NoPod}
    /\ lockRow \in BOOLEAN
    /\ trigger \in Pods \cup {NoPod}
    /\ topic \in Seq(Tx)
    /\ enr \in {"polling", "inserted"}
    /\ stored \in SUBSET Tx
    /\ arrived \in SUBSET Tx
    /\ used \in [{"arrivals", "failures", "drops", "rollbacks"} -> Nat]

Init ==
    /\ pc = [p \in Pods |-> "none"]
    /\ snap = [p \in Pods |-> {}]
    /\ events = [p \in Pods |-> <<>>]
    /\ outbox = [p \in Pods |-> <<>>]
    /\ backup = [by |-> NoPod, rows |-> {}]
    /\ advisory = NoPod
    /\ lockRow = FALSE
    /\ trigger = NoPod
    /\ topic = <<>>
    /\ enr = "polling"
    /\ stored \in SUBSET Tx
    /\ arrived = stored
    /\ used = [kind \in {"arrivals", "failures", "drops", "rollbacks"} |-> 0]

Goto(p, from, to) ==
    /\ pc[p] = from
    /\ pc' = [pc EXCEPT ![p] = to]

-----------------------------------------------------------------------------
(* The trigger request (trigger_user_reprocess): the lock row is inserted  *)
(* in a transaction that stays open while the Job is created and commits   *)
(* only after the handler has returned.                                    *)

\* INSERT ... ON CONFLICT waits for an uncommitted row, so a second trigger
\* gets past the insert only when no row is there and none is pending.
SubmitJob(p) ==
    /\ trigger = NoPod
    /\ ~lockRow
    /\ Goto(p, "none", "created")
    /\ trigger' = p
    /\ UNCHANGED <<snap, events, outbox, backup, advisory, lockRow, kafkaVars,
                   stored, arrived, used>>

CommitTrigger ==
    /\ trigger # NoPod
    /\ lockRow' = TRUE
    /\ trigger' = NoPod
    /\ UNCHANGED <<jobVars, kafkaVars, stored, arrived, used>>

\* The submit call times out, or the commit fails, after K8s created the Job.
RollbackTrigger ==
    /\ trigger # NoPod
    /\ trigger' = NoPod
    /\ Spend("rollbacks")
    /\ UNCHANGED <<jobVars, lockRow, kafkaVars, stored, arrived>>

-----------------------------------------------------------------------------
(* The pod: reprocess_user.                                                *)

\* Mutant: the pod trusts that its trigger has committed.
LockAssumed(p) ==
    /\ Goto(p, "created", "checked")
    /\ UNCHANGED <<snap, events, outbox, backup, advisory, lockVars, kafkaVars,
                   stored, arrived, used>>

LockExists(p) ==
    /\ Goto(p, "created", IF lockRow THEN "checked" ELSE "skipped")
    /\ UNCHANGED <<snap, events, outbox, backup, advisory, lockVars, kafkaVars,
                   stored, arrived, used>>

AcquireAdvisoryLock(p) ==
    /\ advisory = NoPod
    /\ Goto(p, "checked", "acquired")
    /\ advisory' = p
    /\ UNCHANGED <<snap, events, outbox, backup, lockVars, kafkaVars,
                   stored, arrived, used>>

SnapshotTransactions(p) ==
    /\ Goto(p, "acquired", "snapped")
    /\ snap' = [snap EXCEPT ![p] = stored]
    /\ backup' = [by |-> p, rows |-> stored]
    /\ UNCHANGED <<events, outbox, advisory, lockVars, kafkaVars,
                   stored, arrived, used>>

\* ORDER BY time, id: the one enumeration of the rows that is increasing.
InReplayOrder(rows) ==
    {s \in [1 .. Cardinality(rows) -> rows] :
        \A i, j \in DOMAIN s : i < j => s[i] < s[j]}

\* A second read of the table, in a transaction of its own.
SelectForUser(p) ==
    /\ Goto(p, "snapped", "read")
    /\ \E replay \in InReplayOrder(stored) : events' = [events EXCEPT ![p] = replay]
    /\ UNCHANGED <<snap, outbox, backup, advisory, lockVars, kafkaVars,
                   stored, arrived, used>>

DeleteUserTransactions(p) ==
    /\ Goto(p, "read", "wiped")
    /\ stored' = {}
    /\ UNCHANGED <<snap, events, outbox, backup, advisory, lockVars, kafkaVars,
                   arrived, used>>

\* produce() only enqueues; flush(timeout=30) may return with messages left.
PublishNormalizedEvents(p) ==
    /\ Goto(p, "wiped", "waiting")
    /\ outbox' = [outbox EXCEPT ![p] = @ \o events[p]]
    /\ UNCHANGED <<snap, events, backup, advisory, lockVars, kafkaVars,
                   stored, arrived, used>>

\* produce() raises out of the retry (a full local queue is a BufferError,
\* which "except KafkaException" does not catch): a prefix is enqueued.
PublishRaises(p) ==
    /\ Goto(p, "wiped", "restoring")
    /\ \E n \in 0 .. Len(events[p]) - 1 :
          outbox' = [outbox EXCEPT ![p] = @ \o SubSeq(events[p], 1, n)]
    /\ UNCHANGED <<snap, events, backup, advisory, lockVars, kafkaVars,
                   stored, arrived, used>>

CatchupReached(p) ==
    /\ Cardinality(stored) >= Len(events[p])
    /\ Goto(p, "waiting", "verifying")
    /\ UNCHANGED <<snap, events, outbox, backup, advisory, lockVars, kafkaVars,
                   stored, arrived, used>>

\* Mutant: the deadline is only looked at while no row has come back.
TimeoutOnlyWhenEmpty(p) ==
    /\ events[p] # <<>> /\ stored = {}
    /\ Goto(p, "waiting", "restoring")
    /\ UNCHANGED <<snap, events, outbox, backup, advisory, lockVars, kafkaVars,
                   stored, arrived, used>>

\* The last poll precedes the timeout, so the count may be right by then; a poll
\* that raises has the same effect.
CatchupTimeout(p) ==
    /\ events[p] # <<>>
    /\ Goto(p, "waiting", "restoring")
    /\ UNCHANGED <<snap, events, outbox, backup, advisory, lockVars, kafkaVars,
                   stored, arrived, used>>

\* Mutant: rows are counted instead of compared by id.
VerifyByCount(p) ==
    /\ Goto(p, "verifying",
            IF Cardinality(stored) >= Cardinality(snap[p]) THEN "releasing" ELSE "restoring")
    /\ UNCHANGED <<snap, events, outbox, backup, advisory, lockVars, kafkaVars,
                   stored, arrived, used>>

VerifySnapshot(p) ==
    /\ Goto(p, "verifying",
            IF snap[p] \subseteq stored THEN "releasing" ELSE "restoring")
    /\ UNCHANGED <<snap, events, outbox, backup, advisory, lockVars, kafkaVars,
                   stored, arrived, used>>

\* Mutant: nothing is inserted when the replay has already written a row.
RestoreIntoEmpty(p) ==
    /\ Goto(p, "restoring", "releasing")
    /\ stored' = IF stored = {} THEN backup.rows ELSE stored
    /\ UNCHANGED <<snap, events, outbox, backup, advisory, lockVars, kafkaVars,
                   arrived, used>>

\* A statement inside the recovery zone fails and the session survives.
VerifyRaises(p) ==
    /\ Goto(p, "verifying", "restoring")
    /\ UNCHANGED <<snap, events, outbox, backup, advisory, lockVars, kafkaVars,
                   stored, arrived, used>>

\* The most recent backup row, whoever wrote it.
RestoreFromBackup(p) ==
    /\ Goto(p, "restoring", "releasing")
    /\ stored' = stored \cup backup.rows
    /\ UNCHANGED <<snap, events, outbox, backup, advisory, lockVars, kafkaVars,
                   arrived, used>>

\* pg_advisory_unlock takes effect at once, inside the still open transaction.
AdvisoryUnlock(p) ==
    /\ Goto(p, "releasing", "unlocking")
    /\ advisory' = NoPod
    /\ UNCHANGED <<snap, events, outbox, backup, lockVars, kafkaVars,
                   stored, arrived, used>>

CommitRelease(p) ==
    /\ Goto(p, "unlocking", "done")
    /\ lockRow' = FALSE
    /\ UNCHANGED <<snap, events, outbox, backup, advisory, trigger, kafkaVars,
                   stored, arrived, used>>

-----------------------------------------------------------------------------
(* Failures of the pod.                                                    *)

\* Mutant: a stopped pod reports a phase nobody else knows.
StoppedPhaseUnknown(phase) == IF phase \in OwesRows THEN "failed" ELSE "aborted"

StoppedPhase(phase) == IF phase \in OwesRows THEN "stranded" ELSE "aborted"

\* The pod is killed, or a statement outside the recovery zone or inside the
\* restore raises: nothing releases the lock row.  A killed pod loses its
\* producer queue, an exception leaves it to the shutdown flush.
PodFails(p) ==
    /\ pc[p] \in Live
    /\ pc' = [pc EXCEPT ![p] = StoppedPhase(@)]
    /\ outbox' \in {outbox, [outbox EXCEPT ![p] = <<>>]}
    /\ Spend("failures")
    /\ UNCHANGED <<snap, events, backup, advisory, lockVars, kafkaVars,
                   stored, arrived>>

\* The DELETE commits on the server and its reply is lost: the exception is
\* raised before the recovery zone is entered.
DeleteReplyLost(p) ==
    /\ Goto(p, "read", "stranded")
    /\ stored' = {}
    /\ Spend("failures")
    /\ UNCHANGED <<snap, events, outbox, backup, advisory, lockVars, kafkaVars,
                   arrived>>

\* The session ends (finally: session_conn.close(), or the server notices).
SessionCloses(p) ==
    /\ pc[p] \in Terminal
    /\ advisory = p
    /\ advisory' = NoPod
    /\ UNCHANGED <<pc, snap, events, outbox, backup, lockVars, kafkaVars,
                   stored, arrived, used>>

-----------------------------------------------------------------------------
(* Kafka and the enrichment consumer.                                      *)

Deliver(p) ==
    /\ outbox[p] # <<>>
    /\ topic' = Append(topic, Head(outbox[p]))
    /\ outbox' = [outbox EXCEPT ![p] = Tail(@)]
    /\ UNCHANGED <<pc, snap, events, backup, advisory, lockVars, enr,
                   stored, arrived, used>>

\* on_delivery logs the error and drops the message; so does the shutdown
\* flush with whatever is left after ten seconds.
DeliveryFails(p) ==
    /\ outbox[p] # <<>>
    /\ outbox' = [outbox EXCEPT ![p] = Tail(@)]
    /\ Spend("drops")
    /\ UNCHANGED <<pc, snap, events, backup, advisory, lockVars, kafkaVars,
                   stored, arrived>>

\* The normalization consumer or the staging drain publishes an event.
Arrive(t) ==
    /\ StrictRouting => ~lockRow
    /\ topic' = Append(topic, t)
    /\ arrived' = arrived \cup {t}
    /\ Spend("arrivals")
    /\ UNCHANGED <<jobVars, lockVars, enr, stored>>

\* One database transaction: INSERT ... ON CONFLICT (id) DO NOTHING.
EnrichInsert ==
    /\ enr = "polling"
    /\ topic # <<>>
    /\ stored' = stored \cup {Head(topic)}
    /\ enr' = "inserted"
    /\ UNCHANGED <<jobVars, lockVars, topic, arrived, used>>

\* Mutant: the offset is committed as soon as the message is polled.
AutoCommit ==
    /\ topic # <<>>
    /\ topic' = Tail(topic)
    /\ enr' = "polling"
    /\ UNCHANGED <<jobVars, lockVars, stored, arrived, used>>

EnrichCommit ==
    /\ enr = "inserted"
    /\ topic' = Tail(topic)
    /\ enr' = "polling"
    /\ UNCHANGED <<jobVars, lockVars, stored, arrived, used>>

\* A crash before the offset commit: the message is delivered again.
EnrichCrash ==
    /\ enr = "inserted"
    /\ enr' = "polling"
    /\ Spend("drops")
    /\ UNCHANGED <<jobVars, lockVars, topic, stored, arrived>>

-----------------------------------------------------------------------------
(* The operator's recovery of a job that stopped, once no pod is running.  *)

Quiet == trigger = NoPod /\ \A p \in Pods : pc[p] \notin Live

OperatorRestore(p) ==
    /\ Quiet
    /\ Goto(p, "stranded", "aborted")
    /\ stored' = stored \cup snap[p]
    /\ UNCHANGED <<snap, events, outbox, backup, advisory, lockVars, kafkaVars,
                   arrived, used>>

OperatorClearsLock ==
    /\ Quiet
    /\ lockRow
    /\ \A p \in Pods : pc[p] # "stranded"
    /\ lockRow' = FALSE
    /\ UNCHANGED <<jobVars, trigger, kafkaVars, stored, arrived, used>>

-----------------------------------------------------------------------------
PodStep(p) ==
    \/ LockExists(p)
    \/ AcquireAdvisoryLock(p)
    \/ SnapshotTransactions(p)
    \/ SelectForUser(p)
    \/ DeleteUserTransactions(p)
    \/ PublishNormalizedEvents(p)
    \/ PublishRaises(p)
    \/ CatchupReached(p)
    \/ CatchupTimeout(p)
    \/ VerifySnapshot(p)
    \/ VerifyRaises(p)
    \/ RestoreFromBackup(p)
    \/ AdvisoryUnlock(p)
    \/ CommitRelease(p)

PodFault(p) == PodFails(p) \/ DeleteReplyLost(p) \/ DeliveryFails(p)

Enrichment == EnrichInsert \/ EnrichCommit

Next ==
    \/ \E p \in Pods : SubmitJob(p) \/ PodStep(p) \/ PodFault(p)
                         \/ SessionCloses(p) \/ Deliver(p) \/ OperatorRestore(p)
    \/ CommitTrigger \/ RollbackTrigger
    \/ \E t \in Tx : Arrive(t)
    \/ Enrichment \/ EnrichCrash
    \/ OperatorClearsLock

Spec == Init /\ [][Next]_vars

\* Whatever has been started goes on: the request handler finishes, a pod that
\* is running takes its next step, sockets close, the producer's background
\* thread and the enrichment consumer make progress.  Nobody has to trigger a
\* job, publish an event, fail, or act as operator.
Fairness ==
    /\ WF_vars(CommitTrigger)
    /\ WF_vars(Enrichment)
    /\ \A p \in Pods : /\ WF_vars(PodStep(p))
                       /\ WF_vars(SessionCloses(p))
                       /\ WF_vars(Deliver(p))

FairSpec == Spec /\ Fairness
=============================================================================
