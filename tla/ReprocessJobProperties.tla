----------------------- MODULE ReprocessJobProperties -----------------------
(***************************************************************************)
(* What the reprocess job guarantees, and what its documentation says of   *)
(* it that the code does not keep.                                         *)
(***************************************************************************)
EXTENDS ReprocessJob

\* Every id recorded in the most recent reprocessing_backups row is in the
\* transactions table, except while the pod that wrote the backup is between
\* its DELETE and a successful verification or restore, or stopped there.
\* So when a pod reports success, or releases the lock after a restore, no row
\* it had backed up is missing, whatever the other pods did.
BackupHonoured ==
    \/ backup.by = NoPod
    \/ pc[backup.by] \in OwesRows \cup {"stranded"}
    \/ backup.rows \subseteq stored

\* As long as the producer loses nothing, a row that was deleted is never out
\* of reach while its pod waits: it is in the table, in the partition or in the
\* pod's producer queue.  A catch-up timeout is then only a matter of time, and
\* never the sign of a lost row.
ReplayConserved ==
    used.drops = 0 =>
        \A p \in Pods : pc[p] \in {"waiting", "verifying"} =>
            snap[p] \subseteq stored \cup Range(topic) \cup Range(outbox[p])

\* A user whose rows are missing because a job stopped half way stays locked,
\* and no other job touches the table, until an operator has restored it.
StrandedKeepsLock ==
    \A p \in Pods : pc[p] = "stranded" =>
        /\ lockRow
        /\ \A q \in Pods \ {p} : pc[q] \notin Live \ {"created"}

\* A pod that passed the lock-row assertion always ends, and unless it was
\* killed or its own recovery failed it ends with the routing row deleted, so
\* that the user does not stay in "refreshing" for ever: not when the broker
\* loses the replay, nor when another pod of the user has the advisory lock.
JobReleasesLock ==
    \A p \in Pods :
        (pc[p] = "checked")
            ~> ((pc[p] = "done" /\ ~lockRow) \/ pc[p] \in {"aborted", "stranded"})

-----------------------------------------------------------------------------
(* The detailed job implements the contract.                               *)

\* What a phase of the pod that wrote the latest backup means for the table.
PhaseMeaning(phase) ==
    IF phase = "stranded" THEN "stranded"
    ELSE IF phase \in OwesRows THEN "rebuilding" ELSE "settled"

TablePhase == IF backup.by = NoPod THEN "settled" ELSE PhaseMeaning(pc[backup.by])

Contract == INSTANCE ReprocessContract WITH
    rows <- stored, owed <- backup.rows, phase <- TablePhase

\* Backup, deletion, replay, verification, restore and operator recovery of the
\* whole system are the steps of ReprocessContract and nothing else.
RefinesContract == Contract!Spec

-----------------------------------------------------------------------------
(* Statements of the repository that the code does not keep.               *)

\* functional-spec.md:301 "No data loss from race conditions": every event that
\* reached the pipeline is in the table, on its way to it, or in the backup.
NoEventLost ==
    arrived \subseteq stored \cup Range(topic) \cup backup.rows
                      \cup UNION {Range(outbox[p]) \cup Range(events[p]) : p \in Pods}
=============================================================================
