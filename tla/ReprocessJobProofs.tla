------------------------- MODULE ReprocessJobProofs -------------------------
(***************************************************************************)
(* Machine-checked proofs about the reprocess job, for any number of pods, *)
(* any set of transactions and any bounds.                                 *)
(***************************************************************************)
EXTENDS ReprocessJobProperties, SequenceTheorems, FiniteSetTheorems, TLAPS

-----------------------------------------------------------------------------
(* Type correctness.                                                       *)

\* The rows in replay order are a sequence of rows.
LEMMA ReplayIsSequence ==
    ASSUME NEW rows \in SUBSET Tx, NEW replay \in InReplayOrder(rows)
    PROVE  replay \in Seq(Tx)
  <1>1. IsFiniteSet(rows)
    BY ConstantsAssumption, FS_Subset
  <1>2. Cardinality(rows) \in Nat
    BY <1>1, FS_CardinalityType
  <1>3. replay \in [1 .. Cardinality(rows) -> Tx]
    BY DEF InReplayOrder
  <1> QED
    BY <1>2, <1>3, SeqDef

\* Between the insert and the offset commit the message is still there: without
\* this the type of the partition would not be preserved by the commit.
InsertedMessage == enr = "inserted" => topic # <<>>

\* Both hold before anything was triggered.
LEMMA TypeOKInit == Init => TypeOK /\ InsertedMessage
  <1> SUFFICES ASSUME Init PROVE TypeOK /\ InsertedMessage
    OBVIOUS
  <1>1. <<>> \in Seq(Tx)
    OBVIOUS
  <1>2. /\ events \in [Pods -> Seq(Tx)]
        /\ outbox \in [Pods -> Seq(Tx)]
        /\ topic \in Seq(Tx)
    BY <1>1 DEF Init
  <1>3. /\ pc \in [Pods -> {"none"}]
        /\ snap \in [Pods -> SUBSET Tx]
        /\ used \in [{"arrivals", "failures", "drops", "rollbacks"} -> Nat]
    BY DEF Init
  <1> QED
    BY <1>2, <1>3 DEF Init, TypeOK, InsertedMessage, Phases

\* Whatever is spent, the counters stay counters.
LEMMA SpendTyped ==
    ASSUME used \in [{"arrivals", "failures", "drops", "rollbacks"} -> Nat],
           NEW kind \in {"arrivals", "failures", "drops", "rollbacks"}, Spend(kind)
    PROVE  used' \in [{"arrivals", "failures", "drops", "rollbacks"} -> Nat]
  BY DEF Spend

\* The types, and what the offset commit needs besides.
LEMMA MessageStays == Spec => [](TypeOK /\ InsertedMessage)
  <1> USE DEF Phases, Live, Holding, Terminal
  <1>2. TypeOK /\ InsertedMessage /\ [Next]_vars => TypeOK'
    <2> SUFFICES ASSUME TypeOK, InsertedMessage, [Next]_vars PROVE TypeOK'
      OBVIOUS
    <2>0. \A kind \in {"arrivals", "failures", "drops", "rollbacks"} :
            Spend(kind) => used' \in [{"arrivals", "failures", "drops", "rollbacks"} -> Nat]
      BY SpendTyped DEF TypeOK
    <2> USE DEF TypeOK, jobVars, lockVars, kafkaVars, Goto
    <2>1. ASSUME NEW p \in Pods, SubmitJob(p) PROVE TypeOK'
      BY <2>1 DEF SubmitJob
    <2>2. ASSUME CommitTrigger PROVE TypeOK'
      BY <2>2 DEF CommitTrigger
    <2>3. ASSUME RollbackTrigger PROVE TypeOK'
      BY <2>0, <2>3 DEF RollbackTrigger
    <2>4. ASSUME NEW p \in Pods, LockExists(p) PROVE TypeOK'
      BY <2>4 DEF LockExists
    <2>5. ASSUME NEW p \in Pods, AcquireAdvisoryLock(p) PROVE TypeOK'
      BY <2>5 DEF AcquireAdvisoryLock
    <2>6. ASSUME NEW p \in Pods, SnapshotTransactions(p) PROVE TypeOK'
      BY <2>6 DEF SnapshotTransactions
    <2>7. ASSUME NEW p \in Pods, SelectForUser(p) PROVE TypeOK'
      BY <2>7, ReplayIsSequence DEF SelectForUser
    <2>8. ASSUME NEW p \in Pods, DeleteUserTransactions(p) PROVE TypeOK'
      BY <2>8 DEF DeleteUserTransactions
    <2>9. ASSUME NEW p \in Pods, PublishNormalizedEvents(p) PROVE TypeOK'
      <3>1. outbox' \in [Pods -> Seq(Tx)]
        <4>1. outbox[p] \o events[p] \in Seq(Tx)
          BY ConcatProperties
        <4> QED
          BY <2>9, <4>1 DEF PublishNormalizedEvents
      <3> QED
        BY <2>9, <3>1 DEF PublishNormalizedEvents
    <2>10. ASSUME NEW p \in Pods, PublishRaises(p) PROVE TypeOK'
      <3>1. PICK n \in 0 .. Len(events[p]) - 1 :
              outbox' = [outbox EXCEPT ![p] = @ \o SubSeq(events[p], 1, n)]
        BY <2>10 DEF PublishRaises
      <3>2. outbox' \in [Pods -> Seq(Tx)]
        <4>1. SubSeq(events[p], 1, n) \in Seq(Tx)
          BY <3>1
        <4>2. outbox[p] \o SubSeq(events[p], 1, n) \in Seq(Tx)
          BY <4>1, ConcatProperties
        <4> QED
          BY <3>1, <4>2
      <3> QED
        BY <2>10, <3>2 DEF PublishRaises
    <2>11. ASSUME NEW p \in Pods, CatchupReached(p) PROVE TypeOK'
      BY <2>11 DEF CatchupReached
    <2>12. ASSUME NEW p \in Pods, CatchupTimeout(p) PROVE TypeOK'
      BY <2>12 DEF CatchupTimeout
    <2>13. ASSUME NEW p \in Pods, VerifySnapshot(p) PROVE TypeOK'
      BY <2>13 DEF VerifySnapshot
    <2>29. ASSUME NEW p \in Pods, VerifyRaises(p) PROVE TypeOK'
      BY <2>29 DEF VerifyRaises
    <2>14. ASSUME NEW p \in Pods, RestoreFromBackup(p) PROVE TypeOK'
      BY <2>14 DEF RestoreFromBackup
    <2>15. ASSUME NEW p \in Pods, AdvisoryUnlock(p) PROVE TypeOK'
      BY <2>15 DEF AdvisoryUnlock
    <2>16. ASSUME NEW p \in Pods, CommitRelease(p) PROVE TypeOK'
      BY <2>16 DEF CommitRelease
    <2>17. ASSUME NEW p \in Pods, PodFails(p) PROVE TypeOK'
      <3>1. pc' \in [Pods -> Phases]
        BY <2>17 DEF PodFails, StoppedPhase
      <3>2. outbox' \in [Pods -> Seq(Tx)]
        <4>1. [outbox EXCEPT ![p] = <<>>] \in [Pods -> Seq(Tx)]
          OBVIOUS
        <4> QED
          BY <2>17, <4>1 DEF PodFails
      <3>3. used' \in [{"arrivals", "failures", "drops", "rollbacks"} -> Nat]
        BY <2>0, <2>17 DEF PodFails
      <3> QED
        BY <2>17, <3>1, <3>2, <3>3 DEF PodFails
    <2>18. ASSUME NEW p \in Pods, DeleteReplyLost(p) PROVE TypeOK'
      BY <2>0, <2>18 DEF DeleteReplyLost
    <2>19. ASSUME NEW p \in Pods, SessionCloses(p) PROVE TypeOK'
      BY <2>19 DEF SessionCloses
    <2>20. ASSUME NEW p \in Pods, Deliver(p) PROVE TypeOK'
      <3>1. /\ outbox[p] \in Seq(Tx)
            /\ outbox[p] # <<>>
        BY <2>20 DEF Deliver
      <3>2. /\ Head(outbox[p]) \in Tx
            /\ Tail(outbox[p]) \in Seq(Tx)
        BY <3>1
      <3>3. topic' \in Seq(Tx)
        BY <2>20, <3>2 DEF Deliver
      <3>4. outbox' \in [Pods -> Seq(Tx)]
        BY <2>20, <3>2 DEF Deliver
      <3> QED
        BY <2>20, <3>3, <3>4 DEF Deliver
    <2>21. ASSUME NEW p \in Pods, DeliveryFails(p) PROVE TypeOK'
      <3>1. outbox' \in [Pods -> Seq(Tx)]
        <4>1. Tail(outbox[p]) \in Seq(Tx)
          BY <2>21 DEF DeliveryFails
        <4> QED
          BY <2>21, <4>1 DEF DeliveryFails
      <3>2. used' \in [{"arrivals", "failures", "drops", "rollbacks"} -> Nat]
        BY <2>0, <2>21 DEF DeliveryFails
      <3> QED
        BY <2>21, <3>1, <3>2 DEF DeliveryFails
    <2>22. ASSUME NEW t \in Tx, Arrive(t) PROVE TypeOK'
      <3>1. topic' \in Seq(Tx)
        BY <2>22, AppendProperties DEF Arrive
      <3> QED
        BY <2>0, <2>22, <3>1 DEF Arrive
    <2>23. ASSUME EnrichInsert PROVE TypeOK'
      BY <2>23 DEF EnrichInsert
    <2>24. ASSUME EnrichCommit PROVE TypeOK'
      BY <2>24 DEF EnrichCommit, InsertedMessage
    <2>25. ASSUME EnrichCrash PROVE TypeOK'
      BY <2>0, <2>25 DEF EnrichCrash
    <2>26. ASSUME NEW p \in Pods, OperatorRestore(p) PROVE TypeOK'
      BY <2>26 DEF OperatorRestore, Quiet
    <2>27. ASSUME OperatorClearsLock PROVE TypeOK'
      BY <2>27 DEF OperatorClearsLock, Quiet
    <2>28. CASE UNCHANGED vars
      BY <2>28 DEF vars
    <2> QED
      BY <2>1, <2>2, <2>3, <2>4, <2>5, <2>6, <2>7, <2>8, <2>9, <2>10, <2>11, <2>12,
         <2>13, <2>14, <2>15, <2>16, <2>17, <2>18, <2>19, <2>20, <2>21, <2>22, <2>23,
         <2>24, <2>25, <2>26, <2>27, <2>28, <2>29
         DEF Next, PodStep, PodFault, Enrichment
  <1>3. TypeOK /\ InsertedMessage /\ [Next]_vars => InsertedMessage'
    <2> SUFFICES ASSUME TypeOK, InsertedMessage, [Next]_vars PROVE InsertedMessage'
      OBVIOUS
    <2> USE DEF InsertedMessage, TypeOK, jobVars, lockVars, kafkaVars
    <2>1. ASSUME NEW p \in Pods, Deliver(p) PROVE InsertedMessage'
      BY <2>1 DEF Deliver
    <2>2. ASSUME NEW t \in Tx, Arrive(t) PROVE InsertedMessage'
      BY <2>2 DEF Arrive
    <2>3. CASE Enrichment \/ EnrichCrash
      BY <2>3 DEF Enrichment, EnrichInsert, EnrichCommit, EnrichCrash
    <2>4. CASE UNCHANGED <<topic, enr>>
      BY <2>4
    <2>5. ASSUME NEW p \in Pods, PodStep(p) PROVE UNCHANGED <<topic, enr>>
      BY <2>5 DEF PodStep, LockExists, AcquireAdvisoryLock, SnapshotTransactions,
         SelectForUser, DeleteUserTransactions, PublishNormalizedEvents,
         PublishRaises, CatchupReached, CatchupTimeout, VerifySnapshot,
         VerifyRaises, RestoreFromBackup, AdvisoryUnlock, CommitRelease
    <2>6. ASSUME NEW p \in Pods,
                 SubmitJob(p) \/ PodFault(p) \/ SessionCloses(p) \/ OperatorRestore(p)
          PROVE  UNCHANGED <<topic, enr>>
      BY <2>6 DEF SubmitJob, PodFault, PodFails, DeleteReplyLost, DeliveryFails,
         SessionCloses, OperatorRestore
    <2>7. CASE CommitTrigger \/ RollbackTrigger \/ OperatorClearsLock
      BY <2>7 DEF CommitTrigger, RollbackTrigger, OperatorClearsLock
    <2>8. CASE UNCHANGED vars
      BY <2>8 DEF vars
    <2> QED
      BY <2>1, <2>2, <2>3, <2>4, <2>5, <2>6, <2>7, <2>8 DEF Next
  <1> QED
    BY TypeOKInit, <1>2, <1>3, PTL DEF Spec

\* Type correctness of the job, its queues and its bookkeeping.
THEOREM TypeCorrect == Spec => []TypeOK
  BY MessageStays, PTL

-----------------------------------------------------------------------------
(* Backed-up rows are never missing after a job.                           *)

\* A pod works on the table only while its session has the advisory lock.
HoldersLock == \A p \in Pods : pc[p] \in Holding => advisory = p

\* A backup row holds what its writer remembers as snapshot_ids.
BackupIsSnapshot == backup.by \in Pods => backup.rows = snap[backup.by]

\* While a pod works on the table the most recent backup row is its own.
HoldersBackup ==
    \A p \in Pods : pc[p] \in Holding \ {"acquired"} => backup.by = p

\* The inductive invariant: BackupHonoured alone is not preserved, because the
\* restore reads "the most recent backup row" and verification looks at the
\* pod's own snapshot_ids; mutual exclusion makes the two the same.
JobInv ==
    /\ TypeOK
    /\ HoldersLock
    /\ BackupIsSnapshot
    /\ HoldersBackup
    /\ BackupHonoured

\* The phases and variables that a step of Kafka, of the consumer, of a
\* request or of the operator's clearing leaves alone.
tableVars == <<pc, snap, backup, advisory>>

\* Rows are only added while every pod stays where it is.
LEMMA AddingRows ==
    ASSUME JobInv, TypeOK', UNCHANGED tableVars, stored \subseteq stored'
    PROVE  JobInv'
  BY DEF JobInv, tableVars, HoldersLock, BackupIsSnapshot, HoldersBackup, BackupHonoured

\* A step of one pod that touches neither backup nor table keeps the invariant
\* when the pod keeps its lock, or leaves with the recorded rows in place.
LEMMA PodMoves ==
    ASSUME JobInv, TypeOK', NEW p \in Pods, NEW to \in Phases,
           pc' = [pc EXCEPT ![p] = to],
           UNCHANGED <<snap, backup, stored>>,
           advisory' = advisory \/ (advisory = p /\ advisory' = NoPod),
           to \in Holding => advisory' = p,
           to \in Holding \ {"acquired"} => backup.by = p,
           backup.by = p => \/ to \in OwesRows \cup {"stranded"}
                            \/ backup.rows \subseteq stored
    PROVE  JobInv'
  <1> USE DEF JobInv, TypeOK
  <1>1. ASSUME NEW q \in Pods PROVE pc'[q] = IF q = p THEN to ELSE pc[q]
    OBVIOUS
  <1>2. HoldersLock'
    <2> SUFFICES ASSUME NEW q \in Pods, pc'[q] \in Holding PROVE advisory' = q
      BY DEF HoldersLock
    <2>1. CASE q = p
      BY <2>1, <1>1
    <2>2. CASE q # p
      BY <2>2, <1>1 DEF HoldersLock
    <2> QED
      BY <2>1, <2>2
  <1>3. BackupIsSnapshot'
    BY DEF BackupIsSnapshot
  <1>4. HoldersBackup'
    BY <1>1 DEF HoldersBackup
  <1>5. BackupHonoured'
    BY <1>1 DEF BackupHonoured
  <1> QED
    BY <1>2, <1>3, <1>4, <1>5

\* A pod that owes no rows has its backup, if it is the latest, in the table.
LEMMA OwesNothing ==
    ASSUME JobInv, NEW p \in Pods, pc[p] \notin OwesRows \cup {"stranded"}
    PROVE  backup.by = p => backup.rows \subseteq stored
  BY ConstantsAssumption DEF JobInv, BackupHonoured

\* No pod has started, and there is no backup row.
LEMMA JobInvInit == Init => JobInv
  <1> SUFFICES ASSUME Init PROVE JobInv
    OBVIOUS
  <1>1. TypeOK
    BY TypeOKInit
  <1>2. \A p \in Pods : pc[p] = "none"
    BY DEF Init
  <1> QED
    BY <1>1, <1>2, ConstantsAssumption
       DEF Init, JobInv, HoldersLock, BackupIsSnapshot, HoldersBackup,
           BackupHonoured, Holding

\* Every step of a pod, a request, Kafka or the operator preserves JobInv.
LEMMA JobInvStep == JobInv /\ TypeOK' /\ [Next]_vars => JobInv'
  <1> SUFFICES ASSUME JobInv, TypeOK', [Next]_vars PROVE JobInv'
    OBVIOUS
  <1> USE DEF Goto, Holding, OwesRows, Phases, Live, Terminal, lockVars, kafkaVars, jobVars
  <1>1. ASSUME NEW p \in Pods, PodStep(p) PROVE JobInv'
    <2>1. CASE LockExists(p)
      <3>1. backup.by = p => backup.rows \subseteq stored
        BY <2>1, OwesNothing DEF LockExists
      <3>2. CASE lockRow
        BY <2>1, <3>1, <3>2, PodMoves DEF LockExists
      <3>3. CASE ~lockRow
        BY <2>1, <3>1, <3>3, PodMoves DEF LockExists
      <3> QED
        BY <3>2, <3>3
    <2>2. CASE AcquireAdvisoryLock(p)
      <3>1. \A q \in Pods : pc[q] \notin Holding
        BY <2>2, ConstantsAssumption DEF AcquireAdvisoryLock, JobInv, HoldersLock
      <3>2. \A q \in Pods : pc'[q] = IF q = p THEN "acquired" ELSE pc[q]
        BY <2>2 DEF AcquireAdvisoryLock, JobInv, TypeOK
      <3> QED
        BY <2>2, <3>1, <3>2
           DEF AcquireAdvisoryLock, JobInv, HoldersLock, BackupIsSnapshot,
               HoldersBackup, BackupHonoured
    <2>3. CASE SnapshotTransactions(p)
      <3>1. \A q \in Pods : pc'[q] = IF q = p THEN "snapped" ELSE pc[q]
        BY <2>3 DEF SnapshotTransactions, JobInv, TypeOK
      <3>2. advisory = p /\ advisory' = p
        BY <2>3 DEF SnapshotTransactions, JobInv, HoldersLock
      <3>3. backup'.by = p /\ backup'.rows = stored /\ snap'[p] = stored /\ stored' = stored
        BY <2>3 DEF SnapshotTransactions, JobInv, TypeOK
      <3>4. HoldersLock'
        BY <3>1, <3>2 DEF JobInv, HoldersLock
      <3>5. HoldersBackup'
        BY <3>1, <3>2, <3>3 DEF JobInv, HoldersBackup, HoldersLock
      <3> QED
        BY <3>1, <3>3, <3>4, <3>5 DEF JobInv, BackupIsSnapshot, BackupHonoured
    <2>4. CASE SelectForUser(p)
      <3>1. backup.by = p => backup.rows \subseteq stored
        BY <2>4, OwesNothing DEF SelectForUser
      <3>2. advisory = p /\ backup.by = p
        BY <2>4 DEF SelectForUser, JobInv, HoldersLock, HoldersBackup
      <3> QED
        BY <2>4, <3>1, <3>2, PodMoves DEF SelectForUser
    <2>5. CASE DeleteUserTransactions(p)
      <3>1. \A q \in Pods : pc'[q] = IF q = p THEN "wiped" ELSE pc[q]
        BY <2>5 DEF DeleteUserTransactions, JobInv, TypeOK
      <3>2. advisory = p /\ backup.by = p
        BY <2>5 DEF DeleteUserTransactions, JobInv, HoldersLock, HoldersBackup
      <3> QED
        BY <2>5, <3>1, <3>2
           DEF DeleteUserTransactions, JobInv, HoldersLock, BackupIsSnapshot,
               HoldersBackup, BackupHonoured
    <2>6. CASE PublishNormalizedEvents(p)
      BY <1>1, <2>6, PodMoves DEF PublishNormalizedEvents, JobInv, HoldersLock, HoldersBackup
    <2>7. CASE PublishRaises(p)
      BY <1>1, <2>7, PodMoves DEF PublishRaises, JobInv, HoldersLock, HoldersBackup
    <2>8. CASE CatchupReached(p)
      BY <1>1, <2>8, PodMoves DEF CatchupReached, JobInv, HoldersLock, HoldersBackup
    <2>9. CASE CatchupTimeout(p)
      BY <1>1, <2>9, PodMoves DEF CatchupTimeout, JobInv, HoldersLock, HoldersBackup
    <2>10. CASE VerifySnapshot(p)
      <3>1. advisory = p /\ backup.by = p /\ backup.rows = snap[p]
        BY <1>1, <2>10 DEF VerifySnapshot, JobInv, HoldersLock, HoldersBackup, BackupIsSnapshot
      <3>2. CASE snap[p] \subseteq stored
        BY <1>1, <2>10, <3>1, <3>2, PodMoves DEF VerifySnapshot
      <3>3. CASE ~(snap[p] \subseteq stored)
        BY <1>1, <2>10, <3>1, <3>3, PodMoves DEF VerifySnapshot
      <3> QED
        BY <3>2, <3>3
    <2>14. CASE VerifyRaises(p)
      BY <1>1, <2>14, PodMoves DEF VerifyRaises, JobInv, HoldersLock, HoldersBackup
    <2>11. CASE RestoreFromBackup(p)
      <3>1. \A q \in Pods : pc'[q] = IF q = p THEN "releasing" ELSE pc[q]
        BY <2>11 DEF RestoreFromBackup, JobInv, TypeOK
      <3>2. advisory = p /\ backup.by = p
        BY <2>11 DEF RestoreFromBackup, JobInv, HoldersLock, HoldersBackup
      <3> QED
        BY <2>11, <3>1, <3>2
           DEF RestoreFromBackup, JobInv, HoldersLock, BackupIsSnapshot,
               HoldersBackup, BackupHonoured
    <2>12. CASE AdvisoryUnlock(p)
      <3>1. backup.by = p => backup.rows \subseteq stored
        BY <2>12, OwesNothing DEF AdvisoryUnlock
      <3>2. advisory = p
        BY <2>12 DEF AdvisoryUnlock, JobInv, HoldersLock
      <3> QED
        BY <2>12, <3>1, <3>2, PodMoves DEF AdvisoryUnlock
    <2>13. CASE CommitRelease(p)
      <3>1. backup.by = p => backup.rows \subseteq stored
        BY <2>13, OwesNothing DEF CommitRelease
      <3> QED
        BY <2>13, <3>1, PodMoves DEF CommitRelease
    <2> QED
      BY <1>1, <2>1, <2>2, <2>3, <2>4, <2>5, <2>6, <2>7, <2>8, <2>9, <2>10, <2>11,
         <2>12, <2>13, <2>14 DEF PodStep
  <1>2. ASSUME NEW p \in Pods, SubmitJob(p) PROVE JobInv'
    <2>1. backup.by = p => backup.rows \subseteq stored
      BY <1>2, OwesNothing DEF SubmitJob
    <2> QED
      BY <1>2, <2>1, PodMoves DEF SubmitJob
  <1>3. ASSUME NEW p \in Pods, PodFails(p) PROVE JobInv'
    <2>1. pc[p] \in Phases
      BY <1>3 DEF JobInv, TypeOK
    <2>2. CASE pc[p] \in OwesRows
      BY <1>3, <2>2, PodMoves DEF PodFails, StoppedPhase
    <2>3. CASE pc[p] \notin OwesRows
      <3>1. backup.by = p => backup.rows \subseteq stored
        BY <1>3, <2>3, OwesNothing DEF PodFails
      <3> QED
        BY <1>3, <2>3, <3>1, PodMoves DEF PodFails, StoppedPhase
    <2> QED
      BY <2>2, <2>3
  <1>4. ASSUME NEW p \in Pods, DeleteReplyLost(p) PROVE JobInv'
    <2>1. \A q \in Pods : pc'[q] = IF q = p THEN "stranded" ELSE pc[q]
      BY <1>4 DEF DeleteReplyLost, JobInv, TypeOK
    <2>2. advisory = p /\ backup.by = p
      BY <1>4 DEF DeleteReplyLost, JobInv, HoldersLock, HoldersBackup
    <2> QED
      BY <1>4, <2>1, <2>2
         DEF DeleteReplyLost, JobInv, HoldersLock, BackupIsSnapshot, HoldersBackup,
             BackupHonoured
  <1>5. ASSUME NEW p \in Pods, SessionCloses(p) PROVE JobInv'
    BY <1>5 DEF SessionCloses, JobInv, HoldersLock, BackupIsSnapshot, HoldersBackup,
       BackupHonoured
  <1>6. ASSUME NEW p \in Pods, OperatorRestore(p) PROVE JobInv'
    <2>1. \A q \in Pods : pc'[q] = IF q = p THEN "aborted" ELSE pc[q]
      BY <1>6 DEF OperatorRestore, JobInv, TypeOK
    <2> QED
      BY <1>6, <2>1
         DEF OperatorRestore, JobInv, HoldersLock, BackupIsSnapshot, HoldersBackup,
             BackupHonoured
  <1>7. ASSUME NEW p \in Pods, Deliver(p) \/ DeliveryFails(p) PROVE JobInv'
    BY <1>7, AddingRows DEF Deliver, DeliveryFails, tableVars
  <1>8. CASE CommitTrigger \/ RollbackTrigger \/ OperatorClearsLock
    BY <1>8, AddingRows DEF CommitTrigger, RollbackTrigger, OperatorClearsLock, tableVars
  <1>9. ASSUME NEW t \in Tx, Arrive(t) PROVE JobInv'
    BY <1>9, AddingRows DEF Arrive, tableVars
  <1>10. CASE Enrichment \/ EnrichCrash
    BY <1>10, AddingRows DEF Enrichment, EnrichInsert, EnrichCommit, EnrichCrash, tableVars
  <1>11. CASE UNCHANGED vars
    BY <1>11, AddingRows DEF vars, tableVars
  <1> QED
    BY <1>1, <1>2, <1>3, <1>4, <1>5, <1>6, <1>7, <1>8, <1>9, <1>10, <1>11
       DEF Next, PodFault

\* Whatever pods run, fail or overlap, and whatever the broker and the consumer
\* do, the rows of the most recent backup are in the table unless the pod that
\* wrote it is still on its way from DELETE to verification or restore, or was
\* stopped on that way.
THEOREM BackupIsHonoured == Spec => []BackupHonoured
  <1>1. JobInv => BackupHonoured
    BY DEF JobInv
  <1> QED
    BY <1>1, JobInvInit, JobInvStep, TypeCorrect, PTL DEF Spec

-----------------------------------------------------------------------------
(* The replay.                                                             *)

\* Messages that the consumer has not inserted yet.
Unread == IF enr = "inserted" THEN Tail(topic) ELSE topic

\* What a pod remembers as snapshot_ids is in the table until it has read the table
\* again, then among the events it reconstructed, and then, unless the broker lost
\* something, in its producer queue, still to be inserted, or back in the table.
ReplayInv ==
    \A p \in Pods :
        /\ pc[p] = "snapped" => snap[p] \subseteq stored
        /\ pc[p] \in {"read", "wiped"} => snap[p] \subseteq Range(events[p])
        /\ pc[p] \in {"waiting", "verifying"} /\ used.drops = 0 =>
              snap[p] \subseteq stored \cup Range(Unread) \cup Range(outbox[p])

\* A message that is appended, or taken from the front, is the only difference.
LEMMA QueueMoves ==
    ASSUME NEW s \in Seq(Tx)
    PROVE  /\ \A t \in Tx : /\ Append(s, t) \in Seq(Tx) /\ Append(s, t) # <<>>
                            /\ Range(Append(s, t)) = Range(s) \cup {t}
           /\ s # <<>> => /\ Tail(s) \in Seq(Tx) /\ Head(s) \in Tx
                          /\ Range(s) = {Head(s)} \cup Range(Tail(s))
           /\ \A t \in Tx : s # <<>> => Tail(Append(s, t)) = Append(Tail(s), t)
  <1>1. ASSUME NEW t \in Tx PROVE Range(Append(s, t)) = Range(s) \cup {t}
    <2> DEFINE r == Append(s, t)
    <2>1. /\ Len(s) \in Nat /\ DOMAIN s = 1 .. Len(s) /\ DOMAIN r = 1 .. Len(s) + 1
          /\ r[Len(s) + 1] = t /\ \A i \in 1 .. Len(s) : r[i] = s[i]
      OBVIOUS
    <2> HIDE DEF r
    <2>2. \A x \in Range(r) : x \in Range(s) \cup {t}
      BY <2>1 DEF Range
    <2>3. \A x \in Range(s) \cup {t} : x \in Range(r)
      BY <2>1 DEF Range
    <2> QED
      BY <2>2, <2>3 DEF r
  <1>2. ASSUME s # <<>> PROVE /\ Tail(s) \in Seq(Tx) /\ Head(s) \in Tx
                              /\ Range(s) = {Head(s)} \cup Range(Tail(s))
    <2> DEFINE r == Tail(s)
    <2>1. /\ r \in Seq(Tx) /\ Head(s) \in Tx /\ Head(s) = s[1]
          /\ Len(s) \in Nat /\ Len(s) # 0 /\ DOMAIN s = 1 .. Len(s)
          /\ DOMAIN r = 1 .. Len(s) - 1 /\ \A i \in 1 .. Len(s) - 1 : r[i] = s[i + 1]
      BY <1>2
    <2>2. \A i \in DOMAIN s : i = 1 \/ (i - 1 \in DOMAIN r /\ s[i] = r[i - 1])
      BY <2>1
    <2>3. \A i \in DOMAIN r : i + 1 \in DOMAIN s /\ r[i] = s[i + 1]
      BY <2>1
    <2> HIDE DEF r
    <2>4. \A x \in Range(s) : x \in {Head(s)} \cup Range(r)
      BY <2>1, <2>2 DEF Range
    <2>5. \A x \in {Head(s)} \cup Range(r) : x \in Range(s)
      BY <2>1, <2>3 DEF Range
    <2> QED
      BY <2>1, <2>4, <2>5 DEF r
  <1>3. ASSUME NEW t \in Tx PROVE Append(s, t) \in Seq(Tx) /\ Append(s, t) # <<>>
    BY AppendProperties
  <1>4. ASSUME s # <<>>, NEW t \in Tx PROVE Tail(Append(s, t)) = Append(Tail(s), t)
    BY <1>4
  <1> QED
    BY <1>1, <1>2, <1>3, <1>4

\* A message that arrives is behind the others, also while the first is being committed.
LEMMA UnreadGrows ==
    ASSUME topic \in Seq(Tx), InsertedMessage, NEW m \in Tx,
           topic' = Append(topic, m), enr' = enr
    PROVE  Range(Unread') = Range(Unread) \cup {m}
  <1>1. CASE enr = "inserted"
    <2>1. topic # <<>> /\ Unread = Tail(topic) /\ Unread' = Tail(Append(topic, m))
      BY <1>1 DEF InsertedMessage, Unread
    <2>2. Tail(topic) \in Seq(Tx) /\ Unread' = Append(Tail(topic), m)
      BY <2>1, QueueMoves
    <2>3. Range(Append(Tail(topic), m)) = Range(Tail(topic)) \cup {m}
      BY <2>2, QueueMoves
    <2> QED
      BY <2>1, <2>2, <2>3
  <1>2. CASE enr # "inserted"
    BY <1>2, QueueMoves DEF Unread
  <1> QED
    BY <1>1, <1>2

\* Two queues, one behind the other.
LEMMA QueuesJoin ==
    ASSUME NEW s \in Seq(Tx), NEW r \in Seq(Tx)
    PROVE  Range(r) \subseteq Range(s \o r)
  <1> DEFINE j == s \o r
  <1>1. /\ Len(s) \in Nat /\ DOMAIN r = 1 .. Len(r) /\ DOMAIN j = 1 .. Len(s) + Len(r)
        /\ Len(r) \in Nat /\ \A i \in 1 .. Len(r) : j[Len(s) + i] = r[i]
    OBVIOUS
  <1> HIDE DEF j
  <1>2. \A i \in DOMAIN r : Len(s) + i \in DOMAIN j /\ j[Len(s) + i] = r[i]
    BY <1>1
  <1> QED
    BY <1>2 DEF j, Range

\* The replay holds every row.
LEMMA ReplayIsComplete ==
    ASSUME NEW rows \in SUBSET Tx, NEW replay \in InReplayOrder(rows)
    PROVE  Range(replay) = rows
  <1> DEFINE n == Cardinality(rows)
  <1>1. IsFiniteSet(rows) /\ n \in Nat
    BY ConstantsAssumption, FS_Subset, FS_CardinalityType
  <1>2. /\ replay \in [1 .. n -> rows]
        /\ \A i, j \in DOMAIN replay : i < j => replay[i] < replay[j]
    BY DEF InReplayOrder
  <1>3. Cardinality(1 .. n) = n
    BY <1>1, FS_Interval
  <1> HIDE DEF n
  <1>4. \A i \in 1 .. n : replay[i] \in Nat
    BY <1>2, ConstantsAssumption
  <1>5. replay \in Injection(1 .. n, rows)
    <2>1. ASSUME NEW i \in 1 .. n, NEW j \in 1 .. n, replay[i] = replay[j] PROVE i = j
      BY <1>1, <1>2, <1>4, <2>1
    <2> QED
      BY <1>2, <2>1 DEF Injection, IsInjective
  <1>6. replay \in Surjection(1 .. n, rows)
    BY <1>1, <1>3, <1>5, FS_Injection DEF n
  <1> QED
    BY <1>2, <1>6 DEF Surjection, Range

LEMMA ReplayInvInit == Init => ReplayInv
  BY DEF Init, ReplayInv

\* Pods that hold a snapshot and have not decided about it.
Undecided == {"snapped", "read", "wiped", "waiting", "verifying"}
Awaiting  == {"waiting", "verifying"}

\* What the pod waits for, wherever it is.
WithinReach(p) == stored \cup Range(Unread) \cup Range(outbox[p])

\* Steps that enter none of these phases from outside and take nothing out of reach.
LEMMA ReplayKept ==
    ASSUME ReplayInv, UNCHANGED <<snap, events>>,
           \A p \in Pods : pc'[p] \in Undecided =>
               pc'[p] = pc[p] \/ (pc[p] \in Awaiting /\ pc'[p] \in Awaiting),
           \A p \in Pods : pc'[p] = "snapped" => stored \subseteq stored',
           \A p \in Pods : pc'[p] \in Awaiting /\ used'.drops = 0 =>
               used.drops = 0 /\ WithinReach(p) \subseteq WithinReach(p)'
    PROVE  ReplayInv'
  <1> SUFFICES ASSUME NEW p \in Pods
               PROVE  /\ pc'[p] = "snapped" => snap[p] \subseteq stored'
                      /\ pc'[p] \in {"read", "wiped"} => snap[p] \subseteq Range(events[p])
                      /\ pc'[p] \in Awaiting /\ used'.drops = 0 =>
                             snap[p] \subseteq WithinReach(p)'
    BY DEF ReplayInv, WithinReach, Range, Awaiting
  <1>1. pc'[p] = "snapped" => snap[p] \subseteq stored'
    BY DEF ReplayInv, Undecided, Awaiting
  <1>2. pc'[p] \in {"read", "wiped"} => snap[p] \subseteq Range(events[p])
    BY DEF ReplayInv, Undecided, Awaiting
  <1>3. ASSUME pc'[p] \in Awaiting, used'.drops = 0 PROVE snap[p] \subseteq WithinReach(p)'
    <2>1. pc[p] \in Awaiting /\ used.drops = 0 /\ WithinReach(p) \subseteq WithinReach(p)'
      BY <1>3 DEF Undecided, Awaiting
    <2>2. snap[p] \subseteq WithinReach(p)
      BY <2>1 DEF ReplayInv, WithinReach, Awaiting
    <2> QED
      BY <2>1, <2>2
  <1> QED
    BY <1>1, <1>2, <1>3

\* A lost message is recorded; nothing else changes the count.
LEMMA DropsCounted ==
    ASSUME TypeOK
    PROVE  /\ Spend("drops") => used'.drops # 0
           /\ \A kind \in {"arrivals", "failures", "rollbacks"} :
                  Spend(kind) => used'.drops = used.drops
  BY DEF TypeOK, Spend

\* Every step keeps the replay within reach.
LEMMA ReplayInvStep ==
    JobInv /\ InsertedMessage /\ ReplayInv /\ TypeOK' /\ [Next]_vars => ReplayInv'
  <1> SUFFICES ASSUME JobInv, InsertedMessage, ReplayInv, TypeOK', [Next]_vars
               PROVE  ReplayInv'
    OBVIOUS
  <1> USE DEF Goto, lockVars, kafkaVars, jobVars
  <1>0. /\ TypeOK /\ pc \in [Pods -> Phases] /\ outbox \in [Pods -> Seq(Tx)]
        /\ events \in [Pods -> Seq(Tx)] /\ snap \in [Pods -> SUBSET Tx] /\ topic \in Seq(Tx)
        /\ stored \in SUBSET Tx
    BY DEF JobInv, TypeOK
  \* Nobody else works on the table.
  <1>1. ASSUME NEW p \in Pods, pc[p] \in Holding, NEW q \in Pods, pc[q] \in Undecided
        PROVE  q = p
    BY <1>1 DEF JobInv, HoldersLock, Holding, Undecided
  <1>2. ASSUME UNCHANGED <<topic, enr>> PROVE Unread' = Unread
    BY <1>2 DEF Unread
  <1>3. ASSUME NEW p \in Pods, PodStep(p) PROVE ReplayInv'
    <2>1. CASE \/ LockExists(p) \/ AcquireAdvisoryLock(p) \/ CatchupReached(p)
               \/ CatchupTimeout(p) \/ VerifySnapshot(p) \/ VerifyRaises(p)
               \/ RestoreFromBackup(p) \/ AdvisoryUnlock(p) \/ CommitRelease(p)
      <3>1. /\ UNCHANGED <<snap, events, outbox, topic, enr, used>> /\ stored \subseteq stored'
        BY <2>1 DEF LockExists, AcquireAdvisoryLock, CatchupReached, CatchupTimeout,
                    VerifySnapshot, VerifyRaises, RestoreFromBackup, AdvisoryUnlock, CommitRelease
      <3>2. \A q \in Pods : pc'[q] \in Undecided =>
                pc'[q] = pc[q] \/ (pc[q] \in Awaiting /\ pc'[q] \in Awaiting)
        BY <1>0, <2>1 DEF LockExists, AcquireAdvisoryLock, CatchupReached, CatchupTimeout,
               VerifySnapshot, VerifyRaises, RestoreFromBackup, AdvisoryUnlock, CommitRelease,
               Undecided, Awaiting
      <3>3. \A q \in Pods : WithinReach(q) \subseteq WithinReach(q)'
        BY <1>2, <3>1 DEF WithinReach, Range
      <3> QED
        BY <3>1, <3>2, <3>3, ReplayKept
    <2>2. CASE PublishRaises(p)
      <3>1. \A q \in Pods : pc'[q] \in Undecided => pc'[q] = pc[q] /\ q # p
        BY <1>0, <2>2 DEF PublishRaises, Undecided
      <3>2. /\ UNCHANGED <<snap, events, stored, topic, enr, used>>
            /\ \A q \in Pods \ {p} : outbox'[q] = outbox[q]
        BY <1>0, <2>2 DEF PublishRaises
      <3>3. \A q \in Pods \ {p} : WithinReach(q) \subseteq WithinReach(q)'
        BY <1>2, <3>2 DEF WithinReach, Range
      <3>4. \A q \in Pods : pc'[q] \in Awaiting => q # p
        BY <3>1 DEF Awaiting, Undecided
      <3> QED
        BY <3>1, <3>2, <3>3, <3>4, ReplayKept
    <2>3. ASSUME \/ SnapshotTransactions(p) \/ SelectForUser(p) \/ DeleteUserTransactions(p)
                 \/ PublishNormalizedEvents(p)
          PROVE  \A q \in Pods \ {p} : pc'[q] \notin Undecided
      <3>1. pc[p] \in Holding /\ \A q \in Pods \ {p} : pc'[q] = pc[q]
        BY <1>0, <2>3 DEF SnapshotTransactions, SelectForUser, DeleteUserTransactions,
                          PublishNormalizedEvents, Holding
      <3> QED
        BY <1>1, <3>1
    <2>4. CASE SnapshotTransactions(p)
      <3>1. pc'[p] = "snapped" /\ snap'[p] = stored /\ stored' = stored
        BY <1>0, <2>4 DEF SnapshotTransactions
      <3> QED
        BY <2>3, <2>4, <3>1 DEF ReplayInv, Undecided
    <2>5. CASE SelectForUser(p)
      <3>1. PICK replay \in InReplayOrder(stored) : events' = [events EXCEPT ![p] = replay]
        BY <2>5 DEF SelectForUser
      <3>2. pc'[p] = "read" /\ snap'[p] = snap[p] /\ events'[p] = replay /\ pc[p] = "snapped"
        BY <1>0, <2>5, <3>1 DEF SelectForUser
      <3>3. snap'[p] \subseteq Range(events'[p])
        BY <1>0, <3>1, <3>2, ReplayIsComplete DEF ReplayInv
      <3> QED
        BY <2>3, <2>5, <3>2, <3>3 DEF ReplayInv, Undecided
    <2>6. CASE DeleteUserTransactions(p)
      <3>1. /\ pc'[p] = "wiped" /\ snap'[p] = snap[p] /\ events'[p] = events[p]
            /\ pc[p] = "read"
        BY <1>0, <2>6 DEF DeleteUserTransactions
      <3> QED
        BY <2>3, <2>6, <3>1 DEF ReplayInv, Undecided
    <2>7. CASE PublishNormalizedEvents(p)
      <3>1. /\ pc'[p] = "waiting" /\ snap'[p] = snap[p] /\ pc[p] = "wiped"
            /\ outbox'[p] = outbox[p] \o events[p]
        BY <1>0, <2>7 DEF PublishNormalizedEvents
      <3>2. snap'[p] \subseteq Range(outbox'[p])
        BY <1>0, <3>1, QueuesJoin DEF ReplayInv
      <3> QED
        BY <2>3, <2>7, <3>1, <3>2 DEF ReplayInv, Undecided
    <2> QED
      BY <1>3, <2>1, <2>2, <2>4, <2>5, <2>6, <2>7 DEF PodStep
  <1>4. ASSUME NEW p \in Pods, PodFails(p) PROVE ReplayInv'
    <2>1. pc'[p] \notin Undecided /\ \A q \in Pods \ {p} : pc'[q] = pc[q]
      BY <1>0, <1>4 DEF PodFails, StoppedPhase, Undecided
    <2>2. /\ UNCHANGED <<snap, events, stored, topic, enr>> /\ used'.drops = used.drops
          /\ \A q \in Pods \ {p} : outbox'[q] = outbox[q]
      BY <1>0, <1>4, DropsCounted DEF PodFails
    <2>3. \A q \in Pods \ {p} : WithinReach(q) \subseteq WithinReach(q)'
      BY <1>2, <2>2 DEF WithinReach, Range
    <2>4. \A q \in Pods : pc'[q] \in Awaiting => pc'[q] \in Undecided
      BY DEF Awaiting, Undecided
    <2> QED
      BY <2>1, <2>2, <2>3, <2>4, ReplayKept
  <1>5. ASSUME NEW p \in Pods, DeleteReplyLost(p) PROVE ReplayInv'
    <2>1. pc[p] \in Holding /\ pc'[p] \notin Undecided /\ \A q \in Pods \ {p} : pc'[q] = pc[q]
      BY <1>0, <1>5 DEF DeleteReplyLost, Undecided, Holding
    <2>2. \A q \in Pods : pc'[q] \notin Undecided
      BY <1>1, <2>1
    <2> QED
      BY <2>2 DEF ReplayInv, Undecided
  <1>6. ASSUME NEW p \in Pods, Deliver(p) PROVE ReplayInv'
    <2> DEFINE m == Head(outbox[p])
    <2>1. /\ m \in Tx /\ Range(outbox[p]) = {m} \cup Range(outbox'[p])
          /\ topic' = Append(topic, m) /\ \A q \in Pods \ {p} : outbox'[q] = outbox[q]
          /\ UNCHANGED <<pc, snap, events, stored, enr, used>>
      BY <1>0, <1>6, QueueMoves DEF Deliver
    <2> HIDE DEF m
    <2>2. Range(Unread') = Range(Unread) \cup {m}
      BY <1>0, <2>1, UnreadGrows
    <2>3. \A q \in Pods : WithinReach(q) \subseteq WithinReach(q)'
      <3>1. WithinReach(p) \subseteq stored' \cup Range(Unread') \cup Range(outbox'[p])
        BY <2>1, <2>2 DEF WithinReach
      <3>2. \A q \in Pods \ {p} :
                WithinReach(q) \subseteq stored' \cup Range(Unread') \cup Range(outbox'[q])
        BY <2>1, <2>2 DEF WithinReach
      <3> QED
        BY <3>1, <3>2 DEF WithinReach, Range
    <2> QED
      BY <2>1, <2>3, ReplayKept
  <1>7. ASSUME NEW t \in Tx, Arrive(t) PROVE ReplayInv'
    <2>1. /\ topic' = Append(topic, t) /\ used'.drops = used.drops
          /\ UNCHANGED <<pc, snap, events, outbox, stored, enr>>
      BY <1>0, <1>7, DropsCounted DEF Arrive
    <2>2. Range(Unread') = Range(Unread) \cup {t}
      BY <1>0, <2>1, UnreadGrows
    <2>3. \A q \in Pods : WithinReach(q) \subseteq WithinReach(q)'
      <3>1. \A q \in Pods :
                WithinReach(q) \subseteq stored' \cup Range(Unread') \cup Range(outbox'[q])
        BY <2>1, <2>2 DEF WithinReach
      <3> QED
        BY <3>1 DEF WithinReach, Range
    <2> QED
      BY <2>1, <2>3, ReplayKept
  <1>8. CASE EnrichInsert
    <2>1. /\ Unread' = Tail(topic) /\ Range(topic) = {Head(topic)} \cup Range(Tail(topic))
          /\ Unread = topic /\ stored' = stored \cup {Head(topic)}
          /\ UNCHANGED <<pc, snap, events, outbox, used>>
      BY <1>0, <1>8, QueueMoves DEF EnrichInsert, Unread
    <2>2. \A q \in Pods : WithinReach(q) \subseteq WithinReach(q)'
      <3>1. \A q \in Pods :
                WithinReach(q) \subseteq stored' \cup Range(Unread') \cup Range(outbox'[q])
        BY <2>1 DEF WithinReach
      <3> QED
        BY <3>1 DEF WithinReach, Range
    <2> QED
      BY <2>1, <2>2, ReplayKept
  <1>9. CASE EnrichCommit
    <2>1. Unread' = Unread /\ UNCHANGED <<pc, snap, events, outbox, stored, used>>
      BY <1>9 DEF EnrichCommit, Unread
    <2>2. \A q \in Pods : WithinReach(q) \subseteq WithinReach(q)'
      BY <2>1 DEF WithinReach, Range
    <2> QED
      BY <2>1, <2>2, ReplayKept
  <1>10. ASSUME NEW p \in Pods, EnrichCrash \/ DeliveryFails(p) PROVE ReplayInv'
    <2>1. UNCHANGED <<pc, snap, events, stored>> /\ used'.drops # 0
      BY <1>0, <1>10, DropsCounted DEF EnrichCrash, DeliveryFails
    <2> QED
      BY <2>1, ReplayKept
  <1>11. ASSUME NEW p \in Pods,
                \/ SubmitJob(p) \/ SessionCloses(p) \/ OperatorRestore(p)
                \/ CommitTrigger \/ RollbackTrigger \/ OperatorClearsLock \/ UNCHANGED vars
         PROVE  ReplayInv'
    <2>1. /\ UNCHANGED <<snap, events, outbox, topic, enr>> /\ stored \subseteq stored'
          /\ used'.drops = used.drops
      BY <1>0, <1>11, DropsCounted DEF SubmitJob, SessionCloses, OperatorRestore, CommitTrigger,
             RollbackTrigger, OperatorClearsLock, vars
    <2>2. \A q \in Pods : pc'[q] \in Undecided => pc'[q] = pc[q]
      BY <1>0, <1>11 DEF SubmitJob, SessionCloses, OperatorRestore, CommitTrigger,
             RollbackTrigger, OperatorClearsLock, vars, Undecided
    <2>3. \A q \in Pods : WithinReach(q) \subseteq WithinReach(q)'
      BY <1>2, <2>1 DEF WithinReach, Range
    <2> QED
      BY <2>1, <2>2, <2>3, ReplayKept
  <1>12. CASE Pods = {}
    BY <1>12 DEF ReplayInv
  <1> QED
    BY <1>3, <1>4, <1>5, <1>6, <1>7, <1>8, <1>9, <1>10, <1>11, <1>12
       DEF Next, PodFault, Enrichment

\* As long as the broker and the consumer lose nothing, no deleted row is out of reach
\* of the pod that waits for it.
THEOREM ReplayIsConserved == Spec => []ReplayConserved
  <1>1. JobInv /\ InsertedMessage /\ ReplayInv => ReplayConserved
    <2> SUFFICES ASSUME JobInv, InsertedMessage, ReplayInv PROVE ReplayConserved
      OBVIOUS
    <2>1. Range(Unread) \subseteq Range(topic)
      BY QueueMoves DEF Unread, InsertedMessage, JobInv, TypeOK
    <2> QED
      BY <2>1 DEF ReplayConserved, ReplayInv
  <1> QED
    BY <1>1, JobInvInit, JobInvStep, ReplayInvInit, ReplayInvStep, MessageStays, PTL DEF Spec

-----------------------------------------------------------------------------
(* The contract.  When no trigger is rolled back after K8s created its Job,  *)
(* at most one job is under way, a user with missing rows stays locked, and  *)
(* the job implements ReprocessContract.                                     *)

\* Pods that may still touch the table, or that left it without its rows.
Busy == Live \cup {"stranded"}

OneBusyPod == \A p, q \in Pods : pc[p] \in Busy /\ pc[q] \in Busy => p = q

\* A busy pod has the committed lock row, or a trigger that is still open.
BusyHasLock ==
    \A p \in Pods :
        /\ pc[p] \in Busy => lockRow \/ trigger = p
        /\ pc[p] \in Busy \ {"created"} => lockRow

OpenTriggerHidesLock == trigger # NoPod => ~lockRow

\* The backup of a stranded pod has not been superseded.
StrandedBackup == \A p \in Pods : pc[p] = "stranded" => backup.by = p

LockInv ==
    /\ OneBusyPod
    /\ BusyHasLock
    /\ OpenTriggerHidesLock
    /\ StrandedBackup

\* LockInv holds before anything was triggered.
LEMMA LockInvInit == Init => LockInv
  BY ConstantsAssumption
     DEF Init, LockInv, OneBusyPod, BusyHasLock, OpenTriggerHidesLock, StrandedBackup,
         Busy, Live, Holding

\* A pod that moves without touching lock row, trigger or backup.
LEMMA BusyPodMoves ==
    ASSUME JobInv, LockInv, NEW p \in Pods, NEW to,
           pc' = [pc EXCEPT ![p] = to],
           UNCHANGED <<lockRow, trigger, backup>>,
           to \in Busy => pc[p] \in Busy,
           to \in Busy \ {"created"} => lockRow,
           to = "stranded" => backup.by = p
    PROVE  LockInv'
  <1> USE DEF JobInv, TypeOK, LockInv
  <1>1. ASSUME NEW q \in Pods PROVE pc'[q] = IF q = p THEN to ELSE pc[q]
    OBVIOUS
  <1>2. OneBusyPod'
    BY <1>1 DEF OneBusyPod
  <1>3. BusyHasLock'
    BY <1>1 DEF BusyHasLock
  <1>4. OpenTriggerHidesLock'
    BY DEF OpenTriggerHidesLock
  <1>5. StrandedBackup'
    BY <1>1 DEF StrandedBackup
  <1> QED
    BY <1>2, <1>3, <1>4, <1>5

\* Every step preserves LockInv when no trigger is rolled back.
LEMMA LockInvStep ==
    ASSUME MaxRollbacks = 0, JobInv, LockInv, [Next]_vars
    PROVE  LockInv'
  <1> USE DEF Goto, lockVars, kafkaVars, jobVars
  <1>1. \A p \in Pods : pc[p] \in Busy \ {"created"} => lockRow
    BY DEF LockInv, BusyHasLock
  <1>2. \A p \in Pods : pc[p] \in OwesRows \cup {"read"} => backup.by = p
    BY DEF JobInv, HoldersBackup, Holding, OwesRows
  <1>3. ASSUME NEW p \in Pods, PodStep(p), ~CommitRelease(p), ~SnapshotTransactions(p)
        PROVE  LockInv'
    <2> USE DEF Busy, Live, Holding
    <2>1. CASE LockExists(p)
      BY <2>1, BusyPodMoves DEF LockExists
    <2>2. CASE AcquireAdvisoryLock(p)
      BY <2>2, <1>1, BusyPodMoves DEF AcquireAdvisoryLock
    <2>3. CASE SelectForUser(p)
      BY <2>3, <1>1, BusyPodMoves DEF SelectForUser
    <2>4. CASE DeleteUserTransactions(p)
      BY <2>4, <1>1, BusyPodMoves DEF DeleteUserTransactions
    <2>5. CASE PublishNormalizedEvents(p) \/ PublishRaises(p)
      BY <2>5, <1>1, BusyPodMoves DEF PublishNormalizedEvents, PublishRaises
    <2>6. CASE CatchupReached(p) \/ CatchupTimeout(p)
      BY <2>6, <1>1, BusyPodMoves DEF CatchupReached, CatchupTimeout
    <2>7. CASE VerifySnapshot(p) \/ VerifyRaises(p)
      BY <2>7, <1>1, BusyPodMoves DEF VerifySnapshot, VerifyRaises
    <2>8. CASE RestoreFromBackup(p)
      BY <2>8, <1>1, BusyPodMoves DEF RestoreFromBackup
    <2>9. CASE AdvisoryUnlock(p)
      BY <2>9, <1>1, BusyPodMoves DEF AdvisoryUnlock
    <2> QED
      BY <1>3, <2>1, <2>2, <2>3, <2>4, <2>5, <2>6, <2>7, <2>8, <2>9 DEF PodStep
  <1>4. ASSUME NEW p \in Pods, SnapshotTransactions(p) PROVE LockInv'
    <2>1. \A q \in Pods : pc'[q] = IF q = p THEN "snapped" ELSE pc[q]
      BY <1>4 DEF SnapshotTransactions, JobInv, TypeOK
    <2>2. \A q \in Pods : pc[q] \in Busy => q = p
      BY <1>4 DEF SnapshotTransactions, LockInv, OneBusyPod, Busy, Live, Holding
    <2> QED
      BY <1>1, <1>4, <2>1, <2>2
         DEF SnapshotTransactions, LockInv, OneBusyPod, BusyHasLock,
             OpenTriggerHidesLock, StrandedBackup, Busy, Live, Holding
  <1>5. ASSUME NEW p \in Pods, CommitRelease(p) PROVE LockInv'
    <2>1. \A q \in Pods : pc'[q] = IF q = p THEN "done" ELSE pc[q]
      BY <1>5 DEF CommitRelease, JobInv, TypeOK
    <2>2. \A q \in Pods : pc[q] \in Busy => q = p
      BY <1>5 DEF CommitRelease, LockInv, OneBusyPod, Busy, Live, Holding
    <2>3. \A q \in Pods : pc'[q] \notin Busy
      BY <2>1, <2>2 DEF Busy, Live, Holding
    <2> QED
      BY <1>5, <2>3
         DEF CommitRelease, LockInv, OneBusyPod, BusyHasLock, OpenTriggerHidesLock,
             StrandedBackup, Busy
  <1>6. ASSUME NEW p \in Pods, SubmitJob(p) PROVE LockInv'
    <2>1. \A q \in Pods : pc'[q] = IF q = p THEN "created" ELSE pc[q]
      BY <1>6 DEF SubmitJob, JobInv, TypeOK
    <2>2. \A q \in Pods : pc[q] \notin Busy
      BY <1>6, ConstantsAssumption DEF SubmitJob, LockInv, BusyHasLock
    <2> QED
      BY <1>6, <2>1, <2>2
         DEF SubmitJob, LockInv, OneBusyPod, BusyHasLock, OpenTriggerHidesLock,
             StrandedBackup, Busy
  <1>7. CASE CommitTrigger
    BY <1>7
       DEF CommitTrigger, LockInv, OneBusyPod, BusyHasLock, OpenTriggerHidesLock,
           StrandedBackup
  <1>8. ~RollbackTrigger
    BY DEF RollbackTrigger, Spend, Bound, JobInv, TypeOK
  <1>9. ASSUME NEW p \in Pods, PodFails(p) PROVE LockInv'
    <2> USE DEF PodFails, StoppedPhase, Busy, Live, Holding, OwesRows
    <2>1. CASE pc[p] \in OwesRows
      BY <1>9, <2>1, <1>1, <1>2, BusyPodMoves
    <2>2. CASE pc[p] \notin OwesRows
      BY <1>9, <2>2, BusyPodMoves
    <2> QED
      BY <2>1, <2>2
  <1>10. ASSUME NEW p \in Pods, DeleteReplyLost(p) PROVE LockInv'
    BY <1>10, <1>1, <1>2, BusyPodMoves DEF DeleteReplyLost, Busy, Live, Holding
  <1>11. ASSUME NEW p \in Pods, OperatorRestore(p) PROVE LockInv'
    BY <1>11, BusyPodMoves DEF OperatorRestore, Busy, Live, Holding
  <1>12. CASE OperatorClearsLock
    <2>1. \A q \in Pods : pc[q] \notin Busy
      BY <1>12 DEF OperatorClearsLock, Quiet, Busy
    <2> QED
      BY <1>12, <2>1
         DEF OperatorClearsLock, LockInv, OneBusyPod, BusyHasLock,
             OpenTriggerHidesLock, StrandedBackup, Busy
  <1>13. CASE UNCHANGED <<pc, lockRow, trigger, backup>>
    BY <1>13
       DEF LockInv, OneBusyPod, BusyHasLock, OpenTriggerHidesLock, StrandedBackup
  <1>14. ASSUME NEW p \in Pods, SessionCloses(p) \/ Deliver(p) \/ DeliveryFails(p)
         PROVE  UNCHANGED <<pc, lockRow, trigger, backup>>
    BY <1>14 DEF SessionCloses, Deliver, DeliveryFails
  <1>15. ASSUME NEW t \in Tx, Arrive(t) PROVE UNCHANGED <<pc, lockRow, trigger, backup>>
    BY <1>15 DEF Arrive
  <1>16. ASSUME Enrichment \/ EnrichCrash
         PROVE  UNCHANGED <<pc, lockRow, trigger, backup>>
    BY <1>16 DEF Enrichment, EnrichInsert, EnrichCommit, EnrichCrash
  <1>17. CASE UNCHANGED vars
    BY <1>17, <1>13 DEF vars
  <1> QED
    BY <1>3, <1>4, <1>5, <1>6, <1>7, <1>8, <1>9, <1>10, <1>11, <1>12, <1>13, <1>14,
       <1>15, <1>16, <1>17 DEF Next, PodFault

\* A user whose rows are missing stays locked and no other job runs for the
\* user, as long as no trigger is rolled back after its Job was created.
THEOREM StrandedUserStaysLocked ==
    ASSUME MaxRollbacks = 0
    PROVE  Spec => []StrandedKeepsLock
  <1>1. LockInv => StrandedKeepsLock
    BY DEF LockInv, OneBusyPod, BusyHasLock, StrandedKeepsLock, Busy
  <1>2. JobInv /\ LockInv /\ [Next]_vars => LockInv'
    BY LockInvStep
  <1> QED
    BY <1>1, <1>2, LockInvInit, JobInvInit, JobInvStep, TypeCorrect, PTL DEF Spec

-----------------------------------------------------------------------------
(* The job implements ReprocessContract.                                   *)

\* The initial states of the job are initial states of the contract.
LEMMA ContractInit == Init => Contract!Init
  BY DEF Init, Contract!Init, TablePhase

\* Nothing the contract speaks of changes when the table and the backup stay as
\* they are and its writer keeps the meaning of its phase.
LEMMA Unmoved ==
    ASSUME UNCHANGED <<backup, stored>>,
           backup.by # NoPod =>
               PhaseMeaning(pc'[backup.by]) = PhaseMeaning(pc[backup.by])
    PROVE  UNCHANGED Contract!vars
  BY DEF TablePhase, Contract!vars

\* The same for the move of one pod.
LEMMA PodStays ==
    ASSUME JobInv, NEW p \in Pods, NEW to,
           pc' = [pc EXCEPT ![p] = to],
           UNCHANGED <<backup, stored>>,
           PhaseMeaning(to) = PhaseMeaning(pc[p])
    PROVE  UNCHANGED Contract!vars
  <1>1. ASSUME NEW q \in Pods PROVE pc'[q] = IF q = p THEN to ELSE pc[q]
    BY DEF JobInv, TypeOK
  <1>2. backup.by \in Pods \cup {NoPod}
    BY DEF JobInv, TypeOK
  <1>3. backup.by # NoPod => PhaseMeaning(pc'[backup.by]) = PhaseMeaning(pc[backup.by])
    BY <1>1, <1>2
  <1> QED
    BY <1>3, Unmoved

\* What a pod that owns the latest backup means for the contract.
LEMMA OwnersPhase ==
    ASSUME NEW p \in Pods, backup.by = p
    PROVE  TablePhase = PhaseMeaning(pc[p])
  BY ConstantsAssumption DEF TablePhase

\* Every step of the job is a step of the contract or leaves it alone.
LEMMA ContractStep ==
    ASSUME MaxRollbacks = 0, JobInv, LockInv, [Next]_vars
    PROVE  [Contract!Next]_(Contract!vars)
  <1> DEFINE Step == Contract!Next \/ UNCHANGED Contract!vars
  <1> USE DEF Goto, Holding, OwesRows, jobVars, lockVars, kafkaVars
  <1>1. \A p \in Pods : pc[p] \in OwesRows \cup {"snapped", "read"} => backup.by = p
    BY DEF JobInv, HoldersBackup
  <1>2. ASSUME NEW p \in Pods, NEW to, pc' = [pc EXCEPT ![p] = to],
               UNCHANGED <<backup, stored>>, PhaseMeaning(to) = PhaseMeaning(pc[p])
        PROVE  Step
    BY <1>2, PodStays
  <1>3. ASSUME NEW p \in Pods, PodStep(p) PROVE Step
    <2> USE DEF PhaseMeaning
    <2>1. CASE LockExists(p)
      <3>1. PhaseMeaning(IF lockRow THEN "checked" ELSE "skipped") = PhaseMeaning(pc[p])
        BY <2>1 DEF LockExists
      <3> QED
        BY <1>2, <2>1, <3>1 DEF LockExists
    <2>2. CASE AcquireAdvisoryLock(p)
      BY <1>2, <2>2 DEF AcquireAdvisoryLock
    <2>3. CASE SnapshotTransactions(p)
      <3>1. \A q \in Pods : pc[q] \in OwesRows \cup {"stranded"} => q = p
        BY <2>3 DEF SnapshotTransactions, LockInv, OneBusyPod, Busy, Live
      <3>2. TablePhase = "settled"
        BY <2>3, <3>1 DEF SnapshotTransactions, TablePhase, JobInv, TypeOK
      <3>3. /\ backup' = [by |-> p, rows |-> stored]
            /\ stored' = stored
            /\ pc'[p] = "snapped"
        BY <2>3 DEF SnapshotTransactions, JobInv, TypeOK
      <3>4. TablePhase' = "settled"
        BY <3>3, ConstantsAssumption DEF TablePhase
      <3>5. Contract!Record
        BY <3>2, <3>3, <3>4 DEF Contract!Record
      <3> QED
        BY <3>5 DEF Contract!Next
    <2>4. CASE SelectForUser(p)
      BY <1>2, <2>4 DEF SelectForUser
    <2>5. CASE DeleteUserTransactions(p)
      <3>1. TablePhase = "settled" /\ backup.by = p
        BY <1>1, <2>5, OwnersPhase DEF DeleteUserTransactions
      <3>2. TablePhase' = "rebuilding"
        BY <2>5, <3>1, ConstantsAssumption
           DEF DeleteUserTransactions, TablePhase, JobInv, TypeOK
      <3>3. Contract!Wipe
        BY <2>5, <3>1, <3>2 DEF DeleteUserTransactions, Contract!Wipe
      <3> QED
        BY <3>3 DEF Contract!Next
    <2>6. CASE PublishNormalizedEvents(p) \/ PublishRaises(p)
      BY <1>2, <2>6 DEF PublishNormalizedEvents, PublishRaises
    <2>7. CASE CatchupReached(p) \/ CatchupTimeout(p)
      BY <1>2, <2>7 DEF CatchupReached, CatchupTimeout
    <2>8. CASE VerifySnapshot(p) /\ ~(snap[p] \subseteq stored)
      BY <1>2, <2>8 DEF VerifySnapshot
    <2>12. CASE VerifyRaises(p)
      BY <1>2, <2>12 DEF VerifyRaises
    <2>9. CASE VerifySnapshot(p) /\ snap[p] \subseteq stored
      <3>1. TablePhase = "rebuilding" /\ backup.by = p
        BY <1>1, <2>9, OwnersPhase DEF VerifySnapshot
      <3>2. TablePhase' = "settled"
        BY <2>9, <3>1, ConstantsAssumption DEF VerifySnapshot, TablePhase, JobInv, TypeOK
      <3>3. backup.rows \subseteq stored
        BY <2>9, <3>1 DEF JobInv, BackupIsSnapshot
      <3>4. Contract!Verified
        BY <2>9, <3>1, <3>2, <3>3 DEF VerifySnapshot, Contract!Verified
      <3> QED
        BY <3>4 DEF Contract!Next
    <2>10. CASE RestoreFromBackup(p)
      <3>1. TablePhase = "rebuilding" /\ backup.by = p
        BY <1>1, <2>10, OwnersPhase DEF RestoreFromBackup
      <3>2. TablePhase' = "settled"
        BY <2>10, <3>1, ConstantsAssumption DEF RestoreFromBackup, TablePhase, JobInv, TypeOK
      <3>3. Contract!Restore
        BY <2>10, <3>1, <3>2 DEF RestoreFromBackup, Contract!Restore
      <3> QED
        BY <3>3 DEF Contract!Next
    <2>11. CASE AdvisoryUnlock(p) \/ CommitRelease(p)
      BY <1>2, <2>11 DEF AdvisoryUnlock, CommitRelease
    <2> QED
      BY <1>3, <2>1, <2>2, <2>3, <2>4, <2>5, <2>6, <2>7, <2>8, <2>9, <2>10, <2>11,
         <2>12 DEF PodStep
  <1>4. ASSUME NEW p \in Pods, SubmitJob(p) PROVE Step
    BY <1>2, <1>4 DEF SubmitJob, PhaseMeaning
  <1>5. ASSUME NEW p \in Pods, PodFails(p) PROVE Step
    <2>1. CASE pc[p] \in OwesRows
      <3>1. TablePhase = "rebuilding" /\ backup.by = p
        BY <1>1, <2>1, OwnersPhase DEF PhaseMeaning
      <3>2. TablePhase' = "stranded"
        BY <1>5, <2>1, <3>1, ConstantsAssumption
           DEF PodFails, StoppedPhase, TablePhase, PhaseMeaning, JobInv, TypeOK
      <3>3. Contract!Strand
        BY <1>5, <3>1, <3>2 DEF PodFails, Contract!Strand
      <3> QED
        BY <3>3 DEF Contract!Next
    <2>2. CASE pc[p] \notin OwesRows
      BY <1>2, <1>5, <2>2 DEF PodFails, StoppedPhase, PhaseMeaning, Live
    <2> QED
      BY <2>1, <2>2
  <1>6. ASSUME NEW p \in Pods, DeleteReplyLost(p) PROVE Step
    <2>1. TablePhase = "settled" /\ backup.by = p
      BY <1>1, <1>6, OwnersPhase DEF DeleteReplyLost, PhaseMeaning
    <2>2. TablePhase' = "stranded"
      BY <1>6, <2>1, ConstantsAssumption
         DEF DeleteReplyLost, TablePhase, PhaseMeaning, JobInv, TypeOK
    <2>3. Contract!Wipe
      BY <1>6, <2>1, <2>2 DEF DeleteReplyLost, Contract!Wipe
    <2> QED
      BY <2>3 DEF Contract!Next
  <1>7. ASSUME NEW p \in Pods, OperatorRestore(p) PROVE Step
    <2>1. TablePhase = "stranded" /\ backup.by = p
      BY <1>7, OwnersPhase DEF OperatorRestore, LockInv, StrandedBackup, PhaseMeaning
    <2>2. TablePhase' = "settled"
      BY <1>7, <2>1, ConstantsAssumption
         DEF OperatorRestore, TablePhase, PhaseMeaning, JobInv, TypeOK
    <2>3. stored' = stored \cup backup.rows
      BY <1>7, <2>1 DEF OperatorRestore, JobInv, BackupIsSnapshot
    <2>4. Contract!Recover
      BY <1>7, <2>1, <2>2, <2>3 DEF OperatorRestore, Contract!Recover
    <2> QED
      BY <2>4 DEF Contract!Next
  <1>8. CASE EnrichInsert
    <2>1. Head(topic) \in Tx
      BY <1>8 DEF EnrichInsert, JobInv, TypeOK
    <2>2. UNCHANGED <<backup, TablePhase>>
      BY <1>8 DEF EnrichInsert, TablePhase
    <2>3. Contract!Insert
      BY <1>8, <2>1, <2>2 DEF EnrichInsert, Contract!Insert
    <2> QED
      BY <2>3 DEF Contract!Next
  <1>9. CASE UNCHANGED <<pc, backup, stored>>
    BY <1>9, Unmoved
  <1>10. ASSUME NEW p \in Pods, SessionCloses(p) \/ Deliver(p) \/ DeliveryFails(p)
         PROVE  UNCHANGED <<pc, backup, stored>>
    BY <1>10 DEF SessionCloses, Deliver, DeliveryFails
  <1>11. ASSUME NEW t \in Tx, Arrive(t) PROVE UNCHANGED <<pc, backup, stored>>
    BY <1>11 DEF Arrive
  <1>12. ASSUME EnrichCommit \/ EnrichCrash \/ CommitTrigger \/ RollbackTrigger
                    \/ OperatorClearsLock
         PROVE  UNCHANGED <<pc, backup, stored>>
    BY <1>12 DEF EnrichCommit, EnrichCrash, CommitTrigger, RollbackTrigger, OperatorClearsLock
  <1>13. UNCHANGED vars => UNCHANGED <<pc, backup, stored>>
    BY DEF vars
  <1>14. Step
    BY <1>3, <1>4, <1>5, <1>6, <1>7, <1>8, <1>9, <1>10, <1>11, <1>12, <1>13
       DEF Next, PodFault, Enrichment
  <1> QED
    BY <1>14

\* Backup, deletion, replay, verification, restore and recovery of any number of
\* pods that fail at any point are a behaviour of the contract, as long as no
\* trigger is rolled back after its Job was created.
THEOREM JobImplementsContract ==
    ASSUME MaxRollbacks = 0
    PROVE  Spec => RefinesContract
  <1>1. JobInv /\ LockInv /\ [Next]_vars => LockInv'
    BY LockInvStep
  <1>2. JobInv /\ LockInv /\ [Next]_vars => [Contract!Next]_(Contract!vars)
    BY ContractStep
  <1> QED
    BY <1>1, <1>2, ContractInit, LockInvInit, JobInvInit, JobInvStep, TypeCorrect, PTL
       DEF Spec, RefinesContract, Contract!Spec
=============================================================================
