--------------------------- MODULE TransferProofs ---------------------------
(***************************************************************************)
(* Machine-checked proofs about transfer detection, for any legs, any      *)
(* number of members of the consumer group and any bounds.                 *)
(***************************************************************************)
EXTENDS TransferProperties, SequenceTheorems, FiniteSetTheorems, TLAPS

-----------------------------------------------------------------------------
(* The pure decision.                                                      *)

\* Seen from a leg whose own counterparty is not an unlinked account, the candidate
\* query and the consistency filter select exactly the legs that belong to it: the
\* one-sided tests of the code agree with the relation that has no first and second.
THEOREM DetectionIsSymmetric ==
    ASSUME NEW t \in Txs, NEW u \in Txs, event \in [Txs -> Legs],
           event[t].account \in linked, event[u].account \in linked,
           CpIbanStatus(event[t], linked) # "unlinked"
    PROVE  IsCandidate(event[t], event[u]) /\ IsConsistent(event[t], event[u], linked)
              <=> Mates(t, u)
  <1> DEFINE a == event[t]
             b == event[u]
  <1>1. a \in Legs /\ b \in Legs
    OBVIOUS
  <1>2. /\ a.time \in Int /\ b.time \in Int
        /\ a.direction \in {"income", "expense"} /\ b.direction \in {"income", "expense"}
        /\ a.cpIban \in Accounts \cup {NoIban, Stranger}
        /\ b.cpIban \in Accounts \cup {NoIban, Stranger}
        /\ a.account \in Accounts /\ b.account \in Accounts
    BY <1>1 DEF Legs
  <1>3. IsCandidate(a, b) <=> SameMovement(a, b)
    <2>1. b.time - a.time \in -Window .. Window <=> a.time <= b.time + 2 /\ b.time <= a.time + 2
      BY <1>2 DEF Window
    <2>2. a.direction # b.direction <=> {a.direction, b.direction} = {"income", "expense"}
      BY <1>2
    <2> QED
      BY <2>1, <2>2 DEF IsCandidate, SameMovement, AmountsMatch
  <1>4. IsConsistent(a, b, linked) <=> /\ NamesPartner(a) => a.cpIban = b.account
                                       /\ NamesPartner(b) => b.cpIban = a.account
    <2>1. CpIbanStatus(a, linked) = "honest" <=> NamesPartner(a)
      BY DEF CpIbanStatus, NamesPartner
    <2>2. CpIbanStatus(b, linked) \in {"honest", "unlinked"} <=> NamesPartner(b)
      BY DEF CpIbanStatus, NamesPartner
    <2> QED
      BY <2>1, <2>2 DEF IsConsistent
  <1> QED
    BY <1>3, <1>4 DEF Mates

\* What a decision may say: it claims nobody or one of the candidates.
Sound(verdict, cands) ==
    /\ verdict.partner = {} \/ \E c \in cands : verdict.partner = {c}
    /\ verdict.pair \in Pairs
    /\ verdict.anomaly \in Reasons

LEMMA PlainIsSound ==
    ASSUME NEW reason \in Reasons, NEW cands
    PROVE  Sound(Plain(reason), cands)
  BY DEF Sound, Plain, NoPair, Pairs

LEMMA UnpairedAnomalyIsReason ==
    ASSUME NEW leg PROVE UnpairedAnomaly(leg) \in Reasons
  BY DEF UnpairedAnomaly, Reasons, Unpaired

LEMMA ClaimIsSound ==
    ASSUME NEW ev, NEW t, NEW cands, NEW c \in cands, NEW decisive \in BOOLEAN,
           NEW evidence \in {"bilateral", "unilateral", "none"}
    PROVE  Sound(ClaimOne(ev, t, c, evidence, decisive), cands)
  BY DEF Sound, ClaimOne, Pair, Pairs, Reasons, Terminal

LEMMA DecisionIsSound ==
    ASSUME NEW ev, NEW t, NEW cands, NEW accounts
    PROVE  Sound(Decide(ev, t, cands, accounts), cands)
  <1>1. CASE cands = {}
    BY <1>1, PlainIsSound, UnpairedAnomalyIsReason DEF Decide
  <1>2. CASE cands # {} /\ Cardinality(cands) = 1
    <2> DEFINE one == CHOOSE c \in cands : TRUE
               evidence == PairEvidence(ev[t], ev[one], accounts)
    <2>1. one \in cands
      BY <1>2
    <2>2. evidence \in {"bilateral", "unilateral", "none"}
      BY DEF PairEvidence
    <2>3. Sound(ClaimOne(ev, t, one, evidence, FALSE), cands)
      BY <2>1, <2>2, ClaimIsSound
    <2> QED
      BY <1>2, <2>3 DEF Decide
  <1>3. CASE cands # {} /\ Cardinality(cands) # 1
    <2> DEFINE level == BucketLevel(ev, t, cands, accounts)
               bucket == WithEvidence(ev, t, cands, accounts, level)
               survivors == {c \in bucket : DescriptionsConsistent(ev[t], ev[c])}
               one == CHOOSE c \in survivors : TRUE
    <2>1. level \in {"bilateral", "unilateral", "none"}
      BY DEF BucketLevel
    <2>2. survivors \subseteq cands
      BY DEF WithEvidence
    <2>3. Cardinality(survivors) = 1 => one \in survivors
      <3>1. Cardinality({}) = 0
        BY FS_EmptySet
      <3> HIDE DEF survivors
      <3> QED
        BY <3>1
    <2>4. Cardinality(survivors) = 1
             => Sound(ClaimOne(ev, t, one, level, survivors # bucket), cands)
      <3> HIDE DEF level, survivors, bucket, one
      <3>1. (survivors # bucket) \in BOOLEAN
        OBVIOUS
      <3> QED
        BY <2>1, <2>2, <2>3, <3>1, ClaimIsSound
    <2>5. /\ Sound(Plain("description_account_mismatch"), cands)
          /\ Sound(Plain("ambiguous_pair_match"), cands)
      BY PlainIsSound DEF Reasons, Terminal
    <2> QED
      BY <1>3, <2>4, <2>5 DEF Decide, DecideMany
  <1> QED
    BY <1>1, <1>2, <1>3

LEMMA VerdictIsSound ==
    ASSUME NEW w \in Workers
    PROVE  /\ Sound(Verdict(w), found[w])
           /\ ~detecting[w] => Verdict(w).partner = {}
  <1>1. Consistent(w) \subseteq found[w]
    BY DEF Consistent
  <1>2. Sound(Plain("none"), found[w]) /\ Plain("none").partner = {}
    BY PlainIsSound DEF Reasons, Plain
  <1>3. Sound(HandleUnlinked(event[at[w]]), found[w])
    BY PlainIsSound, UnpairedAnomalyIsReason DEF HandleUnlinked, Reasons
  <1>4. Sound(Decide(event, at[w], Consistent(w), linked), found[w])
    BY <1>1, DecisionIsSound DEF Sound
  <1> QED
    BY <1>2, <1>3, <1>4 DEF Verdict

-----------------------------------------------------------------------------
(* Type correctness.                                                       *)

\* The rows in replay order are a sequence of rows.
LEMMA ReplayIsSequence ==
    ASSUME NEW rows \in SUBSET Txs, NEW replay \in InReplayOrder(rows)
    PROVE  replay \in Seq(Txs)
  <1>1. IsFiniteSet(rows)
    BY PairingAssumption, FS_Subset
  <1>2. Cardinality(rows) \in Nat
    BY <1>1, FS_CardinalityType
  <1>3. replay \in [1 .. Cardinality(rows) -> Txs]
    BY DEF InReplayOrder
  <1> QED
    BY <1>2, <1>3, SeqDef

\* The message its owner is busy with is still behind the committed offset: without
\* this the type of the partition would not be preserved by the commit.
OwnerHasMessage ==
    \A w \in Workers : w = owner /\ pc[w] # "idle" => queue # <<>>

HasMessage == \A w \in Workers : pc[w] # "idle" => at[w] \in Txs

Typed == TypeOK /\ OwnerHasMessage /\ HasMessage

LEMMA TypedInit == Init => Typed
  <1> SUFFICES ASSUME Init PROVE Typed
    OBVIOUS
  <1>1. event \in [Txs -> Legs]
    BY PairingAssumption DEF Init
  <1>2. queue \in Seq(Txs)
    BY EmptySeq DEF Init
  <1>3. NoPair \in Pairs
    BY DEF NoPair, Pairs
  <1>4. owner \in Workers
    BY PairingAssumption DEF Init
  <1>5. /\ related \in [Txs -> Txs \cup {NoTx}]
        /\ pair \in [Txs -> Pairs]
        /\ anomaly \in [Txs -> Reasons]
    BY <1>3 DEF Init, Reasons
  <1>6. backup \in [ids : SUBSET Txs, related : [Txs -> Txs \cup {NoTx}], pair : [Txs -> Pairs]]
    BY <1>5 DEF Init
  <1>7. /\ pc \in [Workers -> {"idle", "polled", "stored"} \cup InTransaction]
        /\ at \in [Workers -> Txs \cup {NoTx}]
        /\ {unlinked, detecting} \subseteq [Workers -> BOOLEAN]
        /\ found \in [Workers -> SUBSET Txs]
        /\ used \in [Bounds -> Nat]
    BY DEF Init
  <1>8. OwnerHasMessage /\ HasMessage
    BY DEF Init, OwnerHasMessage, HasMessage
  <1> QED
    BY <1>1, <1>2, <1>4, <1>5, <1>6, <1>7, <1>8 DEF Init, Typed, TypeOK

LEMMA SpendTyped ==
    ASSUME TypeOK, NEW kind \in Bounds, Spend(kind)
    PROVE  used' \in [Bounds -> Nat]
  BY DEF TypeOK, Spend

LEMMA EndTransactionTyped ==
    ASSUME TypeOK, NEW w \in Workers, NEW phase \in {"idle", "stored"}, EndTransaction(w, phase)
    PROVE  /\ pc' \in [Workers -> {"idle", "polled", "stored"} \cup InTransaction]
           /\ {unlinked', detecting'} \subseteq [Workers -> BOOLEAN]
           /\ found' \in [Workers -> SUBSET Txs]
           /\ pc'[w] = phase
           /\ \A v \in Workers \ {w} : pc'[v] = pc[v]
  BY DEF TypeOK, EndTransaction

LEMMA TypedStep == Typed /\ [Next]_vars => Typed'
  <1> SUFFICES ASSUME Typed, [Next]_vars PROVE Typed'
    OBVIOUS
  <1> USE DEF Typed, TypeOK, OwnerHasMessage, HasMessage, tableVars, topicVars, workerVars,
              jobVars, InTransaction
  <1>0. \A kind \in {"faults", "jobs", "restores"} : Spend(kind) => used' \in [Bounds -> Nat]
    BY SpendTyped DEF Bounds
  <1>1. ASSUME NEW a \in Accounts, LinkAccount(a) PROVE Typed'
    BY <1>1 DEF LinkAccount
  <1>2. ASSUME NEW t \in Txs, Publish(t) PROVE Typed'
    <2>1. queue' \in Seq(Txs) /\ queue' # <<>>
      BY <1>2, AppendProperties DEF Publish
    <2> QED
      BY <1>0, <1>2, <2>1 DEF Publish
  <1>3. ASSUME NEW w \in Workers, Rebalance(w) PROVE Typed'
    BY <1>0, <1>3 DEF Rebalance
  <1>4. ASSUME NEW w \in Workers, Poll(w) PROVE Typed'
    <2>1. Head(queue) \in Txs
      BY <1>4 DEF Poll
    <2> QED
      BY <1>4, <2>1 DEF Poll
  <1>5. ASSUME NEW w \in Workers, Gate(w) PROVE Typed'
    <2>1. (Detects(event[at[w]]) /\ at[w] \notin stored) \in BOOLEAN
      <3>1. at[w] \in Txs
        BY <1>5 DEF Gate, LockFree
      <3>2. event[at[w]] \in Legs
        BY <3>1
      <3> QED
        BY <3>2 DEF Legs, Detects
    <2>2. detecting' \in [Workers -> BOOLEAN]
      BY <1>5, <2>1 DEF Gate
    <2>3. pc' \in [Workers -> {"idle", "polled", "stored"} \cup InTransaction]
      BY <1>5 DEF Gate
    <2> QED
      BY <1>5, <2>2, <2>3 DEF Gate, LockFree
  <1>6. ASSUME NEW w \in Workers, Fetch(w) PROVE Typed'
    <2>1. FindUniversalCandidates(w) \in SUBSET Txs
      BY DEF FindUniversalCandidates
    <2>2. found' \in [Workers -> SUBSET Txs] /\ unlinked' \in [Workers -> BOOLEAN]
      <3>1. CASE CpIbanStatus(event[at[w]], linked) = "unlinked"
        BY <1>6, <3>1 DEF Fetch
      <3>2. CASE CpIbanStatus(event[at[w]], linked) # "unlinked"
        <4>1. PICK skipped \in SUBSET doomed :
                found' = [found EXCEPT ![w] = FindUniversalCandidates(w) \ skipped]
          BY <1>6, <3>2 DEF Fetch
        <4>2. unlinked' = unlinked
          BY <1>6, <3>2 DEF Fetch
        <4> QED
          BY <2>1, <4>1, <4>2
      <3> QED
        BY <3>1, <3>2
    <2> QED
      BY <1>6, <2>2 DEF Fetch
  <1>7. ASSUME NEW w \in Workers, Persist(w) PROVE Typed'
    <2> DEFINE t == at[w]
               verdict == Verdict(w)
               cleaned == ResolveAnomalies(verdict.partner, t)
    <2>1. EndTransaction(w, "stored") /\ pc[w] = "fetched"
      BY <1>7 DEF Persist
    <2>2. t \in Txs
      BY <2>1
    <2>3. /\ verdict.partner = {} \/ \E c \in found[w] : verdict.partner = {c}
          /\ verdict.pair \in Pairs
          /\ verdict.anomaly \in Reasons
      BY VerdictIsSound DEF Sound
    <2>4. verdict.partner # {} => (CHOOSE c \in verdict.partner : TRUE) \in Txs
      <3>1. verdict.partner \subseteq Txs
        BY <2>3
      <3> QED
        BY <3>1
    <2>5. stored' \subseteq Txs
      BY <1>7, <2>2 DEF Persist
    <2>6. related' \in [Txs -> Txs \cup {NoTx}]
      <3> HIDE DEF verdict
      <3> QED
        BY <1>7, <2>2, <2>4 DEF Persist, verdict
    <2>7. pair' \in [Txs -> Pairs]
      BY <1>7, <2>3 DEF Persist
    <2>8. anomaly' \in [Txs -> Reasons]
      <3>1. cleaned \in [Txs -> Reasons]
        BY DEF ResolveAnomalies, Reasons
      <3> HIDE DEF cleaned, verdict
      <3> QED
        BY <1>7, <2>2, <2>3, <3>1 DEF Persist, cleaned, verdict
    <2>9. UNCHANGED <<event, linked, topicVars, at, jobVars, used>>
      BY <1>7 DEF Persist
    <2> QED
      BY <2>1, <2>5, <2>6, <2>7, <2>8, <2>9, EndTransactionTyped
  <1>8. ASSUME NEW w \in Workers, CommitOffset(w) PROVE Typed'
    <2>1. queue' \in Seq(Txs)
      BY <1>8 DEF CommitOffset
    <2>2. /\ pc' \in [Workers -> {"idle", "polled", "stored"} \cup InTransaction]
          /\ at' \in [Workers -> Txs \cup {NoTx}]
      BY <1>8 DEF CommitOffset
    <2>3. OwnerHasMessage' /\ HasMessage'
      BY <1>8 DEF CommitOffset
    <2> QED
      BY <1>8, <2>1, <2>2, <2>3 DEF CommitOffset
  <1>9. ASSUME NEW w \in Workers, Crash(w) PROVE Typed'
    <2>1. EndTransaction(w, "idle")
      BY <1>9 DEF Crash
    <2>2. at' \in [Workers -> Txs \cup {NoTx}] /\ \A v \in Workers \ {w} : at'[v] = at[v]
      BY <1>9 DEF Crash
    <2> QED
      BY <1>0, <1>9, <2>1, <2>2, EndTransactionTyped DEF Crash
  <1>10. CASE SnapshotTransactions
    BY <1>0, <1>10 DEF SnapshotTransactions
  <1>11. CASE DeleteStarts
    BY <1>11 DEF DeleteStarts
  <1>12. CASE DeleteEnds
    <2>1. NoPair \in Pairs /\ "none" \in Reasons
      BY DEF NoPair, Pairs, Reasons
    <2> QED
      BY <1>12, <2>1 DEF DeleteEnds, RelatedAfterDelete
  <1>13. CASE Replay
    <2>1. queue' \in Seq(Txs) /\ (queue # <<>> => queue' # <<>>)
      <3>1. PICK delivered \in SUBSET backup.ids :
              \E replay \in InReplayOrder(delivered) : queue' = queue \o replay
        BY <1>13 DEF Replay
      <3>2. PICK replay \in InReplayOrder(delivered) : queue' = queue \o replay
        BY <3>1
      <3>3. replay \in Seq(Txs)
        BY ReplayIsSequence
      <3> QED
        BY <3>2, <3>3
    <2> QED
      BY <1>13, <2>1 DEF Replay
  <1>14. CASE VerifySnapshot
    BY <1>14 DEF VerifySnapshot
  <1>15. CASE RestoreFromBackup
    BY <1>0, <1>15 DEF RestoreFromBackup
  <1>16. CASE UNCHANGED vars
    BY <1>16 DEF vars
  <1> QED
    BY <1>1, <1>2, <1>3, <1>4, <1>5, <1>6, <1>7, <1>8, <1>9, <1>10, <1>11, <1>12, <1>13,
       <1>14, <1>15, <1>16 DEF Next, WorkerStep, JobStep

\* Every state the specification reaches is of the right type: in particular the
\* partition holds a message whenever its owner is busy, so that a commit is defined.
THEOREM TransferTypeCorrect == Spec => []TypeOK
  <1>1. Typed => TypeOK
    BY DEF Typed
  <1> QED
    BY <1>1, TypedInit, TypedStep, PTL DEF Spec

-----------------------------------------------------------------------------
(* The legs of a pair name each other.  PairsMutual is not inductive: a    *)
(* claim keeps it only because the claimed row is still unpaired, which    *)
(* rests on the advisory lock (one transaction at a time), on the row lock *)
(* (the job cannot delete what a worker has found) and on the idempotency  *)
(* gate (a row that detection runs for is new).                            *)

OneTransaction ==
    \A v, w \in Workers : {pc[v], pc[w]} \subseteq InTransaction => v = w

FoundByFetch ==
    \A w \in Workers : found[w] # {} => pc[w] = "fetched" /\ detecting[w]

FoundIsFree ==
    \A w \in Workers : \A c \in found[w] : c \in stored /\ related[c] = NoTx

DetectedIsNew ==
    \A w \in Workers : pc[w] \in InTransaction /\ detecting[w] => at[w] \notin stored

GatedDetects == \A w \in Workers : pc[w] = "gated" => detecting[w]

AbsentIsUnpaired == \A t \in Txs \ stored : related[t] = NoTx

WorkersSafe == OneTransaction /\ FoundByFetch /\ FoundIsFree /\ DetectedIsNew /\ GatedDetects

MutualInv == WorkersSafe /\ AbsentIsUnpaired /\ LegsNameEachOther

LEMMA MutualInit == Init => MutualInv
  BY DEF Init, MutualInv, WorkersSafe, OneTransaction, FoundByFetch, FoundIsFree, DetectedIsNew,
         GatedDetects, AbsentIsUnpaired, LegsNameEachOther, InTransaction

\* A restore is never taken back.
LEMMA RestoresGrow ==
    ASSUME TypeOK, [Next]_vars, NoRestore'
    PROVE  NoRestore /\ ~RestoreFromBackup
  <1>1. ASSUME NEW kind \in Bounds, Spend(kind)
        PROVE  NoRestore /\ kind # "restores"
    BY <1>1 DEF Spend, NoRestore, TypeOK, Bounds
  <1>2. "faults" \in Bounds /\ "jobs" \in Bounds /\ "restores" \in Bounds
    BY DEF Bounds
  <1>3. used' = used => NoRestore
    BY DEF NoRestore
  <1>4. ~RestoreFromBackup
    BY <1>1, <1>2 DEF RestoreFromBackup
  <1>5. used' = used \/ Spend("faults") \/ Spend("jobs")
    BY <1>4 DEF Next, WorkerStep, JobStep, vars, LinkAccount, Publish, Rebalance, Poll, Gate, Fetch,
           Persist, CommitOffset, Crash, SnapshotTransactions, DeleteStarts, DeleteEnds, Replay,
           VerifySnapshot
  <1> QED
    BY <1>1, <1>2, <1>3, <1>4, <1>5

\* The worker in the transaction is the only one, and when it has ended there is none.
LEMMA TransactionEnds ==
    ASSUME Typed, WorkersSafe, NEW w \in Workers, pc[w] \in InTransaction, EndTransaction(w, "stored")
    PROVE  WorkersSafe'
  <1>1. \A v \in Workers \ {w} : pc[v] \notin InTransaction /\ found[v] = {}
    BY DEF WorkersSafe, OneTransaction, FoundByFetch, InTransaction
  <1>2. \A v \in Workers : pc'[v] \notin InTransaction /\ found'[v] = {}
    BY <1>1 DEF EndTransaction, Typed, TypeOK, InTransaction
  <1> QED
    BY <1>2 DEF WorkersSafe, OneTransaction, FoundByFetch, FoundIsFree, DetectedIsNew, GatedDetects,
           InTransaction

LEMMA PersistKeepsPairs ==
    ASSUME Typed, MutualInv, NEW w \in Workers, Persist(w)
    PROVE  MutualInv'
  <1> DEFINE t == at[w]
             verdict == Verdict(w)
             partner == verdict.partner
  <1>1. pc[w] = "fetched" /\ EndTransaction(w, "stored") /\ stored' = stored \cup {t}
    BY DEF Persist
  <1>2. t \in Txs
    BY <1>1 DEF Typed, HasMessage
  <1>3. WorkersSafe'
    BY <1>1, TransactionEnds DEF MutualInv, InTransaction
  <1>4. stored \subseteq Txs /\ NoTx \notin Txs
    BY PairingAssumption DEF Typed, TypeOK
  <1>5. AbsentIsUnpaired /\ LegsNameEachOther
    BY DEF MutualInv
  <1>6. partner = {} \/ \E c \in found[w] : partner = {c}
    BY VerdictIsSound DEF Sound
  <1>7. CASE partner = {}
    <2>1. \A x \in Txs : related'[x] = related[x]
      BY <1>7 DEF Persist
    <2>2. \A x \in stored : pair'[x] = pair[x]
      BY <1>4, <1>7 DEF Persist
    <2>3. related'[t] = NoTx \/ t \in stored
      BY <1>2, <1>5, <2>1 DEF AbsentIsUnpaired
    <2>4. AbsentIsUnpaired'
      BY <1>1, <1>5, <2>1 DEF AbsentIsUnpaired
    <2>5. LegsNameEachOther'
      <3> SUFFICES ASSUME NEW x \in stored, related[x] # NoTx
                   PROVE  related'[x] \in stored' /\ related'[related'[x]] = x
                            /\ pair'[x] = pair'[related'[x]]
        BY <1>1, <1>4, <2>1, <2>3 DEF LegsNameEachOther
      <3> QED
        BY <1>1, <1>4, <1>5, <2>1, <2>2 DEF LegsNameEachOther
    <2> QED
      BY <1>3, <2>4, <2>5 DEF MutualInv
  <1>8. CASE \E c \in found[w] : partner = {c}
    <2>1. PICK c \in found[w] : partner = {c}
      BY <1>8
    <2>2. c \in stored /\ related[c] = NoTx
      BY DEF MutualInv, WorkersSafe, FoundIsFree
    <2>3. detecting[w]
      BY <2>1 DEF MutualInv, WorkersSafe, FoundByFetch
    <2>4. t \notin stored
      BY <1>1, <2>3 DEF MutualInv, WorkersSafe, DetectedIsNew, InTransaction
    <2>5. related' = [x \in Txs |-> IF x = c THEN t ELSE IF x = t THEN c ELSE related[x]]
      BY <2>1, <2>2, <2>4 DEF Persist
    <2>6. pair' = [x \in Txs |-> IF x \in {c, t} THEN verdict.pair ELSE pair[x]]
      BY <2>1, <2>4 DEF Persist
    <2> HIDE DEF verdict, partner, t
    <2>7. AbsentIsUnpaired'
      BY <1>1, <1>5, <2>2, <2>5 DEF AbsentIsUnpaired
    <2>8. ASSUME NEW x \in stored', related'[x] # NoTx
          PROVE  related'[x] \in stored' /\ related'[related'[x]] = x
                   /\ pair'[x] = pair'[related'[x]]
      <3>1. CASE x \in {c, t}
        BY <1>1, <1>2, <1>4, <2>2, <2>4, <2>5, <2>6, <3>1
      <3>2. CASE x \notin {c, t}
        <4>1. x \in stored /\ related'[x] = related[x] /\ related[x] # NoTx
          BY <1>1, <1>4, <2>5, <2>8, <3>2
        <4>2. related[x] \in stored /\ related[related[x]] = x /\ pair[x] = pair[related[x]]
          BY <1>5, <4>1 DEF LegsNameEachOther
        <4>3. related[x] \notin {c, t}
          BY <1>4, <2>2, <2>4, <4>1, <4>2
        <4> QED
          BY <1>1, <1>4, <2>5, <2>6, <3>2, <4>1, <4>2, <4>3
      <3> QED
        BY <3>1, <3>2
    <2> QED
      BY <1>3, <2>7, <2>8 DEF MutualInv, LegsNameEachOther
  <1> QED
    BY <1>6, <1>7, <1>8

LEMMA DeleteKeepsPairs ==
    ASSUME Typed, MutualInv, DeleteEnds
    PROVE  MutualInv'
  <1>1. /\ stored' = stored \ doomed
        /\ related' = [t \in Txs |-> IF t \in doomed \/ related[t] \in doomed THEN NoTx ELSE related[t]]
        /\ pair' = [t \in Txs |-> IF t \in doomed THEN NoPair ELSE pair[t]]
        /\ UNCHANGED workerVars
        /\ \A w \in Workers : found[w] \cap doomed = {}
    BY DEF DeleteEnds, RelatedAfterDelete
  <1>2. stored \subseteq Txs /\ \A w \in Workers : found[w] \subseteq Txs
    BY DEF Typed, TypeOK
  <1>3. WorkersSafe'
    BY <1>1, <1>2 DEF MutualInv, WorkersSafe, OneTransaction, FoundByFetch, FoundIsFree,
           DetectedIsNew, GatedDetects, workerVars
  <1>4. AbsentIsUnpaired'
    BY <1>1 DEF MutualInv, AbsentIsUnpaired
  <1>5. ASSUME NEW t \in stored', related'[t] # NoTx
        PROVE  related'[t] \in stored' /\ related'[related'[t]] = t /\ pair'[t] = pair'[related'[t]]
    <2>1. t \in stored \ doomed /\ related[t] \notin doomed /\ related'[t] = related[t]
      BY <1>1, <1>2, <1>5
    <2>2. related[t] \in stored /\ related[related[t]] = t /\ pair[t] = pair[related[t]]
      BY <1>5, <2>1 DEF MutualInv, LegsNameEachOther
    <2> QED
      BY <1>1, <1>2, <2>1, <2>2
  <1> QED
    BY <1>3, <1>4, <1>5 DEF MutualInv, LegsNameEachOther

LEMMA MutualStep ==
    ASSUME Typed, MutualInv, [Next]_vars, ~RestoreFromBackup
    PROVE  MutualInv'
  <1> DEFINE Untouched == UNCHANGED <<stored, related, pair>>
  <1>1. Untouched /\ WorkersSafe' => MutualInv'
    BY DEF MutualInv, AbsentIsUnpaired, LegsNameEachOther
  <1>2. Untouched /\ UNCHANGED workerVars => WorkersSafe'
    BY DEF MutualInv, WorkersSafe, OneTransaction, FoundByFetch, FoundIsFree, DetectedIsNew,
           GatedDetects, workerVars
  <1>3. ASSUME NEW w \in Workers, Poll(w) PROVE MutualInv'
    <2>1. Untouched /\ WorkersSafe'
      BY <1>3 DEF Poll, tableVars, MutualInv, WorkersSafe, OneTransaction, FoundByFetch,
             FoundIsFree, DetectedIsNew, GatedDetects, InTransaction, Typed, TypeOK
    <2> QED
      BY <1>1, <2>1
  <1>4. ASSUME NEW w \in Workers, Gate(w) PROVE MutualInv'
    <2>1. \A v \in Workers : pc[v] \notin InTransaction /\ found[v] = {}
      BY <1>4 DEF Gate, LockFree, MutualInv, WorkersSafe, FoundByFetch, InTransaction
    <2>2. /\ \A v \in Workers \ {w} : pc'[v] = pc[v]
          /\ detecting'[w] => at[w] \notin stored
          /\ pc'[w] = "gated" => detecting'[w]
          /\ UNCHANGED <<stored, related, pair, at, found>>
      BY <1>4 DEF Gate, tableVars, Typed, TypeOK
    <2>3. WorkersSafe'
      BY <2>1, <2>2 DEF WorkersSafe, OneTransaction, FoundByFetch, FoundIsFree, DetectedIsNew,
             GatedDetects, InTransaction
    <2> QED
      BY <1>1, <2>2, <2>3
  <1>5. ASSUME NEW w \in Workers, Fetch(w) PROVE MutualInv'
    <2>1. /\ pc[w] = "gated" /\ pc'[w] = "fetched" /\ detecting[w]
          /\ \A v \in Workers \ {w} : pc'[v] = pc[v]
          /\ UNCHANGED <<stored, related, pair, at, detecting>>
      BY <1>5 DEF Fetch, tableVars, Typed, TypeOK, MutualInv, WorkersSafe, GatedDetects
    <2>2. /\ found'[w] = found[w] \/ found'[w] \subseteq FindUniversalCandidates(w)
          /\ \A v \in Workers \ {w} : found'[v] = found[v]
      BY <1>5 DEF Fetch, Typed, TypeOK
    <2>3. \A c \in FindUniversalCandidates(w) : c \in stored /\ related[c] = NoTx
      BY DEF FindUniversalCandidates
    <2>4. WorkersSafe'
      BY <2>1, <2>2, <2>3 DEF MutualInv, WorkersSafe, OneTransaction, FoundByFetch, FoundIsFree,
             DetectedIsNew, GatedDetects, InTransaction
    <2> QED
      BY <1>1, <2>1, <2>4
  <1>6. ASSUME NEW w \in Workers, CommitOffset(w) \/ Crash(w) PROVE MutualInv'
    <2>1. /\ Untouched /\ pc'[w] = "idle" /\ found'[w] \subseteq found[w]
          /\ pc[w] = "fetched" => found'[w] = {}
          /\ \A v \in Workers \ {w} : pc'[v] = pc[v] /\ found'[v] = found[v]
                                      /\ detecting'[v] = detecting[v] /\ at'[v] = at[v]
      BY <1>6 DEF CommitOffset, Crash, EndTransaction, tableVars, Typed, TypeOK
    <2>2. WorkersSafe'
      BY <2>1 DEF MutualInv, WorkersSafe, OneTransaction, FoundByFetch, FoundIsFree, DetectedIsNew,
             GatedDetects, InTransaction
    <2> QED
      BY <1>1, <2>1, <2>2
  <1>7. ASSUME \/ \E a \in Accounts : LinkAccount(a)
               \/ \E t \in Txs : Publish(t)
               \/ \E w \in Workers : Rebalance(w)
               \/ SnapshotTransactions \/ DeleteStarts \/ Replay \/ VerifySnapshot
               \/ UNCHANGED vars
        PROVE  MutualInv'
    <2>1. Untouched /\ UNCHANGED workerVars
      BY <1>7 DEF LinkAccount, Publish, Rebalance, SnapshotTransactions, DeleteStarts, Replay,
             VerifySnapshot, vars, tableVars
    <2> QED
      BY <1>1, <1>2, <2>1
  <1> QED
    BY <1>3, <1>4, <1>5, <1>6, <1>7, PersistKeepsPairs, DeleteKeepsPairs
    DEF Next, WorkerStep, JobStep

\* As long as no job has restored its snapshot, the two legs of every pair name each other
\* and carry the same pair block, for any number of rows, members of the consumer group,
\* accounts, faults and jobs.
THEOREM TransfersPairMutually == Spec => []PairsMutual
  <1> DEFINE IInv == Typed /\ (NoRestore => MutualInv)
  <1>1. Init => IInv
    BY TypedInit, MutualInit
  <1>2. IInv /\ [Next]_vars => IInv'
    <2>1. ASSUME IInv, [Next]_vars, NoRestore' PROVE MutualInv'
      BY <2>1, RestoresGrow, MutualStep DEF Typed
    <2> QED
      BY <2>1, TypedStep
  <1>3. IInv => PairsMutual
    BY DEF PairsMutual, MutualInv
  <1> QED
    BY <1>1, <1>2, <1>3, PTL DEF Spec

-----------------------------------------------------------------------------
(* What the decision owes to the candidates it was given.                  *)

Rank(evidence) == IF evidence = "bilateral" THEN 2 ELSE IF evidence = "unilateral" THEN 1 ELSE 0

\* A leg is claimed, or the row is marked as terminal, whenever there is a candidate; and
\* no candidate has better evidence than the one that is claimed.
Fair(verdict, ev, t, cands, accounts) ==
    /\ verdict.partner # {} => verdict.pair.claimed /\ verdict.anomaly \notin Unpaired
    /\ cands # {} => verdict.partner # {} \/ verdict.anomaly \in Terminal
    /\ \A c \in cands, b \in verdict.partner :
          Rank(PairEvidence(ev[t], ev[c], accounts)) <= Rank(PairEvidence(ev[t], ev[b], accounts))

LEMMA ClaimIsFair ==
    ASSUME NEW ev, NEW t, NEW cands, NEW accounts, NEW c, NEW evidence, NEW decisive,
           \A d \in cands : Rank(PairEvidence(ev[t], ev[d], accounts))
                              <= Rank(PairEvidence(ev[t], ev[c], accounts))
    PROVE  Fair(ClaimOne(ev, t, c, evidence, decisive), ev, t, cands, accounts)
  BY DEF Fair, ClaimOne, Pair, Unpaired

LEMMA TerminalIsFair ==
    ASSUME NEW ev, NEW t, NEW cands, NEW accounts, NEW reason \in Terminal
    PROVE  Fair(Plain(reason), ev, t, cands, accounts)
  BY DEF Fair, Plain

LEMMA DecisionIsFair ==
    ASSUME NEW ev, NEW t, NEW cands, NEW accounts, IsFiniteSet(cands)
    PROVE  Fair(Decide(ev, t, cands, accounts), ev, t, cands, accounts)
  <1> DEFINE Level(c) == PairEvidence(ev[t], ev[c], accounts)
  <1>0. \A c : Level(c) \in {"bilateral", "unilateral", "none"}
    BY DEF PairEvidence
  <1>1. CASE cands = {}
    BY <1>1 DEF Decide, Fair, Plain
  <1>2. CASE cands # {} /\ Cardinality(cands) = 1
    <2> DEFINE one == CHOOSE c \in cands : TRUE
    <2>1. \A d \in cands : d = one
      BY <1>2, FS_Singleton
    <2>2. \A d \in cands : Rank(Level(d)) <= Rank(Level(one))
      <3> HIDE DEF one, Level
      <3>1. \A d : Rank(Level(d)) \in Nat
        BY <1>0 DEF Rank
      <3>2. ASSUME NEW d \in cands PROVE Rank(Level(d)) = Rank(Level(one))
        BY <2>1
      <3> QED
        BY <3>1, <3>2
    <2>3. Fair(ClaimOne(ev, t, one, Level(one), FALSE), ev, t, cands, accounts)
      BY <2>2, ClaimIsFair
    <2> QED
      BY <1>2, <2>3 DEF Decide
  <1>3. CASE cands # {} /\ Cardinality(cands) # 1
    <2> DEFINE level == BucketLevel(ev, t, cands, accounts)
               bucket == WithEvidence(ev, t, cands, accounts, level)
               survivors == {c \in bucket : DescriptionsConsistent(ev[t], ev[c])}
               one == CHOOSE c \in survivors : TRUE
    <2>1. \A c \in cands : Rank(Level(c)) <= Rank(level)
      BY <1>0 DEF Rank, BucketLevel, WithEvidence
    <2>2. Cardinality(survivors) = 1 => Level(one) = level
      <3>1. Cardinality({}) = 0
        BY FS_EmptySet
      <3>2. \A c \in survivors : Level(c) = level
        BY DEF WithEvidence
      <3> HIDE DEF survivors, level, Level
      <3>3. Cardinality(survivors) = 1 => survivors # {}
        BY <3>1
      <3> QED
        BY <3>2, <3>3
    <2>3. Cardinality(survivors) = 1
             => Fair(ClaimOne(ev, t, one, level, survivors # bucket), ev, t, cands, accounts)
      <3>1. ASSUME Cardinality(survivors) = 1
            PROVE  \A d \in cands : Rank(Level(d)) <= Rank(Level(one))
        <4> HIDE DEF survivors, level, one
        <4> QED
          BY <2>1, <2>2, <3>1
      <3> HIDE DEF survivors, level, one, bucket
      <3> QED
        BY <3>1, ClaimIsFair
    <2>4. /\ Fair(Plain("description_account_mismatch"), ev, t, cands, accounts)
          /\ Fair(Plain("ambiguous_pair_match"), ev, t, cands, accounts)
      BY TerminalIsFair DEF Terminal
    <2> QED
      BY <1>3, <2>3, <2>4 DEF Decide, DecideMany
  <1> QED
    BY <1>1, <1>2, <1>3

LEMMA VerdictIsFair ==
    ASSUME Typed, NEW w \in Workers
    PROVE  /\ Verdict(w).partner # {} => /\ detecting[w] /\ ~unlinked[w]
                                         /\ Verdict(w).pair.claimed
                                         /\ Verdict(w).anomaly \notin Unpaired
           /\ ~detecting[w] => Verdict(w).anomaly = "none"
           /\ detecting[w] /\ ~unlinked[w] =>
                 Fair(Verdict(w), event, at[w], Consistent(w), linked)
  <1>1. IsFiniteSet(Consistent(w))
    <2>1. Consistent(w) \subseteq Txs
      BY DEF Typed, TypeOK, Consistent
    <2> QED
      BY <2>1, PairingAssumption, FS_Subset
  <1>2. Fair(Decide(event, at[w], Consistent(w), linked), event, at[w], Consistent(w), linked)
    BY <1>1, DecisionIsFair
  <1>3. HandleUnlinked(event[at[w]]).partner = {} /\ Plain("none").partner = {}
        /\ Plain("none").anomaly = "none"
    BY DEF HandleUnlinked, Plain
  <1>4. CASE ~detecting[w]
    BY <1>3, <1>4 DEF Verdict
  <1>5. CASE detecting[w] /\ unlinked[w]
    BY <1>3, <1>5 DEF Verdict
  <1>6. CASE detecting[w] /\ ~unlinked[w]
    <2>1. Verdict(w) = Decide(event, at[w], Consistent(w), linked)
      BY <1>6 DEF Verdict
    <2> QED
      BY <1>2, <1>6, <2>1 DEF Fair
  <1> QED
    BY <1>4, <1>5, <1>6

LEMMA TwoElements ==
    ASSUME NEW x, NEW y, x # y
    PROVE  Cardinality({x, y}) = 2
  <1>1. IsFiniteSet({x}) /\ Cardinality({x}) = 1
    BY FS_Singleton
  <1>2. Cardinality({x} \cup {y}) = Cardinality({x}) + 1
    BY <1>1, FS_AddElement
  <1>3. {x, y} = {x} \cup {y}
    OBVIOUS
  <1> QED
    BY <1>1, <1>2, <1>3

\* The evidence of the code counts the IBANs that speak for the pair, once both accounts
\* are linked.
LEMMA RankCountsWitnesses ==
    ASSUME NEW t \in Txs, NEW u \in Txs, t # u,
           event[t].account \in linked, event[u].account \in linked
    PROVE  Witnesses(t, u) = Rank(PairEvidence(event[t], event[u], linked))
  <1> DEFINE a == event[t]
             b == event[u]
             A == NamesPartner(a) /\ a.cpIban = b.account
             B == NamesPartner(b) /\ b.cpIban = a.account
             S == {x \in {<<t, u>>, <<u, t>>} :
                    /\ NamesPartner(event[x[1]])
                    /\ event[x[1]].cpIban = event[x[2]].account}
  <1>1. SideClaims(a, b, linked) <=> A
    BY DEF SideClaims, CpIbanStatus, NamesPartner
  <1>2. SideClaims(b, a, linked) <=> B
    BY DEF SideClaims, CpIbanStatus, NamesPartner
  <1>3. (<<t, u>> \in S <=> A) /\ (<<u, t>> \in S <=> B)
    OBVIOUS
  <1>4. S \subseteq {<<t, u>>, <<u, t>>} /\ <<t, u>> # <<u, t>>
    OBVIOUS
  <1>5. Witnesses(t, u) = Cardinality(S)
    BY DEF Witnesses
  <1> HIDE DEF A, B, S
  <1>6. Cardinality(S) = IF A /\ B THEN 2 ELSE IF A \/ B THEN 1 ELSE 0
    <2>1. CASE A /\ B
      <3>1. S = {<<t, u>>, <<u, t>>}
        BY <1>3, <1>4, <2>1
      <3> QED
        BY <1>4, <2>1, <3>1, TwoElements
    <2>2. CASE A /\ ~B
      <3>1. S = {<<t, u>>}
        BY <1>3, <1>4, <2>2
      <3> QED
        BY <2>2, <3>1, FS_Singleton
    <2>3. CASE ~A /\ B
      <3>1. S = {<<u, t>>}
        BY <1>3, <1>4, <2>3
      <3> QED
        BY <2>3, <3>1, FS_Singleton
    <2>4. CASE ~A /\ ~B
      <3>1. S = {}
        BY <1>3, <1>4, <2>4
      <3> QED
        BY <2>4, <3>1, FS_EmptySet
    <2> QED
      BY <2>1, <2>2, <2>3, <2>4
  <1> QED
    BY <1>1, <1>2, <1>5, <1>6 DEF PairEvidence, Rank

-----------------------------------------------------------------------------
(* Only linked accounts report anything, so that every leg the detection   *)
(* looks at is of a linked account.                                        *)

FromBank ==
    /\ \A t \in published : event[t].account \in linked
    /\ \A i \in DOMAIN queue : queue[i] \in published
    /\ \A w \in Workers : pc[w] # "idle" => at[w] \in published
    /\ stored \subseteq published
    /\ backup.ids \subseteq published

LEMMA FromBankInit == Init => FromBank
  BY DEF Init, FromBank

\* What a replay appends to the partition, position by position.
LEMMA ReplayAppends ==
    ASSUME Typed, Replay
    PROVE  \E rows \in Seq(Txs) :
              /\ queue' = queue \o rows
              /\ \A i \in 1..Len(rows) : rows[i] \in backup.ids
              /\ \A i, k \in 1..Len(rows) : rows[i] = rows[k] => i = k
  <1>1. PICK delivered \in SUBSET backup.ids :
          \E replay \in InReplayOrder(delivered) : queue' = queue \o replay
    BY DEF Replay
  <1>2. PICK rows \in InReplayOrder(delivered) : queue' = queue \o rows
    BY <1>1
  <1>3. delivered \subseteq Txs
    BY DEF Typed, TypeOK
  <1>4. rows \in Seq(Txs)
    BY <1>3, ReplayIsSequence
  <1>5. /\ rows \in [1..Cardinality(delivered) -> delivered]
        /\ \A i, k \in DOMAIN rows : i < k => Earlier(rows[i], rows[k])
    BY DEF InReplayOrder
  <1>6. DOMAIN rows = 1..Len(rows) /\ Len(rows) \in Nat
    BY <1>4, LenProperties
  <1>7. \A t \in Txs : ~Earlier(t, t)
    <2> SUFFICES ASSUME NEW t \in Txs PROVE ~Earlier(t, t)
      OBVIOUS
    <2>1. event[t].time \in Int /\ t \in Nat
      BY PairingAssumption DEF Typed, TypeOK, Legs
    <2> QED
      BY <2>1 DEF Earlier
  <1>8. ASSUME NEW i \in 1..Len(rows), NEW k \in 1..Len(rows), rows[i] = rows[k]
        PROVE  i = k
    <2>1. rows[i] \in Txs
      BY <1>4, ElementOfSeq
    <2>2. ~(i < k) /\ ~(k < i)
      BY <1>5, <1>6, <1>7, <1>8, <2>1
    <2> QED
      BY <1>6, <2>2
  <1>9. \A i \in 1..Len(rows) : rows[i] \in backup.ids
    BY <1>5, <1>6
  <1> QED
    BY <1>2, <1>4, <1>8, <1>9

LEMMA FromBankStep ==
    ASSUME Typed, FromBank, [Next]_vars
    PROVE  FromBank'
  <1> USE DEF FromBank, tableVars, topicVars, workerVars, jobVars
  <1>0. queue \in Seq(Txs) /\ Len(queue) \in Nat /\ DOMAIN queue = 1..Len(queue)
    BY LenProperties DEF Typed, TypeOK
  <1>1. ASSUME NEW a \in Accounts, LinkAccount(a) PROVE FromBank'
    BY <1>1 DEF LinkAccount
  <1>2. ASSUME NEW t \in Txs, Publish(t) PROVE FromBank'
    <2>1. \A i \in DOMAIN queue' : queue'[i] \in published'
      <3>1. queue' = Append(queue, t) /\ published' = published \cup {t}
        BY <1>2 DEF Publish
      <3>2. /\ DOMAIN Append(queue, t) = 1..(Len(queue) + 1)
            /\ \A i \in 1..(Len(queue) + 1) :
                  Append(queue, t)[i] = IF i = Len(queue) + 1 THEN t ELSE queue[i]
        <4>1. /\ Append(queue, t) \in Seq(Txs) /\ Len(Append(queue, t)) = Len(queue) + 1
              /\ \A i \in 1..Len(queue) : Append(queue, t)[i] = queue[i]
              /\ Append(queue, t)[Len(queue) + 1] = t
          BY <1>0, AppendProperties
        <4> QED
          BY <1>0, <4>1, LenProperties
      <3> QED
        BY <1>0, <3>1, <3>2
    <2> QED
      BY <1>2, <2>1 DEF Publish
  <1>3. ASSUME NEW w \in Workers, Rebalance(w) PROVE FromBank'
    BY <1>3 DEF Rebalance
  <1>4. ASSUME NEW w \in Workers, Poll(w) PROVE FromBank'
    <2>1. Head(queue) \in published
      BY <1>0, <1>4 DEF Poll
    <2>2. \A v \in Workers : pc'[v] # "idle" => at'[v] \in published
      BY <1>4, <2>1 DEF Poll, Typed, TypeOK
    <2> QED
      BY <1>4, <2>2 DEF Poll
  <1>5. ASSUME NEW w \in Workers, Gate(w) \/ Fetch(w) PROVE FromBank'
    <2>1. \A v \in Workers : pc'[v] # "idle" => pc[v] # "idle"
      BY <1>5 DEF Gate, LockFree, Fetch, Typed, TypeOK
    <2> QED
      BY <1>5, <2>1 DEF Gate, Fetch
  <1>6. ASSUME NEW w \in Workers, Persist(w) PROVE FromBank'
    <2>1. pc[w] # "idle" /\ \A v \in Workers : pc'[v] # "idle" => pc[v] # "idle"
      BY <1>6 DEF Persist, EndTransaction, Typed, TypeOK
    <2> QED
      BY <1>6, <2>1 DEF Persist
  <1>7. ASSUME NEW w \in Workers, CommitOffset(w) \/ Crash(w) PROVE FromBank'
    <2>1. \A v \in Workers : pc'[v] # "idle" => pc[v] # "idle" /\ at'[v] = at[v]
      BY <1>7 DEF CommitOffset, Crash, EndTransaction, Typed, TypeOK
    <2>2. queue' = queue \/ (queue # <<>> /\ queue' = Tail(queue))
      BY <1>7 DEF CommitOffset, Crash, Typed, OwnerHasMessage
    <2>3. \A i \in DOMAIN queue' : queue'[i] \in published
      <3>1. CASE queue' = queue
        BY <3>1
      <3>2. CASE queue # <<>> /\ queue' = Tail(queue)
        <4>1. /\ Tail(queue) \in Seq(Txs) /\ Len(Tail(queue)) = Len(queue) - 1
              /\ \A i \in 1..Len(Tail(queue)) : Tail(queue)[i] = queue[i + 1]
          BY <1>0, <3>2, HeadTailProperties
        <4>2. DOMAIN Tail(queue) = 1..Len(Tail(queue))
          BY <4>1, LenProperties
        <4> QED
          BY <1>0, <3>2, <4>1, <4>2
      <3> QED
        BY <2>2, <3>1, <3>2
    <2> QED
      BY <1>7, <2>1, <2>3 DEF CommitOffset, Crash
  <1>8. CASE Replay
    <2>1. PICK rows \in Seq(Txs) : /\ queue' = queue \o rows
                                   /\ \A i \in 1..Len(rows) : rows[i] \in backup.ids
      BY <1>8, ReplayAppends
    <2>2. /\ queue \o rows \in Seq(Txs) /\ Len(queue \o rows) = Len(queue) + Len(rows)
          /\ \A i \in 1..(Len(queue) + Len(rows)) :
                (queue \o rows)[i] = IF i <= Len(queue) THEN queue[i] ELSE rows[i - Len(queue)]
      BY <1>0, ConcatProperties
    <2>3. DOMAIN (queue \o rows) = 1..(Len(queue) + Len(rows)) /\ Len(rows) \in Nat
      BY <2>2, LenProperties
    <2>4. ASSUME NEW i \in DOMAIN queue' PROVE queue'[i] \in published
      <3>1. i \in 1..(Len(queue) + Len(rows))
        BY <2>1, <2>3
      <3>2. queue'[i] = IF i <= Len(queue) THEN queue[i] ELSE rows[i - Len(queue)]
        BY <2>1, <2>2, <3>1
      <3>3. ~(i <= Len(queue)) => (i - Len(queue)) \in 1..Len(rows)
        BY <1>0, <2>3, <3>1
      <3>4. i <= Len(queue) => i \in DOMAIN queue
        BY <1>0, <3>1
      <3> QED
        BY <2>1, <3>2, <3>3, <3>4
    <2> QED
      BY <1>8, <2>4 DEF Replay
  <1>9. CASE SnapshotTransactions \/ DeleteStarts \/ DeleteEnds \/ VerifySnapshot
               \/ RestoreFromBackup \/ UNCHANGED vars
    BY <1>9 DEF SnapshotTransactions, DeleteStarts, DeleteEnds, VerifySnapshot, RestoreFromBackup, vars
  <1> QED
    BY <1>1, <1>2, <1>3, <1>4, <1>5, <1>6, <1>7, <1>8, <1>9 DEF Next, WorkerStep, JobStep

-----------------------------------------------------------------------------
(* What a worker has found when it decides.  Its query has returned every  *)
(* row that could be claimed, and the answer is still complete when the    *)
(* decision is made: nobody else can store a row meanwhile (the advisory   *)
(* lock), and a DELETE only takes rows away.                               *)

PairedIsClaimed == \A t \in stored : related[t] # NoTx => pair[t].claimed

AbsentIsClean == \A t \in Txs \ stored : anomaly[t] = "none"

UnlinkedByFetch == \A w \in Workers : unlinked[w] => pc[w] = "fetched" /\ detecting[w]

FoundIsComplete ==
    \A w \in Workers : pc[w] = "fetched" /\ detecting[w] /\ ~unlinked[w] =>
        /\ CpIbanStatus(event[at[w]], linked) # "unlinked"
        /\ \A c \in stored \ doomed :
              ~pair[c].claimed /\ IsCandidate(event[at[w]], event[c]) => c \in found[w]

\* No stored row is of an account that is not linked.
UnlinkedIsAlone ==
    \A w \in Workers : unlinked[w] =>
        /\ NamesPartner(event[at[w]])
        /\ \A c \in stored : event[c].account # event[at[w]].cpIban

QueryInv == UnlinkedByFetch /\ FoundIsComplete /\ UnlinkedIsAlone

ClaimInv == PairedIsClaimed /\ AbsentIsClean /\ QueryInv

LEMMA ClaimInit == Init => ClaimInv
  BY DEF Init, ClaimInv, QueryInv, PairedIsClaimed, AbsentIsClean, UnlinkedByFetch, FoundIsComplete,
         UnlinkedIsAlone

\* An account that is linked stays linked.
LEMMA StatusStays ==
    ASSUME NEW leg, NEW more, NEW fewer, fewer \subseteq more,
           CpIbanStatus(leg, fewer) # "unlinked"
    PROVE  CpIbanStatus(leg, more) # "unlinked"
  BY DEF CpIbanStatus

LEMMA FetchIsComplete ==
    ASSUME Typed, FromBank, MutualInv, ClaimInv, NEW w \in Workers, Fetch(w)
    PROVE  QueryInv'
  <1> DEFINE leg == event[at[w]]
  <1>1. /\ pc[w] = "gated" /\ detecting[w] /\ pc' = [pc EXCEPT ![w] = "fetched"]
        /\ UNCHANGED <<event, linked, stored, related, pair, at, detecting, doomed>>
    BY DEF Fetch, tableVars, jobVars, MutualInv, WorkersSafe, GatedDetects
  <1>2. \A v \in Workers \ {w} : pc[v] \notin InTransaction /\ found[v] = {} /\ ~unlinked[v]
    BY <1>1 DEF MutualInv, WorkersSafe, OneTransaction, FoundByFetch, ClaimInv, QueryInv,
                UnlinkedByFetch, InTransaction
  <1>3. ~unlinked[w]
    BY <1>1 DEF ClaimInv, QueryInv, UnlinkedByFetch
  <1>4. pc'[w] = "fetched" /\ \A v \in Workers \ {w} : pc'[v] = pc[v]
    BY <1>1 DEF Typed, TypeOK
  <1>5. \A v \in Workers \ {w} : pc'[v] # "fetched" /\ unlinked'[v] = unlinked[v]
    BY <1>2, <1>4 DEF Fetch, Typed, TypeOK, InTransaction
  <1>6. CASE CpIbanStatus(leg, linked) = "unlinked"
    <2>1. unlinked'[w]
      BY <1>6 DEF Fetch, Typed, TypeOK
    <2>2. NamesPartner(leg) /\ leg.cpIban \notin linked
      BY <1>6 DEF CpIbanStatus, NamesPartner
    <2>3. \A c \in stored : event[c].account # leg.cpIban
      BY <2>2 DEF FromBank
    <2> QED
      BY <1>1, <1>2, <1>4, <1>5, <2>1, <2>2, <2>3
      DEF QueryInv, UnlinkedByFetch, FoundIsComplete, UnlinkedIsAlone
  <1>7. CASE CpIbanStatus(leg, linked) # "unlinked"
    <2>1. PICK skipped \in SUBSET doomed :
             found' = [found EXCEPT ![w] = FindUniversalCandidates(w) \ skipped]
      BY <1>7 DEF Fetch
    <2>2. unlinked' = unlinked
      BY <1>7 DEF Fetch
    <2>3. found'[w] = FindUniversalCandidates(w) \ skipped
      BY <2>1 DEF Typed, TypeOK
    <2>4. LockedRows(w) = {}
      BY <1>2 DEF LockedRows
    <2>5. ASSUME NEW c \in stored \ doomed, ~pair[c].claimed, IsCandidate(leg, event[c])
          PROVE  c \in found'[w]
      <3>1. related[c] = NoTx
        BY <2>5 DEF ClaimInv, PairedIsClaimed
      <3> QED
        BY <2>3, <2>4, <2>5, <3>1 DEF FindUniversalCandidates
    <2> QED
      BY <1>1, <1>2, <1>3, <1>4, <1>5, <1>7, <2>2, <2>5
      DEF QueryInv, UnlinkedByFetch, FoundIsComplete, UnlinkedIsAlone
  <1> QED
    BY <1>6, <1>7

\* The only one in a transaction ends it: no worker is left with an answer.
LEMMA NoQueryLeft ==
    ASSUME Typed, MutualInv, ClaimInv, NEW w \in Workers, pc[w] = "fetched",
           NEW phase \in {"idle", "stored"}, EndTransaction(w, phase)
    PROVE  QueryInv'
  <1>1. \A v \in Workers \ {w} : pc[v] \notin InTransaction /\ ~unlinked[v]
    BY DEF MutualInv, WorkersSafe, OneTransaction, ClaimInv, QueryInv, UnlinkedByFetch, InTransaction
  <1>2. \A v \in Workers : pc'[v] # "fetched" /\ ~unlinked'[v]
    BY <1>1 DEF EndTransaction, Typed, TypeOK, InTransaction
  <1> QED
    BY <1>2 DEF QueryInv, UnlinkedByFetch, FoundIsComplete, UnlinkedIsAlone

LEMMA QueryStep ==
    ASSUME Typed, FromBank, MutualInv, ClaimInv, [Next]_vars, ~RestoreFromBackup
    PROVE  QueryInv'
  <1> USE DEF tableVars, topicVars, workerVars, jobVars
  <1>0. QueryInv
    BY DEF ClaimInv
  <1>1. ASSUME NEW a \in Accounts, LinkAccount(a) PROVE QueryInv'
    <2>1. linked \subseteq linked' /\ UNCHANGED <<event, stored, pair, workerVars, doomed>>
      BY <1>1 DEF LinkAccount
    <2>2. \A w \in Workers : CpIbanStatus(event[at[w]], linked) # "unlinked"
                                => CpIbanStatus(event[at[w]], linked') # "unlinked"
      BY <2>1, StatusStays
    <2> QED
      BY <1>0, <2>1, <2>2 DEF QueryInv, UnlinkedByFetch, FoundIsComplete, UnlinkedIsAlone
  <1>2. UNCHANGED <<event, linked, stored, pair, workerVars, doomed>> => QueryInv'
    BY <1>0 DEF QueryInv, UnlinkedByFetch, FoundIsComplete, UnlinkedIsAlone
  <1>3. ASSUME NEW w \in Workers, Poll(w) \/ Gate(w) \/ CommitOffset(w)
        PROVE  QueryInv'
    <2>1. /\ UNCHANGED <<event, linked, stored, pair, doomed, unlinked, found>>
          /\ pc[w] # "fetched"
          /\ pc'[w] = "fetched" => ~detecting'[w]
          /\ \A v \in Workers \ {w} : UNCHANGED <<pc[v], at[v], detecting[v]>>
      BY <1>3 DEF Poll, Gate, LockFree, CommitOffset, Typed, TypeOK
    <2>2. ~unlinked[w]
      BY <1>0, <2>1 DEF QueryInv, UnlinkedByFetch
    <2>3. UnlinkedByFetch' /\ UnlinkedIsAlone'
      BY <1>0, <2>1, <2>2 DEF QueryInv, UnlinkedByFetch, UnlinkedIsAlone
    <2>4. FoundIsComplete'
      BY <1>0, <2>1 DEF QueryInv, FoundIsComplete
    <2> QED
      BY <2>3, <2>4 DEF QueryInv
  <1>4. ASSUME NEW w \in Workers, Crash(w) PROVE QueryInv'
    <2>1. CASE pc[w] = "fetched"
      BY <1>4, <2>1, NoQueryLeft DEF Crash
    <2>2. CASE pc[w] # "fetched"
      <3>1. /\ UNCHANGED <<event, linked, stored, pair, doomed>>
            /\ pc'[w] = "idle" /\ ~unlinked'[w]
            /\ \A v \in Workers \ {w} : UNCHANGED <<pc[v], at[v], detecting[v], unlinked[v], found[v]>>
        BY <1>4 DEF Crash, EndTransaction, Typed, TypeOK
      <3>2. UnlinkedByFetch' /\ UnlinkedIsAlone'
        BY <1>0, <3>1 DEF QueryInv, UnlinkedByFetch, UnlinkedIsAlone
      <3>3. FoundIsComplete'
        BY <1>0, <3>1 DEF QueryInv, FoundIsComplete
      <3> QED
        BY <3>2, <3>3 DEF QueryInv
    <2> QED
      BY <2>1, <2>2
  <1>5. ASSUME NEW w \in Workers, Persist(w) PROVE QueryInv'
    BY <1>5, NoQueryLeft DEF Persist
  <1>6. CASE DeleteStarts
    <2>1. UNCHANGED <<event, linked, stored, pair, workerVars>> /\ doomed' = stored
      BY <1>6 DEF DeleteStarts
    <2> QED
      BY <1>0, <2>1 DEF QueryInv, UnlinkedByFetch, FoundIsComplete, UnlinkedIsAlone
  <1>7. CASE DeleteEnds
    <2>1. /\ UNCHANGED <<event, linked, workerVars>> /\ stored' = stored \ doomed
          /\ \A t \in stored' : pair'[t] = pair[t]
      BY <1>7 DEF DeleteEnds, Typed, TypeOK
    <2> QED
      BY <1>0, <2>1 DEF QueryInv, UnlinkedByFetch, FoundIsComplete, UnlinkedIsAlone
  <1>8. CASE \/ \E t \in Txs : Publish(t)
             \/ \E w \in Workers : Rebalance(w)
             \/ SnapshotTransactions \/ Replay \/ VerifySnapshot \/ UNCHANGED vars
    BY <1>2, <1>8 DEF Publish, Rebalance, SnapshotTransactions, Replay, VerifySnapshot, vars
  <1> QED
    BY <1>1, <1>3, <1>4, <1>5, <1>6, <1>7, <1>8, FetchIsComplete DEF Next, WorkerStep, JobStep

-----------------------------------------------------------------------------
(* What the commit of a message does to the rows.                          *)

LEMMA PersistEffect ==
    ASSUME Typed, MutualInv, ClaimInv, NEW w \in Workers, Persist(w)
    PROVE  LET t       == at[w]
               partner == Verdict(w).partner
           IN  /\ pc[w] = "fetched" /\ t \in Txs
               /\ stored' = stored \cup {t}
               /\ UNCHANGED <<event, linked, doomed, used>>
               /\ partner # {} => /\ t \notin stored /\ detecting[w] /\ ~unlinked[w]
                                  /\ Verdict(w).pair.claimed /\ Verdict(w).anomaly \notin Unpaired
               /\ partner = {} \/ \E c \in found[w] : partner = {c}
               /\ \A x \in Txs : /\ related'[x] = CASE x \in partner -> t
                                                   [] x = t /\ t \notin stored /\ partner # {} ->
                                                         CHOOSE c \in partner : TRUE
                                                   [] OTHER -> related[x]
                                 /\ pair'[x] = IF x \in partner \/ (x = t /\ t \notin stored)
                                               THEN Verdict(w).pair ELSE pair[x]
  <1>1. pc[w] = "fetched" /\ at[w] \in Txs
    BY DEF Persist, Typed, HasMessage
  <1>2. at[w] \in stored => ~detecting[w]
    BY <1>1 DEF MutualInv, WorkersSafe, DetectedIsNew, InTransaction
  <1> QED
    BY <1>1, <1>2, VerdictIsSound, VerdictIsFair DEF Persist, jobVars, Sound

\* The anomaly of the new row, and what happens to the anomalies that are there.
LEMMA PersistAnomalies ==
    ASSUME Typed, MutualInv, ClaimInv, NEW w \in Workers, Persist(w)
    PROVE  LET t       == at[w]
               verdict == Verdict(w)
           IN  /\ \A x \in Txs : anomaly[x] \in Terminal => anomaly'[x] = anomaly[x]
               /\ \A x \in stored : anomaly'[x] \in Unpaired => anomaly'[x] = anomaly[x]
               /\ \A x \in Txs \ {t} : anomaly'[x] # "none" => anomaly'[x] = anomaly[x]
               /\ t \notin stored => anomaly'[t] = verdict.anomaly
               /\ verdict.partner # {} =>
                     \A x \in verdict.partner \cup {t} : x \in Txs => anomaly'[x] \notin Unpaired
  <1> DEFINE t       == at[w]
             verdict == Verdict(w)
             cleaned == ResolveAnomalies(verdict.partner, t)
  <1>1. /\ t \in Txs
        /\ verdict.partner # {} => t \notin stored /\ verdict.anomaly \notin Unpaired
        /\ t \in stored => verdict.anomaly = "none"
    <2>1. t \in stored => ~detecting[w]
      BY PersistEffect DEF MutualInv, WorkersSafe, DetectedIsNew, InTransaction
    <2> QED
      BY <2>1, PersistEffect, VerdictIsFair
  <1>2. anomaly' = IF verdict.anomaly # "none" /\ cleaned[t] = "none"
                   THEN [cleaned EXCEPT ![t] = verdict.anomaly] ELSE cleaned
    BY DEF Persist
  <1>3. cleaned = [x \in Txs |-> IF verdict.partner # {} /\ x \in verdict.partner \cup {t}
                                       /\ anomaly[x] \in Unpaired
                                 THEN "none" ELSE anomaly[x]]
    BY DEF ResolveAnomalies
  <1>4. t \notin stored => anomaly[t] = "none"
    BY <1>1 DEF ClaimInv, AbsentIsClean
  <1>5. "none" \notin Unpaired /\ "none" \notin Terminal /\ Unpaired \cap Terminal = {}
    BY DEF Unpaired, Terminal
  <1> HIDE DEF verdict, cleaned, t
  <1>6. \A x \in Txs : cleaned[x] = IF verdict.partner # {} /\ x \in verdict.partner \cup {t}
                                       /\ anomaly[x] \in Unpaired
                                    THEN "none" ELSE anomaly[x]
    BY <1>3
  <1>7. t \notin stored => cleaned[t] = "none"
    BY <1>1, <1>4, <1>6
  <1>8. \A x \in Txs : anomaly'[x] = IF x = t /\ verdict.anomaly # "none" /\ cleaned[t] = "none"
                                     THEN verdict.anomaly ELSE cleaned[x]
    BY <1>1, <1>2, <1>3
  <1>9. stored \subseteq Txs
    BY DEF Typed, TypeOK
  <1>10. \A x \in Txs : anomaly[x] \in Terminal => anomaly'[x] = anomaly[x]
    BY <1>5, <1>6, <1>8
  <1>11. \A x \in stored : anomaly'[x] \in Unpaired => anomaly'[x] = anomaly[x]
    BY <1>1, <1>5, <1>6, <1>8, <1>9
  <1>12. \A x \in Txs \ {t} : anomaly'[x] # "none" => anomaly'[x] = anomaly[x]
    BY <1>6, <1>8
  <1>13. t \notin stored => anomaly'[t] = verdict.anomaly
    BY <1>1, <1>7, <1>8
  <1>14. verdict.partner # {} =>
            \A x \in verdict.partner \cup {t} : x \in Txs => anomaly'[x] \notin Unpaired
    BY <1>1, <1>5, <1>6, <1>8
  <1> QED
    BY <1>10, <1>11, <1>12, <1>13, <1>14 DEF verdict, t

LEMMA ClaimStep ==
    ASSUME Typed, FromBank, MutualInv, ClaimInv, [Next]_vars, ~RestoreFromBackup
    PROVE  ClaimInv'
  <1>0. QueryInv' /\ PairedIsClaimed /\ AbsentIsClean /\ stored \subseteq Txs
    BY QueryStep DEF ClaimInv, Typed, TypeOK
  <1>1. ASSUME NEW w \in Workers, Persist(w) PROVE PairedIsClaimed' /\ AbsentIsClean'
    <2> DEFINE t == at[w]
               partner == Verdict(w).partner
    <2>1. PairedIsClaimed'
      <3> SUFFICES ASSUME NEW x \in stored \cup {t}, related'[x] # NoTx PROVE pair'[x].claimed
        BY <1>1, PersistEffect DEF PairedIsClaimed
      <3>1. x \in Txs
        BY <1>0, <1>1, PersistEffect
      <3>2. CASE partner # {} /\ x \in partner \cup {t}
        BY <1>1, <3>1, <3>2, PersistEffect
      <3>3. CASE partner = {} \/ x \notin partner \cup {t}
        <4>1. related'[x] = related[x] /\ x \notin partner
          BY <1>1, <3>1, <3>3, PersistEffect
        <4>2. x \in stored
          BY <3>1, <4>1 DEF MutualInv, AbsentIsUnpaired
        <4>3. pair'[x] = pair[x]
          BY <1>1, <3>1, <4>1, <4>2, PersistEffect
        <4> QED
          BY <1>0, <4>1, <4>2, <4>3 DEF PairedIsClaimed
      <3> QED
        BY <3>2, <3>3
    <2>2. AbsentIsClean'
      <3>1. \A x \in Txs \ {t} : anomaly'[x] # "none" => anomaly'[x] = anomaly[x]
        BY <1>1, PersistAnomalies
      <3> QED
        BY <1>0, <1>1, <3>1, PersistEffect DEF AbsentIsClean
    <2> QED
      BY <2>1, <2>2
  <1>2. CASE DeleteEnds
    <2>1. /\ stored' = stored \ doomed
          /\ \A t \in Txs : /\ anomaly'[t] = IF t \in doomed THEN "none" ELSE anomaly[t]
                            /\ t \in stored' => pair'[t] = pair[t]
                            /\ related'[t] # NoTx => related[t] # NoTx
      BY <1>2 DEF DeleteEnds, RelatedAfterDelete, Typed, TypeOK
    <2> QED
      BY <1>0, <2>1 DEF ClaimInv, PairedIsClaimed, AbsentIsClean
  <1>3. CASE UNCHANGED tableVars
    BY <1>0, <1>3 DEF ClaimInv, PairedIsClaimed, AbsentIsClean, tableVars
  <1>4. UNCHANGED tableVars \/ DeleteEnds \/ \E w \in Workers : Persist(w)
    BY DEF Next, WorkerStep, JobStep, LinkAccount, Publish, Rebalance, Poll, Gate, Fetch, CommitOffset,
           Crash, SnapshotTransactions, DeleteStarts, Replay, VerifySnapshot, vars
  <1> QED
    BY <1>0, <1>1, <1>2, <1>3, <1>4 DEF ClaimInv

-----------------------------------------------------------------------------
(* Without a fault every message is processed once.  The messages that     *)
(* wait are distinct, and their rows are not in the table; a replay brings *)
(* back messages whose rows the DELETE has removed.                        *)

NoFaults == used.faults = 0
NoJobs == used.jobs = 0

\* Everything in the partition but the message whose row has just been committed.
Waiting == {i \in DOMAIN queue : i # 1 \/ pc[owner] # "stored"}

WaitOnce ==
    /\ \A i \in Waiting : /\ queue[i] \notin stored
                          /\ job \in {"saved", "deleting", "deleted"} => queue[i] \notin backup.ids
    /\ \A i, k \in Waiting : queue[i] = queue[k] => i = k

OneReader ==
    /\ \A w \in Workers \ {owner} : pc[w] = "idle"
    /\ pc[owner] # "idle" => at[owner] = queue[1]
    /\ pc[owner] \in InTransaction => (detecting[owner] <=> Detects(event[at[owner]]))

BackupGoesOnce ==
    /\ job = "saved" => backup.ids \subseteq stored
    /\ job = "deleting" => backup.ids \subseteq doomed
    /\ job = "deleted" => backup.ids \cap stored = {}

EachOnce == WaitOnce /\ OneReader /\ BackupGoesOnce

LEMMA EachOnceInit == Init => EachOnce
  <1> SUFFICES ASSUME Init PROVE EachOnce
    OBVIOUS
  <1>1. DOMAIN queue = {} /\ owner \in Workers
    BY PairingAssumption DEF Init
  <1>2. WaitOnce
    BY <1>1 DEF WaitOnce, Waiting
  <1>3. OneReader /\ BackupGoesOnce
    BY <1>1 DEF Init, OneReader, BackupGoesOnce, InTransaction
  <1> QED
    BY <1>2, <1>3 DEF EachOnce

\* A bound that is not touched has not been touched before.
LEMMA BoundsGrow ==
    ASSUME TypeOK, [Next]_vars
    PROVE  /\ NoFaults' => NoFaults /\ ~Spend("faults")
           /\ NoJobs' => NoJobs /\ ~Spend("jobs")
  <1>1. ASSUME NEW kind \in Bounds, Spend(kind)
        PROVE  /\ NoFaults' => NoFaults /\ kind # "faults"
               /\ NoJobs' => NoJobs /\ kind # "jobs"
    BY <1>1 DEF Spend, NoFaults, NoJobs, TypeOK, Bounds
  <1>2. "faults" \in Bounds /\ "jobs" \in Bounds /\ "restores" \in Bounds
    BY DEF Bounds
  <1>3. used' = used => (NoFaults' => NoFaults) /\ (NoJobs' => NoJobs)
    BY DEF NoFaults, NoJobs
  <1>4. used' = used \/ Spend("faults") \/ Spend("jobs") \/ Spend("restores")
    BY DEF Next, WorkerStep, JobStep, vars, LinkAccount, Publish, Rebalance, Poll, Gate, Fetch,
           Persist, CommitOffset, Crash, SnapshotTransactions, DeleteStarts, DeleteEnds, Replay,
           VerifySnapshot, RestoreFromBackup
  <1> QED
    BY <1>1, <1>2, <1>3, <1>4

\* The message the owner works on is the first, and it waits until its row is committed.
LEMMA FirstWaits ==
    ASSUME Typed, EachOnce, pc[owner] \notin {"idle", "stored"}
    PROVE  1 \in Waiting /\ at[owner] = queue[1] /\ at[owner] \notin stored
  <1>1. queue # <<>> /\ at[owner] = queue[1]
    BY DEF Typed, TypeOK, OwnerHasMessage, EachOnce, OneReader
  <1>2. DOMAIN queue = 1..Len(queue) /\ Len(queue) \in Nat \ {0}
    BY <1>1, EmptySeq, LenProperties DEF Typed, TypeOK
  <1>3. 1 \in Waiting
    BY <1>2 DEF Waiting
  <1> QED
    BY <1>1, <1>3 DEF EachOnce, WaitOnce

\* Appending messages that are not in the table, not in the partition and not twice.
LEMMA AppendOnce ==
    ASSUME Typed, EachOnce, NEW rows \in Seq(Txs), queue' = queue \o rows,
           UNCHANGED <<owner, pc, at, detecting, event, stored, backup>>,
           \A i, k \in 1..Len(rows) : rows[i] = rows[k] => i = k,
           \A i \in 1..Len(rows) : /\ rows[i] \notin stored
                                   /\ \A k \in Waiting : queue[k] # rows[i]
                                   /\ job' \in {"saved", "deleting", "deleted"} => rows[i] \notin backup.ids,
           job' = job \/ job' \notin {"saved", "deleting", "deleted"}
    PROVE  WaitOnce' /\ OneReader'
  <1> DEFINE n == Len(queue)
             Old(i) == i \in Waiting /\ i <= n /\ queue'[i] = queue[i]
             New(i) == i > n /\ (i - n) \in 1..Len(rows) /\ queue'[i] = rows[i - n]
  <1>1. queue \in Seq(Txs) /\ n \in Nat /\ DOMAIN queue = 1..n
    BY LenProperties DEF Typed, TypeOK
  <1>2. /\ queue \o rows \in Seq(Txs) /\ Len(queue \o rows) = n + Len(rows)
        /\ \A i \in 1..(n + Len(rows)) : (queue \o rows)[i] = IF i <= n THEN queue[i] ELSE rows[i - n]
    BY <1>1, ConcatProperties
  <1>3. DOMAIN (queue \o rows) = 1..(n + Len(rows)) /\ Len(rows) \in Nat
    BY <1>2, LenProperties
  <1>4. pc[owner] # "idle" => n # 0 /\ queue'[1] = queue[1]
    <2> SUFFICES ASSUME pc[owner] # "idle" PROVE n # 0 /\ queue'[1] = queue[1]
      OBVIOUS
    <2>1. n # 0
      BY <1>1, EmptySeq DEF Typed, TypeOK, OwnerHasMessage
    <2>2. 1 \in 1..(n + Len(rows)) /\ 1 <= n
      BY <1>1, <1>3, <2>1
    <2> QED
      BY <1>2, <2>1, <2>2
  <1>5. ASSUME NEW i \in Waiting' PROVE (Old(i) \/ New(i)) /\ i \in Nat
    <2>1. i \in 1..(n + Len(rows)) /\ (i # 1 \/ pc[owner] # "stored")
      BY <1>3 DEF Waiting
    <2>2. CASE i <= n
      <3>1. i \in DOMAIN queue /\ queue'[i] = queue[i]
        BY <1>1, <1>2, <2>1, <2>2
      <3> QED
        BY <2>1, <2>2, <3>1 DEF Waiting
    <2>3. CASE ~(i <= n)
      BY <1>1, <1>2, <1>3, <2>1, <2>3
    <2> QED
      BY <2>1, <2>2, <2>3
  <1>6. ASSUME NEW i \in Waiting'
        PROVE  /\ queue'[i] \notin stored'
               /\ job' \in {"saved", "deleting", "deleted"} => queue'[i] \notin backup'.ids
    <2>1. CASE Old(i)
      BY <2>1 DEF EachOnce, WaitOnce
    <2>2. CASE New(i)
      BY <2>2
    <2> QED
      BY <1>5, <2>1, <2>2
  <1>7. ASSUME NEW i \in Waiting', NEW k \in Waiting', queue'[i] = queue'[k] PROVE i = k
    <2>1. CASE Old(i) /\ Old(k)
      BY <1>7, <2>1 DEF EachOnce, WaitOnce
    <2>2. CASE New(i) /\ New(k)
      <3>1. i - n = k - n
        BY <1>7, <2>2
      <3> QED
        BY <1>1, <1>5, <3>1
    <2>3. CASE Old(i) /\ New(k)
      BY <1>7, <2>3
    <2>4. CASE New(i) /\ Old(k)
      BY <1>7, <2>4
    <2> QED
      BY <1>5, <2>1, <2>2, <2>3, <2>4
  <1>8. OneReader'
    BY <1>4 DEF EachOnce, OneReader
  <1> QED
    BY <1>6, <1>7, <1>8 DEF WaitOnce

LEMMA WorkerOnce ==
    ASSUME Typed, EachOnce, NEW w \in Workers, WorkerStep(w)
    PROVE  EachOnce'
  <1> USE DEF tableVars, topicVars, workerVars, jobVars
  <1>0. queue \in Seq(Txs) /\ Len(queue) \in Nat /\ DOMAIN queue = 1..Len(queue)
    BY LenProperties DEF Typed, TypeOK
  <1>1. w = owner
    BY DEF WorkerStep, Poll, Gate, LockFree, Fetch, Persist, CommitOffset, EachOnce, OneReader
  <1>2. CASE Poll(w)
    <2>1. /\ UNCHANGED <<queue, owner, stored, job, backup, doomed, event>>
          /\ pc[owner] = "idle" /\ pc'[owner] = "polled" /\ at'[owner] = queue[1]
          /\ \A v \in Workers \ {owner} : pc'[v] = pc[v]
      BY <1>1, <1>2 DEF Poll, Typed, TypeOK
    <2>2. Waiting' = Waiting
      BY <2>1 DEF Waiting
    <2>3. WaitOnce' /\ BackupGoesOnce'
      BY <2>1, <2>2 DEF EachOnce, WaitOnce, BackupGoesOnce
    <2>4. OneReader'
      BY <2>1 DEF EachOnce, OneReader, InTransaction
    <2> QED
      BY <2>3, <2>4 DEF EachOnce
  <1>3. CASE Gate(w) \/ Fetch(w)
    <2>1. /\ UNCHANGED <<queue, owner, stored, job, backup, doomed, event, at>>
          /\ pc[owner] \notin {"idle", "stored"} /\ pc'[owner] \notin {"idle", "stored"}
          /\ \A v \in Workers \ {owner} : pc'[v] = pc[v]
      BY <1>1, <1>3 DEF Gate, LockFree, Fetch, Typed, TypeOK
    <2>2. Waiting' = Waiting
      BY <2>1 DEF Waiting
    <2>3. WaitOnce' /\ BackupGoesOnce'
      BY <2>1, <2>2 DEF EachOnce, WaitOnce, BackupGoesOnce
    <2>4. at[owner] \notin stored /\ at[owner] = queue[1]
      BY <2>1, FirstWaits
    <2>5. detecting'[owner] <=> Detects(event[at[owner]])
      <3>1. CASE Gate(w)
        <4>1. Detects(event[at[owner]]) \in BOOLEAN
          BY <2>1 DEF Typed, TypeOK, HasMessage, Legs, Detects
        <4> QED
          BY <1>1, <2>4, <3>1, <4>1 DEF Gate, Typed, TypeOK
      <3>2. CASE Fetch(w)
        BY <1>1, <3>2 DEF Fetch, EachOnce, OneReader, InTransaction
      <3> QED
        BY <1>3, <3>1, <3>2
    <2>6. OneReader'
      BY <2>1, <2>4, <2>5 DEF EachOnce, OneReader
    <2> QED
      BY <2>3, <2>6 DEF EachOnce
  <1>4. CASE Persist(w)
    <2>1. /\ UNCHANGED <<queue, owner, job, backup, doomed, event, at>>
          /\ pc[owner] = "fetched" /\ pc'[owner] = "stored"
          /\ stored' = stored \cup {at[owner]}
          /\ \A v \in Workers \ {owner} : pc'[v] = pc[v]
      BY <1>1, <1>4 DEF Persist, EndTransaction, Typed, TypeOK
    <2>2. 1 \in Waiting /\ at[owner] = queue[1]
      BY <2>1, FirstWaits
    <2>3. \A i \in Waiting' : i \in Waiting /\ i # 1
      BY <2>1 DEF Waiting
    <2>4. \A i \in Waiting' : queue[i] # queue[1]
      BY <2>2, <2>3 DEF EachOnce, WaitOnce
    <2>5. WaitOnce'
      BY <2>1, <2>2, <2>3, <2>4 DEF EachOnce, WaitOnce
    <2>6. OneReader'
      BY <2>1, <2>2 DEF EachOnce, OneReader, InTransaction
    <2>7. BackupGoesOnce'
      BY <2>1, <2>2 DEF EachOnce, WaitOnce, BackupGoesOnce
    <2> QED
      BY <2>5, <2>6, <2>7 DEF EachOnce
  <1>5. CASE CommitOffset(w)
    <2>1. /\ UNCHANGED <<owner, stored, job, backup, doomed, event>>
          /\ pc[owner] = "stored" /\ pc'[owner] = "idle" /\ queue' = Tail(queue)
          /\ \A v \in Workers \ {owner} : pc'[v] = pc[v]
      BY <1>1, <1>5 DEF CommitOffset, Typed, TypeOK
    <2>2. queue # <<>>
      BY <2>1 DEF Typed, TypeOK, OwnerHasMessage
    <2>3. /\ Tail(queue) \in Seq(Txs) /\ Len(Tail(queue)) = Len(queue) - 1
          /\ \A i \in 1..Len(Tail(queue)) : Tail(queue)[i] = queue[i + 1]
      BY <1>0, <2>2, HeadTailProperties
    <2>4. DOMAIN queue' = 1..(Len(queue) - 1)
      BY <2>1, <2>3, LenProperties
    <2>5. \A i \in Waiting' : /\ i \in Nat /\ (i + 1) \in DOMAIN queue /\ i + 1 # 1
                              /\ queue'[i] = queue[i + 1]
      BY <1>0, <2>1, <2>3, <2>4 DEF Waiting
    <2>6. \A i \in Waiting' : (i + 1) \in Waiting
      BY <2>5 DEF Waiting
    <2>7. WaitOnce'
      <3>1. ASSUME NEW i \in Waiting'
            PROVE  /\ queue'[i] \notin stored'
                   /\ job' \in {"saved", "deleting", "deleted"} => queue'[i] \notin backup'.ids
        BY <2>1, <2>5, <2>6 DEF EachOnce, WaitOnce
      <3>2. ASSUME NEW i \in Waiting', NEW k \in Waiting', queue'[i] = queue'[k] PROVE i = k
        <4>1. i + 1 = k + 1
          BY <2>5, <2>6, <3>2 DEF EachOnce, WaitOnce
        <4> QED
          BY <2>5, <4>1
      <3> QED
        BY <3>1, <3>2 DEF WaitOnce
    <2>8. OneReader' /\ BackupGoesOnce'
      BY <2>1 DEF EachOnce, OneReader, BackupGoesOnce, InTransaction
    <2> QED
      BY <2>7, <2>8 DEF EachOnce
  <1> QED
    BY <1>2, <1>3, <1>4, <1>5 DEF WorkerStep

LEMMA EachOnceStep ==
    ASSUME Typed, FromBank, EachOnce, [Next]_vars, ~RestoreFromBackup, ~Spend("faults")
    PROVE  EachOnce'
  <1> USE DEF tableVars, topicVars, workerVars, jobVars
  <1>1. ASSUME NEW a \in Accounts, LinkAccount(a) PROVE EachOnce'
    BY <1>1 DEF LinkAccount, EachOnce, WaitOnce, Waiting, OneReader, BackupGoesOnce
  <1>2. ASSUME NEW t \in Txs, Publish(t) PROVE EachOnce'
    <2>1. /\ t \notin published /\ queue' = Append(queue, t)
          /\ UNCHANGED <<owner, pc, at, detecting, event, stored, job, backup, doomed>>
      BY <1>2 DEF Publish
    <2>2. <<t>> \in Seq(Txs) /\ Len(<<t>>) = 1 /\ <<t>>[1] = t
      OBVIOUS
    <2>3. queue' = queue \o <<t>>
      <3>1. queue \in Seq(Txs)
        BY DEF Typed, TypeOK
      <3> QED
        BY <2>1, <3>1, AppendIsConcat
    <2>4. \A k \in Waiting : queue[k] # t
      BY <2>1 DEF FromBank, Waiting
    <2>5. t \notin stored /\ t \notin backup.ids
      BY <2>1 DEF FromBank
    <2> DEFINE rows == <<t>>
    <2>6. \A i \in 1..Len(rows) : i = 1 /\ rows[i] = t
      BY <2>2
    <2>7. rows \in Seq(Txs) /\ queue' = queue \o rows
      BY <2>2, <2>3
    <2> HIDE DEF rows
    <2>8. WaitOnce' /\ OneReader'
      BY <2>1, <2>4, <2>5, <2>6, <2>7, AppendOnce
    <2> QED
      BY <2>1, <2>8 DEF EachOnce, BackupGoesOnce
  <1>3. CASE Replay
    <2>1. PICK rows \in Seq(Txs) :
              /\ queue' = queue \o rows
              /\ \A i \in 1..Len(rows) : rows[i] \in backup.ids
              /\ \A i, k \in 1..Len(rows) : rows[i] = rows[k] => i = k
      BY <1>3, ReplayAppends
    <2>2. /\ UNCHANGED <<owner, pc, at, detecting, event, stored, backup, doomed>>
          /\ job = "deleted" /\ job' = "replayed"
      BY <1>3 DEF Replay
    <2>3. \A x \in backup.ids : x \notin stored /\ \A k \in Waiting : queue[k] # x
      BY <2>2 DEF EachOnce, WaitOnce, BackupGoesOnce
    <2>4. WaitOnce' /\ OneReader'
      BY <2>1, <2>2, <2>3, AppendOnce
    <2> QED
      BY <2>2, <2>4 DEF EachOnce, BackupGoesOnce
  <1>4. CASE SnapshotTransactions
    <2>1. /\ UNCHANGED <<event, queue, owner, pc, at, detecting, stored>>
          /\ backup'.ids = stored /\ job' = "saved"
      BY <1>4 DEF SnapshotTransactions
    <2>2. Waiting' = Waiting
      BY <2>1 DEF Waiting
    <2> QED
      BY <2>1, <2>2 DEF EachOnce, WaitOnce, OneReader, BackupGoesOnce
  <1>5. CASE DeleteStarts \/ DeleteEnds
    <2>1. /\ UNCHANGED <<event, queue, owner, pc, at, detecting, backup>>
          /\ \/ job = "saved" /\ job' = "deleting" /\ doomed' = stored /\ stored' = stored
             \/ job = "deleting" /\ job' = "deleted" /\ stored' = stored \ doomed
      BY <1>5 DEF DeleteStarts, DeleteEnds
    <2>2. Waiting' = Waiting
      BY <2>1 DEF Waiting
    <2> QED
      BY <2>1, <2>2 DEF EachOnce, WaitOnce, OneReader, BackupGoesOnce
  <1>6. CASE VerifySnapshot \/ UNCHANGED vars
    <2>1. /\ UNCHANGED <<event, queue, owner, pc, at, detecting, backup, stored, doomed>>
          /\ job' = job \/ job' = "over"
      BY <1>6 DEF VerifySnapshot, vars
    <2>2. Waiting' = Waiting
      BY <2>1 DEF Waiting
    <2> QED
      BY <2>1, <2>2 DEF EachOnce, WaitOnce, OneReader, BackupGoesOnce
  <1>7. \A w \in Workers : ~Crash(w) /\ ~Rebalance(w)
    BY DEF Crash, Rebalance
  <1> QED
    BY <1>1, <1>2, <1>3, <1>4, <1>5, <1>6, <1>7, WorkerOnce DEF Next, JobStep

-----------------------------------------------------------------------------
(* Which legs are left apart, and which are brought together.              *)

\* Without a job no row is deleted: what the gate took for a duplicate still is one.
KnownIsStored ==
    \A w \in Workers : pc[w] \in InTransaction /\ ~detecting[w] /\ Detects(event[at[w]])
        => at[w] \in stored

QuietInv == job = "none" /\ KnownIsStored

PairedIsQuiet == \A t \in stored : related[t] # NoTx => anomaly[t] \notin Unpaired

ApartIsExplained ==
    \A t, u \in stored \ doomed :
        Mates(t, u) /\ Detected(t, u) /\ ~pair[t].claimed /\ ~pair[u].claimed
            => {anomaly[t], anomaly[u]} \cap Terminal # {}

ExplainedInv == PairedIsQuiet /\ (GateReliable => ApartIsExplained)

LEMMA QuietInit == Init => QuietInv /\ ExplainedInv
  BY DEF Init, QuietInv, KnownIsStored, ExplainedInv, PairedIsQuiet, ApartIsExplained, InTransaction

LEMMA QuietStep ==
    ASSUME Typed, MutualInv, QuietInv, [Next]_vars, ~Spend("jobs")
    PROVE  QuietInv'
  <1>1. job' = "none" /\ ~DeleteEnds /\ ~RestoreFromBackup
    BY DEF QuietInv, Next, WorkerStep, JobStep, vars, jobVars, LinkAccount, Publish, Rebalance, Poll, Gate,
           Fetch, Persist, CommitOffset, Crash, SnapshotTransactions, DeleteStarts, DeleteEnds,
           Replay, VerifySnapshot, RestoreFromBackup
  <1>2. ASSUME NEW w \in Workers, Gate(w) PROVE KnownIsStored'
    <2>1. \A v \in Workers : pc[v] \notin InTransaction
      BY <1>2 DEF Gate, LockFree
    <2>2. /\ UNCHANGED <<event, at, stored>>
          /\ \A v \in Workers \ {w} : pc'[v] = pc[v]
          /\ detecting'[w] = (Detects(event[at[w]]) /\ at[w] \notin stored)
      BY <1>2 DEF Gate, tableVars, Typed, TypeOK
    <2> QED
      BY <2>1, <2>2 DEF KnownIsStored
  <1>3. ASSUME NEW w \in Workers, Poll(w) \/ Fetch(w) \/ Persist(w) \/ CommitOffset(w) \/ Crash(w)
        PROVE  KnownIsStored'
    <2>1. /\ event' = event /\ stored \subseteq stored'
          /\ pc'[w] \in InTransaction => pc[w] \in InTransaction /\ detecting'[w] = detecting[w]
                                         /\ at'[w] = at[w]
          /\ \A v \in Workers \ {w} : UNCHANGED <<pc[v], at[v], detecting[v]>>
      BY <1>3 DEF Poll, Fetch, Persist, CommitOffset, Crash, EndTransaction, InTransaction, tableVars,
                  Typed, TypeOK
    <2> QED
      BY <2>1 DEF QuietInv, KnownIsStored
  <1>4. ASSUME UNCHANGED <<event, stored, pc, at, detecting>> PROVE KnownIsStored'
    BY <1>4 DEF QuietInv, KnownIsStored
  <1>5. \/ \E w \in Workers : \/ Gate(w) \/ Poll(w) \/ Fetch(w) \/ Persist(w) \/ CommitOffset(w)
                              \/ Crash(w)
        \/ UNCHANGED <<event, stored, pc, at, detecting>>
    BY <1>1 DEF Next, WorkerStep, JobStep, vars, tableVars, workerVars, LinkAccount, Publish,
                Rebalance, SnapshotTransactions, DeleteStarts, Replay, VerifySnapshot
  <1> QED
    BY <1>1, <1>2, <1>3, <1>4, <1>5 DEF QuietInv

\* When the gate can be trusted, a new transfer row has been through the detection.
LEMMA NewIsDetected ==
    ASSUME Typed, NEW w \in Workers, pc[w] = "fetched", at[w] \notin stored, Detects(event[at[w]]),
           NoFaults => EachOnce, NoJobs => QuietInv, GateReliable
    PROVE  detecting[w]
  <1>1. CASE NoFaults
    BY <1>1 DEF EachOnce, OneReader, InTransaction
  <1>2. CASE NoJobs
    BY <1>2 DEF QuietInv, KnownIsStored, InTransaction
  <1> QED
    BY <1>1, <1>2 DEF GateReliable, NoFaults, NoJobs

\* Everything unclaimed that belongs to the leg is among the candidates of the decision.
LEMMA MateIsCandidate ==
    ASSUME Typed, FromBank, ClaimInv, NEW w \in Workers, pc[w] = "fetched", detecting[w], ~unlinked[w],
           NEW c \in stored \ doomed, ~pair[c].claimed, Mates(at[w], c)
    PROVE  c \in Consistent(w)
  <1>1. /\ at[w] \in Txs /\ c \in Txs /\ event \in [Txs -> Legs]
        /\ event[at[w]].account \in linked /\ event[c].account \in linked
    BY DEF Typed, TypeOK, HasMessage, FromBank
  <1>2. CpIbanStatus(event[at[w]], linked) # "unlinked"
    BY DEF ClaimInv, QueryInv, FoundIsComplete
  <1>3. IsCandidate(event[at[w]], event[c]) /\ IsConsistent(event[at[w]], event[c], linked)
    BY <1>1, <1>2, DetectionIsSymmetric
  <1>4. c \in found[w]
    BY <1>3 DEF ClaimInv, QueryInv, FoundIsComplete
  <1> QED
    BY <1>3, <1>4 DEF Consistent

LEMMA MatesSymmetric ==
    ASSUME NEW t, NEW u, Mates(t, u)
    PROVE  Mates(u, t) /\ event[t].transfer /\ event[t].account # event[u].account
  <1>1. {event[u].direction, event[t].direction} = {event[t].direction, event[u].direction}
    OBVIOUS
  <1> QED
    BY <1>1 DEF Mates, SameMovement

\* A new row and a row it could belong to.
LEMMA NewIsExplained ==
    ASSUME Typed, FromBank, MutualInv, ClaimInv, NoFaults => EachOnce, NoJobs => QuietInv,
           GateReliable, NEW w \in Workers, Persist(w), at[w] \notin stored,
           NEW c \in stored \ doomed, Mates(at[w], c), Detected(at[w], c),
           ~pair[c].claimed, ~pair'[at[w]].claimed
    PROVE  anomaly'[at[w]] \in Terminal
  <1>1. pc[w] = "fetched" /\ at[w] \in Txs
    BY PersistEffect
  <1>2. detecting[w]
    BY <1>1, MatesSymmetric, NewIsDetected DEF Detects, Detected
  <1>3. ~unlinked[w]
    <2>1. ASSUME unlinked[w] PROVE FALSE
      <3>1. event[at[w]].cpIban = event[c].account
        BY <2>1 DEF ClaimInv, QueryInv, UnlinkedIsAlone, Mates
      <3> QED
        BY <2>1, <3>1 DEF ClaimInv, QueryInv, UnlinkedIsAlone
    <2> QED
      BY <2>1
  <1>4. c \in Consistent(w)
    BY <1>1, <1>2, <1>3, MateIsCandidate
  <1>5. Verdict(w).partner # {} \/ Verdict(w).anomaly \in Terminal
    BY <1>2, <1>3, <1>4, VerdictIsFair DEF Fair
  <1>6. pair'[at[w]] = Verdict(w).pair
    BY <1>1, PersistEffect
  <1>7. Verdict(w).partner = {}
    BY <1>6, PersistEffect
  <1>8. anomaly'[at[w]] = Verdict(w).anomaly
    BY PersistAnomalies
  <1> QED
    BY <1>5, <1>7, <1>8

LEMMA PersistExplains ==
    ASSUME Typed, FromBank, MutualInv, ClaimInv, NoFaults => EachOnce, NoJobs => QuietInv,
           ExplainedInv, NEW w \in Workers, Persist(w)
    PROVE  ExplainedInv'
  <1> DEFINE t == at[w]
             partner == Verdict(w).partner
  <1>1. /\ stored' = stored \cup {t} /\ t \in Txs /\ stored \subseteq Txs
        /\ UNCHANGED <<event, doomed, used>>
    BY PersistEffect DEF Typed, TypeOK
  <1>2. \A x, y : (Mates(x, y)' <=> Mates(x, y)) /\ (Detected(x, y)' <=> Detected(x, y))
    BY <1>1 DEF Mates, SameMovement, NamesPartner, Detected
  <1>3. \A x \in stored : pair[x].claimed => pair'[x].claimed
    BY <1>1, PersistEffect
  <1>4. PairedIsQuiet'
    <2> SUFFICES ASSUME NEW x \in stored', related'[x] # NoTx PROVE anomaly'[x] \notin Unpaired
      BY DEF PairedIsQuiet
    <2>1. x \in Txs
      BY <1>1
    <2>2. CASE partner # {} /\ x \in partner \cup {t}
      BY <2>1, <2>2, PersistAnomalies
    <2>3. CASE partner = {} \/ x \notin partner \cup {t}
      <3>1. related'[x] = related[x]
        BY <2>1, <2>3, PersistEffect
      <3>2. x \in stored
        BY <2>1, <3>1 DEF MutualInv, AbsentIsUnpaired
      <3>3. anomaly'[x] \in Unpaired => anomaly'[x] = anomaly[x]
        BY <3>2, PersistAnomalies
      <3> QED
        BY <3>1, <3>2, <3>3 DEF ExplainedInv, PairedIsQuiet
    <2> QED
      BY <2>2, <2>3
  <1>5. ASSUME GateReliable' PROVE ApartIsExplained'
    <2>0. GateReliable
      BY <1>1, <1>5 DEF GateReliable
    <2> SUFFICES ASSUME NEW x \in stored' \ doomed', NEW y \in stored' \ doomed',
                        Mates(x, y), Detected(x, y), ~pair'[x].claimed, ~pair'[y].claimed
                 PROVE  {anomaly'[x], anomaly'[y]} \cap Terminal # {}
      BY <1>2 DEF ApartIsExplained
    <2>1. Mates(y, x) /\ Detected(y, x) /\ x # y
      BY MatesSymmetric DEF Detected
    <2>2. CASE x \in stored /\ y \in stored
      <3>1. {anomaly[x], anomaly[y]} \cap Terminal # {}
        BY <1>1, <1>3, <2>0, <2>2 DEF ExplainedInv, ApartIsExplained
      <3>2. \A z \in Txs : anomaly[z] \in Terminal => anomaly'[z] = anomaly[z]
        BY PersistAnomalies
      <3> QED
        BY <1>1, <2>2, <3>1, <3>2
    <2>3. CASE x \notin stored
      <3>1. x = t /\ y \in stored \ doomed /\ ~pair[y].claimed
        BY <1>1, <1>3, <2>1, <2>3
      <3>2. anomaly'[t] \in Terminal
        BY <2>0, <2>3, <3>1, NewIsExplained
      <3> QED
        BY <3>1, <3>2
    <2>4. CASE y \notin stored
      <3>1. y = t /\ x \in stored \ doomed /\ ~pair[x].claimed
        BY <1>1, <1>3, <2>1, <2>4
      <3>2. anomaly'[t] \in Terminal
        BY <2>0, <2>1, <2>4, <3>1, NewIsExplained
      <3> QED
        BY <3>1, <3>2
    <2> QED
      BY <2>2, <2>3, <2>4
  <1> QED
    BY <1>4, <1>5 DEF ExplainedInv

LEMMA ExplainedStep ==
    ASSUME Typed, FromBank, MutualInv, ClaimInv, NoFaults => EachOnce, NoJobs => QuietInv,
           ExplainedInv, [Next]_vars, ~RestoreFromBackup
    PROVE  ExplainedInv'
  <1>1. GateReliable' => GateReliable
    BY BoundsGrow DEF GateReliable, NoFaults, NoJobs, Typed
  <1>2. event' = event
    BY DEF Next, WorkerStep, JobStep, vars, LinkAccount, Publish, Rebalance, Poll, Gate, Fetch,
           Persist, CommitOffset, Crash, SnapshotTransactions, DeleteStarts, DeleteEnds, Replay,
           VerifySnapshot, RestoreFromBackup
  <1>3. \A x, y : (Mates(x, y)' <=> Mates(x, y)) /\ (Detected(x, y)' <=> Detected(x, y))
    BY <1>2 DEF Mates, SameMovement, NamesPartner, Detected
  <1>4. CASE DeleteEnds
    <2>1. /\ stored' = stored \ doomed
          /\ \A t \in stored' : /\ anomaly'[t] = anomaly[t] /\ pair'[t] = pair[t]
                                /\ related'[t] # NoTx => related[t] # NoTx
      BY <1>4 DEF DeleteEnds, RelatedAfterDelete, Typed, TypeOK
    <2>2. PairedIsQuiet'
      BY <2>1 DEF ExplainedInv, PairedIsQuiet
    <2>3. ApartIsExplained => ApartIsExplained'
      BY <1>3, <2>1 DEF ApartIsExplained
    <2> QED
      BY <1>1, <2>2, <2>3 DEF ExplainedInv
  <1>5. CASE DeleteStarts
    <2>1. UNCHANGED tableVars /\ doomed' = stored
      BY <1>5 DEF DeleteStarts
    <2> QED
      BY <2>1 DEF ExplainedInv, PairedIsQuiet, ApartIsExplained, tableVars
  <1>6. CASE UNCHANGED <<tableVars, doomed>>
    <2>1. PairedIsQuiet' /\ (ApartIsExplained => ApartIsExplained')
      BY <1>3, <1>6 DEF ExplainedInv, PairedIsQuiet, ApartIsExplained, tableVars
    <2> QED
      BY <1>1, <2>1 DEF ExplainedInv
  <1>7. DeleteEnds \/ DeleteStarts \/ UNCHANGED <<tableVars, doomed>> \/ \E w \in Workers : Persist(w)
    BY DEF Next, WorkerStep, JobStep, jobVars, LinkAccount, Publish, Rebalance, Poll, Gate, Fetch,
           CommitOffset, Crash, SnapshotTransactions, Replay, VerifySnapshot, vars
  <1> QED
    BY <1>4, <1>5, <1>6, <1>7, PersistExplains

\* The invariant of the detection.
DetectionInv ==
    /\ Typed
    /\ FromBank
    /\ NoRestore => /\ MutualInv
                    /\ ClaimInv
                    /\ NoFaults => EachOnce
                    /\ NoJobs => QuietInv
                    /\ ExplainedInv

LEMMA DetectionInit == Init => DetectionInv
  BY TypedInit, FromBankInit, MutualInit, ClaimInit, EachOnceInit, QuietInit DEF DetectionInv

LEMMA DetectionStep == DetectionInv /\ [Next]_vars => DetectionInv'
  <1> SUFFICES ASSUME DetectionInv, [Next]_vars PROVE DetectionInv'
    OBVIOUS
  <1>1. Typed /\ FromBank /\ Typed' /\ FromBank'
    BY TypedStep, FromBankStep DEF DetectionInv
  <1>2. ASSUME NoRestore'
        PROVE  MutualInv' /\ ClaimInv' /\ (NoFaults => EachOnce)' /\ (NoJobs => QuietInv)' /\ ExplainedInv'
    <2>1. NoRestore /\ ~RestoreFromBackup
      BY <1>1, <1>2, RestoresGrow DEF Typed
    <2>2. MutualInv /\ ClaimInv /\ (NoFaults => EachOnce) /\ (NoJobs => QuietInv) /\ ExplainedInv
      BY <2>1 DEF DetectionInv
    <2>3. MutualInv' /\ ClaimInv' /\ ExplainedInv'
      BY <1>1, <2>1, <2>2, MutualStep, ClaimStep, ExplainedStep
    <2>4. ASSUME NoFaults' PROVE EachOnce'
      BY <1>1, <2>1, <2>2, <2>4, BoundsGrow, EachOnceStep DEF Typed
    <2>5. ASSUME NoJobs' PROVE QuietInv'
      BY <1>1, <2>2, <2>5, BoundsGrow, QuietStep DEF Typed
    <2> QED
      BY <2>3, <2>4, <2>5
  <1> QED
    BY <1>1, <1>2 DEF DetectionInv

\* As long as no job has restored its snapshot: a leg that has found its partner is not
\* reported as unpaired; and where the gate can be trusted, two stored legs that belong
\* together are only left apart with a terminal anomaly on one of them, whatever the
\* order of arrival, of the faults and of the accounts that are linked meanwhile.
THEOREM LegsLeftApartAreExplained == Spec => []UnpairedExplained
  <1>1. DetectionInv => UnpairedExplained
    BY DEF DetectionInv, ExplainedInv, PairedIsQuiet, ApartIsExplained, UnpairedExplained
  <1> QED
    BY <1>1, DetectionInit, DetectionStep, PTL DEF Spec

\* A new row that takes a partner has seen every unclaimed row that belongs to it, and has
\* taken one for which at least as many IBANs speak.
THEOREM StrongestPartnerIsTaken == Spec => StrongestPartner
  <1> DEFINE Step ==
        \A t \in Txs : NoRestore' /\ t \notin stored /\ t \in stored' /\ related'[t] # NoTx
          => \A c \in stored \ doomed : Mates(t, c) /\ ~pair[c].claimed
                => Witnesses(t, c) <= Witnesses(t, related'[t])
  <1>1. ASSUME DetectionInv, [Next]_vars PROVE Step
    <2> SUFFICES ASSUME NEW t \in Txs, NoRestore', t \notin stored, t \in stored', related'[t] # NoTx,
                        NEW c \in stored \ doomed, Mates(t, c), ~pair[c].claimed
                 PROVE  Witnesses(t, c) <= Witnesses(t, related'[t])
      OBVIOUS
    <2>1. Typed /\ FromBank /\ MutualInv /\ ClaimInv /\ ~RestoreFromBackup
      BY <1>1, RestoresGrow DEF DetectionInv, Typed
    <2>2. PICK w \in Workers : Persist(w)
      BY <1>1, <2>1 DEF Next, WorkerStep, JobStep, LinkAccount, Publish, Rebalance, Poll, Gate, Fetch,
             CommitOffset, Crash, SnapshotTransactions, DeleteStarts, DeleteEnds, Replay,
             VerifySnapshot, vars, tableVars
    <2>3. t = at[w] /\ pc[w] = "fetched"
      BY <2>1, <2>2, PersistEffect
    <2>4. Verdict(w).partner # {}
      <3>1. related[t] = NoTx
        BY <2>1 DEF MutualInv, AbsentIsUnpaired
      <3> QED
        BY <2>1, <2>2, <3>1, PersistEffect
    <2>5. PICK b \in found[w] : Verdict(w).partner = {b}
      BY <2>1, <2>2, <2>4, PersistEffect
    <2>6. b \in stored /\ b \in Txs
      BY <2>1 DEF MutualInv, WorkersSafe, FoundIsFree, Typed, TypeOK
    <2>7. related'[t] = b
      BY <2>1, <2>2, <2>3, <2>5, <2>6, PersistEffect
    <2>8. detecting[w] /\ ~unlinked[w]
      BY <2>1, <2>2, <2>4, PersistEffect
    <2>9. c \in Consistent(w)
      BY <2>1, <2>3, <2>8, MateIsCandidate
    <2>10. Rank(PairEvidence(event[t], event[c], linked)) <= Rank(PairEvidence(event[t], event[b], linked))
      BY <2>1, <2>3, <2>5, <2>8, <2>9, VerdictIsFair DEF Fair
    <2>11. /\ event[t].account \in linked /\ event[c].account \in linked /\ event[b].account \in linked
           /\ c \in Txs /\ t # c /\ t # b
      BY <2>1, <2>3, <2>6 DEF FromBank, Typed, TypeOK
    <2>12. /\ Witnesses(t, c) = Rank(PairEvidence(event[t], event[c], linked))
           /\ Witnesses(t, b) = Rank(PairEvidence(event[t], event[b], linked))
      BY <2>6, <2>11, RankCountsWitnesses
    <2> QED
      BY <2>7, <2>10, <2>12
  <1>2. DetectionInv /\ [Next]_vars => [Step]_vars
    BY <1>1
  <1>3. StrongestPartner <=> [][Step]_vars
    BY DEF StrongestPartner
  <1> HIDE DEF Step
  <1> QED
    BY <1>2, <1>3, DetectionInit, DetectionStep, PTL DEF Spec
=============================================================================
