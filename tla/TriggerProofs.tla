---------------------------- MODULE TriggerProofs ----------------------------
(***************************************************************************)
(* Proofs about the trigger endpoints, for any users, requests and bodies. *)
(***************************************************************************)
EXTENDS TriggerProperties, TLAPS

\* What a request has done so far shows in where it is; row locks belong to a
\* transaction that is open.
Ordered ==
    /\ \A r \in Requests : pc[r] = "insert" => todo[r] # <<>>
    /\ \A r \in Requests : pc[r] = "new" => targets[r] = <<>>
    /\ \A u \in Users : claimed[u] # Nobody => pc[claimed[u]] \in Working
    /\ \A u \in Users : pending[u] # Nobody => pc[pending[u]] \in Working

\* The target of a request that was not forced is claimed by it, and was not in its hour.
QuotaKept ==
    /\ \A r \in Requests, u \in Users : claimed[u] = r /\ ~force[r] => u \notin slot
    /\ \A r \in Requests : pc[r] = "insert" => claimed[Head(todo[r])] = r
    /\ \A r \in Requests : pc[r] \in Working => \A u \in Range(targets[r]) : claimed[u] = r

\* Without a lost answer: a user of a Job has the lock row of its request, committed or not.
Apart ==
    /\ \A r, s \in Requests : r # s => Range(job[r]) \cap Range(job[s]) = {}
    /\ \A r \in Requests : \A u \in Range(job[r]) : u \in locks \/ pending[u] = r
    /\ \A r \in Requests : IsInjective(job[r]) /\ IsInjective(targets[r])
    /\ \A r \in Requests : pc[r] \in {"new", "claim", "insert", "submit"} => job[r] = <<>>
    /\ \A r \in Requests : pc[r] \in Working => \A u \in Range(targets[r]) : pending[u] = r
    /\ \A u \in Users : pending[u] # Nobody => u \notin locks

ApartInv == used.ghosts = 0 => Apart

-----------------------------------------------------------------------------
(* Sequences of users.                                                     *)

LEMMA RangeOfAppend ==
    ASSUME NEW s \in Seq(Users), NEW u \in Users
    PROVE  /\ Append(s, u) \in Seq(Users)
           /\ Range(Append(s, u)) = Range(s) \cup {u}
           /\ IsInjective(s) /\ u \notin Range(s) => IsInjective(Append(s, u))
  <1> DEFINE t == Append(s, u)
  <1>1. /\ t \in Seq(Users) /\ DOMAIN s = 1..Len(s) /\ DOMAIN t = 1..(Len(s) + 1)
        /\ Len(s) \in Nat /\ t[Len(s) + 1] = u /\ \A i \in 1..Len(s) : t[i] = s[i]
    OBVIOUS
  <1>2. Range(t) = Range(s) \cup {u}
    <2>1. ASSUME NEW x \in Range(t) PROVE x \in Range(s) \cup {u}
      BY <1>1 DEF Range
    <2>2. ASSUME NEW x \in Range(s) PROVE x \in Range(t)
      BY <1>1 DEF Range
    <2>3. u \in Range(t)
      BY <1>1 DEF Range
    <2> QED
      BY <2>1, <2>2, <2>3
  <1>3. ASSUME IsInjective(s), u \notin Range(s) PROVE IsInjective(t)
    BY <1>1, <1>3 DEF Range, IsInjective
  <1> QED
    BY <1>1, <1>2, <1>3

LEMMA RangeOfTail ==
    ASSUME NEW s \in Seq(Users), s # <<>>
    PROVE  /\ Tail(s) \in Seq(Users) /\ Head(s) \in Users
           /\ Head(s) \in Range(s) /\ Range(Tail(s)) \subseteq Range(s)
           /\ IsInjective(s) => IsInjective(Tail(s)) /\ Head(s) \notin Range(Tail(s))
  BY DEF Range, IsInjective

LEMMA RangeOfEmpty ==
    /\ <<>> \in Seq(Users)
    /\ Range(<<>>) = {}
    /\ IsInjective(<<>>)
  BY DEF Range, IsInjective

-----------------------------------------------------------------------------
(* Types, and the order of a request's steps.                              *)

LEMMA InitTyped == Init => TypeOK /\ Ordered
  BY RangeOfEmpty, ConstantsAssumption DEF Init, TypeOK, Ordered

LEMMA ReleaseTyped ==
    ASSUME NEW owner \in [Users -> Requests \cup {Nobody}], NEW r \in Requests
    PROVE  /\ Release(owner, r) \in [Users -> Requests \cup {Nobody}]
           /\ \A u \in Users : Release(owner, r)[u] = IF owner[u] = r THEN Nobody ELSE owner[u]
  BY DEF Release

\* Rollback and the end of a turn of the bulk loop.
LEMMA RollbackTyped ==
    ASSUME TypeOK, Ordered, NEW r \in Requests, Rollback(r), pc[r] \in Working,
           job' \in [Requests -> Seq(Users)], used' \in [{"ghosts", "deaths"} -> Nat]
    PROVE  TypeOK' /\ Ordered'
  <1>1. /\ claimed' = Release(claimed, r) /\ pending' = Release(pending, r)
        /\ pc' = [pc EXCEPT ![r] = "answered"]
        /\ UNCHANGED <<todo, bulk, force, targets, slot, locks>>
    BY DEF Rollback
  <1>2. TypeOK'
    BY <1>1, ReleaseTyped DEF TypeOK
  <1>3. Ordered'
    <2>1. /\ pc \in [Requests -> {"new", "answered"} \cup Working]
          /\ claimed \in [Users -> Requests \cup {Nobody}]
          /\ pending \in [Users -> Requests \cup {Nobody}]
      BY DEF TypeOK
    <2>2. /\ \A s \in Requests : pc'[s] = IF s = r THEN "answered" ELSE pc[s]
          /\ \A u \in Users : claimed'[u] = IF claimed[u] = r THEN Nobody ELSE claimed[u]
          /\ \A u \in Users : pending'[u] = IF pending[u] = r THEN Nobody ELSE pending[u]
      <3>1. \A s \in Requests : pc'[s] = IF s = r THEN "answered" ELSE pc[s]
        BY <1>1, <2>1
      <3>2. \A u \in Users : claimed'[u] = IF claimed[u] = r THEN Nobody ELSE claimed[u]
        BY <1>1 DEF Release
      <3>3. \A u \in Users : pending'[u] = IF pending[u] = r THEN Nobody ELSE pending[u]
        BY <1>1 DEF Release
      <3> QED
        BY <3>1, <3>2, <3>3
    <2>3. \A u \in Users : claimed'[u] # Nobody => pc'[claimed'[u]] \in Working
      BY <2>1, <2>2 DEF Ordered
    <2>4. \A u \in Users : pending'[u] # Nobody => pc'[pending'[u]] \in Working
      BY <2>1, <2>2 DEF Ordered
    <2>5. /\ \A s \in Requests : pc'[s] = "insert" => todo'[s] # <<>>
          /\ \A s \in Requests : pc'[s] = "new" => targets'[s] = <<>>
      BY <1>1, <2>2 DEF Ordered
    <2> QED
      BY <2>3, <2>4, <2>5 DEF Ordered
  <1> QED
    BY <1>2, <1>3

\* A turn of the bulk loop without a target, or a 4xx.
LEMMA SkipTyped ==
    ASSUME TypeOK, Ordered, NEW r \in Requests, SkipOrReject(r), todo[r] # <<>>,
           pc[r] \in Working, UNCHANGED <<job, used>>
    PROVE  TypeOK' /\ Ordered'
  <1>1. CASE bulk[r]
    <2>1. /\ todo' = [todo EXCEPT ![r] = Tail(@)] /\ pc' = [pc EXCEPT ![r] = "claim"]
          /\ UNCHANGED <<bulk, force, targets, dbVars>>
      BY <1>1 DEF SkipOrReject
    <2>2. Tail(todo[r]) \in Seq(Users)
      BY RangeOfTail DEF TypeOK
    <2>3. TypeOK'
      BY <2>1, <2>2 DEF TypeOK, dbVars, Working
    <2>4. Ordered'
      BY <2>1 DEF TypeOK, Ordered, dbVars, Working
    <2> QED
      BY <2>3, <2>4
  <1>2. CASE ~bulk[r]
    BY <1>2, RollbackTyped DEF SkipOrReject, TypeOK
  <1> QED
    BY <1>1, <1>2

LEMMA SpendTyped ==
    ASSUME TypeOK, NEW kind \in {"ghosts", "deaths"}, Spend(kind)
    PROVE  used' \in [{"ghosts", "deaths"} -> Nat] /\ used'[kind] # 0
  BY DEF TypeOK, Spend

LEMMA TypedStep == TypeOK /\ Ordered /\ [Next]_vars => TypeOK' /\ Ordered'
  <1> SUFFICES ASSUME TypeOK, Ordered, [Next]_vars PROVE TypeOK' /\ Ordered'
    OBVIOUS
  <1>1. ASSUME NEW r \in Requests, ReceiveUserTrigger(r) PROVE TypeOK' /\ Ordered'
    <2>1. PICK u \in Users : todo' = [todo EXCEPT ![r] = <<u>>]
      BY <1>1 DEF ReceiveUserTrigger
    <2>2. TypeOK'
      BY <1>1, <2>1 DEF ReceiveUserTrigger, TypeOK, dbVars, Working
    <2>3. Ordered'
      BY <1>1 DEF ReceiveUserTrigger, TypeOK, Ordered, dbVars, Working
    <2> QED
      BY <2>2, <2>3
  <1>2. ASSUME NEW r \in Requests, ReceiveBulkTrigger(r) PROVE TypeOK' /\ Ordered'
    <2>1. PICK body \in Bodies : todo' = [todo EXCEPT ![r] = body]
      BY <1>2 DEF ReceiveBulkTrigger
    <2>2. TypeOK'
      BY <1>2, <2>1, ConstantsAssumption DEF ReceiveBulkTrigger, TypeOK, dbVars, Working
    <2>3. Ordered'
      BY <1>2 DEF ReceiveBulkTrigger, TypeOK, Ordered, dbVars, Working
    <2> QED
      BY <2>2, <2>3
  <1>3. ASSUME NEW r \in Requests, ClaimSlot(r) PROVE TypeOK' /\ Ordered'
    <2>1. Head(todo[r]) \in Users
      BY <1>3, RangeOfTail DEF ClaimSlot, TypeOK
    <2>2. TypeOK'
      BY <1>3, <2>1 DEF ClaimSlot, TypeOK, Working
    <2>3. Ordered'
      BY <1>3, <2>1 DEF ClaimSlot, TypeOK, Ordered, Working
    <2> QED
      BY <2>2, <2>3
  <1>4. ASSUME NEW r \in Requests, RateLimited(r) PROVE TypeOK' /\ Ordered'
    BY <1>4, SkipTyped DEF RateLimited, Working
  <1>5. ASSUME NEW r \in Requests, InsertLock(r) PROVE TypeOK' /\ Ordered'
    <2>1. /\ todo[r] # <<>> /\ Head(todo[r]) \in Users /\ Tail(todo[r]) \in Seq(Users)
          /\ Append(targets[r], Head(todo[r])) \in Seq(Users)
      BY <1>5, RangeOfTail, RangeOfAppend DEF InsertLock, TypeOK, Ordered
    <2>2. TypeOK'
      BY <1>5, <2>1 DEF InsertLock, TypeOK, Working
    <2>3. Ordered'
      BY <1>5, <2>1 DEF InsertLock, TypeOK, Ordered, Working
    <2> QED
      BY <2>2, <2>3
  <1>6. ASSUME NEW r \in Requests, LockConflict(r) PROVE TypeOK' /\ Ordered'
    BY <1>6, SkipTyped DEF LockConflict, Working, Ordered
  <1>7. ASSUME NEW r \in Requests, TargetsDecided(r) PROVE TypeOK' /\ Ordered'
    <2>1. TypeOK'
      BY <1>7 DEF TargetsDecided, TypeOK, dbVars, Working
    <2>2. Ordered'
      BY <1>7 DEF TargetsDecided, TypeOK, Ordered, dbVars, Working
    <2> QED
      BY <2>1, <2>2
  <1>8. ASSUME NEW r \in Requests, Submit(r) PROVE TypeOK' /\ Ordered'
    <2>1. TypeOK'
      BY <1>8 DEF Submit, TypeOK, dbVars, Working
    <2>2. Ordered'
      BY <1>8 DEF Submit, TypeOK, Ordered, dbVars, Working
    <2> QED
      BY <2>1, <2>2
  <1>9. ASSUME NEW r \in Requests, SubmitFails(r) PROVE TypeOK' /\ Ordered'
    <2>1. CASE UNCHANGED <<job, used>>
      BY <1>9, <2>1, RollbackTyped DEF SubmitFails, Working, TypeOK
    <2>2. CASE job' = [job EXCEPT ![r] = targets[r]] /\ Spend("ghosts")
      <3>1. job' \in [Requests -> Seq(Users)] /\ used' \in [{"ghosts", "deaths"} -> Nat]
        BY <2>2, SpendTyped DEF TypeOK
      <3> QED
        BY <1>9, <3>1, RollbackTyped DEF SubmitFails, Working
    <2> QED
      BY <1>9, <2>1, <2>2 DEF SubmitFails
  <1>10. ASSUME NEW r \in Requests, Commit(r) PROVE TypeOK' /\ Ordered'
    <2>1. TypeOK'
      BY <1>10, ReleaseTyped DEF Commit, TypeOK, Held, Working
    <2>2. /\ pc \in [Requests -> {"new", "answered"} \cup Working]
          /\ claimed \in [Users -> Requests \cup {Nobody}]
          /\ pending \in [Users -> Requests \cup {Nobody}]
      BY DEF TypeOK
    <2>3. /\ \A s \in Requests : pc'[s] = IF s = r THEN "answered" ELSE pc[s]
          /\ \A u \in Users : claimed'[u] = IF claimed[u] = r THEN Nobody ELSE claimed[u]
          /\ \A u \in Users : pending'[u] = IF pending[u] = r THEN Nobody ELSE pending[u]
          /\ UNCHANGED <<todo, targets>>
      BY <1>10, <2>2, ReleaseTyped DEF Commit
    <2>4. \A u \in Users : claimed'[u] # Nobody => pc'[claimed'[u]] \in Working
      BY <2>2, <2>3 DEF Ordered
    <2>5. \A u \in Users : pending'[u] # Nobody => pc'[pending'[u]] \in Working
      BY <2>2, <2>3 DEF Ordered
    <2>6. /\ \A s \in Requests : pc'[s] = "insert" => todo'[s] # <<>>
          /\ \A s \in Requests : pc'[s] = "new" => targets'[s] = <<>>
      BY <2>3 DEF Ordered
    <2> QED
      BY <2>1, <2>4, <2>5, <2>6 DEF Ordered
  <1>11. ASSUME NEW r \in Requests, DeadlockDetected(r) PROVE TypeOK' /\ Ordered'
    <2>1. pc[r] \in Working
      BY <1>11 DEF DeadlockDetected, Blocked, Working
    <2> QED
      BY <1>11, <2>1, RollbackTyped DEF DeadlockDetected, TypeOK
  <1>12. ASSUME NEW r \in Requests, PodFinishesUser(r) PROVE TypeOK' /\ Ordered'
    <2>1. Tail(job[r]) \in Seq(Users)
      BY <1>12, RangeOfTail DEF PodFinishesUser, TypeOK
    <2>2. TypeOK'
      BY <1>12, <2>1 DEF PodFinishesUser, TypeOK, requestVars
    <2>3. Ordered'
      BY <1>12 DEF PodFinishesUser, Ordered, requestVars
    <2> QED
      BY <2>2, <2>3
  <1>13. ASSUME NEW r \in Requests, PodDies(r) PROVE TypeOK' /\ Ordered'
    <2>1. used' \in [{"ghosts", "deaths"} -> Nat]
      BY <1>13, SpendTyped DEF PodDies
    <2>2. TypeOK'
      BY <1>13, <2>1 DEF PodDies, TypeOK, requestVars, dbVars
    <2>3. Ordered'
      BY <1>13 DEF PodDies, Ordered, requestVars, dbVars
    <2> QED
      BY <2>2, <2>3
  <1>14. ASSUME NEW u \in Users, OperatorClearsLock(u) PROVE TypeOK' /\ Ordered'
    BY <1>14 DEF OperatorClearsLock, TypeOK, Ordered, requestVars
  <1>15. ASSUME NEW u \in Users, HourPasses(u) PROVE TypeOK' /\ Ordered'
    BY <1>15 DEF HourPasses, TypeOK, Ordered, requestVars
  <1>16. CASE UNCHANGED vars
    BY <1>16 DEF vars, requestVars, dbVars, TypeOK, Ordered
  <1> QED
    BY <1>1, <1>2, <1>3, <1>4, <1>5, <1>6, <1>7, <1>8, <1>9, <1>10, <1>11, <1>12, <1>13,
       <1>14, <1>15, <1>16 DEF Next, Handler

\* Every reachable state of the trigger endpoints is well typed.
THEOREM TriggerTypeCorrect == Spec => []TypeOK
  <1>1. Spec => [](TypeOK /\ Ordered)
    BY InitTyped, TypedStep, PTL DEF Spec
  <1> QED
    BY <1>1, PTL

-----------------------------------------------------------------------------
(* The quota.                                                              *)

LEMMA InitQuota == Init => QuotaKept
  BY RangeOfEmpty, ConstantsAssumption DEF Init, QuotaKept, Working

\* Steps without a claim or its end.
LEMMA QuotaFrame ==
    ASSUME TypeOK, QuotaKept, UNCHANGED <<claimed, targets, force>>, slot' \subseteq slot,
           \A r \in Requests : pc'[r] = "insert" => pc[r] = "insert" /\ todo'[r] = todo[r],
           \A r \in Requests : pc'[r] \in Working => pc[r] \in Working \/ targets[r] = <<>>
    PROVE  QuotaKept'
  <1>1. \A r \in Requests, u \in Users : claimed'[u] = r /\ ~force'[r] => u \notin slot'
    BY DEF QuotaKept
  <1>2. \A r \in Requests : pc'[r] = "insert" => claimed'[Head(todo'[r])] = r
    BY DEF QuotaKept
  <1>3. \A r \in Requests : pc'[r] \in Working => \A u \in Range(targets'[r]) : claimed'[u] = r
    BY RangeOfEmpty DEF QuotaKept
  <1> QED
    BY <1>1, <1>2, <1>3 DEF QuotaKept

\* The end of a transaction, with or without effect.
LEMMA QuotaRelease ==
    ASSUME TypeOK, Ordered, QuotaKept, NEW r \in Requests,
           pc' = [pc EXCEPT ![r] = "answered"], claimed' = Release(claimed, r),
           UNCHANGED <<todo, force, targets>>, slot' \subseteq slot \cup Held(claimed, r)
    PROVE  QuotaKept'
  <1>1. /\ \A s \in Requests : pc'[s] = IF s = r THEN "answered" ELSE pc[s]
        /\ \A u \in Users : claimed'[u] = IF claimed[u] = r THEN Nobody ELSE claimed[u]
    <2>1. \A s \in Requests : pc'[s] = IF s = r THEN "answered" ELSE pc[s]
      BY DEF TypeOK
    <2>2. \A u \in Users : claimed'[u] = IF claimed[u] = r THEN Nobody ELSE claimed[u]
      BY DEF Release
    <2> QED
      BY <2>1, <2>2
  <1>2. ASSUME NEW s \in Requests, NEW u \in Users, claimed'[u] = s, ~force'[s]
        PROVE  u \notin slot'
    <2>1. s # Nobody /\ claimed[u] = s /\ s # r
      BY <1>1, <1>2, ConstantsAssumption
    <2>2. u \notin slot /\ u \notin Held(claimed, r)
      BY <1>2, <2>1 DEF QuotaKept, Held
    <2> QED
      BY <2>2
  <1>3. ASSUME NEW s \in Requests, pc'[s] = "insert" PROVE claimed'[Head(todo'[s])] = s
    <2>1. s # r /\ pc[s] = "insert" /\ claimed[Head(todo[s])] = s
      BY <1>1, <1>3 DEF QuotaKept
    <2>2. todo' = todo /\ claimed' = [u \in Users |-> IF claimed[u] = r THEN Nobody ELSE claimed[u]]
      BY DEF Release
    <2>3. Head(todo[s]) \in Users
      BY <2>1, RangeOfTail DEF TypeOK, Ordered
    <2> QED
      BY <2>1, <2>2, <2>3
  <1>4. ASSUME NEW s \in Requests, pc'[s] \in Working, NEW u \in Range(targets'[s])
        PROVE  claimed'[u] = s
    <2>1. s # r /\ pc[s] \in Working /\ claimed[u] = s /\ u \in Users
      BY <1>1, <1>4 DEF QuotaKept, Working, TypeOK, Range
    <2> QED
      BY <1>1, <2>1
  <1> QED
    BY <1>2, <1>3, <1>4 DEF QuotaKept

LEMMA QuotaSkip ==
    ASSUME TypeOK, Ordered, QuotaKept, NEW r \in Requests, SkipOrReject(r), pc[r] \in Working
    PROVE  QuotaKept'
  <1>1. CASE bulk[r]
    BY <1>1, QuotaFrame DEF SkipOrReject, TypeOK, dbVars, Working
  <1>2. CASE ~bulk[r]
    BY <1>2, QuotaRelease DEF SkipOrReject, Rollback
  <1> QED
    BY <1>1, <1>2

LEMMA QuotaStep == TypeOK /\ Ordered /\ QuotaKept /\ [Next]_vars => QuotaKept'
  <1> SUFFICES ASSUME TypeOK, Ordered, QuotaKept, [Next]_vars PROVE QuotaKept'
    OBVIOUS
  <1>1. ASSUME NEW r \in Requests, ReceiveUserTrigger(r) PROVE QuotaKept'
    BY <1>1, QuotaFrame DEF ReceiveUserTrigger, TypeOK, Ordered, dbVars
  <1>2. ASSUME NEW r \in Requests, ReceiveBulkTrigger(r) PROVE QuotaKept'
    <2>1. /\ \A s \in Requests : pc'[s] = IF s = r THEN "claim" ELSE pc[s]
          /\ \A s \in Requests : s # r => force'[s] = force[s] /\ todo'[s] = todo[s]
          /\ UNCHANGED <<targets, slot, claimed>>
      BY <1>2 DEF ReceiveBulkTrigger, TypeOK, dbVars
    <2>2. \A u \in Users : claimed[u] # r
      BY <1>2, ConstantsAssumption DEF ReceiveBulkTrigger, Ordered, Working
    <2>3. Range(targets[r]) = {}
      BY <1>2, RangeOfEmpty DEF ReceiveBulkTrigger, Ordered
    <2>4. \A s \in Requests, u \in Users : claimed'[u] = s /\ ~force'[s] => u \notin slot'
      BY <2>1, <2>2 DEF QuotaKept
    <2>5. \A s \in Requests : pc'[s] = "insert" => claimed'[Head(todo'[s])] = s
      BY <2>1 DEF QuotaKept
    <2>6. \A s \in Requests : pc'[s] \in Working => \A u \in Range(targets'[s]) : claimed'[u] = s
      BY <2>1, <2>3 DEF QuotaKept
    <2> QED
      BY <2>4, <2>5, <2>6 DEF QuotaKept
  <1>3. ASSUME NEW r \in Requests, ClaimSlot(r) PROVE QuotaKept'
    <2> DEFINE v == Head(todo[r])
    <2>1. /\ v \in Users /\ claimed[v] \in {r, Nobody} /\ (force[r] \/ v \notin slot)
          /\ pc[r] = "claim"
      BY <1>3, RangeOfTail DEF ClaimSlot, RowFree, Eligible, TypeOK
    <2>2. /\ \A s \in Requests : pc'[s] = IF s = r THEN "insert" ELSE pc[s]
          /\ \A u \in Users : claimed'[u] = IF u = v THEN r ELSE claimed[u]
          /\ UNCHANGED <<todo, targets, force, slot>>
      BY <1>3, <2>1 DEF ClaimSlot, TypeOK
    <2>3. \A s \in Requests, u \in Users : claimed'[u] = s /\ ~force'[s] => u \notin slot'
      BY <2>1, <2>2 DEF QuotaKept
    <2>4. ASSUME NEW s \in Requests, pc'[s] = "insert" PROVE claimed'[Head(todo'[s])] = s
      <3>1. CASE s = r
        BY <2>1, <2>2, <3>1
      <3>2. CASE s # r
        <4>1. pc[s] = "insert" /\ claimed[Head(todo[s])] = s
          BY <2>2, <2>4, <3>2 DEF QuotaKept
        <4>2. Head(todo[s]) \in Users /\ s # Nobody
          BY <4>1, RangeOfTail, ConstantsAssumption DEF TypeOK, Ordered
        <4> QED
          BY <2>1, <2>2, <3>2, <4>1, <4>2
      <3> QED
        BY <3>1, <3>2
    <2>5. ASSUME NEW s \in Requests, pc'[s] \in Working, NEW u \in Range(targets'[s])
          PROVE  claimed'[u] = s
      <3>1. pc[s] \in Working /\ claimed[u] = s /\ u \in Users
        BY <2>1, <2>2, <2>5 DEF QuotaKept, Working, TypeOK, Range
      <3> QED
        BY <2>1, <2>2, <3>1, ConstantsAssumption
    <2> QED
      BY <2>3, <2>4, <2>5 DEF QuotaKept
  <1>4. ASSUME NEW r \in Requests, RateLimited(r) PROVE QuotaKept'
    BY <1>4, QuotaSkip DEF RateLimited, Working
  <1>5. ASSUME NEW r \in Requests, InsertLock(r) PROVE QuotaKept'
    <2> DEFINE v == Head(todo[r])
    <2>1. /\ pc[r] = "insert" /\ v \in Users /\ claimed[v] = r
          /\ Range(Append(targets[r], v)) = Range(targets[r]) \cup {v}
      BY <1>5, RangeOfTail, RangeOfAppend DEF InsertLock, TypeOK, Ordered, QuotaKept
    <2>2. /\ \A s \in Requests : pc'[s] = IF s = r THEN "claim" ELSE pc[s]
          /\ \A s \in Requests : targets'[s] = IF s = r THEN Append(targets[r], v) ELSE targets[s]
          /\ \A s \in Requests : s # r => todo'[s] = todo[s]
          /\ UNCHANGED <<claimed, force, slot>>
      BY <1>5 DEF InsertLock, TypeOK
    <2>3. \A s \in Requests, u \in Users : claimed'[u] = s /\ ~force'[s] => u \notin slot'
      BY <2>2 DEF QuotaKept
    <2>4. \A s \in Requests : pc'[s] = "insert" => claimed'[Head(todo'[s])] = s
      BY <2>2 DEF QuotaKept
    <2>5. \A s \in Requests : pc'[s] \in Working => \A u \in Range(targets'[s]) : claimed'[u] = s
      BY <2>1, <2>2 DEF QuotaKept, Working
    <2> QED
      BY <2>3, <2>4, <2>5 DEF QuotaKept
  <1>6. ASSUME NEW r \in Requests, LockConflict(r) PROVE QuotaKept'
    BY <1>6, QuotaSkip DEF LockConflict, Working
  <1>7. ASSUME NEW r \in Requests, TargetsDecided(r) PROVE QuotaKept'
    BY <1>7, QuotaFrame DEF TargetsDecided, TypeOK, dbVars, Working
  <1>8. ASSUME NEW r \in Requests, Submit(r) PROVE QuotaKept'
    BY <1>8, QuotaFrame DEF Submit, TypeOK, dbVars, Working
  <1>9. ASSUME NEW r \in Requests, SubmitFails(r) PROVE QuotaKept'
    BY <1>9, QuotaRelease DEF SubmitFails, Rollback
  <1>10. ASSUME NEW r \in Requests, Commit(r) PROVE QuotaKept'
    BY <1>10, QuotaRelease DEF Commit
  <1>11. ASSUME NEW r \in Requests, DeadlockDetected(r) PROVE QuotaKept'
    BY <1>11, QuotaRelease DEF DeadlockDetected, Rollback
  <1>12. ASSUME NEW r \in Requests, PodFinishesUser(r) \/ PodDies(r) PROVE QuotaKept'
    BY <1>12, QuotaFrame DEF PodFinishesUser, PodDies, requestVars, dbVars
  <1>13. ASSUME NEW u \in Users, OperatorClearsLock(u) \/ HourPasses(u) PROVE QuotaKept'
    BY <1>13, QuotaFrame DEF OperatorClearsLock, HourPasses, requestVars
  <1>14. CASE UNCHANGED vars
    BY <1>14, QuotaFrame DEF vars, requestVars, dbVars
  <1> QED
    BY <1>1, <1>2, <1>3, <1>4, <1>5, <1>6, <1>7, <1>8, <1>9, <1>10, <1>11, <1>12, <1>13, <1>14
    DEF Next, Handler

\* However requests interleave, one that was not forced never commits a target that
\* another request has started within the hour.
THEOREM QuotaHolds == Spec => RateLimitHolds
  <1>1. TypeOK /\ QuotaKept =>
          \A r \in Requests : pc[r] = "commit" /\ ~force[r] => Range(targets[r]) \cap slot = {}
    BY DEF QuotaKept, TypeOK, Working, Range
  <1>2. TypeOK /\ Ordered /\ QuotaKept /\ [Next]_vars =>
          [\A r \in Requests :
              pc[r] = "commit" /\ pc'[r] = "answered" /\ ~force[r]
                  => Range(targets[r]) \cap slot = {}]_vars
    BY <1>1
  <1> QED
    BY <1>2, InitTyped, TypedStep, InitQuota, QuotaStep, PTL DEF Spec, RateLimitHolds

-----------------------------------------------------------------------------
(* Jobs.                                                                   *)

LEMMA InitApart == Init => Apart
  BY RangeOfEmpty, ConstantsAssumption DEF Init, Apart, Working

\* Steps that touch neither lock rows nor Jobs.
LEMMA ApartFrame ==
    ASSUME Apart, UNCHANGED <<pending, locks, job, targets>>,
           \A r \in Requests : pc'[r] \in {"new", "claim", "insert", "submit"}
                                 => pc[r] \in {"new", "claim", "insert", "submit"},
           \A r \in Requests : pc'[r] \in Working => pc[r] \in Working \/ targets[r] = <<>>
    PROVE  Apart'
  <1>1. \A r \in Requests : pc'[r] \in Working => \A u \in Range(targets'[r]) : pending'[u] = r
    BY RangeOfEmpty DEF Apart
  <1>2. \A r \in Requests : pc'[r] \in {"new", "claim", "insert", "submit"} => job'[r] = <<>>
    BY DEF Apart
  <1> QED
    BY <1>1, <1>2 DEF Apart

\* A rollback, which happens before the Job exists.
LEMMA ApartRollback ==
    ASSUME TypeOK, Apart, NEW r \in Requests, Rollback(r), UNCHANGED job,
           pc[r] \in {"claim", "insert", "submit"}
    PROVE  Apart'
  <1>0. /\ pc \in [Requests -> {"new", "answered"} \cup Working]
        /\ pending \in [Users -> Requests \cup {Nobody}]
    BY DEF TypeOK
  <1>1. /\ \A s \in Requests : pc'[s] = IF s = r THEN "answered" ELSE pc[s]
        /\ \A u \in Users : pending'[u] = IF pending[u] = r THEN Nobody ELSE pending[u]
        /\ UNCHANGED <<targets, locks, job>>
    BY <1>0, ReleaseTyped DEF Rollback
  <1>2. job[r] = <<>> /\ Range(job[r]) = {}
    BY RangeOfEmpty DEF Apart
  <1>3. ASSUME NEW s \in Requests, NEW u \in Range(job'[s]) PROVE u \in locks' \/ pending'[u] = s
    <2>1. s # r /\ u \in Users /\ (u \in locks \/ pending[u] = s)
      BY <1>1, <1>2, <1>3 DEF Apart, TypeOK, Range
    <2> QED
      BY <1>1, <2>1
  <1>4. ASSUME NEW s \in Requests, pc'[s] \in Working, NEW u \in Range(targets'[s])
        PROVE  pending'[u] = s
    <2>1. s # r /\ u \in Users /\ pending[u] = s
      BY <1>1, <1>4 DEF Apart, TypeOK, Range, Working
    <2> QED
      BY <1>1, <2>1
  <1>5. \A u \in Users : pending'[u] # Nobody => u \notin locks'
    BY <1>1 DEF Apart
  <1>6. \A s \in Requests : pc'[s] \in {"new", "claim", "insert", "submit"} => job'[s] = <<>>
    BY <1>1 DEF Apart
  <1> QED
    BY <1>1, <1>3, <1>4, <1>5, <1>6 DEF Apart

LEMMA ApartSkip ==
    ASSUME TypeOK, Apart, NEW r \in Requests, SkipOrReject(r), UNCHANGED job,
           pc[r] \in {"claim", "insert"}
    PROVE  Apart'
  <1>1. CASE bulk[r]
    BY <1>1, ApartFrame DEF SkipOrReject, TypeOK, dbVars, Working
  <1>2. CASE ~bulk[r]
    BY <1>2, ApartRollback DEF SkipOrReject
  <1> QED
    BY <1>1, <1>2

LEMMA ApartInsert ==
    ASSUME TypeOK, Ordered, Apart, NEW r \in Requests, InsertLock(r)
    PROVE  Apart'
  <1> DEFINE v == Head(todo[r])
             more == Append(targets[r], v)
  <1>1. /\ pc[r] = "insert" /\ v \in Users /\ pending[v] = Nobody /\ v \notin locks
        /\ targets[r] \in Seq(Users) /\ Nobody \notin Requests
    BY RangeOfTail, ConstantsAssumption DEF InsertLock, TypeOK, Ordered
  <1>2. /\ \A s \in Requests : pc'[s] = IF s = r THEN "claim" ELSE pc[s]
        /\ \A u \in Users : pending'[u] = IF u = v THEN r ELSE pending[u]
        /\ \A s \in Requests : targets'[s] = IF s = r THEN more ELSE targets[s]
        /\ UNCHANGED <<locks, job>>
    BY <1>1 DEF InsertLock, TypeOK
  <1>3. v \notin Range(targets[r])
    BY <1>1 DEF Apart, Working
  <1>4. Range(more) = Range(targets[r]) \cup {v} /\ IsInjective(more)
    BY <1>1, <1>3, RangeOfAppend DEF Apart
  <1>5. \A s \in Requests : IsInjective(job'[s]) /\ IsInjective(targets'[s])
    BY <1>2, <1>4 DEF Apart
  <1>6. ASSUME NEW s \in Requests, NEW u \in Range(job'[s]) PROVE u \in locks' \/ pending'[u] = s
    <2>1. u \in Users /\ (u \in locks \/ pending[u] = s)
      BY <1>2, <1>6 DEF Apart, TypeOK, Range
    <2> QED
      BY <1>1, <1>2, <2>1
  <1>7. ASSUME NEW s \in Requests, pc'[s] \in Working, NEW u \in Range(targets'[s])
        PROVE  pending'[u] = s
    <2>1. CASE s = r /\ u = v
      BY <1>1, <1>2, <2>1
    <2>2. CASE ~(s = r /\ u = v)
      <3>1. u \in Range(targets[s]) /\ u \in Users /\ pc[s] \in Working
        <4>1. u \in Range(targets[s]) /\ pc[s] \in Working
          BY <1>1, <1>2, <1>4, <1>7, <2>2 DEF Working
        <4> QED
          BY <4>1 DEF TypeOK, Range
      <3>2. pending[u] = s
        BY <3>1 DEF Apart
      <3> QED
        BY <1>1, <1>2, <3>1, <3>2
    <2> QED
      BY <2>1, <2>2
  <1>8. \A u \in Users : pending'[u] # Nobody => u \notin locks'
    BY <1>1, <1>2 DEF Apart
  <1>9. \A s \in Requests : pc'[s] \in {"new", "claim", "insert", "submit"} => job'[s] = <<>>
    BY <1>1, <1>2 DEF Apart
  <1> QED
    BY <1>2, <1>5, <1>6, <1>7, <1>8, <1>9 DEF Apart

LEMMA ApartSubmit ==
    ASSUME TypeOK, Apart, NEW r \in Requests, Submit(r)
    PROVE  Apart'
  <1>1. /\ pc[r] = "submit"
        /\ \A s \in Requests : pc'[s] = IF s = r THEN "commit" ELSE pc[s]
        /\ \A s \in Requests : job'[s] = IF s = r THEN targets[r] ELSE job[s]
        /\ UNCHANGED <<targets, locks, pending>>
    BY DEF Submit, TypeOK, dbVars
  <1>2. \A u \in Range(targets[r]) : pending[u] = r /\ u \in Users /\ u \notin locks
    BY <1>1, ConstantsAssumption DEF Apart, TypeOK, Range, Working
  <1>3. \A s \in Requests : \A u \in Range(job'[s]) : u \in locks' \/ pending'[u] = s
    BY <1>1, <1>2 DEF Apart
  <1>4. ASSUME NEW s \in Requests, s # r PROVE Range(job[s]) \cap Range(targets[r]) = {}
    BY <1>2, <1>4 DEF Apart
  <1>5. \A p, q \in Requests : p # q => Range(job'[p]) \cap Range(job'[q]) = {}
    BY <1>1, <1>4 DEF Apart
  <1>6. \A s \in Requests : IsInjective(job'[s]) /\ IsInjective(targets'[s])
    BY <1>1 DEF Apart
  <1>7. \A s \in Requests : pc'[s] \in {"new", "claim", "insert", "submit"} => job'[s] = <<>>
    BY <1>1 DEF Apart
  <1>8. \A s \in Requests : pc'[s] \in Working => \A u \in Range(targets'[s]) : pending'[u] = s
    BY <1>1 DEF Apart, Working
  <1>9. \A u \in Users : pending'[u] # Nobody => u \notin locks'
    BY <1>1 DEF Apart
  <1> QED
    BY <1>3, <1>5, <1>6, <1>7, <1>8, <1>9 DEF Apart

\* The lock rows of the request become visible.
LEMMA ApartCommit ==
    ASSUME TypeOK, Apart, NEW r \in Requests, Commit(r)
    PROVE  Apart'
  <1>0. /\ pc \in [Requests -> {"new", "answered"} \cup Working]
        /\ pending \in [Users -> Requests \cup {Nobody}]
    BY DEF TypeOK
  <1>1. /\ \A s \in Requests : pc'[s] = IF s = r THEN "answered" ELSE pc[s]
        /\ \A u \in Users : pending'[u] = IF pending[u] = r THEN Nobody ELSE pending[u]
        /\ locks' = locks \cup {u \in Users : pending[u] = r}
        /\ UNCHANGED <<targets, job>>
    BY <1>0, ReleaseTyped DEF Commit, Held
  <1>2. ASSUME NEW s \in Requests, NEW u \in Range(job'[s]) PROVE u \in locks' \/ pending'[u] = s
    <2>1. u \in Users /\ (u \in locks \/ pending[u] = s)
      BY <1>1, <1>2 DEF Apart, TypeOK, Range
    <2> QED
      BY <1>1, <2>1
  <1>3. ASSUME NEW s \in Requests, pc'[s] \in Working, NEW u \in Range(targets'[s])
        PROVE  pending'[u] = s
    <2>1. s # r /\ u \in Users /\ pending[u] = s
      BY <1>1, <1>3 DEF Apart, TypeOK, Range, Working
    <2> QED
      BY <1>1, <2>1
  <1>4. \A u \in Users : pending'[u] # Nobody => u \notin locks'
    BY <1>1 DEF Apart
  <1>5. \A s \in Requests : pc'[s] \in {"new", "claim", "insert", "submit"} => job'[s] = <<>>
    BY <1>1 DEF Apart
  <1> QED
    BY <1>1, <1>2, <1>3, <1>4, <1>5 DEF Apart

\* A Job is done with its first user, or dead.
LEMMA ApartPod ==
    ASSUME TypeOK, Apart, NEW r \in Requests, job[r] # <<>>, NEW rest \in Seq(Users),
           job' = [job EXCEPT ![r] = rest], UNCHANGED <<requestVars, pending>>,
           IsInjective(rest), Range(rest) \subseteq Range(job[r]),
           \/ locks' = locks
           \/ /\ locks' = locks \ {Head(job[r])}
              /\ Head(job[r]) \in Range(job[r]) /\ Head(job[r]) \notin Range(rest)
    PROVE  Apart'
  <1>1. /\ \A s \in Requests : job'[s] = IF s = r THEN rest ELSE job[s]
        /\ UNCHANGED <<pc, targets, pending>>
    BY DEF TypeOK, requestVars
  <1>2. \A p, q \in Requests : p # q => Range(job'[p]) \cap Range(job'[q]) = {}
    BY <1>1 DEF Apart
  <1>3. ASSUME NEW s \in Requests, NEW u \in Range(job'[s]) PROVE u \in locks' \/ pending'[u] = s
    <2>1. u \in Range(job[s])
      BY <1>1, <1>3
    <2>2. u \in locks \/ pending[u] = s
      BY <2>1 DEF Apart
    <2>3. CASE s = r
      BY <1>1, <1>3, <2>2, <2>3
    <2>4. CASE s # r
      BY <1>1, <2>1, <2>2, <2>4 DEF Apart
    <2> QED
      BY <2>3, <2>4
  <1>4. \A s \in Requests : IsInjective(job'[s]) /\ IsInjective(targets'[s])
    BY <1>1 DEF Apart
  <1>5. \A s \in Requests : pc'[s] \in {"new", "claim", "insert", "submit"} => job'[s] = <<>>
    BY <1>1 DEF Apart
  <1>6. \A s \in Requests : pc'[s] \in Working => \A u \in Range(targets'[s]) : pending'[u] = s
    BY <1>1 DEF Apart
  <1>7. \A u \in Users : pending'[u] # Nobody => u \notin locks'
    BY <1>1 DEF Apart
  <1> QED
    BY <1>2, <1>3, <1>4, <1>5, <1>6, <1>7 DEF Apart

LEMMA ApartStep ==
    TypeOK /\ Ordered /\ ApartInv /\ [Next]_vars => ApartInv'
  <1> SUFFICES ASSUME TypeOK, Ordered, ApartInv, [Next]_vars, used'.ghosts = 0 PROVE Apart'
    BY DEF ApartInv
  <1>0. Apart
    <2>1. used.ghosts = 0
      <3>1. ASSUME NEW kind \in {"ghosts", "deaths"}, Spend(kind) PROVE used.ghosts = 0
        BY <3>1 DEF Spend, TypeOK
      <3>2. CASE UNCHANGED used
        BY <3>2
      <3> QED
        BY <3>1, <3>2 DEF Next, Handler, vars, requestVars, dbVars, ReceiveUserTrigger,
           ReceiveBulkTrigger, ClaimSlot, RateLimited, InsertLock, LockConflict, TargetsDecided,
           Submit, SubmitFails, Commit, DeadlockDetected, PodFinishesUser, PodDies,
           OperatorClearsLock, HourPasses
    <2> QED
      BY <2>1 DEF ApartInv
  <1>1. ASSUME NEW r \in Requests, ReceiveUserTrigger(r) \/ ReceiveBulkTrigger(r) PROVE Apart'
    BY <1>0, <1>1, ApartFrame DEF ReceiveUserTrigger, ReceiveBulkTrigger, TypeOK, Ordered, dbVars
  <1>2. ASSUME NEW r \in Requests, ClaimSlot(r) PROVE Apart'
    BY <1>0, <1>2, ApartFrame DEF ClaimSlot, TypeOK, Working
  <1>3. ASSUME NEW r \in Requests, RateLimited(r) \/ LockConflict(r) PROVE Apart'
    BY <1>0, <1>3, ApartSkip DEF RateLimited, LockConflict
  <1>4. ASSUME NEW r \in Requests, InsertLock(r) PROVE Apart'
    BY <1>0, <1>4, ApartInsert
  <1>5. ASSUME NEW r \in Requests, TargetsDecided(r) PROVE Apart'
    BY <1>0, <1>5, ApartFrame DEF TargetsDecided, TypeOK, dbVars, Working
  <1>6. ASSUME NEW r \in Requests, Submit(r) PROVE Apart'
    BY <1>0, <1>6, ApartSubmit
  <1>7. ASSUME NEW r \in Requests, SubmitFails(r) PROVE Apart'
    <2>1. CASE Spend("ghosts")
      BY <2>1, SpendTyped
    <2>2. CASE UNCHANGED job
      BY <1>0, <1>7, <2>2, ApartRollback DEF SubmitFails
    <2> QED
      BY <1>7, <2>1, <2>2 DEF SubmitFails
  <1>8. ASSUME NEW r \in Requests, Commit(r) PROVE Apart'
    BY <1>0, <1>8, ApartCommit
  <1>9. ASSUME NEW r \in Requests, DeadlockDetected(r) PROVE Apart'
    <2>1. pc[r] = "claim"
      BY <1>9 DEF DeadlockDetected, Blocked
    <2> QED
      BY <1>0, <1>9, <2>1, ApartRollback DEF DeadlockDetected
  <1>10. ASSUME NEW r \in Requests, PodFinishesUser(r) PROVE Apart'
    <2>1. job[r] \in Seq(Users) /\ IsInjective(job[r]) /\ job[r] # <<>>
      BY <1>0, <1>10 DEF PodFinishesUser, TypeOK, Apart
    <2> QED
      BY <1>0, <1>10, <2>1, RangeOfTail, ApartPod DEF PodFinishesUser
  <1>11. ASSUME NEW r \in Requests, PodDies(r) PROVE Apart'
    BY <1>0, <1>11, RangeOfEmpty, ApartPod DEF PodDies, dbVars
  <1>12. ASSUME NEW u \in Users, OperatorClearsLock(u) PROVE Apart'
    <2>1. /\ \A s \in Requests : u \notin Range(job[s])
          /\ locks' = locks \ {u} /\ UNCHANGED <<pc, targets, pending, job>>
      BY <1>12 DEF OperatorClearsLock, requestVars
    <2>2. \A s \in Requests : \A x \in Range(job'[s]) : x \in locks' \/ pending'[x] = s
      BY <1>0, <2>1 DEF Apart
    <2>3. \A x \in Users : pending'[x] # Nobody => x \notin locks'
      BY <1>0, <2>1 DEF Apart
    <2> QED
      BY <1>0, <2>1, <2>2, <2>3 DEF Apart
  <1>13. ASSUME NEW u \in Users, HourPasses(u) PROVE Apart'
    BY <1>0, <1>13, ApartFrame DEF HourPasses, requestVars
  <1>14. CASE UNCHANGED vars
    BY <1>0, <1>14, ApartFrame DEF vars, requestVars, dbVars
  <1> QED
    BY <1>1, <1>2, <1>3, <1>4, <1>5, <1>6, <1>7, <1>8, <1>9, <1>10, <1>11, <1>12, <1>13, <1>14
    DEF Next, Handler

\* No two Jobs have the same user to work on, unless the answer to a submission was lost.
THEOREM JobsAreApart == Spec => []OneJobPerUser
  <1>1. Init => ApartInv
    BY InitApart DEF ApartInv
  <1>2. ApartInv => OneJobPerUser
    BY DEF ApartInv, Apart, OneJobPerUser
  <1> QED
    BY <1>1, <1>2, InitTyped, TypedStep, ApartStep, PTL DEF Spec
=============================================================================
