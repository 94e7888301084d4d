-------------------------- MODULE TriggerProperties --------------------------
(***************************************************************************)
(* What the trigger endpoints guarantee.                                   *)
(***************************************************************************)
EXTENDS ReprocessTrigger

\* However single-user, bulk and forced requests interleave, a request that was
\* not forced never commits a target that another request has already started
\* within the hour: the decision made at the UPDATE is still true at commit.
RateLimitHolds ==
    [][\A r \in Requests :
          pc[r] = "commit" /\ pc'[r] = "answered" /\ ~force[r]
              => Range(targets[r]) \cap slot = {}]_vars

\* No two jobs have the same user to work on, unless a submission whose Job
\* exists was taken for one that failed.
OneJobPerUser ==
    used.ghosts = 0 => \A r, s \in Requests : r # s => Range(job[r]) \cap Range(job[s]) = {}

\* Every request is answered, also when bulk requests list the same users in a
\* different order and wait for each other.
EveryRequestAnswered ==
    \A r \in Requests : (pc[r] = "claim") ~> (pc[r] = "answered")
=============================================================================
