-------------------------- MODULE TransferDecision --------------------------
(***************************************************************************)
(* The pure part of Monobank transfer detection: which stored rows may be  *)
(* the other half of an incoming row, how strong the evidence is, and      *)
(* which of them is claimed.                                               *)
(*                                                                         *)
(* A leg is what the bank reports of one side of a movement of money.  An  *)
(* IBAN is named by the account it belongs to; a description by what the   *)
(* code reads in it: its prefix, whether the phrase is known, whether it   *)
(* belongs to a chain, and the accounts whose type and currency fit it.    *)
(***************************************************************************)
EXTENDS Integers, FiniteSets

CONSTANTS
    Accounts,       \* accounts the user has or may link
    NoIban,         \* the bank reported no counterparty IBAN
    Stranger        \* an account the user will never link

ASSUME AccountsAssumption ==
    /\ {NoIban, Stranger} \cap Accounts = {}
    /\ NoIban # Stranger

Descriptions == {d \in [prefix   : {"from", "to", "other"},
                       known    : BOOLEAN,
                       multiHop : BOOLEAN,
                       names    : SUBSET Accounts] : d.multiHop => d.known}

Legs == [transfer    : BOOLEAN,      \* MCC 4829, amount not zero
         source      : {"monobank", "manual"},
         direction   : {"income", "expense"},
         account     : Accounts,
         cpIban      : Accounts \cup {NoIban, Stranger},
         description : Descriptions,
         amount      : Nat,
         opAmount    : Nat,          \* both normalizers always fill it
         time        : Int]

\* Mutant: one second short.
NarrowWindow == 1

Window == 2

-----------------------------------------------------------------------------
\* Only Monobank has a strategy, which looks at transfers only.
Detects(leg) == leg.source = "monobank" /\ leg.transfer

\* Mutant: only the first of the two amount predicates.
OneClause(leg, cand) == cand.amount = leg.opAmount

AmountsMatch(leg, cand) ==
    \/ cand.amount = leg.opAmount
    \/ cand.opAmount = leg.amount

\* The source of the candidate does not matter.
IsCandidate(leg, cand) ==
    /\ leg.transfer /\ cand.transfer
    /\ leg.direction # cand.direction
    /\ leg.account # cand.account
    /\ AmountsMatch(leg, cand)
    /\ cand.time - leg.time \in -Window .. Window

CpIbanStatus(leg, linked) ==
    IF leg.cpIban = NoIban THEN "null"
    ELSE IF leg.direction = "expense" /\ leg.description.multiHop THEN "transitive"
    ELSE IF leg.cpIban \in linked THEN "honest"
    ELSE "unlinked"

IsConsistent(leg, cand, linked) ==
    /\ CpIbanStatus(leg, linked) = "honest" => leg.cpIban = cand.account
    /\ CpIbanStatus(cand, linked) \in {"honest", "unlinked"} => cand.cpIban = leg.account

SideClaims(leg, other, linked) ==
    CpIbanStatus(leg, linked) = "honest" /\ leg.cpIban = other.account

PairEvidence(leg, cand, linked) ==
    CASE SideClaims(leg, cand, linked) /\ SideClaims(cand, leg, linked) -> "bilateral"
      [] ~SideClaims(leg, cand, linked) /\ ~SideClaims(cand, leg, linked) -> "none"
      [] OTHER -> "unilateral"

\* Whichever direction each leg has, its known description must fit the other's account.
DescriptionsConsistent(leg, cand) ==
    /\ leg.description.known => cand.account \in leg.description.names
    /\ cand.description.known => leg.account \in cand.description.names

-----------------------------------------------------------------------------
Unpaired == {"unpaired_from_description", "unpaired_to_description"}
Terminal == {"ambiguous_pair_match", "description_account_mismatch",
             "description_consistency_mismatch"}

\* What happens to an incoming leg: the rows of ids (at most one) it claims, the pair
\* block written on both, and the anomaly recorded on it.
NoPair == [evidence |-> "none", decisive |-> FALSE, claimed |-> FALSE]
Pair(evidence, decisive) == [evidence |-> evidence, decisive |-> decisive, claimed |-> TRUE]

Plain(anomaly) == [partner |-> {}, pair |-> NoPair, anomaly |-> anomaly]

\* Mutant: one code for both directions, which the enum does not have.
UnknownReason(leg) == IF leg.description.prefix = "other" THEN "none" ELSE "unpaired"

UnpairedAnomaly(leg) ==
    CASE leg.description.prefix = "from" -> "unpaired_from_description"
      [] leg.description.prefix = "to" -> "unpaired_to_description"
      [] OTHER -> "none"

HandleUnlinked(leg) ==
    Plain(IF leg.description.known THEN "none" ELSE UnpairedAnomaly(leg))

\* In the rest, event maps transaction ids to legs and cands is the set of ids that
\* passed the consistency filter.
ClaimOne(event, t, c, evidence, decisive) ==
    [partner |-> {c},
     pair    |-> Pair(evidence, decisive),
     anomaly |-> IF DescriptionsConsistent(event[t], event[c]) THEN "none"
                 ELSE "description_consistency_mismatch"]

WithEvidence(event, t, cands, linked, level) ==
    {c \in cands : PairEvidence(event[t], event[c], linked) = level}

\* Mutant: the buckets in the opposite order.
WeakestBucket(event, t, cands, linked) ==
    CASE WithEvidence(event, t, cands, linked, "none") # {} -> "none"
      [] WithEvidence(event, t, cands, linked, "none") = {}
            /\ WithEvidence(event, t, cands, linked, "unilateral") # {} -> "unilateral"
      [] OTHER -> "bilateral"

\* The highest bucket that is not empty; the lower ones are never looked at.
BucketLevel(event, t, cands, linked) ==
    CASE WithEvidence(event, t, cands, linked, "bilateral") # {} -> "bilateral"
      [] WithEvidence(event, t, cands, linked, "bilateral") = {}
            /\ WithEvidence(event, t, cands, linked, "unilateral") # {} -> "unilateral"
      [] OTHER -> "none"

DecideMany(event, t, cands, linked) ==
    LET level     == BucketLevel(event, t, cands, linked)
        bucket    == WithEvidence(event, t, cands, linked, level)
        survivors == {c \in bucket : DescriptionsConsistent(event[t], event[c])}
    IN  IF Cardinality(survivors) = 1
        THEN ClaimOne(event, t, CHOOSE c \in survivors : TRUE, level, survivors # bucket)
        ELSE IF survivors = {} /\ level = "none"
        THEN Plain("description_account_mismatch")
        ELSE Plain("ambiguous_pair_match")

Decide(event, t, cands, linked) ==
    IF cands = {} THEN Plain(UnpairedAnomaly(event[t]))
    ELSE IF Cardinality(cands) = 1
    THEN LET c == CHOOSE c \in cands : TRUE
         IN  ClaimOne(event, t, c, PairEvidence(event[t], event[c], linked), FALSE)
    ELSE DecideMany(event, t, cands, linked)
=============================================================================
