------------------------ MODULE ConversionProperties ------------------------
(***************************************************************************)
(* What the conversion of an amount promises.                              *)
(***************************************************************************)
EXTENDS RateConversion

Rows == {[Row(rate, last) EXCEPT !.to = to] :
            rate \in Menu, last \in Times \cup {Never}, to \in Times \cup {Forever}}
Steps == {Step(row, divide, tier) :
             row \in Rows, divide \in BOOLEAN, tier \in {"fresh", "closest"}}

\* Types, and the shape of the search of _resolve_path: half a path only at a pivot, a
\* probe of the leg that exists, at most two steps and these of one tier.
TypeOK ==
    /\ config \in Configs
    /\ rates \subseteq Rows
    /\ \A r, q \in rates : r.id = q.id => r = q
    /\ conv.pc \in {"waiting", "running", "failed", "done"}
    /\ conv.pc # "waiting" =>
          /\ conv.goal \in Goals
          /\ conv.tier \in {"fresh", "closest"}
          /\ conv.pivot \in 0..Len(Pivots(conv.goal))
          /\ conv.half \in Seq(Steps)
          /\ Len(conv.half) <= IF conv.pivot > 0 THEN 1 ELSE 0
          /\ conv.probe = 1 \/ conv.probe \in 1..Probes(conv.goal, conv.tier)
          /\ conv.path \in Seq(Steps) /\ Len(conv.path) <= 2
          /\ \A n \in DOMAIN conv.path : conv.path[n].tier = conv.tier
          /\ conv.before \subseteq Rows

-----------------------------------------------------------------------------
(* A path as the documents order them, without a search. *)

\* The whole chain of a source, if it ends within the cap.
WholeChains(entry) ==
    {chain \in SeqOf(DOMAIN config, MaxDepth) :
        IF entry \notin DOMAIN config THEN chain = <<>>
        ELSE /\ chain # <<>> /\ Head(chain) = entry
             /\ \A n \in DOMAIN chain :
                   config[chain[n]].fallback = IF n < Len(chain) THEN chain[n + 1] ELSE NoSource}

\* All the steps that some row of a table allows from one currency to another.
StepsOf(table, tier, chain, at, of, in) ==
    {step \in {Step(row, divide, tier) : row \in table, divide \in BOOLEAN} :
        LET row == step.row
        IN  /\ IF step.divide THEN Quotes(row, in, of) ELSE Quotes(row, of, in)
            /\ row.source \in ToSet(chain)
            /\ IF tier = "fresh" THEN IsFresh(row, at) ELSE Proximity(row, at) <= MaxAge}

\* Fresh: the source, then the direction, then the newest.  Closest: the direction first.
StepRank(step, chain, at) ==
    LET reverse == IF step.divide THEN 1 ELSE 0
        place == Position(chain, step.row.source)
    IN  IF step.tier = "fresh" THEN <<place, reverse, Forever - step.row.from, 0, 0>>
        ELSE <<reverse>> \o ClosestRank(step.row, at, chain)

\* The paths, each with its rank: the tier, then the pivot, then the legs.
RankedPaths(table, goal, chain) ==
    LET pivots == Pivots(goal)
        number(tier) == IF tier = "fresh" THEN 0 ELSE 1
        rank(step) == StepRank(step, chain, goal.at)
        direct(tier) ==
          {[path |-> <<step>>, rank |-> <<number(tier), 0>> \o rank(step)] :
              step \in StepsOf(table, tier, chain, goal.at, goal.of, goal.in)}
        over(tier, n) ==
          {[path |-> <<left, right>>, rank |-> <<number(tier), n>> \o rank(left) \o rank(right)] :
              left \in StepsOf(table, tier, chain, goal.at, goal.of, pivots[n]),
              right \in StepsOf(table, tier, chain, goal.at, pivots[n], goal.in)}
    IN  UNION {direct(tier) \cup UNION {over(tier, n) : n \in DOMAIN pivots} :
                  tier \in {"fresh", "closest"}}

Searched == conv.pc = "done" /\ conv.goal.of # conv.goal.in

\* "Freshness beats hop count": when no rate was written meanwhile, the nested loops of
\* _resolve_path, _resolve_leg and the two queries find the least of all paths in the
\* order tier, hops, pivot, then source, direction and age of each leg, and find none
\* only if there is none.  A cyclic or too long chain never gets as far.
BestPathWhenQuiet ==
    Searched /\ conv.before = rates =>
        \E chain \in WholeChains(conv.goal.entry) :
            LET ranked == RankedPaths(rates, conv.goal, chain)
            IN  IF conv.path = <<>> THEN ranked = {}
                ELSE \E best \in ranked :
                        /\ best.path = conv.path
                        /\ \A other \in ranked \ {best} : Before(best.rank, other.rank)

\* Rates that are written while a conversion looks for its path never cost it a path, nor
\* a tier, nor the direct leg or an earlier pivot it could have had when it began: a poll
\* that closes the row a probe would have found leaves its successor to be found.
WritesNeverWorsen ==
    Searched =>
        \A chain \in WholeChains(conv.goal.entry) :
        \A known \in RankedPaths(conv.before, conv.goal, chain) :
            /\ conv.path # <<>>
            /\ ~ Before(SubSeq(known.rank, 1, 2),
                        <<IF conv.tier = "fresh" THEN 0 ELSE 1, conv.pivot>>)

\* The bank buys below the middle rate and sells above it.
Straddles(row) ==
    /\ row.buy # Null => row.buy <= row.mid
    /\ row.sell # Null => row.mid <= row.sell

\* _pick_rate never overstates: if the bank buys below and sells above the middle rates of
\* the path, the amount is never more than these middle rates would give, after one
\* rounding, whichever sides are NULL and however the legs are turned.
NeverOverstates ==
    Searched /\ conv.path # <<>> /\ (\A n \in DOMAIN conv.path : Straddles(conv.path[n].row)) =>
        Converted(conv.path, conv.goal.amount)
          <= Converted([n \in DOMAIN conv.path |-> [conv.path[n] EXCEPT !.rate = conv.path[n].row.mid]],
                       conv.goal.amount)
=============================================================================
