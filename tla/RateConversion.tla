--------------------------- MODULE RateConversion ---------------------------
(***************************************************************************)
(* Conversion of an amount into a display currency: the enrichment service  *)
(* looks for a path of one or two rates through the chain of sources, while *)
(* the ingestion service goes on writing rates.  Every look-up is one       *)
(* statement of a READ COMMITTED transaction, so each sees another table.   *)
(***************************************************************************)
EXTENDS Integers, SequencesExt

CONSTANTS
    Sources,
    PolledSources,  \* kind of the source in the registry
    Configs,     \* rate_source_config: fallback and base currencies of some of the sources
    NoSource,
    Menu,        \* the rates that the ingestion service may write
    Goals,       \* conversions: entry source, currencies, time, amount
    Times,
    Grace,       \* tolerance times cadence
    MaxAge,      \* _MAX_CLOSEST_RATE_AGE
    MaxDepth,    \* _MAX_CHAIN_DEPTH
    MaxRows      \* bound: rows of the table

Never == 0
Null == -1
Forever == 99

ASSUME ConversionAssumption ==
    /\ Grace \in Nat /\ MaxAge \in Nat /\ MaxDepth \in Nat \ {0} /\ MaxRows \in Nat
    /\ NoSource \notin Sources /\ PolledSources \subseteq Sources
    /\ Times \subseteq 1..(Forever - 1)
    /\ \A c \in Configs : \A s \in DOMAIN c :
          /\ s \in Sources /\ c[s].fallback \in DOMAIN c \cup {NoSource}
          /\ IsFiniteSet(DOMAIN c[s].bases)
    /\ \A rate \in Menu :
          /\ rate.id \in Nat /\ rate.source \in Sources /\ rate.from \in Times
          /\ rate.mid \in Nat \ {0} /\ rate.buy \in Nat \cup {Null} /\ rate.sell \in Nat \cup {Null}
    /\ \A goal \in Goals : goal.at \in Times /\ goal.amount \in Nat

VARIABLES
    config,
    rates,   \* currency_rates
    conv     \* the conversion under way or done

vars == <<config, rates, conv>>

-----------------------------------------------------------------------------
(* load_source_chain. *)

\* A source and its fallbacks, in their order.
Falls(chain, entry) ==
    /\ chain = <<>> <=> entry \notin DOMAIN config
    /\ chain # <<>> => Head(chain) = entry
    /\ \A n \in 1..(Len(chain) - 1) : config[chain[n]].fallback = chain[n + 1]

\* The recursive query: as far as there is a fallback, up to the cap.
ChainAfter(entry) ==
    CHOOSE chain \in SeqOf(DOMAIN config, MaxDepth) :
        /\ Falls(chain, entry)
        /\ chain = <<>> \/ Len(chain) = MaxDepth \/ config[Last(chain)].fallback = NoSource

\* RateSourceChainError.
ChainFails(entry) ==
    LET chain == ChainAfter(entry)
    IN  Len(chain) = MaxDepth /\ config[Last(chain)].fallback # NoSource

\* The order of tuples.
Before(p, q) ==
    \E n \in DOMAIN p : p[n] < q[n] /\ \A m \in 1..(n - 1) : p[m] = q[m]

\* _ordered_pivots: by depth in the chain, then by place in the array of the source; the
\* first of equals counts; _resolve_path skips the ends of the path.
Pivots(goal) ==
    LET chain == ChainAfter(goal.entry)
        all == UNION {{<<n, m>> : m \in DOMAIN config[chain[n]].bases} : n \in DOMAIN chain}
        currency(p) == config[chain[p[1]]].bases[p[2]]
        seen == {p \in all : /\ currency(p) \notin {goal.of, goal.in}
                             /\ \A q \in all : Before(q, p) => currency(q) # currency(p)}
        earlier(p) == {q \in seen : Before(q, p)}
    IN  [n \in 1..Cardinality(seen) |->
            currency(CHOOSE p \in seen : Cardinality(earlier(p)) = n - 1)]

-----------------------------------------------------------------------------
(* The two queries. *)

Quotes(row, of, in) == row.of = of /\ row.in = in

IsPolled(row) == row.last # Never

IsFresh(row, at) ==
    /\ IsPolled(row)
    /\ row.from <= at /\ at < row.to
    /\ at <= row.last + Grace

\* find_fresh_rate, as a set of at most one row.
FindFresh(source, of, in, at) ==
    LET found == {row \in rates : row.source = source /\ Quotes(row, of, in) /\ IsFresh(row, at)}
    IN  {row \in found : \A other \in found : other.from <= row.from}

\* Distance from the interval in which the row is known to have been right.
Proximity(row, at) ==
    LET end == IF IsPolled(row) THEN row.last ELSE row.from
    IN  IF at > end THEN at - end ELSE IF at < row.from THEN row.from - at ELSE 0

Position(chain, source) == SelectInSeq(chain, LAMBDA s : s = source)

\* ORDER BY of find_closest_rate.
ClosestRank(row, at, chain) ==
    <<Proximity(row, at), Position(chain, row.source), IF IsPolled(row) THEN 0 ELSE 1, row.id>>

ClosestOf(found, at, chain) ==
    {row \in found : \A other \in found \ {row} :
        Before(ClosestRank(row, at, chain), ClosestRank(other, at, chain))}

FindClosest(of, in, at, chain) ==
    ClosestOf({row \in rates : /\ Quotes(row, of, in) /\ row.source \in ToSet(chain)
                               /\ Proximity(row, at) <= MaxAge}, at, chain)

-----------------------------------------------------------------------------
(* One leg. *)

\* Mutant: a side that is missing is replaced by the other side.
PickOther(row, divide) ==
    LET preferred == IF divide THEN row.sell ELSE row.buy
        other == IF divide THEN row.buy ELSE row.sell
    IN  IF preferred # Null THEN preferred ELSE IF other # Null THEN other ELSE row.mid

\* _pick_rate: the side on which the bank trades with the user, else the middle.
PickRate(row, divide) ==
    LET preferred == IF divide THEN row.sell ELSE row.buy
    IN  IF preferred # Null THEN preferred ELSE row.mid

Step(row, divide, tier) ==
    [row |-> row, divide |-> divide, tier |-> tier, rate |-> PickRate(row, divide)]

\* The statements of _resolve_leg: direct before reverse; for each source of the chain
\* while only fresh rates will do, then once for all of them.
Probes(goal, tier) == IF tier = "fresh" THEN 2 * Len(ChainAfter(goal.entry)) ELSE 2

\* Statement n finds a rate or none: _try_fresh, _resolve_closest_across_chain.
Probe(goal, tier, leg, n) ==
    LET chain == ChainAfter(goal.entry)
        divide == n % 2 = 0
        of == IF divide THEN leg[2] ELSE leg[1]
        in == IF divide THEN leg[1] ELSE leg[2]
    IN  {Step(row, divide, tier) : row \in
            IF tier = "fresh" THEN FindFresh(chain[(n + 1) \div 2], of, in, goal.at)
                              ELSE FindClosest(of, in, goal.at, chain)}

-----------------------------------------------------------------------------
(* _resolve_path *)

Init ==
    /\ config \in Configs
    /\ rates = {}
    /\ conv = [pc |-> "waiting"]

\* An amount in the display currency passes through; a chain that fails ends the event.
Convert(goal) ==
    /\ conv.pc = "waiting"
    /\ conv' = [pc |-> IF ChainFails(goal.entry) THEN "failed"
                       ELSE IF goal.of = goal.in THEN "done" ELSE "running",
                goal |-> goal, tier |-> "fresh", pivot |-> 0, half |-> <<>>, probe |-> 1,
                path |-> <<>>, before |-> rates]
    /\ UNCHANGED <<config, rates>>

\* Pivot 0 is the direct leg; half a path is its left leg.
CurrentLeg ==
    LET goal == conv.goal
    IN  CASE conv.pivot = 0 -> <<goal.of, goal.in>>
          [] conv.half = <<>> /\ conv.pivot > 0 -> <<goal.of, Pivots(goal)[conv.pivot]>>
          [] OTHER -> <<Pivots(goal)[conv.pivot], goal.in>>

LastProbe == conv.probe >= Probes(conv.goal, conv.tier)

Found == IF conv.probe > Probes(conv.goal, conv.tier) THEN {}
         ELSE Probe(conv.goal, conv.tier, CurrentLeg, conv.probe)

FindRate ==
    /\ conv.pc = "running"
    /\ \E step \in Found :
          conv' = IF conv.pivot > 0 /\ conv.half = <<>>
                  THEN [conv EXCEPT !.half = <<step>>, !.probe = 1]
                  ELSE [conv EXCEPT !.pc = "done", !.path = conv.half \o <<step>>]
    /\ UNCHANGED <<config, rates>>

\* Mutant: the loop over the sources runs on.
ProbeOn ==
    /\ conv.pc = "running"
    /\ Found = {}
    /\ conv.probe <= Probes(conv.goal, conv.tier)
    /\ conv' = [conv EXCEPT !.probe = @ + 1]
    /\ UNCHANGED <<config, rates>>

NextProbe ==
    /\ conv.pc = "running"
    /\ Found = {}
    /\ ~ LastProbe
    /\ conv' = [conv EXCEPT !.probe = @ + 1]
    /\ UNCHANGED <<config, rates>>

NextPivot ==
    /\ conv.pc = "running"
    /\ Found = {} /\ LastProbe
    /\ conv.pivot < Len(Pivots(conv.goal))
    /\ conv' = [conv EXCEPT !.pivot = @ + 1, !.half = <<>>, !.probe = 1]
    /\ UNCHANGED <<config, rates>>

\* Mutant: the closest tier has its pivots but not its direct leg.
SkipDirect ==
    /\ conv.pc = "running"
    /\ Found = {} /\ LastProbe
    /\ conv.pivot = Len(Pivots(conv.goal))
    /\ conv' = IF conv.tier = "closest" \/ conv.pivot = 0 THEN [conv EXCEPT !.pc = "done"]
               ELSE [conv EXCEPT !.tier = "closest", !.pivot = 1, !.half = <<>>, !.probe = 1]
    /\ UNCHANGED <<config, rates>>

\* No pivot is left: the other tier, or the amount stays NULL.
NextTier ==
    /\ conv.pc = "running"
    /\ Found = {} /\ LastProbe
    /\ conv.pivot = Len(Pivots(conv.goal))
    /\ conv' = IF conv.tier = "closest" THEN [conv EXCEPT !.pc = "done"]
               ELSE [conv EXCEPT !.tier = "closest", !.pivot = 0, !.half = <<>>, !.probe = 1]
    /\ UNCHANGED <<config, rates>>

-----------------------------------------------------------------------------
(* The ingestion service. *)

Row(rate, last) ==
    [id |-> rate.id, source |-> rate.source, of |-> rate.of, in |-> rate.in, buy |-> rate.buy,
     mid |-> rate.mid, sell |-> rate.sell, from |-> rate.from, last |-> last, to |-> Forever]

IsNew(rate) ==
    /\ \A row \in rates : row.id # rate.id
    /\ Cardinality(rates) < MaxRows

Current(rate) ==
    {row \in rates : /\ row.source = rate.source /\ Quotes(row, rate.of, rate.in)
                     /\ IsPolled(row) /\ row.to = Forever}

\* Mutant: the row ends where it began.
CloseAtStart(rate) ==
    /\ rate.source \in PolledSources /\ IsNew(rate)
    /\ \A row \in Current(rate) : row.last <= rate.from
    /\ rates' = (rates \ Current(rate)) \cup {[row EXCEPT !.to = row.from] : row \in Current(rate)}
                    \cup {Row(rate, rate.from)}
    /\ UNCHANGED <<config, conv>>

\* upsert_polled, another rate: the open row of the pair is closed.
Poll(rate) ==
    /\ rate.source \in PolledSources /\ IsNew(rate)
    /\ \A row \in Current(rate) : row.last <= rate.from
    /\ rates' = (rates \ Current(rate)) \cup {[row EXCEPT !.to = rate.from] : row \in Current(rate)}
                    \cup {Row(rate, rate.from)}
    /\ UNCHANGED <<config, conv>>

\* upsert_polled, the same rate.
PollAgain(row, t) ==
    /\ IsPolled(row) /\ row.to = Forever /\ row.last < t
    /\ rates' = (rates \ {row}) \cup {[row EXCEPT !.last = t]}
    /\ UNCHANGED <<config, conv>>

\* upsert_historical, without valid_to: no query reads it.
Backfill(rate) ==
    /\ rate.source \notin PolledSources /\ IsNew(rate)
    /\ rates' = rates \cup {Row(rate, Never)}
    /\ UNCHANGED <<config, conv>>

Next ==
    \/ \E goal \in Goals : Convert(goal)
    \/ FindRate \/ NextProbe \/ NextPivot \/ NextTier
    \/ \E rate \in Menu : Poll(rate) \/ Backfill(rate)
    \/ \E row \in rates, t \in Times : PollAgain(row, t)

Spec == Init /\ [][Next]_vars

-----------------------------------------------------------------------------
(* The amount, as the numerator and the denominator of a fraction. *)

Numerator(path, amount) ==
    LET after[n \in 0..Len(path)] ==
          IF n = 0 THEN amount
          ELSE IF path[n].divide THEN after[n - 1] ELSE after[n - 1] * path[n].rate
    IN  after[Len(path)]

Denominator(path) ==
    LET after[n \in 0..Len(path)] ==
          IF n = 0 THEN 1
          ELSE IF path[n].divide THEN after[n - 1] * path[n].rate ELSE after[n - 1]
    IN  after[Len(path)]

\* ROUND_HALF_UP of a positive fraction.
RoundHalfUp(n, d) == (2 * n + d) \div (2 * d)

\* path.apply and quantize.
Converted(path, amount) == RoundHalfUp(Numerator(path, amount), Denominator(path))
=============================================================================
