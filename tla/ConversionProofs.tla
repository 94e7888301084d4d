------------------------- MODULE ConversionProofs -------------------------
(***************************************************************************)
(* Machine-checked proofs about the conversion of an amount, for any       *)
(* sources, chains, rates, goals and bounds.                               *)
(***************************************************************************)
EXTENDS ConversionProperties, SequenceTheorems, FiniteSetTheorems, WellFoundedInduction, TLAPS

(* Numbers and tuples. *)

NatLess == {p \in Nat \X Nat : p[1] < p[2]}

LEMMA NatLessIsWellFounded == IsWellFoundedOn(NatLess, Nat)
  BY NatLessThanWellFounded, Zenon DEF OpToRel, NatLess

\* A set of numbers has a least element.
LEMMA LeastNumber ==
    ASSUME NEW S, S \subseteq Nat, S # {}
    PROVE  \E n \in S : \A m \in S : n <= m
  <1>1. PICK n \in S : \A m \in S : ~(<<m, n>> \in NatLess)
    BY NatLessIsWellFounded, WFMin
  <1>2. ASSUME NEW m \in S PROVE n <= m
    <2>1. ~(<<m, n>> \in NatLess) /\ n \in Nat /\ m \in Nat
      BY <1>1
    <2>2. ~(m < n)
      BY <2>1 DEF NatLess
    <2> QED
      BY <2>1, <2>2
  <1> QED
    BY <1>2

\* A function into the numbers is least somewhere.
LEMMA LeastValue ==
    ASSUME NEW S, S # {}, NEW f, \A x \in S : f[x] \in Nat
    PROVE  \E x \in S : \A y \in S : f[x] <= f[y]
  <1> DEFINE values == {f[x] : x \in S}
  <1>1. values \subseteq Nat /\ values # {}
    OBVIOUS
  <1>2. PICK n \in values : \A m \in values : n <= m
    BY <1>1, LeastNumber
  <1> QED
    BY <1>2

LEMMA BoundedSequences ==
    ASSUME NEW S, NEW n \in Nat, NEW s
    PROVE  s \in SeqOf(S, n) <=> s \in Seq(S) /\ Len(s) <= n
  <1>1. ASSUME s \in SeqOf(S, n) PROVE s \in Seq(S) /\ Len(s) <= n
    <2>1. PICK m \in 0..n : s \in [1..m -> S]
      BY <1>1 DEF SeqOf
    <2>2. s \in Seq(S)
      BY <2>1, SeqDef
    <2> QED
      BY <2>1, <2>2
  <1>2. ASSUME s \in Seq(S), Len(s) <= n PROVE s \in SeqOf(S, n)
    <2>1. Len(s) \in 0..n /\ s \in [1..Len(s) -> S]
      BY <1>2, LenProperties
    <2> QED
      BY <2>1 DEF SeqOf
  <1> QED
    BY <1>1, <1>2

-----------------------------------------------------------------------------
(* The chain of sources. *)

LEMMA ConfigTypes ==
    ASSUME config \in Configs
    PROVE  /\ DOMAIN config \subseteq Sources
           /\ NoSource \notin DOMAIN config
           /\ \A s \in DOMAIN config :
                 /\ config[s].fallback \in DOMAIN config \cup {NoSource}
                 /\ IsFiniteSet(DOMAIN config[s].bases)
  BY ConversionAssumption

\* The query ends.
LEMMA ChainExists ==
    ASSUME config \in Configs, NEW entry
    PROVE  \E chain \in SeqOf(DOMAIN config, MaxDepth) :
              /\ Falls(chain, entry)
              /\ chain = <<>> \/ Len(chain) = MaxDepth \/ config[Last(chain)].fallback = NoSource
  <1> DEFINE D == DOMAIN config
             Reaches(n) == \E chain \in Seq(D) :
                              /\ Falls(chain, entry) /\ chain # <<>> /\ Len(chain) <= n
                              /\ Len(chain) = n \/ config[Last(chain)].fallback = NoSource
             missed == {n \in 1..MaxDepth : ~Reaches(n)}
  <1>0. MaxDepth \in Nat \ {0}
    BY ConversionAssumption
  <1>1. CASE entry \notin D
    <2>1. <<>> \in Seq(D) /\ Len(<<>>) = 0
      OBVIOUS
    <2>2. Falls(<<>>, entry)
      BY <1>1 DEF Falls
    <2>3. <<>> \in SeqOf(D, MaxDepth)
      <3>1. \E s \in Seq(D) : s = <<>>
        BY <2>1
      <3>2. PICK s \in Seq(D) : s = <<>>
        BY <3>1
      <3>3. Len(s) <= MaxDepth
        BY <1>0, <2>1, <3>2
      <3> QED
        BY <1>0, <3>2, <3>3, BoundedSequences
    <2> QED
      BY <2>2, <2>3
  <1>2. CASE entry \in D
    <2>1. missed = {}
      <3>1. SUFFICES ASSUME missed # {} PROVE FALSE
        OBVIOUS
      <3>0. missed \subseteq Nat
        BY <1>0
      <3> HIDE DEF missed
      <3>2. PICK n \in missed : \A m \in missed : n <= m
        BY <3>0, <3>1, LeastNumber
      <3> USE DEF missed
      <3>3. n \in 1..MaxDepth /\ ~Reaches(n)
        BY <3>2
      <3>4. CASE n = 1
        <4>1. /\ <<entry>> \in Seq(D) /\ Len(<<entry>>) = 1 /\ Head(<<entry>>) = entry
              /\ <<entry>> # <<>>
          BY <1>2
        <4>2. Falls(<<entry>>, entry)
          BY <1>2, <4>1 DEF Falls
        <4>3. Len(<<entry>>) <= n /\ Len(<<entry>>) = n
          BY <3>4, <4>1
        <4> HIDE DEF D
        <4>4. Reaches(n)
          BY <4>1, <4>2, <4>3
        <4> HIDE DEF Reaches
        <4> QED
          BY <3>3, <4>4
      <3>5. CASE n # 1
        <4>1. n - 1 \in 1..MaxDepth /\ n - 1 \notin missed
          BY <1>0, <3>2, <3>3, <3>5
        <4>2. Reaches(n - 1)
          BY <4>1
        <4>3. PICK chain \in Seq(D) :
                 /\ Falls(chain, entry) /\ chain # <<>> /\ Len(chain) <= n - 1
                 /\ Len(chain) = n - 1 \/ config[Last(chain)].fallback = NoSource
          BY <4>2
        <4>4. config[Last(chain)].fallback # NoSource /\ Len(chain) = n - 1
          BY <3>3, <4>3
        <4> DEFINE next == config[Last(chain)].fallback
                   more == Append(chain, next)
        <4>5. Last(chain) \in D /\ Last(chain) = chain[n - 1]
          BY <4>3, <4>4, <4>1, ElementOfSeq DEF Last
        <4>6. next \in D
          BY <4>4, <4>5, ConfigTypes
        <4>7. /\ more \in Seq(D) /\ Len(more) = n /\ more # <<>>
              /\ \A i \in 1..(n - 1) : more[i] = chain[i]
              /\ more[n] = next
          BY <4>3, <4>4, <4>6, <3>3, AppendProperties
        <4>8. Falls(more, entry)
          <5>1. more # <<>> => Head(more) = entry
            <6>1. Head(more) = more[1] /\ Head(chain) = chain[1]
              BY <4>3, <4>7
            <6> QED
              BY <6>1, <4>1, <4>3, <4>7 DEF Falls
          <5>2. ASSUME NEW i \in 1..(Len(more) - 1) PROVE config[more[i]].fallback = more[i + 1]
            <6>1. CASE i = n - 1
              BY <6>1, <4>7, <4>5, <3>3, <4>1
            <6>2. CASE i # n - 1
              <7>1. i \in 1..(Len(chain) - 1) /\ i \in 1..(n - 1) /\ i + 1 \in 1..(n - 1)
                BY <6>2, <4>7, <4>4, <3>3
              <7> QED
                BY <7>1, <4>7, <4>3 DEF Falls
            <6> QED
              BY <6>1, <6>2
          <5> QED
            BY <5>1, <5>2, <4>7, <1>2 DEF Falls
        <4>9. Len(more) <= n
          BY <4>7, <3>3
        <4> HIDE DEF more, D
        <4>10. Reaches(n)
          BY <4>7, <4>8, <4>9
        <4> HIDE DEF Reaches
        <4> QED
          BY <4>10, <3>3
      <3> QED
        BY <3>4, <3>5
    <2>2. Reaches(MaxDepth)
      BY <1>0, <2>1
    <2>3. PICK chain \in Seq(D) :
             /\ Falls(chain, entry) /\ chain # <<>> /\ Len(chain) <= MaxDepth
             /\ Len(chain) = MaxDepth \/ config[Last(chain)].fallback = NoSource
      BY <2>2
    <2>4. chain \in SeqOf(D, MaxDepth)
      BY <1>0, <2>3, BoundedSequences
    <2> QED
      BY <2>3, <2>4
  <1> QED
    BY <1>1, <1>2

LEMMA ChainIs ==
    ASSUME config \in Configs, NEW entry
    PROVE  LET chain == ChainAfter(entry)
           IN  /\ chain \in Seq(DOMAIN config) /\ Len(chain) <= MaxDepth
               /\ Falls(chain, entry)
               /\ chain = <<>> \/ Len(chain) = MaxDepth \/ config[Last(chain)].fallback = NoSource
  <1>1. LET chain == ChainAfter(entry)
        IN  /\ chain \in SeqOf(DOMAIN config, MaxDepth)
            /\ Falls(chain, entry)
            /\ chain = <<>> \/ Len(chain) = MaxDepth \/ config[Last(chain)].fallback = NoSource
    BY ChainExists DEF ChainAfter
  <1>2. ChainAfter(entry) \in SeqOf(DOMAIN config, MaxDepth)
    BY <1>1
  <1>3. ChainAfter(entry) \in Seq(DOMAIN config) /\ Len(ChainAfter(entry)) <= MaxDepth
    BY <1>2, BoundedSequences, ConversionAssumption
  <1> QED
    BY <1>1, <1>3

\* There is no other chain that is whole.
LEMMA WholeChainIsIt ==
    ASSUME config \in Configs, NEW entry, NEW whole \in WholeChains(entry)
    PROVE  whole = ChainAfter(entry)
  <1> DEFINE D == DOMAIN config
             chain == ChainAfter(entry)
             wrong == {n \in Nat : n \in DOMAIN whole /\ n \in DOMAIN chain /\ whole[n] # chain[n]}
  <1>0. MaxDepth \in Nat \ {0}
    BY ConversionAssumption
  <1>1. /\ chain \in Seq(D) /\ Len(chain) <= MaxDepth
        /\ Falls(chain, entry)
        /\ chain = <<>> \/ Len(chain) = MaxDepth \/ config[Last(chain)].fallback = NoSource
    BY ChainIs
  <1>2. /\ whole \in SeqOf(D, MaxDepth)
        /\ IF entry \notin D THEN whole = <<>>
           ELSE /\ whole # <<>> /\ Head(whole) = entry
                /\ \A n \in DOMAIN whole :
                      config[whole[n]].fallback = IF n < Len(whole) THEN whole[n + 1] ELSE NoSource
    BY DEF WholeChains
  <1>3. whole \in Seq(D) /\ Len(whole) <= MaxDepth
    BY <1>0, <1>2, BoundedSequences
  <1>4. CASE entry \notin D
    BY <1>1, <1>2, <1>4 DEF Falls
  <1>5. CASE entry \in D
    <2>0. /\ Len(chain) \in Nat /\ DOMAIN chain = 1..Len(chain)
          /\ Len(whole) \in Nat /\ DOMAIN whole = 1..Len(whole)
          /\ \A n \in 1..Len(chain) : chain[n] \in D
          /\ \A n \in 1..Len(whole) : whole[n] \in D
      BY <1>1, <1>3, LenProperties, ElementOfSeq
    <2>1. chain # <<>> /\ Head(chain) = entry /\ whole # <<>> /\ Head(whole) = entry
      BY <1>1, <1>2, <1>5 DEF Falls
    <2>2. /\ Len(chain) >= 1 /\ Len(whole) >= 1
          /\ chain[1] = entry /\ whole[1] = entry
      BY <1>1, <1>3, <2>1, <2>0, EmptySeq
    <2>3. \A n \in 1..(Len(chain) - 1) : config[chain[n]].fallback = chain[n + 1]
      BY <1>1 DEF Falls
    <2>4. /\ \A n \in 1..(Len(whole) - 1) : config[whole[n]].fallback = whole[n + 1]
          /\ config[whole[Len(whole)]].fallback = NoSource
      BY <1>2, <1>5, <2>0, <2>2
    <2>5. Len(chain) < MaxDepth => config[chain[Len(chain)]].fallback = NoSource
      <3>1. Len(chain) = MaxDepth \/ config[Last(chain)].fallback = NoSource
        BY <1>1, <2>1
      <3>2. Last(chain) = chain[Len(chain)]
        BY DEF Last
      <3>3. Len(chain) < MaxDepth => Len(chain) # MaxDepth
        BY <1>0, <2>0
      <3> HIDE DEF chain
      <3> QED
        BY <3>1, <3>2, <3>3
    <2>6. NoSource \notin D
      BY ConfigTypes
    <2> HIDE DEF D, chain
    <2>7. wrong = {}
      <3>1. SUFFICES ASSUME wrong # {} PROVE FALSE
        OBVIOUS
      <3>2. wrong \subseteq Nat
        OBVIOUS
      <3>3. PICK n \in wrong : \A m \in wrong : n <= m
        <4> HIDE DEF wrong
        <4> QED
          BY <3>1, <3>2, LeastNumber
      <3>4. n \in 1..Len(whole) /\ n \in 1..Len(chain) /\ whole[n] # chain[n]
        BY <3>3, <2>0
      <3>5. n # 1
        BY <3>4, <2>2
      <3>6. n - 1 \in 1..(Len(whole) - 1) /\ n - 1 \in 1..(Len(chain) - 1)
        BY <3>4, <3>5, <2>0
      <3>7. n - 1 \notin wrong
        BY <3>3, <3>4
      <3>8. whole[n - 1] = chain[n - 1]
        BY <3>6, <3>7, <2>0
      <3>9. (n - 1) + 1 = n
        BY <3>4
      <3> QED
        BY <3>4, <3>6, <3>8, <3>9, <2>3, <2>4
    <2>8. \A n \in 1..Len(whole) : n \in 1..Len(chain) => whole[n] = chain[n]
      BY <2>7, <2>0
    <2>9. ~(Len(whole) < Len(chain))
      <3>1. SUFFICES ASSUME Len(whole) < Len(chain) PROVE FALSE
        OBVIOUS
      <3>2. Len(whole) \in 1..(Len(chain) - 1) /\ Len(whole) \in 1..Len(whole)
        BY <3>1, <2>0, <2>2
      <3>3. Len(whole) + 1 \in 1..Len(chain) /\ Len(whole) \in 1..Len(chain)
        BY <3>1, <2>0, <2>2
      <3>4. whole[Len(whole)] = chain[Len(whole)]
        BY <3>2, <3>3, <2>8
      <3> QED
        BY <3>2, <3>3, <3>4, <2>0, <2>3, <2>4, <2>6
    <2>10. ~(Len(chain) < Len(whole))
      <3>1. SUFFICES ASSUME Len(chain) < Len(whole) PROVE FALSE
        OBVIOUS
      <3>2. Len(chain) \in 1..(Len(whole) - 1) /\ Len(chain) \in 1..Len(chain)
        BY <3>1, <2>0, <2>2
      <3>3. Len(chain) + 1 \in 1..Len(whole) /\ Len(chain) \in 1..Len(whole)
        BY <3>1, <2>0, <2>2
      <3>4. whole[Len(chain)] = chain[Len(chain)]
        BY <3>2, <3>3, <2>8
      <3>5. Len(chain) < MaxDepth
        BY <3>1, <1>0, <1>3, <2>0
      <3> QED
        BY <3>2, <3>3, <3>4, <3>5, <2>0, <2>4, <2>5, <2>6
    <2>11. Len(whole) = Len(chain)
      <3>1. Len(whole) \in Nat /\ Len(chain) \in Nat
        BY <2>0
      <3> QED
        BY <3>1, <2>9, <2>10
    <2>12. chain \in Seq(D) /\ whole \in Seq(D)
      BY <1>1, <1>3
    <2>13. \A n \in 1..Len(whole) : whole[n] = chain[n]
      BY <2>8, <2>11
    <2>14. whole = chain
      BY <2>11, <2>12, <2>13, SeqEqual
    <2> QED
      BY <2>14 DEF chain
  <1> QED
    BY <1>4, <1>5

\* A chain that does not fail is whole.
LEMMA ChainIsWhole ==
    ASSUME config \in Configs, NEW entry, ~ChainFails(entry)
    PROVE  ChainAfter(entry) \in WholeChains(entry)
  <1> DEFINE D == DOMAIN config
             chain == ChainAfter(entry)
  <1>0. MaxDepth \in Nat \ {0}
    BY ConversionAssumption
  <1>1. /\ chain \in Seq(D) /\ Len(chain) <= MaxDepth
        /\ Falls(chain, entry)
        /\ chain = <<>> \/ Len(chain) = MaxDepth \/ config[Last(chain)].fallback = NoSource
    BY ChainIs
  <1>2. chain \in SeqOf(D, MaxDepth)
    BY <1>0, <1>1, BoundedSequences
  <1>3. chain = <<>> \/ config[Last(chain)].fallback = NoSource
    BY <1>1 DEF ChainFails
  <1>4. ASSUME entry \in D, NEW n \in DOMAIN chain
        PROVE  config[chain[n]].fallback = IF n < Len(chain) THEN chain[n + 1] ELSE NoSource
    <2>1. Len(chain) \in Nat /\ n \in 1..Len(chain)
      BY <1>1, <1>4, LenProperties
    <2>2. CASE n < Len(chain)
      <3>1. n \in 1..(Len(chain) - 1)
        BY <2>1, <2>2
      <3> QED
        BY <3>1, <2>2, <1>1 DEF Falls
    <2>3. CASE ~(n < Len(chain))
      <3>1. n = Len(chain)
        BY <2>1, <2>3
      <3>2. chain # <<>>
        BY <1>1, <1>4 DEF Falls
      <3> QED
        BY <3>1, <3>2, <2>3, <1>3 DEF Last
    <2> QED
      BY <2>2, <2>3
  <1>5. IF entry \notin D THEN chain = <<>> ELSE chain # <<>> /\ Head(chain) = entry
    BY <1>1 DEF Falls
  <1> HIDE DEF chain
  <1>6. chain \in WholeChains(entry)
    BY <1>2, <1>4, <1>5 DEF WholeChains
  <1> QED
    BY <1>6 DEF chain

-----------------------------------------------------------------------------
(* The pivots. *)

\* Only finitely many, in a sequence.
LEMMA PivotsAreSequence ==
    ASSUME config \in Configs, NEW goal
    PROVE  Len(Pivots(goal)) \in Nat /\ DOMAIN Pivots(goal) = 1..Len(Pivots(goal))
  <1> DEFINE chain == ChainAfter(goal.entry)
             lists(n) == {<<n, m>> : m \in DOMAIN config[chain[n]].bases}
             all == UNION {lists(n) : n \in DOMAIN chain}
             currency(p) == config[chain[p[1]]].bases[p[2]]
             seen == {p \in all : /\ currency(p) \notin {goal.of, goal.in}
                                  /\ \A q \in all : Before(q, p) => currency(q) # currency(p)}
             earlier(p) == {q \in seen : Before(q, p)}
  <1>1. /\ DOMAIN chain = 1..Len(chain) /\ Len(chain) \in Nat
        /\ \A n \in DOMAIN chain : chain[n] \in DOMAIN config
    BY ChainIs, LenProperties, ElementOfSeq
  <1>2. \A n \in DOMAIN chain : IsFiniteSet(DOMAIN config[chain[n]].bases)
    BY <1>1, ConfigTypes
  <1> HIDE DEF chain
  <1>3. ASSUME NEW n \in DOMAIN chain PROVE IsFiniteSet(lists(n))
    <2> DEFINE places == DOMAIN config[chain[n]].bases
               pair == [m \in places |-> <<n, m>>]
    <2>1. IsFiniteSet(places)
      BY <1>2
    <2> HIDE DEF places
    <2>2. pair \in Surjection(places, lists(n))
      BY DEF Surjection, places
    <2> QED
      BY <2>1, <2>2, FS_Surjection
  <1>4. IsFiniteSet(DOMAIN chain)
    <2>1. Len(chain) \in Int /\ 1 \in Int
      BY <1>1
    <2>2. IsFiniteSet(1..Len(chain))
      BY <2>1, FS_Interval
    <2> QED
      BY <2>2, <1>1
  <1>5. IsFiniteSet({lists(n) : n \in DOMAIN chain})
    <2> DEFINE list == [n \in DOMAIN chain |-> lists(n)]
               image == {lists(n) : n \in DOMAIN chain}
    <2>1. list \in Surjection(DOMAIN chain, image)
      BY DEF Surjection
    <2> QED
      BY <2>1, <1>4, FS_Surjection
  <1>6. IsFiniteSet(all)
    BY <1>3, <1>5, FS_UNION
  <1>7. seen \subseteq all
    OBVIOUS
  <1>8. Cardinality(seen) \in Nat
    <2> HIDE DEF seen, all
    <2> QED
      BY <1>6, <1>7, FS_Subset, FS_CardinalityType
  <1>9. Pivots(goal) = [n \in 1..Cardinality(seen) |->
                           currency(CHOOSE p \in seen : Cardinality(earlier(p)) = n - 1)]
    BY DEF Pivots, chain
  <1> HIDE DEF seen
  <1>10. DOMAIN Pivots(goal) = 1..Cardinality(seen)
    BY <1>9
  <1> DEFINE pivots == Pivots(goal)
             size == Cardinality(seen)
             values == {pivots[n] : n \in 1..size}
  <1>11. pivots = [n \in 1..size |-> pivots[n]]
    BY <1>9
  <1>12. pivots \in Seq(values)
    <2> HIDE DEF pivots, size
    <2>1. pivots \in [1..size -> values]
      BY <1>11
    <2> HIDE DEF values
    <2> QED
      BY <2>1, <1>8, SeqDef DEF size
  <1> QED
    BY <1>12, LenProperties

-----------------------------------------------------------------------------
(* The configuration never changes, and so its chains and pivots. *)

LEMMA SameChain ==
    ASSUME config' = config, NEW entry
    PROVE  ChainAfter(entry)' = ChainAfter(entry)
  BY DEF ChainAfter, Falls

LEMMA SamePivots ==
    ASSUME config' = config, NEW goal
    PROVE  Pivots(goal)' = Pivots(goal)
  <1>1. ChainAfter(goal.entry)' = ChainAfter(goal.entry)
    BY SameChain
  <1> QED
    BY <1>1 DEF Pivots

LEMMA SameProbes ==
    ASSUME config' = config, NEW goal, NEW tier
    PROVE  Probes(goal, tier)' = Probes(goal, tier)
  BY SameChain DEF Probes

LEMMA SameForOldGoal ==
    ASSUME config' = config, conv'.goal = conv.goal, conv'.tier = conv.tier
    PROVE  /\ Pivots(conv.goal)' = Pivots(conv.goal)
           /\ Probes(conv.goal, conv.tier)' = Probes(conv.goal, conv.tier)
  BY SamePivots, SameProbes

-----------------------------------------------------------------------------
(* Types. *)

Searches == [pc : {"running", "failed", "done"}, goal : Goals, tier : {"fresh", "closest"},
             pivot : Nat, half : Seq(Steps), probe : Nat \ {0}, path : Seq(Steps),
             before : SUBSET Rows]

Typed ==
    /\ TypeOK
    /\ conv.pc # "waiting" =>
          /\ conv \in Searches
          /\ \A n \in DOMAIN conv.half : conv.half[n].tier = conv.tier
    /\ conv.pc = "running" => conv.path = <<>>

LEMMA RowTypes ==
    ASSUME NEW row \in Rows
    PROVE  /\ row.id \in Nat
           /\ row.from \in Times /\ row.from \in Nat /\ row.from < Forever
           /\ row.last \in Times \cup {Never} /\ row.last \in Nat
           /\ row.to \in Times \cup {Forever} /\ row.to \in Nat
           /\ row.mid \in Nat \ {0} /\ row.buy \in Nat \cup {Null} /\ row.sell \in Nat \cup {Null}
           /\ \E rate \in Menu : row.mid = rate.mid /\ row.buy = rate.buy /\ row.sell = rate.sell
  <1>1. PICK rate \in Menu, last \in Times \cup {Never}, to \in Times \cup {Forever} :
           row = [Row(rate, last) EXCEPT !.to = to]
    BY DEF Rows
  <1>2. /\ row.id = rate.id /\ row.from = rate.from /\ row.last = last /\ row.to = to
        /\ row.mid = rate.mid /\ row.buy = rate.buy /\ row.sell = rate.sell
    BY <1>1 DEF Row
  <1>3. /\ rate.id \in Nat /\ rate.from \in Times
        /\ rate.mid \in Nat \ {0} /\ rate.buy \in Nat \cup {Null} /\ rate.sell \in Nat \cup {Null}
    BY ConversionAssumption
  <1>4. \A t \in Times : t \in Nat /\ t < Forever
    BY ConversionAssumption DEF Forever
  <1> QED
    BY <1>2, <1>3, <1>4 DEF Never, Forever

LEMMA NewRow ==
    ASSUME NEW rate \in Menu, NEW last \in Times \cup {Never}
    PROVE  /\ Row(rate, last) \in Rows
           /\ Row(rate, last).id = rate.id /\ Row(rate, last).source = rate.source
           /\ Row(rate, last).of = rate.of /\ Row(rate, last).in = rate.in
           /\ Row(rate, last).from = rate.from /\ Row(rate, last).last = last
           /\ Row(rate, last).to = Forever
  <1>1. Row(rate, last) = [Row(rate, last) EXCEPT !.to = Forever]
    BY DEF Row
  <1>2. Row(rate, last) \in Rows
    BY <1>1 DEF Rows
  <1> QED
    BY <1>2 DEF Row

\* A row that is closed.
LEMMA ClosedRow ==
    ASSUME NEW row \in Rows, NEW t \in Times
    PROVE  LET closed == [row EXCEPT !.to = t]
           IN  /\ closed \in Rows
               /\ closed.id = row.id /\ closed.source = row.source
               /\ closed.of = row.of /\ closed.in = row.in
               /\ closed.from = row.from /\ closed.last = row.last /\ closed.to = t
  <1>1. PICK rate \in Menu, last \in Times \cup {Never}, to \in Times \cup {Forever} :
           row = [Row(rate, last) EXCEPT !.to = to]
    BY DEF Rows
  <1>2. [row EXCEPT !.to = t] = [Row(rate, last) EXCEPT !.to = t]
    BY <1>1 DEF Row
  <1>3. [row EXCEPT !.to = t] \in Rows
    BY <1>2 DEF Rows
  <1> QED
    BY <1>1, <1>3 DEF Row

\* A row whose rate is reported again.
LEMMA SeenRow ==
    ASSUME NEW row \in Rows, NEW t \in Times
    PROVE  LET seen == [row EXCEPT !.last = t]
           IN  /\ seen \in Rows
               /\ seen.id = row.id /\ seen.source = row.source
               /\ seen.of = row.of /\ seen.in = row.in
               /\ seen.from = row.from /\ seen.last = t /\ seen.to = row.to
  <1>1. PICK rate \in Menu, last \in Times \cup {Never}, to \in Times \cup {Forever} :
           row = [Row(rate, last) EXCEPT !.to = to]
    BY DEF Rows
  <1> DEFINE fields(l) ==
               [id |-> rate.id, source |-> rate.source, of |-> rate.of, in |-> rate.in,
                buy |-> rate.buy, mid |-> rate.mid, sell |-> rate.sell, from |-> rate.from,
                last |-> l, to |-> to]
  <1>2. [row EXCEPT !.last = t] = [Row(rate, t) EXCEPT !.to = to]
    <2>1. row = fields(last)
      BY <1>1 DEF Row
    <2>2. [row EXCEPT !.last = t] = fields(t)
      BY <2>1
    <2>3. [Row(rate, t) EXCEPT !.to = to] = fields(t)
      BY DEF Row
    <2> QED
      BY <2>2, <2>3
  <1> HIDE DEF fields
  <1>3. [row EXCEPT !.last = t] \in Rows
    BY <1>2 DEF Rows
  <1> QED
    BY <1>1, <1>3 DEF Row

LEMMA StepTypes ==
    ASSUME NEW row \in Rows, NEW divide \in BOOLEAN, NEW tier \in {"fresh", "closest"}
    PROVE  Step(row, divide, tier) \in Steps
  BY DEF Steps

\* A step comes from a row of the table and belongs to the tier.
LEMMA FoundTypes ==
    ASSUME TypeOK, conv.pc # "waiting", NEW step \in Found
    PROVE  /\ \E row \in rates, divide \in BOOLEAN : step = Step(row, divide, conv.tier)
           /\ step \in Steps /\ step.tier = conv.tier
  <1>1. step \in Probe(conv.goal, conv.tier, CurrentLeg, conv.probe)
    BY DEF Found
  <1> DEFINE leg == CurrentLeg
             goal == conv.goal
             chain == ChainAfter(goal.entry)
             divide == conv.probe % 2 = 0
             of == IF divide THEN leg[2] ELSE leg[1]
             in == IF divide THEN leg[1] ELSE leg[2]
             found == IF conv.tier = "fresh"
                      THEN FindFresh(chain[(conv.probe + 1) \div 2], of, in, goal.at)
                      ELSE FindClosest(of, in, goal.at, chain)
  <1>2. step \in {Step(row, divide, conv.tier) : row \in found}
    BY <1>1 DEF Probe
  <1>3. found \subseteq rates
    BY DEF FindFresh, FindClosest, ClosestOf
  <1>4. PICK row \in rates : step = Step(row, divide, conv.tier)
    BY <1>2, <1>3
  <1>5. divide \in BOOLEAN
    OBVIOUS
  <1>6. row \in Rows /\ conv.tier \in {"fresh", "closest"}
    BY DEF TypeOK
  <1> HIDE DEF divide
  <1>7. step \in Steps
    BY <1>4, <1>5, <1>6, StepTypes
  <1>8. step.tier = conv.tier
    BY <1>4 DEF Step
  <1> QED
    BY <1>4, <1>5, <1>7, <1>8

\* What is left of a row after a poll of its pair.
LEMMA AfterPoll ==
    ASSUME NEW rate \in Menu, Poll(rate), rates \subseteq Rows
    PROVE  /\ Row(rate, rate.from) \in rates' /\ rates' \subseteq Rows
           /\ \A row \in rates \ Current(rate) : row \in rates'
           /\ \A row \in Current(rate) : [row EXCEPT !.to = rate.from] \in rates'
           /\ \A row \in rates' :
                 \/ row = Row(rate, rate.from)
                 \/ row \in rates \ Current(rate)
                 \/ \E old \in Current(rate) : row = [old EXCEPT !.to = rate.from]
           /\ Current(rate) \subseteq rates
           /\ \A row \in rates : row.id # rate.id
           /\ \A row \in Current(rate) : row.last <= rate.from
           /\ rate.from \in Times
           /\ UNCHANGED <<config, conv>>
  <1>1. rate.from \in Times /\ Current(rate) \subseteq rates
    BY ConversionAssumption DEF Current
  <1>2. /\ rates' = (rates \ Current(rate)) \cup {[row EXCEPT !.to = rate.from] : row \in Current(rate)}
                       \cup {Row(rate, rate.from)}
        /\ UNCHANGED <<config, conv>>
        /\ \A row \in Current(rate) : row.last <= rate.from
        /\ \A row \in rates : row.id # rate.id
    BY DEF Poll, IsNew
  <1>3. Row(rate, rate.from) \in Rows
    BY <1>1, NewRow
  <1>4. \A row \in Current(rate) : [row EXCEPT !.to = rate.from] \in Rows
    BY <1>1, ClosedRow
  <1>5. rates' \subseteq Rows
    BY <1>2, <1>3, <1>4
  <1> HIDE DEF Poll
  <1> QED
    BY <1>1, <1>2, <1>5

LEMMA PollKeepsIds ==
    ASSUME NEW rate \in Menu, Poll(rate), rates \subseteq Rows,
           \A r, q \in rates : r.id = q.id => r = q
    PROVE  \A r, q \in rates' : r.id = q.id => r = q
  <1> DEFINE new == Row(rate, rate.from)
             Old(r, old) == /\ old \in rates /\ r.id = old.id
                            /\ r = IF old \in Current(rate) THEN [old EXCEPT !.to = rate.from] ELSE old
  <1>1. /\ \A row \in rates' :
              \/ row = new
              \/ row \in rates \ Current(rate)
              \/ \E old \in Current(rate) : row = [old EXCEPT !.to = rate.from]
        /\ Current(rate) \subseteq rates
        /\ \A row \in rates : row.id # rate.id
        /\ rate.from \in Times
    BY AfterPoll
  <1>2. new.id = rate.id
    BY <1>1, NewRow
  <1>3. ASSUME NEW r \in rates' PROVE r = new \/ \E old : Old(r, old)
    <2>1. ASSUME NEW old \in Current(rate), r = [old EXCEPT !.to = rate.from] PROVE Old(r, old)
      <3>1. old \in rates /\ old \in Rows
        BY <1>1
      <3>2. r.id = old.id
        BY <1>1, <2>1, <3>1, ClosedRow
      <3> QED
        BY <2>1, <3>1, <3>2
    <2>2. ASSUME r \in rates \ Current(rate) PROVE Old(r, r)
      BY <2>2
    <2> QED
      BY <1>1, <2>1, <2>2
  <1>4. ASSUME NEW r \in rates', NEW q \in rates', r.id = q.id PROVE r = q
    <2>1. CASE r = new /\ q = new
      BY <2>1
    <2>2. CASE r = new /\ q # new
      <3>1. PICK old : Old(q, old)
        BY <1>3, <2>2
      <3> QED
        BY <1>1, <1>2, <1>4, <2>2, <3>1
    <2>3. CASE r # new /\ q = new
      <3>1. PICK old : Old(r, old)
        BY <1>3, <2>3
      <3> QED
        BY <1>1, <1>2, <1>4, <2>3, <3>1
    <2>4. CASE r # new /\ q # new
      <3>1. PICK a : Old(r, a)
        BY <1>3, <2>4
      <3>2. PICK b : Old(q, b)
        BY <1>3, <2>4
      <3>3. a = b
        BY <1>4, <3>1, <3>2
      <3> QED
        BY <3>1, <3>2, <3>3
    <2> QED
      BY <2>1, <2>2, <2>3, <2>4
  <1> QED
    BY <1>4

LEMMA AfterPollAgain ==
    ASSUME NEW row \in rates, NEW t \in Times, PollAgain(row, t), rates \subseteq Rows
    PROVE  /\ rates' = (rates \ {row}) \cup {[row EXCEPT !.last = t]}
           /\ rates' \subseteq Rows /\ row.last < t
           /\ row.last # Never /\ row.to = Forever
           /\ UNCHANGED <<config, conv>>
           /\ (\A r, q \in rates : r.id = q.id => r = q) =>
                 \A r, q \in rates' : r.id = q.id => r = q
  <1>1. /\ [row EXCEPT !.last = t] \in Rows
        /\ [row EXCEPT !.last = t].id = row.id
    BY SeenRow
  <1>2. /\ rates' = (rates \ {row}) \cup {[row EXCEPT !.last = t]}
        /\ row.last < t /\ row.last # Never /\ row.to = Forever
        /\ UNCHANGED <<config, conv>>
    BY DEF PollAgain, IsPolled
  <1> QED
    BY <1>1, <1>2

LEMMA AfterBackfill ==
    ASSUME NEW rate \in Menu, Backfill(rate), rates \subseteq Rows
    PROVE  /\ rates' = rates \cup {Row(rate, Never)}
           /\ rates' \subseteq Rows
           /\ \A row \in rates : row.id # rate.id
           /\ UNCHANGED <<config, conv>>
           /\ (\A r, q \in rates : r.id = q.id => r = q) =>
                 \A r, q \in rates' : r.id = q.id => r = q
  <1>1. Row(rate, Never) \in Rows /\ Row(rate, Never).id = rate.id
    BY NewRow
  <1> QED
    BY <1>1 DEF Backfill, IsNew

\* The actions of the ingestion service, as one.
Write == \/ \E rate \in Menu : Poll(rate) \/ Backfill(rate)
         \/ \E row \in rates, t \in Times : PollAgain(row, t)

LEMMA WritesKeepTypes ==
    ASSUME Typed, Write
    PROVE  /\ UNCHANGED <<config, conv>>
           /\ rates' \subseteq Rows
           /\ \A r, q \in rates' : r.id = q.id => r = q
  <1>1. rates \subseteq Rows /\ \A r, q \in rates : r.id = q.id => r = q
    BY DEF Typed, TypeOK
  <1>2. ASSUME NEW rate \in Menu, Poll(rate)
        PROVE  /\ UNCHANGED <<config, conv>> /\ rates' \subseteq Rows
               /\ \A r, q \in rates' : r.id = q.id => r = q
    <2>1. UNCHANGED <<config, conv>> /\ rates' \subseteq Rows
      BY <1>1, <1>2, AfterPoll
    <2>2. \A r, q \in rates' : r.id = q.id => r = q
      BY <1>1, <1>2, PollKeepsIds
    <2> QED
      BY <2>1, <2>2
  <1>3. ASSUME NEW rate \in Menu, Backfill(rate)
        PROVE  /\ UNCHANGED <<config, conv>> /\ rates' \subseteq Rows
               /\ \A r, q \in rates' : r.id = q.id => r = q
    BY <1>1, <1>3, AfterBackfill
  <1>4. ASSUME NEW row \in rates, NEW t \in Times, PollAgain(row, t)
        PROVE  /\ UNCHANGED <<config, conv>> /\ rates' \subseteq Rows
               /\ \A r, q \in rates' : r.id = q.id => r = q
    BY <1>1, <1>4, AfterPollAgain
  <1> QED
    BY <1>2, <1>3, <1>4 DEF Write

LEMMA InitTyped == Init => Typed
  BY DEF Init, Typed, TypeOK

\* What the search may do from a typed state.
LEMMA Searching ==
    ASSUME Typed, conv.pc = "running"
    PROVE  /\ conv \in Searches
           /\ conv.pivot \in 0..Len(Pivots(conv.goal)) /\ Len(Pivots(conv.goal)) \in Nat
           /\ Probes(conv.goal, conv.tier) \in Nat
           /\ Len(conv.half) = 0 \/ (Len(conv.half) = 1 /\ conv.pivot > 0)
           /\ Len(conv.half) = 0 <=> conv.half = <<>>
           /\ conv.path = <<>>
           /\ conv.goal \in Goals /\ conv.tier \in {"fresh", "closest"}
  <1>1. conv \in Searches /\ conv.path = <<>>
    BY DEF Typed
  <1>2. conv.half \in Seq(Steps) /\ conv.pivot \in Nat
    BY <1>1 DEF Searches
  <1>3. Len(conv.half) \in Nat /\ (Len(conv.half) = 0 <=> conv.half = <<>>)
    BY <1>2, LenProperties, EmptySeq
  <1>4. Len(conv.half) <= IF conv.pivot > 0 THEN 1 ELSE 0
    BY DEF Typed, TypeOK
  <1>5. Len(conv.half) = 0 \/ (Len(conv.half) = 1 /\ conv.pivot > 0)
    <2>1. conv.pivot > 0 => Len(conv.half) <= 1
      BY <1>4
    <2>2. ~(conv.pivot > 0) => Len(conv.half) <= 0
      BY <1>4
    <2> DEFINE size == Len(conv.half)
    <2>3. size \in Nat
      BY <1>3
    <2> HIDE DEF size
    <2>4. CASE conv.pivot > 0
      <3>1. size <= 1
        BY <2>1, <2>4 DEF size
      <3>2. size = 0 \/ size = 1
        BY <2>3, <3>1
      <3> QED
        BY <2>4, <3>2 DEF size
    <2>5. CASE ~(conv.pivot > 0)
      <3>1. size <= 0
        BY <2>2, <2>5 DEF size
      <3>2. size = 0
        BY <2>3, <3>1
      <3> QED
        BY <3>2 DEF size
    <2> QED
      BY <2>4, <2>5
  <1>6. config \in Configs /\ conv.pivot \in 0..Len(Pivots(conv.goal))
        /\ conv.goal \in Goals /\ conv.tier \in {"fresh", "closest"}
    BY DEF Typed, TypeOK
  <1>7. Len(Pivots(conv.goal)) \in Nat
    BY <1>6, PivotsAreSequence
  <1>8. ChainAfter(conv.goal.entry) \in Seq(DOMAIN config)
    BY <1>6, ChainIs
  <1>9. Len(ChainAfter(conv.goal.entry)) \in Nat
    BY <1>8, LenProperties
  <1>10. Probes(conv.goal, conv.tier) \in Nat
    BY <1>9 DEF Probes
  <1> QED
    BY <1>1, <1>3, <1>5, <1>6, <1>7, <1>10

\* How a record of the search changes.
LEMMA ConvTypes ==
    ASSUME Typed, UNCHANGED <<config, rates>>, conv'.pc # "waiting",
           conv' \in Searches,
           conv'.goal = conv.goal,
           conv'.pivot \in 0..Len(Pivots(conv.goal)),
           Len(conv'.half) <= IF conv'.pivot > 0 THEN 1 ELSE 0,
           conv'.probe = 1 \/ conv'.probe \in 1..Probes(conv.goal, conv'.tier),
           Len(conv'.path) <= 2,
           \A n \in DOMAIN conv'.half : conv'.half[n].tier = conv'.tier,
           \A n \in DOMAIN conv'.path : conv'.path[n].tier = conv'.tier,
           conv'.pc = "running" => conv'.path = <<>>
    PROVE  Typed'
  <1>1. /\ config' \in Configs /\ rates' \subseteq Rows
        /\ \A r, q \in rates' : r.id = q.id => r = q
    BY DEF Typed, TypeOK
  <1>2. /\ conv'.goal \in Goals /\ conv'.tier \in {"fresh", "closest"}
        /\ conv'.half \in Seq(Steps) /\ conv'.path \in Seq(Steps) /\ conv'.before \subseteq Rows
        /\ conv'.pc \in {"waiting", "running", "failed", "done"}
    BY DEF Searches
  <1>3. Pivots(conv.goal)' = Pivots(conv'.goal)
    BY SamePivots
  <1>4. Probes(conv.goal, conv.tier)' = Probes(conv'.goal, conv'.tier)
    BY SameProbes
  <1>5. conv'.pivot \in 0..Len(Pivots(conv.goal)')
    BY <1>3
  <1>6. conv'.probe = 1 \/ conv'.probe \in 1..Probes(conv.goal, conv.tier)'
    BY <1>4
  <1>7. TypeOK'
    BY <1>1, <1>2, <1>5, <1>6 DEF TypeOK
  <1> QED
    BY <1>7 DEF Typed, Searches

LEMMA TypedConvert ==
    ASSUME Typed, NEW goal \in Goals, Convert(goal)
    PROVE  Typed'
  <1>1. /\ conv'.pc \in {"running", "failed", "done"}
        /\ conv' = [pc |-> conv'.pc, goal |-> goal, tier |-> "fresh", pivot |-> 0, half |-> <<>>,
                    probe |-> 1, path |-> <<>>, before |-> rates]
        /\ UNCHANGED <<config, rates>>
    BY DEF Convert
  <1>2. config \in Configs /\ rates \subseteq Rows /\ \A r, q \in rates : r.id = q.id => r = q
    BY DEF Typed, TypeOK
  <1>3. <<>> \in Seq(Steps) /\ Len(<<>>) = 0 /\ DOMAIN <<>> = {}
    OBVIOUS
  <1>4. conv' \in Searches
    <2> DEFINE none == <<>>
    <2>1. conv' = [pc |-> conv'.pc, goal |-> goal, tier |-> "fresh", pivot |-> 0, half |-> none,
                   probe |-> 1, path |-> none, before |-> rates]
      BY <1>1
    <2>2. none \in Seq(Steps) /\ rates \in SUBSET Rows
      BY <1>2, <1>3
    <2> HIDE DEF none
    <2> QED
      BY <1>1, <2>1, <2>2 DEF Searches
  <1>5. Len(Pivots(goal)) \in Nat
    BY <1>2, PivotsAreSequence
  <1>6. Pivots(conv.goal)' = Pivots(goal)
    BY <1>1, SamePivots
  <1>7. conv'.pivot \in 0..Len(Pivots(conv.goal)')
    BY <1>1, <1>5, <1>6
  <1>8. /\ conv'.goal = goal /\ conv'.tier = "fresh" /\ conv'.probe = 1
        /\ conv'.half = <<>> /\ conv'.path = <<>>
    BY <1>1
  <1>9. /\ conv'.goal \in Goals /\ conv'.tier \in {"fresh", "closest"}
        /\ conv'.half \in Seq(Steps) /\ conv'.path \in Seq(Steps) /\ conv'.before \subseteq Rows
        /\ conv'.pc \in {"waiting", "running", "failed", "done"}
    BY <1>4 DEF Searches
  <1>10. /\ Len(conv'.half) <= IF conv'.pivot > 0 THEN 1 ELSE 0
         /\ Len(conv'.path) <= 2 /\ DOMAIN conv'.path = {} /\ DOMAIN conv'.half = {}
    BY <1>3, <1>8
  <1>11. TypeOK'
    BY <1>1, <1>2, <1>7, <1>8, <1>9, <1>10 DEF TypeOK
  <1> QED
    BY <1>4, <1>8, <1>10, <1>11 DEF Typed

\* One field of a search after another.
LEMMA NewHalf ==
    ASSUME NEW c \in Searches, NEW half \in Seq(Steps)
    PROVE  [c EXCEPT !.half = half] \in Searches
  BY DEF Searches

LEMMA FirstProbe ==
    ASSUME NEW c \in Searches
    PROVE  [c EXCEPT !.probe = 1] \in Searches
  BY DEF Searches

LEMMA NewPivot ==
    ASSUME NEW c \in Searches, NEW pivot \in Nat
    PROVE  [c EXCEPT !.pivot = pivot] \in Searches
  BY DEF Searches

LEMMA NewTier ==
    ASSUME NEW c \in Searches, NEW tier \in {"fresh", "closest"}
    PROVE  [c EXCEPT !.tier = tier] \in Searches
  BY DEF Searches

\* All that a search begins again with.
LEMMA SearchGoesOn ==
    ASSUME conv \in Searches, NEW half \in Seq(Steps), NEW pivot \in Nat,
           NEW tier \in {"fresh", "closest"}
    PROVE  /\ [conv EXCEPT !.half = half, !.probe = 1] \in Searches
           /\ [conv EXCEPT !.pivot = pivot, !.half = half, !.probe = 1] \in Searches
           /\ [conv EXCEPT !.tier = tier, !.pivot = pivot, !.half = half, !.probe = 1] \in Searches
  <1>1. ASSUME NEW c \in Searches
        PROVE  [c EXCEPT !.half = half, !.probe = 1] \in Searches
    <2> DEFINE d == [c EXCEPT !.half = half]
    <2>1. d \in Searches
      BY NewHalf
    <2>2. [c EXCEPT !.half = half, !.probe = 1] = [d EXCEPT !.probe = 1]
      OBVIOUS
    <2> HIDE DEF d
    <2>3. [d EXCEPT !.probe = 1] \in Searches
      BY <2>1, FirstProbe
    <2> QED
      BY <2>2, <2>3
  <1>2. ASSUME NEW c \in Searches
        PROVE  [c EXCEPT !.pivot = pivot, !.half = half, !.probe = 1] \in Searches
    <2> DEFINE d == [c EXCEPT !.pivot = pivot]
    <2>1. d \in Searches
      BY NewPivot
    <2>2. [c EXCEPT !.pivot = pivot, !.half = half, !.probe = 1]
            = [d EXCEPT !.half = half, !.probe = 1]
      OBVIOUS
    <2> HIDE DEF d
    <2> QED
      BY <1>1, <2>1, <2>2
  <1>3. [conv EXCEPT !.tier = tier, !.pivot = pivot, !.half = half, !.probe = 1] \in Searches
    <2> DEFINE d == [conv EXCEPT !.tier = tier]
    <2>1. d \in Searches
      BY NewTier
    <2>2. [conv EXCEPT !.tier = tier, !.pivot = pivot, !.half = half, !.probe = 1]
            = [d EXCEPT !.pivot = pivot, !.half = half, !.probe = 1]
      OBVIOUS
    <2> HIDE DEF d
    <2> QED
      BY <1>2, <2>1, <2>2
  <1> QED
    BY <1>1, <1>2, <1>3

LEMMA TypedFindRate ==
    ASSUME Typed, FindRate
    PROVE  Typed'
  <1>1. /\ conv \in Searches
        /\ conv.pivot \in 0..Len(Pivots(conv.goal)) /\ Len(Pivots(conv.goal)) \in Nat
        /\ Len(conv.half) = 0 \/ (Len(conv.half) = 1 /\ conv.pivot > 0)
        /\ Len(conv.half) = 0 <=> conv.half = <<>>
        /\ conv.path = <<>> /\ conv.pc = "running"
    BY Searching DEF FindRate
  <1>2. PICK step \in Found :
           conv' = IF conv.pivot > 0 /\ conv.half = <<>>
                   THEN [conv EXCEPT !.half = <<step>>, !.probe = 1]
                   ELSE [conv EXCEPT !.pc = "done", !.path = conv.half \o <<step>>]
    BY DEF FindRate
  <1>3. step \in Steps /\ step.tier = conv.tier
    BY <1>1, FoundTypes DEF Typed
  <1>4. /\ <<step>> \in Seq(Steps) /\ Len(<<step>>) = 1 /\ DOMAIN <<step>> = {1}
        /\ <<step>>[1] = step
    BY <1>3
  <1>5. UNCHANGED <<config, rates>>
    BY DEF FindRate
  <1>6. CASE conv.pivot > 0 /\ conv.half = <<>>
    <2>1. conv' = [conv EXCEPT !.half = <<step>>, !.probe = 1]
      BY <1>2, <1>6
    <2>2. conv' \in Searches
      <3> DEFINE half == <<step>>
      <3>1. half \in Seq(Steps) /\ conv' = [conv EXCEPT !.half = half, !.probe = 1]
        BY <1>4, <2>1
      <3> HIDE DEF half
      <3> QED
        BY <1>1, <3>1, SearchGoesOn
    <2>3. /\ conv'.pc = "running" /\ conv'.goal = conv.goal /\ conv'.pivot = conv.pivot
          /\ conv'.tier = conv.tier /\ conv'.half = <<step>> /\ conv'.probe = 1
          /\ conv'.path = conv.path
      BY <1>1, <2>1 DEF Searches
    <2>4. Len(conv'.path) = 0 /\ DOMAIN conv'.path = {}
      BY <1>1, <2>3
    <2>5. Len(conv'.half) = 1 /\ \A n \in DOMAIN conv'.half : conv'.half[n].tier = conv'.tier
      BY <1>3, <1>4, <2>3
    <2> QED
      BY <1>1, <1>5, <1>6, <2>2, <2>3, <2>4, <2>5, ConvTypes
  <1>7. CASE ~(conv.pivot > 0 /\ conv.half = <<>>)
    <2> DEFINE path == conv.half \o <<step>>
    <2>1. conv' = [conv EXCEPT !.pc = "done", !.path = path]
      BY <1>2, <1>7
    <2>2. conv.half \in Seq(Steps)
      BY <1>1 DEF Searches
    <2>3. /\ path \in Seq(Steps) /\ Len(path) = Len(conv.half) + 1
          /\ \A n \in 1..Len(path) : path[n] = IF n <= Len(conv.half) THEN conv.half[n] ELSE step
      <3>1. /\ path \in Seq(Steps)
            /\ Len(path) = Len(conv.half) + Len(<<step>>)
            /\ \A n \in 1..(Len(conv.half) + Len(<<step>>)) :
                  path[n] = IF n <= Len(conv.half) THEN conv.half[n] ELSE <<step>>[n - Len(conv.half)]
        BY <1>4, <2>2, ConcatProperties
      <3>2. Len(conv.half) \in Nat
        BY <2>2, LenProperties
      <3> HIDE DEF path
      <3>3. ASSUME NEW n \in 1..Len(path), ~(n <= Len(conv.half)) PROVE n - Len(conv.half) = 1
        BY <1>4, <3>1, <3>2, <3>3
      <3> QED
        BY <1>4, <3>1, <3>2, <3>3
    <2>4. Len(path) <= 2
      <3>1. Len(conv.half) = 0 \/ Len(conv.half) = 1
        BY <1>1
      <3>2. Len(path) = Len(conv.half) + 1
        BY <2>3
      <3> DEFINE n == Len(conv.half)
                 m == Len(path)
      <3>3. (n = 0 \/ n = 1) /\ m = n + 1
        BY <3>1, <3>2
      <3> HIDE DEF n, m
      <3>4. m <= 2
        BY <3>3
      <3> QED
        BY <3>4 DEF m
    <2>5. \A n \in DOMAIN path : path[n].tier = conv.tier
      <3>1. \A n \in DOMAIN conv.half : conv.half[n].tier = conv.tier
        BY <1>1 DEF Typed
      <3>2. DOMAIN path = 1..Len(path) /\ DOMAIN conv.half = 1..Len(conv.half) /\ Len(conv.half) \in Nat
        BY <2>2, <2>3, LenProperties
      <3> HIDE DEF path
      <3> QED
        BY <1>3, <2>3, <3>1, <3>2
    <2> HIDE DEF path
    <2>6. conv' \in Searches
      BY <1>1, <2>1, <2>3 DEF Searches
    <2>7. /\ conv'.pc = "done" /\ conv'.goal = conv.goal /\ conv'.pivot = conv.pivot
          /\ conv'.tier = conv.tier /\ conv'.half = conv.half /\ conv'.probe = conv.probe
          /\ conv'.path = path
      BY <1>1, <2>1 DEF Searches
    <2>8. /\ Len(conv.half) <= IF conv.pivot > 0 THEN 1 ELSE 0
          /\ conv.probe = 1 \/ conv.probe \in 1..Probes(conv.goal, conv.tier)
          /\ \A n \in DOMAIN conv.half : conv.half[n].tier = conv.tier
      BY <1>1 DEF Typed, TypeOK
    <2> QED
      BY <1>1, <1>5, <2>4, <2>5, <2>6, <2>7, <2>8, ConvTypes
  <1> QED
    BY <1>6, <1>7

LEMMA TypedAdvance ==
    ASSUME Typed, NextProbe \/ NextPivot \/ NextTier
    PROVE  Typed'
  <1>1. /\ conv \in Searches
        /\ conv.pivot \in 0..Len(Pivots(conv.goal)) /\ Len(Pivots(conv.goal)) \in Nat
        /\ Probes(conv.goal, conv.tier) \in Nat
        /\ conv.path = <<>> /\ conv.pc = "running"
        /\ conv.probe \in Nat \ {0}
        /\ Len(conv.path) = 0 /\ DOMAIN conv.path = {}
    BY Searching DEF NextProbe, NextPivot, NextTier, Searches
  <1>2. <<>> \in Seq(Steps) /\ Len(<<>>) = 0 /\ DOMAIN <<>> = {}
    OBVIOUS
  <1>3. UNCHANGED <<config, rates>>
    BY DEF NextProbe, NextPivot, NextTier
  <1>4. /\ Len(conv.half) <= IF conv.pivot > 0 THEN 1 ELSE 0
        /\ conv.probe = 1 \/ conv.probe \in 1..Probes(conv.goal, conv.tier)
        /\ \A n \in DOMAIN conv.half : conv.half[n].tier = conv.tier
    BY <1>1 DEF Typed, TypeOK
  <1>5. CASE NextProbe
    <2>1. conv' = [conv EXCEPT !.probe = conv.probe + 1] /\ conv.probe < Probes(conv.goal, conv.tier)
      BY <1>1, <1>5 DEF NextProbe, LastProbe
    <2>2. conv' \in Searches
      BY <1>1, <2>1 DEF Searches
    <2>3. /\ conv'.pc = "running" /\ conv'.goal = conv.goal /\ conv'.pivot = conv.pivot
          /\ conv'.tier = conv.tier /\ conv'.half = conv.half /\ conv'.probe = conv.probe + 1
          /\ conv'.path = conv.path
      BY <1>1, <2>1 DEF Searches
    <2>4. conv'.probe \in 1..Probes(conv.goal, conv'.tier)
      BY <1>1, <2>1, <2>3
    <2> QED
      BY <1>1, <1>3, <1>4, <2>2, <2>3, <2>4, ConvTypes
  <1>6. CASE NextPivot
    <2>1. /\ conv' = [conv EXCEPT !.pivot = conv.pivot + 1, !.half = <<>>, !.probe = 1]
          /\ conv.pivot < Len(Pivots(conv.goal))
      BY <1>6 DEF NextPivot
    <2>2. conv' \in Searches
      <3> DEFINE none == <<>>
      <3>1. none \in Seq(Steps) /\ conv.pivot + 1 \in Nat
        BY <1>1, <1>2
      <3>2. conv' = [conv EXCEPT !.pivot = conv.pivot + 1, !.half = none, !.probe = 1]
        BY <2>1
      <3> HIDE DEF none
      <3> QED
        BY <1>1, <3>1, <3>2, SearchGoesOn
    <2>3. /\ conv'.pc = "running" /\ conv'.goal = conv.goal /\ conv'.pivot = conv.pivot + 1
          /\ conv'.tier = conv.tier /\ conv'.half = <<>> /\ conv'.probe = 1
          /\ conv'.path = conv.path
      BY <1>1, <2>1 DEF Searches
    <2>4. conv'.pivot \in 0..Len(Pivots(conv.goal)) /\ conv'.pivot > 0
      BY <1>1, <2>1, <2>3
    <2> QED
      BY <1>1, <1>2, <1>3, <2>2, <2>3, <2>4, ConvTypes
  <1>7. CASE NextTier /\ conv.tier = "closest"
    <2>1. conv' = [conv EXCEPT !.pc = "done"]
      BY <1>7 DEF NextTier
    <2>2. conv' \in Searches
      BY <1>1, <2>1 DEF Searches
    <2>3. /\ conv'.pc = "done" /\ conv'.goal = conv.goal /\ conv'.pivot = conv.pivot
          /\ conv'.tier = conv.tier /\ conv'.half = conv.half /\ conv'.probe = conv.probe
          /\ conv'.path = conv.path
      BY <1>1, <2>1 DEF Searches
    <2> QED
      BY <1>1, <1>3, <1>4, <2>2, <2>3, ConvTypes
  <1>8. CASE NextTier /\ conv.tier # "closest"
    <2>1. conv' = [conv EXCEPT !.tier = "closest", !.pivot = 0, !.half = <<>>, !.probe = 1]
      BY <1>8 DEF NextTier
    <2>2. conv' \in Searches
      <3> DEFINE none == <<>>
      <3>1. none \in Seq(Steps)
        BY <1>2
      <3>2. conv' = [conv EXCEPT !.tier = "closest", !.pivot = 0, !.half = none, !.probe = 1]
        BY <2>1
      <3> HIDE DEF none
      <3> QED
        BY <1>1, <3>1, <3>2, SearchGoesOn
    <2>3. /\ conv'.pc = "running" /\ conv'.goal = conv.goal /\ conv'.pivot = 0
          /\ conv'.tier = "closest" /\ conv'.half = <<>> /\ conv'.probe = 1
          /\ conv'.path = conv.path
      BY <1>1, <2>1 DEF Searches
    <2>4. conv'.pivot \in 0..Len(Pivots(conv.goal))
      BY <1>1, <2>3
    <2> QED
      BY <1>1, <1>2, <1>3, <2>2, <2>3, <2>4, ConvTypes
  <1> QED
    BY <1>5, <1>6, <1>7, <1>8

LEMMA TypedWrite ==
    ASSUME Typed, Write
    PROVE  Typed'
  <1>1. /\ UNCHANGED <<config, conv>> /\ rates' \subseteq Rows
        /\ \A r, q \in rates' : r.id = q.id => r = q
    BY WritesKeepTypes
  <1>2. /\ Pivots(conv.goal)' = Pivots(conv.goal)
        /\ Probes(conv.goal, conv.tier)' = Probes(conv.goal, conv.tier)
    BY <1>1, SamePivots, SameProbes
  <1>3. TypeOK'
    BY <1>1, <1>2 DEF Typed, TypeOK
  <1> QED
    BY <1>1, <1>3 DEF Typed

LEMMA TypedNext == Typed /\ [Next]_vars => Typed'
  <1>1. ASSUME Typed, UNCHANGED vars PROVE Typed'
    <2>1. config' = config /\ rates' = rates /\ conv' = conv
      BY <1>1 DEF vars
    <2>2. /\ Pivots(conv.goal)' = Pivots(conv.goal)
          /\ Probes(conv.goal, conv.tier)' = Probes(conv.goal, conv.tier)
      BY <2>1, SamePivots, SameProbes
    <2>3. TypeOK'
      BY <1>1, <2>1, <2>2 DEF Typed, TypeOK
    <2> QED
      BY <1>1, <2>1, <2>3 DEF Typed
  <1> QED
    BY <1>1, TypedConvert, TypedFindRate, TypedAdvance, TypedWrite DEF Next, Write

\* The types, and the shape of the search: half a path only at a pivot, a statement of the
\* leg that exists, at most two steps and these of one tier.
THEOREM ConversionTypesHold == Spec => []TypeOK
  <1>1. Typed => TypeOK
    BY DEF Typed
  <1> QED
    BY <1>1, InitTyped, TypedNext, PTL DEF Spec

-----------------------------------------------------------------------------
(* Amounts. *)

LEMMA MoreOfMore ==
    ASSUME NEW a \in Nat, NEW b \in Nat, NEW r \in Nat, NEW s \in Nat, a <= b, r <= s
    PROVE  a * r <= b * s
  <1>1. a * r <= b * r
    BY SMT
  <1>2. b * r <= b * s
    BY SMT
  <1>3. a * r \in Nat /\ b * r \in Nat /\ b * s \in Nat
    OBVIOUS
  <1> QED
    BY <1>1, <1>2, <1>3

\* Rounding preserves the order of fractions.
LEMMA RoundingIsMonotonic ==
    ASSUME NEW n \in Nat, NEW m \in Nat, NEW d \in Nat \ {0}, NEW e \in Nat \ {0}, n <= m, e <= d
    PROVE  RoundHalfUp(n, d) <= RoundHalfUp(m, e)
  <1> DEFINE q == (2 * n + d) \div (2 * d)
             p == (2 * m + e) \div (2 * e)
  <1>1. q \in Nat /\ q * (2 * d) <= 2 * n + d
    BY SMT
  <1>2. p \in Nat /\ 2 * m + e < (p + 1) * (2 * e)
    BY SMT
  <1> HIDE DEF q, p
  <1>3. ASSUME p < q PROVE FALSE
    <2>1. q >= 1 /\ q >= p + 1
      BY <1>1, <1>2, <1>3
    <2>2. (2 * q - 1) * d <= 2 * n
      <3>1. q * (2 * d) = (2 * q) * d /\ (2 * q - 1) * d = (2 * q) * d - d
        BY <1>1, SMT
      <3>2. (2 * q) * d \in Nat
        BY <1>1
      <3> QED
        BY <1>1, <3>1, <3>2
    <2>3. (2 * q - 1) * e <= (2 * q - 1) * d
      BY <1>1, <2>1, MoreOfMore
    <2>4. (p + 1) * (2 * e) <= q * (2 * e)
      BY <1>1, <1>2, <2>1, MoreOfMore
    <2>5. q * (2 * e) = (2 * q - 1) * e + e
      BY <1>1, SMT
    <2>6. /\ (2 * q - 1) * e \in Int /\ (2 * q - 1) * d \in Int
          /\ (p + 1) * (2 * e) \in Int /\ q * (2 * e) \in Int
      BY <1>1, <1>2
    <2> QED
      BY <1>2, <2>2, <2>3, <2>4, <2>5, <2>6
  <1>4. q <= p
    BY <1>1, <1>2, <1>3
  <1> QED
    BY <1>4 DEF RoundHalfUp, q, p

\* What a step multiplies by, and what it divides by.
Factor(step) == IF step.divide THEN 1 ELSE step.rate
Divisor(step) == IF step.divide THEN step.rate ELSE 1

LEMMA OneStep ==
    ASSUME NEW path, Len(path) = 1, NEW amount \in Nat, path[1].rate \in Nat
    PROVE  Numerator(path, amount) = amount * Factor(path[1]) /\ Denominator(path) = Divisor(path[1])
  <1>1. Numerator(path, amount) = amount * Factor(path[1])
    <2> DEFINE Is(f) == f = [n \in 0..Len(path) |->
                               IF n = 0 THEN amount
                               ELSE IF path[n].divide THEN f[n - 1] ELSE f[n - 1] * path[n].rate]
               one == IF path[1].divide THEN amount ELSE amount * path[1].rate
               product == [n \in 0..1 |-> IF n = 0 THEN amount ELSE one]
               after == CHOOSE f : Is(f)
    <2>1. Is(product)
      BY SMT
    <2>2. Is(after)
      <3> HIDE DEF Is, product
      <3> QED
        BY <2>1
    <2>3. Numerator(path, amount) = after[1]
      BY DEF Numerator
    <2> HIDE DEF after
    <2>4. after[0] = amount
      BY <2>2
    <2>5. after[1] = one
      BY <2>2, <2>4
    <2> QED
      BY <2>3, <2>5 DEF Factor
  <1>2. Denominator(path) = Divisor(path[1])
    <2> DEFINE Is(f) == f = [n \in 0..Len(path) |->
                               IF n = 0 THEN 1
                               ELSE IF path[n].divide THEN f[n - 1] * path[n].rate ELSE f[n - 1]]
               one == IF path[1].divide THEN 1 * path[1].rate ELSE 1
               product == [n \in 0..1 |-> IF n = 0 THEN 1 ELSE one]
               after == CHOOSE f : Is(f)
    <2>1. Is(product)
      BY SMT
    <2>2. Is(after)
      <3> HIDE DEF Is, product
      <3> QED
        BY <2>1
    <2>3. Denominator(path) = after[1]
      BY DEF Denominator
    <2> HIDE DEF after
    <2>4. after[0] = 1
      BY <2>2
    <2>5. after[1] = one
      BY <2>2, <2>4
    <2> QED
      BY <2>3, <2>5 DEF Divisor
  <1> QED
    BY <1>1, <1>2

LEMMA TwoSteps ==
    ASSUME NEW path, Len(path) = 2, NEW amount \in Nat, path[1].rate \in Nat, path[2].rate \in Nat
    PROVE  /\ Numerator(path, amount) = (amount * Factor(path[1])) * Factor(path[2])
           /\ Denominator(path) = Divisor(path[1]) * Divisor(path[2])
  <1>1. Numerator(path, amount) = (amount * Factor(path[1])) * Factor(path[2])
    <2> DEFINE Is(f) == f = [n \in 0..Len(path) |->
                               IF n = 0 THEN amount
                               ELSE IF path[n].divide THEN f[n - 1] ELSE f[n - 1] * path[n].rate]
               one == IF path[1].divide THEN amount ELSE amount * path[1].rate
               two == IF path[2].divide THEN one ELSE one * path[2].rate
               product == [n \in 0..2 |-> IF n = 0 THEN amount ELSE IF n = 1 THEN one ELSE two]
               after == CHOOSE f : Is(f)
    <2>1. Is(product)
      BY SMT
    <2>2. Is(after)
      <3> HIDE DEF Is, product
      <3> QED
        BY <2>1
    <2>3. Numerator(path, amount) = after[2]
      BY DEF Numerator
    <2> HIDE DEF after
    <2>4. after[0] = amount
      BY <2>2
    <2>5. after[1] = one
      BY <2>2, <2>4
    <2>6. after[2] = two
      <3> HIDE DEF one
      <3> QED
        BY <2>2, <2>5
    <2>7. one \in Nat /\ one = amount * Factor(path[1])
      BY DEF Factor
    <2>8. two = one * Factor(path[2])
      <3> HIDE DEF one
      <3> QED
        BY <2>7 DEF Factor
    <2> QED
      BY <2>3, <2>6, <2>7, <2>8
  <1>2. Denominator(path) = Divisor(path[1]) * Divisor(path[2])
    <2> DEFINE Is(f) == f = [n \in 0..Len(path) |->
                               IF n = 0 THEN 1
                               ELSE IF path[n].divide THEN f[n - 1] * path[n].rate ELSE f[n - 1]]
               one == IF path[1].divide THEN 1 * path[1].rate ELSE 1
               two == IF path[2].divide THEN one * path[2].rate ELSE one
               product == [n \in 0..2 |-> IF n = 0 THEN 1 ELSE IF n = 1 THEN one ELSE two]
               after == CHOOSE f : Is(f)
    <2>1. Is(product)
      BY SMT
    <2>2. Is(after)
      <3> HIDE DEF Is, product
      <3> QED
        BY <2>1
    <2>3. Denominator(path) = after[2]
      BY DEF Denominator
    <2> HIDE DEF after
    <2>4. after[0] = 1
      BY <2>2
    <2>5. after[1] = one
      BY <2>2, <2>4
    <2>6. after[2] = two
      <3> HIDE DEF one
      <3> QED
        BY <2>2, <2>5
    <2>7. one \in Nat /\ one = Divisor(path[1])
      BY DEF Divisor
    <2>8. two = one * Divisor(path[2])
      <3> HIDE DEF one
      <3> QED
        BY <2>7 DEF Divisor
    <2> QED
      BY <2>3, <2>6, <2>7, <2>8
  <1> QED
    BY <1>1, <1>2

\* A step of a bank that straddles the middle rate, next to the same step at that rate.
LEMMA PickedIsWorse ==
    ASSUME NEW step \in Steps, Straddles(step.row)
    PROVE  LET middle == [step EXCEPT !.rate = step.row.mid]
           IN  /\ step.rate \in Nat /\ middle.rate \in Nat \ {0}
               /\ Factor(step) \in Nat /\ Factor(middle) \in Nat
               /\ Factor(step) <= Factor(middle)
               /\ Divisor(step) \in Nat \ {0} /\ Divisor(middle) \in Nat \ {0}
               /\ Divisor(middle) <= Divisor(step)
  <1>1. PICK row \in Rows, divide \in BOOLEAN, tier \in {"fresh", "closest"} :
           step = Step(row, divide, tier)
    BY DEF Steps
  <1> DEFINE middle == [step EXCEPT !.rate = step.row.mid]
  <1>2. /\ step.row = row /\ step.divide = divide /\ step.rate = PickRate(row, divide)
        /\ middle.divide = divide /\ middle.rate = row.mid
    BY <1>1 DEF Step
  <1>3. row.mid \in Nat \ {0} /\ row.buy \in Nat \cup {Null} /\ row.sell \in Nat \cup {Null}
    BY RowTypes
  <1>4. /\ row.buy # Null => row.buy <= row.mid
        /\ row.sell # Null => row.mid <= row.sell
    BY <1>2 DEF Straddles
  <1>5. /\ PickRate(row, divide) \in Nat
        /\ divide => row.mid <= PickRate(row, divide)
        /\ ~divide => PickRate(row, divide) <= row.mid
    BY <1>3, <1>4 DEF PickRate, Null
  <1> HIDE DEF middle
  <1>6. /\ step.rate \in Nat /\ middle.rate \in Nat \ {0}
        /\ step.divide = divide /\ middle.divide = divide
        /\ divide => middle.rate <= step.rate
        /\ ~divide => step.rate <= middle.rate
    BY <1>2, <1>3, <1>5
  <1>7. /\ Factor(step) \in Nat /\ Factor(middle) \in Nat
        /\ Factor(step) <= Factor(middle)
    BY <1>6 DEF Factor
  <1>8. /\ Divisor(step) \in Nat \ {0} /\ Divisor(middle) \in Nat \ {0}
        /\ Divisor(middle) <= Divisor(step)
    BY <1>6 DEF Divisor
  <1> QED
    BY <1>6, <1>7, <1>8 DEF middle

LEMMA PathNeverOverstates == Typed => NeverOverstates
  <1> SUFFICES ASSUME Typed, Searched, conv.path # <<>>,
                      \A n \in DOMAIN conv.path : Straddles(conv.path[n].row)
               PROVE  LET middle == [n \in DOMAIN conv.path |->
                                       [conv.path[n] EXCEPT !.rate = conv.path[n].row.mid]]
                      IN  Converted(conv.path, conv.goal.amount)
                            <= Converted(middle, conv.goal.amount)
    BY DEF NeverOverstates
  <1> DEFINE path == conv.path
             middle == [n \in DOMAIN path |-> [path[n] EXCEPT !.rate = path[n].row.mid]]
             amount == conv.goal.amount
  <1>1. path \in Seq(Steps) /\ Len(path) <= 2 /\ path # <<>> /\ amount \in Nat
    BY ConversionAssumption DEF Typed, TypeOK, Searched
  <1>2. /\ Len(path) \in Nat /\ DOMAIN path = 1..Len(path)
        /\ \A n \in 1..Len(path) : path[n] \in Steps
        /\ Len(path) # 0
    BY <1>1, LenProperties, ElementOfSeq, EmptySeq
  <1>3. \A n \in 1..Len(path) : Straddles(path[n].row)
    BY <1>2
  <1>4. Len(middle) = Len(path)
    <2> DEFINE steps == {middle[n] : n \in 1..Len(path)}
    <2>1. middle \in [1..Len(path) -> steps]
      BY <1>2
    <2>2. middle \in Seq(steps)
      <3> HIDE DEF middle, path, steps
      <3> QED
        BY <1>2, <2>1, SeqDef
    <2>3. DOMAIN middle = 1..Len(path)
      BY <1>2
    <2>4. DOMAIN middle = 1..Len(middle) /\ Len(middle) \in Nat
      <3> HIDE DEF middle, path, steps
      <3> QED
        BY <2>2, LenProperties
    <2> HIDE DEF middle, path
    <2> QED
      BY <1>2, <2>3, <2>4
  <1>5. \A n \in 1..Len(path) : middle[n] = [path[n] EXCEPT !.rate = path[n].row.mid]
    BY <1>2
  <1>6. ASSUME NEW n \in 1..Len(path)
        PROVE  /\ path[n].rate \in Nat /\ middle[n].rate \in Nat \ {0}
               /\ Factor(path[n]) \in Nat /\ Factor(middle[n]) \in Nat
               /\ Factor(path[n]) <= Factor(middle[n])
               /\ Divisor(path[n]) \in Nat \ {0} /\ Divisor(middle[n]) \in Nat \ {0}
               /\ Divisor(middle[n]) <= Divisor(path[n])
    <2>1. path[n] \in Steps /\ Straddles(path[n].row)
      BY <1>2, <1>3
    <2>2. middle[n] = [path[n] EXCEPT !.rate = path[n].row.mid]
      BY <1>5
    <2> HIDE DEF path, middle
    <2> QED
      BY <2>1, <2>2, PickedIsWorse
  <1> HIDE DEF path, middle, amount
  <1>7. CASE Len(path) = 1
    <2>1. 1 \in 1..Len(path)
      BY <1>7
    <2> DEFINE f == Factor(path[1])
               g == Factor(middle[1])
               d == Divisor(path[1])
               e == Divisor(middle[1])
    <2>2. /\ f \in Nat /\ g \in Nat /\ f <= g
          /\ d \in Nat \ {0} /\ e \in Nat \ {0} /\ e <= d
      BY <1>6, <2>1
    <2>3. /\ Numerator(path, amount) = amount * f /\ Denominator(path) = d
          /\ Numerator(middle, amount) = amount * g /\ Denominator(middle) = e
      BY <1>1, <1>4, <1>6, <1>7, <2>1, OneStep
    <2> HIDE DEF f, g, d, e
    <2>4. amount * f \in Nat /\ amount * g \in Nat /\ amount * f <= amount * g
      BY <1>1, <2>2, MoreOfMore
    <2>5. RoundHalfUp(amount * f, d) <= RoundHalfUp(amount * g, e)
      BY <2>2, <2>4, RoundingIsMonotonic
    <2> QED
      BY <2>3, <2>5 DEF Converted, path, middle, amount
  <1>8. CASE Len(path) = 2
    <2>1. 1 \in 1..Len(path) /\ 2 \in 1..Len(path)
      BY <1>8
    <2> DEFINE f1 == Factor(path[1])
               f2 == Factor(path[2])
               g1 == Factor(middle[1])
               g2 == Factor(middle[2])
               d1 == Divisor(path[1])
               d2 == Divisor(path[2])
               e1 == Divisor(middle[1])
               e2 == Divisor(middle[2])
    <2>2. /\ f1 \in Nat /\ g1 \in Nat /\ f1 <= g1
          /\ d1 \in Nat \ {0} /\ e1 \in Nat \ {0} /\ e1 <= d1
      BY <1>6, <2>1
    <2>3. /\ f2 \in Nat /\ g2 \in Nat /\ f2 <= g2
          /\ d2 \in Nat \ {0} /\ e2 \in Nat \ {0} /\ e2 <= d2
      BY <1>6, <2>1
    <2>4. /\ Numerator(path, amount) = (amount * f1) * f2 /\ Denominator(path) = d1 * d2
          /\ Numerator(middle, amount) = (amount * g1) * g2 /\ Denominator(middle) = e1 * e2
      BY <1>1, <1>4, <1>6, <1>8, <2>1, TwoSteps
    <2> HIDE DEF f1, f2, g1, g2, d1, d2, e1, e2
    <2>5. amount * f1 \in Nat /\ amount * g1 \in Nat /\ amount * f1 <= amount * g1
      BY <1>1, <2>2, MoreOfMore
    <2> DEFINE a == amount * f1
               b == amount * g1
    <2>6. a \in Nat /\ b \in Nat /\ a <= b
      BY <2>5
    <2> HIDE DEF a, b
    <2>7. a * f2 \in Nat /\ b * g2 \in Nat /\ a * f2 <= b * g2
      BY <2>3, <2>6, MoreOfMore
    <2>8. e1 * e2 <= d1 * d2
      BY <2>2, <2>3, MoreOfMore
    <2>9. e1 * e2 \in Nat \ {0} /\ d1 * d2 \in Nat \ {0}
      BY <2>2, <2>3, SMT
    <2>10. RoundHalfUp(a * f2, d1 * d2) <= RoundHalfUp(b * g2, e1 * e2)
      BY <2>7, <2>8, <2>9, RoundingIsMonotonic
    <2> QED
      BY <2>4, <2>10 DEF Converted, path, middle, amount, a, b
  <1>9. Len(path) = 1 \/ Len(path) = 2
    <2> DEFINE size == Len(path)
    <2>1. size \in Nat /\ size <= 2 /\ size # 0
      BY <1>1, <1>2
    <2> HIDE DEF size
    <2>2. size = 1 \/ size = 2
      BY <2>1
    <2> QED
      BY <2>2 DEF size
  <1> QED
    BY <1>7, <1>8, <1>9 DEF path, middle, amount

\* _pick_rate never overstates an amount against the middle rates of its path, when the
\* bank buys below them and sells above them.
THEOREM AmountIsNeverOverstated == Spec => []NeverOverstates
  BY InitTyped, TypedNext, PathNeverOverstates, PTL DEF Spec

-----------------------------------------------------------------------------
(* The table. *)

SamePair(r, q) == r.source = q.source /\ r.of = q.of /\ r.in = q.in

\* The polled rows of a pair do not overlap, and one of them is open, the last.
TableInv ==
    /\ \A r \in rates : IsPolled(r) => r.from <= r.last
    /\ \A r, q \in rates :
          IsPolled(r) /\ IsPolled(q) /\ SamePair(r, q) /\ r # q => r.to <= q.from \/ q.to <= r.from
    /\ \A r \in rates :
          IsPolled(r) /\ r.to # Forever =>
             \E q \in rates : IsPolled(q) /\ SamePair(r, q) /\ q.to = Forever /\ r.to <= q.from

\* The row that a row was before a poll.
Was(r, old, rate) ==
    /\ old \in rates
    /\ SamePair(r, old) /\ r.id = old.id /\ r.from = old.from /\ r.last = old.last
    /\ IF old \in Current(rate) THEN r.to = rate.from ELSE r = old

LEMMA PollOrigins ==
    ASSUME NEW rate \in Menu, Poll(rate), rates \subseteq Rows
    PROVE  /\ \A r \in rates' : r = Row(rate, rate.from) \/ \E old \in rates : Was(r, old, rate)
           /\ \A old \in rates : \E r \in rates' : Was(r, old, rate)
  <1>1. /\ \A row \in rates' :
              \/ row = Row(rate, rate.from)
              \/ row \in rates \ Current(rate)
              \/ \E old \in Current(rate) : row = [old EXCEPT !.to = rate.from]
        /\ Current(rate) \subseteq rates /\ rate.from \in Times
        /\ \A row \in rates \ Current(rate) : row \in rates'
        /\ \A row \in Current(rate) : [row EXCEPT !.to = rate.from] \in rates'
    BY AfterPoll
  <1>2. ASSUME NEW old \in Current(rate) PROVE Was([old EXCEPT !.to = rate.from], old, rate)
    <2>1. old \in Rows /\ old \in rates
      BY <1>1
    <2>2. LET closed == [old EXCEPT !.to = rate.from]
          IN  /\ closed.id = old.id /\ closed.source = old.source
              /\ closed.of = old.of /\ closed.in = old.in
              /\ closed.from = old.from /\ closed.last = old.last /\ closed.to = rate.from
      BY <1>1, <2>1, ClosedRow
    <2> QED
      BY <2>1, <2>2 DEF Was, SamePair
  <1>3. ASSUME NEW old \in rates \ Current(rate) PROVE Was(old, old, rate)
    BY DEF Was, SamePair
  <1>4. ASSUME NEW r \in rates' PROVE r = Row(rate, rate.from) \/ \E old \in rates : Was(r, old, rate)
    BY <1>1, <1>2, <1>3
  <1>5. ASSUME NEW old \in rates PROVE \E r \in rates' : Was(r, old, rate)
    BY <1>1, <1>2, <1>3
  <1> QED
    BY <1>4, <1>5

LEMMA TablePoll ==
    ASSUME Typed, TableInv, NEW rate \in Menu, Poll(rate)
    PROVE  TableInv'
  <1> DEFINE new == Row(rate, rate.from)
  <1>0. rates \subseteq Rows /\ rates' \subseteq Rows
    BY AfterPoll DEF Typed, TypeOK
  <1>1. /\ new \in rates'
        /\ \A r \in rates' : r = new \/ \E old \in rates : Was(r, old, rate)
        /\ \A old \in rates : \E r \in rates' : Was(r, old, rate)
        /\ rate.from \in Times
        /\ \A row \in Current(rate) : row.last <= rate.from
    BY <1>0, AfterPoll, PollOrigins
  <1>2. /\ new.source = rate.source /\ new.of = rate.of /\ new.in = rate.in
        /\ new.from = rate.from /\ new.last = rate.from /\ new.to = Forever
    BY <1>1, NewRow
  <1>3. rate.from \in Nat /\ rate.from # Never /\ rate.from < Forever
    <2>1. \A t \in Times : t \in Nat /\ t # Never /\ t < Forever
      BY ConversionAssumption DEF Never, Forever
    <2> QED
      BY <1>1, <2>1
  <1>4. \A old \in Current(rate) : /\ old \in rates /\ IsPolled(old) /\ old.to = Forever
                                   /\ SamePair(old, new)
    BY <1>2 DEF Current, Quotes, SamePair
  <1>5. \A r \in rates : /\ r.from \in Nat /\ r.from < Forever /\ r.last \in Nat /\ r.to \in Nat
                         /\ IsPolled(r) => r.from <= r.last
    BY <1>0, RowTypes DEF TableInv
  <1>6. ASSUME NEW r \in rates, NEW q \in rates,
               IsPolled(r), IsPolled(q), SamePair(r, q), r # q
        PROVE  r.to <= q.from \/ q.to <= r.from
    BY <1>6 DEF TableInv
  <1>7. ASSUME NEW old \in rates, SamePair(old, new), IsPolled(old), old \notin Current(rate)
        PROVE  old.to <= rate.from
    <2>1. old.to # Forever
      BY <1>2, <1>7 DEF Current, SamePair, Quotes
    <2>2. PICK q \in rates : IsPolled(q) /\ SamePair(old, q) /\ q.to = Forever /\ old.to <= q.from
      BY <1>7, <2>1 DEF TableInv
    <2>3. q \in Current(rate)
      BY <1>2, <1>7, <2>2 DEF Current, SamePair, Quotes
    <2>4. q.from <= q.last /\ q.last <= rate.from
      BY <1>1, <1>5, <2>2, <2>3
    <2> QED
      BY <1>3, <1>5, <2>2, <2>4
  <1> HIDE DEF new
  <1>8. IsPolled(new) /\ SamePair(new, new)
    BY <1>2, <1>3 DEF IsPolled, SamePair
  \* A row of the pair that is not the new one ends before it begins.
  <1>9. ASSUME NEW r \in rates', r # new, IsPolled(r), SamePair(r, new)
        PROVE  r.to <= new.from
    <2>1. PICK old \in rates : Was(r, old, rate)
      BY <1>1, <1>9
    <2>2. CASE old \in Current(rate)
      <3>1. r.to = rate.from
        BY <2>1, <2>2 DEF Was
      <3> QED
        BY <1>2, <1>3, <3>1
    <2>3. CASE old \notin Current(rate)
      BY <1>2, <1>7, <1>9, <2>1, <2>3 DEF Was
    <2> QED
      BY <2>2, <2>3
  <1>10. ASSUME NEW r \in rates', IsPolled(r) PROVE r.from <= r.last
    <2>1. CASE r = new
      BY <2>1, <1>2, <1>3
    <2>2. CASE r # new
      <3>1. PICK old \in rates : Was(r, old, rate)
        BY <1>1, <2>2
      <3> QED
        BY <1>5, <1>10, <3>1 DEF Was, IsPolled
    <2> QED
      BY <2>1, <2>2
  <1>11. ASSUME NEW r \in rates', NEW q \in rates',
                IsPolled(r), IsPolled(q), SamePair(r, q), r # q
         PROVE  r.to <= q.from \/ q.to <= r.from
    <2>1. CASE r = new
      <3>1. SamePair(q, new) /\ q # new
        BY <1>11, <2>1 DEF SamePair
      <3> QED
        BY <1>9, <1>11, <2>1, <3>1
    <2>2. CASE q = new
      BY <1>9, <1>11, <2>2
    <2>3. CASE r # new /\ q # new
      <3>1. PICK a \in rates : Was(r, a, rate)
        BY <1>1, <2>3
      <3>2. PICK b \in rates : Was(q, b, rate)
        BY <1>1, <2>3
      <3>3. IsPolled(a) /\ IsPolled(b) /\ SamePair(a, b) /\ r.from = a.from /\ q.from = b.from
        BY <1>11, <3>1, <3>2 DEF Was, IsPolled, SamePair
      <3>4. a # b
        <4>1. SUFFICES ASSUME a = b PROVE FALSE
          OBVIOUS
        <4>2. r.id = q.id
          BY <3>1, <3>2, <4>1 DEF Was
        <4>3. \A x, y \in rates' : x.id = y.id => x = y
          BY WritesKeepTypes DEF Write
        <4> QED
          BY <1>11, <4>2, <4>3
      <3>5. a.to <= b.from \/ b.to <= a.from
        BY <1>6, <3>3, <3>4
      <3>6. (a.to <= b.from => a \notin Current(rate)) /\ (b.to <= a.from => b \notin Current(rate))
        <4>1. a.to = Forever => ~(a.to <= b.from)
          BY <1>5 DEF Forever
        <4>2. b.to = Forever => ~(b.to <= a.from)
          BY <1>5 DEF Forever
        <4> QED
          BY <1>4, <4>1, <4>2
      <3>7. (a \notin Current(rate) => r.to = a.to) /\ (b \notin Current(rate) => q.to = b.to)
        BY <3>1, <3>2 DEF Was
      <3> QED
        BY <3>3, <3>5, <3>6, <3>7
    <2> QED
      BY <2>1, <2>2, <2>3
  <1>12. ASSUME NEW r \in rates', IsPolled(r), r.to # Forever
         PROVE  \E q \in rates' : IsPolled(q) /\ SamePair(r, q) /\ q.to = Forever /\ r.to <= q.from
    <2>0. r # new
      BY <1>2, <1>12
    <2>1. CASE SamePair(r, new)
      BY <1>1, <1>2, <1>8, <1>9, <1>12, <2>0, <2>1
    <2>2. CASE ~SamePair(r, new)
      <3>1. PICK old \in rates : Was(r, old, rate)
        BY <1>1, <2>0
      <3>2. SamePair(r, old) /\ IsPolled(old) /\ old \notin Current(rate) /\ r = old
        BY <1>4, <1>12, <2>2, <3>1 DEF Was, SamePair, IsPolled
      <3>3. PICK q \in rates : IsPolled(q) /\ SamePair(r, q) /\ q.to = Forever /\ r.to <= q.from
        BY <1>12, <3>2 DEF TableInv
      <3>4. q \notin Current(rate)
        BY <1>4, <2>2, <3>3 DEF SamePair
      <3>5. q \in rates'
        BY <1>1, <3>4 DEF Was
      <3> QED
        BY <3>3, <3>5
    <2> QED
      BY <2>1, <2>2
  <1> QED
    BY <1>10, <1>11, <1>12 DEF TableInv

LEMMA TablePollAgain ==
    ASSUME Typed, TableInv, NEW row \in rates, NEW t \in Times, PollAgain(row, t)
    PROVE  TableInv'
  <1> DEFINE seen == [row EXCEPT !.last = t]
  <1>1. /\ rates \subseteq Rows
        /\ rates' = (rates \ {row}) \cup {seen} /\ row.last < t
        /\ row.last # Never /\ row.to = Forever
    BY AfterPollAgain DEF Typed, TypeOK
  <1>2. /\ seen.source = row.source /\ seen.of = row.of /\ seen.in = row.in
        /\ seen.from = row.from /\ seen.last = t /\ seen.to = row.to /\ seen.id = row.id
    BY <1>1, SeenRow
  <1>3. t # Never /\ t \in Nat /\ row.from \in Nat /\ row.last \in Nat
    BY <1>1, RowTypes, ConversionAssumption DEF Never
  <1>4. IsPolled(row) /\ IsPolled(seen) /\ SamePair(row, seen)
    BY <1>1, <1>2, <1>3 DEF IsPolled, SamePair
  <1> HIDE DEF seen
  \* The row that a row was.
  <1>5. \A r \in rates' : \E old \in rates :
           /\ SamePair(r, old) /\ r.from = old.from /\ r.to = old.to /\ (IsPolled(r) <=> IsPolled(old))
           /\ IF old = row THEN r = seen ELSE r = old
    BY <1>1, <1>2, <1>4 DEF SamePair
  <1>6. \A old \in rates : \E r \in rates' :
           /\ SamePair(r, old) /\ r.from = old.from /\ r.to = old.to /\ (IsPolled(r) <=> IsPolled(old))
    BY <1>1, <1>2, <1>4 DEF SamePair
  <1>7. ASSUME NEW r \in rates', IsPolled(r) PROVE r.from <= r.last
    <2>1. CASE r = seen
      <3>1. row.from <= row.last
        BY <1>4 DEF TableInv
      <3> QED
        BY <1>1, <1>2, <1>3, <2>1, <3>1
    <2>2. CASE r # seen
      BY <1>1, <1>7, <2>2 DEF TableInv
    <2> QED
      BY <2>1, <2>2
  <1>8. ASSUME NEW r \in rates', NEW q \in rates',
               IsPolled(r), IsPolled(q), SamePair(r, q), r # q
        PROVE  r.to <= q.from \/ q.to <= r.from
    <2>1. PICK a \in rates : /\ SamePair(r, a) /\ r.from = a.from /\ r.to = a.to
                             /\ IsPolled(r) <=> IsPolled(a)
                             /\ IF a = row THEN r = seen ELSE r = a
      BY <1>5
    <2>2. PICK b \in rates : /\ SamePair(q, b) /\ q.from = b.from /\ q.to = b.to
                             /\ IsPolled(q) <=> IsPolled(b)
                             /\ IF b = row THEN q = seen ELSE q = b
      BY <1>5
    <2>3. a # b
      BY <1>8, <2>1, <2>2
    <2>5. IsPolled(a) /\ IsPolled(b) /\ SamePair(a, b)
      <3>1. IsPolled(a) /\ IsPolled(b)
        BY <1>8, <2>1, <2>2
      <3>2. SamePair(r, a) /\ SamePair(q, b) /\ SamePair(r, q)
        BY <1>8, <2>1, <2>2
      <3> QED
        BY <3>1, <3>2 DEF SamePair
    <2>4. a.to <= b.from \/ b.to <= a.from
      BY <2>3, <2>5 DEF TableInv
    <2> QED
      BY <2>1, <2>2, <2>4
  <1>9. ASSUME NEW r \in rates', IsPolled(r), r.to # Forever
        PROVE  \E q \in rates' : IsPolled(q) /\ SamePair(r, q) /\ q.to = Forever /\ r.to <= q.from
    <2>1. PICK a \in rates : SamePair(r, a) /\ r.to = a.to /\ (IsPolled(r) <=> IsPolled(a))
      BY <1>5
    <2>2. PICK b \in rates : IsPolled(b) /\ SamePair(a, b) /\ b.to = Forever /\ a.to <= b.from
      BY <1>9, <2>1 DEF TableInv
    <2>3. PICK q \in rates' : /\ SamePair(q, b) /\ q.from = b.from /\ q.to = b.to
                              /\ IsPolled(q) <=> IsPolled(b)
      BY <1>6
    <2> QED
      BY <2>1, <2>2, <2>3 DEF SamePair
  <1> QED
    BY <1>7, <1>8, <1>9 DEF TableInv

LEMMA TableBackfill ==
    ASSUME Typed, TableInv, NEW rate \in Menu, Backfill(rate)
    PROVE  TableInv'
  <1>1. rates' = rates \cup {Row(rate, Never)}
    BY DEF Backfill
  <1>2. ~IsPolled(Row(rate, Never))
    BY NewRow DEF IsPolled
  <1> QED
    BY <1>1, <1>2 DEF TableInv

LEMMA TableNext == Typed /\ TableInv /\ [Next]_vars => TableInv'
  <1>1. ASSUME TableInv, UNCHANGED rates PROVE TableInv'
    BY <1>1 DEF TableInv
  <1>2. ASSUME [Next]_vars PROVE Write \/ UNCHANGED rates
    BY <1>2 DEF Next, Write, vars, Convert, FindRate, NextProbe, NextPivot, NextTier
  <1> QED
    BY <1>1, <1>2, TablePoll, TablePollAgain, TableBackfill DEF Write

-----------------------------------------------------------------------------
(* What was known when the conversion began. *)

\* The row is still there, as good as before.
Lasts(row, table) ==
    \E later \in table :
        /\ SamePair(later, row) /\ later.id = row.id /\ later.from = row.from
        /\ later.last >= row.last
        /\ IsPolled(later) <=> IsPolled(row)

\* At every time at which the row is fresh, some row of its pair is.
StaysFresh(row, table) ==
    \A at \in Times :
        IsFresh(row, at) => \E later \in table : SamePair(later, row) /\ IsFresh(later, at)

KeptInv ==
    conv.pc # "waiting" =>
        \A row \in conv.before :
            /\ row \in Rows /\ (IsPolled(row) => row.from <= row.last)
            /\ Lasts(row, rates) /\ StaysFresh(row, rates)

LEMMA TimeIsNumber == \A t \in Times : t \in Nat /\ t # Never /\ t < Forever
  BY ConversionAssumption DEF Never, Forever

LEMMA PollKeeps ==
    ASSUME Typed, TableInv, NEW rate \in Menu, Poll(rate), NEW row \in rates
    PROVE  Lasts(row, rates') /\ StaysFresh(row, rates')
  <1> DEFINE new == Row(rate, rate.from)
  <1>1. rates \subseteq Rows /\ rates' \subseteq Rows
    BY AfterPoll DEF Typed, TypeOK
  <1>2. /\ new \in rates' /\ rate.from \in Times
        /\ \A q \in Current(rate) : q.last <= rate.from
    BY <1>1, AfterPoll
  <1>3. PICK r \in rates' : Was(r, row, rate)
    BY <1>1, PollOrigins
  <1>4. /\ new.source = rate.source /\ new.of = rate.of /\ new.in = rate.in
        /\ new.from = rate.from /\ new.last = rate.from /\ new.to = Forever
    BY <1>2, NewRow
  <1>5. /\ row.from \in Nat /\ row.last \in Nat /\ row.to \in Nat
        /\ rate.from \in Nat /\ rate.from # Never /\ Grace \in Nat
    BY <1>1, <1>2, RowTypes, TimeIsNumber, ConversionAssumption
  <1>6. Lasts(row, rates')
    <2>1. r.last >= row.last /\ (IsPolled(r) <=> IsPolled(row))
      BY <1>3, <1>5 DEF Was, IsPolled
    <2> QED
      BY <1>3, <2>1 DEF Lasts, Was
  <1>7. ASSUME NEW at \in Times, IsFresh(row, at)
        PROVE  \E later \in rates' : SamePair(later, row) /\ IsFresh(later, at)
    <2>1. /\ at \in Nat /\ at < Forever
          /\ IsPolled(row) /\ row.from <= at /\ at < row.to /\ at <= row.last + Grace
      BY <1>7, TimeIsNumber DEF IsFresh
    <2>2. CASE row \notin Current(rate)
      <3>1. r = row /\ SamePair(r, row)
        BY <1>3, <2>2 DEF Was
      <3> QED
        BY <1>7, <3>1
    <2>3. CASE row \in Current(rate) /\ at < rate.from
      <3>1. /\ SamePair(r, row) /\ r.from = row.from /\ r.last = row.last /\ r.to = rate.from
        BY <1>3, <2>3 DEF Was
      <3>2. IsFresh(r, at)
        BY <2>1, <2>3, <3>1 DEF IsFresh, IsPolled
      <3> QED
        BY <3>1, <3>2
    <2>4. CASE row \in Current(rate) /\ ~(at < rate.from)
      <3>1. row.last <= rate.from
        BY <1>2, <2>4
      <3>2. new.from <= at /\ at < new.to /\ at <= new.last + Grace
        BY <1>4, <1>5, <2>1, <2>4, <3>1
      <3>3. IsFresh(new, at)
        BY <1>4, <1>5, <3>2 DEF IsFresh, IsPolled
      <3>4. SamePair(new, row)
        BY <1>4, <2>4 DEF SamePair, Current, Quotes
      <3> HIDE DEF new
      <3> QED
        BY <1>2, <3>3, <3>4
    <2> QED
      BY <2>2, <2>3, <2>4
  <1> QED
    BY <1>6, <1>7 DEF StaysFresh

LEMMA PollAgainKeeps ==
    ASSUME Typed, NEW same \in rates, NEW t \in Times, PollAgain(same, t), NEW row \in rates
    PROVE  Lasts(row, rates') /\ StaysFresh(row, rates')
  <1> DEFINE seen == [same EXCEPT !.last = t]
  <1>1. /\ rates \subseteq Rows
        /\ rates' = (rates \ {same}) \cup {seen} /\ same.last < t
        /\ same.last # Never /\ same.to = Forever
    BY AfterPollAgain DEF Typed, TypeOK
  <1>2. /\ seen.source = same.source /\ seen.of = same.of /\ seen.in = same.in
        /\ seen.from = same.from /\ seen.last = t /\ seen.to = same.to /\ seen.id = same.id
    BY <1>1, SeenRow
  <1>3. /\ row.last \in Nat /\ row.from \in Nat /\ same.last \in Nat /\ t \in Nat /\ t # Never
        /\ Grace \in Nat
    BY <1>1, RowTypes, TimeIsNumber, ConversionAssumption
  <1> HIDE DEF seen
  <1>4. CASE row # same
    <2>1. row \in rates' /\ SamePair(row, row) /\ row.last >= row.last
      BY <1>1, <1>3, <1>4 DEF SamePair
    <2> QED
      BY <2>1 DEF Lasts, StaysFresh
  <1>5. CASE row = same
    <2>1. seen \in rates' /\ SamePair(seen, row) /\ IsPolled(seen) /\ IsPolled(row)
      BY <1>1, <1>2, <1>3, <1>5 DEF SamePair, IsPolled
    <2>2. Lasts(row, rates')
      <3>1. seen.last >= row.last
        BY <1>1, <1>2, <1>3, <1>5
      <3> QED
        BY <1>2, <1>5, <2>1, <3>1 DEF Lasts
    <2>3. ASSUME NEW at \in Times, IsFresh(row, at) PROVE IsFresh(seen, at)
      <3>1. at <= row.last + Grace /\ at \in Nat
        BY <2>3, TimeIsNumber DEF IsFresh
      <3>2. at <= t + Grace
        BY <1>1, <1>3, <1>5, <3>1
      <3> QED
        BY <1>2, <1>5, <2>1, <2>3, <3>2 DEF IsFresh
    <2> QED
      BY <2>1, <2>2, <2>3 DEF StaysFresh
  <1> QED
    BY <1>4, <1>5

LEMMA BackfillKeeps ==
    ASSUME Typed, NEW rate \in Menu, Backfill(rate), NEW row \in rates
    PROVE  Lasts(row, rates') /\ StaysFresh(row, rates')
  <1>1. row \in rates' /\ SamePair(row, row)
    BY DEF Backfill, SamePair
  <1>2. row.last \in Nat
    BY RowTypes DEF Typed, TypeOK
  <1>3. row.last >= row.last
    BY <1>2
  <1> QED
    BY <1>1, <1>3 DEF Lasts, StaysFresh

LEMMA WriteKeeps ==
    ASSUME Typed, TableInv, Write, NEW row \in rates
    PROVE  Lasts(row, rates') /\ StaysFresh(row, rates')
  BY PollKeeps, PollAgainKeeps, BackfillKeeps DEF Write

LEMMA LastsOn ==
    ASSUME NEW row \in Rows, NEW table \in SUBSET Rows, NEW after \in SUBSET Rows,
           Lasts(row, table) /\ StaysFresh(row, table),
           \A r \in table : Lasts(r, after) /\ StaysFresh(r, after)
    PROVE  Lasts(row, after) /\ StaysFresh(row, after)
  <1>1. Lasts(row, after)
    <2>1. PICK r \in table :
             /\ SamePair(r, row) /\ r.id = row.id /\ r.from = row.from
             /\ r.last >= row.last /\ (IsPolled(r) <=> IsPolled(row))
      BY DEF Lasts
    <2>2. PICK q \in after :
             /\ SamePair(q, r) /\ q.id = r.id /\ q.from = r.from
             /\ q.last >= r.last /\ (IsPolled(q) <=> IsPolled(r))
      BY DEF Lasts
    <2>3. row.last \in Nat /\ r.last \in Nat /\ q.last \in Nat
      BY RowTypes
    <2>4. q.last >= row.last
      BY <2>1, <2>2, <2>3
    <2>5. SamePair(q, row)
      BY <2>1, <2>2 DEF SamePair
    <2> QED
      BY <2>1, <2>2, <2>4, <2>5 DEF Lasts
  <1>2. ASSUME NEW at \in Times, IsFresh(row, at)
        PROVE  \E q \in after : SamePair(q, row) /\ IsFresh(q, at)
    <2>1. PICK r \in table : SamePair(r, row) /\ IsFresh(r, at)
      BY <1>2 DEF StaysFresh
    <2>2. PICK q \in after : SamePair(q, r) /\ IsFresh(q, at)
      BY <2>1 DEF StaysFresh
    <2> QED
      BY <2>1, <2>2 DEF SamePair
  <1> QED
    BY <1>1, <1>2 DEF StaysFresh

\* A write leaves a table that is none of an earlier time.
LEMMA WriteIsNew ==
    ASSUME Typed, TableInv, KeptInv, conv.pc # "waiting", Write
    PROVE  conv.before # rates'
  <1>1. rates \subseteq Rows /\ \A r, q \in rates : r.id = q.id => r = q
    BY DEF Typed, TypeOK
  <1>2. \A row \in conv.before : \E later \in rates : later.id = row.id /\ later.last >= row.last
    BY DEF KeptInv, Lasts
  <1>3. ASSUME NEW rate \in Menu, Poll(rate) \/ Backfill(rate) PROVE conv.before # rates'
    <2>1. \A row \in rates : row.id # rate.id
      BY <1>3 DEF Poll, Backfill, IsNew
    <2>2. \E row \in rates' : row.id = rate.id
      <3>1. CASE Poll(rate)
        <4>1. Row(rate, rate.from) \in rates' /\ rate.from \in Times
          BY <1>1, <3>1, AfterPoll
        <4> QED
          BY <4>1, NewRow
      <3>2. CASE Backfill(rate)
        BY <3>2, NewRow DEF Backfill
      <3> QED
        BY <1>3, <3>1, <3>2
    <2> QED
      BY <1>2, <2>1, <2>2
  <1>4. ASSUME NEW row \in rates, NEW t \in Times, PollAgain(row, t) PROVE conv.before # rates'
    <2> DEFINE seen == [row EXCEPT !.last = t]
    <2>1. seen \in rates' /\ row.last < t /\ row.last \in Nat /\ t \in Nat
      BY <1>1, <1>4, AfterPollAgain, RowTypes, TimeIsNumber
    <2>2. seen.id = row.id /\ seen.last = t
      BY <1>1, SeenRow
    <2> HIDE DEF seen
    <2>3. SUFFICES ASSUME seen \in conv.before PROVE FALSE
      BY <2>1
    <2>4. PICK later \in rates : later.id = seen.id /\ later.last >= seen.last
      BY <1>2, <2>3
    <2>5. later = row
      BY <1>1, <2>2, <2>4
    <2> QED
      BY <2>1, <2>2, <2>4, <2>5
  <1> QED
    BY <1>3, <1>4 DEF Write

LEMMA KeptNext == Typed /\ TableInv /\ KeptInv /\ [Next]_vars => KeptInv'
  <1> SUFFICES ASSUME Typed, TableInv, KeptInv, [Next]_vars PROVE KeptInv'
    OBVIOUS
  <1>1. CASE Write
    <2>1. UNCHANGED conv /\ rates' \in SUBSET Rows /\ rates \in SUBSET Rows
      BY <1>1, WritesKeepTypes DEF Typed, TypeOK
    <2>2. \A r \in rates : Lasts(r, rates') /\ StaysFresh(r, rates')
      BY <1>1, WriteKeeps
    <2>3. ASSUME conv.pc # "waiting", NEW row \in conv.before
          PROVE  /\ row \in Rows /\ (IsPolled(row) => row.from <= row.last)
                 /\ Lasts(row, rates') /\ StaysFresh(row, rates')
      <3>1. /\ row \in Rows /\ (IsPolled(row) => row.from <= row.last)
            /\ Lasts(row, rates) /\ StaysFresh(row, rates)
        BY <2>3 DEF KeptInv
      <3> QED
        BY <2>1, <2>2, <3>1, LastsOn
    <2> QED
      BY <2>1, <2>3 DEF KeptInv, Lasts, StaysFresh
  <1>2. CASE \E goal \in Goals : Convert(goal)
    <2>1. conv'.before = rates /\ rates' = rates
      BY <1>2 DEF Convert
    <2>2. rates \subseteq Rows /\ \A row \in rates : IsPolled(row) => row.from <= row.last
      BY DEF Typed, TypeOK, TableInv
    <2>3. ASSUME NEW row \in rates PROVE Lasts(row, rates) /\ StaysFresh(row, rates)
      <3>1. row.last \in Nat
        BY <2>2, RowTypes
      <3>2. row.last >= row.last /\ SamePair(row, row)
        BY <3>1 DEF SamePair
      <3> QED
        BY <3>2 DEF Lasts, StaysFresh
    <2> QED
      BY <2>1, <2>2, <2>3 DEF KeptInv, Lasts, StaysFresh
  <1>3. CASE FindRate \/ NextProbe \/ NextPivot \/ NextTier \/ UNCHANGED vars
    <2>1. rates' = rates
      BY <1>3 DEF FindRate, NextProbe, NextPivot, NextTier, vars
    <2>2. conv'.pc # "waiting" => conv'.before = conv.before /\ conv.pc # "waiting"
      <3>1. CASE UNCHANGED vars
        BY <3>1 DEF vars
      <3>2. CASE ~UNCHANGED vars
        <4>1. conv.pc = "running"
          BY <1>3, <3>2 DEF FindRate, NextProbe, NextPivot, NextTier
        <4>2. conv \in Searches
          BY <4>1, Searching
        <4> QED
          BY <1>3, <3>2, <4>1, <4>2 DEF FindRate, NextProbe, NextPivot, NextTier, Searches
      <3> QED
        BY <3>1, <3>2
    <2> QED
      BY <2>1, <2>2 DEF KeptInv, Lasts, StaysFresh
  <1> QED
    BY <1>1, <1>2, <1>3 DEF Next, Write

-----------------------------------------------------------------------------
(* The two queries. *)

\* What a statement asks of a row.
Fits(row, tier, at, of, in, sources) ==
    /\ Quotes(row, of, in) /\ row.source \in sources
    /\ IF tier = "fresh" THEN IsFresh(row, at) ELSE Proximity(row, at) <= MaxAge

LEMMA ProximityIsNumber ==
    ASSUME NEW row \in Rows, NEW at \in Nat
    PROVE  Proximity(row, at) \in Nat
  <1>1. row.last \in Nat /\ row.from \in Nat
    BY RowTypes
  <1> QED
    BY <1>1 DEF Proximity

\* A query that would have found a row still finds one.
LEMMA FitsOn ==
    ASSUME NEW row \in Rows, NEW table \in SUBSET Rows,
           Lasts(row, table), StaysFresh(row, table), IsPolled(row) => row.from <= row.last,
           NEW tier, NEW at \in Times, NEW of, NEW in, NEW sources,
           Fits(row, tier, at, of, in, sources)
    PROVE  \E later \in table : Fits(later, tier, at, of, in, sources)
  <1>1. CASE tier = "fresh"
    <2>1. PICK later \in table : SamePair(later, row) /\ IsFresh(later, at)
      BY <1>1 DEF Fits, StaysFresh
    <2> QED
      BY <1>1, <2>1 DEF Fits, SamePair, Quotes
  <1>2. CASE tier # "fresh"
    <2>1. PICK later \in table :
             /\ SamePair(later, row) /\ later.from = row.from
             /\ later.last >= row.last /\ (IsPolled(later) <=> IsPolled(row))
      BY DEF Lasts
    <2>2. /\ row.last \in Nat /\ row.from \in Nat /\ later.last \in Nat /\ at \in Nat
          /\ MaxAge \in Nat
      BY RowTypes, TimeIsNumber, ConversionAssumption
    <2>3. Proximity(later, at) <= Proximity(row, at)
      <3>1. CASE IsPolled(row)
        <4>1. /\ Proximity(row, at) = IF at > row.last THEN at - row.last
                                      ELSE IF at < row.from THEN row.from - at ELSE 0
              /\ Proximity(later, at) = IF at > later.last THEN at - later.last
                                        ELSE IF at < row.from THEN row.from - at ELSE 0
          BY <2>1, <3>1 DEF Proximity
        <4>2. row.from <= row.last /\ row.last <= later.last
          BY <2>1, <2>2, <3>1
        <4> QED
          BY <2>2, <4>1, <4>2
      <3>2. CASE ~IsPolled(row)
        <4>1. Proximity(row, at) = Proximity(later, at)
          BY <2>1, <3>2 DEF Proximity
        <4> QED
          BY <4>1, <2>2, ProximityIsNumber
      <3> QED
        BY <3>1, <3>2
    <2>4. Proximity(later, at) \in Nat /\ Proximity(row, at) \in Nat
      BY <2>2, ProximityIsNumber
    <2>5. Proximity(row, at) <= MaxAge
      BY <1>2 DEF Fits
    <2>6. Proximity(later, at) <= MaxAge
      BY <2>2, <2>3, <2>4, <2>5
    <2> QED
      BY <1>2, <2>1, <2>6 DEF Fits, SamePair, Quotes
  <1> QED
    BY <1>1, <1>2

\* find_fresh_rate has one row to find at most.
LEMMA FreshIsOne ==
    ASSUME Typed, TableInv, NEW r \in rates, NEW q \in rates, SamePair(r, q),
           NEW at \in Nat, IsFresh(r, at), IsFresh(q, at)
    PROVE  r = q
  <1>1. /\ r.from \in Nat /\ r.to \in Nat /\ q.from \in Nat /\ q.to \in Nat
    BY RowTypes DEF Typed, TypeOK
  <1>2. r # q => r.to <= q.from \/ q.to <= r.from
    BY DEF TableInv, IsFresh
  <1> QED
    BY <1>1, <1>2 DEF IsFresh

\* Position finds the first place of a source.
LEMMA PositionIsFirst ==
    ASSUME NEW S, NEW chain \in Seq(S), NEW s
    PROVE  /\ Position(chain, s) \in Nat
           /\ s \in ToSet(chain) =>
                 /\ Position(chain, s) \in 1..Len(chain) /\ chain[Position(chain, s)] = s
                 /\ \A n \in 1..Len(chain) : chain[n] = s => Position(chain, s) <= n
  <1> DEFINE I == {n \in 1..Len(chain) : chain[n] = s}
  <1>1. Len(chain) \in Nat /\ DOMAIN chain = 1..Len(chain)
    BY LenProperties
  <1>2. Position(chain, s) = IF I # {} THEN Min(I) ELSE 0
    BY DEF Position, SelectInSeq
  <1>3. I \subseteq Nat /\ I \subseteq 1..Len(chain)
    BY <1>1
  <1>4. ASSUME I # {} PROVE Min(I) \in I /\ \A n \in I : Min(I) <= n
    <2> HIDE DEF I
    <2>1. \E n \in I : \A m \in I : n <= m
      BY <1>3, <1>4, LeastNumber
    <2> QED
      BY <2>1 DEF Min
  <1>5. s \in ToSet(chain) => I # {}
    BY <1>1 DEF ToSet
  <1>6. Position(chain, s) \in Nat
    <2> HIDE DEF I
    <2>1. CASE I = {}
      BY <1>2, <2>1
    <2>2. CASE I # {}
      BY <1>2, <1>3, <1>4, <2>2
    <2> QED
      BY <2>1, <2>2
  <1>7. ASSUME s \in ToSet(chain)
        PROVE  /\ Position(chain, s) \in 1..Len(chain) /\ chain[Position(chain, s)] = s
               /\ \A n \in 1..Len(chain) : chain[n] = s => Position(chain, s) <= n
    <2>1. I # {}
      BY <1>5, <1>7
    <2>2. Position(chain, s) \in I /\ \A n \in I : Position(chain, s) <= n
      <3> HIDE DEF I
      <3> QED
        BY <1>2, <1>4, <2>1
    <2> QED
      BY <2>2
  <1> QED
    BY <1>6, <1>7

LEMMA BeforeFour ==
    ASSUME NEW a \in Int, NEW b \in Int, NEW c \in Int, NEW d \in Int,
           NEW e \in Int, NEW f \in Int, NEW g \in Int, NEW h \in Int,
           \/ a < e
           \/ a = e /\ b < f
           \/ a = e /\ b = f /\ c < g
           \/ a = e /\ b = f /\ c = g /\ d < h
    PROVE  Before(<<a, b, c, d>>, <<e, f, g, h>>)
  <1> DEFINE p == <<a, b, c, d>>
             q == <<e, f, g, h>>
  <1>1. /\ DOMAIN p = 1..4
        /\ p[1] = a /\ p[2] = b /\ p[3] = c /\ p[4] = d
        /\ q[1] = e /\ q[2] = f /\ q[3] = g /\ q[4] = h
    OBVIOUS
  <1> HIDE DEF p, q
  <1>2. Before(p, q)
    <2>1. CASE a < e
      <3>1. 1 \in DOMAIN p /\ p[1] < q[1] /\ \A m \in 1..(1 - 1) : p[m] = q[m]
        BY <1>1, <2>1
      <3> QED
        BY <3>1 DEF Before
    <2>2. CASE a = e /\ b < f
      <3>1. 2 \in DOMAIN p /\ p[2] < q[2] /\ \A m \in 1..(2 - 1) : p[m] = q[m]
        BY <1>1, <2>2
      <3> QED
        BY <3>1 DEF Before
    <2>3. CASE a = e /\ b = f /\ c < g
      <3>1. 3 \in DOMAIN p /\ p[3] < q[3] /\ \A m \in 1..(3 - 1) : p[m] = q[m]
        <4>1. \A m \in 1..(3 - 1) : m = 1 \/ m = 2
          OBVIOUS
        <4> QED
          BY <1>1, <2>3, <4>1
      <3> QED
        BY <3>1 DEF Before
    <2>4. CASE a = e /\ b = f /\ c = g /\ d < h
      <3>1. 4 \in DOMAIN p /\ p[4] < q[4] /\ \A m \in 1..(4 - 1) : p[m] = q[m]
        <4>1. \A m \in 1..(4 - 1) : m = 1 \/ m = 2 \/ m = 3
          OBVIOUS
        <4> QED
          BY <1>1, <2>4, <4>1
      <3> QED
        BY <3>1 DEF Before
    <2> QED
      BY <2>1, <2>2, <2>3, <2>4
  <1> QED
    BY <1>2 DEF p, q

\* find_closest_rate finds one row if there is any: the order has no ties.
LEMMA ClosestExists ==
    ASSUME NEW found \in SUBSET Rows, found # {}, \A r, q \in found : r.id = q.id => r = q,
           NEW at \in Nat, NEW S, NEW chain \in Seq(S)
    PROVE  ClosestOf(found, at, chain) # {}
  <1> DEFINE near(row) == Proximity(row, at)
             place(row) == Position(chain, row.source)
             kind(row) == IF IsPolled(row) THEN 0 ELSE 1
             Rank(row) == <<near(row), place(row), kind(row), row.id>>
             nearest == {x \in found : \A y \in found : near(x) <= near(y)}
             first == {x \in nearest : \A y \in nearest : place(x) <= place(y)}
             polled == {x \in first : \A y \in first : kind(x) <= kind(y)}
  <1>1. \A row \in found : near(row) \in Nat /\ place(row) \in Nat /\ kind(row) \in Nat /\ row.id \in Nat
    BY ProximityIsNumber, PositionIsFirst, RowTypes
  <1>2. \A row \in found : ClosestRank(row, at, chain) = Rank(row)
    BY DEF ClosestRank
  <1> HIDE DEF near, place, kind
  <1>3. nearest # {}
    <2> DEFINE f == [x \in found |-> near(x)]
    <2>1. \A x \in found : f[x] \in Nat
      BY <1>1
    <2>2. \E x \in found : \A y \in found : f[x] <= f[y]
      <3> HIDE DEF f
      <3> QED
        BY <2>1, LeastValue
    <2> QED
      BY <2>2
  <1>4. first # {}
    <2> DEFINE f == [x \in nearest |-> place(x)]
    <2>1. \A x \in nearest : f[x] \in Nat
      BY <1>1
    <2>2. \E x \in nearest : \A y \in nearest : f[x] <= f[y]
      <3> HIDE DEF f, nearest
      <3> QED
        BY <1>3, <2>1, LeastValue
    <2> QED
      BY <2>2
  <1>5. polled # {}
    <2> DEFINE f == [x \in first |-> kind(x)]
    <2>1. \A x \in first : f[x] \in Nat
      BY <1>1
    <2>2. \E x \in first : \A y \in first : f[x] <= f[y]
      <3> HIDE DEF f, first
      <3> QED
        BY <1>4, <2>1, LeastValue
    <2> QED
      BY <2>2
  <1>6. \E x \in polled : \A y \in polled : x.id <= y.id
    <2> DEFINE f == [x \in polled |-> x.id]
    <2>1. \A x \in polled : f[x] \in Nat
      BY <1>1
    <2>2. \E x \in polled : \A y \in polled : f[x] <= f[y]
      <3> HIDE DEF f, polled
      <3> QED
        BY <1>5, <2>1, LeastValue
    <2> QED
      BY <2>2
  <1>7. PICK x \in polled : \A y \in polled : x.id <= y.id
    BY <1>6
  <1>8. ASSUME NEW y \in found \ {x} PROVE Before(Rank(x), Rank(y))
    <2>1. x \in found /\ y \in found /\ x.id # y.id
      BY <1>8
    <2>2. /\ near(x) \in Int /\ place(x) \in Int /\ kind(x) \in Int /\ x.id \in Int
          /\ near(y) \in Int /\ place(y) \in Int /\ kind(y) \in Int /\ y.id \in Int
      BY <1>1, <2>1
    <2>3. near(x) <= near(y)
      BY <2>1
    <2>4. near(x) = near(y) => place(x) <= place(y)
      <3>1. ASSUME near(x) = near(y) PROVE y \in nearest
        BY <2>1, <3>1
      <3> QED
        BY <3>1
    <2>5. near(x) = near(y) /\ place(x) = place(y) => kind(x) <= kind(y)
      <3>1. ASSUME near(x) = near(y), place(x) = place(y) PROVE y \in first
        BY <2>1, <3>1
      <3> QED
        BY <3>1
    <2>6. near(x) = near(y) /\ place(x) = place(y) /\ kind(x) = kind(y) => x.id <= y.id
      <3>1. ASSUME near(x) = near(y), place(x) = place(y), kind(x) = kind(y) PROVE y \in polled
        BY <2>1, <3>1
      <3> QED
        BY <1>7, <3>1
    <2> HIDE DEF polled
    <2>7. \/ near(x) < near(y)
          \/ near(x) = near(y) /\ place(x) < place(y)
          \/ near(x) = near(y) /\ place(x) = place(y) /\ kind(x) < kind(y)
          \/ near(x) = near(y) /\ place(x) = place(y) /\ kind(x) = kind(y) /\ x.id < y.id
      BY <2>1, <2>2, <2>3, <2>4, <2>5, <2>6
    <2> QED
      BY <2>2, <2>7, BeforeFour
  <1> HIDE DEF Rank
  <1>9. x \in ClosestOf(found, at, chain)
    BY <1>2, <1>8 DEF ClosestOf
  <1> QED
    BY <1>9

-----------------------------------------------------------------------------
(* The statements of one leg. *)

From(leg, n) == IF n % 2 = 0 THEN leg[2] ELSE leg[1]
To(leg, n) == IF n % 2 = 0 THEN leg[1] ELSE leg[2]
Asks(goal, tier, n) ==
    IF tier = "fresh" THEN {ChainAfter(goal.entry)[(n + 1) \div 2]} ELSE ToSet(ChainAfter(goal.entry))

\* The rows of a table that statement n may find.
Matches(table, goal, tier, leg, n) ==
    {row \in table : Fits(row, tier, goal.at, From(leg, n), To(leg, n), Asks(goal, tier, n))}

\* What one finds is the best of these.
BestMatch(row, table, goal, tier, leg, n) ==
    LET rows == Matches(table, goal, tier, leg, n)
    IN  /\ row \in rows
        /\ IF tier = "fresh" THEN rows = {row}
           ELSE \A other \in rows \ {row} :
                   Before(ClosestRank(row, goal.at, ChainAfter(goal.entry)),
                          ClosestRank(other, goal.at, ChainAfter(goal.entry)))

LEMMA ProbeFinds ==
    ASSUME Typed, TableInv, NEW goal \in Goals, NEW tier \in {"fresh", "closest"}, NEW leg, NEW n
    PROVE  /\ Matches(rates, goal, tier, leg, n) # {} => Probe(goal, tier, leg, n) # {}
           /\ \A step \in Probe(goal, tier, leg, n) :
                 \E row \in rates : /\ step = Step(row, n % 2 = 0, tier)
                                    /\ BestMatch(row, rates, goal, tier, leg, n)
  <1> DEFINE chain == ChainAfter(goal.entry)
             of == From(leg, n)
             in == To(leg, n)
             rows == Matches(rates, goal, tier, leg, n)
             source == chain[(n + 1) \div 2]
             found == IF tier = "fresh" THEN FindFresh(source, of, in, goal.at)
                      ELSE FindClosest(of, in, goal.at, chain)
  <1>1. Probe(goal, tier, leg, n) = {Step(row, n % 2 = 0, tier) : row \in found}
    BY DEF Probe, From, To
  <1>2. goal.at \in Times /\ goal.at \in Nat
    BY ConversionAssumption, TimeIsNumber
  <1>3. rates \in SUBSET Rows /\ \A r, q \in rates : r.id = q.id => r = q
    BY DEF Typed, TypeOK
  <1>4. rows \subseteq rates
    BY DEF Matches
  <1>5. CASE tier = "fresh"
    <2>1. rows = {row \in rates : row.source = source /\ Quotes(row, of, in) /\ IsFresh(row, goal.at)}
      BY <1>5 DEF Matches, Fits, Asks
    <2>2. \A r, q \in rows : r = q
      <3>1. \A r, q \in rows : SamePair(r, q) /\ IsFresh(r, goal.at) /\ IsFresh(q, goal.at)
        BY <2>1 DEF Quotes, SamePair
      <3> HIDE DEF rows
      <3> QED
        BY <1>2, <1>4, <3>1, FreshIsOne
    <2>3. found = {row \in rows : \A other \in rows : other.from <= row.from}
      <3> HIDE DEF rows, source, of, in
      <3> QED
        BY <1>5, <2>1 DEF FindFresh
    <2>4. \A r \in rows : r.from \in Nat
      <3> HIDE DEF rows
      <3> QED
        BY <1>3, <1>4, RowTypes
    <2> HIDE DEF rows, found
    <2>5. found = rows
      BY <2>2, <2>3, <2>4
    <2>6. ASSUME NEW row \in rows PROVE row \in rates /\ BestMatch(row, rates, goal, tier, leg, n)
      BY <1>4, <1>5, <2>2, <2>6 DEF BestMatch, rows
    <2> QED
      BY <1>1, <2>5, <2>6 DEF rows, found
  <1>6. CASE tier # "fresh"
    <2>1. rows = {row \in rates : /\ Quotes(row, of, in) /\ row.source \in ToSet(chain)
                                  /\ Proximity(row, goal.at) <= MaxAge}
      BY <1>6 DEF Matches, Fits, Asks
    <2>2. found = ClosestOf(rows, goal.at, chain)
      <3> HIDE DEF rows, of, in
      <3> QED
        BY <1>6, <2>1 DEF FindClosest
    <2>3. rows # {} => found # {}
      <3>1. chain \in Seq(DOMAIN config)
        BY ChainIs DEF Typed, TypeOK
      <3>2. rows \in SUBSET Rows /\ \A r, q \in rows : r.id = q.id => r = q
        BY <1>3, <1>4
      <3> HIDE DEF rows, found, chain
      <3> QED
        BY <1>2, <2>2, <3>1, <3>2, ClosestExists
    <2>4. ASSUME NEW row \in found PROVE row \in rates /\ BestMatch(row, rates, goal, tier, leg, n)
      <3>1. /\ row \in rows
            /\ \A other \in rows \ {row} :
                  Before(ClosestRank(row, goal.at, chain), ClosestRank(other, goal.at, chain))
        <4> HIDE DEF rows, found, chain
        <4> QED
          BY <2>2, <2>4 DEF ClosestOf
      <3> QED
        BY <1>4, <1>6, <3>1 DEF BestMatch
    <2> HIDE DEF rows, found
    <2> QED
      BY <1>1, <2>3, <2>4 DEF rows, found
  <1> QED
    BY <1>5, <1>6

LEMMA ProbesAre ==
    ASSUME config \in Configs, NEW goal
    PROVE  /\ Len(ChainAfter(goal.entry)) \in Nat
           /\ DOMAIN ChainAfter(goal.entry) = 1..Len(ChainAfter(goal.entry))
           /\ Probes(goal, "fresh") = 2 * Len(ChainAfter(goal.entry))
           /\ Probes(goal, "closest") = 2
  <1>1. ChainAfter(goal.entry) \in Seq(DOMAIN config)
    BY ChainIs
  <1> QED
    BY <1>1, LenProperties DEF Probes

\* The statements of a leg that match the row of a step.
StepMatched(step, table, goal, tier, leg) ==
    LET chain == ChainAfter(goal.entry)
    IN  /\ step.row \in table /\ step.divide \in BOOLEAN /\ step.tier = tier
        /\ step = Step(step.row, step.divide, tier)
        /\ step.row.source \in ToSet(chain)
        /\ tier = "closest" =>
              step.row \in Matches(table, goal, tier, leg, IF step.divide THEN 2 ELSE 1)
        /\ tier = "fresh" =>
              \A k \in DOMAIN chain : chain[k] = step.row.source =>
                 step.row \in Matches(table, goal, tier, leg, IF step.divide THEN 2 * k ELSE 2 * k - 1)

\* The steps that some row of a table allows for a leg are what its statements match.
LEMMA StepsAreMatched ==
    ASSUME config \in Configs, NEW table, NEW goal, NEW tier \in {"fresh", "closest"}, NEW leg,
           NEW step \in StepsOf(table, tier, ChainAfter(goal.entry), goal.at, leg[1], leg[2])
    PROVE  StepMatched(step, table, goal, tier, leg)
  <1> DEFINE chain == ChainAfter(goal.entry)
  <1>1. PICK row \in table, divide \in BOOLEAN : step = Step(row, divide, tier)
    BY DEF StepsOf
  <1>2. step.row = row /\ step.divide = divide /\ step.tier = tier
    BY <1>1 DEF Step
  <1>3. /\ IF divide THEN Quotes(row, leg[2], leg[1]) ELSE Quotes(row, leg[1], leg[2])
        /\ row.source \in ToSet(chain)
        /\ IF tier = "fresh" THEN IsFresh(row, goal.at) ELSE Proximity(row, goal.at) <= MaxAge
    BY <1>2 DEF StepsOf
  <1>4. ASSUME tier = "closest"
        PROVE  row \in Matches(table, goal, tier, leg, IF divide THEN 2 ELSE 1)
    <2>1. 2 % 2 = 0 /\ 1 % 2 # 0
      BY SMT
    <2> QED
      BY <1>3, <1>4, <2>1 DEF Matches, Fits, From, To, Asks
  <1>5. ASSUME tier = "fresh", NEW k \in DOMAIN chain, chain[k] = row.source
        PROVE  row \in Matches(table, goal, tier, leg, IF divide THEN 2 * k ELSE 2 * k - 1)
    <2>0. Len(chain) \in Nat /\ DOMAIN chain = 1..Len(chain)
      BY ProbesAre
    <2>1. k \in Nat
      <3> HIDE DEF chain
      <3> QED
        BY <2>0, <1>5
    <2>2. /\ (2 * k) % 2 = 0 /\ (2 * k - 1) % 2 # 0
          /\ (2 * k + 1) \div 2 = k /\ ((2 * k - 1) + 1) \div 2 = k
      BY <2>1, SMT
    <2> HIDE DEF chain
    <2>3. CASE divide
      <3>1. Fits(row, tier, goal.at, leg[2], leg[1], {chain[k]})
        BY <1>3, <1>5, <2>3 DEF Fits
      <3>2. From(leg, 2 * k) = leg[2] /\ To(leg, 2 * k) = leg[1]
        BY <2>2 DEF From, To
      <3>3. Asks(goal, tier, 2 * k) = {chain[k]}
        BY <1>5, <2>2 DEF Asks, chain
      <3> QED
        BY <2>3, <3>1, <3>2, <3>3 DEF Matches
    <2>4. CASE ~divide
      <3>1. Fits(row, tier, goal.at, leg[1], leg[2], {chain[k]})
        BY <1>3, <1>5, <2>4 DEF Fits
      <3>2. From(leg, 2 * k - 1) = leg[1] /\ To(leg, 2 * k - 1) = leg[2]
        BY <2>2 DEF From, To
      <3>3. Asks(goal, tier, 2 * k - 1) = {chain[k]}
        BY <1>5, <2>2 DEF Asks, chain
      <3> QED
        BY <2>4, <3>1, <3>2, <3>3 DEF Matches
    <2> QED
      BY <2>3, <2>4
  <1> QED
    BY <1>1, <1>2, <1>3, <1>4, <1>5 DEF StepMatched

\* When no statement of a leg matches, there is no step.
LEMMA UnmatchedLeg ==
    ASSUME config \in Configs, NEW table, NEW goal, NEW tier \in {"fresh", "closest"}, NEW leg,
           \A n \in 1..Probes(goal, tier) : Matches(table, goal, tier, leg, n) = {}
    PROVE  StepsOf(table, tier, ChainAfter(goal.entry), goal.at, leg[1], leg[2]) = {}
  <1> SUFFICES ASSUME NEW step \in StepsOf(table, tier, ChainAfter(goal.entry), goal.at, leg[1], leg[2])
               PROVE  FALSE
    OBVIOUS
  <1> DEFINE chain == ChainAfter(goal.entry)
  <1>1. /\ step.divide \in BOOLEAN
        /\ step.row.source \in ToSet(chain)
        /\ tier = "closest" =>
              step.row \in Matches(table, goal, tier, leg, IF step.divide THEN 2 ELSE 1)
        /\ tier = "fresh" =>
              \A k \in DOMAIN chain : chain[k] = step.row.source =>
                 step.row \in Matches(table, goal, tier, leg, IF step.divide THEN 2 * k ELSE 2 * k - 1)
    <2>1. StepMatched(step, table, goal, tier, leg)
      BY StepsAreMatched
    <2> QED
      BY <2>1 DEF StepMatched
  <1>2. CASE tier = "closest"
    <2>1. (IF step.divide THEN 2 ELSE 1) \in 1..Probes(goal, tier)
      <3>1. Probes(goal, tier) = 2
        BY <1>2, ProbesAre
      <3> QED
        BY <3>1
    <2> QED
      BY <1>1, <1>2, <2>1
  <1>3. CASE tier = "fresh"
    <2>1. PICK k \in DOMAIN chain : chain[k] = step.row.source
      BY <1>1 DEF ToSet
    <2>2. /\ Len(chain) \in Nat /\ k \in 1..Len(chain)
          /\ Probes(goal, tier) = 2 * Len(chain)
      BY <1>3, <2>1, ProbesAre
    <2>3. 2 * k \in 1..Probes(goal, tier) /\ 2 * k - 1 \in 1..Probes(goal, tier)
      <3> HIDE DEF chain
      <3> QED
        BY <2>2
    <2> QED
      BY <1>1, <1>3, <2>1, <2>3
  <1> QED
    BY <1>2, <1>3

-----------------------------------------------------------------------------
(* The search goes on only past what it could not have had when it began. *)

\* The leg that a search is at.
Leg(c) == CASE c.pivot = 0 -> <<c.goal.of, c.goal.in>>
            [] c.half = <<>> /\ c.pivot > 0 -> <<c.goal.of, Pivots(c.goal)[c.pivot]>>
            [] OTHER -> <<Pivots(c.goal)[c.pivot], c.goal.in>>

NoStep(c, tier, of, in) ==
    StepsOf(c.before, tier, ChainAfter(c.goal.entry), c.goal.at, of, in) = {}

\* There was no path of a tier, direct or over a pivot.
NoPath(c, tier, p) ==
    IF p = 0 THEN NoStep(c, tier, c.goal.of, c.goal.in)
    ELSE \/ NoStep(c, tier, c.goal.of, Pivots(c.goal)[p])
         \/ NoStep(c, tier, Pivots(c.goal)[p], c.goal.in)

Passed(c) ==
    /\ \A p \in 0..(c.pivot - 1) : NoPath(c, c.tier, p)
    /\ c.tier = "closest" => \A p \in 0..Len(Pivots(c.goal)) : NoPath(c, "fresh", p)
    /\ c.pc = "running" =>
          \A n \in 1..(c.probe - 1) : Matches(c.before, c.goal, c.tier, Leg(c), n) = {}
    /\ c.pc = "done" /\ c.path = <<>> /\ c.goal.of # c.goal.in =>
          c.tier = "closest" /\ \A p \in 0..Len(Pivots(c.goal)) : NoPath(c, "closest", p)

PassedInv == conv.pc # "waiting" => Passed(conv)

LEMMA SamePassed ==
    ASSUME config' = config, NEW c
    PROVE  Passed(c)' <=> Passed(c)
  <1>1. Pivots(c.goal)' = Pivots(c.goal) /\ ChainAfter(c.goal.entry)' = ChainAfter(c.goal.entry)
    BY SamePivots, SameChain
  <1>2. ASSUME NEW tier, NEW of, NEW in PROVE NoStep(c, tier, of, in)' <=> NoStep(c, tier, of, in)
    BY <1>1 DEF NoStep
  <1>3. ASSUME NEW tier, NEW p PROVE NoPath(c, tier, p)' <=> NoPath(c, tier, p)
    BY <1>1, <1>2 DEF NoPath
  <1>4. ASSUME NEW n PROVE Matches(c.before, c.goal, c.tier, Leg(c), n)'
                             = Matches(c.before, c.goal, c.tier, Leg(c), n)
    <2>1. Leg(c)' = Leg(c)
      BY <1>1 DEF Leg
    <2>2. Asks(c.goal, c.tier, n)' = Asks(c.goal, c.tier, n)
      BY <1>1 DEF Asks
    <2> QED
      BY <2>1, <2>2 DEF Matches
  <1> QED
    BY <1>1, <1>3, <1>4 DEF Passed

\* A statement that finds nothing would have found nothing.
LEMMA NothingToFind ==
    ASSUME Typed, TableInv, KeptInv, conv.pc = "running", Found = {},
           conv.probe <= Probes(conv.goal, conv.tier)
    PROVE  Matches(conv.before, conv.goal, conv.tier, Leg(conv), conv.probe) = {}
  <1>1. /\ conv.goal \in Goals /\ conv.tier \in {"fresh", "closest"}
        /\ Probes(conv.goal, conv.tier) \in Nat /\ conv.probe \in Nat
    BY Searching DEF Searches
  <1>2. CurrentLeg = Leg(conv)
    BY DEF CurrentLeg, Leg
  <1>3. Probe(conv.goal, conv.tier, Leg(conv), conv.probe) = {}
    BY <1>1, <1>2 DEF Found
  <1>4. Matches(rates, conv.goal, conv.tier, Leg(conv), conv.probe) = {}
    BY <1>1, <1>3, ProbeFinds
  <1>5. ASSUME NEW row \in Matches(conv.before, conv.goal, conv.tier, Leg(conv), conv.probe)
        PROVE  FALSE
    <2> DEFINE of == From(Leg(conv), conv.probe)
               in == To(Leg(conv), conv.probe)
               sources == Asks(conv.goal, conv.tier, conv.probe)
    <2>1. row \in conv.before /\ Fits(row, conv.tier, conv.goal.at, of, in, sources)
      BY <1>5 DEF Matches
    <2>2. /\ row \in Rows /\ (IsPolled(row) => row.from <= row.last)
          /\ Lasts(row, rates) /\ StaysFresh(row, rates)
      BY <2>1 DEF KeptInv
    <2>3. rates \in SUBSET Rows /\ conv.goal.at \in Times
      BY <1>1, ConversionAssumption DEF Typed, TypeOK
    <2> HIDE DEF of, in, sources
    <2>4. \E later \in rates : Fits(later, conv.tier, conv.goal.at, of, in, sources)
      BY <2>1, <2>2, <2>3, FitsOn
    <2> QED
      BY <1>4, <2>4 DEF Matches, of, in, sources
  <1> QED
    BY <1>5

\* The end of a leg: there was no path over this pivot.
LEMMA PivotPassed ==
    ASSUME Typed, TableInv, KeptInv, Passed(conv), conv.pc = "running", Found = {}, LastProbe
    PROVE  NoPath(conv, conv.tier, conv.pivot)
  <1>1. /\ conv.goal \in Goals /\ conv.tier \in {"fresh", "closest"} /\ config \in Configs
        /\ Probes(conv.goal, conv.tier) \in Nat /\ conv.probe \in Nat
        /\ conv.pivot \in Nat
    BY Searching DEF Searches, Typed, TypeOK
  <1> DEFINE leg == Leg(conv)
             last == Probes(conv.goal, conv.tier)
  <1>2. \A n \in 1..(conv.probe - 1) : Matches(conv.before, conv.goal, conv.tier, leg, n) = {}
    BY DEF Passed
  <1>3. ASSUME NEW n \in 1..last PROVE Matches(conv.before, conv.goal, conv.tier, leg, n) = {}
    <2> HIDE DEF leg
    <2>1. last \in Nat /\ conv.probe >= last
      BY <1>1 DEF LastProbe
    <2> HIDE DEF last
    <2>2. CASE n < conv.probe
      <3>1. n \in 1..(conv.probe - 1)
        BY <1>1, <2>1, <2>2
      <3> QED
        BY <1>2, <3>1
    <2>3. CASE ~(n < conv.probe)
      <3>1. n = conv.probe /\ conv.probe <= last
        BY <1>1, <2>1, <2>3
      <3> QED
        BY <3>1, NothingToFind DEF leg, last
    <2> QED
      BY <2>2, <2>3
  <1> HIDE DEF leg
  <1>4. NoStep(conv, conv.tier, leg[1], leg[2])
    BY <1>1, <1>3, UnmatchedLeg DEF NoStep
  <1>5. CASE conv.pivot = 0
    <2>1. leg[1] = conv.goal.of /\ leg[2] = conv.goal.in
      BY <1>5 DEF leg, Leg
    <2> QED
      BY <1>4, <1>5, <2>1 DEF NoPath
  <1>6. CASE conv.pivot # 0 /\ conv.half = <<>>
    <2>1. leg[1] = conv.goal.of /\ leg[2] = Pivots(conv.goal)[conv.pivot]
      BY <1>1, <1>6 DEF leg, Leg
    <2> QED
      BY <1>4, <1>6, <2>1 DEF NoPath
  <1>7. CASE conv.pivot # 0 /\ conv.half # <<>>
    <2>1. leg[1] = Pivots(conv.goal)[conv.pivot] /\ leg[2] = conv.goal.in
      BY <1>1, <1>7 DEF leg, Leg
    <2> QED
      BY <1>4, <1>7, <2>1 DEF NoPath
  <1> QED
    BY <1>5, <1>6, <1>7

LEMMA PassedConvert ==
    ASSUME Typed, NEW goal \in Goals, Convert(goal)
    PROVE  Passed(conv')
  <1>1. /\ conv'.pivot = 0 /\ conv'.tier = "fresh" /\ conv'.probe = 1
        /\ conv'.goal = goal
        /\ conv'.pc = "done" => goal.of = goal.in
    BY DEF Convert
  <1>2. 0..(0 - 1) = {} /\ 1..(1 - 1) = {}
    OBVIOUS
  <1> QED
    BY <1>1, <1>2 DEF Passed

LEMMA PassedFindRate ==
    ASSUME Typed, Passed(conv), FindRate
    PROVE  Passed(conv')
  <1>1. conv \in Searches /\ conv.pc = "running"
    BY Searching DEF FindRate
  <1>2. PICK step \in Found :
           conv' = IF conv.pivot > 0 /\ conv.half = <<>>
                   THEN [conv EXCEPT !.half = <<step>>, !.probe = 1]
                   ELSE [conv EXCEPT !.pc = "done", !.path = conv.half \o <<step>>]
    BY DEF FindRate
  <1>3. /\ conv'.pivot = conv.pivot /\ conv'.tier = conv.tier /\ conv'.goal = conv.goal
        /\ conv'.before = conv.before
        /\ \/ conv'.pc = "running" /\ conv'.probe = 1
           \/ conv'.pc = "done" /\ conv'.path = conv.half \o <<step>>
    BY <1>1, <1>2 DEF Searches
  <1>4. conv.half \o <<step>> # <<>>
    <2>1. step \in Steps
      BY <1>1, FoundTypes DEF Typed
    <2>2. /\ conv.half \in Seq(Steps) /\ <<step>> \in Seq(Steps) /\ Len(<<step>>) = 1
          /\ Len(conv.half) \in Nat
      BY <1>1, <2>1, LenProperties DEF Searches
    <2>3. Len(conv.half \o <<step>>) = Len(conv.half) + 1
      BY <2>2, ConcatProperties
    <2>4. Len(conv.half \o <<step>>) # 0
      BY <2>2, <2>3
    <2> QED
      BY <2>4
  <1>5. ASSUME NEW tier, NEW p PROVE NoPath(conv', tier, p) <=> NoPath(conv, tier, p)
    BY <1>3 DEF NoPath, NoStep
  <1>6. 1..(1 - 1) = {}
    OBVIOUS
  <1> QED
    BY <1>3, <1>4, <1>5, <1>6 DEF Passed

LEMMA PassedNextProbe ==
    ASSUME Typed, TableInv, KeptInv, Passed(conv), NextProbe
    PROVE  Passed(conv')
  <1>1. /\ conv \in Searches /\ conv.pc = "running" /\ Found = {} /\ ~LastProbe
        /\ conv' = [conv EXCEPT !.probe = conv.probe + 1]
        /\ conv.probe \in Nat /\ Probes(conv.goal, conv.tier) \in Nat
    BY Searching DEF NextProbe, Searches
  <1>2. /\ conv'.pivot = conv.pivot /\ conv'.tier = conv.tier /\ conv'.goal = conv.goal
        /\ conv'.before = conv.before /\ conv'.pc = "running" /\ conv'.half = conv.half
        /\ conv'.probe = conv.probe + 1
    BY <1>1 DEF Searches
  <1>3. ASSUME NEW tier, NEW p PROVE NoPath(conv', tier, p) <=> NoPath(conv, tier, p)
    BY <1>2 DEF NoPath, NoStep
  <1>4. Leg(conv') = Leg(conv)
    BY <1>2 DEF Leg
  <1>5. Matches(conv.before, conv.goal, conv.tier, Leg(conv), conv.probe) = {}
    BY <1>1, NothingToFind DEF LastProbe
  <1>6. \A n \in 1..(conv.probe - 1) : Matches(conv.before, conv.goal, conv.tier, Leg(conv), n) = {}
    BY <1>1 DEF Passed
  <1>7. ASSUME NEW n \in 1..(conv'.probe - 1)
        PROVE  Matches(conv.before, conv.goal, conv.tier, Leg(conv), n) = {}
    <2>1. n = conv.probe \/ n \in 1..(conv.probe - 1)
      BY <1>1, <1>2
    <2> QED
      BY <1>5, <1>6, <2>1
  <1> QED
    BY <1>2, <1>3, <1>4, <1>7 DEF Passed

LEMMA PassedNextPivot ==
    ASSUME Typed, TableInv, KeptInv, Passed(conv), NextPivot
    PROVE  Passed(conv')
  <1>1. /\ conv \in Searches /\ conv.pc = "running" /\ Found = {} /\ LastProbe
        /\ conv' = [conv EXCEPT !.pivot = conv.pivot + 1, !.half = <<>>, !.probe = 1]
        /\ conv.pivot \in Nat
    BY Searching DEF NextPivot, Searches
  <1>2. /\ conv'.pivot = conv.pivot + 1 /\ conv'.tier = conv.tier /\ conv'.goal = conv.goal
        /\ conv'.before = conv.before /\ conv'.pc = "running" /\ conv'.probe = 1
    BY <1>1 DEF Searches
  <1>3. ASSUME NEW tier, NEW p PROVE NoPath(conv', tier, p) <=> NoPath(conv, tier, p)
    BY <1>2 DEF NoPath, NoStep
  <1>4. NoPath(conv, conv.tier, conv.pivot)
    BY <1>1, PivotPassed
  <1>5. ASSUME NEW p \in 0..(conv'.pivot - 1) PROVE NoPath(conv, conv.tier, p)
    <2>1. p = conv.pivot \/ p \in 0..(conv.pivot - 1)
      BY <1>1, <1>2
    <2> QED
      BY <1>4, <2>1 DEF Passed
  <1>6. 1..(1 - 1) = {}
    OBVIOUS
  <1> QED
    BY <1>2, <1>3, <1>5, <1>6 DEF Passed

LEMMA PassedNextTier ==
    ASSUME Typed, TableInv, KeptInv, Passed(conv), NextTier
    PROVE  Passed(conv')
  <1>1. /\ conv \in Searches /\ conv.pc = "running" /\ Found = {} /\ LastProbe
        /\ conv' = IF conv.tier = "closest" THEN [conv EXCEPT !.pc = "done"]
                   ELSE [conv EXCEPT !.tier = "closest", !.pivot = 0, !.half = <<>>, !.probe = 1]
        /\ conv.pivot = Len(Pivots(conv.goal)) /\ conv.pivot \in Nat
        /\ conv.tier \in {"fresh", "closest"}
    BY Searching DEF NextTier, Searches
  <1>2. /\ conv'.tier = "closest" /\ conv'.goal = conv.goal /\ conv'.before = conv.before
        /\ \/ conv.tier = "closest" /\ conv'.pc = "done" /\ conv'.pivot = conv.pivot
           \/ /\ conv.tier = "fresh" /\ conv'.pc = "running"
              /\ conv'.pivot = 0 /\ conv'.probe = 1
    BY <1>1 DEF Searches
  <1>3. ASSUME NEW tier, NEW p PROVE NoPath(conv', tier, p) <=> NoPath(conv, tier, p)
    BY <1>2 DEF NoPath, NoStep
  <1>4. NoPath(conv, conv.tier, conv.pivot)
    BY <1>1, PivotPassed
  <1>5. ASSUME NEW p \in 0..Len(Pivots(conv.goal)) PROVE NoPath(conv, conv.tier, p)
    <2>1. p = conv.pivot \/ p \in 0..(conv.pivot - 1)
      BY <1>1
    <2> QED
      BY <1>4, <2>1 DEF Passed
  <1>6. 1..(1 - 1) = {} /\ 0..(0 - 1) = {}
    OBVIOUS
  <1>7. CASE conv.tier = "closest"
    <2>1. conv'.pc = "done" /\ conv'.pivot = conv.pivot
      BY <1>2, <1>7
    <2> QED
      BY <1>2, <1>3, <1>5, <1>7, <2>1 DEF Passed
  <1>8. CASE conv.tier = "fresh"
    <2>1. conv'.pc = "running" /\ conv'.pivot = 0 /\ conv'.probe = 1
      BY <1>2, <1>8
    <2> QED
      BY <1>2, <1>3, <1>5, <1>6, <1>8, <2>1 DEF Passed
  <1> QED
    BY <1>1, <1>7, <1>8

LEMMA PassedNext == Typed /\ TableInv /\ KeptInv /\ PassedInv /\ [Next]_vars => PassedInv'
  <1> SUFFICES ASSUME Typed, TableInv, KeptInv, PassedInv, [Next]_vars PROVE PassedInv'
    OBVIOUS
  <1>1. config' = config
    BY WritesKeepTypes DEF Next, Write, vars, Convert, FindRate, NextProbe, NextPivot, NextTier
  <1>2. conv'.pc # "waiting" => Passed(conv')
    <2>1. CASE \E goal \in Goals : Convert(goal)
      BY <2>1, PassedConvert
    <2>2. CASE FindRate \/ NextProbe \/ NextPivot \/ NextTier
      <3>1. Passed(conv)
        BY <2>2 DEF PassedInv, FindRate, NextProbe, NextPivot, NextTier
      <3> QED
        BY <2>2, <3>1, PassedFindRate, PassedNextProbe, PassedNextPivot, PassedNextTier
    <2>3. CASE Write \/ UNCHANGED vars
      <3>1. conv' = conv
        BY <2>3, WritesKeepTypes DEF vars
      <3> QED
        BY <3>1 DEF PassedInv
    <2> QED
      BY <2>1, <2>2, <2>3 DEF Next, Write
  <1> QED
    BY <1>1, <1>2, SamePassed DEF PassedInv

-----------------------------------------------------------------------------
(* Ranks. *)

LEMMA BeforeAppended ==
    ASSUME NEW p \in Seq(Int), NEW q \in Seq(Int), NEW s \in Seq(Int), NEW t \in Seq(Int),
           Len(p) = Len(q), Before(p, q)
    PROVE  Before(p \o s, q \o t)
  <1>1. PICK n \in DOMAIN p : p[n] < q[n] /\ \A m \in 1..(n - 1) : p[m] = q[m]
    BY DEF Before
  <1>2. n \in 1..Len(p) /\ Len(p) \in Nat /\ Len(s) \in Nat /\ Len(t) \in Nat
    BY <1>1, LenProperties
  <1>3. /\ p \o s \in Seq(Int) /\ Len(p \o s) = Len(p) + Len(s)
        /\ \A m \in 1..Len(p) : (p \o s)[m] = p[m]
    <2>1. /\ p \o s \in Seq(Int) /\ Len(p \o s) = Len(p) + Len(s)
          /\ \A m \in 1..(Len(p) + Len(s)) : (p \o s)[m] = IF m <= Len(p) THEN p[m] ELSE s[m - Len(p)]
      BY ConcatProperties
    <2>2. ASSUME NEW m \in 1..Len(p) PROVE m \in 1..(Len(p) + Len(s)) /\ m <= Len(p)
      BY <1>2
    <2> QED
      BY <2>1, <2>2
  <1>4. \A m \in 1..Len(p) : (q \o t)[m] = q[m]
    <2>1. \A m \in 1..(Len(q) + Len(t)) : (q \o t)[m] = IF m <= Len(q) THEN q[m] ELSE t[m - Len(q)]
      BY ConcatProperties
    <2>2. ASSUME NEW m \in 1..Len(p) PROVE m \in 1..(Len(q) + Len(t)) /\ m <= Len(q)
      BY <1>2
    <2> QED
      BY <2>1, <2>2
  <1>5. DOMAIN (p \o s) = 1..Len(p \o s)
    BY <1>3, LenProperties
  <1>6. n \in DOMAIN (p \o s) /\ (p \o s)[n] < (q \o t)[n]
    BY <1>1, <1>2, <1>3, <1>4, <1>5
  <1>7. ASSUME NEW m \in 1..(n - 1) PROVE (p \o s)[m] = (q \o t)[m]
    <2>1. m \in 1..Len(p)
      BY <1>2
    <2> QED
      BY <1>1, <1>3, <1>4, <2>1
  <1> QED
    BY <1>6, <1>7 DEF Before

LEMMA BeforeBehind ==
    ASSUME NEW r \in Seq(Int), NEW p \in Seq(Int), NEW q \in Seq(Int),
           Len(p) = Len(q), Before(p, q)
    PROVE  Before(r \o p, r \o q)
  <1>1. PICK n \in DOMAIN p : p[n] < q[n] /\ \A m \in 1..(n - 1) : p[m] = q[m]
    BY DEF Before
  <1>2. n \in 1..Len(p) /\ Len(p) \in Nat /\ Len(r) \in Nat
    BY <1>1, LenProperties
  <1> DEFINE k == Len(r) + n
  <1>3. /\ r \o p \in Seq(Int) /\ Len(r \o p) = Len(r) + Len(p)
        /\ \A m \in 1..(Len(r) + Len(p)) : (r \o p)[m] = IF m <= Len(r) THEN r[m] ELSE p[m - Len(r)]
    BY ConcatProperties
  <1>4. \A m \in 1..(Len(r) + Len(p)) : (r \o q)[m] = IF m <= Len(r) THEN r[m] ELSE q[m - Len(r)]
    BY ConcatProperties
  <1>5. DOMAIN (r \o p) = 1..(Len(r) + Len(p))
    BY <1>3, LenProperties
  <1>6. k \in 1..(Len(r) + Len(p)) /\ ~(k <= Len(r)) /\ k - Len(r) = n
    BY <1>2
  <1>7. k \in DOMAIN (r \o p) /\ (r \o p)[k] < (r \o q)[k]
    <2> HIDE DEF k
    <2> QED
      BY <1>1, <1>3, <1>4, <1>5, <1>6
  <1>8. ASSUME NEW m \in 1..(k - 1) PROVE (r \o p)[m] = (r \o q)[m]
    <2>1. m \in 1..(Len(r) + Len(p)) /\ (~(m <= Len(r)) => m - Len(r) \in 1..(n - 1))
      <3> DEFINE front == Len(r)
                 width == Len(p)
      <3>1. m \in 1..(front + n - 1) /\ n \in 1..width /\ width \in Nat /\ front \in Nat
        BY <1>2
      <3> HIDE DEF front, width, k
      <3>2. /\ m \in Int /\ 1 <= m /\ m <= front + n - 1
            /\ n \in Int /\ n <= width /\ width \in Int /\ front \in Int
        BY <3>1
      <3>3. m \in 1..(front + width)
        BY <3>2
      <3>4. ASSUME ~(m <= front) PROVE m - front \in 1..(n - 1)
        BY <3>2, <3>4
      <3>5. m \in 1..(front + width) /\ (~(m <= front) => m - front \in 1..(n - 1))
        BY <3>3, <3>4
      <3> QED
        BY <3>5 DEF front, width
    <2> HIDE DEF k
    <2> QED
      BY <1>1, <1>3, <1>4, <2>1
  <1> QED
    BY <1>7, <1>8 DEF Before

Turned(divide) == IF divide THEN 1 ELSE 0

LEMMA ClosestRankIs ==
    ASSUME NEW row \in Rows, NEW S, NEW chain \in Seq(S), NEW at \in Nat
    PROVE  ClosestRank(row, at, chain) \in Seq(Int) /\ Len(ClosestRank(row, at, chain)) = 4
  <1> DEFINE place == Position(chain, row.source)
             near == Proximity(row, at)
             kind == IF IsPolled(row) THEN 0 ELSE 1
  <1>1. place \in Nat
    BY PositionIsFirst
  <1>2. near \in Nat
    BY ProximityIsNumber
  <1>3. row.id \in Nat
    BY RowTypes
  <1>4. ClosestRank(row, at, chain) = <<near, place, kind, row.id>>
    BY DEF ClosestRank
  <1> HIDE DEF place, near
  <1>5. <<near, place, kind, row.id>> \in Seq(Int) /\ Len(<<near, place, kind, row.id>>) = 4
    BY <1>1, <1>2, <1>3
  <1> QED
    BY <1>4, <1>5

IsRank(rank) == rank \in Seq(Int) /\ Len(rank) = 5

LEMMA StepRankIs ==
    ASSUME NEW step, step.row \in Rows, NEW at \in Nat, NEW S, NEW chain \in Seq(S)
    PROVE  IsRank(StepRank(step, chain, at))
  <1> DEFINE row == step.row
             place == Position(chain, row.source)
             age == Forever - row.from
             closest == ClosestRank(row, at, chain)
             turn == Turned(step.divide)
  <1>1. place \in Nat
    BY PositionIsFirst
  <1>2. age \in Int
    <2>1. row.from \in Nat
      BY RowTypes
    <2> QED
      BY <2>1 DEF Forever
  <1>3. closest \in Seq(Int) /\ Len(closest) = 4
    <2> HIDE DEF row
    <2>1. row \in Rows
      BY DEF row
    <2> QED
      BY <2>1, ClosestRankIs
  <1>4. turn \in Int
    BY DEF Turned
  <1>5. StepRank(step, chain, at) = IF step.tier = "fresh" THEN <<place, turn, age, 0, 0>>
                                    ELSE <<turn>> \o closest
    BY DEF StepRank, Turned
  <1> HIDE DEF row, place, age, turn
  <1>6. <<place, turn, age, 0, 0>> \in Seq(Int) /\ Len(<<place, turn, age, 0, 0>>) = 5
    BY <1>1, <1>2, <1>4
  <1>7. <<turn>> \o closest \in Seq(Int) /\ Len(<<turn>> \o closest) = 5
    <2> DEFINE one == <<turn>>
    <2>1. one \in Seq(Int) /\ Len(one) = 1
      BY <1>4
    <2> HIDE DEF one, closest
    <2>2. one \o closest \in Seq(Int) /\ Len(one \o closest) = Len(one) + Len(closest)
      BY <1>3, <2>1, ConcatProperties
    <2>3. Len(one \o closest) = 5
      BY <1>3, <2>1, <2>2
    <2> QED
      BY <2>2, <2>3 DEF one
  <1> QED
    BY <1>5, <1>6, <1>7 DEF IsRank

-----------------------------------------------------------------------------
(* The ranked paths. *)

Number(tier) == IF tier = "fresh" THEN 0 ELSE 1

DirectPath(tier, step, chain, at) ==
    [path |-> <<step>>, rank |-> <<Number(tier), 0>> \o StepRank(step, chain, at)]

PathOver(tier, p, left, right, chain, at) ==
    [path |-> <<left, right>>,
     rank |-> <<Number(tier), p>> \o StepRank(left, chain, at) \o StepRank(right, chain, at)]

LEMMA RankedAre ==
    ASSUME config \in Configs, NEW table, NEW goal, NEW chain, NEW known
    PROVE  known \in RankedPaths(table, goal, chain) <=>
              \E tier \in {"fresh", "closest"} :
                 \/ \E step \in StepsOf(table, tier, chain, goal.at, goal.of, goal.in) :
                       known = DirectPath(tier, step, chain, goal.at)
                 \/ \E p \in 1..Len(Pivots(goal)) :
                    \E left \in StepsOf(table, tier, chain, goal.at, goal.of, Pivots(goal)[p]) :
                    \E right \in StepsOf(table, tier, chain, goal.at, Pivots(goal)[p], goal.in) :
                       known = PathOver(tier, p, left, right, chain, goal.at)
  <1> DEFINE rank(step) == StepRank(step, chain, goal.at)
             direct(tier) ==
               {[path |-> <<step>>, rank |-> <<Number(tier), 0>> \o rank(step)] :
                   step \in StepsOf(table, tier, chain, goal.at, goal.of, goal.in)}
             over(tier, n) ==
               {[path |-> <<left, right>>, rank |-> <<Number(tier), n>> \o rank(left) \o rank(right)] :
                   left \in StepsOf(table, tier, chain, goal.at, goal.of, Pivots(goal)[n]),
                   right \in StepsOf(table, tier, chain, goal.at, Pivots(goal)[n], goal.in)}
  <1>1. DOMAIN Pivots(goal) = 1..Len(Pivots(goal))
    BY PivotsAreSequence
  <1>2. RankedPaths(table, goal, chain) =
           UNION {direct(tier) \cup UNION {over(tier, n) : n \in DOMAIN Pivots(goal)} :
                     tier \in {"fresh", "closest"}}
    BY DEF RankedPaths, Number
  <1>3. ASSUME NEW tier
        PROVE  known \in direct(tier) <=>
                  \E step \in StepsOf(table, tier, chain, goal.at, goal.of, goal.in) :
                     known = DirectPath(tier, step, chain, goal.at)
    BY Zenon DEF DirectPath
  <1>4. ASSUME NEW tier, NEW n
        PROVE  known \in over(tier, n) <=>
                  \E left \in StepsOf(table, tier, chain, goal.at, goal.of, Pivots(goal)[n]) :
                  \E right \in StepsOf(table, tier, chain, goal.at, Pivots(goal)[n], goal.in) :
                     known = PathOver(tier, n, left, right, chain, goal.at)
    <2> DEFINE firsts == StepsOf(table, tier, chain, goal.at, goal.of, Pivots(goal)[n])
               seconds == StepsOf(table, tier, chain, goal.at, Pivots(goal)[n], goal.in)
               path(left, right) == PathOver(tier, n, left, right, chain, goal.at)
    <2>1. over(tier, n) = {path(left, right) : left \in firsts, right \in seconds}
      BY DEF PathOver
    <2> HIDE DEF over, firsts, seconds, path
    <2>2. known \in over(tier, n) <=> \E left \in firsts : \E right \in seconds : known = path(left, right)
      BY <2>1
    <2> QED
      BY <2>2 DEF firsts, seconds, path
  <1> HIDE DEF direct, over, rank
  <1>5. known \in RankedPaths(table, goal, chain) <=>
           \E tier \in {"fresh", "closest"} :
              known \in direct(tier) \/ \E n \in DOMAIN Pivots(goal) : known \in over(tier, n)
    BY <1>2
  <1> QED
    BY <1>1, <1>3, <1>4, <1>5, Zenon

LEMMA HeadOfRank ==
    ASSUME NEW a \in Int, NEW b \in Int, NEW rest \in Seq(Int)
    PROVE  SubSeq(<<a, b>> \o rest, 1, 2) = <<a, b>>
  <1> DEFINE head == <<a, b>>
             all == head \o rest
  <1>1. /\ head \in Seq(Int) /\ Len(head) = 2
        /\ head[1] = a /\ head[2] = b
    OBVIOUS
  <1> HIDE DEF head
  <1>2. /\ all \in Seq(Int) /\ Len(all) = 2 + Len(rest) /\ Len(rest) \in Nat
        /\ all[1] = a /\ all[2] = b
    <2>1. Len(rest) \in Nat
      BY LenProperties
    <2>2. /\ all \in Seq(Int) /\ Len(all) = Len(head) + Len(rest)
          /\ \A n \in 1..(Len(head) + Len(rest)) : all[n] = IF n <= Len(head) THEN head[n] ELSE rest[n - Len(head)]
      BY <1>1, ConcatProperties
    <2>3. 1 \in 1..(Len(head) + Len(rest)) /\ 2 \in 1..(Len(head) + Len(rest))
      BY <1>1, <2>1
    <2> QED
      BY <1>1, <2>1, <2>2, <2>3
  <1> HIDE DEF all
  <1>3. /\ SubSeq(all, 1, 2) \in Seq(Int) /\ Len(SubSeq(all, 1, 2)) = 2
        /\ \A n \in 1..2 : SubSeq(all, 1, 2)[n] = all[n]
    BY <1>2, SubSeqProperties
  <1>4. SubSeq(all, 1, 2) = head
    <2>1. \A n \in 1..2 : n = 1 \/ n = 2
      OBVIOUS
    <2>2. \A n \in 1..Len(SubSeq(all, 1, 2)) : SubSeq(all, 1, 2)[n] = head[n]
      BY <1>1, <1>2, <1>3, <2>1
    <2> QED
      BY <1>1, <1>3, <2>2, SeqEqual
  <1> QED
    BY <1>4 DEF head, all


-----------------------------------------------------------------------------
(* Writes never worsen a path. *)

LEMMA StepsAre ==
    ASSUME NEW table \in SUBSET Rows, NEW tier, NEW at \in Nat,
           NEW S, NEW chain \in Seq(S), NEW of, NEW in,
           NEW step \in StepsOf(table, tier, chain, at, of, in)
    PROVE  IsRank(StepRank(step, chain, at))
  <1>1. step.row \in Rows
    BY DEF StepsOf, Step
  <1> QED
    BY <1>1, StepRankIs

LEMMA ConcatOfThree ==
    ASSUME NEW a \in Seq(Int), NEW b \in Seq(Int), NEW c \in Seq(Int)
    PROVE  (a \o b) \o c = a \o (b \o c)
  BY ConcatAssociative

LEMMA OverRank ==
    ASSUME NEW tier, NEW p \in Int, NEW left, NEW right, NEW chain, NEW at,
           StepRank(left, chain, at) \in Seq(Int), StepRank(right, chain, at) \in Seq(Int)
    PROVE  LET tail == StepRank(left, chain, at) \o StepRank(right, chain, at)
           IN  /\ tail \in Seq(Int)
               /\ PathOver(tier, p, left, right, chain, at).rank = <<Number(tier), p>> \o tail
  <1> DEFINE head == <<Number(tier), p>>
             one == StepRank(left, chain, at)
             two == StepRank(right, chain, at)
  <1>1. head \in Seq(Int) /\ one \in Seq(Int) /\ two \in Seq(Int)
    BY DEF Number
  <1>2. PathOver(tier, p, left, right, chain, at).rank = (head \o one) \o two
    BY DEF PathOver
  <1> HIDE DEF head, one, two
  <1>3. one \o two \in Seq(Int)
    BY <1>1, ConcatProperties
  <1>4. (head \o one) \o two = head \o (one \o two)
    <2>1. \A u, v, w \in Seq(Int) : (u \o v) \o w = u \o (v \o w)
      BY ConcatOfThree
    <2> QED
      BY <1>1, <2>1, ZenonT(40)
  <1> QED
    BY <1>2, <1>3, <1>4 DEF head, one, two

\* The form of a path: its rank begins with its tier and its pivot.
Form(known, tier, p, tail, table, goal, chain) ==
    /\ known.rank = <<Number(tier), p>> \o tail
    /\ p = 0 =>
          \E step \in StepsOf(table, tier, chain, goal.at, goal.of, goal.in) :
             known = DirectPath(tier, step, chain, goal.at)
    /\ p # 0 =>
          \E left \in StepsOf(table, tier, chain, goal.at, goal.of, Pivots(goal)[p]) :
          \E right \in StepsOf(table, tier, chain, goal.at, Pivots(goal)[p], goal.in) :
             known = PathOver(tier, p, left, right, chain, goal.at)

LEMMA RankedForms ==
    ASSUME config \in Configs, NEW table \in SUBSET Rows, NEW goal, goal.at \in Nat,
           NEW S, NEW chain \in Seq(S), NEW known \in RankedPaths(table, goal, chain)
    PROVE  \E tier \in {"fresh", "closest"}, p \in 0..Len(Pivots(goal)), tail \in Seq(Int) :
              Form(known, tier, p, tail, table, goal, chain)
  <1> DEFINE direct(tier) == StepsOf(table, tier, chain, goal.at, goal.of, goal.in)
             first(tier, p) == StepsOf(table, tier, chain, goal.at, goal.of, Pivots(goal)[p])
             second(tier, p) == StepsOf(table, tier, chain, goal.at, Pivots(goal)[p], goal.in)
             rank(step) == StepRank(step, chain, goal.at)
  <1>1. PICK tier \in {"fresh", "closest"} :
           \/ \E step \in direct(tier) : known = DirectPath(tier, step, chain, goal.at)
           \/ \E p \in 1..Len(Pivots(goal)) :
              \E left \in first(tier, p) : \E right \in second(tier, p) :
                 known = PathOver(tier, p, left, right, chain, goal.at)
    BY RankedAre
  <1>2. Len(Pivots(goal)) \in Nat
    BY PivotsAreSequence
  <1>3. ASSUME NEW step \in direct(tier), known = DirectPath(tier, step, chain, goal.at)
        PROVE  rank(step) \in Seq(Int) /\ known.rank = <<Number(tier), 0>> \o rank(step)
    <2>1. IsRank(rank(step))
      BY StepsAre
    <2> QED
      BY <1>3, <2>1 DEF DirectPath, IsRank
  <1>4. ASSUME NEW p \in 1..Len(Pivots(goal)), NEW left \in first(tier, p),
               NEW right \in second(tier, p), known = PathOver(tier, p, left, right, chain, goal.at)
        PROVE  \E tail \in Seq(Int) : known.rank = <<Number(tier), p>> \o tail
    <2>1. IsRank(rank(left))
      BY StepsAre
    <2>2. IsRank(rank(right))
      BY StepsAre
    <2>3. rank(left) \in Seq(Int) /\ rank(right) \in Seq(Int) /\ p \in Int
      BY <1>2, <2>1, <2>2 DEF IsRank
    <2>4. LET tail == rank(left) \o rank(right)
          IN  /\ tail \in Seq(Int)
              /\ PathOver(tier, p, left, right, chain, goal.at).rank = <<Number(tier), p>> \o tail
      BY <2>3, OverRank, SMTT(40)
    <2> QED
      BY <1>4, <2>4
  <1> HIDE DEF direct, first, second, rank
  <1>5. CASE \E step \in direct(tier) : known = DirectPath(tier, step, chain, goal.at)
    <2>1. 0 \in 0..Len(Pivots(goal))
      BY <1>2
    <2>2. \E tail \in Seq(Int) : known.rank = <<Number(tier), 0>> \o tail
      BY <1>3, <1>5
    <2> QED
      BY <1>5, <2>1, <2>2 DEF direct, Form
  <1>6. ASSUME NEW p \in 1..Len(Pivots(goal)), NEW left \in first(tier, p),
               NEW right \in second(tier, p), known = PathOver(tier, p, left, right, chain, goal.at)
        PROVE  /\ \E tail \in Seq(Int) : known.rank = <<Number(tier), p>> \o tail
               /\ p \in 0..Len(Pivots(goal)) /\ p # 0
    <2>1. p \in 0..Len(Pivots(goal)) /\ p # 0
      BY <1>2
    <2> QED
      BY <1>4, <1>6, <2>1
  <1> QED
    BY <1>1, <1>5, <1>6 DEF first, second, Form

LEMMA RankBegins ==
    ASSUME config \in Configs, NEW table \in SUBSET Rows, NEW goal, goal.at \in Nat,
           NEW S, NEW chain \in Seq(S), NEW known \in RankedPaths(table, goal, chain)
    PROVE  \E tier \in {"fresh", "closest"}, p \in 0..Len(Pivots(goal)) :
              /\ SubSeq(known.rank, 1, 2) = <<Number(tier), p>>
              /\ IF p = 0 THEN StepsOf(table, tier, chain, goal.at, goal.of, goal.in) # {}
                 ELSE /\ StepsOf(table, tier, chain, goal.at, goal.of, Pivots(goal)[p]) # {}
                      /\ StepsOf(table, tier, chain, goal.at, Pivots(goal)[p], goal.in) # {}
  <1>1. PICK tier \in {"fresh", "closest"}, p \in 0..Len(Pivots(goal)), tail \in Seq(Int) :
           /\ known.rank = <<Number(tier), p>> \o tail
           /\ p = 0 => StepsOf(table, tier, chain, goal.at, goal.of, goal.in) # {}
           /\ p # 0 => /\ StepsOf(table, tier, chain, goal.at, goal.of, Pivots(goal)[p]) # {}
                       /\ StepsOf(table, tier, chain, goal.at, Pivots(goal)[p], goal.in) # {}
    <2>1. PICK tier \in {"fresh", "closest"}, p \in 0..Len(Pivots(goal)), tail \in Seq(Int) :
             Form(known, tier, p, tail, table, goal, chain)
      BY RankedForms
    <2>2. p = 0 => StepsOf(table, tier, chain, goal.at, goal.of, goal.in) # {}
      BY <2>1 DEF Form
    <2>3. p # 0 => /\ StepsOf(table, tier, chain, goal.at, goal.of, Pivots(goal)[p]) # {}
                   /\ StepsOf(table, tier, chain, goal.at, Pivots(goal)[p], goal.in) # {}
      BY <2>1 DEF Form
    <2> QED
      BY <2>1, <2>2, <2>3 DEF Form
  <1>2. Number(tier) \in Int /\ p \in Int
    BY PivotsAreSequence DEF Number
  <1>3. SubSeq(known.rank, 1, 2) = <<Number(tier), p>>
    BY <1>1, <1>2, HeadOfRank
  <1> QED
    BY <1>1, <1>3

LEMMA PassedNeverWorsens == Typed /\ PassedInv => WritesNeverWorsen
  <1> SUFFICES ASSUME Typed, PassedInv, Searched,
                      NEW chain \in WholeChains(conv.goal.entry),
                      NEW known \in RankedPaths(conv.before, conv.goal, chain)
               PROVE  /\ conv.path # <<>>
                      /\ ~ Before(SubSeq(known.rank, 1, 2),
                                  <<IF conv.tier = "fresh" THEN 0 ELSE 1, conv.pivot>>)
    BY DEF WritesNeverWorsen
  <1>1. /\ conv.pc = "done" /\ conv.goal.of # conv.goal.in /\ Passed(conv)
        /\ conv.goal \in Goals /\ conv.tier \in {"fresh", "closest"} /\ conv.pivot \in Nat
        /\ conv.before \in SUBSET Rows /\ config \in Configs
        /\ conv.pivot \in 0..Len(Pivots(conv.goal))
    BY DEF Searched, PassedInv, Typed, TypeOK, Searches
  <1>2. chain = ChainAfter(conv.goal.entry) /\ chain \in Seq(DOMAIN config)
    BY <1>1, WholeChainIsIt, ChainIs
  <1>3. conv.goal.at \in Nat
    BY <1>1, ConversionAssumption, TimeIsNumber
  <1>4. PICK tier \in {"fresh", "closest"}, p \in 0..Len(Pivots(conv.goal)) :
           /\ SubSeq(known.rank, 1, 2) = <<Number(tier), p>>
           /\ IF p = 0 THEN StepsOf(conv.before, tier, chain, conv.goal.at, conv.goal.of, conv.goal.in) # {}
              ELSE /\ StepsOf(conv.before, tier, chain, conv.goal.at, conv.goal.of, Pivots(conv.goal)[p]) # {}
                   /\ StepsOf(conv.before, tier, chain, conv.goal.at, Pivots(conv.goal)[p], conv.goal.in) # {}
    <2> DEFINE goal == conv.goal
               table == conv.before
    <2>1. /\ table \in SUBSET Rows /\ goal.at \in Nat /\ chain \in Seq(DOMAIN config)
          /\ known \in RankedPaths(table, goal, chain) /\ config \in Configs
      BY <1>1, <1>2, <1>3
    <2> HIDE DEF goal, table
    <2>2. \E tier \in {"fresh", "closest"}, p \in 0..Len(Pivots(goal)) :
             /\ SubSeq(known.rank, 1, 2) = <<Number(tier), p>>
             /\ IF p = 0 THEN StepsOf(table, tier, chain, goal.at, goal.of, goal.in) # {}
                ELSE /\ StepsOf(table, tier, chain, goal.at, goal.of, Pivots(goal)[p]) # {}
                     /\ StepsOf(table, tier, chain, goal.at, Pivots(goal)[p], goal.in) # {}
      BY <2>1, RankBegins
    <2> QED
      BY <2>2 DEF goal, table
  <1>5. ~NoPath(conv, tier, p)
    BY <1>2, <1>4 DEF NoPath, NoStep
  <1>6. conv.path # <<>>
    BY <1>1, <1>4, <1>5 DEF Passed
  <1>7. tier = "fresh" => conv.tier = "fresh"
    BY <1>1, <1>4, <1>5 DEF Passed
  <1>8. tier = conv.tier => ~(p < conv.pivot)
    <2>1. ASSUME p < conv.pivot PROVE p \in 0..(conv.pivot - 1)
      <3>1. Len(Pivots(conv.goal)) \in Nat
        BY <1>1, PivotsAreSequence
      <3> QED
        BY <1>1, <2>1, <3>1
    <2> QED
      BY <1>1, <1>5, <2>1 DEF Passed
  <1>9. ~ Before(<<Number(tier), p>>, <<Number(conv.tier), conv.pivot>>)
    <2> SUFFICES ASSUME Before(<<Number(tier), p>>, <<Number(conv.tier), conv.pivot>>) PROVE FALSE
      OBVIOUS
    <2>1. \/ Number(tier) < Number(conv.tier)
          \/ Number(tier) = Number(conv.tier) /\ p < conv.pivot
      <3>1. PICK n \in {1, 2} : /\ <<Number(tier), p>>[n] < <<Number(conv.tier), conv.pivot>>[n]
                                /\ \A m \in 1..(n - 1) : <<Number(tier), p>>[m] = <<Number(conv.tier), conv.pivot>>[m]
        BY DEF Before
      <3>2. CASE n = 1
        BY <3>1, <3>2
      <3>3. CASE n = 2
        <4>1. 1 \in 1..(n - 1)
          BY <3>3
        <4> QED
          BY <3>1, <3>3, <4>1
      <3> QED
        BY <3>2, <3>3
    <2>2. CASE tier = conv.tier
      BY <1>8, <2>1, <2>2 DEF Number
    <2>3. CASE tier # conv.tier
      <3>1. tier = "closest" /\ conv.tier = "fresh"
        BY <1>1, <1>7, <2>3
      <3> QED
        BY <2>1, <3>1 DEF Number
    <2> QED
      BY <2>2, <2>3
  <1> QED
    BY <1>4, <1>6, <1>9 DEF Number

LEMMA InitSearch == Init => Typed /\ TableInv /\ KeptInv /\ PassedInv
  <1> QED
    BY InitTyped DEF Init, TableInv, KeptInv, PassedInv

\* Rates that are written while a conversion looks for its path never cost it a path, nor a
\* tier, nor the direct leg or an earlier pivot it could have had when it began.
THEOREM WritesCostNothing == Spec => []WritesNeverWorsen
  <1> DEFINE SearchInv == Typed /\ TableInv /\ KeptInv /\ PassedInv
  <1>1. Init => SearchInv
    BY InitSearch
  <1>2. SearchInv /\ [Next]_vars => SearchInv'
    BY TypedNext, TableNext, KeptNext, PassedNext
  <1>3. SearchInv => WritesNeverWorsen
    BY PassedNeverWorsens
  <1> QED
    BY <1>1, <1>2, <1>3, PTL DEF Spec

-----------------------------------------------------------------------------
(* When no rate is written meanwhile, a statement finds the best step of its leg. *)

\* The least step of a leg.
Least(step, table, tier, chain, at, of, in) ==
    /\ step \in StepsOf(table, tier, chain, at, of, in)
    /\ \A other \in StepsOf(table, tier, chain, at, of, in) \ {step} :
          Before(StepRank(step, chain, at), StepRank(other, chain, at))

IsBest(step, table, tier, goal, of, in) ==
    Least(step, table, tier, ChainAfter(goal.entry), goal.at, of, in)

\* What a statement matches is a step of its leg.
LEMMA MatchIsStep ==
    ASSUME config \in Configs, NEW table, NEW goal, NEW tier \in {"fresh", "closest"}, NEW leg,
           NEW n \in 1..Probes(goal, tier), NEW row \in Matches(table, goal, tier, leg, n)
    PROVE  Step(row, n % 2 = 0, tier) \in
              StepsOf(table, tier, ChainAfter(goal.entry), goal.at, leg[1], leg[2])
  <1> DEFINE chain == ChainAfter(goal.entry)
             divide == n % 2 = 0
             step == Step(row, divide, tier)
  <1>1. /\ row \in table
        /\ Quotes(row, From(leg, n), To(leg, n)) /\ row.source \in Asks(goal, tier, n)
        /\ IF tier = "fresh" THEN IsFresh(row, goal.at) ELSE Proximity(row, goal.at) <= MaxAge
    BY DEF Matches, Fits
  <1>2. IF divide THEN Quotes(row, leg[2], leg[1]) ELSE Quotes(row, leg[1], leg[2])
    BY <1>1 DEF From, To
  <1>3. row.source \in ToSet(chain)
    <2>1. CASE tier = "fresh"
      <3>1. Len(chain) \in Nat /\ DOMAIN chain = 1..Len(chain) /\ Probes(goal, tier) = 2 * Len(chain)
        BY <2>1, ProbesAre
      <3>2. (n + 1) \div 2 \in DOMAIN chain
        <4> HIDE DEF chain
        <4> QED
          BY <3>1, SMT
      <3>3. row.source = chain[(n + 1) \div 2]
        BY <1>1, <2>1 DEF Asks
      <3> HIDE DEF chain
      <3> QED
        BY <3>2, <3>3 DEF ToSet
    <2>2. CASE tier # "fresh"
      BY <1>1, <2>2 DEF Asks
    <2> QED
      BY <2>1, <2>2
  <1>4. divide \in BOOLEAN
    OBVIOUS
  <1> HIDE DEF divide, chain
  <1>5. step.row = row /\ step.divide = divide
    BY DEF Step
  <1>6. step \in {Step(r, d, tier) : r \in table, d \in BOOLEAN}
    BY <1>1, <1>4
  <1>7. step \in StepsOf(table, tier, chain, goal.at, leg[1], leg[2])
    <2> HIDE DEF step
    <2> QED
      BY <1>1, <1>2, <1>3, <1>5, <1>6 DEF StepsOf
  <1> QED
    BY <1>7 DEF step, divide, chain

LEMMA BeforeFive ==
    ASSUME NEW a \in Int, NEW b \in Int, NEW c, NEW d, NEW e,
           NEW f \in Int, NEW g \in Int, NEW h, NEW i, NEW j,
           a < f \/ (a = f /\ b < g)
    PROVE  Before(<<a, b, c, d, e>>, <<f, g, h, i, j>>)
  <1> DEFINE p == <<a, b, c, d, e>>
             q == <<f, g, h, i, j>>
  <1>1. p[1] = a /\ p[2] = b /\ q[1] = f /\ q[2] = g /\ DOMAIN p = 1..5
    OBVIOUS
  <1> HIDE DEF p, q
  <1>2. CASE a < f
    <2>1. 1 \in DOMAIN p /\ 1..(1 - 1) = {}
      BY <1>1
    <2> QED
      BY <1>1, <1>2, <2>1 DEF Before, p, q
  <1>3. CASE a = f /\ b < g
    <2>1. 2 \in DOMAIN p /\ \A m \in 1..(2 - 1) : m = 1
      BY <1>1
    <2>2. p[2] < q[2] /\ \A m \in 1..(2 - 1) : p[m] = q[m]
      BY <1>1, <1>3, <2>1
    <2>3. Before(p, q)
      BY <2>1, <2>2 DEF Before
    <2> QED
      BY <2>3 DEF p, q
  <1> QED
    BY <1>2, <1>3

\* The number of the statement that would find a fresh step.
StatementOf(step, chain) ==
    IF step.divide THEN 2 * Position(chain, step.row.source) ELSE 2 * Position(chain, step.row.source) - 1

LEMMA FreshOrder ==
    ASSUME NEW row \in Rows, NEW other \in Rows, NEW d \in BOOLEAN, NEW e \in BOOLEAN,
           NEW S, NEW chain \in Seq(S), NEW at \in Nat,
           StatementOf(Step(row, d, "fresh"), chain) < StatementOf(Step(other, e, "fresh"), chain)
    PROVE  Before(StepRank(Step(row, d, "fresh"), chain, at), StepRank(Step(other, e, "fresh"), chain, at))
  <1> DEFINE k == Position(chain, row.source)
             m == Position(chain, other.source)
  <1>1. k \in Nat /\ m \in Nat
    BY PositionIsFirst
  <1>2. /\ StepRank(Step(row, d, "fresh"), chain, at) = <<k, Turned(d), Forever - row.from, 0, 0>>
        /\ StepRank(Step(other, e, "fresh"), chain, at) = <<m, Turned(e), Forever - other.from, 0, 0>>
    <2>1. StepRank(Step(row, d, "fresh"), chain, at) = <<k, Turned(d), Forever - row.from, 0, 0>>
      BY DEF StepRank, Step, Turned
    <2>2. StepRank(Step(other, e, "fresh"), chain, at) = <<m, Turned(e), Forever - other.from, 0, 0>>
      BY DEF StepRank, Step, Turned
    <2> QED
      BY <2>1, <2>2
  <1>3. (IF d THEN 2 * k ELSE 2 * k - 1) < (IF e THEN 2 * m ELSE 2 * m - 1)
    BY DEF StatementOf, Step
  <1> HIDE DEF k, m
  <1>4. k < m \/ (k = m /\ Turned(d) < Turned(e))
    BY <1>1, <1>3 DEF Turned
  <1>5. Turned(d) \in Int /\ Turned(e) \in Int
    BY DEF Turned
  <1>6. Before(<<k, Turned(d), Forever - row.from, 0, 0>>, <<m, Turned(e), Forever - other.from, 0, 0>>)
    BY <1>1, <1>4, <1>5, BeforeFive
  <1> QED
    BY <1>2, <1>6

LEMMA ClosestOrder ==
    ASSUME NEW row \in Rows, NEW other \in Rows, NEW d \in BOOLEAN, NEW e \in BOOLEAN,
           NEW S, NEW chain \in Seq(S), NEW at \in Nat,
           \/ ~d /\ e
           \/ d = e /\ Before(ClosestRank(row, at, chain), ClosestRank(other, at, chain))
    PROVE  Before(StepRank(Step(row, d, "closest"), chain, at), StepRank(Step(other, e, "closest"), chain, at))
  <1> DEFINE p == ClosestRank(row, at, chain)
             q == ClosestRank(other, at, chain)
             turn == <<Turned(d)>>
             turns == <<Turned(e)>>
  <1>1. /\ StepRank(Step(row, d, "closest"), chain, at) = turn \o p
        /\ StepRank(Step(other, e, "closest"), chain, at) = turns \o q
        /\ p \in Seq(Int) /\ Len(p) = 4 /\ q \in Seq(Int) /\ Len(q) = 4
    <2>1. /\ StepRank(Step(row, d, "closest"), chain, at) = turn \o p
          /\ p \in Seq(Int) /\ Len(p) = 4
      <3>1. StepRank(Step(row, d, "closest"), chain, at) = turn \o p
        BY DEF StepRank, Step, Turned
      <3>2. p \in Seq(Int) /\ Len(p) = 4
        BY ClosestRankIs
      <3> QED
        BY <3>1, <3>2
    <2>2. /\ StepRank(Step(other, e, "closest"), chain, at) = turns \o q
          /\ q \in Seq(Int) /\ Len(q) = 4
      <3>1. StepRank(Step(other, e, "closest"), chain, at) = turns \o q
        BY DEF StepRank, Step, Turned
      <3>2. q \in Seq(Int) /\ Len(q) = 4
        BY ClosestRankIs
      <3> QED
        BY <3>1, <3>2
    <2> QED
      BY <2>1, <2>2
  <1>2. /\ turn \in Seq(Int) /\ Len(turn) = 1 /\ turns \in Seq(Int) /\ Len(turns) = 1
        /\ turn[1] = Turned(d) /\ turns[1] = Turned(e) /\ DOMAIN turn = {1}
        /\ d = e => turn = turns
    BY DEF Turned
  <1> HIDE DEF p, q, turn, turns
  <1>3. CASE ~d /\ e
    <2>1. turn[1] < turns[1] /\ 1..(1 - 1) = {}
      BY <1>2, <1>3 DEF Turned
    <2>2. Before(turn, turns)
      BY <1>2, <2>1 DEF Before
    <2>3. Before(turn \o p, turns \o q)
      BY <1>1, <1>2, <2>2, BeforeAppended
    <2> QED
      BY <1>1, <2>3
  <1>4. CASE d = e /\ Before(p, q)
    <2>1. Before(turn \o p, turn \o q)
      BY <1>1, <1>2, <1>4, BeforeBehind
    <2> QED
      BY <1>1, <1>2, <1>4, <2>1
  <1> QED
    BY <1>3, <1>4 DEF p, q

\* The earlier statements of the leg matched nothing: what this one finds is the best.
LEMMA BestFound ==
    ASSUME Typed, TableInv, Passed(conv), conv.pc = "running", conv.before = rates,
           NEW step \in Found
    PROVE  IsBest(step, rates, conv.tier, conv.goal, Leg(conv)[1], Leg(conv)[2])
  <1> DEFINE goal == conv.goal
             tier == conv.tier
             leg == Leg(conv)
             n == conv.probe
             chain == ChainAfter(goal.entry)
             steps == StepsOf(rates, tier, chain, goal.at, leg[1], leg[2])
             rank(s) == StepRank(s, chain, goal.at)
  <1>1. /\ goal \in Goals /\ tier \in {"fresh", "closest"} /\ config \in Configs
        /\ rates \in SUBSET Rows
        /\ Probes(goal, tier) \in Nat /\ n \in Nat \ {0}
    BY Searching DEF Searches, Typed, TypeOK
  <1>2. n \in 1..Probes(goal, tier) /\ step \in Probe(goal, tier, leg, n)
    <2>1. CurrentLeg = leg
      BY DEF CurrentLeg, Leg
    <2> QED
      BY <1>1, <2>1 DEF Found
  <1>3. \A m \in 1..(n - 1) : Matches(rates, goal, tier, leg, m) = {}
    BY DEF Passed
  <1> HIDE DEF leg, n
  <1>4. PICK row \in rates : /\ step = Step(row, n % 2 = 0, tier)
                             /\ BestMatch(row, rates, goal, tier, leg, n)
    BY <1>1, <1>2, ProbeFinds
  <1>5. row \in Matches(rates, goal, tier, leg, n) /\ row \in Rows
    BY <1>1, <1>4 DEF BestMatch
  <1>6. step \in steps
    BY <1>1, <1>2, <1>4, <1>5, MatchIsStep
  <1>7. goal.at \in Nat /\ chain \in Seq(DOMAIN config)
    BY <1>1, ConversionAssumption, TimeIsNumber, ChainIs
  <1> DEFINE divide == n % 2 = 0
  <1>8. step.row = row /\ step.divide = divide
    BY <1>4 DEF Step
  <1>9. ASSUME NEW other \in steps \ {step} PROVE Before(rank(step), rank(other))
    <2> HIDE DEF rank, goal, tier
    <2>1. /\ other.row \in rates /\ other.divide \in BOOLEAN
          /\ other = Step(other.row, other.divide, tier)
          /\ other.row.source \in ToSet(chain)
          /\ tier = "closest" =>
                other.row \in Matches(rates, goal, tier, leg, IF other.divide THEN 2 ELSE 1)
          /\ tier = "fresh" =>
                \A k \in DOMAIN chain : chain[k] = other.row.source =>
                   other.row \in Matches(rates, goal, tier, leg, IF other.divide THEN 2 * k ELSE 2 * k - 1)
      <3>1. StepMatched(other, rates, goal, tier, leg)
        BY <1>1, StepsAreMatched
      <3> QED
        BY <3>1 DEF StepMatched
    <2>2. other.row \in Rows /\ divide \in BOOLEAN
      BY <1>1, <2>1
    <2>3. other.row # row \/ other.divide # divide
      BY <1>4, <2>1
    <2>4. CASE tier = "closest"
      <3>1. n = 1 \/ n = 2
        <4>1. Probes(goal, tier) = 2
          BY <1>1, <2>4, ProbesAre
        <4> QED
          BY <1>1, <1>2, <4>1
      <3>2. (n = 1 => ~divide) /\ (n = 2 => divide)
        BY SMT
      <3>3. \/ ~divide /\ other.divide
            \/ divide = other.divide /\ other.row \in Matches(rates, goal, tier, leg, n)
        <4>1. CASE n = 1
          BY <2>1, <2>2, <2>4, <3>2, <4>1
        <4>2. CASE n = 2
          <5>1. 1 \in 1..(n - 1)
            BY <4>2
          <5>2. Matches(rates, goal, tier, leg, 1) = {}
            BY <1>3, <5>1
          <5>3. other.divide
            BY <2>1, <2>4, <5>2
          <5> QED
            BY <2>1, <2>4, <3>2, <4>2, <5>3
        <4> QED
          BY <3>1, <4>1, <4>2
      <3>4. \/ ~divide /\ other.divide
            \/ /\ divide = other.divide
               /\ Before(ClosestRank(row, goal.at, chain), ClosestRank(other.row, goal.at, chain))
        BY <1>4, <2>3, <2>4, <3>3 DEF BestMatch
      <3> DEFINE r == other.row
                 e == other.divide
      <3>5. r \in Rows /\ e \in BOOLEAN
        BY <2>1, <2>2
      <3> HIDE DEF r, e, divide, chain
      <3>6. Before(StepRank(Step(row, divide, "closest"), chain, goal.at),
                   StepRank(Step(r, e, "closest"), chain, goal.at))
        BY <1>5, <1>7, <2>2, <3>4, <3>5, ClosestOrder DEF r, e
      <3> QED
        BY <1>4, <2>1, <2>4, <3>6 DEF r, e, divide, rank
    <2>5. CASE tier = "fresh"
      <3> DEFINE j == Position(chain, row.source)
                 k == Position(chain, other.row.source)
                 m == IF other.divide THEN 2 * k ELSE 2 * k - 1
      <3>1. row.source \in ToSet(chain)
        <4>1. StepMatched(step, rates, goal, tier, leg)
          BY <1>1, <1>6, StepsAreMatched
        <4> QED
          BY <1>8, <4>1 DEF StepMatched
      <3>2. /\ j \in DOMAIN chain /\ chain[j] = row.source /\ j \in Nat \ {0}
            /\ \A i \in 1..Len(chain) : chain[i] = row.source => j <= i
        BY <1>7, <3>1, PositionIsFirst, LenProperties
      <3>3. k \in DOMAIN chain /\ chain[k] = other.row.source /\ k \in Nat \ {0}
        BY <1>7, <2>1, PositionIsFirst, LenProperties
      <3>4. other.row \in Matches(rates, goal, tier, leg, m)
        BY <2>1, <2>5, <3>3
      <3> DEFINE i == IF divide THEN 2 * j ELSE 2 * j - 1
      <3>5. row \in Matches(rates, goal, tier, leg, i)
        <4>1. StepMatched(step, rates, goal, tier, leg)
          BY <1>1, <1>6, StepsAreMatched
        <4>2. \A x \in DOMAIN chain : chain[x] = row.source =>
                 row \in Matches(rates, goal, tier, leg, IF divide THEN 2 * x ELSE 2 * x - 1)
          <5> HIDE DEF divide
          <5> QED
            BY <1>8, <2>5, <4>1 DEF StepMatched
        <4> HIDE DEF chain, divide, j
        <4> QED
          BY <3>2, <4>2
      <3>6. i = n
        <4>1. i >= n
          <5>1. i \notin 1..(n - 1)
            BY <1>3, <3>5
          <5>2. i \in Nat \ {0}
            BY <3>2
          <5> HIDE DEF i
          <5> QED
            BY <1>1, <5>1, <5>2
        <4>2. (n + 1) \div 2 \in 1..Len(chain) /\ chain[(n + 1) \div 2] = row.source
          <5>1. Len(chain) \in Nat /\ Probes(goal, tier) = 2 * Len(chain)
            BY <1>1, <2>5, ProbesAre
          <5>2. row.source \in Asks(goal, tier, n)
            BY <1>5 DEF Matches, Fits
          <5>3. chain[(n + 1) \div 2] = row.source
            BY <2>5, <5>2 DEF Asks
          <5> HIDE DEF chain
          <5>4. (n + 1) \div 2 \in 1..Len(chain)
            BY <1>2, <5>1, SMT
          <5> QED
            BY <5>3, <5>4
        <4>3. j <= (n + 1) \div 2
          BY <3>2, <4>2
        <4> HIDE DEF j
        <4> QED
          BY <1>1, <3>2, <4>1, <4>3, SMT
      <3>7. m >= n
        <4>1. m \notin 1..(n - 1)
          BY <1>3, <3>4
        <4>2. m \in Nat \ {0}
          BY <2>1, <3>3
        <4> HIDE DEF m
        <4> QED
          BY <1>1, <4>1, <4>2
      <3>8. m # n
        <4> SUFFICES ASSUME m = n PROVE FALSE
          OBVIOUS
        <4>1. other.row = row
          BY <1>4, <2>5, <3>4 DEF BestMatch
        <4>2. j = k
          BY <4>1
        <4>3. divide = other.divide
          <5> HIDE DEF j, k, divide
          <5> QED
            BY <2>1, <2>2, <3>2, <3>3, <3>6, <4>2
        <4> QED
          BY <2>3, <4>1, <4>3
      <3>9. i < m
        <4>1. m \in Nat
          BY <2>1, <3>3
        <4> HIDE DEF i, m
        <4> QED
          BY <1>1, <3>6, <3>7, <3>8, <4>1
      <3>10. StatementOf(Step(row, divide, "fresh"), chain)
                < StatementOf(Step(other.row, other.divide, "fresh"), chain)
        BY <3>9 DEF StatementOf, Step
      <3> DEFINE r == other.row
                 e == other.divide
      <3>11. r \in Rows /\ e \in BOOLEAN
        BY <2>1, <2>2
      <3>12. StatementOf(Step(row, divide, "fresh"), chain) < StatementOf(Step(r, e, "fresh"), chain)
        BY <3>10
      <3> HIDE DEF r, e, divide, chain
      <3>13. Before(StepRank(Step(row, divide, "fresh"), chain, goal.at),
                    StepRank(Step(r, e, "fresh"), chain, goal.at))
        BY <1>5, <1>7, <2>2, <3>11, <3>12, FreshOrder
      <3> QED
        BY <1>4, <2>1, <2>5, <3>13 DEF r, e, divide, rank
    <2> QED
      BY <1>1, <2>4, <2>5 DEF tier
  <1> QED
    BY <1>6, <1>9 DEF IsBest, Least, leg

-----------------------------------------------------------------------------
(* What a search keeps when no rate is written meanwhile. *)

BestHalf(c) ==
    c.half # <<>> =>
       /\ c.pivot # 0
       /\ IsBest(c.half[1], c.before, c.tier, c.goal, c.goal.of, Pivots(c.goal)[c.pivot])

BestPath(c) ==
    c.path # <<>> =>
       IF c.pivot = 0 THEN /\ Len(c.path) = 1
                           /\ IsBest(c.path[1], c.before, c.tier, c.goal, c.goal.of, c.goal.in)
       ELSE /\ Len(c.path) = 2
            /\ IsBest(c.path[1], c.before, c.tier, c.goal, c.goal.of, Pivots(c.goal)[c.pivot])
            /\ IsBest(c.path[2], c.before, c.tier, c.goal, Pivots(c.goal)[c.pivot], c.goal.in)

BestInv == conv.pc # "waiting" /\ conv.before = rates => BestHalf(conv) /\ BestPath(conv)

\* A chain that fails is not searched.
WholeInv == conv.pc \in {"running", "done"} => ~ChainFails(conv.goal.entry)

LEMMA SameBest ==
    ASSUME config' = config, NEW c
    PROVE  (BestHalf(c)' <=> BestHalf(c)) /\ (BestPath(c)' <=> BestPath(c))
  <1>1. Pivots(c.goal)' = Pivots(c.goal) /\ ChainAfter(c.goal.entry)' = ChainAfter(c.goal.entry)
    BY SamePivots, SameChain
  <1>2. ASSUME NEW step, NEW of, NEW in
        PROVE  IsBest(step, c.before, c.tier, c.goal, of, in)' <=> IsBest(step, c.before, c.tier, c.goal, of, in)
    BY <1>1 DEF IsBest, Least
  <1> QED
    BY <1>1, <1>2 DEF BestHalf, BestPath

LEMMA BestFindRate ==
    ASSUME Typed, TableInv, Passed(conv), BestHalf(conv), conv.before = rates, FindRate
    PROVE  BestHalf(conv') /\ BestPath(conv')
  <1>1. conv \in Searches /\ conv.pc = "running" /\ conv.path = <<>>
    BY Searching DEF FindRate
  <1>2. PICK step \in Found :
           conv' = IF conv.pivot > 0 /\ conv.half = <<>>
                   THEN [conv EXCEPT !.half = <<step>>, !.probe = 1]
                   ELSE [conv EXCEPT !.pc = "done", !.path = conv.half \o <<step>>]
    BY DEF FindRate
  <1>3. IsBest(step, conv.before, conv.tier, conv.goal, Leg(conv)[1], Leg(conv)[2])
    BY <1>1, BestFound
  <1>4. /\ conv'.pivot = conv.pivot /\ conv'.tier = conv.tier /\ conv'.goal = conv.goal
        /\ conv'.before = conv.before /\ conv.pivot \in Nat
    BY <1>1, <1>2 DEF Searches
  <1>5. step \in Steps
    BY <1>1, FoundTypes DEF Typed
  <1>6. CASE conv.pivot > 0 /\ conv.half = <<>>
    <2>1. conv'.half = <<step>> /\ conv'.path = <<>>
      BY <1>1, <1>2, <1>6 DEF Searches
    <2>2. Leg(conv)[1] = conv.goal.of /\ Leg(conv)[2] = Pivots(conv.goal)[conv.pivot] /\ conv.pivot # 0
      BY <1>4, <1>6 DEF Leg
    <2>3. <<step>>[1] = step
      OBVIOUS
    <2>4. BestHalf(conv')
      BY <1>3, <1>4, <2>1, <2>2, <2>3 DEF BestHalf
    <2> QED
      BY <2>1, <2>4 DEF BestPath
  <1>7. CASE ~(conv.pivot > 0 /\ conv.half = <<>>)
    <2>1. conv'.half = conv.half /\ conv'.path = conv.half \o <<step>>
      BY <1>1, <1>2, <1>7 DEF Searches
    <2>2. BestHalf(conv')
      BY <1>4, <2>1 DEF BestHalf
    <2>3. conv.half \in Seq(Steps) /\ Len(conv.half) \in Nat
      BY <1>1, LenProperties DEF Searches
    <2> DEFINE one == <<step>>
               path == conv.half \o one
    <2>4. one \in Seq(Steps) /\ Len(one) = 1 /\ one[1] = step
      BY <1>5
    <2> HIDE DEF one
    <2>5. /\ Len(path) = Len(conv.half) + Len(one)
          /\ \A m \in 1..(Len(conv.half) + Len(one)) :
                path[m] = IF m <= Len(conv.half) THEN conv.half[m] ELSE one[m - Len(conv.half)]
      BY <2>3, <2>4, ConcatProperties
    <2> HIDE DEF path
    <2>6. CASE conv.pivot = 0
      <3>1. Len(conv.half) = 0
        BY <1>1, <2>6, Searching
      <3>2. Len(path) = 1 /\ path[1] = step
        BY <2>4, <2>5, <3>1
      <3>3. Leg(conv)[1] = conv.goal.of /\ Leg(conv)[2] = conv.goal.in
        BY <2>6 DEF Leg
      <3>4. BestPath(conv')
        BY <1>3, <1>4, <2>1, <2>6, <3>2, <3>3 DEF BestPath, path, one
      <3> QED
        BY <2>2, <3>4
    <2>7. CASE conv.pivot # 0
      <3>1. Len(conv.half) = 1 /\ conv.half # <<>>
        BY <1>1, <1>4, <1>7, <2>7, Searching
      <3>2. Len(path) = 2 /\ path[1] = conv.half[1] /\ path[2] = step
        BY <2>4, <2>5, <3>1
      <3>3. Leg(conv)[1] = Pivots(conv.goal)[conv.pivot] /\ Leg(conv)[2] = conv.goal.in
        BY <2>7, <3>1 DEF Leg
      <3>4. IsBest(path[1], conv.before, conv.tier, conv.goal, conv.goal.of, Pivots(conv.goal)[conv.pivot])
        BY <3>1, <3>2 DEF BestHalf
      <3>5. IsBest(path[2], conv.before, conv.tier, conv.goal, Pivots(conv.goal)[conv.pivot], conv.goal.in)
        BY <1>3, <3>2, <3>3
      <3>6. conv'.path = path
        BY <2>1 DEF path, one
      <3>7. BestPath(conv')
        BY <1>4, <2>7, <3>2, <3>4, <3>5, <3>6 DEF BestPath
      <3> QED
        BY <2>2, <3>7
    <2> QED
      BY <2>6, <2>7
  <1> QED
    BY <1>6, <1>7

LEMMA BestAdvance ==
    ASSUME Typed, BestHalf(conv), BestPath(conv), NextProbe \/ NextPivot \/ NextTier
    PROVE  BestHalf(conv') /\ BestPath(conv') /\ conv'.before = conv.before
  <1>1. conv \in Searches /\ conv.pc = "running" /\ conv.path = <<>>
    BY Searching DEF NextProbe, NextPivot, NextTier
  <1>2. \/ /\ conv'.half = conv.half /\ conv'.pivot = conv.pivot /\ conv'.tier = conv.tier
        \/ conv'.half = <<>>
    BY <1>1 DEF NextProbe, NextPivot, NextTier, Searches
  <1>3. conv'.path = conv.path /\ conv'.goal = conv.goal /\ conv'.before = conv.before
    BY <1>1 DEF NextProbe, NextPivot, NextTier, Searches
  <1> QED
    BY <1>1, <1>2, <1>3 DEF BestHalf, BestPath

LEMMA BestNext ==
    Typed /\ TableInv /\ KeptInv /\ PassedInv /\ BestInv /\ [Next]_vars => BestInv'
  <1> SUFFICES ASSUME Typed, TableInv, KeptInv, PassedInv, BestInv, [Next]_vars,
                      conv'.pc # "waiting", conv'.before = rates'
               PROVE  BestHalf(conv)' /\ BestPath(conv)'
    BY DEF BestInv
  <1>1. config' = config
    BY WritesKeepTypes DEF Next, Write, vars, Convert, FindRate, NextProbe, NextPivot, NextTier
  <1>2. BestHalf(conv') /\ BestPath(conv')
    <2>1. CASE \E goal \in Goals : Convert(goal)
      BY <2>1 DEF Convert, BestHalf, BestPath
    <2>2. CASE FindRate
      <3>1. conv.pc = "running" /\ conv \in Searches /\ rates' = rates
        BY <2>2, Searching DEF FindRate
      <3>2. conv'.before = conv.before
        BY <2>2, <3>1 DEF FindRate, Searches
      <3> QED
        BY <2>2, <3>1, <3>2, BestFindRate DEF BestInv, PassedInv
    <2>3. CASE NextProbe \/ NextPivot \/ NextTier
      <3>1. conv.pc = "running" /\ conv \in Searches /\ rates' = rates
        BY <2>3, Searching DEF NextProbe, NextPivot, NextTier
      <3>2. conv'.before = conv.before
        BY <2>3, <3>1 DEF NextProbe, NextPivot, NextTier, Searches
      <3> QED
        BY <2>3, <3>1, <3>2, BestAdvance DEF BestInv
    <2>4. CASE Write
      <3>1. conv' = conv
        BY <2>4, WritesKeepTypes
      <3> QED
        BY <2>4, <3>1, WriteIsNew
    <2>5. CASE UNCHANGED vars
      BY <2>5 DEF vars, BestInv
    <2> QED
      BY <2>1, <2>2, <2>3, <2>4, <2>5 DEF Next, Write
  <1> QED
    BY <1>1, <1>2, SameBest

LEMMA WholeNext == Typed /\ WholeInv /\ [Next]_vars => WholeInv'
  <1> SUFFICES ASSUME Typed, WholeInv, [Next]_vars, conv'.pc \in {"running", "done"}
               PROVE  ~ChainFails(conv.goal.entry)'
    BY DEF WholeInv
  <1>1. config' = config
    BY WritesKeepTypes DEF Next, Write, vars, Convert, FindRate, NextProbe, NextPivot, NextTier
  <1>2. ASSUME NEW entry PROVE ChainFails(entry)' <=> ChainFails(entry)
    <2>1. ChainAfter(entry)' = ChainAfter(entry)
      BY <1>1, SameChain
    <2> QED
      BY <1>1, <2>1 DEF ChainFails
  <1>3. ~ChainFails(conv'.goal.entry)
    <2>1. CASE \E goal \in Goals : Convert(goal)
      BY <2>1 DEF Convert
    <2>2. CASE FindRate \/ NextProbe \/ NextPivot \/ NextTier
      <3>1. conv.pc = "running" /\ conv \in Searches
        BY <2>2, Searching DEF FindRate, NextProbe, NextPivot, NextTier
      <3>2. conv'.goal = conv.goal
        BY <2>2, <3>1 DEF FindRate, NextProbe, NextPivot, NextTier, Searches
      <3> QED
        BY <3>1, <3>2 DEF WholeInv
    <2>3. CASE Write \/ UNCHANGED vars
      <3>1. conv' = conv
        BY <2>3, WritesKeepTypes DEF vars
      <3> QED
        BY <3>1 DEF WholeInv
    <2> QED
      BY <2>1, <2>2, <2>3 DEF Next, Write
  <1>4. ChainFails(conv.goal.entry)' <=> ChainFails(conv'.goal.entry)
    <2>1. ChainAfter(conv.goal.entry)' = ChainAfter(conv'.goal.entry)
      BY <1>1 DEF ChainAfter, Falls
    <2> QED
      BY <1>1, <2>1 DEF ChainFails
  <1> QED
    BY <1>3, <1>4

-----------------------------------------------------------------------------
(* The best legs make the best path. *)

LEMMA HeadBefore ==
    ASSUME NEW a \in Int, NEW b \in Int, NEW e \in Int, NEW f \in Int,
           NEW s \in Seq(Int), NEW t \in Seq(Int),
           a < e \/ (a = e /\ b < f)
    PROVE  Before(<<a, b>> \o s, <<e, f>> \o t)
  <1> DEFINE p == <<a, b>>
             q == <<e, f>>
  <1>1. /\ p \in Seq(Int) /\ q \in Seq(Int) /\ Len(p) = 2 /\ Len(q) = 2
        /\ p[1] = a /\ p[2] = b /\ q[1] = e /\ q[2] = f /\ DOMAIN p = {1, 2}
    OBVIOUS
  <1> HIDE DEF p, q
  <1>2. Before(p, q)
    <2>1. CASE a < e
      <3>1. 1 \in DOMAIN p /\ 1..(1 - 1) = {}
        BY <1>1
      <3> QED
        BY <1>1, <2>1, <3>1 DEF Before
    <2>2. CASE a = e /\ b < f
      <3>1. 2 \in DOMAIN p /\ \A m \in 1..(2 - 1) : m = 1
        BY <1>1
      <3>2. p[2] < q[2] /\ \A m \in 1..(2 - 1) : p[m] = q[m]
        BY <1>1, <2>2, <3>1
      <3> QED
        BY <3>1, <3>2 DEF Before
    <2> QED
      BY <2>1, <2>2
  <1>3. Before(p \o s, q \o t)
    BY <1>1, <1>2, BeforeAppended
  <1> QED
    BY <1>3 DEF p, q

\* Another direct path of the tier.
LEMMA DirectBest ==
    ASSUME NEW table \in SUBSET Rows, NEW tier \in {"fresh", "closest"}, NEW at \in Nat,
           NEW S, NEW chain \in Seq(S), NEW of, NEW in,
           NEW step, Least(step, table, tier, chain, at, of, in),
           NEW other \in StepsOf(table, tier, chain, at, of, in), other # step
    PROVE  Before(DirectPath(tier, step, chain, at).rank, DirectPath(tier, other, chain, at).rank)
  <1> DEFINE head == <<Number(tier), 0>>
             one == StepRank(step, chain, at)
             two == StepRank(other, chain, at)
  <1>1. step \in StepsOf(table, tier, chain, at, of, in) /\ Before(one, two)
    BY DEF Least
  <1>2. IsRank(one)
    BY <1>1, StepsAre
  <1>3. IsRank(two)
    BY StepsAre
  <1>4. head \in Seq(Int)
    BY DEF Number
  <1>5. /\ DirectPath(tier, step, chain, at).rank = head \o one
        /\ DirectPath(tier, other, chain, at).rank = head \o two
    BY DEF DirectPath
  <1> HIDE DEF head, one, two
  <1>6. Before(head \o one, head \o two)
    BY <1>1, <1>2, <1>3, <1>4, BeforeBehind DEF IsRank
  <1> QED
    BY <1>5, <1>6

LEMMA TwoRanks ==
    ASSUME NEW one \in Seq(Int), NEW two \in Seq(Int), NEW three \in Seq(Int), NEW four \in Seq(Int),
           Len(one) = 5, Len(two) = 5, Len(three) = 5, Len(four) = 5,
           Before(one, three) \/ (one = three /\ Before(two, four)),
           NEW head \in Seq(Int)
    PROVE  Before((head \o one) \o two, (head \o three) \o four)
  <1>1. one \o two \in Seq(Int) /\ Len(one \o two) = 10
    <2>1. one \o two \in Seq(Int) /\ Len(one \o two) = Len(one) + Len(two)
      BY ConcatProperties
    <2> QED
      BY <2>1
  <1>2. three \o four \in Seq(Int) /\ Len(three \o four) = 10
    <2>1. three \o four \in Seq(Int) /\ Len(three \o four) = Len(three) + Len(four)
      BY ConcatProperties
    <2> QED
      BY <2>1
  <1>3. Before(one \o two, three \o four)
    <2>1. CASE Before(one, three)
      BY <2>1, BeforeAppended
    <2>2. CASE one = three /\ Before(two, four)
      <3>1. Before(one \o two, one \o four)
        BY <2>2, BeforeBehind
      <3> QED
        BY <2>2, <3>1
    <2> QED
      BY <2>1, <2>2
  <1>4. Before(head \o (one \o two), head \o (three \o four))
    BY <1>1, <1>2, <1>3, BeforeBehind
  <1>5. (head \o one) \o two = head \o (one \o two)
    BY ConcatOfThree
  <1>6. (head \o three) \o four = head \o (three \o four)
    BY ConcatOfThree
  <1> QED
    BY <1>4, <1>5, <1>6

\* Another path of the tier over the same pivot.
LEMMA OverBest ==
    ASSUME NEW table \in SUBSET Rows, NEW tier \in {"fresh", "closest"}, NEW at \in Nat,
           NEW S, NEW chain \in Seq(S), NEW of, NEW in, NEW pivot, NEW n \in Int,
           NEW left, NEW right,
           Least(left, table, tier, chain, at, of, pivot),
           Least(right, table, tier, chain, at, pivot, in),
           NEW first \in StepsOf(table, tier, chain, at, of, pivot),
           NEW second \in StepsOf(table, tier, chain, at, pivot, in),
           first # left \/ second # right
    PROVE  Before(PathOver(tier, n, left, right, chain, at).rank,
                  PathOver(tier, n, first, second, chain, at).rank)
  <1> DEFINE head == <<Number(tier), n>>
             one == StepRank(left, chain, at)
             two == StepRank(right, chain, at)
             three == StepRank(first, chain, at)
             four == StepRank(second, chain, at)
  <1>1. /\ left \in StepsOf(table, tier, chain, at, of, pivot)
        /\ first # left => Before(one, three)
    BY DEF Least
  <1>2. /\ right \in StepsOf(table, tier, chain, at, pivot, in)
        /\ second # right => Before(two, four)
    BY DEF Least
  <1>3. IsRank(one)
    BY <1>1, StepsAre
  <1>4. IsRank(two)
    BY <1>2, StepsAre
  <1>5. IsRank(three)
    BY StepsAre
  <1>6. IsRank(four)
    BY StepsAre
  <1>7. /\ PathOver(tier, n, left, right, chain, at).rank = (head \o one) \o two
        /\ PathOver(tier, n, first, second, chain, at).rank = (head \o three) \o four
    BY DEF PathOver
  <1>8. head \in Seq(Int)
    BY DEF Number
  <1>9. Before(one, three) \/ (one = three /\ Before(two, four))
    BY <1>1, <1>2
  <1> HIDE DEF head, one, two, three, four
  <1>10. Before((head \o one) \o two, (head \o three) \o four)
    BY <1>3, <1>4, <1>5, <1>6, <1>8, <1>9, TwoRanks DEF IsRank
  <1> QED
    BY <1>7, <1>10

\* The search never passes a path of an earlier tier, nor one of an earlier pivot.
LEMMA NoEarlierPath ==
    ASSUME Typed, Passed(conv), conv.pc = "done", NEW tier \in {"fresh", "closest"},
           NEW p \in 0..Len(Pivots(conv.goal)), ~NoPath(conv, tier, p)
    PROVE  \/ Number(conv.tier) < Number(tier)
           \/ conv.tier = tier /\ conv.pivot <= p
  <1>1. /\ conv.tier \in {"fresh", "closest"} /\ conv.pivot \in Nat /\ config \in Configs
        /\ Len(Pivots(conv.goal)) \in Nat
    BY PivotsAreSequence DEF Typed, TypeOK, Searches
  <1>2. tier = "fresh" => conv.tier = "fresh"
    BY <1>1 DEF Passed
  <1>3. CASE tier # conv.tier
    BY <1>1, <1>2, <1>3 DEF Number
  <1>4. CASE tier = conv.tier
    <2>1. p \notin 0..(conv.pivot - 1)
      BY <1>4 DEF Passed
    <2>2. conv.pivot <= p
      BY <1>1, <2>1
    <2> QED
      BY <1>4, <2>2
  <1> QED
    BY <1>3, <1>4

\* What a form says of the table.
LEMMA FormIsPath ==
    ASSUME NEW known, NEW tier, NEW p, NEW tail,
           Form(known, tier, p, tail, conv.before, conv.goal, ChainAfter(conv.goal.entry))
    PROVE  ~NoPath(conv, tier, p)
  BY DEF Form, NoPath, NoStep

\* The path that was found, as a ranked path.
Winner(chain) ==
    LET goal == conv.goal
    IN  IF conv.pivot = 0 THEN DirectPath(conv.tier, conv.path[1], chain, goal.at)
        ELSE PathOver(conv.tier, conv.pivot, conv.path[1], conv.path[2], chain, goal.at)

LEMMA WinnerIsRanked ==
    ASSUME Typed, BestPath(conv), conv.pc = "done", conv.path # <<>>
    PROVE  LET chain == ChainAfter(conv.goal.entry)
           IN  /\ Winner(chain) \in RankedPaths(conv.before, conv.goal, chain)
               /\ Winner(chain).path = conv.path
  <1> DEFINE chain == ChainAfter(conv.goal.entry)
             at == conv.goal.at
  <1>1. /\ conv.tier \in {"fresh", "closest"} /\ config \in Configs
        /\ conv.pivot \in 0..Len(Pivots(conv.goal)) /\ conv.path \in Seq(Steps)
        /\ Len(Pivots(conv.goal)) \in Nat
    BY PivotsAreSequence DEF Typed, TypeOK
  <1>2. CASE conv.pivot = 0
    <2>1. /\ Len(conv.path) = 1
          /\ conv.path[1] \in StepsOf(conv.before, conv.tier, chain, at, conv.goal.of, conv.goal.in)
      BY <1>2 DEF BestPath, IsBest, Least
    <2>2. Winner(chain) = DirectPath(conv.tier, conv.path[1], chain, at)
      BY <1>2 DEF Winner
    <2>3. Winner(chain) \in RankedPaths(conv.before, conv.goal, chain)
      BY <1>1, <2>1, <2>2, RankedAre
    <2>4. conv.path = <<conv.path[1]>>
      BY <1>1, <2>1
    <2> QED
      BY <2>2, <2>3, <2>4 DEF DirectPath
  <1>3. CASE conv.pivot # 0
    <2>1. /\ Len(conv.path) = 2
          /\ conv.path[1] \in StepsOf(conv.before, conv.tier, chain, at, conv.goal.of, Pivots(conv.goal)[conv.pivot])
          /\ conv.path[2] \in StepsOf(conv.before, conv.tier, chain, at, Pivots(conv.goal)[conv.pivot], conv.goal.in)
      BY <1>3 DEF BestPath, IsBest, Least
    <2>2. Winner(chain) = PathOver(conv.tier, conv.pivot, conv.path[1], conv.path[2], chain, at)
      BY <1>3 DEF Winner
    <2>3. conv.pivot \in 1..Len(Pivots(conv.goal))
      BY <1>1, <1>3
    <2>4. Winner(chain) \in RankedPaths(conv.before, conv.goal, chain)
      <3> DEFINE table == conv.before
                 goal == conv.goal
                 p == conv.pivot
                 left == conv.path[1]
                 right == conv.path[2]
                 tier == conv.tier
      <3>1. /\ tier \in {"fresh", "closest"} /\ p \in 1..Len(Pivots(goal))
            /\ left \in StepsOf(table, tier, chain, goal.at, goal.of, Pivots(goal)[p])
            /\ right \in StepsOf(table, tier, chain, goal.at, Pivots(goal)[p], goal.in)
            /\ Winner(chain) = PathOver(tier, p, left, right, chain, goal.at)
        BY <1>1, <2>1, <2>2, <2>3
      <3> HIDE DEF table, goal, p, left, right, tier, chain
      <3> QED
        BY <1>1, <3>1, RankedAre DEF table, goal
    <2>5. conv.path = <<conv.path[1], conv.path[2]>>
      BY <1>1, <2>1
    <2> QED
      BY <2>2, <2>4, <2>5 DEF PathOver
  <1> QED
    BY <1>2, <1>3

LEMMA WinnerHasRank ==
    ASSUME Typed, BestPath(conv), conv.pc = "done", conv.path # <<>>
    PROVE  \E tail \in Seq(Int) :
              Winner(ChainAfter(conv.goal.entry)).rank = <<Number(conv.tier), conv.pivot>> \o tail
  <1> DEFINE chain == ChainAfter(conv.goal.entry)
             at == conv.goal.at
             goal == conv.goal
             table == conv.before
  <1>1. /\ config \in Configs /\ chain \in Seq(DOMAIN config) /\ at \in Nat
        /\ table \in SUBSET Rows /\ conv.pivot \in Int
    <2>1. config \in Configs /\ conv.goal \in Goals /\ table \in SUBSET Rows /\ conv.pivot \in Nat
      BY DEF Typed, TypeOK, Searches
    <2>2. at \in Nat
      BY <2>1, ConversionAssumption, TimeIsNumber
    <2> QED
      BY <2>1, <2>2, ChainIs
  <1>2. CASE conv.pivot = 0
    <2>1. conv.path[1] \in StepsOf(table, conv.tier, chain, at, goal.of, goal.in)
      BY <1>2 DEF BestPath, IsBest, Least
    <2> DEFINE rank == StepRank(conv.path[1], chain, at)
    <2>2. Winner(chain).rank = <<Number(conv.tier), 0>> \o rank
      BY <1>2 DEF Winner, DirectPath
    <2>3. IsRank(rank)
      <3> DEFINE of == goal.of
                 in == goal.in
                 step == conv.path[1]
                 tier == conv.tier
      <3>1. step \in StepsOf(table, tier, chain, at, of, in)
        BY <2>1
      <3> HIDE DEF of, in, step, tier, table, at, chain
      <3>2. IsRank(StepRank(step, chain, at))
        BY <1>1, <3>1, StepsAre
      <3> QED
        BY <3>2 DEF step
    <2> QED
      BY <1>2, <2>2, <2>3 DEF IsRank
  <1>3. CASE conv.pivot # 0
    <2> DEFINE of == goal.of
               in == goal.in
               pivot == Pivots(goal)[conv.pivot]
               left == conv.path[1]
               right == conv.path[2]
               tier == conv.tier
               n == conv.pivot
    <2>1. left \in StepsOf(table, tier, chain, at, of, pivot)
      BY <1>3 DEF BestPath, IsBest, Least
    <2>2. right \in StepsOf(table, tier, chain, at, pivot, in)
      BY <1>3 DEF BestPath, IsBest, Least
    <2>3. Winner(chain) = PathOver(tier, n, left, right, chain, at)
      BY <1>3 DEF Winner
    <2> HIDE DEF of, in, pivot, left, right, tier, n, table, at, chain
    <2>4. IsRank(StepRank(left, chain, at))
      BY <1>1, <2>1, StepsAre
    <2>5. IsRank(StepRank(right, chain, at))
      BY <1>1, <2>2, StepsAre
    <2>6. StepRank(left, chain, at) \in Seq(Int) /\ StepRank(right, chain, at) \in Seq(Int)
      BY <2>4, <2>5 DEF IsRank
    <2>7. n \in Int
      BY <1>1 DEF n
    <2>8. LET tail == StepRank(left, chain, at) \o StepRank(right, chain, at)
          IN  /\ tail \in Seq(Int)
              /\ PathOver(tier, n, left, right, chain, at).rank = <<Number(tier), n>> \o tail
      BY <2>6, <2>7, OverRank
    <2> QED
      BY <2>3, <2>8 DEF chain, tier, n
  <1> QED
    BY <1>2, <1>3

\* Every other path ranks behind the one that was found.
LEMMA WinnerIsLeast ==
    ASSUME Typed, Passed(conv), BestPath(conv), conv.pc = "done", conv.path # <<>>,
           NEW other \in RankedPaths(conv.before, conv.goal, ChainAfter(conv.goal.entry)),
           other # Winner(ChainAfter(conv.goal.entry))
    PROVE  Before(Winner(ChainAfter(conv.goal.entry)).rank, other.rank)
  <1> DEFINE chain == ChainAfter(conv.goal.entry)
             goal == conv.goal
             at == goal.at
             table == conv.before
             of == goal.of
             in == goal.in
             tier == conv.tier
             n == conv.pivot
             pivot == Pivots(goal)[n]
  <1>1. /\ config \in Configs /\ chain \in Seq(DOMAIN config) /\ at \in Nat
        /\ table \in SUBSET Rows /\ n \in Int /\ tier \in {"fresh", "closest"}
    <2>1. /\ config \in Configs /\ conv.goal \in Goals /\ table \in SUBSET Rows /\ conv.pivot \in Nat
          /\ tier \in {"fresh", "closest"}
      BY DEF Typed, TypeOK, Searches
    <2>2. at \in Nat
      BY <2>1, ConversionAssumption, TimeIsNumber
    <2> QED
      BY <2>1, <2>2, ChainIs
  <1>2. PICK t \in {"fresh", "closest"}, p \in 0..Len(Pivots(goal)), tail \in Seq(Int) :
           Form(other, t, p, tail, table, goal, chain)
    <2>1. other \in RankedPaths(table, goal, chain) /\ goal.at \in Nat
      BY <1>1
    <2> HIDE DEF chain, goal, table
    <2> QED
      BY <1>1, <2>1, RankedForms
  <1>3. other.rank = <<Number(t), p>> \o tail
    BY <1>2 DEF Form
  <1>4. Number(tier) < Number(t) \/ (tier = t /\ n <= p)
    <2>1. ~NoPath(conv, t, p)
      BY <1>2, FormIsPath
    <2> QED
      BY <1>2, <2>1, NoEarlierPath
  <1>5. p \in Int
    BY <1>1, PivotsAreSequence
  <1>6. CASE Number(tier) < Number(t) \/ (Number(tier) = Number(t) /\ n < p)
    <2>1. PICK mine \in Seq(Int) : Winner(chain).rank = <<Number(tier), n>> \o mine
      BY WinnerHasRank
    <2>2. Number(tier) \in Int /\ Number(t) \in Int
      BY DEF Number
    <2> HIDE DEF tier, n, chain
    <2>3. Before(<<Number(tier), n>> \o mine, <<Number(t), p>> \o tail)
      BY <1>1, <1>2, <1>5, <1>6, <2>1, <2>2, HeadBefore
    <2> QED
      BY <1>3, <2>1, <2>3 DEF chain
  <1>7. CASE tier = t /\ n = p /\ n = 0
    <2>1. PICK step \in StepsOf(table, tier, chain, at, of, in) : other = DirectPath(tier, step, chain, at)
      BY <1>2, <1>7 DEF Form
    <2> DEFINE best == conv.path[1]
    <2>2. Winner(chain) = DirectPath(tier, best, chain, at)
      BY <1>7 DEF Winner
    <2>3. Least(best, table, tier, chain, at, of, in)
      BY <1>7 DEF BestPath, IsBest
    <2>4. step # best
      BY <2>1, <2>2
    <2> HIDE DEF chain, at, table, of, in, tier, best
    <2>5. Before(DirectPath(tier, best, chain, at).rank, DirectPath(tier, step, chain, at).rank)
      BY <1>1, <2>3, <2>4, DirectBest
    <2> QED
      BY <2>1, <2>2, <2>5 DEF chain
  <1>8. CASE tier = t /\ n = p /\ n # 0
    <2>1. PICK first \in StepsOf(table, tier, chain, at, of, pivot),
               second \in StepsOf(table, tier, chain, at, pivot, in) :
                  other = PathOver(tier, n, first, second, chain, at)
      BY <1>2, <1>8 DEF Form
    <2> DEFINE left == conv.path[1]
               right == conv.path[2]
    <2>2. Winner(chain) = PathOver(tier, n, left, right, chain, at)
      BY <1>8 DEF Winner
    <2>3. Least(left, table, tier, chain, at, of, pivot) /\ Least(right, table, tier, chain, at, pivot, in)
      BY <1>8 DEF BestPath, IsBest
    <2>4. first # left \/ second # right
      BY <2>1, <2>2
    <2> HIDE DEF chain, at, table, of, in, tier, n, pivot, left, right
    <2>5. Before(PathOver(tier, n, left, right, chain, at).rank,
                 PathOver(tier, n, first, second, chain, at).rank)
      BY <1>1, <2>3, <2>4, OverBest
    <2> QED
      BY <2>1, <2>2, <2>5 DEF chain
  <1>9. \/ Number(tier) < Number(t) \/ (Number(tier) = Number(t) /\ n < p)
        \/ tier = t /\ n = p
    <2> HIDE DEF tier, n
    <2> QED
      BY <1>1, <1>4, <1>5
  <1> QED
    BY <1>6, <1>7, <1>8, <1>9

LEMMA SearchIsBest == Typed /\ PassedInv /\ WholeInv /\ BestInv => BestPathWhenQuiet
  <1> SUFFICES ASSUME Typed, PassedInv, WholeInv, BestInv, Searched, conv.before = rates
               PROVE  \E chain \in WholeChains(conv.goal.entry) :
                         LET ranked == RankedPaths(rates, conv.goal, chain)
                         IN  IF conv.path = <<>> THEN ranked = {}
                             ELSE \E best \in ranked :
                                     /\ best.path = conv.path
                                     /\ \A other \in ranked \ {best} : Before(best.rank, other.rank)
    BY DEF BestPathWhenQuiet
  <1> DEFINE chain == ChainAfter(conv.goal.entry)
             ranked == RankedPaths(rates, conv.goal, chain)
  <1>1. /\ conv.pc = "done" /\ conv.goal.of # conv.goal.in
        /\ Passed(conv) /\ BestPath(conv) /\ config \in Configs
    BY DEF Searched, PassedInv, BestInv, Typed, TypeOK
  <1>2. chain \in WholeChains(conv.goal.entry)
    BY <1>1, ChainIsWhole DEF WholeInv
  <1>3. CASE conv.path = <<>>
    <2>1. ASSUME NEW known \in ranked PROVE FALSE
      <3> DEFINE goal == conv.goal
                 table == conv.before
      <3>1. /\ table \in SUBSET Rows /\ goal.at \in Nat /\ chain \in Seq(DOMAIN config)
            /\ known \in RankedPaths(table, goal, chain) /\ config \in Configs
        <4>1. table \in SUBSET Rows /\ goal \in Goals
          BY <1>1 DEF Typed, TypeOK, Searches
        <4>2. goal.at \in Nat
          BY <4>1, ConversionAssumption, TimeIsNumber
        <4> QED
          BY <1>1, <2>1, <4>1, <4>2, ChainIs
      <3>2. PICK t \in {"fresh", "closest"}, p \in 0..Len(Pivots(goal)), tail \in Seq(Int) :
               Form(known, t, p, tail, table, goal, chain)
        <4> HIDE DEF goal, table, chain
        <4> QED
          BY <3>1, RankedForms
      <3>3. ~NoPath(conv, t, p)
        BY <3>2, FormIsPath
      <3> QED
        BY <1>1, <1>3, <3>2, <3>3 DEF Passed
    <2> QED
      BY <1>2, <1>3, <2>1
  <1>4. CASE conv.path # <<>>
    <2>1. Winner(chain) \in ranked /\ Winner(chain).path = conv.path
      BY <1>1, <1>4, WinnerIsRanked
    <2>2. ASSUME NEW other \in ranked \ {Winner(chain)} PROVE Before(Winner(chain).rank, other.rank)
      BY <1>1, <1>4, <2>2, WinnerIsLeast
    <2> HIDE DEF chain, ranked
    <2> QED
      BY <1>2, <1>4, <2>1, <2>2 DEF ranked
  <1> QED
    BY <1>3, <1>4

\* "Freshness beats hop count": when no rate was written meanwhile, the search finds the least
\* of all paths in the order tier, hops, pivot, then source, direction and age of each leg, and
\* finds none only if there is none.
THEOREM QuietSearchFindsBest == Spec => []BestPathWhenQuiet
  <1> DEFINE SearchInv == Typed /\ TableInv /\ KeptInv /\ PassedInv /\ WholeInv /\ BestInv
  <1>1. Init => SearchInv
    BY InitSearch DEF Init, WholeInv, BestInv
  <1>2. SearchInv /\ [Next]_vars => SearchInv'
    BY TypedNext, TableNext, KeptNext, PassedNext, WholeNext, BestNext
  <1>3. SearchInv => BestPathWhenQuiet
    BY SearchIsBest
  <1> QED
    BY <1>1, <1>2, <1>3, PTL DEF Spec
=============================================================================
