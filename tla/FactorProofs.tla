---------------------------- MODULE FactorProofs ----------------------------
(***************************************************************************)
(* Theorems about what the factor strategies compute.                       *)
(*                                                                         *)
(* Selection: for any universe, sectors, features and parameters, which     *)
(* tickers they select and how they are weighted.                           *)
(*                                                                         *)
(* PriceHistory: for any market and any runs that store its prices, what    *)
(* returns and market values are read from them.  HistInv says of the rows   *)
(* and of the frames on their way as of which day they are.                  *)
(***************************************************************************)
EXTENDS PriceHistory, Selection, SumTheorems

---------------------------------------------------------------------------
(* Selection: scores.                                                      *)

\* What is asked is well formed, and concerns finitely many tickers.
LEMMA QuestionIs ==
  ASSUME q \in Questions
  PROVE  /\ IsQuestion(q)
         /\ q.complete \subseteq Tickers /\ q.complete \subseteq Nat /\ IsFiniteSet(q.complete)
         /\ \A t \in q.complete : q.sector[t] \in Sectors
<1>1. IsQuestion(q) /\ Tickers \subseteq Nat /\ IsFiniteSet(Tickers)
  BY SelectionAssumption
<1>2. q.complete \subseteq Tickers /\ q.sector \in [Tickers -> Sectors]
  BY <1>1 DEF IsQuestion
<1>3. IsFiniteSet(q.complete)
  BY <1>1, <1>2, FS_Subset
<1>4. QED
  BY <1>1, <1>2, <1>3

\* A ticker is among its peers, and they among theirs; their number divides Parts.
LEMMA PeersAre ==
  ASSUME q \in Questions, NEW t \in q.complete
  PROVE  /\ t \in Peers(t) /\ Peers(t) \subseteq q.complete /\ IsFiniteSet(Peers(t))
         /\ \A u \in Peers(t) : Peers(u) = Peers(t)
         /\ Parts \div Cardinality(Peers(t)) \in Nat \ {0}
<1>1. t \in Peers(t) /\ Peers(t) \subseteq q.complete /\ \A u \in Peers(t) : Peers(u) = Peers(t)
  BY DEF Peers, Candidates
<1>2. IsFiniteSet(Peers(t)) /\ Peers(t) \subseteq Tickers /\ IsFiniteSet(Tickers)
  BY <1>1, QuestionIs, FS_Subset, SelectionAssumption
<1>3. Cardinality(Peers(t)) \in 1..Cardinality(Tickers)
  <2>1. Cardinality(Peers(t)) \in Nat /\ Cardinality(Tickers) \in Nat
    BY <1>2, FS_CardinalityType
  <2>2. Cardinality(Peers(t)) <= Cardinality(Tickers)
    BY <1>2, FS_Subset
  <2>3. Cardinality(Peers(t)) # 0
    BY <1>1, <1>2, FS_EmptySet
  <2>4. QED
    BY <2>1, <2>2, <2>3
<1>4. ASSUME NEW n \in Nat, NEW m \in Nat \ {0}, n > 0, n % m = 0 PROVE n \div m \in Nat \ {0}
  <2>1. n = m * (n \div m) + (n % m) /\ n \div m \in Nat
    BY <1>4
  <2>2. n \div m = 0 => m * (n \div m) = 0
    BY <1>4
  <2>3. QED
    BY <1>4, <2>1, <2>2
<1>5. QED
  <2>1. Parts \in Nat /\ Parts > 0 /\ Parts % Cardinality(Peers(t)) = 0
    BY <1>3, SelectionAssumption
  <2>2. Cardinality(Peers(t)) \in Nat \ {0}
    BY <1>3
  <2>3. Parts \div Cardinality(Peers(t)) \in Nat \ {0}
    BY <1>4, <2>1, <2>2
  <2>4. QED
    BY <1>1, <1>2, <2>3

\* Of two peers the one with the greater value of a feature has the higher rank, ties half.
LEMMA RankGrows ==
  ASSUME q \in Questions, NEW t \in q.complete, NEW u \in Peers(t), NEW f \in DOMAIN q.value
  PROVE  /\ PercentRank(f, t) \in Nat
         /\ q.value[f][u] = q.value[f][t] => PercentRank(f, u) = PercentRank(f, t)
         /\ q.value[f][u] < q.value[f][t] => PercentRank(f, u) < PercentRank(f, t)
<1> DEFINE peers    == Peers(t)
           below(x) == {v \in peers : q.value[f][v] < q.value[f][x]}
           ties(x)  == {v \in peers : q.value[f][v] = q.value[f][x]}
           unit     == Parts \div Cardinality(peers)
<1>1. /\ t \in peers /\ u \in peers /\ peers \subseteq q.complete /\ IsFiniteSet(peers)
      /\ Peers(u) = peers /\ unit \in Nat \ {0}
  BY PeersAre
<1>2. \A v \in peers : q.value[f][v] \in Int
  BY <1>1, QuestionIs DEF IsQuestion
<1>3. ASSUME NEW x \in peers
      PROVE  /\ IsFiniteSet(below(x)) /\ Cardinality(below(x)) \in Nat
             /\ IsFiniteSet(ties(x)) /\ Cardinality(ties(x)) \in Nat /\ Cardinality(ties(x)) > 0
  <2>1. below(x) \subseteq peers /\ ties(x) \subseteq peers /\ x \in ties(x)
    OBVIOUS
  <2> HIDE DEF below, ties, peers
  <2>2. IsFiniteSet(below(x)) /\ IsFiniteSet(ties(x))
    BY <1>1, <2>1, FS_Subset
  <2>3. QED
    BY <2>1, <2>2, FS_CardinalityType, FS_EmptySet
<1>4. /\ PercentRank(f, t) = (2 * Cardinality(below(t)) + Cardinality(ties(t)) + 1) * unit
      /\ PercentRank(f, u) = (2 * Cardinality(below(u)) + Cardinality(ties(u)) + 1) * unit
  <2>1. PercentRank(f, t) = (2 * Cardinality(below(t)) + Cardinality(ties(t)) + 1) * unit
    BY Zenon DEF PercentRank
  <2>2. /\ {v \in Peers(u) : q.value[f][v] < q.value[f][u]} = below(u)
        /\ {v \in Peers(u) : q.value[f][v] = q.value[f][u]} = ties(u)
        /\ Parts \div Cardinality(Peers(u)) = unit
    BY <1>1
  <2>3. PercentRank(f, u) = (2 * Cardinality({v \in Peers(u) : q.value[f][v] < q.value[f][u]})
                             + Cardinality({v \in Peers(u) : q.value[f][v] = q.value[f][u]})
                             + 1) * (Parts \div Cardinality(Peers(u)))
    BY Zenon DEF PercentRank
  <2> HIDE DEF below, ties, unit
  <2>4. QED
    BY <2>1, <2>2, <2>3
<1>5. ASSUME q.value[f][u] = q.value[f][t] PROVE PercentRank(f, u) = PercentRank(f, t)
  BY <1>4, <1>5
<1>6. ASSUME q.value[f][u] < q.value[f][t]
      PROVE  Cardinality(below(u)) + Cardinality(ties(u)) <= Cardinality(below(t))
  <2>1. below(u) \union ties(u) \subseteq below(t) /\ below(u) \intersect ties(u) = {}
    BY <1>1, <1>2, <1>6
  <2>2. /\ IsFiniteSet(below(u)) /\ IsFiniteSet(ties(u)) /\ IsFiniteSet(below(t))
        /\ Cardinality(below(u)) \in Nat /\ Cardinality(ties(u)) \in Nat
    BY <1>1, <1>3
  <2> HIDE DEF below, ties, peers
  <2>3. Cardinality(below(u) \intersect ties(u)) = 0
    BY <2>1, FS_EmptySet
  <2>4. Cardinality(below(u) \union ties(u)) =
          Cardinality(below(u)) + Cardinality(ties(u)) - Cardinality(below(u) \intersect ties(u))
    BY <2>2, FS_Union
  <2>5. Cardinality(below(u) \union ties(u)) <= Cardinality(below(t))
    BY <2>1, <2>2, FS_Subset
  <2>6. QED
    BY <2>2, <2>3, <2>4, <2>5
<1> HIDE DEF below, ties, unit
<1>7. ASSUME NEW a \in Nat, NEW b \in Nat, NEW c \in Nat \ {0}, a < b PROVE a * c < b * c
  BY <1>7
<1>8. ASSUME q.value[f][u] < q.value[f][t] PROVE PercentRank(f, u) < PercentRank(f, t)
  <2> DEFINE a == 2 * Cardinality(below(u)) + Cardinality(ties(u)) + 1
             b == 2 * Cardinality(below(t)) + Cardinality(ties(t)) + 1
  <2>1. a \in Nat /\ b \in Nat /\ a < b
    BY <1>1, <1>3, <1>6, <1>8
  <2>2. PercentRank(f, u) = a * unit /\ PercentRank(f, t) = b * unit
    BY <1>4
  <2> HIDE DEF a, b
  <2>3. QED
    BY <1>1, <1>7, <2>1, <2>2
<1>9. PercentRank(f, t) \in Nat
  BY <1>1, <1>3, <1>4
<1>10. QED
  BY <1>5, <1>8, <1>9

\* Scores are whole numbers.
LEMMA ScoresAre == ASSUME q \in Questions, NEW t \in q.complete PROVE Score(t) \in Int
<1>1. /\ IsFiniteSet(DOMAIN q.value) /\ t \in Tickers
      /\ \A f \in DOMAIN q.value : q.factor[f] \in Nat /\ q.value[f] \in [Tickers -> Int]
      /\ q.strategy = "gbm" => DOMAIN q.value = {"prediction"}
  BY QuestionIs DEF IsQuestion
<1>2. Composite(t) \in Int
  <2> DEFINE g == [f \in DOMAIN q.value |-> q.factor[f] * PercentRank(f, t)]
  <2>1. \A f \in DOMAIN q.value : PercentRank(f, t) \in Nat
    BY RankGrows, PeersAre
  <2>2. DOMAIN g = DOMAIN q.value /\ \A f \in DOMAIN q.value : g[f] \in Int
    BY <1>1, <2>1
  <2>3. Composite(t) = SumFunctionOnSet(g, DOMAIN q.value)
    BY DEF Composite, SumFunction
  <2> HIDE DEF g
  <2>4. QED
    BY <1>1, <2>2, <2>3, SumIsInt
<1>3. QED
  BY <1>1, <1>2 DEF Score, Predicted

\* A ticker that is better than a peer in the features has the higher score.
LEMMA BetterScores ==
  ASSUME q \in Questions, NEW t \in q.complete, NEW u \in Peers(t), Dominates(t, u)
  PROVE  Score(t) > Score(u)
<1>1. /\ IsFiniteSet(DOMAIN q.value) /\ t \in Tickers /\ u \in q.complete /\ u \in Tickers
      /\ \A f \in DOMAIN q.value : q.factor[f] \in Nat /\ q.value[f] \in [Tickers -> Int]
      /\ q.strategy \in {"multi_factor", "gbm"}
      /\ q.strategy = "gbm" => DOMAIN q.value = {"prediction"}
  BY QuestionIs, PeersAre DEF IsQuestion
<1>2. PICK best \in DOMAIN q.value : q.factor[best] > 0 /\ q.value[best][t] > q.value[best][u]
  BY DEF Dominates
<1>3. \A f \in DOMAIN q.value : q.factor[f] > 0 => q.value[f][t] >= q.value[f][u]
  BY DEF Dominates
<1>4. CASE q.strategy = "gbm"
  <2>1. best = "prediction"
    BY <1>1, <1>4
  <2>2. QED
    BY <1>2, <1>4, <2>1 DEF Score, Predicted
<1>5. CASE q.strategy = "multi_factor"
  <2> DEFINE all  == DOMAIN q.value
             g(x) == [f \in all |-> q.factor[f] * PercentRank(f, x)]
             rest == all \ {best}
  <2>1. \A f \in all : /\ PercentRank(f, t) \in Nat /\ PercentRank(f, u) \in Nat
                       /\ q.value[f][u] = q.value[f][t] => PercentRank(f, u) = PercentRank(f, t)
                       /\ q.value[f][u] < q.value[f][t] => PercentRank(f, u) < PercentRank(f, t)
    BY <1>1, RankGrows, PeersAre
  <2>2. \A f \in all : q.value[f][t] \in Int /\ q.value[f][u] \in Int
    BY <1>1
  <2>3. ASSUME NEW c \in Nat, NEW a \in Nat, NEW b \in Nat
        PROVE  /\ c * a \in Int /\ c * b \in Int
               /\ c > 0 /\ a < b => c * a < c * b
               /\ (c > 0 => a <= b) => c * a <= c * b
    OBVIOUS
  <2>4. ASSUME NEW f \in all
        PROVE  g(u)[f] \in Int /\ g(t)[f] \in Int /\ g(u)[f] <= g(t)[f]
    <3>1. q.factor[f] > 0 => PercentRank(f, u) <= PercentRank(f, t)
      BY <1>3, <2>1, <2>2
    <3>2. QED
      BY <1>1, <2>1, <2>3, <3>1
  <2>5. g(u)[best] < g(t)[best]
    BY <1>1, <1>2, <2>1, <2>2, <2>3
  <2>6. Score(t) = SumFunctionOnSet(g(t), all) /\ Score(u) = SumFunctionOnSet(g(u), all)
    BY <1>5 DEF Score, Composite, SumFunction
  <2> HIDE DEF all, g
  <2>7. best \in all /\ IsFiniteSet(all) /\ IsFiniteSet(rest) /\ rest \subseteq all
    BY <1>1, <1>2, FS_Subset DEF all
  <2>8. /\ SumFunctionOnSet(g(t), all) = g(t)[best] + SumFunctionOnSet(g(t), rest)
        /\ SumFunctionOnSet(g(u), all) = g(u)[best] + SumFunctionOnSet(g(u), rest)
    BY <2>4, <2>7, SumRemove
  <2>9. /\ SumFunctionOnSet(g(u), rest) <= SumFunctionOnSet(g(t), rest)
        /\ SumFunctionOnSet(g(u), rest) \in Int /\ SumFunctionOnSet(g(t), rest) \in Int
    BY <2>4, <2>7, SumMonotonic, SumIsInt
  <2> HIDE DEF rest
  <2>10. QED
    BY <2>4, <2>5, <2>6, <2>7, <2>8, <2>9
<1>6. QED
  BY <1>1, <1>4, <1>5

---------------------------------------------------------------------------
(* Selection: rankings.                                                    *)

\* The best n of a set are n, or all of it, and nobody before one of them is left out.
LEMMA BestIs ==
  ASSUME q \in Questions, NEW S, S \subseteq q.complete, NEW n \in Nat
  PROVE  /\ Best(S, n) \subseteq S /\ IsFiniteSet(Best(S, n))
         /\ n <= Cardinality(S) => Cardinality(Best(S, n)) = n
         /\ \A t \in Best(S, n), u \in S : Before(u, t) => u \in Best(S, n)
<1> DEFINE R    == {p \in S \X S : Before(p[1], p[2])}
           best == Best(S, n)
<1>1. IsFiniteSet(S) /\ S \subseteq Nat /\ \A t \in S : Score(t) \in Int
  BY QuestionIs, FS_Subset, ScoresAre
<1>2. \A x, y \in S : <<x, y>> \in R <=> Before(x, y)
  OBVIOUS
<1>3. /\ \A x \in S : ~Before(x, x)
      /\ \A x, y \in S : x # y => Before(x, y) \/ Before(y, x)
      /\ \A x, y, z \in S : Before(x, y) /\ Before(y, z) => Before(x, z)
  BY <1>1 DEF Before
<1>4. \A x \in S : PlaceIn(x, R, S) = Cardinality({y \in S : Before(y, x)})
  <2>1. \A x \in S : {y \in S : <<y, x>> \in R} = {y \in S : Before(y, x)}
    BY <1>2
  <2>2. QED
    BY <2>1 DEF PlaceIn
<1>5. best = {x \in S : PlaceIn(x, R, S) < n}
  BY <1>4 DEF Best
<1> HIDE DEF R, best
<1>6. Orders(R, S)
  BY <1>2, <1>3, Zenon DEF Orders
<1>7. /\ \A x \in S : PlaceIn(x, R, S) \in 0..(Cardinality(S) - 1)
      /\ \A x, y \in S : <<x, y>> \in R => PlaceIn(x, R, S) < PlaceIn(y, R, S)
      /\ \A k \in 0..(Cardinality(S) - 1) : \E x \in S : PlaceIn(x, R, S) = k
  BY <1>1, <1>6, Places
<1>8. Cardinality(S) \in Nat
  BY <1>1, FS_CardinalityType
<1>9. best \subseteq S /\ IsFiniteSet(best)
  BY <1>1, <1>5, FS_Subset
<1>10. \A t \in best, u \in S : Before(u, t) => u \in best
  <2>1. SUFFICES ASSUME NEW t \in best, NEW u \in S, Before(u, t) PROVE u \in best
    OBVIOUS
  <2>2. t \in S /\ <<u, t>> \in R
    BY <1>2, <1>9, <2>1
  <2>3. PlaceIn(u, R, S) < PlaceIn(t, R, S) /\ PlaceIn(t, R, S) < n
    BY <1>5, <1>7, <2>2
  <2>4. PlaceIn(u, R, S) \in Int /\ PlaceIn(t, R, S) \in Int
    BY <1>7, <1>8, <2>2
  <2>5. QED
    BY <1>5, <2>3, <2>4
<1>11. ASSUME n <= Cardinality(S) PROVE Cardinality(best) = n
  <2> DEFINE place == [x \in best |-> PlaceIn(x, R, S)]
  <2>1. place \in [best -> 0..(n - 1)]
    BY <1>5, <1>7, <1>8, <1>9
  <2>2. ASSUME NEW x \in best, NEW y \in best, place[x] = place[y] PROVE x = y
    <3>1. x \in S /\ y \in S /\ PlaceIn(x, R, S) = PlaceIn(y, R, S)
      BY <1>9, <2>2
    <3>2. PlaceIn(x, R, S) \in Int
      BY <1>7, <1>8, <3>1
    <3>3. ~(PlaceIn(x, R, S) < PlaceIn(y, R, S)) /\ ~(PlaceIn(y, R, S) < PlaceIn(x, R, S))
      BY <3>1, <3>2
    <3>4. QED
      BY <1>6, <1>7, <3>1, <3>3, Zenon DEF Orders
  <2>3. ASSUME NEW k \in 0..(n - 1) PROVE \E x \in best : place[x] = k
    <3>1. k \in 0..(Cardinality(S) - 1) /\ k < n
      BY <1>8, <1>11
    <3>2. PICK x \in S : PlaceIn(x, R, S) = k
      BY <1>7, <3>1
    <3>3. QED
      BY <1>5, <3>1, <3>2
  <2> HIDE DEF place
  <2>4. place \in Bijection(best, 0..(n - 1))
    BY <2>1, <2>2, <2>3 DEF Bijection, Injection, Surjection, IsInjective
  <2>5. ExistsBijection(best, 0..(n - 1))
    BY <2>4 DEF ExistsBijection
  <2>6. Cardinality(0..(n - 1)) = Cardinality(best)
    BY <1>9, <2>5, FS_Bijection
  <2>7. Cardinality(0..(n - 1)) = n
    BY FS_Interval
  <2>8. QED
    BY <2>6, <2>7
<1>12. QED
  BY <1>9, <1>10, <1>11 DEF best

---------------------------------------------------------------------------
(* Selection: places for sectors.                                          *)

Total == Cardinality(q.complete)

\* The sectors divide the complete tickers, and there is a place for each or fewer.
LEMMA CountsAre ==
  ASSUME q \in Questions
  PROVE  /\ Total \in Nat /\ TargetCount \in 0..Total /\ (q.complete # {} => Total > 0)
         /\ IsFiniteSet(Sectors) /\ Sectors \subseteq Nat
         /\ \A s \in Sectors : /\ Candidates(s) \subseteq q.complete
                               /\ IsFiniteSet(Candidates(s)) /\ Count(s) \in Nat
         /\ SumFunctionOnSet([s \in Sectors |-> Count(s)], Sectors) = Total
<1>1. IsFiniteSet(q.complete) /\ Total \in Nat /\ (q.complete # {} => Total > 0)
  <2>1. IsFiniteSet(q.complete)
    BY QuestionIs
  <2>2. QED
    BY <2>1, FS_CardinalityType, FS_EmptySet DEF Total
<1>2. TargetCount \in 0..Total
  <2>1. q.nLong \in Nat
    BY QuestionIs DEF IsQuestion
  <2>2. TargetCount = IF q.nLong <= Total THEN q.nLong ELSE Total
    <3>1. TargetCount = Min({q.nLong, Total})
      BY DEF TargetCount, Total
    <3>2. q.nLong \in Int /\ Total \in Int
      BY <1>1, <2>1
    <3>3. Min({q.nLong, Total}) = IF q.nLong <= Total THEN q.nLong ELSE Total
      BY <3>2, OfTwo, Zenon
    <3>4. QED
      BY <3>1, <3>3
  <2>3. QED
    BY <1>1, <2>1, <2>2
<1>3. IsFiniteSet(Sectors) /\ Sectors \subseteq Nat
  BY FS_Interval, SelectionAssumption DEF Sectors
<1>4. \A s \in Sectors : /\ Candidates(s) \subseteq q.complete
                         /\ IsFiniteSet(Candidates(s)) /\ Count(s) \in Nat
  <2>1. SUFFICES ASSUME NEW s \in Sectors
                 PROVE  /\ Candidates(s) \subseteq q.complete
                        /\ IsFiniteSet(Candidates(s)) /\ Count(s) \in Nat
    OBVIOUS
  <2>2. Candidates(s) \subseteq q.complete
    BY DEF Candidates
  <2>3. IsFiniteSet(Candidates(s))
    BY <1>1, <2>2, FS_Subset
  <2>4. QED
    BY <2>2, <2>3, FS_CardinalityType DEF Count
<1>5. SumFunctionOnSet([s \in Sectors |-> Count(s)], Sectors) = Total
  <2> DEFINE part == [s \in Sectors |-> Candidates(s)]
             size == [s \in Sectors |-> Count(s)]
  <2>1. \A s \in Sectors : IsFiniteSet(part[s]) /\ size[s] = Cardinality(part[s])
    BY <1>4 DEF Count
  <2>2. \A r, s \in Sectors : r # s => part[r] \intersect part[s] = {}
    BY DEF Candidates
  <2>3. UNION {part[s] : s \in Sectors} = q.complete
    <3>1. \A t \in q.complete : q.sector[t] \in Sectors /\ t \in part[q.sector[t]]
      BY QuestionIs DEF Candidates
    <3>2. \A s \in Sectors : part[s] \subseteq q.complete
      BY <1>4
    <3> HIDE DEF part
    <3>3. QED
      BY <3>1, <3>2
  <2> HIDE DEF part, size
  <2>4. Cardinality(UNION {part[s] : s \in Sectors}) = SumFunctionOnSet(size, Sectors)
    BY <1>3, <2>1, <2>2, SumOfSizes
  <2>5. QED
    BY <2>3, <2>4 DEF size, Total
<1>6. QED
  BY <1>1, <1>2, <1>3, <1>4, <1>5

\* The whole part of a sector's share, and the fraction that is left of it.
LEMMA WholesAre ==
  ASSUME q \in Questions, q.complete # {}, NEW s \in Sectors
  PROVE  /\ Whole(s) \in 0..Count(s) /\ Fraction(s) \in 0..(Total - 1)
         /\ Count(s) * TargetCount = Total * Whole(s) + Fraction(s)
         /\ Fraction(s) > 0 => Whole(s) < Count(s)
<1>1. /\ Count(s) \in Nat /\ TargetCount \in Nat /\ Total \in Nat /\ Total > 0
      /\ TargetCount <= Total
  BY CountsAre
<1> DEFINE share == (Count(s) * TargetCount) \div Total
<1>2. ASSUME NEW c \in Nat, NEW t \in Nat, NEW n \in Nat, n > 0, t <= n
      PROVE  /\ (c * t) \div n \in Nat /\ (c * t) \div n <= c
             /\ c * t - ((c * t) \div n) * n \in 0..(n - 1)
             /\ c * t = n * ((c * t) \div n) + (c * t - ((c * t) \div n) * n)
             /\ (c * t) \div n = c => c * t - ((c * t) \div n) * n = 0
  <2>1. c * t \in Nat /\ c * t <= c * n
    BY <1>2
  <2> DEFINE m == c * t
  <2>2. m = n * (m \div n) + (m % n) /\ m % n \in 0..(n - 1) /\ m \div n \in Nat
    BY <1>2, <2>1
  <2> DEFINE d == m \div n
  <2>3. n * d <= c * n
    BY <1>2, <2>1, <2>2
  <2>4. d \in Nat /\ d * n = n * d /\ n * d \in Nat /\ m \in Nat
    BY <1>2, <2>1, <2>2
  <2> HIDE DEF d
  <2>5. d <= c
    BY <1>2, <2>3, <2>4
  <2>6. d = c => m - d * n <= 0
    BY <1>2, <2>1, <2>4
  <2> HIDE DEF m
  <2>7. m - d * n \in 0..(n - 1) /\ m = n * d + (m - d * n)
    BY <1>2, <2>2, <2>4 DEF d
  <2>8. d = c => m - d * n = 0
    BY <1>2, <2>6, <2>7
  <2>9. QED
    BY <2>4, <2>5, <2>7, <2>8 DEF d, m
<1>3. /\ share \in Nat /\ share <= Count(s)
      /\ Count(s) * TargetCount - share * Total \in 0..(Total - 1)
      /\ Count(s) * TargetCount = Total * share + (Count(s) * TargetCount - share * Total)
      /\ share = Count(s) => Count(s) * TargetCount - share * Total = 0
  BY <1>1, <1>2
<1>4. Whole(s) = Min({share, Count(s)})
  BY DEF Whole, Total
<1> HIDE DEF share
<1>5. Whole(s) = IF share <= Count(s) THEN share ELSE Count(s)
  <2>1. share \in Int /\ Count(s) \in Int
    BY <1>1, <1>3
  <2>2. Min({share, Count(s)}) = IF share <= Count(s) THEN share ELSE Count(s)
    BY <2>1, OfTwo, Zenon
  <2>3. QED
    BY <1>4, <2>2
<1>6. Whole(s) = share
  BY <1>3, <1>5
<1>7. Fraction(s) = Count(s) * TargetCount - share * Total
  BY <1>6 DEF Fraction, Total
<1>8. QED
  BY <1>1, <1>3, <1>6, <1>7

\* What is left of the places is as many as the fractions add up to.
LEMMA RemainderIs ==
  ASSUME q \in Questions, q.complete # {}
  PROVE  /\ Remainder \in Nat
         /\ Total * Remainder = SumFunctionOnSet([s \in Sectors |-> Fraction(s)], Sectors)
         /\ TargetCount = SumFunctionOnSet([s \in Sectors |-> Whole(s)], Sectors) + Remainder
<1> DEFINE count    == [s \in Sectors |-> Count(s)]
           whole    == [s \in Sectors |-> Whole(s)]
           fraction == [s \in Sectors |-> Fraction(s)]
           shares   == [s \in Sectors |-> Count(s) * TargetCount]
           wholes   == [s \in Sectors |-> Total * Whole(s)]
           W        == SumFunctionOnSet(whole, Sectors)
           X        == SumFunctionOnSet(fraction, Sectors)
<1>1. /\ Total \in Nat /\ Total > 0 /\ TargetCount \in Nat /\ IsFiniteSet(Sectors)
      /\ \A s \in Sectors : Count(s) \in Nat
      /\ SumFunctionOnSet(count, Sectors) = Total
  BY CountsAre
<1>2. \A s \in Sectors : /\ Whole(s) \in Nat /\ Fraction(s) \in Nat
                         /\ Count(s) * TargetCount = Total * Whole(s) + Fraction(s)
  BY <1>1, WholesAre
<1>3. \A s \in Sectors : /\ count[s] \in Int /\ shares[s] = TargetCount * count[s]
                         /\ whole[s] \in Int /\ wholes[s] = Total * whole[s]
                         /\ wholes[s] \in Int /\ fraction[s] \in Nat
                         /\ shares[s] = wholes[s] + fraction[s]
  BY <1>1, <1>2
<1> HIDE DEF count, whole, fraction, shares, wholes
<1>4. SumFunctionOnSet(shares, Sectors) = TargetCount * Total
  <2>1. SumFunctionOnSet(shares, Sectors) = TargetCount * SumFunctionOnSet(count, Sectors)
    BY <1>1, <1>3, SumScaled
  <2> QED BY <1>1, <2>1
<1>5. SumFunctionOnSet(wholes, Sectors) = Total * W
  BY <1>1, <1>3, SumScaled
<1>6. SumFunctionOnSet(shares, Sectors) = SumFunctionOnSet(wholes, Sectors) + X
  BY <1>1, <1>3, SumPlus
<1>7. W \in Int /\ X \in Nat
  BY <1>1, <1>3, SumIsInt, SumIsNat
<1>8. Remainder = TargetCount - W
  BY DEF Remainder, SumFunction, whole
<1> HIDE DEF W, X
<1>9. TargetCount * Total = Total * W + X
  BY <1>4, <1>5, <1>6
<1>10. ASSUME NEW t \in Int, NEW n \in Nat, n > 0, NEW w \in Int, NEW x \in Nat, t * n = n * w + x
       PROVE  n * (t - w) = x /\ t - w \in Nat
  <2>1. n * (t - w) = x
    BY <1>10
  <2>2. t - w < 0 => n * (t - w) < 0
    BY <1>10
  <2>3. QED
    BY <1>10, <2>1, <2>2
<1>11. Total * (TargetCount - W) = X /\ TargetCount - W \in Nat
  BY <1>1, <1>7, <1>9, <1>10
<1>12. QED
  BY <1>1, <1>7, <1>8, <1>11 DEF W, X, whole, fraction

\* The sectors that get one of the places that are left: as many as there are such places,
\* each with a fraction and with a ticker to spare.
LEMMA FavouredAre ==
  ASSUME q \in Questions, q.complete # {}, NEW more \in Favoured
  PROVE  /\ more \subseteq Sectors /\ IsFiniteSet(more) /\ Cardinality(more) = Remainder
         /\ \A s \in more : Fraction(s) > 0 /\ Whole(s) < Count(s)
<1> DEFINE room     == {s \in Sectors : Whole(s) < Count(s)}
           pos      == {s \in Sectors : Fraction(s) > 0}
           fraction == [s \in Sectors |-> Fraction(s)]
           most     == [s \in Sectors |-> Total - 1]
           size     == Min({Max({Remainder, 0}), Cardinality(room)})
<1>1. Total \in Nat /\ Total > 0 /\ IsFiniteSet(Sectors)
  BY CountsAre
<1>2. \A s \in Sectors : Fraction(s) \in 0..(Total - 1) /\ (Fraction(s) > 0 => Whole(s) < Count(s))
  BY WholesAre
<1>3. Remainder \in Nat /\ Total * Remainder = SumFunctionOnSet(fraction, Sectors)
  BY RemainderIs
<1>4. /\ more \in kSubset(size, room)
      /\ \A s \in more, u \in room \ more : Fraction(s) >= Fraction(u)
  BY Zenon DEF Favoured
<1>5. more \in SUBSET room /\ Cardinality(more) = size
  BY <1>4 DEF kSubset
<1>6. pos \subseteq room /\ pos \subseteq Sectors /\ room \subseteq Sectors
  BY <1>2
<1>7. /\ \A s \in Sectors : fraction[s] \in Int /\ most[s] \in Int
      /\ \A s \in Sectors \ pos : fraction[s] = 0
      /\ \A s \in pos : fraction[s] <= most[s] /\ most[s] = Total - 1
  BY <1>1, <1>2
<1>8. \A s \in more, u \in pos : u \notin more => Fraction(s) >= Fraction(u)
  BY <1>4, <1>6
<1>9. /\ \A s \in pos : Fraction(s) > 0
      /\ \A s \in room : s \in Sectors /\ Whole(s) < Count(s)
  OBVIOUS
<1> HIDE DEF room, pos, fraction, most, size
<1>10. /\ IsFiniteSet(pos) /\ IsFiniteSet(room) /\ IsFiniteSet(more)
       /\ Cardinality(pos) \in Nat /\ Cardinality(room) \in Nat /\ Cardinality(more) \in Nat
       /\ Cardinality(pos) <= Cardinality(room)
  <2>1. IsFiniteSet(pos) /\ IsFiniteSet(room)
    BY <1>1, <1>6, FS_Subset
  <2>2. IsFiniteSet(more) /\ Cardinality(pos) <= Cardinality(room)
    BY <1>5, <1>6, <2>1, FS_Subset
  <2>3. QED
    BY <2>1, <2>2, FS_CardinalityType
<1>11. Total * Remainder <= Cardinality(pos) * (Total - 1)
  <2>1. SumFunctionOnSet(fraction, Sectors) = SumFunctionOnSet(fraction, pos)
    BY <1>1, <1>6, <1>7, SumOverPart
  <2>2. SumFunctionOnSet(fraction, pos) <= SumFunctionOnSet(most, pos)
    BY <1>6, <1>7, <1>10, SumMonotonic
  <2>3. SumFunctionOnSet(most, pos) = Cardinality(pos) * (Total - 1)
    BY <1>1, <1>7, <1>10, SumConstant
  <2>4. QED
    BY <1>3, <2>1, <2>2, <2>3
<1>12. Remainder <= Cardinality(pos)
  <2>1. ASSUME NEW r \in Nat, NEW p \in Nat, NEW n \in Nat, n > 0, n * r <= p * (n - 1)
        PROVE  r <= p
    <3>1. SUFFICES ASSUME p < r PROVE FALSE
      BY <2>1
    <3>2. p * (n - 1) <= (r - 1) * (n - 1)
      BY <2>1, <3>1
    <3>3. (r - 1) * (n - 1) = n * r - r - n + 1
      BY <2>1
    <3> DEFINE product == n * r
    <3>4. product \in Int
      BY <2>1
    <3>5. product <= product - r - n + 1
      BY <2>1, <3>2, <3>3
    <3> HIDE DEF product
    <3>6. QED
      BY <2>1, <3>1, <3>4, <3>5
  <2>2. QED
    BY <1>1, <1>3, <1>10, <1>11, <2>1
<1>13. size = Remainder
  <2>1. Max({Remainder, 0}) = Remainder
    <3>1. Remainder \in Int /\ 0 \in Int /\ Remainder >= 0
      BY <1>3
    <3>2. Max({Remainder, 0}) = IF Remainder >= 0 THEN Remainder ELSE 0
      BY <3>1, OfTwo, Zenon
    <3>3. QED
      BY <3>1, <3>2
  <2>2. Min({Remainder, Cardinality(room)}) = Remainder
    <3>1. /\ Remainder \in Int /\ Cardinality(room) \in Int
          /\ Remainder <= Cardinality(room)
      BY <1>3, <1>10, <1>12
    <3>2. Min({Remainder, Cardinality(room)})
            = IF Remainder <= Cardinality(room) THEN Remainder ELSE Cardinality(room)
      BY <3>1, OfTwo, Zenon
    <3>3. QED
      BY <3>1, <3>2
  <2>3. QED
    BY <2>1, <2>2 DEF size
<1>14. ASSUME NEW s \in more PROVE Fraction(s) > 0
  <2>1. SUFFICES ASSUME ~(Fraction(s) > 0) PROVE FALSE
    OBVIOUS
  <2>2. pos \subseteq more \ {s}
    <3>1. \A u \in pos : u \in Sectors /\ Fraction(u) \in Int /\ Fraction(u) > 0
      BY <1>1, <1>2, <1>6, <1>9
    <3>2. s \in Sectors /\ Fraction(s) \in Int
      BY <1>1, <1>2, <1>5, <1>9
    <3>3. QED
      BY <1>8, <2>1, <3>1, <3>2
  <2>3. IsFiniteSet(more \ {s}) /\ Cardinality(more \ {s}) = Cardinality(more) - 1
    BY <1>10, FS_RemoveElement
  <2>4. Cardinality(pos) <= Cardinality(more \ {s})
    BY <2>2, <2>3, FS_Subset
  <2>5. QED
    BY <1>3, <1>5, <1>10, <1>12, <1>13, <2>3, <2>4
<1>15. QED
  BY <1>5, <1>9, <1>10, <1>13, <1>14

\* Quotas that already add up to the places are not topped up.
LEMMA NothingToTopUp ==
  ASSUME q \in Questions, NEW base \in [Sectors -> Nat],
         \A s \in Sectors : base[s] <= Count(s),
         SumFunctionOnSet(base, Sectors) = TargetCount
  PROVE  ToppedUp(base) = base
<1> DEFINE free   == [s \in Sectors |-> Count(s) - base[s]]
           before == [s \in Sectors |-> SumFunction([r \in 1..(s - 1) |-> Count(r) - base[r]])]
<1>1. /\ TargetCount \in Int /\ IsFiniteSet(Sectors) /\ \A s \in Sectors : Count(s) \in Nat
  BY CountsAre
<1>2. \A s \in Sectors : free[s] \in Nat
  BY <1>1
<1>3. ASSUME NEW s \in Sectors PROVE before[s] \in Nat
  <2> DEFINE part == 1..(s - 1)
             g    == [r \in part |-> Count(r) - base[r]]
  <2>1. part \subseteq Sectors /\ DOMAIN g = part
    BY SelectionAssumption DEF Sectors
  <2>2. \A r \in part : g[r] \in Nat
    BY <1>1, <2>1
  <2>3. before[s] = SumFunctionOnSet(g, part)
    BY DEF SumFunction
  <2> HIDE DEF part, g
  <2>4. QED
    BY <1>1, <2>1, <2>2, <2>3, FS_Subset, SumIsNat
<1>4. TargetCount - SumFunction(base) = 0
  BY <1>1 DEF SumFunction
<1>5. ToppedUp(base) = [s \in Sectors |-> base[s] +
         Max({0, Min({free[s], TargetCount - SumFunction(base) - before[s]})})]
  BY DEF ToppedUp
<1> HIDE DEF free, before
<1>6. ASSUME NEW s \in Sectors
      PROVE  Max({0, Min({free[s], TargetCount - SumFunction(base) - before[s]})}) = 0
  <2>1. PICK f \in Nat, b \in Int : f = free[s] /\ b = TargetCount - SumFunction(base) - before[s]
    BY <1>2, <1>3, <1>4
  <2>2. b <= 0
    BY <1>3, <1>4, <2>1
  <2>3. Min({f, b}) = IF f <= b THEN f ELSE b
    <3>1. f \in Int
      OBVIOUS
    <3>2. QED
      BY <3>1, OfTwo, Zenon
  <2>4. PICK least \in Int : least = Min({f, b})
    BY <2>3
  <2>5. least <= 0
    BY <2>2, <2>3, <2>4
  <2>6. Max({0, least}) = IF 0 >= least THEN 0 ELSE least
    <3>1. 0 \in Int /\ least \in Int
      OBVIOUS
    <3>2. QED
      BY <3>1, OfTwo, Zenon
  <2>7. QED
    BY <2>1, <2>4, <2>5, <2>6
<1>7. \A s \in Sectors : base[s] + 0 = base[s]
  OBVIOUS
<1>8. QED
  BY <1>5, <1>6, <1>7

\* The quotas take all places, and each is the sector's share, rounded down or up.
LEMMA QuotasAre ==
  ASSUME q \in Questions, q.complete # {}, NEW quota \in Quotas
  PROVE  /\ quota \in [Sectors -> Nat] /\ SumFunctionOnSet(quota, Sectors) = TargetCount
         /\ \A s \in Sectors :
              /\ quota[s] <= Count(s)
              /\ quota[s] * Total > Count(s) * TargetCount - Total
              /\ quota[s] * Total < Count(s) * TargetCount + Total
<1>1. PICK more \in Favoured :
        quota = ToppedUp([s \in Sectors |-> Whole(s) + (IF s \in more THEN 1 ELSE 0)])
  BY DEF Quotas
<1> DEFINE base  == [s \in Sectors |-> Whole(s) + (IF s \in more THEN 1 ELSE 0)]
           whole == [s \in Sectors |-> Whole(s)]
           extra == [s \in Sectors |-> IF s \in more THEN 1 ELSE 0]
<1>2. /\ Total \in Nat /\ Total > 0 /\ TargetCount \in Nat /\ IsFiniteSet(Sectors)
      /\ \A s \in Sectors : Count(s) \in Nat
  BY CountsAre
<1>3. \A s \in Sectors : /\ Whole(s) \in Nat /\ Whole(s) <= Count(s)
                         /\ Fraction(s) \in Nat /\ Fraction(s) < Total
                         /\ Count(s) * TargetCount = Total * Whole(s) + Fraction(s)
  BY <1>2, WholesAre
<1>4. /\ more \subseteq Sectors /\ IsFiniteSet(more) /\ Cardinality(more) = Remainder
      /\ \A s \in more : Fraction(s) > 0 /\ Whole(s) < Count(s)
  BY FavouredAre
<1>5. /\ base \in [Sectors -> Nat] /\ \A s \in Sectors : base[s] <= Count(s)
  BY <1>2, <1>3, <1>4
<1>6. SumFunctionOnSet(base, Sectors) = TargetCount
  <2>1. /\ \A s \in Sectors : /\ whole[s] \in Int /\ extra[s] \in Int
                              /\ base[s] = whole[s] + extra[s]
        /\ \A s \in Sectors \ more : extra[s] = 0
        /\ \A s \in more : extra[s] = 1
    BY <1>3, <1>4
  <2>2. TargetCount = SumFunctionOnSet(whole, Sectors) + Remainder /\ Remainder \in Nat
    BY RemainderIs
  <2> HIDE DEF base, whole, extra
  <2>3. SumFunctionOnSet(base, Sectors)
          = SumFunctionOnSet(whole, Sectors) + SumFunctionOnSet(extra, Sectors)
    BY <1>2, <2>1, SumPlus
  <2>4. SumFunctionOnSet(extra, Sectors) = SumFunctionOnSet(extra, more)
    BY <1>2, <1>4, <2>1, SumOverPart
  <2>5. SumFunctionOnSet(extra, more) = Cardinality(more) * 1
    <3>1. PICK one \in Int : one = 1
      OBVIOUS
    <3>2. SumFunctionOnSet(extra, more) = Cardinality(more) * one
      BY <1>4, <2>1, <3>1, SumConstant
    <3>3. QED
      BY <3>1, <3>2
  <2>6. QED
    BY <1>4, <2>2, <2>3, <2>4, <2>5
<1>7. quota = base
  <2> HIDE DEF base
  <2>1. ToppedUp(base) = base
    BY <1>5, <1>6, NothingToTopUp
  <2>2. QED
    BY <1>1, <2>1 DEF base
<1>8. ASSUME NEW s \in Sectors
      PROVE  /\ quota[s] * Total > Count(s) * TargetCount - Total
             /\ quota[s] * Total < Count(s) * TargetCount + Total
  <2>1. ASSUME NEW w \in Nat, NEW f \in Nat, NEW n \in Nat, NEW share, f < n,
               share = n * w + f
        PROVE  /\ w * n > share - n /\ w * n < share + n
               /\ f > 0 => (w + 1) * n > share - n /\ (w + 1) * n < share + n
    <3> DEFINE product == n * w
    <3>1. product \in Nat /\ w * n = product /\ (w + 1) * n = product + n
      BY <2>1
    <3> HIDE DEF product
    <3>2. share = product + f
      BY <2>1 DEF product
    <3>3. QED
      BY <2>1, <3>1, <3>2
  <2>2. quota[s] = Whole(s) \/ (quota[s] = Whole(s) + 1 /\ Fraction(s) > 0)
    <3>1. CASE s \in more
      BY <1>4, <1>7, <3>1
    <3>2. CASE s \notin more
      <4>1. base[s] = Whole(s) + 0
        BY <3>2
      <4>2. QED
        BY <1>3, <1>7, <4>1
    <3>3. QED
      BY <3>1, <3>2
  <2>3. /\ Whole(s) \in Nat /\ Fraction(s) \in Nat /\ Fraction(s) < Total
        /\ Count(s) * TargetCount = Total * Whole(s) + Fraction(s)
    BY <1>3
  <2> DEFINE share == Count(s) * TargetCount
  <2>4. share = Total * Whole(s) + Fraction(s)
    BY <2>3
  <2> HIDE DEF share
  <2>5. quota[s] * Total > share - Total /\ quota[s] * Total < share + Total
    BY <1>2, <2>1, <2>2, <2>3, <2>4
  <2>6. QED
    BY <2>5 DEF share
<1>9. QED
  BY <1>5, <1>6, <1>7, <1>8

---------------------------------------------------------------------------
(* Selection: the lists.                                                   *)

\* A place in a list is one of as many as the list has tickers.
LEMMA InOrderIs ==
  ASSUME q \in Questions, NEW S, S \subseteq q.complete, NEW group,
         \A t \in S : group[t] \in Int
  PROVE  /\ DOMAIN InOrder(S, group) = S
         /\ \A t \in S : InOrder(S, group)[t] \in Nat /\ InOrder(S, group)[t] < Cardinality(S)
<1>1. IsFiniteSet(S) /\ S \subseteq Nat /\ \A t \in S : Score(t) \in Int
  BY QuestionIs, FS_Subset, ScoresAre
<1>2. ASSUME NEW t \in S
      PROVE  InOrder(S, group)[t] \in Nat /\ InOrder(S, group)[t] < Cardinality(S)
  <2> DEFINE first == {u \in S : \/ group[u] < group[t]
                                 \/ group[u] = group[t] /\ Before(u, t)}
             rest  == S \ {t}
  <2>1. ~Before(t, t)
    BY <1>1 DEF Before
  <2>2. first \subseteq rest
    BY <2>1
  <2>3. InOrder(S, group)[t] = Cardinality(first)
    BY DEF InOrder
  <2>4. IsFiniteSet(rest) /\ Cardinality(rest) = Cardinality(S) - 1
    BY <1>1, FS_RemoveElement
  <2>5. Cardinality(rest) \in Nat /\ Cardinality(S) \in Nat
    BY <1>1, <2>4, FS_CardinalityType
  <2> HIDE DEF first, rest
  <2>6. IsFiniteSet(first) /\ Cardinality(first) <= Cardinality(rest)
    BY <2>2, <2>4, FS_Subset
  <2>7. Cardinality(first) \in Nat
    BY <2>6, FS_CardinalityType
  <2>8. QED
    BY <2>3, <2>4, <2>5, <2>6, <2>7
<1>3. QED
  BY <1>2 DEF InOrder

\* The list by sectors has the best of each sector, as many as its quota, and nobody else.
LEMMA SelectedIs ==
  ASSUME q \in Questions, q.complete # {}, NEW quota \in Quotas
  PROVE  /\ DOMAIN Selected(quota) \subseteq q.complete
         /\ Cardinality(DOMAIN Selected(quota)) = TargetCount
         /\ \A t \in DOMAIN Selected(quota) : Selected(quota)[t] \in Int
         /\ \A s \in Sectors : DOMAIN Selected(quota) \intersect Candidates(s)
                                 = Best(Candidates(s), quota[s])
<1> DEFINE part   == [s \in Sectors |-> Best(Candidates(s), quota[s])]
           picks  == UNION {Best(Candidates(s), quota[s]) : s \in Sectors}
           others == Best(q.complete \ picks, Max({0, TargetCount - Cardinality(picks)}))
           group  == [t \in q.complete |-> IF t \in picks THEN q.sector[t] ELSE NumSectors + 1]
           list   == InOrder(picks \union others, group)
<1>1. /\ TargetCount \in Nat /\ IsFiniteSet(Sectors) /\ Sectors \subseteq Nat
      /\ \A s \in Sectors : Candidates(s) \subseteq q.complete
      /\ quota \in [Sectors -> Nat] /\ SumFunctionOnSet(quota, Sectors) = TargetCount
      /\ \A s \in Sectors : quota[s] <= Count(s)
  BY CountsAre, QuotasAre
<1>2. \A s \in Sectors : /\ part[s] \subseteq Candidates(s) /\ IsFiniteSet(part[s])
                         /\ quota[s] = Cardinality(part[s])
  <2>1. SUFFICES ASSUME NEW s \in Sectors
                 PROVE  /\ part[s] \subseteq Candidates(s) /\ IsFiniteSet(part[s])
                        /\ quota[s] = Cardinality(part[s])
    OBVIOUS
  <2>2. quota[s] \in Nat /\ quota[s] <= Cardinality(Candidates(s))
    BY <1>1 DEF Count
  <2>3. QED
    BY <1>1, <2>2, BestIs
<1>3. \A r, s \in Sectors : r # s => Candidates(r) \intersect Candidates(s) = {}
  BY DEF Candidates
<1>4. \A r, s \in Sectors : r # s => part[r] \intersect part[s] = {}
  BY <1>2, <1>3
<1>5. picks = UNION {part[s] : s \in Sectors}
  OBVIOUS
<1>6. Selected(quota) = [t \in {u \in DOMAIN list : list[u] < TargetCount} |-> list[t]]
  BY Zenon DEF Selected
<1> HIDE DEF part, picks
<1>7. IsFiniteSet(picks) /\ Cardinality(picks) = TargetCount
  <2>1. /\ IsFiniteSet(UNION {part[s] : s \in Sectors})
        /\ Cardinality(UNION {part[s] : s \in Sectors}) = SumFunctionOnSet(quota, Sectors)
    BY <1>1, <1>2, <1>4, SumOfSizes
  <2>2. QED
    BY <1>1, <1>5, <2>1
<1>8. picks \subseteq q.complete
  BY <1>1, <1>2, <1>5
<1>9. others = {}
  <2>1. Max({0, TargetCount - Cardinality(picks)}) = 0
    <3>1. PICK none \in Int : none = 0
      OBVIOUS
    <3>2. TargetCount - Cardinality(picks) = none
      BY <1>1, <1>7, <3>1
    <3>3. Max({none, none}) = IF none >= none THEN none ELSE none
      BY OfTwo, Zenon
    <3>4. QED
      BY <3>1, <3>2, <3>3
  <2>2. \A t \in q.complete \ picks :
          ~(Cardinality({u \in q.complete \ picks : Before(u, t)}) < 0)
    <3>1. IsFiniteSet(q.complete)
      BY QuestionIs
    <3>2. \A t : IsFiniteSet({u \in q.complete \ picks : Before(u, t)})
      BY <3>1, FS_Subset
    <3>3. \A t : Cardinality({u \in q.complete \ picks : Before(u, t)}) \in Nat
      BY <3>2, FS_CardinalityType
    <3>4. QED
      BY <3>3
  <2>3. Best(q.complete \ picks, 0) = {}
    BY <2>2 DEF Best
  <2>4. QED
    BY <2>1, <2>3
<1>10. \A t \in picks : group[t] \in Int
  <2>1. \A t \in picks : q.sector[t] \in Sectors
    BY <1>8, QuestionIs
  <2>2. \A t \in picks : group[t] = q.sector[t]
    BY <1>8
  <2> HIDE DEF group
  <2>3. \A s \in Sectors : s \in Int
    BY <1>1
  <2>4. QED
    BY <2>1, <2>2, <2>3
<1>11. list = InOrder(picks, group)
  <2>1. picks \union others = picks
    BY <1>9
  <2>2. QED
    BY <2>1
<1> HIDE DEF group, list
<1>12. DOMAIN list = picks /\ \A t \in picks : list[t] \in Nat /\ list[t] < TargetCount
  BY <1>7, <1>8, <1>10, <1>11, InOrderIs
<1>13. {u \in DOMAIN list : list[u] < TargetCount} = picks
  BY <1>12
<1>14. DOMAIN Selected(quota) = picks /\ \A t \in picks : Selected(quota)[t] \in Int
  BY <1>6, <1>12, <1>13
<1>15. ASSUME NEW s \in Sectors PROVE picks \intersect Candidates(s) = Best(Candidates(s), quota[s])
  <2>1. part[s] \subseteq picks /\ part[s] \subseteq Candidates(s)
    BY <1>2, <1>5
  <2>2. \A t \in picks \intersect Candidates(s) : t \in part[s]
    BY <1>2, <1>3, <1>5
  <2>3. picks \intersect Candidates(s) = part[s]
    BY <2>1, <2>2
  <2>4. QED
    BY <2>3 DEF part
<1>16. QED
  BY <1>7, <1>8, <1>14, <1>15

\* A list has as many tickers as there are places, in proportion to the sectors if they count,
\* and nobody with a better peer outside.
LEMMA SelectionsAre ==
  ASSUME q \in Questions, NEW selected \in Selections
  PROVE  /\ DOMAIN selected \subseteq q.complete
         /\ Cardinality(DOMAIN selected) = TargetCount
         /\ \A t \in DOMAIN selected : selected[t] \in Int
         /\ \A t \in DOMAIN selected, u \in q.complete \ DOMAIN selected :
              u \in Peers(t) => ~Before(u, t)
         /\ q.neutral /\ q.complete # {} => \A s \in Sectors :
              LET taken == Cardinality(DOMAIN selected \intersect Candidates(s))
              IN  /\ taken * Total > Count(s) * TargetCount - Total
                  /\ taken * Total < Count(s) * TargetCount + Total
<1>1. CASE q.complete = {}
  <2>1. selected = <<>> /\ DOMAIN selected = {}
    BY <1>1 DEF Selections
  <2>2. Total = 0
    BY <1>1, FS_EmptySet DEF Total
  <2>3. TargetCount = 0
    BY <2>2, CountsAre
  <2>4. QED
    BY <1>1, <2>1, <2>3, FS_EmptySet
<1>2. CASE q.complete # {} /\ q.neutral
  <2>1. PICK quota \in Quotas : selected = Selected(quota)
    BY <1>2 DEF Selections
  <2>2. /\ DOMAIN selected \subseteq q.complete /\ Cardinality(DOMAIN selected) = TargetCount
        /\ \A t \in DOMAIN selected : selected[t] \in Int
        /\ \A s \in Sectors : DOMAIN selected \intersect Candidates(s)
                                = Best(Candidates(s), quota[s])
    BY <1>2, <2>1, SelectedIs
  <2>3. /\ quota \in [Sectors -> Nat]
        /\ \A s \in Sectors : /\ quota[s] <= Count(s)
                              /\ quota[s] * Total > Count(s) * TargetCount - Total
                              /\ quota[s] * Total < Count(s) * TargetCount + Total
    BY <1>2, QuotasAre
  <2>4. ASSUME NEW s \in Sectors
        PROVE  /\ Cardinality(Best(Candidates(s), quota[s])) = quota[s]
               /\ \A t \in Best(Candidates(s), quota[s]), u \in Candidates(s) :
                    Before(u, t) => u \in Best(Candidates(s), quota[s])
    <3>1. Candidates(s) \subseteq q.complete /\ quota[s] \in Nat
      BY <2>3, CountsAre
    <3>2. quota[s] <= Cardinality(Candidates(s))
      BY <2>3 DEF Count
    <3>3. QED
      BY <3>1, <3>2, BestIs
  <2>5. ASSUME NEW t \in DOMAIN selected, NEW u \in q.complete \ DOMAIN selected,
               u \in Peers(t), Before(u, t)
        PROVE  FALSE
    <3>1. t \in q.complete /\ q.sector[t] \in Sectors
      BY <2>2, QuestionIs
    <3>2. u \in Candidates(q.sector[t]) /\ t \in Candidates(q.sector[t])
      BY <1>2, <2>5, <3>1 DEF Peers, Candidates
    <3>3. t \in Best(Candidates(q.sector[t]), quota[q.sector[t]])
      BY <2>2, <3>1, <3>2
    <3>4. u \in Best(Candidates(q.sector[t]), quota[q.sector[t]])
      BY <2>4, <2>5, <3>1, <3>2, <3>3
    <3>5. QED
      BY <2>2, <2>5, <3>1, <3>4
  <2>6. ASSUME NEW s \in Sectors
        PROVE  Cardinality(DOMAIN selected \intersect Candidates(s)) = quota[s]
    BY <2>2, <2>4
  <2>7. QED
    BY <2>2, <2>3, <2>5, <2>6
<1>3. CASE q.complete # {} /\ ~q.neutral
  <2> DEFINE best  == Best(q.complete, TargetCount)
             group == [t \in q.complete |-> 0]
  <2>1. selected = InOrder(best, group)
    BY <1>3 DEF Selections, ByRank
  <2>2. TargetCount \in Nat /\ TargetCount <= Cardinality(q.complete)
    BY CountsAre DEF Total
  <2>3. /\ best \subseteq q.complete /\ Cardinality(best) = TargetCount
        /\ \A t \in best, u \in q.complete : Before(u, t) => u \in best
    BY <2>2, BestIs
  <2>4. \A t \in best : group[t] \in Int
    BY <2>3
  <2> HIDE DEF best, group
  <2>5. DOMAIN selected = best /\ \A t \in best : selected[t] \in Nat
    BY <2>1, <2>3, <2>4, InOrderIs
  <2>6. QED
    BY <1>3, <2>3, <2>5
<1>4. QED
  BY <1>1, <1>2, <1>3

\* Of two peers on a list the better one has the higher rank.
LEMMA BetterRanks ==
  ASSUME q \in Questions, NEW selected, DOMAIN selected \subseteq q.complete,
         \A t \in DOMAIN selected : selected[t] \in Int,
         NEW t \in DOMAIN selected, NEW u \in DOMAIN selected, Score(t) > Score(u)
  PROVE  /\ RankAmong(selected, t) \in Nat /\ RankAmong(selected, u) \in Nat
         /\ RankAmong(selected, t) > RankAmong(selected, u)
<1> DEFINE D      == DOMAIN selected
           upto(x) == {v \in D : \/ Score(v) < Score(x)
                                 \/ Score(v) = Score(x) /\ selected[v] <= selected[x]}
<1>1. IsFiniteSet(D) /\ \A v \in D : Score(v) \in Int
  BY QuestionIs, FS_Subset, ScoresAre
<1>2. RankAmong(selected, t) = Cardinality(upto(t)) /\ RankAmong(selected, u) = Cardinality(upto(u))
  BY Zenon DEF RankAmong
<1>3. upto(u) \subseteq upto(t) /\ t \in upto(t) /\ t \notin upto(u) /\ upto(t) \subseteq D
  BY <1>1
<1> HIDE DEF D, upto
<1>4. /\ IsFiniteSet(upto(t)) /\ IsFiniteSet(upto(u))
      /\ Cardinality(upto(u)) <= Cardinality(upto(t))
      /\ Cardinality(upto(u)) # Cardinality(upto(t))
  BY <1>1, <1>3, FS_Subset
<1>5. Cardinality(upto(t)) \in Nat /\ Cardinality(upto(u)) \in Nat
  BY <1>4, FS_CardinalityType
<1>6. QED
  BY <1>2, <1>4, <1>5

---------------------------------------------------------------------------
(* Selection: the theorems.                                                *)

\* What the answer is: the parts of a list of tickers that the question allows.
Answered == q \in Questions /\ (answered => \E selected \in Selections : answer = Weights(selected))

\* Scores, lists and weights depend on the question only.
LEMMA SameQuestion ==
  ASSUME q' = q
  PROVE  Selections' = Selections /\ \A selected : Weights(selected)' = Weights(selected)
<1>1. \A t : Score(t)' = Score(t)
  BY DEF Score, Composite, Predicted, PercentRank, Peers, Candidates
<1>2. Selections' = Selections
  <2>1. \A s : Candidates(s)' = Candidates(s) /\ Count(s)' = Count(s)
    BY DEF Count, Candidates
  <2>2. TargetCount' = TargetCount
    BY DEF TargetCount
  <2>3. \A s : Whole(s)' = Whole(s)
    BY <2>1, <2>2 DEF Whole
  <2>4. \A s : Fraction(s)' = Fraction(s)
    BY <2>1, <2>2, <2>3 DEF Fraction
  <2>5. Remainder' = Remainder
    BY <2>2, <2>3 DEF Remainder
  <2>6. Favoured' = Favoured
    BY <2>1, <2>3, <2>4, <2>5 DEF Favoured
  <2>7. \A quota : ToppedUp(quota)' = ToppedUp(quota)
    BY <2>1, <2>2 DEF ToppedUp
  <2>8. Quotas' = Quotas
    BY <2>3, <2>6, <2>7 DEF Quotas
  <2>9. \A S, n : Best(S, n)' = Best(S, n)
    BY <1>1 DEF Best, Before
  <2>10. \A S, group : InOrder(S, group)' = InOrder(S, group)
    BY <1>1 DEF InOrder, Before
  <2>11. ASSUME NEW quota PROVE Selected(quota)' = Selected(quota)
    <3> DEFINE picks  == UNION {Best(Candidates(s), quota[s]) : s \in Sectors}
               others == Best(q.complete \ picks, Max({0, TargetCount - Cardinality(picks)}))
               group  == [t \in q.complete |-> IF t \in picks THEN q.sector[t] ELSE NumSectors + 1]
               list   == InOrder(picks \union others, group)
    <3>1. Selected(quota) = [t \in {u \in DOMAIN list : list[u] < TargetCount} |-> list[t]]
      BY Zenon DEF Selected
    <3>2. Selected(quota)' = [t \in {u \in DOMAIN list' : list'[u] < TargetCount'} |-> list'[t]]
      BY Zenon DEF Selected
    <3>3. picks' = picks
      BY <2>1, <2>9
    <3> HIDE DEF picks
    <3>4. others' = others
      BY <2>2, <2>9, <3>3
    <3>5. group' = group
      BY <3>3
    <3> HIDE DEF others, group
    <3>6. list' = list
      BY <2>10, <3>3, <3>4, <3>5
    <3> HIDE DEF list
    <3>7. QED
      BY <2>2, <3>1, <3>2, <3>6
  <2>12. ByRank' = ByRank
    BY <2>2, <2>9, <2>10 DEF ByRank
  <2>13. QED
    BY <2>8, <2>11, <2>12 DEF Selections
<1>3. \A selected, t : RankAmong(selected, t)' = RankAmong(selected, t)
  BY <1>1 DEF RankAmong
<1>4. \A selected : Weights(selected)' = Weights(selected)
  BY <1>3 DEF Weights
<1>5. QED
  BY <1>2, <1>4

\* Every answer is the weights of one of the lists that the scores, the sectors and the
\* number of places allow.
LEMMA AnswersSelect == SelSpec => []Answered
<1>1. SelInit => Answered
  BY DEF SelInit, Answered
<1>2. Answered /\ [SelNext]_selVars => Answered'
  <2>1. SUFFICES ASSUME Answered, [SelNext]_selVars PROVE Answered'
    OBVIOUS
  <2>2. q' = q
    BY <2>1 DEF SelNext, TargetWeights, SelOver, selVars
  <2>3. Selections' = Selections /\ \A selected : Weights(selected)' = Weights(selected)
    BY <2>2, SameQuestion
  <2>4. CASE TargetWeights
    <3>1. PICK selected \in Selections : answer' = Weights(selected)
      BY <2>4 DEF TargetWeights
    <3>2. QED
      BY <2>1, <2>2, <2>3, <3>1 DEF Answered
  <2>5. CASE UNCHANGED selVars
    BY <2>1, <2>3, <2>5 DEF selVars, Answered
  <2>6. QED
    BY <2>1, <2>4, <2>5 DEF SelNext, SelOver
<1>3. QED
  BY <1>1, <1>2, PTL DEF SelSpec

\* All places are taken, and each sector has its share of them, rounded down or up: the fractions
\* add up to as many places as are left, and no sector without a fraction gets one of them.
THEOREM Proportional == SelSpec => []PlacesAreProportional
<1>1. Answered => PlacesAreProportional
  <2>1. SUFFICES ASSUME Answered, answered PROVE PlacesAreProportional
    BY DEF PlacesAreProportional
  <2>2. PICK selected \in Selections : answer = Weights(selected)
    BY <2>1 DEF Answered
  <2>3. DOMAIN answer = DOMAIN selected
    BY <2>2 DEF Weights
  <2>4. /\ Cardinality(DOMAIN selected) = TargetCount
        /\ q.neutral /\ q.complete # {} => \A s \in Sectors :
             /\ Cardinality(DOMAIN selected \intersect Candidates(s)) * Total
                  > Count(s) * TargetCount - Total
             /\ Cardinality(DOMAIN selected \intersect Candidates(s)) * Total
                  < Count(s) * TargetCount + Total
    BY <2>1, SelectionsAre DEF Answered
  <2>5. QED
    BY <2>3, <2>4, Zenon DEF PlacesAreProportional, Total
<1>2. QED
  BY <1>1, AnswersSelect, PTL

\* Nobody is left out for a worse peer.
THEOREM NoneLeftOut == SelSpec => []NoneBetterLeftOut
<1>1. Answered => NoneBetterLeftOut
  <2>1. SUFFICES ASSUME Answered, answered, NEW t \in DOMAIN answer,
                        NEW u \in q.complete \ DOMAIN answer, u \in Peers(t), Dominates(u, t)
                 PROVE  FALSE
    BY DEF NoneBetterLeftOut
  <2>2. PICK selected \in Selections : answer = Weights(selected)
    BY <2>1 DEF Answered
  <2>3. DOMAIN answer = DOMAIN selected /\ q \in Questions
    BY <2>1, <2>2 DEF Weights, Answered
  <2>4. t \in q.complete /\ ~Before(u, t)
    BY <2>1, <2>3, SelectionsAre
  <2>5. t \in Peers(u) /\ u \in q.complete
    BY <2>1, <2>3, <2>4, PeersAre
  <2>6. Score(u) > Score(t)
    BY <2>1, <2>3, <2>5, BetterScores
  <2>7. QED
    BY <2>4, <2>6 DEF Before
<1>2. QED
  BY <1>1, AnswersSelect, PTL

\* A better ticker gets no less than a worse peer, and more if weights follow the scores.
THEOREM BetterGets == SelSpec => []BetterGetsMore
<1>1. Answered => BetterGetsMore
  <2>1. SUFFICES ASSUME Answered, answered, NEW t \in DOMAIN answer, NEW u \in DOMAIN answer,
                        u \in Peers(t), Dominates(t, u)
                 PROVE  /\ answer[t] >= answer[u]
                        /\ q.strategy = "multi_factor" /\ q.scheme = "score_weighted"
                             => answer[t] > answer[u]
    BY DEF BetterGetsMore
  <2>2. PICK selected \in Selections : answer = Weights(selected)
    BY <2>1 DEF Answered
  <2>3. DOMAIN answer = DOMAIN selected /\ q \in Questions
    BY <2>1, <2>2 DEF Weights, Answered
  <2>4. DOMAIN selected \subseteq q.complete /\ \A v \in DOMAIN selected : selected[v] \in Int
    BY <2>3, SelectionsAre
  <2>5. t \in q.complete /\ Score(t) > Score(u)
    BY <2>1, <2>3, <2>4, BetterScores
  <2>6. /\ RankAmong(selected, t) \in Nat /\ RankAmong(selected, u) \in Nat
        /\ RankAmong(selected, t) > RankAmong(selected, u)
    BY <2>1, <2>3, <2>4, <2>5, BetterRanks
  <2> DEFINE scored == q.strategy = "multi_factor" /\ q.scheme = "score_weighted"
  <2>7. /\ answer[t] = IF scored THEN RankAmong(selected, t) ELSE 1
        /\ answer[u] = IF scored THEN RankAmong(selected, u) ELSE 1
    BY <2>1, <2>2, <2>3 DEF Weights
  <2>8. QED
    BY <2>6, <2>7
<1>2. QED
  BY <1>1, AnswersSelect, PTL

---------------------------------------------------------------------------
(* Price history: the invariant.                                           *)

\* A bar as it was downloaded on a day, before or after the close of that day's session.
ShownOn(d, on, closed) == IF d = on /\ ~closed THEN market[d].quote ELSE market[d].close
BarAsOf(d, on, closed) ==
  [day      |-> d,
   close    |-> ShownOn(d, on, closed),
   adjusted |-> IF provider = "yfinance"
                THEN [worth |-> ShownOn(d, on, closed) * market[d].held, per |-> market[on].held]
                ELSE Null]

\* The bars that a window has.
BarsOf(start, on, closed) ==
  {BarAsOf(d, on, closed) : d \in {e \in 1..on : e >= start /\ market[e].traded}}

\* What was downloaded and not yet stored, and what was stored.
FramesAreBars ==
  \A f \in Flows : flow[f].state = "fetched" =>
    /\ flow[f].on \in 1..Today
    /\ provider = "webull" => flow[f].start = 1
    /\ flow[f].frame = BarsOf(flow[f].start, flow[f].on, flow[f].closed)
LoadsArePast == \A j \in DOMAIN loads : /\ loads[j].on <= Today
                                        /\ provider = "webull" => loads[j].start = 1
RowsAreLatest ==
  \A r \in prices : /\ r.day \in 1..Today /\ market[r.day].traded
                    /\ \E j \in DOMAIN loads :
                         LastCover(j, r.day) /\ r = BarAsOf(r.day, loads[j].on, loads[j].closed)
NoneIsMissing ==
  \A d \in 1..Today : market[d].traded /\ (\E j \in DOMAIN loads : Covers(j, d))
                        => \E r \in prices : r.day = d

HistInv == TypeOK /\ FramesAreBars /\ LoadsArePast /\ RowsAreLatest /\ NoneIsMissing

\* Days have a close and a number of shares.
LEMMA MarketIs ==
  ASSUME TypeOK
  PROVE  /\ Today \in 1..LastDay /\ LastDay \in Nat /\ DOMAIN market = 1..Today
         /\ \A d \in 1..Today : /\ market[d] \in Day
                                /\ market[d].close \in Nat \ {0} /\ market[d].quote \in Nat \ {0}
                                /\ market[d].held \in Nat \ {0}
                                /\ market[d].traded \in BOOLEAN /\ Worth(d) \in Nat \ {0}
<1>1. market \in Seq(Day) /\ Today \in 1..LastDay /\ LastDay \in Nat
  BY HistoryAssumption DEF TypeOK, Today
<1>2. DOMAIN market = 1..Today /\ \A d \in 1..Today : market[d] \in Day
  BY <1>1 DEF Today
<1>3. \A d \in 1..Today : /\ market[d].close \in Nat \ {0} /\ market[d].quote \in Nat \ {0}
                          /\ market[d].held \in Nat \ {0} /\ market[d].traded \in BOOLEAN
  BY <1>2 DEF Day
<1>4. ASSUME NEW a \in Nat \ {0}, NEW b \in Nat \ {0} PROVE a * b \in Nat \ {0}
  OBVIOUS
<1>5. \A d \in 1..Today : Worth(d) \in Nat \ {0}
  BY <1>3, <1>4 DEF Worth
<1>6. QED
  BY <1>1, <1>2, <1>3, <1>5

\* Stored windows end on a day that has come.
LEMMA LoadsAre ==
  ASSUME TypeOK
  PROVE  \A j \in DOMAIN loads : /\ loads[j] \in Load /\ loads[j].start \in Int
                                 /\ loads[j].closed \in BOOLEAN
                                 /\ loads[j].on \in 1..LastDay /\ j \in Nat /\ j <= Len(loads)
<1>1. loads \in Seq(Load)
  BY DEF TypeOK
<1>2. \A j \in DOMAIN loads : loads[j] \in Load /\ j \in Nat /\ j <= Len(loads)
  BY <1>1
<1>3. QED
  BY <1>2 DEF Load

\* A bar is a row of its day; once the session is over it states what the day was worth.
LEMMA BarIs ==
  ASSUME TypeOK, NEW d \in 1..Today, NEW on \in 1..Today, NEW closed
  PROVE  /\ BarAsOf(d, on, closed) \in Row /\ BarAsOf(d, on, closed).day = d
         /\ d < on \/ closed =>
              /\ BarAsOf(d, on, closed).close = market[d].close
              /\ BarAsOf(d, on, closed).adjusted =
                   IF provider = "yfinance" THEN [worth |-> Worth(d), per |-> market[on].held]
                   ELSE Null
<1>1. /\ d \in 1..LastDay /\ market[d].close \in Nat \ {0} /\ market[d].quote \in Nat \ {0}
      /\ market[d].held \in Nat \ {0} /\ market[on].held \in Nat \ {0}
  BY MarketIs
<1>2. ShownOn(d, on, closed) \in Nat \ {0}
  BY <1>1 DEF ShownOn
<1>3. ASSUME NEW x \in Nat \ {0}, NEW y \in Nat \ {0} PROVE x * y \in Nat
  OBVIOUS
<1>4. [worth |-> ShownOn(d, on, closed) * market[d].held, per |-> market[on].held] \in Price
  BY <1>1, <1>2, <1>3 DEF Price
<1>5. BarAsOf(d, on, closed) \in Row /\ BarAsOf(d, on, closed).day = d
  BY <1>1, <1>2, <1>4 DEF BarAsOf, Row
<1>6. ASSUME d < on \/ closed PROVE ShownOn(d, on, closed) = market[d].close
  <2>1. d \in Int /\ on \in Int
    BY MarketIs
  <2>2. ~(d = on /\ ~closed)
    BY <1>6, <2>1
  <2>3. QED
    BY <2>2 DEF ShownOn
<1>7. QED
  BY <1>5, <1>6 DEF BarAsOf, Worth

\* What a run downloads: one bar for each traded day of its window.
LEMMA BarsAre ==
  ASSUME TypeOK, NEW start \in Int, NEW on \in 1..Today, NEW closed
  PROVE  /\ BarsOf(start, on, closed) \subseteq Row
         /\ \A r \in BarsOf(start, on, closed) : /\ r.day \in 1..on /\ r.day >= start
                                         /\ market[r.day].traded /\ r = BarAsOf(r.day, on, closed)
         /\ \A d \in 1..on : d >= start /\ market[d].traded
                               => \E r \in BarsOf(start, on, closed) : r.day = d
<1>1. \A d \in 1..on : d \in 1..Today
  BY MarketIs
<1>2. \A d \in 1..on : BarAsOf(d, on, closed) \in Row /\ BarAsOf(d, on, closed).day = d
  BY <1>1, BarIs
<1>3. QED
  BY <1>2 DEF BarsOf

\* Days that have come do not change.
LEMMA PastStays ==
  ASSUME TypeOK, NextDay
  PROVE  /\ Today' = Today + 1 /\ market' \in Seq(Day) /\ Today' <= LastDay
         /\ \A d \in 1..Today : market'[d] = market[d]
         /\ \A d, on \in 1..Today : \A c : BarAsOf(d, on, c)' = BarAsOf(d, on, c)
         /\ \A start \in Int, on \in 1..Today : \A c : BarsOf(start, on, c)' = BarsOf(start, on, c)
         /\ provider' = provider /\ prices' = prices /\ flow' = flow /\ loads' = loads
         /\ open' \in BOOLEAN
<1>1. PICK s \in Sessions :
        market' = Append(market, [close |-> s.close, quote |-> s.quote, traded |-> s.traded,
                                  held |-> market[Today].held * (IF s.payout THEN 2 ELSE 1)])
  BY Zenon DEF NextDay
<1> DEFINE held == market[Today].held * (IF s.payout THEN 2 ELSE 1)
           day  == [close |-> s.close, quote |-> s.quote, traded |-> s.traded, held |-> held]
<1>2. market \in Seq(Day) /\ Today \in Nat /\ Today \in 1..Today /\ LastDay \in Nat
  BY MarketIs DEF TypeOK
<1>3. s.close \in Nat \ {0} /\ s.quote \in Nat \ {0} /\ s.traded \in BOOLEAN /\ market[Today].held \in Nat \ {0}
  BY <1>2, MarketIs, HistoryAssumption
<1>4. held \in Nat \ {0}
  <2>1. ASSUME NEW a \in Nat \ {0} PROVE a * (IF s.payout THEN 2 ELSE 1) \in Nat \ {0}
    OBVIOUS
  <2>2. QED
    BY <1>3, <2>1
<1>5. market' = Append(market, day)
  BY <1>1
<1> HIDE DEF held
<1>6. day \in Day
  BY <1>3, <1>4 DEF Day
<1> HIDE DEF day
<1>7. /\ market' \in Seq(Day) /\ Len(market') = Len(market) + 1
      /\ \A d \in 1..Len(market) : market'[d] = market[d]
  BY <1>2, <1>5, <1>6
<1>8. /\ Today' = Today + 1 /\ Today' <= LastDay /\ \A d \in 1..Today : market'[d] = market[d]
      /\ provider' = provider /\ prices' = prices /\ flow' = flow /\ loads' = loads
  BY <1>2, <1>7 DEF Today, NextDay
<1>9. \A d, on \in 1..Today : \A c : BarAsOf(d, on, c)' = BarAsOf(d, on, c)
  BY <1>8 DEF BarAsOf, ShownOn
<1>10. ASSUME NEW start \in Int, NEW on \in 1..Today, NEW c
       PROVE  BarsOf(start, on, c)' = BarsOf(start, on, c)
  <2> DEFINE days == {e \in 1..on : e >= start /\ market[e].traded}
  <2>1. \A d \in 1..on : d \in 1..Today
    BY <1>2
  <2>2. {e \in 1..on : e >= start /\ market'[e].traded} = days
    BY <1>8, <2>1
  <2>3. \A d \in days : BarAsOf(d, on, c)' = BarAsOf(d, on, c)
    BY <1>9, <2>1
  <2>4. {BarAsOf(d, on, c)' : d \in days} = {BarAsOf(d, on, c) : d \in days}
    BY <2>3
  <2>5. BarsOf(start, on, c)' = {BarAsOf(d, on, c)' : d \in {e \in 1..on : e >= start /\ market'[e].traded}}
    BY DEF BarsOf
  <2> HIDE DEF days
  <2>6. BarsOf(start, on, c)' = {BarAsOf(d, on, c)' : d \in days}
    BY <2>2, <2>5
  <2>7. QED
    BY <2>4, <2>6 DEF BarsOf, days
<1>11. open' \in BOOLEAN
  BY HistoryAssumption DEF NextDay
<1>12. QED
  BY <1>7, <1>8, <1>9, <1>10, <1>11

\* A day that comes is in no window yet.
LEMMA NextDayKeeps == HistInv /\ NextDay => HistInv'
<1>1. SUFFICES ASSUME HistInv, NextDay PROVE HistInv'
  OBVIOUS
<1>2. TypeOK
  BY <1>1 DEF HistInv
<1>3. /\ Today' = Today + 1 /\ market' \in Seq(Day) /\ Today' <= LastDay
      /\ \A d \in 1..Today : market'[d] = market[d]
      /\ \A d, on \in 1..Today : \A c : BarAsOf(d, on, c)' = BarAsOf(d, on, c)
      /\ \A start \in Int, on \in 1..Today : \A c : BarsOf(start, on, c)' = BarsOf(start, on, c)
      /\ provider' = provider /\ prices' = prices /\ flow' = flow /\ loads' = loads
      /\ open' \in BOOLEAN
  BY <1>1, <1>2, PastStays
<1>4. Today \in Nat /\ Today >= 1 /\ LastDay \in Nat
  BY <1>2, MarketIs
<1>5. \A d \in 1..Today : d \in 1..Today'
  BY <1>3, <1>4
<1>6. TypeOK'
  <2>1. Len(market)' \in 1..LastDay
    BY <1>3, <1>4 DEF Today
  <2>2. QED
    BY <1>2, <1>3, <2>1 DEF TypeOK
<1>7. FramesAreBars'
  <2>1. SUFFICES ASSUME NEW f \in Flows, flow[f].state = "fetched"
                 PROVE  /\ flow[f].on \in 1..Today'
                        /\ provider = "webull" => flow[f].start = 1
                        /\ flow[f].frame = BarsOf(flow[f].start, flow[f].on, flow[f].closed)'
    BY <1>3 DEF FramesAreBars
  <2>2. /\ flow[f].on \in 1..Today
        /\ provider = "webull" => flow[f].start = 1
        /\ flow[f].frame = BarsOf(flow[f].start, flow[f].on, flow[f].closed)
    BY <1>1, <2>1 DEF HistInv, FramesAreBars
  <2>3. flow[f].start \in Int
    BY <1>2 DEF TypeOK, Run
  <2>4. QED
    BY <1>3, <1>5, <2>2, <2>3
<1>8. \A j \in DOMAIN loads : /\ loads[j].on \in 1..Today
                              /\ provider = "webull" => loads[j].start = 1
  BY <1>1, <1>2, <1>4, LoadsAre DEF HistInv, LoadsArePast
<1>9. LoadsArePast'
  BY <1>3, <1>5, <1>8, <1>4 DEF LoadsArePast
<1>10. \A j, d : Covers(j, d)' = Covers(j, d) /\ LastCover(j, d)' = LastCover(j, d)
  BY <1>3 DEF Covers, LastCover
<1>11. RowsAreLatest'
  <2>1. SUFFICES ASSUME NEW r \in prices
                 PROVE  /\ r.day \in 1..Today' /\ market'[r.day].traded
                        /\ \E j \in DOMAIN loads : /\ LastCover(j, r.day)
                                                   /\ r = BarAsOf(r.day, loads[j].on, loads[j].closed)'
    BY <1>3, <1>10 DEF RowsAreLatest
  <2>2. /\ r.day \in 1..Today /\ market[r.day].traded
        /\ \E j \in DOMAIN loads : /\ LastCover(j, r.day)
                                   /\ r = BarAsOf(r.day, loads[j].on, loads[j].closed)
    BY <1>1, <2>1 DEF HistInv, RowsAreLatest
  <2>3. QED
    BY <1>3, <1>5, <1>8, <2>2
<1>12. NoneIsMissing'
  <2>1. SUFFICES ASSUME NEW d \in 1..Today', market'[d].traded, NEW j \in DOMAIN loads,
                        Covers(j, d)
                 PROVE  \E r \in prices : r.day = d
    BY <1>3, <1>10 DEF NoneIsMissing
  <2>2. d \in 1..Today
    BY <1>3, <1>4, <1>8, <2>1 DEF Covers
  <2>3. QED
    BY <1>1, <1>3, <2>1, <2>2 DEF HistInv, NoneIsMissing
<1>13. QED
  BY <1>6, <1>7, <1>9, <1>11, <1>12 DEF HistInv

\* What is fetched are the bars as of today.
LEMMA FetchKeeps == ASSUME NEW f \in Flows, NEW n \in Lookbacks PROVE HistInv /\ Fetch(f, n) => HistInv'
<1>1. SUFFICES ASSUME HistInv, Fetch(f, n) PROVE HistInv'
  OBVIOUS
<1>2. /\ TypeOK /\ provider' = provider /\ market' = market /\ prices' = prices /\ loads' = loads
      /\ open' = open /\ open \in BOOLEAN
  BY <1>1 DEF HistInv, TypeOK, Fetch
<1> DEFINE start == WindowStart(n)
           run   == [state |-> "fetched", start |-> start, on |-> Today, closed |-> ~open,
                     frame |-> BarsOf(start, Today, ~open)]
<1>3. Today \in 1..Today /\ Today \in 0..LastDay /\ Today \in Int
  BY <1>2, MarketIs
<1>4. start \in Int /\ (provider = "webull" => start = 1)
  BY <1>3, HistoryAssumption DEF WindowStart
<1>5. \A d : Bar(d) = BarAsOf(d, Today, ~open)
  BY DEF Bar, Adjusted, Shown, BarAsOf, ShownOn
<1>6. flow' = [flow EXCEPT ![f] = run]
  <2>1. flow' = [flow EXCEPT ![f] =
           [state |-> "fetched", start |-> start, on |-> Today, closed |-> ~open,
            frame |-> {Bar(d) : d \in {e \in 1..Today : e >= start /\ market[e].traded}}]]
    BY <1>1, Zenon DEF Fetch
  <2>2. {Bar(d) : d \in {e \in 1..Today : e >= start /\ market[e].traded}} = BarsOf(start, Today, ~open)
    BY <1>5 DEF BarsOf
  <2>3. QED
    BY <2>1, <2>2
<1> HIDE DEF start
<1>7. BarsOf(start, Today, ~open) \subseteq Row
  BY <1>2, <1>3, <1>4, BarsAre
<1>8. run \in Run
  BY <1>3, <1>4, <1>7 DEF Run
<1>9. /\ run.state = "fetched" /\ run.start = start /\ run.on = Today /\ run.closed = ~open
      /\ run.frame = BarsOf(start, Today, ~open)
  OBVIOUS
<1> HIDE DEF run
<1>10. TypeOK'
  <2>1. flow' \in [Flows -> Run]
    BY <1>2, <1>6, <1>8 DEF TypeOK
  <2>2. QED
    BY <1>2, <2>1 DEF TypeOK
<1>11. Today' = Today /\ \A a, on, c : BarsOf(a, on, c)' = BarsOf(a, on, c)
  BY <1>2 DEF Today, BarsOf, BarAsOf, ShownOn
<1>12. FramesAreBars'
  <2>1. SUFFICES ASSUME NEW g \in Flows, flow'[g].state = "fetched"
                 PROVE  /\ flow'[g].on \in 1..Today
                        /\ provider = "webull" => flow'[g].start = 1
                        /\ flow'[g].frame = BarsOf(flow'[g].start, flow'[g].on, flow'[g].closed)
    BY <1>2, <1>11 DEF FramesAreBars
  <2>2. CASE g = f
    <3>1. flow'[g] = run
      BY <1>2, <1>6, <2>2 DEF TypeOK
    <3>2. QED
      BY <1>3, <1>4, <1>9, <3>1
  <2>3. CASE g # f
    <3>1. flow'[g] = flow[g]
      BY <1>2, <1>6, <2>3 DEF TypeOK
    <3>2. QED
      BY <1>1, <2>1, <3>1 DEF HistInv, FramesAreBars
  <2>4. QED
    BY <2>2, <2>3
<1>13. LoadsArePast' /\ RowsAreLatest' /\ NoneIsMissing'
  BY <1>1, <1>2 DEF HistInv, LoadsArePast, RowsAreLatest, NoneIsMissing, LastCover, Covers,
                    BarAsOf, ShownOn, Today
<1>14. QED
  BY <1>10, <1>12, <1>13 DEF HistInv

\* A run that is done has nothing to store.
LEMMA EndedIs ==
  ASSUME TypeOK, NEW f \in Flows, flow' = [flow EXCEPT ![f] = [NewRun EXCEPT !.state = "ended"]]
  PROVE  /\ flow' \in [Flows -> Run]
         /\ \A g \in Flows : flow'[g].state = "fetched" => flow'[g] = flow[g]
<1> DEFINE ended == [NewRun EXCEPT !.state = "ended"]
<1>1. NewRun \in Run
  BY HistoryAssumption DEF NewRun, Run
<1>2. ended \in Run
  BY <1>1 DEF Run
<1>3. ended \in Run /\ ended.state = "ended"
  BY <1>1, <1>2 DEF Run
<1> HIDE DEF ended
<1>4. flow' = [flow EXCEPT ![f] = ended] /\ flow \in [Flows -> Run]
  BY DEF ended, TypeOK
<1>5. QED
  BY <1>3, <1>4

\* The commit: the days of the window have its bars now, the others have what they had.
LEMMA SaveKeeps == ASSUME NEW f \in Flows PROVE HistInv /\ Save(f) => HistInv'
<1>1. SUFFICES ASSUME HistInv, Save(f) PROVE HistInv'
  OBVIOUS
<1>2. PICK start, on, closed, n : /\ start = flow[f].start /\ on = flow[f].on
                                  /\ closed = flow[f].closed /\ n = Len(loads)
  OBVIOUS
<1> DEFINE rows == flow[f].frame
           new  == [start |-> start, on |-> on, closed |-> closed]
<1>3. /\ TypeOK /\ provider' = provider /\ market' = market /\ open' = open
      /\ flow[f].state = "fetched"
      /\ prices' = Upserted(rows) /\ loads' = Append(loads, new)
      /\ flow' = [flow EXCEPT ![f] = [NewRun EXCEPT !.state = "ended"]]
  BY <1>1, <1>2 DEF HistInv, Save
<1>4. /\ on \in 1..Today /\ (provider = "webull" => start = 1) /\ rows = BarsOf(start, on, closed)
  BY <1>1, <1>3, <1>2 DEF HistInv, FramesAreBars
<1>5. start \in Int /\ closed \in BOOLEAN
  BY <1>3, <1>2 DEF TypeOK, Run
<1>6. /\ rows \subseteq Row
      /\ \A r \in rows : /\ r.day \in 1..on /\ r.day >= start
                         /\ market[r.day].traded /\ r = BarAsOf(r.day, on, closed)
      /\ \A d \in 1..on : d >= start /\ market[d].traded => \E r \in rows : r.day = d
  BY <1>3, <1>4, <1>5, BarsAre
<1>7. Today \in 1..LastDay /\ LastDay \in Nat /\ on \in 1..LastDay /\ (\A d \in 1..on : d \in 1..Today)
  BY <1>3, <1>4, MarketIs
<1>8. new \in Load /\ loads \in Seq(Load) /\ n \in Nat
  BY <1>3, <1>5, <1>7, <1>2 DEF TypeOK, Load
<1>9. new.start = start /\ new.on = on /\ new.closed = closed
  OBVIOUS
<1> HIDE DEF rows, new
<1>10. /\ loads' \in Seq(Load) /\ DOMAIN loads = 1..n /\ DOMAIN loads' = 1..(n + 1)
       /\ \A j \in 1..n : loads'[j] = loads[j]
       /\ loads'[n + 1] = new
  BY <1>3, <1>8, <1>2
<1>11. Today' = Today /\ \A d, e, c : /\ BarAsOf(d, e, c)' = BarAsOf(d, e, c)
                                      /\ BarsOf(d, e, c)' = BarsOf(d, e, c)
  BY <1>3 DEF Today, BarAsOf, BarsOf, ShownOn
<1>12. /\ \A j \in 1..n : \A d : Covers(j, d)' = Covers(j, d)
       /\ \A d : Covers(n + 1, d)' <=> start <= d /\ d <= on
  <2>1. loads'[n + 1].start = start /\ loads'[n + 1].on = on
    BY <1>9, <1>10
  <2>2. \A d : Covers(n + 1, d)' <=> start <= d /\ d <= on
    BY <2>1 DEF Covers
  <2>3. \A j \in 1..n : loads'[j].start = loads[j].start /\ loads'[j].on = loads[j].on
    BY <1>10
  <2>4. \A j \in 1..n : \A d : Covers(j, d)' = Covers(j, d)
    BY <2>3, Zenon DEF Covers
  <2>5. QED
    BY <2>2, <2>4
<1>13. \A r \in prices' : r \in rows \/ (r \in prices /\ \A s \in rows : r.day # s.day)
  BY <1>3 DEF Upserted
<1>14. /\ \A r \in rows : r \in prices'
       /\ \A r \in prices : r \in prices' \/ \E s \in rows : s.day = r.day
  BY <1>3 DEF Upserted
<1>15. flow' \in [Flows -> Run] /\ \A g \in Flows : flow'[g].state = "fetched" => flow'[g] = flow[g]
  BY <1>3, EndedIs
<1>16. TypeOK'
  <2>1. prices' \subseteq Row
    BY <1>3, <1>6, <1>13 DEF TypeOK
  <2>2. ASSUME NEW r \in prices', NEW s \in prices', r.day = s.day PROVE r = s
    <3>1. r \in rows <=> s \in rows
      BY <1>13, <2>2
    <3>2. CASE r \in rows
      BY <1>6, <2>2, <3>1, <3>2
    <3>3. CASE r \notin rows
      <4>1. r \in prices /\ s \in prices
        BY <1>13, <3>1, <3>3
      <4>2. QED
        BY <1>3, <2>2, <4>1 DEF TypeOK
    <3>4. QED
      BY <3>2, <3>3
  <2>3. QED
    BY <1>3, <1>10, <1>15, <2>1, <2>2 DEF TypeOK
<1>17. FramesAreBars'
  BY <1>1, <1>3, <1>11, <1>15 DEF HistInv, FramesAreBars
<1>18. LoadsArePast'
  <2>1. SUFFICES ASSUME NEW j \in 1..(n + 1)
                 PROVE  loads'[j].on <= Today /\ (provider = "webull" => loads'[j].start = 1)
    BY <1>3, <1>10, <1>11 DEF LoadsArePast
  <2>2. CASE j \in 1..n
    BY <1>1, <1>10, <2>2 DEF HistInv, LoadsArePast
  <2>3. CASE j = n + 1
    <3>1. loads'[j].start = start /\ loads'[j].on = on
      BY <1>9, <1>10, <2>3
    <3>2. QED
      BY <1>4, <1>7, <3>1
  <2>4. QED
    BY <1>8, <2>2, <2>3
<1>19. RowsAreLatest'
  <2> SUFFICES ASSUME NEW r \in prices'
               PROVE  /\ r.day \in (1..Today)' /\ market'[r.day].traded
                      /\ \E j \in DOMAIN loads' :
                           /\ LastCover(j, r.day)'
                           /\ r = BarAsOf(r.day, loads[j].on, loads[j].closed)'
    BY DEF RowsAreLatest
  <2>1. SUFFICES /\ r.day \in 1..Today /\ market[r.day].traded
                 /\ \E j \in 1..(n + 1) :
                      /\ LastCover(j, r.day)'
                      /\ r = BarAsOf(r.day, loads'[j].on, loads'[j].closed)
    <3>1. \A j : BarAsOf(r.day, loads[j].on, loads[j].closed)'
                  = BarAsOf(r.day, loads'[j].on, loads'[j].closed)
      BY <1>11, Zenon
    <3>2. DOMAIN loads' = 1..(n + 1) /\ (1..Today)' = 1..Today /\ market' = market
      BY <1>3, <1>10, <1>11
    <3>3. QED
      BY <3>1, <3>2, Zenon
  <2>2. CASE r \in rows
    <3>1. r.day \in 1..on /\ r.day >= start /\ market[r.day].traded /\ r = BarAsOf(r.day, on, closed)
      BY <1>6, <2>2
    <3>2. Covers(n + 1, r.day)'
      BY <1>7, <1>12, <3>1
    <3>3. LastCover(n + 1, r.day)'
      <4>1. n + 1 \in 1..(n + 1) /\ \A k \in 1..(n + 1) : k <= n + 1
        BY <1>8
      <4>2. QED
        BY <1>10, <3>2, <4>1 DEF LastCover
    <3>4. n + 1 \in 1..(n + 1) /\ loads'[n + 1].on = on /\ loads'[n + 1].closed = closed
      BY <1>8, <1>9, <1>10
    <3>5. QED
      BY <1>7, <3>1, <3>3, <3>4
  <2>3. CASE r \notin rows
    <3>1. r \in prices /\ \A s \in rows : r.day # s.day
      BY <1>13, <2>3
    <3>2. r.day \in 1..Today /\ market[r.day].traded
      BY <1>1, <3>1 DEF HistInv, RowsAreLatest
    <3>3. PICK j \in 1..n : LastCover(j, r.day) /\ r = BarAsOf(r.day, loads[j].on, loads[j].closed)
      BY <1>1, <1>10, <3>1 DEF HistInv, RowsAreLatest
    <3>4. ~Covers(n + 1, r.day)'
      <4>1. SUFFICES ASSUME start <= r.day, r.day <= on PROVE FALSE
        BY <1>12
      <4>2. r.day \in 1..on /\ r.day >= start
        BY <1>5, <1>7, <3>2, <4>1
      <4>3. QED
        BY <1>6, <3>1, <3>2, <4>2
    <3>5. LastCover(j, r.day)'
      <4>1. \A k \in 1..(n + 1) : k \in 1..n \/ k = n + 1
        BY <1>8
      <4>2. j \in 1..(n + 1)
        BY <1>8
      <4>3. \A k \in 1..(n + 1) : Covers(k, r.day)' => k <= j
        BY <1>10, <1>12, <3>3, <3>4, <4>1 DEF LastCover
      <4>4. QED
        BY <1>10, <1>12, <3>3, <4>2, <4>3 DEF LastCover
    <3>6. j \in 1..(n + 1) /\ loads'[j].on = loads[j].on /\ loads'[j].closed = loads[j].closed
      BY <1>8, <1>10
    <3>7. QED
      BY <3>2, <3>3, <3>5, <3>6
  <2>4. QED
    BY <2>2, <2>3
<1>20. NoneIsMissing'
  <2>1. SUFFICES ASSUME NEW d \in 1..Today, market[d].traded, NEW j \in 1..(n + 1), Covers(j, d)'
                 PROVE  \E r \in prices' : r.day = d
    BY <1>3, <1>10, <1>11 DEF NoneIsMissing
  <2>2. CASE j = n + 1
    <3>1. d \in 1..on /\ d >= start
      BY <1>5, <1>7, <1>12, <2>1, <2>2
    <3>2. QED
      BY <1>6, <1>14, <2>1, <3>1
  <2>3. CASE j \in 1..n
    <3>1. PICK r \in prices : r.day = d
      BY <1>1, <1>10, <1>12, <2>1, <2>3 DEF HistInv, NoneIsMissing
    <3>2. QED
      BY <1>14, <3>1
  <2>4. QED
    BY <1>8, <2>2, <2>3
<1>21. QED
  BY <1>16, <1>17, <1>18, <1>19, <1>20 DEF HistInv

\* The table has, of each day that a stored window has, the bar of the last such window, and
\* only these bars.
THEOREM HistoryHolds == Spec => []HistInv
<1>1. Init => HistInv
  <2>1. SUFFICES ASSUME Init PROVE HistInv
    OBVIOUS
  <2>2. PICK s \in Sessions : market = <<[close |-> s.close, quote |-> s.quote, held |-> 1,
                                         traded |-> s.traded]>>
    BY <2>1 DEF Init
  <2> DEFINE day == [close |-> s.close, quote |-> s.quote, held |-> 1, traded |-> s.traded]
  <2>3. day \in Day /\ LastDay \in Nat \ {0}
    BY HistoryAssumption DEF Day
  <2> HIDE DEF day
  <2>4. market \in Seq(Day) /\ Len(market) = 1 /\ open \in BOOLEAN
    <3>1. market = <<day>>
      BY <2>2 DEF day
    <3>2. market \in Seq(Day) /\ Len(market) = 1 /\ market[1] \in Day
      BY <2>3, <3>1
    <3>3. market[1].traded \in BOOLEAN
      BY <3>2 DEF Day
    <3>4. QED
      BY <2>1, <3>2, <3>3 DEF Init
  <2>5. NewRun \in Run /\ NewRun.state # "fetched"
    BY <2>3 DEF NewRun, Run
  <2>6. TypeOK
    BY <2>1, <2>3, <2>4, <2>5 DEF Init, TypeOK
  <2>7. FramesAreBars /\ LoadsArePast /\ RowsAreLatest /\ NoneIsMissing
    <3>1. prices = {} /\ DOMAIN loads = {} /\ \A f \in Flows : flow[f].state # "fetched"
      BY <2>1, <2>5 DEF Init
    <3>2. QED
      BY <3>1 DEF FramesAreBars, LoadsArePast, RowsAreLatest, NoneIsMissing
  <2>8. QED
    BY <2>6, <2>7 DEF HistInv
<1>2. HistInv /\ [Next]_vars => HistInv'
  <2>1. SUFFICES ASSUME HistInv, [Next]_vars PROVE HistInv'
    OBVIOUS
  <2>2. CASE NextDay
    BY <2>1, <2>2, NextDayKeeps
  <2>3. ASSUME NEW f \in Flows, NEW n \in Lookbacks, Fetch(f, n) PROVE HistInv'
    BY <2>1, <2>3, FetchKeeps
  <2>4. ASSUME NEW f \in Flows, Save(f) PROVE HistInv'
    BY <2>1, <2>4, SaveKeeps
  <2>5. ASSUME NEW f \in Flows, Fail(f) PROVE HistInv'
    <3>1. /\ TypeOK /\ provider' = provider /\ market' = market /\ prices' = prices
          /\ loads' = loads /\ open' = open
      BY <2>1, <2>5 DEF HistInv, Fail
    <3>2. /\ flow' \in [Flows -> Run]
          /\ \A g \in Flows : flow'[g].state = "fetched" => flow'[g] = flow[g]
      BY <2>5, <3>1, EndedIs DEF Fail
    <3>3. TypeOK'
      BY <3>1, <3>2 DEF TypeOK
    <3>4. Today' = Today /\ \A d, e, c : /\ BarAsOf(d, e, c)' = BarAsOf(d, e, c)
                                       /\ BarsOf(d, e, c)' = BarsOf(d, e, c)
      BY <3>1 DEF Today, BarAsOf, BarsOf, ShownOn
    <3>5. FramesAreBars'
      BY <2>1, <3>1, <3>2, <3>4 DEF HistInv, FramesAreBars
    <3>6. LoadsArePast' /\ RowsAreLatest' /\ NoneIsMissing'
      BY <2>1, <3>1, <3>4 DEF HistInv, LoadsArePast, RowsAreLatest, NoneIsMissing, LastCover, Covers
    <3>7. QED
      BY <3>3, <3>5, <3>6 DEF HistInv
  <2>6. CASE CloseSession
    <3>1. /\ provider' = provider /\ market' = market /\ prices' = prices /\ flow' = flow
          /\ loads' = loads /\ open' \in BOOLEAN
      BY <2>6 DEF CloseSession
    <3>2. TypeOK'
      BY <2>1, <3>1 DEF HistInv, TypeOK
    <3>3. Today' = Today /\ \A d, e, c : /\ BarAsOf(d, e, c)' = BarAsOf(d, e, c)
                                       /\ BarsOf(d, e, c)' = BarsOf(d, e, c)
      BY <3>1 DEF Today, BarAsOf, BarsOf, ShownOn
    <3>4. FramesAreBars' /\ LoadsArePast' /\ RowsAreLatest' /\ NoneIsMissing'
      BY <2>1, <3>1, <3>3 DEF HistInv, FramesAreBars, LoadsArePast, RowsAreLatest, NoneIsMissing,
                              LastCover, Covers
    <3>5. QED
      BY <3>2, <3>4 DEF HistInv
  <2>7. CASE UNCHANGED vars
    <3>1. /\ provider' = provider /\ market' = market /\ prices' = prices /\ flow' = flow
          /\ loads' = loads /\ open' = open
      BY <2>7 DEF vars
    <3>2. TypeOK'
      BY <2>1, <3>1 DEF HistInv, TypeOK
    <3>3. Today' = Today /\ \A d, e, c : /\ BarAsOf(d, e, c)' = BarAsOf(d, e, c)
                                       /\ BarsOf(d, e, c)' = BarsOf(d, e, c)
      BY <3>1 DEF Today, BarAsOf, BarsOf, ShownOn
    <3>4. FramesAreBars' /\ LoadsArePast' /\ RowsAreLatest' /\ NoneIsMissing'
      BY <2>1, <3>1, <3>3 DEF HistInv, FramesAreBars, LoadsArePast, RowsAreLatest, NoneIsMissing,
                              LastCover, Covers
    <3>5. QED
      BY <3>2, <3>4 DEF HistInv
  <2>8. QED
    BY <2>1, <2>2, <2>3, <2>4, <2>5, <2>6, <2>7 DEF Next, Over
<1>3. QED
  BY <1>1, <1>2, PTL DEF Spec

---------------------------------------------------------------------------
(* Price history: rows and days.                                           *)

\* The n-th day from the end of a finite set of days is one of them, and the only one.
LEMMA NthDayIs ==
  ASSUME NEW days, IsFiniteSet(days), days \subseteq Int, NEW n \in 0..(Cardinality(days) - 1)
  PROVE  /\ NthDay(days, n) \in days
         /\ Cardinality({e \in days : e > NthDay(days, n)}) = n
         /\ \A d \in days : Cardinality({e \in days : e > d}) = n => d = NthDay(days, n)
<1> DEFINE R == {p \in days \X days : p[1] > p[2]}
<1>1. \A x, y \in days : <<x, y>> \in R <=> x > y
  OBVIOUS
<1>2. \A x \in days : PlaceIn(x, R, days) = Cardinality({e \in days : e > x})
  <2>1. \A x \in days : {y \in days : <<y, x>> \in R} = {e \in days : e > x}
    BY <1>1
  <2>2. QED
    BY <2>1 DEF PlaceIn
<1> HIDE DEF R
<1>3. Orders(R, days)
  <2>1. /\ \A x \in days : ~(x > x)
        /\ \A x, y \in days : x # y => x > y \/ y > x
        /\ \A x, y, z \in days : x > y /\ y > z => x > z
    OBVIOUS
  <2>2. QED
    BY <1>1, <2>1, Zenon DEF Orders
<1>4. /\ Cardinality(days) \in Nat
      /\ \A x \in days : PlaceIn(x, R, days) \in 0..(Cardinality(days) - 1)
      /\ \A x, y \in days : <<x, y>> \in R => PlaceIn(x, R, days) < PlaceIn(y, R, days)
      /\ \A k \in 0..(Cardinality(days) - 1) : \E x \in days : PlaceIn(x, R, days) = k
  BY <1>3, Places, FS_CardinalityType
<1>5. PICK x \in days : Cardinality({e \in days : e > x}) = n
  BY <1>2, <1>4
<1>6. /\ NthDay(days, n) \in days
      /\ Cardinality({e \in days : e > NthDay(days, n)}) = n
  BY <1>5 DEF NthDay
<1>7. ASSUME NEW d \in days, Cardinality({e \in days : e > d}) = n PROVE d = NthDay(days, n)
  <2> DEFINE c == NthDay(days, n)
  <2>1. c \in days /\ PlaceIn(c, R, days) = n
    BY <1>2, <1>6, Zenon
  <2>2. PlaceIn(d, R, days) = n
    BY <1>2, <1>7, Zenon
  <2> HIDE DEF c
  <2>3. ~(<<c, d>> \in R) /\ ~(<<d, c>> \in R)
    BY <1>4, <2>1, <2>2
  <2>4. c = d
    BY <1>1, <2>1, <2>3
  <2>5. QED
    BY <2>4 DEF c
<1>8. QED
  BY <1>6, <1>7

\* Rows that are one for each of a set of days are as many, and the n-th row from the end is
\* that of the n-th day from the end.
LEMMA NthRowIs ==
  ASSUME NEW days, IsFiniteSet(days), days \subseteq Int, NEW rows,
         \A r \in rows : r.day \in days,
         \A d \in days : \E r \in rows : r.day = d,
         \A r, s \in rows : r.day = s.day => r = s
  PROVE  /\ IsFiniteSet(rows) /\ Cardinality(rows) = Cardinality(days) /\ Cardinality(days) \in Nat
         /\ \A n \in 0..(Cardinality(days) - 1) : /\ NthRow(rows, n) \in rows
                                                  /\ NthRow(rows, n).day = NthDay(days, n)
<1> DEFINE later(d) == {e \in days : e > d}
           rest(d)  == {s \in rows : s.day > d}
<1>1. ASSUME NEW D \in SUBSET days
      PROVE  /\ IsFiniteSet({s \in rows : s.day \in D})
             /\ Cardinality({s \in rows : s.day \in D}) = Cardinality(D)
  <2> DEFINE S == {s \in rows : s.day \in D}
             f == [s \in S |-> s.day]
  <2>1. IsFiniteSet(D)
    BY FS_Subset
  <2>2. f \in [S -> D] /\ \A s, r \in S : f[s] = f[r] => s = r
    OBVIOUS
  <2>3. \A d \in D : \E s \in S : f[s] = d
    OBVIOUS
  <2> HIDE DEF S, f
  <2>4. f \in Injection(S, D) /\ f \in Surjection(S, D)
    BY <2>2, <2>3 DEF Injection, Surjection, IsInjective
  <2>5. IsFiniteSet(S) /\ Cardinality(S) = Cardinality(D)
    BY <2>1, <2>4, FS_Injection
  <2>6. QED
    BY <2>5 DEF S
<1>2. IsFiniteSet(rows) /\ Cardinality(rows) = Cardinality(days) /\ Cardinality(days) \in Nat
  <2>1. {s \in rows : s.day \in days} = rows
    OBVIOUS
  <2>2. QED
    BY <1>1, <2>1, FS_CardinalityType
<1>3. ASSUME NEW d \in days PROVE Cardinality(rest(d)) = Cardinality(later(d))
  <2>1. later(d) \in SUBSET days /\ {s \in rows : s.day \in later(d)} = rest(d)
    OBVIOUS
  <2> HIDE DEF later, rest
  <2>2. QED
    BY <1>1, <2>1
<1>4. ASSUME NEW n \in 0..(Cardinality(days) - 1)
      PROVE  NthRow(rows, n) \in rows /\ NthRow(rows, n).day = NthDay(days, n)
  <2>1. NthDay(days, n) \in days
    BY NthDayIs
  <2>2. Cardinality(later(NthDay(days, n))) = n
    BY NthDayIs
  <2>3. PICK r \in rows : r.day = NthDay(days, n)
    BY <2>1
  <2>4. Cardinality({s \in rows : s.day > r.day}) = n
    <3>1. Cardinality(later(r.day)) = n /\ r.day \in days
      BY <2>1, <2>2, <2>3, Zenon
    <3>2. Cardinality(rest(r.day)) = n
      <4> HIDE DEF later, rest
      <4> QED BY <1>3, <3>1
    <3>3. QED
      BY <3>2
  <2>5. NthRow(rows, n) \in rows /\ Cardinality({s \in rows : s.day > NthRow(rows, n).day}) = n
    <3> DEFINE has(v) == Cardinality({s \in rows : s.day > v.day}) = n
    <3>1. NthRow(rows, n) = CHOOSE v \in rows : has(v)
      BY DEF NthRow
    <3>2. has(r)
      BY <2>4
    <3> HIDE DEF has
    <3>3. NthRow(rows, n) \in rows /\ has(NthRow(rows, n))
      BY <3>1, <3>2
    <3>4. QED
      BY <3>3 DEF has
  <2>6. NthRow(rows, n).day \in days /\ Cardinality(later(NthRow(rows, n).day)) = n
    BY <1>3, <2>5
  <2>7. \A d \in days : Cardinality(later(d)) = n => d = NthDay(days, n)
    BY NthDayIs
  <2> HIDE DEF later
  <2>8. QED
    BY <2>5, <2>6, <2>7
<1>5. QED
  BY <1>2, <1>4

---------------------------------------------------------------------------
(* Price history: windows.                                                 *)

\* Of a window whose days were all stored, the rows are one for each day that was traded.
LEMMA WindowRows ==
  ASSUME HistInv, NEW a \in Int, NEW b \in Int,
         \A d \in 1..Today : a <= d /\ d <= b => \E j \in DOMAIN loads : Covers(j, d)
  PROVE  /\ IsFiniteSet(TradedDays(a, b)) /\ TradedDays(a, b) \subseteq 1..Today
         /\ TradedDays(a, b) \subseteq Int
         /\ \A r \in GetPrices(a, b) : r.day \in TradedDays(a, b)
         /\ \A d \in TradedDays(a, b) : \E r \in GetPrices(a, b) : r.day = d
         /\ \A r, s \in GetPrices(a, b) : r.day = s.day => r = s
<1>1. /\ TypeOK /\ \A r \in prices : r.day \in 1..Today /\ market[r.day].traded
      /\ \A r, s \in prices : r.day = s.day => r = s
      /\ \A d \in 1..Today : market[d].traded /\ (\E j \in DOMAIN loads : Covers(j, d))
                               => \E r \in prices : r.day = d
  BY DEF HistInv, TypeOK, RowsAreLatest, NoneIsMissing
<1>2. Today \in Int
  BY <1>1, MarketIs
<1>3. TradedDays(a, b) \subseteq 1..Today /\ TradedDays(a, b) \subseteq Int
  BY <1>2 DEF TradedDays
<1>4. IsFiniteSet(TradedDays(a, b))
  <2>1. IsFiniteSet(1..Today)
    BY <1>2, FS_Interval
  <2>2. QED
    BY <1>3, <2>1, FS_Subset
<1>5. \A r \in GetPrices(a, b) : r \in prices /\ a <= r.day /\ r.day <= b
  BY DEF GetPrices
<1>6. \A r \in GetPrices(a, b) : r.day \in TradedDays(a, b)
  BY <1>1, <1>5 DEF TradedDays
<1>7. ASSUME NEW d \in TradedDays(a, b) PROVE \E r \in GetPrices(a, b) : r.day = d
  <2>1. d \in 1..Today /\ a <= d /\ d <= b /\ market[d].traded
    BY DEF TradedDays
  <2>2. PICK r \in prices : r.day = d
    BY <1>1, <2>1
  <2>3. QED
    BY <2>1, <2>2 DEF GetPrices
<1>8. QED
  BY <1>1, <1>3, <1>4, <1>5, <1>6, <1>7

\* The row of a day is from one commit.
LEMMA OnlyOneLast ==
  ASSUME TypeOK, NEW d, NEW j \in DOMAIN loads, NEW k \in DOMAIN loads,
         LastCover(j, d), LastCover(k, d)
  PROVE  j = k
<1>1. j \in Nat /\ k \in Nat
  BY LoadsAre
<1>2. j <= k /\ k <= j
  BY DEF LastCover
<1>3. QED
  BY <1>1, <1>2

\* The days of a window with a base were all stored, and its rows state the worth of a day for
\* somebody who has the shares of the days of the downloads.
LEMMA BasePrices ==
  ASSUME HistInv, NEW a \in Int, NEW b \in Int, NEW i \in Base(a, b)
  PROVE  /\ \A d \in 1..Today : a <= d /\ d <= b => \E j \in DOMAIN loads : Covers(j, d)
         /\ market[loads[i].on].held \in Nat \ {0}
         /\ provider = "yfinance" =>
              \A r \in GetPrices(a, b) :
                PriceOf(r) = [worth |-> Worth(r.day), per |-> market[loads[i].on].held]
<1>1. TypeOK /\ LoadsArePast /\ RowsAreLatest
  BY DEF HistInv
<1>2. /\ i \in DOMAIN loads
      /\ \A d \in 1..Today : a <= d /\ d <= b => \E j \in i..Len(loads) : Final(j, d)
      /\ \A j \in i..Len(loads) : market[loads[j].on].held = market[loads[i].on].held
  BY DEF Base
<1>3. /\ \A j \in DOMAIN loads : /\ j \in Nat /\ j <= Len(loads) /\ loads[j].on \in 1..LastDay
                                 /\ loads[j].on <= Today
      /\ loads \in Seq(Load) /\ LastDay \in Nat /\ Today \in Nat
  BY <1>1, LoadsAre, MarketIs DEF LoadsArePast, TypeOK
<1>4. \A j \in DOMAIN loads : loads[j].on \in 1..Today
  BY <1>3
<1>5. market[loads[i].on].held \in Nat \ {0}
  BY <1>1, <1>2, <1>4, MarketIs
<1>6. /\ DOMAIN loads = 1..Len(loads) /\ Len(loads) \in Nat
      /\ \A j \in i..Len(loads) : j \in DOMAIN loads
  BY <1>2, <1>3
<1>7. ASSUME provider = "yfinance", NEW r \in GetPrices(a, b)
      PROVE  PriceOf(r) = [worth |-> Worth(r.day), per |-> market[loads[i].on].held]
  <2>1. r \in prices /\ a <= r.day /\ r.day <= b
    BY DEF GetPrices
  <2>2. PICK j \in DOMAIN loads : /\ LastCover(j, r.day)
                                  /\ r = BarAsOf(r.day, loads[j].on, loads[j].closed)
    BY <1>1, <2>1 DEF RowsAreLatest
  <2>3. r.day \in 1..Today
    BY <1>1, <2>1 DEF RowsAreLatest
  <2>4. PICK k \in i..Len(loads) : Final(k, r.day)
    BY <1>2, <2>1, <2>3
  <2>5. k \in DOMAIN loads /\ LastCover(k, r.day) /\ (r.day < loads[k].on \/ loads[k].closed)
    <3>1. k \in DOMAIN loads
      BY <1>6, <2>4
    <3>2. LastCover(k, r.day) /\ (r.day < loads[k].on \/ loads[k].closed)
      BY <2>4, Zenon DEF Final
    <3>3. QED
      BY <3>1, <3>2
  <2>6. j = k
    BY <1>1, <2>2, <2>5, OnlyOneLast
  <2>7. /\ market[loads[j].on].held = market[loads[i].on].held
        /\ r.day < loads[j].on \/ loads[j].closed
    BY <1>2, <2>5, <2>6
  <2>8. r.adjusted = [worth |-> Worth(r.day), per |-> market[loads[j].on].held]
    BY <1>1, <1>4, <1>7, <2>2, <2>3, <2>7, BarIs
  <2>9. r.adjusted.per # 0
    BY <1>5, <2>7, <2>8
  <2>10. r.adjusted # Null
    BY <2>9 DEF Null
  <2>11. QED
    BY <2>7, <2>8, <2>10 DEF PriceOf
<1>8. \A d \in 1..Today : a <= d /\ d <= b => \E j \in DOMAIN loads : Covers(j, d)
  BY <1>2, <1>6 DEF Final, LastCover
<1>9. QED
  BY <1>5, <1>7, <1>8

\* The prices of rows that can be compared are what the days were worth, in one unit.
LEMMA ComparablePrices ==
  ASSUME HistInv, NEW a \in Int, NEW b \in Int, Comparable(a, b)
  PROVE  /\ \A d \in 1..Today : a <= d /\ d <= b => \E j \in DOMAIN loads : Covers(j, d)
         /\ \E per, unit \in Nat \ {0} : \A r \in GetPrices(a, b) :
              /\ PriceOf(r).worth \in Nat \ {0} /\ PriceOf(r).per = per
              /\ Worth(r.day) = PriceOf(r).worth * unit
<1>1. TypeOK /\ LoadsArePast /\ RowsAreLatest
  BY DEF HistInv
<1>2. \A r \in GetPrices(a, b) : r \in prices /\ a <= r.day /\ r.day <= b /\ r.day \in 1..Today
  BY <1>1 DEF GetPrices, RowsAreLatest
<1>3. CASE provider = "yfinance"
  <2>1. PICK i \in Base(a, b) : TRUE
    BY <1>3 DEF Comparable
  <2>2. PICK per \in Nat \ {0}, unit \in Nat \ {0} : per = market[loads[i].on].held /\ unit = 1
    BY BasePrices
  <2>3. \A r \in GetPrices(a, b) : /\ PriceOf(r) = [worth |-> Worth(r.day), per |-> per]
                                   /\ Worth(r.day) \in Nat \ {0}
    BY <1>1, <1>2, <1>3, <2>2, BasePrices, MarketIs
  <2>4. \A r \in GetPrices(a, b) : /\ PriceOf(r).worth \in Nat \ {0} /\ PriceOf(r).per = per
                                   /\ Worth(r.day) = PriceOf(r).worth * unit
    BY <2>2, <2>3
  <2>5. \A d \in 1..Today : a <= d /\ d <= b => \E j \in DOMAIN loads : Covers(j, d)
    BY BasePrices
  <2>6. QED
    BY <2>4, <2>5
<1>4. CASE provider # "yfinance"
  <2>1. provider = "webull"
    BY <1>1, <1>4, HistoryAssumption DEF TypeOK
  <2>2. /\ \A d \in 1..Today : a <= d /\ d <= b => \E j \in DOMAIN loads : Final(j, d)
        /\ \A d, e \in 1..Today : a <= d /\ d <= b /\ a <= e /\ e <= b
                                    => market[d].held = market[e].held
    BY <1>4 DEF Comparable
  <2>3. \A d \in 1..Today : a <= d /\ d <= b => \E j \in DOMAIN loads : Covers(j, d)
    BY <2>2 DEF Final, LastCover
  <2>4. ASSUME NEW r \in GetPrices(a, b)
        PROVE  /\ PriceOf(r) = [worth |-> market[r.day].close, per |-> 1]
               /\ market[r.day].close \in Nat \ {0}
    <3>1. PICK j \in DOMAIN loads : /\ LastCover(j, r.day)
                                    /\ r = BarAsOf(r.day, loads[j].on, loads[j].closed)
      BY <1>1, <1>2 DEF RowsAreLatest
    <3>2. loads[j].on \in 1..Today
      BY <1>1, LoadsAre, MarketIs DEF LoadsArePast
    <3>3. PICK k \in DOMAIN loads : Final(k, r.day)
      BY <1>2, <2>2
    <3>4. j = k
      BY <1>1, <3>1, <3>3, OnlyOneLast DEF Final
    <3>5. r.day < loads[j].on \/ loads[j].closed
      BY <3>3, <3>4 DEF Final
    <3>6. r.adjusted = Null /\ r.close = market[r.day].close
      BY <1>1, <1>2, <1>4, <3>1, <3>2, <3>5, BarIs
    <3>7. QED
      BY <1>1, <1>2, <3>6, MarketIs DEF PriceOf
  <2>5. PICK one \in Nat \ {0} : one = 1
    OBVIOUS
  <2>6. CASE GetPrices(a, b) = {}
    BY <2>3, <2>5, <2>6
  <2>7. ASSUME NEW s \in GetPrices(a, b)
        PROVE  \E unit \in Nat \ {0} : \A r \in GetPrices(a, b) :
                 Worth(r.day) = market[r.day].close * unit
    <3>1. PICK unit \in Nat \ {0} : unit = market[s.day].held
      BY <1>1, <1>2, MarketIs
    <3>2. \A r \in GetPrices(a, b) : market[r.day].held = unit
      BY <1>2, <2>2, <3>1
    <3>3. \A r \in GetPrices(a, b) : Worth(r.day) = market[r.day].close * unit
      BY <3>2 DEF Worth
    <3>4. QED
      BY <3>3
  <2>8. CASE GetPrices(a, b) # {}
    <3>1. PICK unit \in Nat \ {0} : \A r \in GetPrices(a, b) :
            Worth(r.day) = market[r.day].close * unit
      BY <2>7, <2>8
    <3>2. \A r \in GetPrices(a, b) : /\ PriceOf(r).worth \in Nat \ {0} /\ PriceOf(r).per = one
                                     /\ Worth(r.day) = PriceOf(r).worth * unit
      BY <2>4, <2>5, <3>1
    <3>3. QED
      BY <2>3, <3>2
  <2>9. QED
    BY <2>6, <2>8
<1>5. QED
  BY <1>3, <1>4

\* Prices in one unit grow as the worths of their days do.
LEMMA GrowthIs ==
  ASSUME NEW r, NEW s, NEW per \in Nat \ {0}, NEW unit \in Nat \ {0},
         PriceOf(r).worth \in Nat \ {0}, PriceOf(r).per = per,
         Worth(r.day) = PriceOf(r).worth * unit,
         PriceOf(s).worth \in Nat \ {0}, PriceOf(s).per = per,
         Worth(s.day) = PriceOf(s).worth * unit
  PROVE  Same(Growth(PriceOf(r), PriceOf(s)), Earned(r.day, s.day))
<1>1. ASSUME NEW x \in Nat \ {0}, NEW y \in Nat \ {0}
      PROVE  /\ (y * per) * (x * unit) = (y * unit) * (per * x)
             /\ per * x # 0 /\ x * unit # 0
  OBVIOUS
<1>2. PICK x \in Nat \ {0}, y \in Nat \ {0} : x = PriceOf(r).worth /\ y = PriceOf(s).worth
  OBVIOUS
<1>3. Growth(PriceOf(r), PriceOf(s)) = [worth |-> y * per, per |-> per * x]
  BY <1>2 DEF Growth
<1>4. Earned(r.day, s.day) = [worth |-> y * unit, per |-> x * unit]
  BY <1>2 DEF Earned
<1>5. QED
  BY <1>1, <1>3, <1>4 DEF Same

\* No value is no value.
LEMMA NoneIsNone == Same(NoValue, NoValue)
BY DEF Same, NoValue, Null

\* Momentum and daily returns of a window that can be compared.
LEMMA WindowReturns ==
  ASSUME HistInv, NEW d \in 1..Today, Comparable(d - Window, d)
  PROVE  LET days == TradedDays(d - Window, d)
             full == Cardinality(days) >= Required + 1
         IN  /\ Same(Momentum(d), IF full THEN Earned(NthDay(days, Required), NthDay(days, Skip))
                                  ELSE NoValue)
             /\ Len(DailyReturns(d)) = IF full THEN Required ELSE 0
             /\ \A i \in DOMAIN DailyReturns(d) :
                  Same(DailyReturns(d)[i], Earned(NthDay(days, i), NthDay(days, i - 1)))
<1> DEFINE days == TradedDays(d - Window, d)
           rows == GetPrices(d - Window, d)
           full == Cardinality(days) >= Required + 1
<1>1. /\ d \in Int /\ d - Window \in Int
      /\ Required \in Nat \ {0} /\ Skip \in Nat /\ Skip <= Required
  BY HistoryAssumption
<1>2. \A e \in 1..Today : d - Window <= e /\ e <= d => \E j \in DOMAIN loads : Covers(j, e)
  BY <1>1, ComparablePrices
<1>3. PICK per \in Nat \ {0}, unit \in Nat \ {0} : \A r \in rows :
        /\ PriceOf(r).worth \in Nat \ {0} /\ PriceOf(r).per = per
        /\ Worth(r.day) = PriceOf(r).worth * unit
  BY <1>1, ComparablePrices
<1>4. /\ IsFiniteSet(days) /\ days \subseteq Int
      /\ \A r \in rows : r.day \in days
      /\ \A e \in days : \E r \in rows : r.day = e
      /\ \A r, s \in rows : r.day = s.day => r = s
  BY <1>1, <1>2, WindowRows
<1>5. /\ Momentum(d) = IF Cardinality(rows) < Required + 1 THEN NoValue
                       ELSE Growth(PriceOf(NthRow(rows, Required)), PriceOf(NthRow(rows, Skip)))
      /\ DailyReturns(d) = IF Cardinality(rows) < Required + 1 THEN <<>>
                           ELSE [i \in 1..Required |->
                                   Growth(PriceOf(NthRow(rows, i)), PriceOf(NthRow(rows, i - 1)))]
  BY Zenon DEF Momentum, DailyReturns
<1> SUFFICES /\ Same(Momentum(d), IF full THEN Earned(NthDay(days, Required), NthDay(days, Skip))
                                  ELSE NoValue)
             /\ Len(DailyReturns(d)) = IF full THEN Required ELSE 0
             /\ \A i \in DOMAIN DailyReturns(d) :
                  Same(DailyReturns(d)[i], Earned(NthDay(days, i), NthDay(days, i - 1)))
  OBVIOUS
<1> HIDE DEF days, rows
<1>6. /\ Cardinality(rows) = Cardinality(days) /\ Cardinality(days) \in Nat
      /\ \A n \in 0..(Cardinality(days) - 1) : /\ NthRow(rows, n) \in rows
                                               /\ NthRow(rows, n).day = NthDay(days, n)
  BY <1>4, NthRowIs
<1>7. ASSUME NEW m \in 0..(Cardinality(days) - 1), NEW n \in 0..(Cardinality(days) - 1)
      PROVE  Same(Growth(PriceOf(NthRow(rows, m)), PriceOf(NthRow(rows, n))),
                  Earned(NthDay(days, m), NthDay(days, n)))
  <2>1. PICK r \in rows, s \in rows : /\ r = NthRow(rows, m) /\ r.day = NthDay(days, m)
                                      /\ s = NthRow(rows, n) /\ s.day = NthDay(days, n)
    BY <1>6
  <2>2. Same(Growth(PriceOf(r), PriceOf(s)), Earned(r.day, s.day))
    BY <1>3, GrowthIs
  <2>3. QED
    BY <2>1, <2>2
<1>8. CASE full
  <2>1. ~(Cardinality(rows) < Required + 1)
    BY <1>1, <1>6, <1>8
  <2>2. /\ Momentum(d) = Growth(PriceOf(NthRow(rows, Required)), PriceOf(NthRow(rows, Skip)))
        /\ DailyReturns(d) = [i \in 1..Required |->
                                Growth(PriceOf(NthRow(rows, i)), PriceOf(NthRow(rows, i - 1)))]
    BY <1>5, <2>1
  <2>3. \A n \in 0..Required : n \in 0..(Cardinality(days) - 1)
    BY <1>1, <1>6, <1>8
  <2>4. Same(Momentum(d), Earned(NthDay(days, Required), NthDay(days, Skip)))
    BY <1>1, <1>7, <2>2, <2>3
  <2>5. Len(DailyReturns(d)) = Required /\ DOMAIN DailyReturns(d) = 1..Required
    BY <1>1, <2>2
  <2>6. ASSUME NEW i \in 1..Required
        PROVE  Same(DailyReturns(d)[i], Earned(NthDay(days, i), NthDay(days, i - 1)))
    <3>1. i \in 0..(Cardinality(days) - 1) /\ i - 1 \in 0..(Cardinality(days) - 1)
      BY <1>1, <2>3
    <3>2. DailyReturns(d)[i] = Growth(PriceOf(NthRow(rows, i)), PriceOf(NthRow(rows, i - 1)))
      BY <2>2
    <3>3. QED
      BY <1>7, <3>1, <3>2
  <2>7. QED
    BY <1>8, <2>4, <2>5, <2>6
<1>9. CASE ~full
  <2>1. Cardinality(rows) < Required + 1
    BY <1>1, <1>6, <1>9
  <2>2. Momentum(d) = NoValue /\ DailyReturns(d) = <<>>
    BY <1>5, <2>1
  <2>3. Len(DailyReturns(d)) = 0 /\ DOMAIN DailyReturns(d) = {}
    BY <2>2
  <2>4. QED
    BY <1>9, <2>2, <2>3, NoneIsNone
<1>10. QED
  BY <1>8, <1>9

\* The label of a window that can be compared.
LEMMA LabelIs ==
  ASSUME HistInv, NEW d \in 1..Today, Comparable(d, d + Horizon)
  PROVE  Same(Label(d), IF {d, d + Horizon} \subseteq TradedDays(d, d + Horizon)
                        THEN Earned(d, d + Horizon) ELSE NoValue)
<1> DEFINE end  == d + Horizon
           days == TradedDays(d, end)
           rows == GetPrices(d, end)
<1>1. d \in Int /\ end \in Int
  BY HistoryAssumption
<1>2. \A e \in 1..Today : d <= e /\ e <= end => \E j \in DOMAIN loads : Covers(j, e)
  BY <1>1, ComparablePrices
<1>3. PICK per \in Nat \ {0}, unit \in Nat \ {0} : \A r \in rows :
        /\ PriceOf(r).worth \in Nat \ {0} /\ PriceOf(r).per = per
        /\ Worth(r.day) = PriceOf(r).worth * unit
  BY <1>1, ComparablePrices
<1>4. /\ \A r \in rows : r.day \in days
      /\ \A e \in days : \E r \in rows : r.day = e
      /\ \A r, s \in rows : r.day = s.day => r = s
  BY <1>1, <1>2, WindowRows
<1>5. Label(d) = IF {d, end} \subseteq {r.day : r \in rows}
                 THEN Growth(PriceOf(CHOOSE r \in rows : r.day = d),
                             PriceOf(CHOOSE r \in rows : r.day = end))
                 ELSE NoValue
  BY Zenon DEF Label
<1> SUFFICES Same(Label(d), IF {d, end} \subseteq days THEN Earned(d, end) ELSE NoValue)
  OBVIOUS
<1> HIDE DEF end, days, rows
<1>6. {r.day : r \in rows} = days
  BY <1>4
<1>7. CASE {d, end} \subseteq days
  <2>1. PICK r \in rows, s \in rows : /\ r.day = d /\ s.day = end
                                      /\ r = (CHOOSE v \in rows : v.day = d)
                                      /\ s = (CHOOSE v \in rows : v.day = end)
    BY <1>4, <1>7
  <2>2. Label(d) = Growth(PriceOf(r), PriceOf(s))
    BY <1>5, <1>6, <1>7, <2>1
  <2>3. Same(Growth(PriceOf(r), PriceOf(s)), Earned(r.day, s.day))
    BY <1>3, GrowthIs
  <2>4. QED
    BY <1>7, <2>1, <2>2, <2>3
<1>8. CASE ~({d, end} \subseteq days)
  BY <1>5, <1>6, <1>8, NoneIsNone
<1>9. QED
  BY <1>7, <1>8

---------------------------------------------------------------------------
(* Price history: the theorems.                                            *)

\* The state of the market, the rows, the runs and the history of commits is well formed.
THEOREM HistoryTyped == Spec => []TypeOK
<1>1. HistInv => TypeOK
  BY DEF HistInv
<1>2. QED
  BY <1>1, HistoryHolds, PTL

\* Momentum, daily returns and labels of a window that can be compared are what a holder earned,
\* on whatever days and in whatever order its rows were downloaded and stored.
THEOREM Earns == Spec => []ReturnsAreEarned
<1>1. HistInv => ReturnsAreEarned
  <2>1. SUFFICES ASSUME HistInv, NEW d \in 1..Today
                 PROVE  LET days == TradedDays(d - Window, d)
                            full == Cardinality(days) >= Required + 1
                        IN  /\ Comparable(d - Window, d) =>
                                 /\ Same(Momentum(d),
                                         IF full THEN Earned(NthDay(days, Required),
                                                             NthDay(days, Skip))
                                         ELSE NoValue)
                                 /\ Len(DailyReturns(d)) = IF full THEN Required ELSE 0
                                 /\ \A i \in DOMAIN DailyReturns(d) :
                                      Same(DailyReturns(d)[i],
                                           Earned(NthDay(days, i), NthDay(days, i - 1)))
                            /\ d + Horizon <= Today /\ Comparable(d, d + Horizon) =>
                                 Same(Label(d),
                                      IF {d, d + Horizon} \subseteq TradedDays(d, d + Horizon)
                                      THEN Earned(d, d + Horizon) ELSE NoValue)
    BY Zenon DEF ReturnsAreEarned
  <2>2. Comparable(d, d + Horizon) =>
          Same(Label(d), IF {d, d + Horizon} \subseteq TradedDays(d, d + Horizon)
                         THEN Earned(d, d + Horizon) ELSE NoValue)
    BY <2>1, LabelIs
  <2>3. QED
    BY <2>1, <2>2, WindowReturns, Zenon
<1>2. QED
  BY <1>1, HistoryHolds, PTL

\* A figure by the market value: the price is in the shares of the day of the download.
THEOREM Rebases == Spec => []YieldIsRebased
<1>1. HistInv => YieldIsRebased
  <2>1. SUFFICES ASSUME HistInv, provider = "yfinance", NEW d \in 1..Today,
                        NEW i \in Base(d - PriceWindow, d)
                 PROVE  LET days == TradedDays(d - PriceWindow, d)
                            last == NthDay(days, 0)
                        IN  Same(ValueFeature(d),
                                 IF days = {} THEN NoValue
                                 ELSE [worth |-> Figure * market[loads[i].on].held,
                                       per |-> Shares * Worth(last)])
    BY Zenon DEF YieldIsRebased
  <2> DEFINE days == TradedDays(d - PriceWindow, d)
             rows == GetPrices(d - PriceWindow, d)
             last == NthDay(days, 0)
             held == market[loads[i].on].held
  <2>2. /\ d \in Int /\ d - PriceWindow \in Int
        /\ Figure \in Nat \ {0} /\ Shares \in Nat \ {0}
    BY HistoryAssumption
  <2>3. /\ \A e \in 1..Today : d - PriceWindow <= e /\ e <= d
                                 => \E j \in DOMAIN loads : Covers(j, e)
        /\ held \in Nat \ {0}
        /\ \A r \in rows : PriceOf(r) = [worth |-> Worth(r.day), per |-> held]
    BY <2>1, <2>2, BasePrices
  <2>4. /\ IsFiniteSet(days) /\ days \subseteq Int /\ days \subseteq 1..Today
        /\ \A r \in rows : r.day \in days
        /\ \A e \in days : \E r \in rows : r.day = e
        /\ \A r, s \in rows : r.day = s.day => r = s
    BY <2>1, <2>2, <2>3, WindowRows
  <2>5. LatestPrice(d) = IF rows = {} THEN NoValue ELSE PriceOf(NthRow(rows, 0))
    BY Zenon DEF LatestPrice
  <2> SUFFICES Same(ValueFeature(d), IF days = {} THEN NoValue
                                     ELSE [worth |-> Figure * held, per |-> Shares * Worth(last)])
    BY Zenon
  <2>6. \A e \in days : Worth(e) \in Nat \ {0}
    BY <2>1, <2>4, MarketIs DEF HistInv
  <2> HIDE DEF days, rows, held, last
  <2>7. CASE days = {}
    <3>1. rows = {}
      BY <2>4, <2>7
    <3>2. LatestPrice(d) = [worth |-> 0, per |-> 0]
      BY <2>5, <3>1 DEF NoValue, Null
    <3>3. MarketCap(d).worth = 0
      BY <2>2, <3>2 DEF MarketCap
    <3>4. ValueFeature(d) = NoValue
      BY <3>3 DEF ValueFeature, Ratio
    <3>5. QED
      BY <2>7, <3>4, NoneIsNone
  <2>8. CASE days # {}
    <3>1. /\ Cardinality(days) \in Nat
          /\ \A n \in 0..(Cardinality(days) - 1) : /\ NthRow(rows, n) \in rows
                                                   /\ NthRow(rows, n).day = NthDay(days, n)
      BY <2>4, NthRowIs
    <3>2. 0 \in 0..(Cardinality(days) - 1)
      BY <2>4, <2>8, <3>1, FS_EmptySet
    <3>3. NthRow(rows, 0) \in rows /\ NthRow(rows, 0).day = last
      BY <3>1, <3>2 DEF last
    <3>4. last \in days
      BY <2>4, <3>3
    <3>5. LatestPrice(d) = [worth |-> Worth(last), per |-> held]
      BY <2>3, <2>5, <3>3
    <3>6. MarketCap(d) = [worth |-> Shares * Worth(last), per |-> held]
      BY <3>5 DEF MarketCap
    <3>7. ASSUME NEW x \in Nat \ {0}, NEW y \in Nat \ {0} PROVE x * y \in Nat \ {0}
      OBVIOUS
    <3>8. Shares * Worth(last) \in Nat \ {0} /\ Figure * held \in Nat \ {0}
      BY <2>2, <2>3, <2>6, <3>4, <3>7
    <3>9. ValueFeature(d) = [worth |-> Figure * held, per |-> Shares * Worth(last)]
      BY <3>6, <3>8 DEF ValueFeature, Ratio
    <3>10. QED
      BY <2>8, <3>9 DEF Same
  <2>9. QED
    BY <2>7, <2>8
<1>2. QED
  BY <1>1, HistoryHolds, PTL
=============================================================================
