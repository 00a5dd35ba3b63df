------------------------------ MODULE Selection ------------------------------
(***************************************************************************)
(* target_weights of the factor strategies: what is left of the universe    *)
(* is scored, each sector gets its share of the n_long places, the best of  *)
(* each sector take them and are weighted                                   *)
(* (azureus/strategies/multi_factor_v1.py, features/scoring.py; the GBM     *)
(* strategy selects the same way by its predictions).                       *)
(*                                                                         *)
(* Feature values are integers, of which only the order matters: a feature  *)
(* enters the score by its percentile rank, and z-scoring is the same       *)
(* increasing line for all tickers.  The slope of that line, the number of  *)
(* features of the family and the family's weight make one factor for each   *)
(* feature, which is any number (0 for a family without a positive weight).  *)
(***************************************************************************)
EXTENDS Integers, FiniteSetsExt

CONSTANTS Tickers,     \* numbers, in the order of the symbols
          NumSectors,  \* sectors are numbered in the order of their names
          Questions,   \* what target_weights may be asked
          Parts        \* a common multiple of the sizes of sectors

Sectors == 1..NumSectors

\* The strategy, and of its data the tickers that pass the filters on liquidity and on missing
\* features; for the GBM strategy the one feature is its predictions.
IsQuestion(x) ==
  /\ x.strategy \in {"multi_factor", "gbm"} /\ x.scheme \in {"equal", "score_weighted"}
  /\ x.complete \subseteq Tickers /\ x.sector \in [Tickers -> Sectors]
  /\ x.nLong \in Nat \ {0} /\ x.neutral \in BOOLEAN
  /\ IsFiniteSet(DOMAIN x.value) /\ DOMAIN x.factor = DOMAIN x.value
  /\ \A f \in DOMAIN x.value : x.factor[f] \in Nat /\ x.value[f] \in [Tickers -> Int]
  /\ x.strategy = "gbm" => DOMAIN x.value = {"prediction"}

ASSUME SelectionAssumption ==
  /\ Tickers \subseteq Nat /\ IsFiniteSet(Tickers) /\ NumSectors \in Nat
  /\ Parts \in Nat \ {0} /\ \A size \in 1..Cardinality(Tickers) : Parts % size = 0
  /\ \A x \in Questions : IsQuestion(x)

VARIABLES q,          \* the question: context, parameters and data
          answered,   \* whether it has been answered
          answer      \* the parts of the portfolio by ticker, over their sum

selVars == <<q, answered, answer>>

SelInit == q \in Questions /\ answered = FALSE /\ answer = <<>>

---------------------------------------------------------------------------
(* Scores.                                                                 *)

Candidates(s) == {t \in q.complete : q.sector[t] = s}
Peers(t)      == IF q.neutral THEN Candidates(q.sector[t]) ELSE q.complete

\* Twice the average rank among the peers, as a share of their number.
PercentRank(f, t) ==
  LET below == {u \in Peers(t) : q.value[f][u] < q.value[f][t]}
      ties  == {u \in Peers(t) : q.value[f][u] = q.value[f][t]}
  IN  (2 * Cardinality(below) + Cardinality(ties) + 1) * (Parts \div Cardinality(Peers(t)))

Composite(t) == SumFunction([f \in DOMAIN q.value |-> q.factor[f] * PercentRank(f, t)])
Predicted(t) == q.value["prediction"][t]
Score(t)     == IF q.strategy = "gbm" THEN Predicted(t) ELSE Composite(t)

\* Mutant: the lowest scores come first.
Before_Ascending(t, u) == Score(t) < Score(u) \/ (Score(t) = Score(u) /\ t < u)

\* _rank_scores: the order of the ranking, ties by symbol.
Before(t, u) == Score(t) > Score(u) \/ (Score(t) = Score(u) /\ t < u)

\* ranked.head(n), of the tickers in a set.
Best(S, n) == {t \in S : Cardinality({u \in S : Before(u, t)}) < n}

\* A list, as the place of each of its tickers: by groups, in a group by rank.
InOrder(S, group) ==
  [t \in S |-> Cardinality({u \in S : \/ group[u] < group[t]
                                      \/ group[u] = group[t] /\ Before(u, t)})]

---------------------------------------------------------------------------
(* Places for sectors: _sector_quotas.                                     *)

TargetCount == Min({q.nLong, Cardinality(q.complete)})
Count(s)    == Cardinality(Candidates(s))

\* Mutant: shares are rounded to the nearest number.
Whole_Nearest(s) == Min({(2 * Count(s) * TargetCount + Cardinality(q.complete))
                           \div (2 * Cardinality(q.complete)), Count(s)})

\* The whole part of a sector's share, and what its fraction is a multiple of.
Whole(s)    == Min({(Count(s) * TargetCount) \div Cardinality(q.complete), Count(s)})
Fraction(s) == Count(s) * TargetCount - Whole(s) * Cardinality(q.complete)

Remainder == TargetCount - SumFunction([s \in Sectors |-> Whole(s)])

\* The sectors that get one of the remaining places: largest fractions first, if they
\* have a candidate left.  Fractions are differences of floats, so that any of two equal
\* ones may come first.
Favoured ==
  LET room == {s \in Sectors : Whole(s) < Count(s)}
  IN  {more \in kSubset(Min({Max({Remainder, 0}), Cardinality(room)}), room) :
         \A s \in more, u \in room \ more : Fraction(s) >= Fraction(u)}

\* The last loop of _sector_quotas: sectors in order take what is still left.
ToppedUp(quota) ==
  LET free(s)   == Count(s) - quota[s]
      left      == TargetCount - SumFunction(quota)
      before(s) == SumFunction([r \in 1..(s - 1) |-> free(r)])
  IN  [s \in Sectors |-> quota[s] + Max({0, Min({free(s), left - before(s)})})]

Quotas == {ToppedUp([s \in Sectors |-> Whole(s) + (IF s \in more THEN 1 ELSE 0)]) :
             more \in Favoured}

---------------------------------------------------------------------------
(* Selection and weights.                                                  *)

\* _select_long_tickers, given the quotas: the best of each sector, in the order of sectors,
\* then others by rank, cut off at the number of places.
Selected(quota) ==
  LET picks  == UNION {Best(Candidates(s), quota[s]) : s \in Sectors}
      others == Best(q.complete \ picks, Max({0, TargetCount - Cardinality(picks)}))
      group  == [t \in q.complete |-> IF t \in picks THEN q.sector[t] ELSE NumSectors + 1]
      list   == InOrder(picks \union others, group)
  IN  [t \in {u \in DOMAIN list : list[u] < TargetCount} |-> list[t]]

ByRank == InOrder(Best(q.complete, TargetCount), [t \in q.complete |-> 0])

Selections == IF q.complete = {} THEN {<<>>}
              ELSE IF q.neutral THEN {Selected(quota) : quota \in Quotas}
              ELSE {ByRank}

\* Mutant: the best ticker gets rank 1.
RankAmong_Descending(selected, t) ==
  Cardinality({u \in DOMAIN selected : Score(u) > Score(t)}) + 1

\* The rank of scores in ascending order, ties in the order of the list.
RankAmong(selected, t) ==
  Cardinality({u \in DOMAIN selected : \/ Score(u) < Score(t)
                                       \/ Score(u) = Score(t) /\ selected[u] <= selected[t]})

\* _target_weights: each ticker's part; the GBM strategy weights equally.
Weights(selected) ==
  LET scored == q.strategy = "multi_factor" /\ q.scheme = "score_weighted"
  IN  [t \in DOMAIN selected |-> IF scored THEN RankAmong(selected, t) ELSE 1]

\* target_weights; without a complete ticker the answer is cash.
TargetWeights == /\ ~answered
                 /\ answered' = TRUE
                 /\ \E selected \in Selections : answer' = Weights(selected)
                 /\ UNCHANGED q

SelOver == answered /\ UNCHANGED selVars

SelNext == TargetWeights \/ SelOver

SelSpec == SelInit /\ [][SelNext]_selVars

---------------------------------------------------------------------------
(* Properties.                                                             *)

\* All places are taken, and the number of tickers of a sector is its proportional share
\* of them, rounded down or up: no sector gets two places too many because of the others'
\* fractions, and clipping and topping up never distort the shares.
PlacesAreProportional ==
  answered =>
    /\ Cardinality(DOMAIN answer) = TargetCount
    /\ q.neutral /\ q.complete # {} => \A s \in Sectors :
         LET taken == Cardinality(DOMAIN answer \intersect Candidates(s))
             total == Cardinality(q.complete)
         IN  /\ taken * total > Count(s) * TargetCount - total
             /\ taken * total < Count(s) * TargetCount + total

\* As good in every feature that counts, and better in one.
Dominates(t, u) ==
  LET used == {f \in DOMAIN q.value : q.factor[f] > 0}
  IN  /\ \A f \in used : q.value[f][t] >= q.value[f][u]
      /\ \E f \in used : q.value[f][t] > q.value[f][u]

\* Ranking within sectors, averaging and quotas never pass over a ticker for a worse one
\* of its own sector (of the universe, when sectors do not count).
NoneBetterLeftOut ==
  answered =>
    \A t \in DOMAIN answer, u \in q.complete \ DOMAIN answer :
      u \in Peers(t) => ~Dominates(u, t)

\* A better ticker of a sector never gets less than a worse one, and more when weights
\* follow the scores.
BetterGetsMore ==
  answered =>
    \A t, u \in DOMAIN answer :
      u \in Peers(t) /\ Dominates(t, u) =>
        /\ answer[t] >= answer[u]
        /\ q.strategy = "multi_factor" /\ q.scheme = "score_weighted" => answer[t] > answer[u]
=============================================================================
