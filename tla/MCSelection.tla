----------------------------- MODULE MCSelection -----------------------------
(* Instances of Selection for TLC. *)
EXTENDS Selection, TLC

Names == 1..6

\* Few tickers in two sectors, with two features of two values.
Few == {1, 2, 3, 4}
Scored ==
  {[strategy |-> "multi_factor", complete |-> Few, sector |-> sector @@ [t \in Names |-> 1],
    value |-> [f \in {"value", "quality"} |->
                 [t \in Names |-> IF t \in Few THEN value[f][t] ELSE 0]],
    factor |-> factor, nLong |-> n, neutral |-> neutral, scheme |-> "score_weighted"] :
      sector \in {s \in [Few -> 1..2] : s[1] = 1}, value \in [{"value", "quality"} -> [Few -> 0..1]],
      factor \in {[value |-> 2, quality |-> 1], [value |-> 1, quality |-> 0]},
      n \in {2, 3}, neutral \in BOOLEAN}

\* More tickers in three sectors of any sizes, ranked by one number, ties included.
Spread ==
  {[strategy |-> strategy, complete |-> complete, sector |-> sector,
    value |-> [f \in {"prediction"} |-> [t \in Names |-> (t * 5) % 4]],
    factor |-> [prediction |-> 1], nLong |-> n, neutral |-> TRUE, scheme |-> "equal"] :
      strategy \in {"multi_factor", "gbm"}, complete \in {{}, 1..5, Names},
      sector \in {s \in [Names -> 1..3] : s[1] = 1}, n \in {1, 3, 4, 5}}

All == Scored \union Spread
=============================================================================
