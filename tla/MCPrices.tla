------------------------------ MODULE MCPrices ------------------------------
(* Instances of PriceHistory for TLC. *)
EXTENDS PriceHistory, TLC

\* Two prices, each reached from the other at the close, a payout that leaves a third, a day
\* without a bar.
FewDays == {[close |-> 2, quote |-> 3, payout |-> FALSE, traded |-> TRUE],
            [close |-> 3, quote |-> 2, payout |-> FALSE, traded |-> TRUE],
            [close |-> 1, quote |-> 2, payout |-> TRUE, traded |-> TRUE],
            [close |-> 1, quote |-> 1, payout |-> FALSE, traded |-> FALSE]}

Symmetry == Permutations(Flows)
=============================================================================
