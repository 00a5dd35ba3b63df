----------------------------- MODULE MCIngestion -----------------------------
(* Instances of DbValidation for TLC. *)
EXTENDS DbValidation

CONSTANTS b1, t1, t2, t3

\* A ticker listed twice; one that is not in the tickers table; all members; no ticker.
Lists == {<<>>, <<t1, t1>>, <<t2, t1>>, <<t1, t3>>}

\* A day without a close, or a Webull that always shows its newest bars.
Answers == {[silent |-> {0}, heeds_end_time |-> TRUE],
            [silent |-> {}, heeds_end_time |-> FALSE]}

FirstListed == -2
FirstWanted == -1

ASSUME FewSilentDays
=============================================================================
