----------------------------- MODULE MCQuoteFlow -----------------------------
(* An instance of QuoteFlow: both directions of a pair share a bucket of    *)
(* two requests.                                                           *)
EXTENDS QuoteFlow, TLC

CONSTANTS e1, e2

MCEndpoints == {e1, e2}
MCSymmetry  == Permutations(MCEndpoints)
MCSides == <<"buy", "sell">>
================================================================================
