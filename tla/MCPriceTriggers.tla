--------------------------- MODULE MCPriceTriggers ---------------------------
(* A small instance of PriceTriggers for TLC.                                 *)
EXTENDS PriceTriggers

CONSTANTS f1, r1, low, high

OneFeedOf == [r \in {r1} |-> f1]
HighCrosses == [r \in {r1} |-> {high}]
MCMaxAge == [lazer |-> 1, sse |-> 1, poll |-> 1]

=============================================================================
