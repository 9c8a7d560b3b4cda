---------------------------- MODULE MCChainCreation ----------------------------
(* A small instance of ChainCreation: chains of up to three cards, so of    *)
(* two batches, made of a swap, a swap back and rules that spend or watch   *)
(* what the previous card delivers.                                         *)
EXTENDS ChainReading, TLC

Swap(i, o, consume, relative) ==
  [swap |-> TRUE, in |-> i, out |-> o, consume |-> consume, relative |-> relative]

MCResults == {Swap("usdc", "sol", FALSE, FALSE), Swap("sol", "usdc", TRUE, TRUE)}
MCAttempts == {1, 2}
================================================================================
