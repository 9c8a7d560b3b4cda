----------------------------- MODULE MCSpotSignals -----------------------------
(* Instances of SpotSignals for TLC. *)
EXTENDS SpotSignals, TLC

CONSTANTS w1, w2

MCWorks    == {w1, w2}
MCSymmetry == Permutations(MCWorks)
MCAllModes == {"paper", "jupiter-dry-run", "jupiter-managed", "helius-sender"}
MCDryModes == {"paper", "jupiter-dry-run"}
MCManaged  == {"jupiter-managed"}
================================================================================
