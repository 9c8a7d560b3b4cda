------------------------------ MODULE MCSavedRules ------------------------------
(* Two wallets in one browser; A creates a rule. *)
EXTENDS SavedRules

CONSTANTS A, B, a1

MCWallets == {A, B}
MCChains  == {{a1}}
MCOwnerOf == [c \in MCChains |-> A]
=============================================================================
