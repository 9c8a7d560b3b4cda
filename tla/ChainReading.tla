------------------------------- MODULE ChainReading -------------------------------
(***************************************************************************)
(* reconstructChainLinks of on-chain-automations.ts: a browser that has no *)
(* record of a chain finds it again from the rules of the wallet, by the   *)
(* addresses they pay into and the fills they watch.  The rules are those  *)
(* ChainCreation leaves on chain, at every moment of every attempt; the    *)
(* list is read newest first.                                              *)
(***************************************************************************)
EXTENDS ChainCreation, FiniteSetsExt

Own == {p \in 1..Len(rules) : rules[p].by # 0}

(* nextById, and whether prevById has the rule: an address that is not one  *)
(* of the wallet's rules is no link.                                        *)
NextOf(p)   == IF rules[p].dest \in Own THEN rules[p].dest ELSE 0
PayersOf(p) == {q \in Own : NextOf(q) = p}

(* The neighbours: two rules one of which pays into the other, and a rule   *)
(* with the one whose fills it watches - unless its payer has been read by  *)
(* then.                                                                    *)
Watches(p, q)  == rules[p].upstream = q /\ \A r \in PayersOf(p) : r < p
Adjacent(p, q) == NextOf(p) = q \/ NextOf(q) = p \/ Watches(p, q) \/ Watches(q, p)

(* The component that the search from p finds. *)
Component(p) ==
  LET found[k \in 0..Cardinality(Own)] ==
        IF k = 0 THEN {p}
        ELSE LET c == found[k - 1] IN
             c \union {q \in Own \ c : \E r \in c : Adjacent(r, q)}
  IN found[Cardinality(Own)]

Heads(c) == {p \in c : PayersOf(p) = {}}

(* A mutant: the numbers of a ring are compared the wrong way round. *)
Start_newest(c) == IF Heads(c) # {} THEN Min(Heads(c)) ELSE Max(c)

(* Where a chain begins: at the rule nobody pays into (of several, which    *)
(* parts of chains can have, at the first the search meets: the lowest one, *)
(* if it is of them), in a ring at the one with the lowest number.          *)
Start(c) == IF Heads(c) # {} THEN Min(Heads(c)) ELSE Min(c)

(* The positions that following the payments gives; a rule that is not met  *)
(* comes after all that are (its position is not told here).                *)
Position(c) ==
  LET at[k \in 0..Cardinality(c)] ==
        IF k = 0 THEN Start(c)
        ELSE LET p == at[k - 1] IN IF p = 0 THEN 0 ELSE NextOf(p)
      first(p) == {k \in 0..Cardinality(c) : at[k] = p}
  IN [p \in {q \in c : first(q) # {}} |-> Min(first(p))]

-----------------------------------------------------------------------------
(* A chain that was created whole is read back as it was made - one chain,  *)
(* in the order of its cards, with their links - however much of other      *)
(* attempts lies around it, as long as none of that pays into the chain or  *)
(* watches its fills (reconstructChainLinks).                               *)
ReadBackInOrder ==
  \A a \in Attempts :
    LET own == {p \in Own : rules[p].by = a}
        c   == Component(Min(own))
        at  == Position(c)
    IN /\ Count > 1 /\ Cardinality(own) = Count
       /\ \A q \in Own \ own : {rules[q].dest, rules[q].upstream} \cap own = {}
       => /\ c = own /\ DOMAIN at = own
          /\ \A p \in own :
               LET i == rules[p].card IN
               /\ at[p] = i - 1
               /\ IF cards[i].link = 0 THEN NextOf(p) = 0
                  ELSE NextOf(p) \in own /\ rules[NextOf(p)].card = cards[i].link

(* The order of a whole chain does not depend on what failed attempts left. *)
WholeChainsKeepOrder ==
  \A a \in Attempts :
    LET own == {p \in Own : rules[p].by = a}
        at  == Position(Component(Min(own)))
    IN Count > 1 /\ Cardinality(own) = Count =>
         \A p, q \in own :
           /\ {p, q} \subseteq DOMAIN at
           /\ rules[p].card < rules[q].card => at[p] < at[q]
================================================================================
