------------------------------ MODULE ChainCreation ------------------------------
(***************************************************************************)
(* sendChainCreate of linked-chains.ts: a saved chain draft becomes on-    *)
(* chain rules, and ChainDepositSheet / AutomationWorkspace record them.   *)
(*                                                                         *)
(* The addresses of the rules are derived from the owner and the program's *)
(* counter (automation_count) before anything is signed, and the swaps of  *)
(* the rules are routed to those addresses.  Then the token accounts are   *)
(* made in one transaction and the rules in transactions of two, one after *)
(* the other, while other wallets create rules of their own.  The sheet    *)
(* can be dismissed and a second attempt made while the first goes on.     *)
(*                                                                         *)
(* The address PDA(owner, n) is written n here: the position of a rule in  *)
(* `rules`, counted from 1.  The chain itself is external: a transaction   *)
(* handed over lands or fails at a later time.                             *)
(***************************************************************************)
EXTENDS ChainDraft, FiniteSets

CONSTANTS
  Attempts,   \* presses of the confirm button
  SelfCycles, \* cycles a self-loop is funded for in advance
  MaxRules    \* bound: rules the program ever holds

ASSUME CreationAssumption ==
  /\ MaxRules \in Nat /\ SelfCycles \in Nat \ {0}
  /\ 0 \notin Attempts

VARIABLES
  rules,   \* the program's rules by number; by 0 is another wallet's
  atas,    \* addresses of this owner whose input token account exists
  att,     \* the attempts
  saved    \* the addresses an attempt put into the local list, card by card

creationVars == <<rules, atas, att, saved>>
vars == <<cards, loop, asking, cutting, rules, atas, att, saved>>

BatchSize == 2
Batches   == 1..((MaxCards + BatchSize - 1) \div BatchSize)
Numbers   == 0..(MaxRules + MaxCards)

Fresh == [at |-> "idle", start |-> 0, batch |-> 1, out |-> [b \in Batches |-> "none"]]

TypeOK ==
  /\ DraftTypeOK
  /\ rules \in Seq([by: {0} \union Attempts, card: Links, dest: Numbers,
                    upstream: Numbers, seed: Nat, bridge: BOOLEAN, looped: BOOLEAN])
  /\ Len(rules) <= MaxRules
  /\ atas \subseteq Numbers
  /\ att \in [Attempts -> [at: {"idle", "setup", "send", "confirm", "report", "done", "failed"},
                           start: 0..(MaxRules + 1), batch: 1..(MaxCards + 1),
                           out: [Batches -> {"none", "pending", "created", "failed"}]]]
  /\ saved \in [Attempts -> Seq(Numbers)]

Init ==
  /\ DraftInit
  /\ rules = <<>> /\ atas = {}
  /\ att = [a \in Attempts |-> Fresh]
  /\ saved = [a \in Attempts |-> <<>>]

-----------------------------------------------------------------------------
Count       == Len(cards)
LastBatch   == (Count + BatchSize - 1) \div BatchSize
First(b)    == BatchSize * (b - 1) + 1
Size(b)     == IF First(b) + BatchSize - 1 <= Count THEN BatchSize ELSE Count - First(b) + 1
Pda(a, i)   == att[a].start + i - 1

(* A mutant: a loop mode overrides the cadence of every card. *)
CycleMembers_all == IF loop THEN 1..Count ELSE {}

(* The cards whose cadence the loop mode overrides. *)
CycleMembers == IF ~ loop THEN {} ELSE IF Count = 1 THEN {1} ELSE FindCycleNodes

(* The previous card delivers another mint than this one spends, or the     *)
(* card feeds itself the wrong mint.  The link back to an earlier card is   *)
(* not looked at.                                                           *)
BridgeEnabled(i) ==
  \/ i > 1 /\ BridgeRequired(cards[i - 1].result, cards[i].result)
  \/ cards[i].link = i /\ BridgeRequired(cards[i].result, cards[i].result)

(* Only the head is funded: for one cycle, or, alone in a loop, for many. *)
Seed(i) == IF i # 1 THEN 0 ELSE IF Count = 1 /\ loop THEN SelfCycles ELSE 1

(* The rule of card i as this attempt has it built: 0 is the owner's wallet *)
(* as destination, and no fill to watch.                                    *)
Planned(a, i) ==
  [by       |-> a,
   card     |-> i,
   dest     |-> IF Count = 1 \/ cards[i].link = 0 THEN 0 ELSE Pda(a, cards[i].link),
   upstream |-> IF cards[i].result.relative THEN Pda(a, i - 1) ELSE 0,
   seed     |-> Seed(i),
   bridge   |-> BridgeEnabled(i),
   looped   |-> i \in CycleMembers]

(* A mutant: the program takes whatever number is next. *)
CanCreate_anywhere(a, b) ==
  /\ \A k \in 0..Size(b) - 1 : Pda(a, First(b) + k) \in atas
  /\ Len(rules) + Size(b) <= MaxRules

(* create_automation_swap_linked, for all cards of a batch: the program     *)
(* derives the address from its own counter, and the input token account    *)
(* of each rule must be there.                                              *)
CanCreate(a, b) ==
  /\ Len(rules) + 1 = Pda(a, First(b))
  /\ \A k \in 0..Size(b) - 1 : Pda(a, First(b) + k) \in atas
  /\ Len(rules) + Size(b) <= MaxRules

-----------------------------------------------------------------------------
(* The builder is used until the first attempt is made (bound: the draft is *)
(* not edited between two attempts).                                        *)
Edit ==
  /\ \A a \in Attempts : att[a].at = "idle"
  /\ DraftNext
  /\ UNCHANGED creationVars

(* The confirm button: fetchConfig reads the counter, everything is derived *)
(* from it.                                                                 *)
Begin(a) ==
  /\ att[a].at = "idle" /\ ChainReady
  /\ Len(rules) + Count <= MaxRules
  /\ att' = [att EXCEPT ![a] = [Fresh EXCEPT !.at = "setup", !.start = Len(rules) + 1]]
  /\ UNCHANGED <<cards, loop, asking, cutting, rules, atas, saved>>

(* The token accounts: the transaction lands or not, and what its           *)
(* confirmation says of an error is not read.                               *)
Setup(a) ==
  /\ att[a].at = "setup"
  /\ \E next \in {"send", "failed"} : att' = [att EXCEPT ![a].at = next]
  /\ \/ atas' = atas \union {Pda(a, i) : i \in 1..Count}
     \/ UNCHANGED atas
  /\ UNCHANGED <<cards, loop, asking, cutting, rules, saved>>

(* A batch is signed and handed over; the preflight simulation refuses one  *)
(* that could not land now.  The call may throw although the transaction    *)
(* went out.                                                                *)
Send(a) ==
  LET b == att[a].batch IN
  /\ att[a].at = "send" /\ CanCreate(a, b)
  /\ \E next \in {"confirm", "failed"} :
       att' = [att EXCEPT ![a].at = next, ![a].out[b] = "pending"]
  /\ UNCHANGED <<cards, loop, asking, cutting, rules, atas, saved>>

(* confirmTransaction returns once the batch has landed, with an error in   *)
(* its result or without: the result is dropped.                            *)
Confirm(a) ==
  LET b == att[a].batch IN
  /\ att[a].at = "confirm" /\ att[a].out[b] \in {"created", "failed"}
  /\ att' = [att EXCEPT ![a].at = IF b = LastBatch THEN "report" ELSE "send",
                        ![a].batch = b + 1]
  /\ UNCHANGED <<cards, loop, asking, cutting, rules, atas, saved>>

(* A refused signature, a failing preflight, a lost connection, a timeout:  *)
(* the sheet shows the error and nothing is recorded.                       *)
Abort(a) ==
  /\ att[a].at \in {"setup", "send", "confirm", "report"}
  /\ att' = [att EXCEPT ![a].at = "failed"]
  /\ UNCHANGED <<cards, loop, asking, cutting, rules, atas, saved>>

(* The creation events of a batch that landed, as far as its logs go; none  *)
(* when getTransaction does not find it yet.                                *)
Events(a, b, seen) ==
  IF att[a].out[b] = "created" THEN [k \in 1..seen |-> Pda(a, First(b) + k - 1)] ELSE <<>>

(* The events of all batches are strung together, the cards they do not     *)
(* reach get the derived address; handleChainDepositConfirm stores them.    *)
Report(a) ==
  /\ att[a].at = "report"
  /\ \E seen \in [Batches -> 0..BatchSize] :
       LET events[b \in 0..LastBatch] ==
             IF b = 0 THEN <<>> ELSE events[b - 1] \o Events(a, b, seen[b])
           all == events[LastBatch]
       IN /\ \A b \in Batches : seen[b] <= IF b <= LastBatch THEN Size(b) ELSE 0
          /\ saved' = [saved EXCEPT ![a] =
               [i \in 1..Count |-> IF i <= Len(all) THEN all[i] ELSE Pda(a, i)]]
  /\ att' = [att EXCEPT ![a].at = "done"]
  /\ UNCHANGED <<cards, loop, asking, cutting, rules, atas>>

-----------------------------------------------------------------------------
(* The chain executes a batch whole, or not at all: the counter has moved,  *)
(* the account is missing, the wallet is short, the blockhash expired.      *)
Land(a, b) ==
  /\ att[a].out[b] = "pending"
  /\ \/ /\ CanCreate(a, b)
        /\ rules' = rules \o [k \in 1..Size(b) |-> Planned(a, First(b) + k - 1)]
        /\ att' = [att EXCEPT ![a].out[b] = "created"]
     \/ /\ att' = [att EXCEPT ![a].out[b] = "failed"]
        /\ UNCHANGED rules
  /\ UNCHANGED <<cards, loop, asking, cutting, atas, saved>>

(* Another wallet creates a rule. *)
Foreign ==
  /\ Len(rules) < MaxRules
  /\ rules' = Append(rules, [by |-> 0, card |-> 0, dest |-> 0, upstream |-> 0,
                             seed |-> 0, bridge |-> FALSE, looped |-> FALSE])
  /\ UNCHANGED <<cards, loop, asking, cutting, atas, att, saved>>

Next ==
  \/ Edit \/ Foreign
  \/ \E a \in Attempts :
       \/ Begin(a) \/ Setup(a) \/ Send(a) \/ Confirm(a) \/ Abort(a) \/ Report(a)
       \/ \E b \in 1..LastBatch : Land(a, b)

Spec == Init /\ [][Next]_vars

-----------------------------------------------------------------------------
(* Of two rules one attempt has created, whatever other wallets created in  *)
(* between: the first pays into the second exactly when its card links to   *)
(* that card, and watches the fills of the second exactly when its trigger  *)
(* names the previous card and that card is it.                             *)
RoutesAsPlanned ==
  \A p, q \in 1..Len(rules) :
    rules[p].by # 0 /\ rules[q].by = rules[p].by =>
      LET i == rules[p].card
          j == rules[q].card
      IN /\ i \in 1..Count
         /\ (rules[p].dest = q) <=> (Count > 1 /\ cards[i].link = j)
         /\ (rules[p].upstream = q) <=> (cards[i].result.relative /\ j = i - 1)

(* Follow the destinations from rule p. *)
Reached(p) ==
  LET at[k \in 0..MaxCards] ==
        IF k = 0 THEN p
        ELSE IF at[k - 1] \in 1..Len(rules) THEN rules[at[k - 1]].dest ELSE 0
  IN {at[k] : k \in 1..MaxCards}

(* In a chain that was created whole the rules that refill each other run   *)
(* on the schedule of the loop, and the rules before the ring keep theirs:  *)
(* the schedule agrees with where the outputs really go.                    *)
LoopedIffOnRing ==
  \A a \in Attempts :
    LET own == {p \in 1..Len(rules) : rules[p].by = a} IN
    Count > 1 /\ Cardinality(own) = Count =>
      \A p \in own : rules[p].looped <=> p \in Reached(p)

(* What is recorded as created exists: each saved address is the rule of    *)
(* its card (linked-chains.ts: "so we know what we created").               *)
RecordedRulesExist ==
  \A a \in Attempts : \A i \in 1..Len(saved[a]) :
    /\ saved[a][i] \in 1..Len(rules)
    /\ rules[saved[a][i]].by = a /\ rules[saved[a][i]].card = i

(* Once no attempt is under way, the output of every rule of a chain goes   *)
(* to the owner or to a rule of the same chain (the invariants listed at    *)
(* the head of linked-chains.ts; types.ts on partial chains).               *)
OutputsReachRules ==
  (\A a \in Attempts : att[a].at \in {"idle", "done", "failed"} /\
                       \A b \in Batches : att[a].out[b] # "pending") =>
    \A p \in 1..Len(rules) :
      rules[p].by # 0 /\ rules[p].dest # 0 =>
        /\ rules[p].dest <= Len(rules)
        /\ rules[rules[p].dest].by = rules[p].by
================================================================================
