----------------------- MODULE AutomationProgram_proofs -----------------------
(***************************************************************************)
(* Theorems about the on-chain program, for every value of its constants:  *)
(* the arithmetic of the schedule, type correctness (no account is ever    *)
(* overdrawn), the cadence bounds, the rent floor, the numbering of rules, *)
(* the wind-down, the refinement of RuleSchedule, the cover of a funded    *)
(* swap, what an owner's close leaves behind, and the conservation of      *)
(* every asset.                                                            *)
(***************************************************************************)
EXTENDS AutomationProgram, FiniteSetTheorems, WellFoundedInduction, TLAPS

Ledgers == [Holders -> [Assets -> Nat]]

-----------------------------------------------------------------------------
(* Lemmas about the operators                                               *)

\* A transfer of what is there keeps every balance a natural number and changes
\* only the two it names; a transfer to oneself changes nothing.
LEMMA MoveEffect ==
    ASSUME NEW b \in Ledgers, NEW from \in Holders, NEW to \in Holders,
           NEW a \in Assets, NEW n \in Nat, b[from][a] >= n
    PROVE  /\ Move(b, from, to, a, n) \in Ledgers
           /\ \A h \in Holders, x \in Assets :
                Move(b, from, to, a, n)[h][x] =
                  IF x # a \/ (h = from /\ h = to) THEN b[h][x]
                  ELSE IF h = from THEN b[h][x] - n
                  ELSE IF h = to THEN b[h][x] + n ELSE b[h][x]
<1> DEFINE debited == [b EXCEPT ![from][a] = @ - n]
<1>1. debited \in Ledgers
  BY DEF Ledgers
<1>2. \A h \in Holders, x \in Assets :
        debited[h][x] = IF h = from /\ x = a THEN b[h][x] - n ELSE b[h][x]
  BY DEF Ledgers
<1> HIDE DEF debited
<1>3. Move(b, from, to, a, n) = [debited EXCEPT ![to][a] = @ + n]
  BY DEF Move, debited
<1>4. [debited EXCEPT ![to][a] = @ + n] \in Ledgers
  BY <1>1 DEF Ledgers
<1>5. \A h \in Holders, x \in Assets :
        [debited EXCEPT ![to][a] = @ + n][h][x] =
          IF h = to /\ x = a THEN debited[h][x] + n ELSE debited[h][x]
  BY <1>1 DEF Ledgers
<1>6. \A h \in Holders, x \in Assets : b[h][x] \in Nat
  BY DEF Ledgers
<1>7. QED
  BY <1>2, <1>3, <1>4, <1>5, <1>6

\* The time fee is a natural number, at least one day's price and at most
\* TIME_FEE_MAX_DAYS of them, unless it saturates.
LEMMA TimeFeeBounds ==
    ASSUME NEW c \in Cadences, NEW t \in Int, NEW perDay \in Nat
    PROVE  /\ compute_time_fee(c, t, perDay) \in Nat
           /\ ChargedDays(c, t) \in 1..TimeFeeMaxDays
<1>1. ChargedDays(c, t) \in 1..TimeFeeMaxDays
  <2> DEFINE delta == c.deadline - t
             days  == (delta + SecsPerDay - 1) \div SecsPerDay
  <2>1. delta \in Int
    BY DEF Cadences
  <2>2. ASSUME delta > 0 PROVE days \in Nat /\ days >= 1
    BY <2>1, <2>2, SecsPerDayAssumption
  <2>3. ASSUME delta > 0 PROVE Smaller(days, TimeFeeMaxDays) \in 1..TimeFeeMaxDays
    <3> HIDE DEF days
    <3> QED
      BY <2>2, <2>3, TimeFeeMaxDaysAssumption DEF Smaller
  <2>4. QED
    BY <2>1, <2>3, TimeFeeMaxDaysAssumption DEF ChargedDays
<1>2. ChargedDays(c, t) * perDay \in Nat
  BY <1>1, TimeFeeMaxDaysAssumption
<1>3. QED
  BY <1>1, <1>2, WidthAssumption DEF compute_time_fee, Smaller

\* The protocol's share of a swap is never more than the swap delivered.
LEMMA SwapFeeBound ==
    ASSUME NEW got \in Nat, config \in Configs
    PROVE  swap_fee(got) \in 0..got
<1> DEFINE bps == config.swap_fee_bps
<1>1. bps \in Nat /\ bps <= BpsScale /\ BpsScale \in Nat \ {0}
  BY FeeAssumption, AmountsAssumption DEF Configs
<1> HIDE DEF bps
<1>2. got * bps \in Nat /\ got * bps <= got * BpsScale
  BY <1>1
<1>3. (got * bps) \div BpsScale \in Nat
  BY <1>1, <1>2
<1>4. (got * bps) \div BpsScale <= got
  BY <1>1, <1>2
<1>5. QED
  BY <1>3, <1>4 DEF swap_fee, bps

\* advance keeps the record an Automation and its counter in a u32.
LEMMA AdvanceType ==
    ASSUME NEW a \in Autos, NEW t \in Nat
    PROVE  advance(a, t) \in Autos
<1>1. Smaller(a.executions + 1, U32Max) \in 0..U32Max
  BY WidthAssumption DEF Autos, Smaller
<1>2. QED
  BY <1>1 DEF advance, Autos

-----------------------------------------------------------------------------
(* Type correctness                                                         *)

\* Who holds what.
LEMMA Places ==
    /\ Wallets \subseteq Holders /\ Pdas \subseteq Holders /\ Pool \in Holders
    /\ Mints \subseteq Assets /\ Sol \in Assets
    /\ Owners \subseteq Wallets
    /\ \A p \in Pdas : p[1] \in Owners /\ p[2] \in Nonces /\ p = <<p[1], p[2]>>
    /\ \A p \in Pdas : p \notin Wallets /\ p # Pool
    /\ Pool \notin Wallets
BY PartiesAssumption DEF Holders, Assets, Pdas

\* The parts of a create request.
LEMMA RequestTypes ==
    ASSUME NEW r \in Requests
    PROVE  /\ r.action \in Actions /\ r.cadence \in Cadences
           /\ r.min_interval \in Nat /\ r.enable_fee_topup \in BOOLEAN
           /\ r.bridge_enabled \in BOOLEAN /\ r.seed_amount \in Nat
           /\ r.action.mint \in Mints /\ r.action.amount \in Nat
           /\ TotalFires(r.cadence) \in Nat
BY RequestsAssumption DEF CreateArgs, Actions, Cadences, TotalFires

\* The three payments of a create: rent and deposit to the rule, the time fee to
\* the keeper.
LEMMA CreatePays ==
    ASSUME AccountsOK, NEW o \in Owners, NEW r \in Requests, NEW asset \in Assets,
           NEW deposit \in Nat, Create(o, r, asset, deposit)
    PROVE  LET p == <<o, config.automation_count>>
           IN  /\ p \in Pdas
               /\ bal' \in Ledgers
               /\ bal'[p][Sol] >= Rent
               /\ \A q \in Pdas \ {p} : bal'[q] = bal[q]
<1> DEFINE n    == config.automation_count
           p    == <<o, n>>
           fee  == compute_time_fee(r.cadence, now, config.time_fee_lamports_per_day)
           rent == IF bal[p][Sol] >= Rent THEN 0 ELSE Rent - bal[p][Sol]
           sol  == IF asset = Sol THEN deposit ELSE 0
           b1   == Move(bal, o, p, Sol, rent)
           b2   == Move(b1, o, p, asset, deposit)
           b3   == Move(b2, o, config.keeper, Sol, fee)
<1>1. /\ n \in Nat /\ n < MaxAutomations /\ p \in Pdas
      /\ o \in Holders /\ p \in Holders /\ o # p /\ config.keeper \in Wallets
      /\ config.keeper \in Holders /\ p # config.keeper
  BY Places, CountAssumption DEF AccountsOK, Create, Configs, Pdas, Nonces
<1>2. fee \in Nat
  BY TimeFeeBounds, RequestTypes, FeeAssumption DEF AccountsOK, Configs
<1>3. bal \in Ledgers /\ Sol \in Assets
  BY Places DEF AccountsOK, Ledgers
<1>4. bal[p][Sol] \in Nat /\ bal[o][Sol] \in Nat /\ bal[o][asset] \in Nat
  BY <1>1, <1>3 DEF Ledgers
<1>5. rent \in Nat /\ sol \in Nat /\ bal[p][Sol] + rent >= Rent
  BY <1>4, AmountsAssumption
<1>6. bal[o][Sol] >= rent + sol + fee /\ bal[o][asset] >= deposit /\ bal' = b3
  BY DEF Create
<1> HIDE DEF n, p, fee, rent
<1>7. bal[o][Sol] >= rent
  BY <1>2, <1>4, <1>5, <1>6
<1>8. /\ b1 \in Ledgers
      /\ \A h \in Holders, x \in Assets :
           b1[h][x] = IF x # Sol \/ (h = o /\ h = p) THEN bal[h][x]
                      ELSE IF h = o THEN bal[h][x] - rent
                      ELSE IF h = p THEN bal[h][x] + rent ELSE bal[h][x]
  BY <1>1, <1>3, <1>5, <1>7, MoveEffect
<1>9. b1[o][asset] >= deposit
  BY <1>1, <1>2, <1>3, <1>4, <1>5, <1>6, <1>8
<1> HIDE DEF b1
<1>10. /\ b2 \in Ledgers
       /\ \A h \in Holders, x \in Assets :
            b2[h][x] = IF x # asset \/ (h = o /\ h = p) THEN b1[h][x]
                       ELSE IF h = o THEN b1[h][x] - deposit
                       ELSE IF h = p THEN b1[h][x] + deposit ELSE b1[h][x]
  BY <1>1, <1>8, <1>9, MoveEffect
<1>11. b2[o][Sol] >= fee
  BY <1>1, <1>2, <1>3, <1>4, <1>5, <1>6, <1>8, <1>10
<1> HIDE DEF b2
<1>12. /\ b3 \in Ledgers
       /\ \A h \in Holders, x \in Assets :
            b3[h][x] = IF x # Sol \/ (h = o /\ h = config.keeper) THEN b2[h][x]
                       ELSE IF h = o THEN b2[h][x] - fee
                       ELSE IF h = config.keeper THEN b2[h][x] + fee ELSE b2[h][x]
  BY <1>1, <1>2, <1>3, <1>10, <1>11, MoveEffect
<1> HIDE DEF b3
<1>13. b3[p][Sol] >= Rent
  <2>1. b1[p][Sol] = bal[p][Sol] + rent
    BY <1>1, <1>3, <1>8
  <2>2. b2[p][Sol] = IF asset = Sol THEN b1[p][Sol] + deposit ELSE b1[p][Sol]
    BY <1>1, <1>3, <1>10
  <2>3. b3[p][Sol] = b2[p][Sol]
    BY <1>1, <1>3, <1>12
  <2>4. QED
    BY <1>4, <1>5, <2>1, <2>2, <2>3, AmountsAssumption
<1>14. ASSUME NEW q \in Pdas \ {p} PROVE b3[q] = bal[q]
  <2>1. q \in Holders /\ q # o /\ q # p /\ q # config.keeper
    BY <1>1, Places
  <2>2. \A x \in Assets : b3[q][x] = bal[q][x]
    BY <2>1, <1>8, <1>10, <1>12
  <2>3. b3[q] \in [Assets -> Nat] /\ bal[q] \in [Assets -> Nat]
    BY <2>1, <1>3, <1>12 DEF Ledgers
  <2>4. QED
    BY <2>2, <2>3
<1>15. QED
  BY <1>1, <1>6, <1>12, <1>13, <1>14 DEF p, n

\* What a create does to the rest of the state.
LEMMA CreateType ==
    ASSUME AccountsOK, NEW o \in Owners, NEW r \in Requests, NEW asset \in Assets,
           NEW deposit \in Nat, Create(o, r, asset, deposit)
    PROVE  AccountsOK'
<1> DEFINE n == config.automation_count
           p == <<o, n>>
<1>1. n \in Nat /\ n < MaxAutomations /\ p \in Pdas /\ bal' \in Ledgers
  <2>1. n \in Nat
    BY CountAssumption DEF AccountsOK, Configs
  <2>2. n < MaxAutomations
    BY DEF Create
  <2>3. p \in Pdas /\ bal' \in Ledgers
    BY CreatePays
  <2>4. QED
    BY <2>1, <2>2, <2>3
<1>2. config' \in Configs
  <2>1. config' = [config EXCEPT !.automation_count = n + 1] /\ n + 1 \in 0..MaxAutomations
    BY <1>1, CountAssumption DEF Create, NextNonce
  <2>2. QED
    BY <2>1 DEF AccountsOK, Configs
<1>3. status' \in [Pdas -> Statuses] /\ \A q \in Pdas : q # p => status'[q] = status[q]
  BY <1>1 DEF Create, AccountsOK, Statuses
<1>4. \E a \in Autos : autos' = [autos EXCEPT ![p] = a]
  <2> DEFINE a == [action |-> r.action, cadence |-> r.cadence,
                   min_interval |-> r.min_interval,
                   executions |-> 0, finished |-> FALSE,
                   created_at |-> now, executed_at |-> 0,
                   fee_topup_enabled |-> r.ix \in {"swap", "linked"} /\ r.enable_fee_topup,
                   bridge_enabled |-> r.ix = "linked" /\ r.bridge_enabled,
                   prefunded |-> r.ix = "swap"]
  <2>1. 0 \in 0..U32Max /\ now \in Nat
    BY WidthAssumption DEF AccountsOK
  <2>2. a \in Autos
    BY <2>1, RequestTypes DEF Autos
  <2>3. autos' = [autos EXCEPT ![p] = a]
    BY DEF Create
  <2>4. QED
    BY <2>2, <2>3
<1>5. /\ autos' \in [Pdas -> Autos \cup {NoAuto}]
      /\ \A q \in Pdas : status'[q] # "absent" => autos'[q] \in Autos
  BY <1>1, <1>3, <1>4 DEF AccountsOK
<1>6. now' \in Nat /\ ata' \in [Pdas -> [Mints -> Nat]]
  BY DEF Create, AccountsOK
<1>7. QED
  BY <1>1, <1>2, <1>3, <1>5, <1>6 DEF AccountsOK, Ledgers

-----------------------------------------------------------------------------
(* Every instruction keeps the types and the rent of the open rules.        *)

Core == AccountsOK /\ RentFloor

\* What an open rule's data are.
LEMMA OpenRule ==
    ASSUME AccountsOK, NEW p \in Pdas, Open(p)
    PROVE  /\ autos[p] \in Autos /\ p \in Holders
           /\ autos[p].action.mint \in Mints
           /\ autos[p].action.output_mint \in Mints
           /\ autos[p].action.amount \in Nat
           /\ autos[p].action.destination \in Holders
           /\ autos[p].action.destination # Pool
           /\ autos[p].action.linked_downstream \in Pdas \cup {NoLink}
           /\ autos[p].action.link_fee_deposit \in Nat
BY Places DEF AccountsOK, Open, Autos, Actions

\* A ledger gives natural numbers.
LEMMA LedgerNat ==
    ASSUME NEW b \in Ledgers, NEW h \in Holders, NEW a \in Assets
    PROVE  b[h][a] \in Nat
BY DEF Ledgers

\* A fire and an expiry keep the data an Automation.
LEMMA DataTyped ==
    ASSUME AccountsOK, NEW p \in Pdas, Open(p),
           Fired(p) \/ autos' = [autos EXCEPT ![p].finished = TRUE],
           status' = status \/ \E st \in Statuses : status' = [status EXCEPT ![p] = st]
    PROVE  /\ status' \in [Pdas -> Statuses]
           /\ autos' \in [Pdas -> Autos \cup {NoAuto}]
           /\ \A q \in Pdas : status'[q] # "absent" => autos'[q] \in Autos
<1>1. autos[p] \in Autos
  BY OpenRule
<1>2. \E a \in Autos : autos' = [autos EXCEPT ![p] = a]
  <2>1. CASE Fired(p)
    <3>1. advance(autos[p], now) \in Autos
      BY <1>1, AdvanceType DEF AccountsOK
    <3>2. QED
      BY <2>1, <3>1 DEF Fired
  <2>2. CASE autos' = [autos EXCEPT ![p].finished = TRUE]
    <3>1. [autos[p] EXCEPT !.finished = TRUE] \in Autos
      BY <1>1 DEF Autos
    <3>2. QED
      BY <2>2, <3>1
  <2>3. QED
    BY <2>1, <2>2
<1>3. \A q \in Pdas : q # p => status'[q] = status[q]
  BY DEF AccountsOK
<1>4. QED
  BY <1>2, <1>3 DEF AccountsOK

\* A pair is finite.
LEMMA PairFinite ==
    ASSUME NEW x, NEW y
    PROVE  IsFiniteSet({x, y})
<1>1. IsFiniteSet({x})
  BY FS_Singleton
<1>2. IsFiniteSet({x} \cup {y})
  BY <1>1, FS_AddElement
<1>3. {x, y} = {x} \cup {y}
  OBVIOUS
<1>4. QED
  BY <1>2, <1>3

\* The setup transaction takes the accounts' rent from the owner's wallet only.
LEMMA SetupKeepsCore ==
    ASSUME Core, NEW o \in Owners, NEW r \in Requests, setup_atas(o, r)
    PROVE  Core'
<1> DEFINE pair == {<<<<o, config.automation_count>>, r.action.mint>>,
                    <<r.action.destination, r.action.output_mint>>}
           cost == AtaRent * Cardinality(MissingAtas(o, r))
<1>1. IsFiniteSet(MissingAtas(o, r))
  <2>1. IsFiniteSet(pair)
    BY PairFinite
  <2>2. MissingAtas(o, r) \subseteq pair
    BY DEF MissingAtas
  <2>3. QED
    BY <2>1, <2>2, FS_Subset
<1>2. cost \in Nat
  BY <1>1, FS_CardinalityType, AmountsAssumption
<1>3. bal \in Ledgers /\ o \in Holders /\ Sol \in Assets /\ bal[o][Sol] \in Nat
  BY Places DEF Core, AccountsOK, Ledgers
<1>4. bal[o][Sol] >= cost /\ bal' = [bal EXCEPT ![o][Sol] = @ - cost]
  BY DEF setup_atas
<1> HIDE DEF cost
<1>5. bal' \in Ledgers /\ \A q \in Pdas : bal'[q] = bal[q]
  BY <1>2, <1>3, <1>4, Places DEF Ledgers
<1>6. ata' \in [Pdas -> [Mints -> Nat]]
  <2>1. ata' = [p \in Pdas |-> [m \in Mints |->
                  IF <<p, m>> \in MissingAtas(o, r) THEN AtaRent ELSE ata[p][m]]]
    BY DEF setup_atas
  <2>2. QED
    BY <2>1, AmountsAssumption DEF Core, AccountsOK
<1>7. UNCHANGED <<config, now, status, autos>>
  BY DEF setup_atas
<1>8. QED
  BY <1>5, <1>6, <1>7 DEF Core, AccountsOK, RentFloor, Open, Ledgers

\* A rule is born with its rent.
LEMMA CreateKeepsCore ==
    ASSUME Core, NEW o \in Owners, NEW r \in Requests, CreateRule(o, r)
    PROVE  Core'
<1>1. PICK asset \in Assets, deposit \in Nat : Create(o, r, asset, deposit)
  <2>1. r.action.amount \in Nat /\ r.action.mint \in Assets /\ r.seed_amount \in Nat
        /\ r.action.amount * TotalFires(r.cadence) \in Nat /\ Sol \in Assets
    BY RequestTypes, Places
  <2>2. QED
    BY <2>1 DEF CreateRule, create_automation, create_automation_spl,
                create_automation_swap, create_automation_swap_linked
<1> DEFINE p == <<o, config.automation_count>>
<1>2. AccountsOK'
  BY <1>1, CreateType DEF Core
<1>3. p \in Pdas /\ bal'[p][Sol] >= Rent /\ \A q \in Pdas \ {p} : bal'[q] = bal[q]
  BY <1>1, CreatePays DEF Core
<1>4. \A q \in Pdas \ {p} : status'[q] = status[q]
  BY <1>1, <1>3 DEF Create, Core, AccountsOK
<1>5. QED
  BY <1>2, <1>3, <1>4 DEF Core, RentFloor, Open

\* Lamports sent to a rule can only raise what it keeps.
LEMMA TopUpKeepsCore ==
    ASSUME Core, NEW o \in Owners, NEW p \in Pdas, NEW x \in TopUps, top_up(o, p, x)
    PROVE  Core'
<1>1. x \in Nat /\ o \in Holders /\ p \in Holders /\ Sol \in Assets /\ o \notin Pdas
  BY Places, AmountsAssumption
<1>2. bal \in Ledgers /\ bal[o][Sol] >= x /\ bal' = Move(bal, o, p, Sol, x)
  BY DEF Core, AccountsOK, Ledgers, top_up
<1>3. /\ bal' \in Ledgers
      /\ \A h \in Holders, a \in Assets :
           bal'[h][a] = IF a # Sol \/ (h = o /\ h = p) THEN bal[h][a]
                        ELSE IF h = o THEN bal[h][a] - x
                        ELSE IF h = p THEN bal[h][a] + x ELSE bal[h][a]
  BY <1>1, <1>2, MoveEffect
<1>4. \A q \in Pdas : bal'[q][Sol] >= bal[q][Sol]
  BY <1>1, <1>2, <1>3, LedgerNat, Places
<1>5. UNCHANGED <<config, now, status, autos, ata>>
  BY DEF top_up
<1>6. \A q \in Pdas : bal[q][Sol] \in Nat /\ bal'[q][Sol] \in Nat
  BY <1>2, <1>3, LedgerNat, Places
<1>7. QED
  BY <1>3, <1>4, <1>5, <1>6, AmountsAssumption DEF Core, AccountsOK, RentFloor, Open, Ledgers

\* An Until rule past its deadline is only marked.
LEMMA ExpiryKeepsCore ==
    ASSUME Core, NEW p \in Pdas, Open(p), handle_until_expiry(p)
    PROVE  Core'
<1>1. /\ autos' = [autos EXCEPT ![p].finished = TRUE]
      /\ UNCHANGED <<config, now, status, bal, ata>>
  BY DEF handle_until_expiry, ledger
<1>2. /\ autos' \in [Pdas -> Autos \cup {NoAuto}]
      /\ \A q \in Pdas : status'[q] # "absent" => autos'[q] \in Autos
  BY <1>1, DataTyped DEF Core
<1>3. QED
  BY <1>1, <1>2 DEF Core, AccountsOK, RentFloor, Open

\* A lamport transfer leaves the rent, or nothing and then no account.
LEMMA TransferSolKeepsCore ==
    ASSUME Core, NEW p \in Pdas, Open(p), transfer_sol(p)
    PROVE  Core'
<1> DEFINE d    == autos[p].action.destination
           n    == autos[p].action.amount
           left == bal[p][Sol] - n
<1>1. n \in Nat /\ d \in Holders /\ p \in Holders /\ Sol \in Assets /\ bal \in Ledgers
  BY OpenRule, Places DEF Core, AccountsOK, Ledgers
<1>2. bal[p][Sol] \in Nat
  BY <1>1, LedgerNat
<1>3. /\ d # p /\ RentExemptOrGone(left)
      /\ bal' = Move(bal, p, d, Sol, n)
      /\ status' = [status EXCEPT ![p] = IF left = 0 THEN "reaped" ELSE @]
      /\ Fired(p) /\ UNCHANGED <<config, now, ata>>
  BY DEF transfer_sol
<1> HIDE DEF d, n
<1>4. bal[p][Sol] >= n
  BY <1>1, <1>2, <1>3, AmountsAssumption DEF RentExemptOrGone
<1>5. /\ bal' \in Ledgers
      /\ \A h \in Holders, a \in Assets :
           bal'[h][a] = IF a # Sol \/ (h = p /\ h = d) THEN bal[h][a]
                        ELSE IF h = p THEN bal[h][a] - n
                        ELSE IF h = d THEN bal[h][a] + n ELSE bal[h][a]
  BY <1>1, <1>3, <1>4, MoveEffect
<1>6. \E st \in Statuses : status' = [status EXCEPT ![p] = st]
  <2>1. status[p] \in Statuses /\ "reaped" \in Statuses
    BY DEF Core, AccountsOK, Statuses
  <2>2. QED
    BY <1>3, <2>1
<1>7. /\ status' \in [Pdas -> Statuses]
      /\ autos' \in [Pdas -> Autos \cup {NoAuto}]
      /\ \A q \in Pdas : status'[q] # "absent" => autos'[q] \in Autos
  BY <1>3, <1>6, DataTyped DEF Core
<1>8. AccountsOK'
  BY <1>3, <1>5, <1>7 DEF Core, AccountsOK, Ledgers
<1>9. ASSUME NEW q \in Pdas, Open(q)' PROVE bal'[q][Sol] >= Rent
  <2>1. status'[q] = "open" /\ status \in [Pdas -> Statuses]
    BY <1>9 DEF Open, Core, AccountsOK
  <2>2. q # p => status[q] = "open" /\ bal'[q][Sol] >= bal[q][Sol]
    BY <1>1, <1>3, <1>5, <2>1, LedgerNat, Places
  <2>3. q = p => left # 0 /\ bal'[q][Sol] = left
    BY <1>1, <1>3, <1>5, <2>1
  <2>4. bal[q][Sol] \in Nat /\ bal'[q][Sol] \in Nat
    BY <1>1, <1>5, LedgerNat, Places
  <2>5. QED
    BY <1>3, <2>2, <2>3, <2>4, AmountsAssumption DEF Core, RentFloor, Open, RentExemptOrGone
<1>10. QED
  BY <1>8, <1>9 DEF Core, RentFloor

\* A step that fires a rule, or none, and leaves every PDA's lamports alone or
\* above the rent keeps Core.
LEMMA FireKeepsCore ==
    ASSUME Core, NEW p \in Pdas, Open(p),
           Fired(p) \/ UNCHANGED autos, UNCHANGED <<config, now, status, ata>>,
           bal' \in Ledgers,
           \A q \in Pdas : bal'[q][Sol] >= bal[q][Sol] \/ bal'[q][Sol] >= Rent
    PROVE  Core'
<1>1. /\ autos' \in [Pdas -> Autos \cup {NoAuto}]
      /\ \A q \in Pdas : status'[q] # "absent" => autos'[q] \in Autos
  <2>1. CASE Fired(p)
    BY <2>1, DataTyped DEF Core
  <2>2. CASE UNCHANGED autos
    BY <2>2 DEF Core, AccountsOK
  <2>3. QED
    BY <2>1, <2>2
<1>2. AccountsOK'
  BY <1>1 DEF Core, AccountsOK, Ledgers
<1>3. \A q \in Pdas : bal[q][Sol] \in Nat /\ bal'[q][Sol] \in Nat
  BY LedgerNat, Places DEF Core, AccountsOK, Ledgers
<1>4. ASSUME NEW q \in Pdas, Open(q)' PROVE bal'[q][Sol] >= Rent
  <2>1. bal[q][Sol] >= Rent
    BY <1>4 DEF Core, RentFloor, Open
  <2>2. QED
    BY <1>3, <2>1, AmountsAssumption
<1>5. QED
  BY <1>2, <1>4 DEF Core, RentFloor

\* A token transfer touches no lamports.
LEMMA TransferSplKeepsCore ==
    ASSUME Core, NEW p \in Pdas, Open(p), transfer_spl(p)
    PROVE  Core'
<1> DEFINE d == autos[p].action.destination
           m == autos[p].action.mint
           n == autos[p].action.amount
<1>1. /\ n \in Nat /\ d \in Holders /\ p \in Holders /\ m \in Assets /\ m # Sol
      /\ Sol \in Assets /\ bal \in Ledgers
  BY OpenRule, Places, PartiesAssumption DEF Core, AccountsOK, Ledgers
<1>2. /\ bal[p][m] >= n /\ bal' = Move(bal, p, d, m, n)
      /\ Fired(p) /\ UNCHANGED <<config, now, status, ata>>
  BY DEF transfer_spl
<1> HIDE DEF d, m, n
<1>3. bal' \in Ledgers /\ \A h \in Holders : bal'[h][Sol] = bal[h][Sol]
  BY <1>1, <1>2, MoveEffect
<1>4. \A q \in Pdas : bal[q][Sol] \in Nat /\ bal'[q][Sol] = bal[q][Sol]
  BY <1>1, <1>3, LedgerNat, Places
<1>5. QED
  BY <1>2, <1>3, <1>4, FireKeepsCore

\* Selling tokens of a rule for another token through the pools touches no
\* lamports.
LEMMA TradeEffect ==
    ASSUME NEW b \in Ledgers, NEW p \in Pdas, NEW to \in Holders \ {Pool},
           NEW m \in Mints, NEW w \in Mints, m # w,
           NEW used \in Nat, NEW got \in Nat,
           b[p][m] >= used, b[Pool][w] >= got
    PROVE  LET b2 == Move(Move(b, p, Pool, m, used), Pool, to, w, got)
           IN  /\ b2 \in Ledgers
               /\ b2[to][w] >= got
               /\ \A h \in Holders : b2[h][Sol] = b[h][Sol]
<1> DEFINE b1 == Move(b, p, Pool, m, used)
           b2 == Move(b1, Pool, to, w, got)
<1>1. /\ p \in Holders /\ Pool \in Holders /\ p # Pool /\ m \in Assets /\ w \in Assets
      /\ Sol \in Assets /\ m # Sol /\ w # Sol
  BY Places, PartiesAssumption
<1>2. /\ b1 \in Ledgers
      /\ \A h \in Holders, a \in Assets :
           b1[h][a] = IF a # m \/ (h = p /\ h = Pool) THEN b[h][a]
                      ELSE IF h = p THEN b[h][a] - used
                      ELSE IF h = Pool THEN b[h][a] + used ELSE b[h][a]
  BY <1>1, MoveEffect
<1>3. b1[Pool][w] >= got
  BY <1>1, <1>2
<1> HIDE DEF b1
<1>4. /\ b2 \in Ledgers
      /\ \A h \in Holders, a \in Assets :
           b2[h][a] = IF a # w \/ (h = Pool /\ h = to) THEN b1[h][a]
                      ELSE IF h = Pool THEN b1[h][a] - got
                      ELSE IF h = to THEN b1[h][a] + got ELSE b1[h][a]
  BY <1>1, <1>2, <1>3, MoveEffect
<1>5. b1[to][w] \in Nat /\ b2[to][w] = b1[to][w] + got
  BY <1>1, <1>2, <1>4, LedgerNat
<1>6. \A h \in Holders : b2[h][Sol] = b[h][Sol]
  BY <1>1, <1>2, <1>4
<1>7. QED
  BY <1>4, <1>5, <1>6 DEF b1

\* A fee top-up and a bridge trade tokens and leave the rule's data alone.
LEMMA ConvertKeepsCore ==
    ASSUME Core, NEW k \in Wallets, NEW p \in Pdas, Open(p), Convert(k, p)
    PROVE  Core'
<1>1. PICK m \in Mints, got \in Fills : \E u \in Spends(p, m) :
        execute_fee_topup(k, p, m, u, got) \/ execute_bridge(k, p, m, u, got)
  BY DEF Convert
<1> PICK used \in Spends(p, m) :
      execute_fee_topup(k, p, m, used, got) \/ execute_bridge(k, p, m, used, got)
  BY <1>1
<1>2. /\ got \in Nat /\ used \in Nat /\ used <= bal[p][m] /\ bal \in Ledgers
      /\ k \in Holders \ {Pool} /\ p \in Holders \ {Pool}
      /\ bal[p][m] \in Nat
  <2>1. bal \in Ledgers /\ p \in Holders \ {Pool} /\ k \in Holders \ {Pool}
    BY Places DEF Core, AccountsOK, Ledgers
  <2>2. bal[p][m] \in Nat
    BY <2>1, LedgerNat, Places
  <2>3. QED
    BY <2>1, <2>2, AmountsAssumption DEF Spends
<1>3. PICK w \in Mints, to \in Holders \ {Pool} :
        /\ m # w /\ got <= bal[Pool][w]
        /\ bal' = Move(Move(bal, p, Pool, m, used), Pool, to, w, got)
        /\ UNCHANGED <<config, now, status, autos, ata>>
  <2>1. CASE execute_fee_topup(k, p, m, used, got)
    BY <1>2, <2>1, PartiesAssumption DEF execute_fee_topup
  <2>2. CASE execute_bridge(k, p, m, used, got)
    BY <1>2, <2>2, OpenRule DEF execute_bridge, Core
  <2>3. QED
    BY <2>1, <2>2
<1>4. bal[Pool][w] \in Nat
  BY <1>2, LedgerNat, Places
<1>5. bal' \in Ledgers /\ \A h \in Holders : bal'[h][Sol] = bal[h][Sol]
  BY <1>2, <1>3, <1>4, TradeEffect
<1>6. \A q \in Pdas : bal[q][Sol] \in Nat /\ bal'[q][Sol] = bal[q][Sol]
  BY <1>2, <1>5, LedgerNat, Places
<1>7. QED
  BY <1>3, <1>5, <1>6, FireKeepsCore

\* A fee debit stops at the rent.
LEMMA DebitKeepsCore ==
    ASSUME Core, NEW k \in Wallets, NEW p \in Pdas, NEW fee \in 1..MaxLinkFee, Open(p),
           execute_link_fee_debit(k, p, fee)
    PROVE  Core'
<1>1. /\ fee \in Nat /\ bal \in Ledgers /\ p \in Holders /\ Sol \in Assets
      /\ config.keeper \in Holders /\ config.keeper # p
  BY Places, AmountsAssumption DEF Core, AccountsOK, Ledgers, Configs
<1>2. bal[p][Sol] \in Nat
  BY <1>1, LedgerNat
<1>3. /\ bal[p][Sol] - fee >= Rent /\ bal' = Move(bal, p, config.keeper, Sol, fee)
      /\ UNCHANGED <<config, now, status, autos, ata>>
  BY DEF execute_link_fee_debit
<1>4. bal[p][Sol] >= fee
  BY <1>1, <1>2, <1>3, AmountsAssumption
<1>5. /\ bal' \in Ledgers
      /\ \A h \in Holders, a \in Assets :
           bal'[h][a] = IF a # Sol \/ (h = p /\ h = config.keeper) THEN bal[h][a]
                        ELSE IF h = p THEN bal[h][a] - fee
                        ELSE IF h = config.keeper THEN bal[h][a] + fee ELSE bal[h][a]
  BY <1>1, <1>3, <1>4, MoveEffect
<1>6. \A q \in Pdas : bal'[q][Sol] >= bal[q][Sol] \/ bal'[q][Sol] >= Rent
  BY <1>1, <1>3, <1>5, LedgerNat, Places
<1>7. QED
  BY <1>3, <1>5, <1>6, FireKeepsCore

\* A link deposit leaves the rule its rent; everyone else can only gain lamports.
LEMMA LinkDepositEffect ==
    ASSUME AccountsOK, NEW p \in Pdas, Open(p), NEW b \in Ledgers,
           b[p][Sol] = bal[p][Sol], CanLinkDeposit(p)
    PROVE  /\ LinkDeposit(b, p) \in Ledgers
           /\ \A q \in Pdas : \/ LinkDeposit(b, p)[q][Sol] >= b[q][Sol]
                             \/ LinkDeposit(b, p)[q][Sol] >= Rent
<1> DEFINE d == autos[p].action.linked_downstream
           n == autos[p].action.link_fee_deposit
<1>1. CASE d = NoLink
  <2>1. LinkDeposit(b, p) = b
    BY <1>1 DEF LinkDeposit
  <2>2. \A q \in Pdas : b[q][Sol] \in Nat
    BY LedgerNat, Places
  <2>3. QED
    BY <2>1, <2>2
<1>2. CASE d # NoLink
  <2>1. d \in Pdas /\ n \in Nat /\ d \in Holders /\ p \in Holders /\ Sol \in Assets
    BY <1>2, OpenRule, Places
  <2>2. LinkDeposit(b, p) = Move(b, p, d, Sol, n)
    BY <1>2 DEF LinkDeposit
  <2>3. b[p][Sol] - n >= Rent
    BY <1>2 DEF CanLinkDeposit
  <2> HIDE DEF d, n
  <2>4. b[p][Sol] \in Nat /\ b[p][Sol] >= n
    BY <2>1, <2>3, LedgerNat, AmountsAssumption
  <2>5. /\ Move(b, p, d, Sol, n) \in Ledgers
        /\ \A h \in Holders, a \in Assets :
             Move(b, p, d, Sol, n)[h][a] =
               IF a # Sol \/ (h = p /\ h = d) THEN b[h][a]
               ELSE IF h = p THEN b[h][a] - n
               ELSE IF h = d THEN b[h][a] + n ELSE b[h][a]
    BY <2>1, <2>4, MoveEffect
  <2>6. ASSUME NEW q \in Pdas
        PROVE  Move(b, p, d, Sol, n)[q][Sol] >= b[q][Sol]
                 \/ Move(b, p, d, Sol, n)[q][Sol] >= Rent
    <3>1. q \in Holders /\ b[q][Sol] \in Nat
      BY Places, LedgerNat
    <3>2. Move(b, p, d, Sol, n)[q][Sol] =
            IF q = p /\ q = d THEN b[q][Sol]
            ELSE IF q = p THEN b[q][Sol] - n
            ELSE IF q = d THEN b[q][Sol] + n ELSE b[q][Sol]
      BY <2>1, <2>5, <3>1
    <3>3. QED
      BY <2>1, <2>3, <3>1, <3>2
  <2>7. QED
    BY <2>2, <2>5, <2>6
<1>3. QED
  BY <1>1, <1>2

\* A swap trades the rule's tokens, pays the protocol out of what it delivered and
\* funds the next rule of the chain.
LEMMA SwapKeepsCore ==
    ASSUME Core, NEW p \in Pdas, Open(p), NEW got \in Fills,
           NEW used \in Spends(p, autos[p].action.mint), swap(p, used, got)
    PROVE  Core'
<1> DEFINE m == autos[p].action.mint
           w == autos[p].action.output_mint
           d == autos[p].action.destination
           fee == swap_fee(got)
           routed == Move(Move(bal, p, Pool, m, used), Pool, d, w, got)
           paid == Move(routed, d, config.treasury, w, fee)
<1>1. /\ m \in Mints /\ w \in Mints /\ d \in Holders \ {Pool} /\ p \in Holders
      /\ w \in Assets /\ Sol \in Assets /\ w # Sol /\ m \in Assets
      /\ config \in Configs /\ config.treasury \in Holders /\ bal \in Ledgers
  BY OpenRule, Places, PartiesAssumption DEF Core, AccountsOK, Ledgers, Configs
<1>2. bal[p][m] \in Nat /\ bal[Pool][w] \in Nat
  BY <1>1, Places, LedgerNat
<1>3. got \in Nat /\ used \in Nat /\ used <= bal[p][m]
  BY <1>2, AmountsAssumption DEF Spends
<1>4. /\ m # w /\ got <= bal[Pool][w] /\ CanLinkDeposit(p)
      /\ bal' = LinkDeposit(paid, p)
      /\ Fired(p) /\ UNCHANGED <<config, now, status, ata>>
  BY DEF swap
<1>5. fee \in Nat /\ fee <= got
  BY <1>1, <1>3, SwapFeeBound
<1> HIDE DEF m, w, d, fee
<1>6. /\ routed \in Ledgers /\ routed[d][w] >= got
      /\ \A h \in Holders : routed[h][Sol] = bal[h][Sol]
  BY <1>1, <1>2, <1>3, <1>4, TradeEffect
<1> HIDE DEF routed
<1>7. routed[d][w] \in Nat /\ routed[d][w] >= fee
  BY <1>1, <1>3, <1>5, <1>6, LedgerNat
<1>8. paid \in Ledgers /\ \A h \in Holders : paid[h][Sol] = routed[h][Sol]
  BY <1>1, <1>5, <1>6, <1>7, MoveEffect
<1>9. \A q \in Pdas : paid[q][Sol] = bal[q][Sol]
  BY <1>6, <1>8, Places
<1> HIDE DEF paid
<1>10. /\ bal' \in Ledgers
       /\ \A q \in Pdas : bal'[q][Sol] >= bal[q][Sol] \/ bal'[q][Sol] >= Rent
  BY <1>4, <1>8, <1>9, LinkDepositEffect DEF Core
<1>11. QED
  BY <1>4, <1>10, FireKeepsCore

\* The two lamport payments of a close take from the closed rule only.
LEMMA SplitEffect ==
    ASSUME config \in Configs, NEW b \in Ledgers, NEW p \in Pdas
    PROVE  /\ SplitLamports(b, p) \in Ledgers
           /\ \A q \in Pdas \ {p} : SplitLamports(b, p)[q][Sol] = b[q][Sol]
<1> DEFINE o == p[1]
           t == config.treasury
           refund == IF b[p][Sol] > Rent THEN b[p][Sol] - Rent ELSE 0
           b1 == Move(b, p, o, Sol, refund)
           rest == b[p][Sol] - refund
           b2 == Move(b1, p, t, Sol, rest)
<1>1. /\ p \in Holders /\ o \in Wallets /\ t \in Wallets /\ o \in Holders /\ t \in Holders
      /\ Sol \in Assets /\ o # p /\ t # p
  BY Places DEF Configs
<1>2. b[p][Sol] \in Nat
  BY <1>1, LedgerNat
<1>3. refund \in Nat /\ refund <= b[p][Sol] /\ rest \in Nat
  BY <1>2, AmountsAssumption
<1>4. SplitLamports(b, p) = b2
  BY DEF SplitLamports
<1> HIDE DEF o, t, refund
<1>5. /\ b1 \in Ledgers
      /\ \A h \in Holders, a \in Assets :
           b1[h][a] = IF a # Sol \/ (h = p /\ h = o) THEN b[h][a]
                      ELSE IF h = p THEN b[h][a] - refund
                      ELSE IF h = o THEN b[h][a] + refund ELSE b[h][a]
  BY <1>1, <1>3, MoveEffect
<1>6. b1[p][Sol] >= rest
  BY <1>1, <1>2, <1>3, <1>5
<1> HIDE DEF b1, rest
<1>7. /\ b2 \in Ledgers
      /\ \A h \in Holders, a \in Assets :
           b2[h][a] = IF a # Sol \/ (h = p /\ h = t) THEN b1[h][a]
                      ELSE IF h = p THEN b1[h][a] - rest
                      ELSE IF h = t THEN b1[h][a] + rest ELSE b1[h][a]
  BY <1>1, <1>3, <1>5, <1>6, MoveEffect
<1>8. ASSUME NEW q \in Pdas \ {p} PROVE b2[q][Sol] = b[q][Sol]
  <2>1. q \in Holders /\ q # o /\ q # t /\ q # p
    BY <1>1, Places
  <2>2. QED
    BY <1>1, <1>5, <1>7, <2>1
<1>9. QED
  BY <1>4, <1>7, <1>8

\* Draining token accounts moves tokens to the owner and mints no negative balance.
LEMMA DrainEffect ==
    ASSUME AccountsOK, NEW p \in Pdas, NEW ms \in SUBSET Mints, NEW payee \in Wallets
    PROVE  /\ DrainAtas(p, ms, payee) \in Ledgers
           /\ \A q \in Pdas : DrainAtas(p, ms, payee)[q][Sol] = bal[q][Sol]
<1> DEFINE drained == [h \in Holders |->
             [a \in Assets |->
                IF a \notin ms THEN bal[h][a]
                ELSE IF h = p THEN 0
                ELSE IF h = p[1] THEN bal[h][a] + bal[p][a] ELSE bal[h][a]]]
           rents == AtaRent * Cardinality(ms)
<1>1. rents \in Nat
  <2>1. Cardinality(ms) \in Nat
    BY PartiesAssumption, FS_Subset, FS_CardinalityType
  <2>2. QED
    BY <2>1, AmountsAssumption
<1>2. bal \in Ledgers /\ p \in Holders /\ payee \in Holders /\ Sol \in Assets /\ Sol \notin ms
  BY Places, PartiesAssumption DEF AccountsOK, Ledgers
<1>3. ASSUME NEW h \in Holders, NEW a \in Assets
      PROVE  bal[h][a] \in Nat /\ bal[p][a] \in Nat
  BY <1>2, LedgerNat
<1>4. drained \in Ledgers
  BY <1>3 DEF Ledgers
<1>5. \A h \in Holders : drained[h][Sol] = bal[h][Sol]
  BY <1>2
<1>6. DrainAtas(p, ms, payee) = [drained EXCEPT ![payee][Sol] = @ + rents]
  BY DEF DrainAtas
<1> HIDE DEF drained, rents
<1>7. [drained EXCEPT ![payee][Sol] = @ + rents] \in Ledgers
  BY <1>1, <1>2, <1>4 DEF Ledgers
<1>8. ASSUME NEW q \in Pdas
      PROVE  [drained EXCEPT ![payee][Sol] = @ + rents][q][Sol] = bal[q][Sol]
  <2>1. q \in Holders /\ q # payee
    BY Places
  <2>2. QED
    BY <1>4, <1>5, <2>1 DEF Ledgers
<1>9. QED
  BY <1>6, <1>7, <1>8

\* A close frees one rule and leaves the lamports of every other one alone.
LEMMA CloseKeepsCore ==
    ASSUME Core, NEW p \in Pdas, NEW ms \in SUBSET Mints, NEW payee \in Wallets,
           NEW how \in {"closed", "swept"}, Close(p, ms, payee, how)
    PROVE  Core'
<1>1. /\ status[p] = "open" /\ status \in [Pdas -> Statuses]
      /\ status' = [status EXCEPT ![p] = how] /\ UNCHANGED <<config, now, autos>>
      /\ bal' = SplitLamports(DrainAtas(p, ms, payee), p)
      /\ ata' = [ata EXCEPT ![p] = [m \in Mints |-> IF m \in ms THEN 0 ELSE @[m]]]
  BY DEF Close, Core, AccountsOK, Open
<1>2. /\ bal' \in Ledgers
      /\ \A q \in Pdas \ {p} : bal'[q][Sol] = bal[q][Sol]
  <2>1. config \in Configs
    BY DEF Core, AccountsOK
  <2>2. /\ DrainAtas(p, ms, payee) \in Ledgers
        /\ \A q \in Pdas : DrainAtas(p, ms, payee)[q][Sol] = bal[q][Sol]
    BY DrainEffect DEF Core
  <2>3. /\ bal' \in Ledgers
        /\ \A q \in Pdas \ {p} : bal'[q][Sol] = DrainAtas(p, ms, payee)[q][Sol]
    BY <1>1, <2>1, <2>2, SplitEffect
  <2>4. QED
    BY <2>2, <2>3
<1>3. ata' \in [Pdas -> [Mints -> Nat]]
  BY <1>1 DEF Core, AccountsOK
<1>4. /\ status' \in [Pdas -> Statuses]
      /\ \A q \in Pdas : status'[q] # "absent" => status[q] # "absent"
      /\ \A q \in Pdas : status'[q] = "open" => q # p /\ status[q] = "open"
  BY <1>1 DEF Statuses
<1>5. AccountsOK'
  BY <1>1, <1>2, <1>3, <1>4 DEF Core, AccountsOK, Ledgers
<1>6. RentFloor'
  BY <1>2, <1>4 DEF Core, RentFloor, Open
<1>7. QED
  BY <1>5, <1>6 DEF Core

\* The config stays a Config, whoever governs it.
LEMMA GovernKeepsCore ==
    ASSUME Core, Govern
    PROVE  Core'
<1>1. UNCHANGED <<now, status, autos, bal, ata>>
  BY DEF Govern, ledger
<1>2. config \in Configs
  BY DEF Core, AccountsOK
<1>3. config' \in Configs
  <2>1. PICK s \in Wallets :
          \/ \E new \in Successors : \/ update_keeper(s, new)
                                     \/ update_admin(s, new)
                                     \/ update_treasury(s, new)
          \/ \E b \in BOOLEAN : set_paused(s, b)
          \/ \E bps \in 0..MaxSwapFeeBps : update_swap_fee_bps(s, bps)
          \/ \E fee \in 0..MaxTimeFee : update_time_fee_per_day(s, fee)
          \/ set_shutdown(s)
          \/ migrate_config(s)
    BY DEF Govern
  <2>2. CASE \E new \in Successors : \/ update_keeper(s, new)
                                     \/ update_admin(s, new)
                                     \/ update_treasury(s, new)
    BY <1>2, <2>2, PartiesAssumption
       DEF update_keeper, update_admin, update_treasury, Configs
  <2>3. CASE \E b \in BOOLEAN : set_paused(s, b)
    BY <1>2, <2>3 DEF set_paused, Configs
  <2>4. CASE \E bps \in 0..MaxSwapFeeBps : update_swap_fee_bps(s, bps)
    BY <1>2, <2>4 DEF update_swap_fee_bps, Configs
  <2>5. CASE \E fee \in 0..MaxTimeFee : update_time_fee_per_day(s, fee)
    BY <1>2, <2>5 DEF update_time_fee_per_day, Configs
  <2>6. CASE set_shutdown(s)
    BY <1>2, <2>6 DEF set_shutdown, Configs
  <2>7. CASE migrate_config(s)
    BY <1>2, <2>7, FeeAssumption DEF migrate_config, Configs
  <2>8. QED
    BY <2>1, <2>2, <2>3, <2>4, <2>5, <2>6, <2>7
<1>4. QED
  BY <1>1, <1>3 DEF Core, AccountsOK, RentFloor, Open

\* The deployed program starts in Core.
LEMMA InitCore == Init => Core
<1> SUFFICES ASSUME Init PROVE Core
  OBVIOUS
<1>1. config \in Configs
  BY PartiesAssumption, FeeAssumption, CountAssumption
     DEF Init, initialize_config, Configs
<1>2. /\ status \in [Pdas -> Statuses] /\ \A p \in Pdas : status[p] = "absent"
      /\ autos \in [Pdas -> Autos \cup {NoAuto}]
      /\ now \in Nat
  BY DEF Init, Statuses
<1>3. bal \in [Holders -> [Assets -> Nat]] /\ ata \in [Pdas -> [Mints -> Nat]]
  BY AmountsAssumption DEF Init
<1>4. QED
  BY <1>1, <1>2, <1>3 DEF Core, AccountsOK, RentFloor, Open

\* Every step of a keeper keeps Core.
LEMMA KeeperKeepsCore ==
    ASSUME Core, NEW k \in Wallets, NEW p \in Pdas, KeeperStep(k, p)
    PROVE  Core'
<1>1. Open(p)
  BY DEF KeeperStep
<1>2. CASE execute_automation(k, p)
  BY <1>1, <1>2, ExpiryKeepsCore, TransferSolKeepsCore DEF execute_automation
<1>3. CASE execute_automation_spl(k, p)
  BY <1>1, <1>3, ExpiryKeepsCore, TransferSplKeepsCore DEF execute_automation_spl
<1>4. CASE FireSwap(k, p)
  BY <1>1, <1>4, ExpiryKeepsCore, SwapKeepsCore DEF FireSwap, execute_swap
<1>5. CASE Convert(k, p)
  BY <1>1, <1>5, ConvertKeepsCore
<1>6. CASE \E fee \in 1..MaxLinkFee : execute_link_fee_debit(k, p, fee)
  BY <1>1, <1>6, DebitKeepsCore
<1>7. QED
  BY <1>2, <1>3, <1>4, <1>5, <1>6 DEF KeeperStep

\* Every step of an owner keeps Core.
LEMMA OwnerKeepsCore ==
    ASSUME Core, NEW o \in Owners, NEW p \in Pdas, OwnerStep(o, p)
    PROVE  Core'
<1>1. o \in Wallets /\ (Open(p) => autos[p].action.mint \in Mints)
  BY Places, OpenRule DEF Core
<1>2. CASE close_automation(o, p)
  BY <1>1, <1>2, CloseKeepsCore DEF close_automation
<1>3. CASE close_automation_spl(o, p)
  BY <1>1, <1>3, CloseKeepsCore DEF close_automation_spl
<1>4. ASSUME NEW l \in listed[p], close_automation_swap(o, p, l) PROVE Core'
  <2>1. {autos[p].action.mint} \cup l.dust \in SUBSET Mints
    BY <1>1, <1>4 DEF close_automation_swap, DustMints
  <2>2. QED
    BY <1>1, <1>4, <2>1, CloseKeepsCore DEF close_automation_swap
<1>5. CASE \E x \in TopUps : top_up(o, p, x)
  BY <1>5, TopUpKeepsCore
<1>6. CASE collect_pda_dust_atas(o, p)
  BY <1>6 DEF collect_pda_dust_atas, ledger, Core, AccountsOK, RentFloor, Open
<1>7. QED
  BY <1>2, <1>3, <1>4, <1>5, <1>6 DEF OwnerStep

\* Every close by the admin keeps Core.
LEMMA AdminKeepsCore ==
    ASSUME Core, NEW s \in Wallets, NEW p \in Pdas, AdminClose(s, p)
    PROVE  Core'
<1>1. config.treasury \in Wallets /\ autos[p].action.mint \in Mints
  BY OpenRule DEF Core, AccountsOK, Configs, AdminClose
<1>2. CASE admin_close_automation(s, p)
  BY <1>1, <1>2, CloseKeepsCore DEF admin_close_automation
<1>3. CASE admin_close_automation_spl(s, p)
  BY <1>1, <1>3, CloseKeepsCore DEF admin_close_automation_spl
<1>4. CASE \E dust \in SUBSET DustMints(p) : admin_close_automation_swap(s, p, dust)
  <2>1. PICK dust \in SUBSET DustMints(p) : admin_close_automation_swap(s, p, dust)
    BY <1>4
  <2>2. {autos[p].action.mint} \cup dust \in SUBSET Mints
    BY <1>1 DEF DustMints
  <2>3. QED
    BY <1>1, <2>1, <2>2, CloseKeepsCore DEF admin_close_automation_swap
<1>5. QED
  BY <1>2, <1>3, <1>4 DEF AdminClose

\* Core is inductive.
LEMMA StepCore == Core /\ [Next]_vars => Core'
<1> SUFFICES ASSUME Core, [Next]_vars PROVE Core'
  OBVIOUS
<1>1. CASE Tick
  <2>1. now' = now + 1 /\ UNCHANGED <<config, status, autos, bal, ata>>
    BY <1>1 DEF Tick, ledger
  <2>2. QED
    BY <2>1 DEF Core, AccountsOK, RentFloor, Open
<1>2. CASE Govern
  BY <1>2, GovernKeepsCore
<1>3. CASE \E o \in Owners, r \in Requests : setup_atas(o, r) \/ CreateRule(o, r)
  BY <1>3, SetupKeepsCore, CreateKeepsCore
<1>4. CASE \E o \in Owners, p \in Pdas : OwnerStep(o, p)
  BY <1>4, OwnerKeepsCore
<1>5. CASE \E s \in Wallets, p \in Pdas : KeeperStep(s, p) \/ AdminClose(s, p)
  BY <1>5, KeeperKeepsCore, AdminKeepsCore
<1>6. CASE UNCHANGED vars
  BY <1>6 DEF vars, Core, AccountsOK, RentFloor, Open
<1>7. QED
  BY <1>1, <1>2, <1>3, <1>4, <1>5, <1>6 DEF Next

\* What the clients listed.
LEMMA InitListings == Init => ListingsOK
BY DEF Init, ListingsOK

LEMMA StepListings == ListingsOK /\ [Next]_vars => ListingsOK'
<1> SUFFICES ASSUME ListingsOK, [Next]_vars PROVE ListingsOK'
  OBVIOUS
<1>1. CASE UNCHANGED listed
  BY <1>1 DEF ListingsOK
<1>2. ASSUME NEW o \in Owners, NEW r \in Requests, setup_atas(o, r) PROVE ListingsOK'
  <2>1. PICK missing : listed' = [p \in Pdas |->
          {[l EXCEPT !.late = @ \cup {m \in Mints : <<p, m>> \in missing}] : l \in listed[p]}]
    BY <1>2 DEF setup_atas
  <2>2. ASSUME NEW p \in Pdas, NEW l \in listed[p]
        PROVE  [l EXCEPT !.late = @ \cup {m \in Mints : <<p, m>> \in missing}] \in Listings
    BY DEF ListingsOK, Listings
  <2>3. QED
    BY <2>1, <2>2 DEF ListingsOK
<1>3. ASSUME NEW o \in Owners, NEW p \in Pdas, OwnerStep(o, p) PROVE ListingsOK'
  <2>1. CASE collect_pda_dust_atas(o, p)
    <3>1. [dust |-> DustMints(p), late |-> {}] \in Listings
      BY DEF Listings, DustMints
    <3>2. QED
      BY <2>1, <3>1 DEF collect_pda_dust_atas, ListingsOK
  <2>2. ASSUME NEW l \in listed[p], close_automation_swap(o, p, l) PROVE ListingsOK'
    BY <2>2 DEF close_automation_swap, ListingsOK
  <2>3. QED
    BY <1>1, <1>3, <2>1, <2>2 DEF OwnerStep
<1>4. QED
  BY <1>1, <1>2, <1>3 DEF Next, vars

-----------------------------------------------------------------------------
(* Theorems                                                                 *)

\* No reachable state overdraws an account, wraps a counter or leaves a rule
\* without data: the checked arithmetic of the instructions never underflows a
\* balance that a later step relies on.
THEOREM TypeCorrect == Spec => []TypeOK
<1>1. Core => AccountsOK
  BY DEF Core
<1>2. QED
  BY <1>1, InitCore, StepCore, InitListings, StepListings, PTL DEF Spec, TypeOK

\* An open rule is never left below the rent of its account, whatever the amounts,
\* the requests, the routes and the order of the instructions: transfers, link
\* deposits and repeated fee debits all stop in time (execute_automation.rs,
\* execute_swap.rs, execute_link_fee_debit.rs).
THEOREM RentIsKept == Spec => []RentFloor
<1>1. Core => RentFloor
  BY DEF Core
<1>2. QED
  BY <1>1, InitCore, StepCore, PTL DEF Spec

-----------------------------------------------------------------------------
(* What a step may do to a rule's schedule: there are five kinds of step.   *)

StartStep == \E o \in Owners, r \in Requests, asset \in Assets, deposit \in Nat :
                Create(o, r, asset, deposit)
FireStep(p) ==
    /\ Open(p) /\ ~is_until_expired(autos[p], now) /\ check_can_fire(autos[p], now)
    /\ Fired(p) /\ UNCHANGED <<config, now>>
    /\ status' = status \/ status' = [status EXCEPT ![p] = "reaped"]
ExpireStep(p) == Open(p) /\ handle_until_expiry(p)
RetireStep(p) ==
    /\ Open(p) /\ UNCHANGED <<config, now, autos>>
    /\ \E how \in {"closed", "swept"} : status' = [status EXCEPT ![p] = how]
QuietStep ==
    /\ UNCHANGED <<autos, status>> /\ now' \in Nat /\ now' >= now
    /\ config'.automation_count = config.automation_count

\* Every create handler goes through Create.
LEMMA CreateStarts ==
    ASSUME NEW o \in Owners, NEW r \in Requests, CreateRule(o, r)
    PROVE  StartStep
<1>1. r.action.amount \in Nat /\ r.action.mint \in Assets /\ r.seed_amount \in Nat
      /\ r.action.amount * TotalFires(r.cadence) \in Nat /\ Sol \in Assets
  BY RequestTypes, Places
<1>2. QED
  BY <1>1 DEF CreateRule, StartStep, create_automation, create_automation_spl,
              create_automation_swap, create_automation_swap_linked

\* A keeper's step fires the rule, expires it or leaves its data alone.
LEMMA KeeperSteps ==
    ASSUME AccountsOK, NEW k \in Wallets, NEW p \in Pdas, KeeperStep(k, p)
    PROVE  FireStep(p) \/ ExpireStep(p) \/ QuietStep
<1>1. Open(p) /\ now \in Nat
  BY DEF KeeperStep, AccountsOK
<1>2. ASSUME transfer_sol(p) PROVE FireStep(p)
  <2>1. status' = [status EXCEPT ![p] = IF bal[p][Sol] - autos[p].action.amount = 0
                                       THEN "reaped" ELSE @]
    BY <1>2 DEF transfer_sol
  <2>2. status' = status \/ status' = [status EXCEPT ![p] = "reaped"]
    BY <2>1 DEF AccountsOK
  <2>3. /\ ~is_until_expired(autos[p], now) /\ check_can_fire(autos[p], now)
        /\ Fired(p) /\ UNCHANGED <<config, now>>
    BY <1>2 DEF transfer_sol, CanFire
  <2>4. QED
    BY <1>1, <2>2, <2>3 DEF FireStep
<1>3. ASSUME transfer_spl(p) PROVE FireStep(p)
  BY <1>1, <1>3 DEF transfer_spl, CanFire, FireStep
<1>4. ASSUME NEW used, NEW got, swap(p, used, got) PROVE FireStep(p)
  BY <1>1, <1>4 DEF swap, CanFire, FireStep
<1>5. CASE execute_automation(k, p)
  BY <1>1, <1>2, <1>5 DEF execute_automation, ExpireStep
<1>6. CASE execute_automation_spl(k, p)
  BY <1>1, <1>3, <1>6 DEF execute_automation_spl, ExpireStep
<1>7. CASE FireSwap(k, p)
  BY <1>1, <1>4, <1>7 DEF FireSwap, execute_swap, ExpireStep
<1>8. CASE Convert(k, p)
  <2>1. UNCHANGED <<config, now, status, autos>>
    BY <1>8 DEF Convert, execute_fee_topup, execute_bridge
  <2>2. QED
    BY <1>1, <2>1 DEF QuietStep
<1>9. CASE \E fee \in 1..MaxLinkFee : execute_link_fee_debit(k, p, fee)
  <2>1. UNCHANGED <<config, now, status, autos>>
    BY <1>9 DEF execute_link_fee_debit
  <2>2. QED
    BY <1>1, <2>1 DEF QuietStep
<1>10. QED
  BY <1>5, <1>6, <1>7, <1>8, <1>9 DEF KeeperStep

\* A step that creates no rule is of one of the other four kinds.
Creates == \E o \in Owners, r \in Requests : CreateRule(o, r)
LEMMA OtherKinds ==
    ASSUME AccountsOK, [Next]_vars, ~Creates
    PROVE  QuietStep \/ \E p \in Pdas : FireStep(p) \/ ExpireStep(p) \/ RetireStep(p)
<1>1. now \in Nat
  BY DEF AccountsOK
<1>2. CASE Tick
  BY <1>1, <1>2 DEF Tick, QuietStep
<1>3. CASE Govern
  <2>1. UNCHANGED <<now, status, autos>>
    BY <1>3 DEF Govern
  <2>2. config'.automation_count = config.automation_count
    BY <1>3 DEF Govern, AccountsOK, Configs, update_keeper, update_admin, update_treasury,
                set_paused, set_shutdown, update_swap_fee_bps, update_time_fee_per_day,
                migrate_config
  <2>3. QED
    BY <1>1, <2>1, <2>2 DEF QuietStep
<1>4. CASE \E o \in Owners, r \in Requests : setup_atas(o, r) \/ CreateRule(o, r)
  <2>1. ASSUME NEW o \in Owners, NEW r \in Requests, setup_atas(o, r) PROVE QuietStep
    BY <1>1, <2>1 DEF setup_atas, QuietStep
  <2>2. QED
    BY <1>4, <2>1 DEF Creates
<1>5. ASSUME NEW p \in Pdas, NEW ms, NEW payee, NEW how \in {"closed", "swept"},
             Close(p, ms, payee, how)
      PROVE  RetireStep(p)
  BY <1>5 DEF Close, RetireStep
<1>6. CASE \E o \in Owners, p \in Pdas : OwnerStep(o, p)
  <2>1. PICK o \in Owners, p \in Pdas : OwnerStep(o, p)
    BY <1>6
  <2>2. ASSUME NEW x, top_up(o, p, x) PROVE QuietStep
    BY <1>1, <2>2 DEF top_up, QuietStep
  <2>3. CASE collect_pda_dust_atas(o, p)
    BY <1>1, <2>3 DEF collect_pda_dust_atas, ledger, QuietStep
  <2>4. QED
    BY <2>1, <2>2, <2>3, <1>5
       DEF OwnerStep, close_automation, close_automation_spl, close_automation_swap
<1>7. ASSUME NEW s \in Wallets, NEW p \in Pdas, AdminClose(s, p) PROVE RetireStep(p)
  BY <1>5, <1>7 DEF AdminClose, admin_close_automation, admin_close_automation_spl,
                    admin_close_automation_swap
<1>8. CASE UNCHANGED vars
  BY <1>1, <1>8 DEF vars, QuietStep
<1>9. QED
  BY <1>2, <1>3, <1>4, <1>6, <1>7, <1>8, KeeperSteps DEF Next

\* The five kinds.
LEMMA FiveKinds ==
    ASSUME AccountsOK, [Next]_vars
    PROVE  StartStep \/ QuietStep
             \/ \E p \in Pdas : FireStep(p) \/ ExpireStep(p) \/ RetireStep(p)
BY CreateStarts, OtherKinds DEF Creates

-----------------------------------------------------------------------------
(* The cadence bounds                                                       *)

\* What CadenceSound says of one rule at time t, and that it fired in the past.
RuleSound(a, t) ==
    /\ a.executed_at <= t
    /\ a.cadence.kind = "Once" =>
         a.executions <= 1 /\ (a.finished <=> a.executions = 1)
    /\ a.cadence.kind = "Repeat" =>
         /\ a.executions <= a.cadence.total
         /\ a.finished <=> a.executions = a.cadence.total
    /\ a.cadence.kind = "Until" =>
         /\ a.executed_at <= a.cadence.deadline
         /\ a.finished => t > a.cadence.deadline

RulesSound == \A p \in Pdas : status[p] # "absent" => RuleSound(autos[p], now)

\* The fields that the schedule reads.
LEMMA AutoTypes ==
    ASSUME NEW a \in Autos
    PROVE  /\ a.executions \in 0..U32Max /\ a.executed_at \in Nat
           /\ a.finished \in BOOLEAN /\ a.min_interval \in Nat
           /\ a.cadence.kind \in {"Once", "Repeat", "Until"}
           /\ a.cadence.total \in 0..U32Max /\ a.cadence.deadline \in Int
BY DEF Autos, Cadences

\* A fire that the checks allow keeps the bounds.
LEMMA AdvanceSound ==
    ASSUME NEW a \in Autos, NEW t \in Nat, RuleSound(a, t),
           ~is_until_expired(a, t), check_can_fire(a, t)
    PROVE  RuleSound(advance(a, t), t)
<1> DEFINE n == Smaller(a.executions + 1, U32Max)
           b == advance(a, t)
<1>1. ~a.finished /\ a.executions \in 0..U32Max /\ U32Max \in Nat \ {0}
      /\ a.cadence.total \in 0..U32Max /\ a.cadence.deadline \in Int
  BY AutoTypes, WidthAssumption DEF check_can_fire
<1>2. /\ n \in Nat /\ (a.executions < U32Max => n = a.executions + 1)
  BY <1>1 DEF Smaller
<1>3. /\ b.executions = n /\ b.executed_at = t /\ b.cadence = a.cadence
      /\ b.finished = \/ a.finished
                      \/ a.cadence.kind = "Once"
                      \/ a.cadence.kind = "Repeat" /\ n >= a.cadence.total
  BY DEF advance, Autos
<1> HIDE DEF n, b
<1>4. a.cadence.kind = "Once" => b.executions <= 1 /\ (b.finished <=> b.executions = 1)
  <2>1. a.cadence.kind = "Once" => a.executions = 0
    BY <1>1 DEF RuleSound
  <2>2. QED
    BY <1>1, <1>2, <1>3, <2>1
<1>5. a.cadence.kind = "Repeat" =>
         /\ b.executions <= a.cadence.total
         /\ b.finished <=> b.executions = a.cadence.total
  <2>1. a.cadence.kind = "Repeat" => a.executions < a.cadence.total
    BY <1>1 DEF RuleSound
  <2>2. QED
    BY <1>1, <1>2, <1>3, <2>1
<1>6. a.cadence.kind = "Until" => t <= a.cadence.deadline /\ ~b.finished
  BY <1>1, <1>3 DEF is_until_expired
<1>7. QED
  BY <1>3, <1>4, <1>5, <1>6 DEF RuleSound, b

\* The bounds are inductive.
LEMMA StepSound == AccountsOK /\ RulesSound /\ [Next]_vars => RulesSound'
<1> SUFFICES ASSUME AccountsOK, RulesSound, [Next]_vars PROVE RulesSound'
  OBVIOUS
<1>1. CASE StartStep
  <2>1. PICK o \in Owners, r \in Requests, asset \in Assets, deposit \in Nat :
          Create(o, r, asset, deposit)
    BY <1>1 DEF StartStep
  <2> DEFINE p == <<o, config.automation_count>>
  <2>2. p \in Pdas
    BY <2>1, CreatePays
  <2>3. /\ autos'[p].executions = 0 /\ autos'[p].executed_at = 0
        /\ autos'[p].finished = FALSE /\ autos'[p].cadence = r.cadence
    BY <2>1, <2>2 DEF Create, AccountsOK
  <2>4. ValidCadence(r.cadence) /\ r.cadence \in Cadences /\ now' = now /\ now \in Nat
    BY <2>1, RequestTypes DEF Create, AccountsOK
  <2>5. RuleSound(autos'[p], now')
    BY <2>3, <2>4 DEF RuleSound, ValidCadence, Cadences
  <2>6. \A q \in Pdas \ {p} : status'[q] = status[q] /\ autos'[q] = autos[q]
    BY <2>1, <2>2 DEF Create, AccountsOK
  <2>7. QED
    BY <2>4, <2>5, <2>6 DEF RulesSound
<1>2. CASE QuietStep
  <2>1. ASSUME NEW q \in Pdas, status[q] # "absent" PROVE RuleSound(autos[q], now')
    <3>1. autos[q] \in Autos /\ RuleSound(autos[q], now) /\ now \in Nat /\ now' \in Nat
      BY <1>2, <2>1 DEF QuietStep, AccountsOK, RulesSound
    <3>2. autos[q].executed_at \in Nat /\ autos[q].cadence.deadline \in Int /\ now' >= now
      BY <3>1, <1>2, AutoTypes DEF QuietStep
    <3>3. QED
      BY <3>1, <3>2 DEF RuleSound
  <2>2. QED
    BY <1>2, <2>1 DEF QuietStep, RulesSound
<1>3. ASSUME NEW p \in Pdas, FireStep(p) PROVE RulesSound'
  <2>1. autos[p] \in Autos /\ status[p] # "absent" /\ now \in Nat /\ now' = now
    BY <1>3 DEF FireStep, Open, AccountsOK
  <2>2. RuleSound(advance(autos[p], now), now)
    BY <1>3, <2>1, AdvanceSound DEF FireStep, RulesSound
  <2>3. autos' = [autos EXCEPT ![p] = advance(autos[p], now)]
    BY <1>3 DEF FireStep, Fired
  <2>4. \A q \in Pdas : q # p => status'[q] = status[q]
    BY <1>3 DEF FireStep, AccountsOK
  <2>5. QED
    BY <2>1, <2>2, <2>3, <2>4 DEF RulesSound, AccountsOK
<1>4. ASSUME NEW p \in Pdas, ExpireStep(p) PROVE RulesSound'
  <2>1. /\ autos[p] \in Autos /\ status[p] # "absent" /\ now' = now /\ status' = status
        /\ autos' = [autos EXCEPT ![p].finished = TRUE] /\ is_until_expired(autos[p], now)
    BY <1>4 DEF ExpireStep, Open, AccountsOK, handle_until_expiry
  <2> DEFINE b == [autos[p] EXCEPT !.finished = TRUE]
  <2>2. b.executed_at = autos[p].executed_at /\ b.cadence = autos[p].cadence
    BY <2>1 DEF Autos
  <2>3. autos[p].cadence.kind = "Until" /\ now > autos[p].cadence.deadline
    BY <2>1 DEF is_until_expired
  <2>4. RuleSound(autos[p], now)
    BY <2>1 DEF RulesSound
  <2> HIDE DEF b
  <2>5. RuleSound(b, now)
    BY <2>2, <2>3, <2>4 DEF RuleSound
  <2>6. autos' = [autos EXCEPT ![p] = b]
    BY <2>1 DEF b
  <2>7. QED
    BY <2>1, <2>5, <2>6 DEF RulesSound, AccountsOK
<1>5. ASSUME NEW p \in Pdas, RetireStep(p) PROVE RulesSound'
  BY <1>5 DEF RetireStep, RulesSound, Open, AccountsOK
<1>6. QED
  BY <1>1, <1>2, <1>3, <1>4, <1>5, FiveKinds

\* A rule never fires more often than its cadence allows, never after its Until
\* deadline, and is finished exactly when the cadence is used up, for any
\* requests, any clock and any u32 (state.rs, check_can_fire and advance).
THEOREM CadenceIsKept == Spec => []CadenceSound
<1>1. Init => RulesSound
  BY DEF Init, RulesSound
<1>2. RulesSound => CadenceSound
  BY DEF RulesSound, RuleSound, CadenceSound
<1>3. QED
  BY <1>1, <1>2, StepSound, TypeCorrect, PTL DEF Spec, TypeOK

-----------------------------------------------------------------------------
(* The numbering of rules                                                   *)

\* Every step but a create keeps which addresses were ever used.
LEMMA SameUsed ==
    ASSUME AccountsOK,
           QuietStep \/ \E p \in Pdas : FireStep(p) \/ ExpireStep(p) \/ RetireStep(p)
    PROVE  /\ config'.automation_count = config.automation_count
           /\ \A q \in Pdas : status'[q] # "absent" <=> status[q] # "absent"
<1>1. CASE QuietStep
  BY <1>1 DEF QuietStep
<1>2. ASSUME NEW p \in Pdas, FireStep(p)
      PROVE  /\ config'.automation_count = config.automation_count
             /\ \A q \in Pdas : status'[q] # "absent" <=> status[q] # "absent"
  BY <1>2 DEF FireStep, Open, AccountsOK
<1>3. ASSUME NEW p \in Pdas, ExpireStep(p)
      PROVE  /\ config'.automation_count = config.automation_count
             /\ \A q \in Pdas : status'[q] # "absent" <=> status[q] # "absent"
  BY <1>3 DEF ExpireStep, handle_until_expiry
<1>4. ASSUME NEW p \in Pdas, RetireStep(p)
      PROVE  /\ config'.automation_count = config.automation_count
             /\ \A q \in Pdas : status'[q] # "absent" <=> status[q] # "absent"
  BY <1>4 DEF RetireStep, Open, AccountsOK
<1>5. QED
  BY <1>1, <1>2, <1>3, <1>4

\* The numbering is inductive.
LEMMA StepNumbered == AccountsOK /\ NonceUsedOnce /\ [Next]_vars => NonceUsedOnce'
<1> SUFFICES ASSUME AccountsOK, NonceUsedOnce, [Next]_vars PROVE NonceUsedOnce'
  OBVIOUS
<1>1. CASE StartStep
  <2>1. PICK o \in Owners, r \in Requests, asset \in Assets, deposit \in Nat :
          Create(o, r, asset, deposit)
    BY <1>1 DEF StartStep
  <2> DEFINE n == config.automation_count
             p == <<o, n>>
  <2>2. n \in Nat /\ p \in Pdas /\ p[2] = n
    BY <2>1, CreatePays, CountAssumption DEF AccountsOK, Configs
  <2>3. config'.automation_count = n + 1
    BY <2>1 DEF Create, NextNonce, AccountsOK, Configs
  <2>4. \A q \in Pdas \ {p} : status'[q] = status[q]
    BY <2>1, <2>2 DEF Create, AccountsOK
  <2>5. \A q \in Pdas : status[q] # "absent" => q[2] < n /\ q[2] \in Nat
    BY Places, CountAssumption DEF NonceUsedOnce, Nonces
  <2>6. \A q \in Pdas : status'[q] # "absent" => q = p \/ (status[q] # "absent" /\ q[2] < n)
    BY <2>4, <2>5
  <2> HIDE DEF n, p
  <2>7. ASSUME NEW q \in Pdas, status'[q] # "absent" PROVE q[2] < config'.automation_count
    BY <2>2, <2>3, <2>5, <2>6, <2>7
  <2>8. ASSUME NEW q \in Pdas, status'[q] # "absent",
               NEW s \in Pdas, status'[s] # "absent", s[2] = q[2]
        PROVE  s = q
    <3>1. CASE q = p \/ s = p
      BY <3>1, <2>2, <2>6, <2>8
    <3>2. CASE q # p /\ s # p
      BY <3>2, <2>6, <2>8 DEF NonceUsedOnce
    <3>3. QED
      BY <3>1, <3>2
  <2>9. QED
    BY <2>7, <2>8 DEF NonceUsedOnce
<1>2. CASE QuietStep \/ \E p \in Pdas : FireStep(p) \/ ExpireStep(p) \/ RetireStep(p)
  BY <1>2, SameUsed DEF NonceUsedOnce
<1>3. QED
  BY <1>1, <1>2, FiveKinds

\* Each number of the global counter names at most one rule, of whichever owner
\* won it, for any number of owners (the create handlers' PDA seeds).
THEOREM NumberedOnce == Spec => []NonceUsedOnce
<1>1. Init => NonceUsedOnce
  BY DEF Init, NonceUsedOnce
<1>2. QED
  BY <1>1, StepNumbered, TypeCorrect, PTL DEF Spec, TypeOK

-----------------------------------------------------------------------------
(* The kill switch                                                          *)

\* A close pays nobody but the rule's owner and the treasury.
LEMMA ClosePays ==
    ASSUME AccountsOK, NEW p \in Pdas, NEW ms \in SUBSET Mints,
           NEW payee \in {p[1], config.treasury}, NEW how \in {"closed", "swept"},
           Close(p, ms, payee, how)
    PROVE  \A h \in Wallets \ (Owners \cup {config.treasury}) : bal'[h] = bal[h]
<1>1. payee \in Wallets /\ config \in Configs /\ config.treasury \in Holders
      /\ p[1] \in Owners /\ p[1] \in Holders /\ p \in Holders
  BY Places DEF AccountsOK, Configs
<1> DEFINE b == DrainAtas(p, ms, payee)
           refund == IF b[p][Sol] > Rent THEN b[p][Sol] - Rent ELSE 0
           rest == b[p][Sol] - refund
<1>2. bal' = Move(Move(b, p, p[1], Sol, refund), p, config.treasury, Sol, rest)
  BY DEF Close, SplitLamports
<1> SUFFICES ASSUME NEW h \in Wallets \ (Owners \cup {config.treasury})
             PROVE  bal'[h] = bal[h]
  OBVIOUS
<1>3. h \in Holders /\ h # p /\ h # p[1] /\ h # config.treasury /\ h # payee
  BY <1>1, Places
<1>4. b[h] = bal[h]
  <2>1. b[h] = [a \in Assets |-> bal[h][a]]
    BY <1>1, <1>3 DEF DrainAtas
  <2>2. bal[h] \in [Assets -> Nat]
    BY <1>3 DEF AccountsOK
  <2>3. QED
    BY <2>1, <2>2
<1>5. b \in Ledgers
  BY <1>1, DrainEffect
<1> HIDE DEF b, refund, rest
<1>6. Move(Move(b, p, p[1], Sol, refund), p, config.treasury, Sol, rest)[h] = b[h]
  BY <1>1, <1>3, <1>5 DEF Move, Ledgers
<1>7. QED
  BY <1>2, <1>4, <1>6

\* A step of the wind-down that changes no wallet's balance but an owner's or the
\* treasury's, and closes rules at most.
LEMMA StepWindsDown == AccountsOK /\ [Next]_vars => WindDownStep
<1> SUFFICES ASSUME AccountsOK, [Next]_vars, config.shutdown PROVE WindDownStep
  BY DEF WindDownStep
<1> DEFINE Frozen == config' = [config EXCEPT !.paused = config'.paused,
                                              !.keeper = config'.keeper]
           Others == \A h \in Wallets \ (Owners \cup {config.treasury}) : bal'[h] = bal[h]
<1>1. config = [config EXCEPT !.paused = config.paused, !.keeper = config.keeper]
  BY DEF AccountsOK, Configs
<1>2. ASSUME UNCHANGED <<config, autos, status>>, Others PROVE WindDownStep
  BY <1>1, <1>2 DEF WindDownStep
<1>3. CASE Tick
  BY <1>2, <1>3 DEF Tick, ledger
<1>4. CASE Govern
  <2>1. UNCHANGED <<now, status, autos, bal>>
    BY <1>4 DEF Govern, ledger
  <2>2. Frozen
    BY <1>1, <1>4 DEF Govern, AccountsOK, Configs, update_keeper, update_admin,
       update_treasury, set_paused, set_shutdown, update_swap_fee_bps,
       update_time_fee_per_day, migrate_config
  <2>3. QED
    BY <2>1, <2>2 DEF WindDownStep
<1>5. CASE \E o \in Owners, r \in Requests : setup_atas(o, r) \/ CreateRule(o, r)
  <2>1. PICK o \in Owners, r \in Requests : setup_atas(o, r) \/ CreateRule(o, r)
    BY <1>5
  <2>2. ~CreateRule(o, r)
    BY DEF CreateRule, create_automation, create_automation_spl, create_automation_swap,
           create_automation_swap_linked, Create
  <2>3. UNCHANGED <<config, now, status, autos>>
        /\ bal' = [bal EXCEPT ![o][Sol] = @ - AtaRent * Cardinality(MissingAtas(o, r))]
    BY <2>1, <2>2 DEF setup_atas
  <2>4. Others
    BY <2>3, Places DEF AccountsOK
  <2>5. QED
    BY <1>2, <2>3, <2>4
<1>6. ASSUME NEW p \in Pdas, NEW ms \in SUBSET Mints,
             NEW payee \in {p[1], config.treasury}, NEW how \in {"closed", "swept"},
             Close(p, ms, payee, how)
      PROVE  WindDownStep
  <2>1. Others
    BY <1>6, ClosePays
  <2>2. UNCHANGED <<config, autos>> /\ status[p] = "open"
        /\ status' = [status EXCEPT ![p] = how]
    BY <1>6 DEF Close, Open
  <2>3. \A q \in Pdas : status'[q] # status[q] =>
          status[q] = "open" /\ status'[q] \in {"closed", "swept"}
    BY <2>2 DEF AccountsOK
  <2>4. QED
    BY <1>1, <2>1, <2>2, <2>3 DEF WindDownStep
<1>7. ASSUME NEW o \in Owners, NEW p \in Pdas, OwnerStep(o, p) PROVE WindDownStep
  <2>1. Open(p) => autos[p].action.mint \in Mints
    BY OpenRule
  <2>2. ASSUME NEW x \in TopUps, top_up(o, p, x) PROVE WindDownStep
    <3>1. UNCHANGED <<config, autos, status>> /\ bal' = Move(bal, o, p, Sol, x)
      BY <2>2 DEF top_up
    <3>2. Others
      BY <3>1, Places DEF Move, AccountsOK
    <3>3. QED
      BY <1>2, <3>1, <3>2
  <2>3. CASE close_automation(o, p)
    BY <1>6, <2>3 DEF close_automation
  <2>4. CASE close_automation_spl(o, p)
    BY <1>6, <2>1, <2>4 DEF close_automation_spl
  <2>5. ASSUME NEW l \in listed[p], close_automation_swap(o, p, l) PROVE WindDownStep
    <3>1. {autos[p].action.mint} \cup l.dust \in SUBSET Mints
      BY <2>1, <2>5 DEF close_automation_swap, DustMints
    <3>2. QED
      BY <1>6, <2>5, <3>1 DEF close_automation_swap
  <2>6. CASE collect_pda_dust_atas(o, p)
    BY <1>2, <2>6 DEF collect_pda_dust_atas, ledger
  <2>7. QED
    BY <1>7, <2>2, <2>3, <2>4, <2>5, <2>6 DEF OwnerStep
<1>8. ASSUME NEW s \in Wallets, NEW p \in Pdas, AdminClose(s, p) PROVE WindDownStep
  <2>1. autos[p].action.mint \in Mints
    BY <1>8, OpenRule DEF AdminClose
  <2>2. ASSUME NEW dust \in SUBSET DustMints(p)
        PROVE  {autos[p].action.mint} \cup dust \in SUBSET Mints
    BY <2>1 DEF DustMints
  <2>3. QED
    BY <1>6, <1>8, <2>1, <2>2
       DEF AdminClose, admin_close_automation, admin_close_automation_spl,
           admin_close_automation_swap
<1>9. \A s \in Wallets, p \in Pdas : ~KeeperStep(s, p)
  BY DEF KeeperStep, KeeperGate, execute_automation, execute_automation_spl, FireSwap,
         execute_swap, Convert, execute_fee_topup, execute_bridge, execute_link_fee_debit
<1>10. CASE UNCHANGED vars
  BY <1>2, <1>10 DEF vars
<1>11. QED
  BY <1>3, <1>4, <1>5, <1>7, <1>8, <1>9, <1>10 DEF Next

\* From set_shutdown on nothing is created, fired or re-governed, and value leaves
\* the rules only for their owners and the treasury of that moment.
THEOREM WindDownIsSafe == Spec => WindDownFlow
BY StepWindsDown, TypeCorrect, PTL DEF Spec, TypeOK, WindDownFlow

-----------------------------------------------------------------------------
(* The program keeps the promise of RuleSchedule                            *)

Fires == [p \in Pdas |-> IF status[p] = "absent" THEN 0 ELSE autos[p].executions]
Last == [p \in Pdas |-> IF status[p] = "absent" THEN 0 ELSE autos[p].executed_at]

\* A rule whose status and data a step leaves alone looks the same to RuleSchedule.
LEMMA SameView ==
    ASSUME NEW q \in Pdas, status'[q] = status[q], autos'[q] = autos[q]
    PROVE  /\ Phase'[q] = Phase[q] /\ Plan'[q] = Plan[q]
           /\ Fires'[q] = Fires[q] /\ Last'[q] = Last[q]
BY DEF Phase, Plan, Fires, Last

\* Two functions that agree but at one point.
LEMMA ReplaceOne ==
    ASSUME NEW f, NEW g, f = [q \in Pdas |-> f[q]], g = [q \in Pdas |-> g[q]],
           NEW p \in Pdas, \A q \in Pdas \ {p} : g[q] = f[q]
    PROVE  g = [f EXCEPT ![p] = g[p]]
OBVIOUS

\* A step that changes what RuleSchedule sees of one rule only.
LEMMA OneChanged ==
    ASSUME NEW p \in Pdas,
           \A q \in Pdas \ {p} : status'[q] = status[q] /\ autos'[q] = autos[q]
    PROVE  /\ Phase' = [Phase EXCEPT ![p] = Phase'[p]]
           /\ Plan' = [Plan EXCEPT ![p] = Plan'[p]]
           /\ Fires' = [Fires EXCEPT ![p] = Fires'[p]]
           /\ Last' = [Last EXCEPT ![p] = Last'[p]]
<1>1. \A q \in Pdas \ {p} : /\ Phase'[q] = Phase[q] /\ Plan'[q] = Plan[q]
                            /\ Fires'[q] = Fires[q] /\ Last'[q] = Last[q]
  BY SameView
<1>2. /\ Phase' = [q \in Pdas |-> Phase'[q]] /\ Plan' = [q \in Pdas |-> Plan'[q]]
      /\ Fires' = [q \in Pdas |-> Fires'[q]] /\ Last' = [q \in Pdas |-> Last'[q]]
  BY DEF Phase, Plan, Fires, Last
<1>3. /\ Phase = [q \in Pdas |-> Phase[q]] /\ Plan = [q \in Pdas |-> Plan[q]]
      /\ Fires = [q \in Pdas |-> Fires[q]] /\ Last = [q \in Pdas |-> Last[q]]
  BY DEF Phase, Plan, Fires, Last
<1>4. QED
  BY <1>1, <1>2, <1>3, ReplaceOne

\* A create starts a rule that was never there.
LEMMA StartRefines ==
    ASSUME AccountsOK, NonceUsedOnce, StartStep
    PROVE  \E p \in Pdas : Schedule!Start(p)
<1>1. PICK o \in Owners, r \in Requests, asset \in Assets, deposit \in Nat :
        Create(o, r, asset, deposit)
  BY DEF StartStep
<1> DEFINE p == <<o, config.automation_count>>
<1>2. p \in Pdas /\ p[2] = config.automation_count /\ config.automation_count \in Nat
  BY <1>1, CreatePays, CountAssumption DEF AccountsOK, Configs
<1>3. status[p] = "absent"
  BY <1>2 DEF NonceUsedOnce
<1>4. /\ status'[p] = "open" /\ autos'[p].finished = FALSE
      /\ autos'[p].executions = 0 /\ autos'[p].executed_at = 0 /\ now' = now
  BY <1>1, <1>2 DEF Create, AccountsOK
<1>5. \A q \in Pdas \ {p} : status'[q] = status[q] /\ autos'[q] = autos[q]
  BY <1>1, <1>2 DEF Create, AccountsOK
<1> HIDE DEF p
<1>6. /\ Phase[p] = "absent" /\ Phase'[p] = "live"
      /\ Fires'[p] = Fires[p] /\ Last'[p] = Last[p]
  BY <1>2, <1>3, <1>4 DEF Phase, Fires, Last
<1>7. /\ Phase' = [Phase EXCEPT ![p] = "live"] /\ Plan' = [Plan EXCEPT ![p] = Plan'[p]]
      /\ Fires' = [Fires EXCEPT ![p] = Fires[p]] /\ Last' = [Last EXCEPT ![p] = Last[p]]
  BY <1>2, <1>5, <1>6, OneChanged
<1>8. Fires' = Fires /\ Last' = Last
  BY <1>7 DEF Fires, Last
<1>9. QED
  BY <1>2, <1>4, <1>6, <1>7, <1>8 DEF Schedule!Start, Fires, Last

\* A fire is due, and uses up the rule or its account at most.
LEMMA FireRefines ==
    ASSUME AccountsOK, RulesSound, NEW p \in Pdas, FireStep(p)
    PROVE  Schedule!Fire(p)
<1> DEFINE a == autos[p]
           n == IF a.executions < U32Max THEN a.executions + 1 ELSE U32Max
           ended == \/ a.cadence.kind = "Once"
                    \/ a.cadence.kind = "Repeat" /\ n >= a.cadence.total
<1>1. /\ a \in Autos /\ status[p] = "open" /\ now \in Nat /\ now' = now
      /\ RuleSound(a, now) /\ ~is_until_expired(a, now) /\ check_can_fire(a, now)
      /\ autos' = [autos EXCEPT ![p] = advance(a, now)]
      /\ status' = status \/ status' = [status EXCEPT ![p] = "reaped"]
  BY DEF FireStep, Fired, Open, AccountsOK, RulesSound
<1>2. /\ a.executions \in 0..U32Max /\ a.executed_at \in Nat /\ a.min_interval \in Nat
      /\ a.cadence.total \in 0..U32Max /\ a.cadence.deadline \in Int
      /\ ~a.finished /\ U32Max \in Nat
  BY <1>1, AutoTypes, WidthAssumption DEF check_can_fire
<1>3. Smaller(a.executions + 1, U32Max) = n
  BY <1>2 DEF Smaller
<1>4. /\ autos'[p].executions = n /\ autos'[p].executed_at = now
      /\ autos'[p].cadence = a.cadence /\ autos'[p].min_interval = a.min_interval
      /\ autos'[p].finished = ended
  BY <1>1, <1>2, <1>3 DEF advance, AccountsOK, Autos
<1>5. \A q \in Pdas \ {p} : status'[q] = status[q] /\ autos'[q] = autos[q]
  BY <1>1 DEF AccountsOK
<1>6. /\ Phase[p] = "live" /\ Fires[p] = a.executions /\ Last[p] = a.executed_at
      /\ Plan[p] = [kind |-> a.cadence.kind, total |-> a.cadence.total,
                    deadline |-> a.cadence.deadline, gap |-> a.min_interval]
  BY <1>1, <1>2 DEF Phase, Fires, Last, Plan
<1>7. status'[p] \in {"open", "reaped"}
  BY <1>1 DEF AccountsOK
<1>8. /\ Fires'[p] = n /\ Last'[p] = now /\ Plan'[p] = Plan[p]
      /\ Phase'[p] = (IF ended THEN "done" ELSE "live") \/ Phase'[p] = "gone"
  BY <1>4, <1>6, <1>7 DEF Phase, Fires, Last, Plan
<1>9. /\ a.cadence.kind = "Once" => a.executions = 0
      /\ a.cadence.kind = "Repeat" => a.executions < a.cadence.total
      /\ a.cadence.kind = "Until" => now <= a.cadence.deadline
      /\ a.executions > 0 => now >= a.executed_at + a.min_interval
  <2>1. a.cadence.kind = "Once" => a.executions = 0
    BY <1>1, <1>2 DEF RuleSound
  <2>2. a.cadence.kind = "Repeat" => a.executions < a.cadence.total
    BY <1>1, <1>2 DEF RuleSound
  <2>3. a.cadence.kind = "Until" => now <= a.cadence.deadline
    BY <1>1, <1>2 DEF is_until_expired
  <2>4. a.executions > 0 => now >= a.executed_at + a.min_interval
    BY <1>1, <1>2 DEF check_can_fire, RuleSound
  <2>5. QED
    BY <2>1, <2>2, <2>3, <2>4
<1> HIDE DEF a, n, ended
<1>10. Schedule!Due(p)
  BY <1>6, <1>9 DEF Schedule!Due, Fires, Last
<1>11. /\ Phase' = [Phase EXCEPT ![p] = IF ended THEN "done" ELSE "live"]
            \/ Phase' = [Phase EXCEPT ![p] = "gone"]
       /\ Fires' = [Fires EXCEPT ![p] = n] /\ Last' = [Last EXCEPT ![p] = now]
       /\ Plan' = [Plan EXCEPT ![p] = Plan[p]]
  BY <1>5, <1>8, OneChanged
<1>12. Plan' = Plan
  BY <1>11 DEF Plan
<1>13. n = (IF Fires[p] < U32Max THEN Fires[p] + 1 ELSE U32Max)
  BY <1>6 DEF n
<1>14. ended <=> \/ Plan[p].kind = "Once"
                 \/ Plan[p].kind = "Repeat"
                      /\ (IF Fires[p] < U32Max THEN Fires[p] + 1 ELSE U32Max) >= Plan[p].total
  BY <1>6, <1>13 DEF ended
<1>15. LET m == IF Fires[p] < U32Max THEN Fires[p] + 1 ELSE U32Max
           over == \/ Plan[p].kind = "Once"
                   \/ Plan[p].kind = "Repeat" /\ m >= Plan[p].total
       IN  /\ Schedule!Due(p)
           /\ Fires' = [Fires EXCEPT ![p] = m]
           /\ Last' = [Last EXCEPT ![p] = now]
           /\ Phase' \in {[Phase EXCEPT ![p] = IF over THEN "done" ELSE "live"],
                          [Phase EXCEPT ![p] = "gone"]}
           /\ UNCHANGED <<now, Plan>>
  BY <1>1, <1>10, <1>11, <1>12, <1>13, <1>14
<1>16. QED
  BY <1>15 DEF Schedule!Fire, Fires, Last

\* An expiry ends an Until rule past its deadline.
LEMMA ExpireRefines ==
    ASSUME AccountsOK, NEW p \in Pdas, ExpireStep(p)
    PROVE  Schedule!Expire(p)
<1>1. /\ autos[p] \in Autos /\ status[p] = "open" /\ status' = status /\ now' = now
      /\ autos' = [autos EXCEPT ![p] = [autos[p] EXCEPT !.finished = TRUE]]
      /\ ~autos[p].finished /\ autos[p].cadence.kind = "Until"
      /\ now > autos[p].cadence.deadline
  BY DEF ExpireStep, Open, AccountsOK, handle_until_expiry, is_until_expired
<1>2. /\ autos'[p].finished = TRUE /\ autos'[p].executions = autos[p].executions
      /\ autos'[p].executed_at = autos[p].executed_at
      /\ autos'[p].cadence = autos[p].cadence
      /\ autos'[p].min_interval = autos[p].min_interval
  BY <1>1 DEF AccountsOK, Autos
<1>3. \A q \in Pdas \ {p} : status'[q] = status[q] /\ autos'[q] = autos[q]
  BY <1>1 DEF AccountsOK
<1>4. /\ Phase[p] = "live" /\ Phase'[p] = "done" /\ Fires'[p] = Fires[p]
      /\ Last'[p] = Last[p] /\ Plan'[p] = Plan[p]
      /\ Plan[p].kind = "Until" /\ now > Plan[p].deadline
  BY <1>1, <1>2 DEF Phase, Fires, Last, Plan
<1>5. /\ Phase' = [Phase EXCEPT ![p] = "done"] /\ Plan' = [Plan EXCEPT ![p] = Plan[p]]
      /\ Fires' = [Fires EXCEPT ![p] = Fires[p]] /\ Last' = [Last EXCEPT ![p] = Last[p]]
  BY <1>3, <1>4, OneChanged
<1>6. Plan' = Plan /\ Fires' = Fires /\ Last' = Last
  BY <1>5 DEF Plan, Fires, Last
<1>7. QED
  BY <1>1, <1>4, <1>5, <1>6 DEF Schedule!Expire, Fires, Last

\* A close retires the rule.
LEMMA RetireRefines ==
    ASSUME AccountsOK, NEW p \in Pdas, RetireStep(p)
    PROVE  Schedule!Retire(p)
<1>1. /\ status[p] = "open" /\ status'[p] \in {"closed", "swept"} /\ now' = now
      /\ autos' = autos /\ \A q \in Pdas \ {p} : status'[q] = status[q]
  BY DEF RetireStep, Open, AccountsOK
<1>2. /\ Phase[p] \in {"live", "done"} /\ Phase'[p] = "gone" /\ Fires'[p] = Fires[p]
      /\ Last'[p] = Last[p] /\ Plan'[p] = Plan[p]
  BY <1>1 DEF Phase, Fires, Last, Plan
<1>3. /\ Phase' = [Phase EXCEPT ![p] = "gone"] /\ Plan' = [Plan EXCEPT ![p] = Plan[p]]
      /\ Fires' = [Fires EXCEPT ![p] = Fires[p]] /\ Last' = [Last EXCEPT ![p] = Last[p]]
  BY <1>1, <1>2, OneChanged
<1>4. Plan' = Plan /\ Fires' = Fires /\ Last' = Last
  BY <1>3 DEF Plan, Fires, Last
<1>5. QED
  BY <1>1, <1>2, <1>3, <1>4 DEF Schedule!Retire, Fires, Last

\* Everything else lets time pass at most.
LEMMA QuietRefines ==
    ASSUME AccountsOK, QuietStep
    PROVE  Schedule!Pass \/ UNCHANGED Schedule!vars
<1>1. Phase' = Phase /\ Plan' = Plan /\ Fires' = Fires /\ Last' = Last
  BY DEF QuietStep, Phase, Plan, Fires, Last
<1>2. now' = now \/ now' > now
  BY DEF QuietStep, AccountsOK
<1>3. QED
  BY <1>1, <1>2 DEF Schedule!Pass, Schedule!vars, Fires, Last

\* Every behaviour of the program, seen through Phase, Plan and the two counters,
\* is a behaviour of the abstract schedule: what owners are promised about when
\* their rules fire holds whoever signs what in which order.
THEOREM ScheduleIsKept == Spec => KeepsSchedule
<1>1. Init => Schedule!Init
  BY DEF Init, Schedule!Init, Phase
<1>2. AccountsOK /\ RulesSound /\ NonceUsedOnce /\ [Next]_vars => [Schedule!Next]_Schedule!vars
  <2> SUFFICES ASSUME AccountsOK, RulesSound, NonceUsedOnce, [Next]_vars
               PROVE  [Schedule!Next]_Schedule!vars
    OBVIOUS
  <2>1. CASE StartStep
    BY <2>1, StartRefines DEF Schedule!Next
  <2>2. CASE QuietStep
    BY <2>2, QuietRefines DEF Schedule!Next
  <2>3. ASSUME NEW p \in Pdas, FireStep(p) \/ ExpireStep(p) \/ RetireStep(p)
        PROVE  Schedule!Next
    BY <2>3, FireRefines, ExpireRefines, RetireRefines DEF Schedule!Next
  <2>4. QED
    BY <2>1, <2>2, <2>3, FiveKinds
<1>3. Init => RulesSound
  BY DEF Init, RulesSound
<1>4. QED
  BY <1>1, <1>2, <1>3, StepSound, TypeCorrect, NumberedOnce, PTL
     DEF Spec, TypeOK, KeepsSchedule, Schedule!Spec

-----------------------------------------------------------------------------
(* Where the tokens are: what a step may put into a rule and take from it   *)

\* Tokens reach a rule only in a token account it has, none are left in one that
\* goes, and an open rule loses its input only to a fire, at most one share of it,
\* or to the fee top-ups its owner allowed.
TokenStep ==
    /\ \A q \in Pdas, x \in Mints : bal'[q][x] <= bal[q][x] \/ ata'[q][x] > 0
    /\ \A q \in Pdas, x \in Mints : ata'[q][x] = 0 => ata[q][x] = 0 \/ bal'[q][x] = 0
    /\ \A q \in Pdas : LET m == autos[q].action.mint IN
          \/ ~Open(q)'
          \/ bal'[q][m] >= bal[q][m]
          \/ /\ autos'[q] = advance(autos[q], now)
             /\ bal'[q][m] + autos[q].action.amount >= bal[q][m]
          \/ autos'[q] = autos[q] /\ autos[q].fee_topup_enabled

\* A rule that is open after a step was open before it, or is new.
SameRules ==
    \A q \in Pdas : Open(q)' =>
        /\ Open(q)
        /\ autos'[q] \in {autos[q], [autos[q] EXCEPT !.finished = TRUE],
                          advance(autos[q], now)}

\* A step that moves no token of a rule and takes no token account from one.
LEMMA NoTokens ==
    ASSUME AccountsOK, 
           \A q \in Pdas, x \in Mints : bal'[q][x] = bal[q][x],
           \A q \in Pdas, x \in Mints : ata'[q][x] = ata[q][x] \/ ata'[q][x] > 0,
           \A q \in Pdas : Open(q)' => Open(q)
    PROVE  TokenStep
<1>1. \A q \in Pdas, x \in Mints : bal[q][x] \in Nat
  BY Places DEF AccountsOK
<1>2. \A q \in Pdas : Open(q) => autos[q].action.mint \in Mints
  BY OpenRule
<1>3. QED
  BY <1>1, <1>2 DEF TokenStep

\* Every instruction but a create keeps the rules or retires one.
LEMMA RulesStay ==
    ASSUME AccountsOK, QuietStep \/ \E p \in Pdas : FireStep(p) \/ ExpireStep(p) \/ RetireStep(p)
    PROVE  SameRules
<1>1. CASE QuietStep
  BY <1>1 DEF QuietStep, SameRules, Open
<1>2. ASSUME NEW p \in Pdas, FireStep(p) PROVE SameRules
  BY <1>2 DEF FireStep, Fired, SameRules, Open, AccountsOK
<1>3. ASSUME NEW p \in Pdas, ExpireStep(p) PROVE SameRules
  BY <1>3 DEF ExpireStep, handle_until_expiry, SameRules, Open, AccountsOK
<1>4. ASSUME NEW p \in Pdas, RetireStep(p) PROVE SameRules
  BY <1>4 DEF RetireStep, SameRules, Open, AccountsOK
<1>5. QED
  BY <1>1, <1>2, <1>3, <1>4

\* A transfer of tokens from a rule to a holder that can receive them.
LEMMA TransferTokens ==
    ASSUME AccountsOK, NEW p \in Pdas, Open(p), transfer_spl(p)
    PROVE  TokenStep
<1> DEFINE d == autos[p].action.destination
           m == autos[p].action.mint
           n == autos[p].action.amount
<1>1. /\ n \in Nat /\ d \in Holders /\ p \in Holders /\ m \in Assets /\ m \in Mints
      /\ bal \in Ledgers
  BY OpenRule, Places DEF AccountsOK, Ledgers
<1>2. /\ bal[p][m] >= n /\ bal' = Move(bal, p, d, m, n) /\ CanReceive(d, m)
      /\ autos' = [autos EXCEPT ![p] = advance(autos[p], now)] /\ ata' = ata
  BY DEF transfer_spl, Fired
<1> HIDE DEF d, n, m
<1>3. \A h \in Holders, x \in Assets :
        bal'[h][x] = IF x # m \/ (h = p /\ h = d) THEN bal[h][x]
                     ELSE IF h = p THEN bal[h][x] - n
                     ELSE IF h = d THEN bal[h][x] + n ELSE bal[h][x]
  BY <1>1, <1>2, MoveEffect
<1>4. \A q \in Pdas, x \in Mints : bal[q][x] \in Nat
  BY Places DEF AccountsOK
<1>5. ASSUME NEW q \in Pdas, NEW x \in Mints
      PROVE  bal'[q][x] <= bal[q][x] \/ ata'[q][x] > 0
  <2>1. q \in Holders /\ x \in Assets
    BY Places
  <2>2. CASE q = d /\ x = m
    BY <1>2, <2>2 DEF CanReceive
  <2>3. CASE ~(q = d /\ x = m)
    BY <1>1, <1>3, <1>4, <2>1, <2>3
  <2>4. QED
    BY <2>2, <2>3
<1>6. ASSUME NEW q \in Pdas, Open(q)', q # p
      PROVE  bal'[q][autos[q].action.mint] >= bal[q][autos[q].action.mint]
  <2>1. Open(q)
    BY <1>6 DEF transfer_spl, Open
  <2>2. autos[q].action.mint \in Mints
    BY <2>1, OpenRule
  <2> DEFINE x == autos[q].action.mint
  <2>3. q \in Holders /\ x \in Assets /\ bal[q][x] \in Nat
    BY <1>4, <2>2, Places
  <2> HIDE DEF x
  <2>4. bal'[q][x] >= bal[q][x]
    BY <1>1, <1>3, <1>6, <2>3
  <2>5. QED
    BY <2>4 DEF x
<1>7. bal'[p][m] + n >= bal[p][m]
  <2>1. bal[p][m] \in Nat
    BY <1>1, <1>4
  <2>2. QED
    BY <1>1, <1>3, <2>1
<1>8. autos'[p] = advance(autos[p], now)
  BY <1>2 DEF AccountsOK
<1>9. \A q \in Pdas, x \in Mints : ata'[q][x] = ata[q][x]
  BY <1>2
<1>10. QED
  BY <1>5, <1>6, <1>7, <1>8, <1>9 DEF TokenStep, m, n

\* A trade through the pools takes the sold token from the rule and gives the
\* bought one to its destination; no other rule's tokens move.
LEMMA TradeTokens ==
    ASSUME NEW b \in Ledgers, NEW p \in Pdas, NEW to \in Holders \ {Pool},
           NEW m \in Mints, NEW w \in Mints, m # w,
           NEW used \in Nat, NEW got \in Nat,
           b[p][m] >= used, b[Pool][w] >= got
    PROVE  LET b2 == Move(Move(b, p, Pool, m, used), Pool, to, w, got)
           IN  \A q \in Pdas, x \in Mints :
                 b2[q][x] = IF q = p /\ x = m THEN b[q][x] - used
                            ELSE IF q = to /\ x = w THEN b[q][x] + got ELSE b[q][x]
<1> DEFINE b1 == Move(b, p, Pool, m, used)
           b2 == Move(b1, Pool, to, w, got)
<1>1. /\ p \in Holders /\ Pool \in Holders /\ p # Pool /\ m \in Assets /\ w \in Assets
  BY Places
<1>2. /\ b1 \in Ledgers
      /\ \A h \in Holders, a \in Assets :
           b1[h][a] = IF a # m \/ (h = p /\ h = Pool) THEN b[h][a]
                      ELSE IF h = p THEN b[h][a] - used
                      ELSE IF h = Pool THEN b[h][a] + used ELSE b[h][a]
  BY <1>1, MoveEffect
<1>3. b1[Pool][w] >= got
  BY <1>1, <1>2
<1> HIDE DEF b1
<1>4. \A h \in Holders, a \in Assets :
           b2[h][a] = IF a # w \/ (h = Pool /\ h = to) THEN b1[h][a]
                      ELSE IF h = Pool THEN b1[h][a] - got
                      ELSE IF h = to THEN b1[h][a] + got ELSE b1[h][a]
  BY <1>1, <1>2, <1>3, MoveEffect
<1> HIDE DEF b2
<1>5. ASSUME NEW q \in Pdas, NEW x \in Mints
      PROVE  b2[q][x] = IF q = p /\ x = m THEN b[q][x] - used
                        ELSE IF q = to /\ x = w THEN b[q][x] + got ELSE b[q][x]
  <2>1. q \in Holders /\ x \in Assets /\ q # Pool
    BY Places
  <2>2. QED
    BY <1>2, <1>4, <2>1
<1>6. QED
  BY <1>5 DEF b1, b2

\* A fee top-up sells what its owner allowed; a bridge turns other tokens into the
\* rule's input, in the token account it has.
LEMMA ConvertTokens ==
    ASSUME AccountsOK, NEW k \in Wallets, NEW p \in Pdas, Open(p), Convert(k, p)
    PROVE  TokenStep
<1>1. PICK m \in Mints, got \in Fills : \E u \in Spends(p, m) :
        execute_fee_topup(k, p, m, u, got) \/ execute_bridge(k, p, m, u, got)
  BY DEF Convert
<1> PICK used \in Spends(p, m) :
      execute_fee_topup(k, p, m, used, got) \/ execute_bridge(k, p, m, used, got)
  BY <1>1
<1>2. \A q \in Pdas, x \in Mints : bal[q][x] \in Nat
  BY Places DEF AccountsOK
<1>3. /\ got \in Nat /\ used \in Nat /\ used <= bal[p][m] /\ bal \in Ledgers
      /\ k \in Holders \ {Pool} /\ p \in Holders \ {Pool} /\ k \notin Pdas
  BY <1>2, Places, AmountsAssumption, PartiesAssumption DEF Spends, AccountsOK, Ledgers
<1>4. UNCHANGED <<config, now, status, autos, ata>>
  BY DEF execute_fee_topup, execute_bridge
<1>5. \A q \in Pdas : Open(q) => autos[q].action.mint \in Mints
  BY OpenRule
<1>6. CASE execute_fee_topup(k, p, m, used, got)
  <2>1. /\ Wsol \in Mints /\ m # Wsol /\ got <= bal[Pool][Wsol] /\ autos[p].fee_topup_enabled
        /\ bal' = Move(Move(bal, p, Pool, m, used), Pool, k, Wsol, got)
    BY <1>6, PartiesAssumption DEF execute_fee_topup
  <2>2. \A q \in Pdas, x \in Mints :
          bal'[q][x] = IF q = p /\ x = m THEN bal[q][x] - used
                       ELSE IF q = k /\ x = Wsol THEN bal[q][x] + got ELSE bal[q][x]
    <3>1. bal[Pool][Wsol] \in Nat
      BY <1>3, <2>1, LedgerNat, Places
    <3>2. QED
      BY <1>2, <1>3, <2>1, <3>1, TradeTokens
  <2>3. \A q \in Pdas, x \in Mints :
          /\ bal'[q][x] <= bal[q][x] /\ (q # p => bal'[q][x] = bal[q][x])
    BY <1>2, <1>3, <2>2
  <2>4. QED
    BY <1>2, <1>4, <1>5, <2>1, <2>3 DEF TokenStep, Open
<1>7. CASE execute_bridge(k, p, m, used, got)
  <2> DEFINE w == autos[p].action.mint
  <2>1. /\ w \in Mints /\ m # w /\ got <= bal[Pool][w] /\ ata[p][w] > 0
        /\ bal' = Move(Move(bal, p, Pool, m, used), Pool, p, w, got)
    BY <1>7, OpenRule DEF execute_bridge
  <2> HIDE DEF w
  <2>2. \A q \in Pdas, x \in Mints :
          bal'[q][x] = IF q = p /\ x = m THEN bal[q][x] - used
                       ELSE IF q = p /\ x = w THEN bal[q][x] + got ELSE bal[q][x]
    <3>1. bal[Pool][w] \in Nat
      BY <1>3, <2>1, LedgerNat, Places
    <3>2. QED
      BY <1>2, <1>3, <2>1, <3>1, TradeTokens
  <2>3. \A q \in Pdas, x \in Mints :
          /\ bal'[q][x] <= bal[q][x] \/ (q = p /\ x = w)
          /\ q # p \/ x = w => bal'[q][x] >= bal[q][x]
    BY <1>2, <1>3, <2>1, <2>2
  <2>4. \A q \in Pdas, x \in Mints : bal'[q][x] <= bal[q][x] \/ ata'[q][x] > 0
    BY <1>4, <2>1, <2>3
  <2>5. \A q \in Pdas : Open(q) => bal'[q][autos[q].action.mint] >= bal[q][autos[q].action.mint]
    BY <1>5, <2>3 DEF w
  <2>6. QED
    BY <1>4, <2>4, <2>5 DEF TokenStep, Open
<1>8. QED
  BY <1>6, <1>7

\* A swap takes at most its share of the input (the cap of execute_swap), pays its
\* output into a token account that exists, and the fee comes out of that output.
LEMMA SwapTokens ==
    ASSUME AccountsOK, NEW p \in Pdas, Open(p), NEW got \in Fills,
           NEW used \in Spends(p, autos[p].action.mint), swap(p, used, got)
    PROVE  TokenStep
<1> DEFINE m == autos[p].action.mint
           w == autos[p].action.output_mint
           d == autos[p].action.destination
           n == autos[p].action.amount
           fee == swap_fee(got)
           routed == Move(Move(bal, p, Pool, m, used), Pool, d, w, got)
           paid == Move(routed, d, config.treasury, w, fee)
<1>1. /\ m \in Mints /\ w \in Mints /\ d \in Holders \ {Pool} /\ p \in Holders /\ n \in Nat
      /\ w \in Assets /\ Sol \in Assets /\ w # Sol /\ m \in Assets /\ m # Sol
      /\ config \in Configs /\ config.treasury \in Holders /\ config.treasury \notin Pdas
      /\ bal \in Ledgers
  BY OpenRule, Places, PartiesAssumption DEF AccountsOK, Ledgers, Configs
<1>2. bal[Pool][w] \in Nat /\ \A q \in Pdas, x \in Mints : bal[q][x] \in Nat
  BY <1>1, Places, LedgerNat
<1>3. got \in Nat /\ used \in Nat /\ used <= bal[p][m]
  BY <1>1, <1>2, AmountsAssumption DEF Spends
<1>4. /\ m # w /\ got <= bal[Pool][w] /\ CanLinkDeposit(p) /\ used <= n
      /\ CanReceive(d, w) /\ (fee > 0 => d = p)
      /\ bal' = LinkDeposit(paid, p)
      /\ autos' = [autos EXCEPT ![p] = advance(autos[p], now)]
      /\ UNCHANGED <<config, now, status, ata>>
  BY DEF swap, Fired, InputCapped, FeeIsAuthorised
<1>5. fee \in Nat /\ fee <= got
  BY <1>1, <1>3, SwapFeeBound
<1> HIDE DEF m, w, d, n, fee
<1>6. /\ routed \in Ledgers /\ routed[d][w] >= got
      /\ \A h \in Holders : routed[h][Sol] = bal[h][Sol]
  BY <1>1, <1>2, <1>3, <1>4, TradeEffect
<1>7. \A q \in Pdas, x \in Mints :
        routed[q][x] = IF q = p /\ x = m THEN bal[q][x] - used
                       ELSE IF q = d /\ x = w THEN bal[q][x] + got ELSE bal[q][x]
  BY <1>1, <1>2, <1>3, <1>4, TradeTokens
<1> HIDE DEF routed
<1>8. routed[d][w] \in Nat /\ routed[d][w] >= fee
  BY <1>1, <1>3, <1>5, <1>6, LedgerNat
<1>9. /\ paid \in Ledgers
      /\ \A h \in Holders, x \in Assets :
           paid[h][x] = IF x # w \/ (h = d /\ h = config.treasury) THEN routed[h][x]
                        ELSE IF h = d THEN routed[h][x] - fee
                        ELSE IF h = config.treasury THEN routed[h][x] + fee ELSE routed[h][x]
  <2> DEFINE t == config.treasury
  <2>1. d \in Holders /\ t \in Holders /\ w \in Assets
    BY <1>1
  <2> HIDE DEF t
  <2>2. /\ Move(routed, d, t, w, fee) \in Ledgers
        /\ \A h \in Holders, x \in Assets :
             Move(routed, d, t, w, fee)[h][x] =
               IF x # w \/ (h = d /\ h = t) THEN routed[h][x]
               ELSE IF h = d THEN routed[h][x] - fee
               ELSE IF h = t THEN routed[h][x] + fee ELSE routed[h][x]
    BY <1>5, <1>6, <1>8, <2>1, MoveEffect
  <2>3. QED
    BY <2>2 DEF t
<1> HIDE DEF paid
<1>10. \A q \in Pdas, x \in Mints :
         paid[q][x] = IF q = p /\ x = m THEN bal[q][x] - used
                      ELSE IF q = d /\ x = w THEN bal[q][x] + got - fee ELSE bal[q][x]
  <2>1. \A q \in Pdas, x \in Mints :
          q \in Holders /\ x \in Assets /\ q # config.treasury /\ bal[q][x] \in Nat
    BY <1>1, <1>2, Places
  <2>2. QED
    BY <1>1, <1>3, <1>4, <1>5, <1>7, <1>9, <2>1
<1>11. \A q \in Pdas, x \in Mints : bal'[q][x] = paid[q][x]
  <2> DEFINE e == autos[p].action.linked_downstream
             l == autos[p].action.link_fee_deposit
  <2>1. CASE e = NoLink
    BY <1>4, <2>1 DEF LinkDeposit
  <2>2. CASE e # NoLink
    <3>1. e \in Holders /\ l \in Nat /\ e \in Pdas
      BY <2>2, OpenRule, Places
    <3>2. bal' = Move(paid, p, e, Sol, l)
      BY <1>4, <2>2 DEF LinkDeposit
    <3>3. \A q \in Pdas, x \in Mints : q \in Holders /\ x \in Assets /\ x # Sol
      BY Places, PartiesAssumption
    <3> HIDE DEF e, l
    <3>4. QED
      BY <1>1, <1>9, <3>1, <3>2, <3>3 DEF Move, Ledgers
  <2>3. QED
    BY <2>1, <2>2
<1>12. \A q \in Pdas, x \in Mints : bal'[q][x] <= bal[q][x] \/ ata'[q][x] > 0
  <2>1. d \in Pdas => ata'[d][w] > 0
    BY <1>4 DEF CanReceive
  <2>2. QED
    BY <1>2, <1>3, <1>10, <1>11, <2>1
<1>13. ASSUME NEW q \in Pdas, q # p, NEW x \in Mints PROVE bal'[q][x] >= bal[q][x]
  BY <1>2, <1>3, <1>5, <1>10, <1>11, <1>13
<1>14. bal'[p][m] + n >= bal[p][m]
  <2>1. bal[p][m] \in Nat /\ bal'[p][m] = bal[p][m] - used
    BY <1>1, <1>2, <1>10, <1>11
  <2>2. QED
    BY <1>1, <1>3, <1>4, <2>1
<1>15. autos'[p] = advance(autos[p], now)
  BY <1>4 DEF AccountsOK
<1>16. \A q \in Pdas : Open(q) => autos[q].action.mint \in Mints
  BY OpenRule
<1>17. QED
  BY <1>4, <1>12, <1>13, <1>14, <1>15, <1>16 DEF TokenStep, m, n, Open

\* A close empties the token accounts it closes and moves no token of another rule.
LEMMA CloseTokens ==
    ASSUME AccountsOK, NEW p \in Pdas, NEW ms \in SUBSET Mints, NEW payee \in Wallets,
           NEW how \in {"closed", "swept"}, Close(p, ms, payee, how)
    PROVE  /\ TokenStep
           /\ bal'[p][Sol] = 0
           /\ \A m \in Mints : ata'[p][m] = IF m \in ms THEN 0 ELSE ata[p][m]
           /\ \A q \in Pdas \ {p} : ata'[q] = ata[q] /\ bal'[q][Sol] = bal[q][Sol]
<1> DEFINE b == DrainAtas(p, ms, payee)
           refund == IF b[p][Sol] > Rent THEN b[p][Sol] - Rent ELSE 0
           rest == b[p][Sol] - refund
           b1 == Move(b, p, p[1], Sol, refund)
           t == config.treasury
<1>1. /\ p \in Holders /\ p[1] \in Holders /\ t \in Holders /\ p[1] \notin Pdas /\ t \notin Pdas
      /\ payee \in Holders /\ payee \notin Pdas /\ Sol \in Assets /\ Sol \notin Mints
      /\ config \in Configs
  BY Places, PartiesAssumption DEF AccountsOK, Configs
<1>2. /\ bal' = Move(b1, p, t, Sol, rest)
      /\ ata' = [ata EXCEPT ![p] = [m \in Mints |-> IF m \in ms THEN 0 ELSE @[m]]]
      /\ status' = [status EXCEPT ![p] = how] /\ UNCHANGED <<config, now, autos>> /\ Open(p)
  BY DEF Close, SplitLamports
<1>3. b \in Ledgers
  BY <1>1, DrainEffect
<1>4. \A q \in Pdas, x \in Mints :
        b[q][x] = IF x \in ms /\ q = p THEN 0 ELSE bal[q][x]
  BY <1>1, Places, PartiesAssumption DEF DrainAtas
<1>5. b[p][Sol] \in Nat
  BY <1>1, <1>3, LedgerNat
<1>6. refund \in Nat /\ refund <= b[p][Sol] /\ rest \in Nat /\ rest = b[p][Sol] - refund
  BY <1>5, AmountsAssumption
<1> HIDE DEF b, refund, rest, t
<1>7. /\ b1 \in Ledgers
      /\ \A h \in Holders, x \in Assets :
           b1[h][x] = IF x # Sol \/ (h = p /\ h = p[1]) THEN b[h][x]
                      ELSE IF h = p THEN b[h][x] - refund
                      ELSE IF h = p[1] THEN b[h][x] + refund ELSE b[h][x]
  BY <1>1, <1>3, <1>6, MoveEffect
<1>8. b1[p][Sol] = rest
  BY <1>1, <1>5, <1>6, <1>7
<1> HIDE DEF b1
<1>9. \A h \in Holders, x \in Assets :
           bal'[h][x] = IF x # Sol \/ (h = p /\ h = t) THEN b1[h][x]
                        ELSE IF h = p THEN b1[h][x] - rest
                        ELSE IF h = t THEN b1[h][x] + rest ELSE b1[h][x]
  BY <1>1, <1>2, <1>6, <1>7, <1>8, MoveEffect
<1>10. \A q \in Pdas, x \in Mints : bal'[q][x] = b[q][x]
  BY <1>1, <1>7, <1>9, Places
<1>11. bal'[p][Sol] = 0
  BY <1>1, <1>5, <1>6, <1>8, <1>9
<1>12. /\ \A m \in Mints : ata'[p][m] = IF m \in ms THEN 0 ELSE ata[p][m]
       /\ \A q \in Pdas \ {p} : ata'[q] = ata[q]
  BY <1>2 DEF AccountsOK
<1>13. \A q \in Pdas, x \in Mints : bal[q][x] \in Nat
  BY Places DEF AccountsOK
<1>14. \A q \in Pdas : Open(q)' => q # p /\ Open(q)
  BY <1>2 DEF AccountsOK, Open
<1>15. \A q \in Pdas : Open(q) => autos[q].action.mint \in Mints
  BY OpenRule
<1>16. TokenStep
  <2>1. \A q \in Pdas, x \in Mints : bal'[q][x] <= bal[q][x]
    BY <1>4, <1>10, <1>13
  <2>2. \A q \in Pdas, x \in Mints : ata'[q][x] = 0 => ata[q][x] = 0 \/ bal'[q][x] = 0
    BY <1>4, <1>10, <1>12
  <2>3. \A q \in Pdas : Open(q)' => bal'[q][autos[q].action.mint] >= bal[q][autos[q].action.mint]
    BY <1>4, <1>10, <1>13, <1>14, <1>15
  <2>4. QED
    BY <2>1, <2>2, <2>3 DEF TokenStep
<1>17. \A q \in Pdas \ {p} : bal'[q][Sol] = bal[q][Sol]
  <2>1. \A q \in Pdas : b[q][Sol] = bal[q][Sol]
    BY <1>1, DrainEffect DEF b
  <2>2. QED
    BY <1>1, <1>7, <1>9, <2>1, Places
<1>18. QED
  BY <1>11, <1>12, <1>16, <1>17

\* Every step but a create.
LEMMA TokenSteps ==
    ASSUME Core, [Next]_vars, ~Creates
    PROVE  TokenStep
<1> USE DEF Core
<1>1. \A q \in Pdas, x \in Mints : bal[q][x] \in Nat /\ q \in Holders /\ x \in Assets /\ x # Sol
  BY Places, PartiesAssumption DEF AccountsOK
<1>2. CASE UNCHANGED <<status, bal, ata>>
  BY <1>2, NoTokens DEF Open
<1>3. ASSUME NEW o \in Owners, NEW r \in Requests, setup_atas(o, r) PROVE TokenStep
  <2>1. /\ bal' = [bal EXCEPT ![o][Sol] = @ - AtaRent * Cardinality(MissingAtas(o, r))]
        /\ ata' = [p \in Pdas |-> [m \in Mints |->
                     IF <<p, m>> \in MissingAtas(o, r) THEN AtaRent ELSE ata[p][m]]]
        /\ status' = status
    BY <1>3 DEF setup_atas
  <2>2. \A q \in Pdas, x \in Mints : bal'[q][x] = bal[q][x]
    BY <2>1, Places DEF AccountsOK
  <2>3. \A q \in Pdas, x \in Mints : ata'[q][x] = ata[q][x] \/ ata'[q][x] > 0
    <3>1. AtaRent > 0
      BY AmountsAssumption
    <3>2. ASSUME NEW q \in Pdas, NEW x \in Mints
          PROVE  ata'[q][x] = IF <<q, x>> \in MissingAtas(o, r) THEN AtaRent ELSE ata[q][x]
      BY <2>1
    <3>3. QED
      BY <3>1, <3>2
  <2>4. QED
    BY <2>1, <2>2, <2>3, NoTokens DEF Open
<1>4. ASSUME NEW from \in Holders, NEW to \in Holders, NEW n \in Nat, bal[from][Sol] >= n,
             bal' = Move(bal, from, to, Sol, n), ata' = ata,
             \A q \in Pdas : Open(q)' => Open(q)
      PROVE  TokenStep
  <2>1. \A q \in Pdas, x \in Mints : bal'[q][x] = bal[q][x]
    <3>1. bal \in Ledgers /\ Sol \in Assets
      BY Places DEF AccountsOK, Ledgers
    <3>2. \A h \in Holders, x \in Assets :
            x # Sol => Move(bal, from, to, Sol, n)[h][x] = bal[h][x]
      BY <1>4, <3>1, MoveEffect
    <3>3. QED
      BY <1>1, <1>4, <3>2
  <2>2. QED
    BY <1>4, <2>1, NoTokens
<1>5. ASSUME NEW p \in Pdas, handle_until_expiry(p) PROVE TokenStep
  BY <1>2, <1>5 DEF handle_until_expiry, ledger
<1>6. ASSUME NEW p \in Pdas, Open(p), transfer_sol(p) PROVE TokenStep
  <2> DEFINE n == autos[p].action.amount
             d == autos[p].action.destination
  <2>1. n \in Nat /\ d \in Holders /\ p \in Holders /\ bal[p][Sol] \in Nat
    BY <1>6, OpenRule, Places DEF AccountsOK
  <2>2. /\ RentExemptOrGone(bal[p][Sol] - n) /\ bal' = Move(bal, p, d, Sol, n) /\ ata' = ata
        /\ status' = [status EXCEPT ![p] = IF bal[p][Sol] - n = 0 THEN "reaped" ELSE @]
    BY <1>6 DEF transfer_sol
  <2> HIDE DEF n, d
  <2>3. bal[p][Sol] >= n
    BY <2>1, <2>2, AmountsAssumption DEF RentExemptOrGone
  <2>4. \A q \in Pdas : Open(q)' => Open(q)
    BY <2>2 DEF Open, AccountsOK
  <2>5. QED
    BY <1>4, <2>1, <2>2, <2>3, <2>4
<1>7. ASSUME NEW k \in Wallets, NEW p \in Pdas, KeeperStep(k, p) PROVE TokenStep
  <2>1. Open(p)
    BY <1>7 DEF KeeperStep
  <2>2. CASE execute_automation(k, p)
    BY <1>5, <1>6, <2>1, <2>2 DEF execute_automation
  <2>3. CASE execute_automation_spl(k, p)
    BY <1>5, <2>1, <2>3, TransferTokens DEF execute_automation_spl
  <2>4. CASE FireSwap(k, p)
    BY <1>5, <2>1, <2>4, SwapTokens DEF FireSwap, execute_swap
  <2>5. CASE Convert(k, p)
    BY <2>1, <2>5, ConvertTokens
  <2>6. ASSUME NEW fee \in 1..MaxLinkFee, execute_link_fee_debit(k, p, fee) PROVE TokenStep
    <3>1. fee \in Nat /\ p \in Holders /\ config.keeper \in Holders /\ bal[p][Sol] \in Nat
      BY Places, AmountsAssumption DEF AccountsOK, Configs
    <3>2. /\ bal[p][Sol] - fee >= Rent /\ bal' = Move(bal, p, config.keeper, Sol, fee)
          /\ ata' = ata /\ status' = status
      BY <2>6 DEF execute_link_fee_debit
    <3>3. bal[p][Sol] >= fee
      BY <3>1, <3>2, AmountsAssumption
    <3>4. QED
      BY <1>4, <3>1, <3>2, <3>3 DEF Open
  <2>7. QED
    BY <1>7, <2>2, <2>3, <2>4, <2>5, <2>6 DEF KeeperStep
<1>8. ASSUME NEW o \in Owners, NEW p \in Pdas, OwnerStep(o, p) PROVE TokenStep
  <2>1. o \in Wallets /\ (Open(p) => autos[p].action.mint \in Mints)
    BY Places, OpenRule
  <2>2. CASE close_automation(o, p)
    BY <2>1, <2>2, CloseTokens DEF close_automation
  <2>3. CASE close_automation_spl(o, p)
    BY <2>1, <2>3, CloseTokens DEF close_automation_spl
  <2>4. ASSUME NEW l \in listed[p], close_automation_swap(o, p, l) PROVE TokenStep
    <3>1. {autos[p].action.mint} \cup l.dust \in SUBSET Mints
      BY <2>1, <2>4 DEF close_automation_swap, DustMints
    <3>2. QED
      BY <2>1, <2>4, <3>1, CloseTokens DEF close_automation_swap
  <2>5. ASSUME NEW x \in TopUps, top_up(o, p, x) PROVE TokenStep
    <3>1. x \in Nat /\ o \in Holders /\ p \in Holders
      BY Places, AmountsAssumption
    <3>2. bal[o][Sol] >= x /\ bal' = Move(bal, o, p, Sol, x) /\ ata' = ata /\ status' = status
      BY <2>5 DEF top_up
    <3>3. QED
      BY <1>4, <3>1, <3>2 DEF Open
  <2>6. CASE collect_pda_dust_atas(o, p)
    BY <1>2, <2>6 DEF collect_pda_dust_atas, ledger
  <2>7. QED
    BY <1>8, <2>2, <2>3, <2>4, <2>5, <2>6 DEF OwnerStep
<1>9. ASSUME NEW s \in Wallets, NEW p \in Pdas, AdminClose(s, p) PROVE TokenStep
  <2>1. config.treasury \in Wallets /\ autos[p].action.mint \in Mints
    BY <1>9, OpenRule DEF AccountsOK, Configs, AdminClose
  <2>2. ASSUME NEW dust \in SUBSET DustMints(p)
        PROVE  {autos[p].action.mint} \cup dust \in SUBSET Mints
    BY <2>1 DEF DustMints
  <2>3. QED
    BY <1>9, <2>1, <2>2, CloseTokens
       DEF AdminClose, admin_close_automation, admin_close_automation_spl,
           admin_close_automation_swap
<1>10. CASE Tick \/ Govern
  BY <1>2, <1>10 DEF Tick, Govern, ledger
<1>11. CASE UNCHANGED vars
  BY <1>2, <1>11 DEF vars
<1>12. QED
  BY <1>3, <1>7, <1>8, <1>9, <1>10, <1>11 DEF Next, Creates

\* What the payee of a transfer has after it, whether or not the payer had enough.
LEMMA MoveCredits ==
    ASSUME NEW b \in [Holders -> [Assets -> Int]], NEW from \in Holders, NEW to \in Holders,
           from # to, NEW a \in Assets, NEW n \in Nat
    PROVE  /\ Move(b, from, to, a, n) \in [Holders -> [Assets -> Int]]
           /\ \A x \in Assets :
                Move(b, from, to, a, n)[to][x] = IF x = a THEN b[to][x] + n ELSE b[to][x]
           /\ \A h \in Holders \ {from, to} : Move(b, from, to, a, n)[h] = b[h]
           /\ \A h \in Holders, x \in Assets \ {a} : Move(b, from, to, a, n)[h][x] = b[h][x]
<1> DEFINE debited == [b EXCEPT ![from][a] = @ - n]
<1>1. /\ debited \in [Holders -> [Assets -> Int]]
      /\ \A h \in Holders \ {from} : debited[h] = b[h]
      /\ \A h \in Holders, x \in Assets \ {a} : debited[h][x] = b[h][x]
  OBVIOUS
<1>2. Move(b, from, to, a, n) = [debited EXCEPT ![to][a] = @ + n]
  BY DEF Move
<1> HIDE DEF debited
<1>3. QED
  BY <1>1, <1>2

\* A create adds one rule, with the tokens of its deposit in a token account it has,
\* and leaves the tokens of every other rule alone.
LEMMA CreateTokens ==
    ASSUME AccountsOK, NEW o \in Owners, NEW r \in Requests, CreateRule(o, r)
    PROVE  LET p == <<o, config.automation_count>>
           IN  /\ p \in Pdas /\ ata' = ata
               /\ \A q \in Pdas \ {p} : /\ bal'[q] = bal[q]
                                        /\ status'[q] = status[q] /\ autos'[q] = autos[q]
               /\ status'[p] = "open" /\ autos'[p].action = r.action
               /\ \A x \in Mints : bal'[p][x] <= bal[p][x] \/ ata[p][x] > 0
               /\ autos'[p].prefunded =>
                    /\ autos'[p].executions = 0 /\ autos'[p].cadence = r.cadence
                    /\ bal'[p][r.action.mint] >= r.action.amount * TotalFires(r.cadence)
<1> DEFINE p == <<o, config.automation_count>>
           total == r.action.amount * TotalFires(r.cadence)
<1>1. r.action.mint \in Assets /\ r.action.mint \in Mints /\ r.action.amount \in Nat
      /\ r.seed_amount \in Nat /\ total \in Nat /\ Sol \in Assets /\ Sol \notin Mints
  BY RequestTypes, Places, PartiesAssumption
<1>2. PICK asset \in Assets, deposit \in Nat :
        /\ Create(o, r, asset, deposit)
        /\ asset = Sol \/ (asset \in Mints /\ ata[p][asset] > 0)
        /\ r.ix = "swap" => asset = r.action.mint /\ deposit = total
  <2>1. CASE create_automation(o, r)
    BY <1>1, <2>1 DEF create_automation
  <2>2. CASE create_automation_spl(o, r)
    BY <1>1, <2>2 DEF create_automation_spl, InputAtaReady
  <2>3. CASE create_automation_swap(o, r)
    BY <1>1, <2>3 DEF create_automation_swap, InputAtaReady
  <2>4. CASE create_automation_swap_linked(o, r)
    BY <1>1, <2>4 DEF create_automation_swap_linked, InputAtaReady
  <2>5. QED
    BY <2>1, <2>2, <2>3, <2>4 DEF CreateRule
<1>3. p \in Pdas /\ \A q \in Pdas \ {p} : bal'[q] = bal[q]
  BY <1>2, CreatePays
<1>4. /\ ata' = ata /\ status' = [status EXCEPT ![p] = "open"]
      /\ \A q \in Pdas \ {p} : status'[q] = status[q] /\ autos'[q] = autos[q]
      /\ status'[p] = "open" /\ autos'[p].action = r.action
      /\ autos'[p].prefunded = (r.ix = "swap")
      /\ autos'[p].executions = 0 /\ autos'[p].cadence = r.cadence
  BY <1>2, <1>3 DEF Create, AccountsOK
<1>5. /\ \A x \in Mints : x # asset => bal'[p][x] = bal[p][x]
      /\ bal'[p][asset] >= deposit
  <2> DEFINE fee  == compute_time_fee(r.cadence, now, config.time_fee_lamports_per_day)
             rent == IF bal[p][Sol] >= Rent THEN 0 ELSE Rent - bal[p][Sol]
             b1   == Move(bal, o, p, Sol, rent)
             b2   == Move(b1, o, p, asset, deposit)
             k    == config.keeper
  <2>1. bal' = Move(b2, o, k, Sol, fee)
    BY <1>2 DEF Create
  <2>2. /\ bal \in Ledgers /\ o \in Holders /\ p \in Holders /\ o # p /\ k \in Holders /\ k # p
        /\ Sol \in Assets
    BY <1>3, Places DEF AccountsOK, Ledgers, Configs
  <2>3. \A x \in Assets : bal[p][x] \in Nat
    BY <2>2, LedgerNat
  <2>4. rent \in Nat
    BY <2>2, <2>3, AmountsAssumption
  <2>5. fee \in Nat
    BY TimeFeeBounds, RequestTypes, FeeAssumption DEF AccountsOK, Configs
  <2>6. asset \in Assets /\ deposit \in Nat
    BY <1>2
  <2>7. bal \in [Holders -> [Assets -> Int]]
    BY <2>2 DEF Ledgers
  <2> HIDE DEF rent, fee, p, k
  <2>8. /\ b1 \in [Holders -> [Assets -> Int]]
        /\ \A x \in Assets : b1[p][x] = IF x = Sol THEN bal[p][x] + rent ELSE bal[p][x]
    BY <2>2, <2>4, <2>7, MoveCredits
  <2> HIDE DEF b1
  <2>9. /\ b2 \in [Holders -> [Assets -> Int]]
        /\ \A x \in Assets : b2[p][x] = IF x = asset THEN b1[p][x] + deposit ELSE b1[p][x]
    BY <2>2, <2>6, <2>8, MoveCredits
  <2> HIDE DEF b2
  <2>10. \A x \in Assets : bal'[p][x] = b2[p][x]
    <3>1. CASE o = k
      BY <2>1, <2>2, <2>5, <2>9, <3>1 DEF Move
    <3>2. CASE o # k
      BY <2>1, <2>2, <2>5, <2>9, <3>2, MoveCredits
    <3>3. QED
      BY <3>1, <3>2
  <2>11. \A x \in Mints : x # asset => bal'[p][x] = bal[p][x]
    <3>1. \A x \in Mints : x \in Assets /\ x # Sol
      BY <1>1, Places
    <3>2. QED
      BY <2>8, <2>9, <2>10, <3>1
  <2>12. bal'[p][asset] >= deposit
    <3>1. bal'[p][asset] = b1[p][asset] + deposit
      BY <2>6, <2>9, <2>10
    <3>2. b1[p][asset] \in Nat
      BY <2>3, <2>4, <2>6, <2>8
    <3>3. QED
      BY <2>6, <3>1, <3>2
  <2>13. QED
    BY <2>11, <2>12 DEF p
<1>6. \A x \in Mints : bal'[p][x] <= bal[p][x] \/ ata[p][x] > 0
  <2>1. \A x \in Mints : bal[p][x] \in Nat
    BY <1>3, Places DEF AccountsOK
  <2>2. QED
    BY <1>1, <1>2, <1>5, <2>1
<1>7. QED
  BY <1>2, <1>3, <1>4, <1>5, <1>6

-----------------------------------------------------------------------------
(* A funded swap stays funded                                               *)

\* n tokens cover the fires the rule has left.
Covers(n, a) == n >= a.action.amount * (TotalFires(a.cadence) - a.executions)

\* The numbers that a rule's cover is made of.
LEMMA CoverTypes ==
    ASSUME NEW a \in Autos
    PROVE  /\ a.action.amount \in Nat /\ TotalFires(a.cadence) \in 0..U32Max
           /\ a.executions \in 0..U32Max
<1>1. a.cadence \in Cadences /\ a.action \in Actions
  BY DEF Autos
<1>2. a.cadence.total \in 0..U32Max /\ 1 \in 0..U32Max
  BY <1>1, WidthAssumption DEF Cadences
<1>3. QED
  BY <1>1, <1>2, AutoTypes DEF Actions, TotalFires

\* One fire needs one share less.
LEMMA ShareLess ==
    ASSUME NEW share \in Nat, NEW left \in Int
    PROVE  share * (left - 1) = share * left - share
OBVIOUS

\* More tokens cover as well, and the expiry mark changes nothing.
LEMMA CoverKept ==
    ASSUME NEW a \in Autos, NEW n \in Nat, NEW k \in Nat, k >= n, Covers(n, a)
    PROVE  Covers(k, a) /\ Covers(k, [a EXCEPT !.finished = TRUE])
<1> DEFINE need == a.action.amount * (TotalFires(a.cadence) - a.executions)
<1>1. need \in Int
  BY CoverTypes, WidthAssumption
<1>2. Covers(k, a)
  <2> HIDE DEF need
  <2>1. n >= need
    BY DEF Covers, need
  <2>2. k >= need
    BY <1>1, <2>1
  <2>3. QED
    BY <2>2 DEF Covers, need
<1>3. Covers(k, [a EXCEPT !.finished = TRUE]) <=> Covers(k, a)
  BY DEF Covers, Autos
<1>4. QED
  BY <1>2, <1>3

\* After a fire the rest covers the rest, also where the counter is saturated:
\* then nothing is owed.
LEMMA CoverFired ==
    ASSUME NEW a \in Autos, NEW n \in Nat, NEW k \in Nat, NEW t \in Nat,
           k + a.action.amount >= n, Covers(n, a)
    PROVE  Covers(k, advance(a, t))
<1> DEFINE share == a.action.amount
           left == TotalFires(a.cadence) - a.executions
           b == advance(a, t)
<1>1. /\ share \in Nat /\ left \in Int /\ a.executions \in 0..U32Max /\ U32Max \in Nat
      /\ TotalFires(a.cadence) \in 0..U32Max
  BY CoverTypes, WidthAssumption
<1>2. /\ b.action = a.action /\ b.cadence = a.cadence
      /\ b.executions = Smaller(a.executions + 1, U32Max)
  BY DEF advance, Autos
<1>3. n >= share * left
  BY DEF Covers
<1>4. CASE a.executions < U32Max
  <2>1. TotalFires(b.cadence) - b.executions = left - 1
    BY <1>1, <1>2, <1>4 DEF Smaller
  <2>2. share * (left - 1) = share * left - share /\ share * left \in Int
    BY <1>1, ShareLess
  <2> HIDE DEF b
  <2>3. Covers(k, b) <=> k >= share * (left - 1)
    BY <1>2, <2>1 DEF Covers
  <2> HIDE DEF share, left
  <2>4. k >= share * (left - 1)
    <3> DEFINE owed == share * left
    <3>1. n >= owed /\ owed \in Int /\ share * (left - 1) = owed - share
      BY <1>3, <2>2
    <3> HIDE DEF owed
    <3>2. k + share >= n
      BY DEF share
    <3>3. QED
      BY <1>1, <3>1, <3>2
  <2>5. QED
    BY <2>3, <2>4 DEF b
<1>5. CASE a.executions = U32Max
  <2>1. b.executions = U32Max
    BY <1>1, <1>2, <1>5 DEF Smaller
  <2>2. TotalFires(a.cadence) - U32Max \in Int /\ TotalFires(a.cadence) - U32Max <= 0
    BY <1>1
  <2>3. share * (TotalFires(a.cadence) - U32Max) <= 0
    BY <1>1, <2>2
  <2>4. share * (TotalFires(a.cadence) - U32Max) \in Int
    BY <1>1, <2>2
  <2> HIDE DEF b
  <2>5. k >= share * (TotalFires(a.cadence) - U32Max)
    <3> DEFINE owed == share * (TotalFires(a.cadence) - U32Max)
    <3>1. owed <= 0 /\ owed \in Int
      BY <2>3, <2>4
    <3> HIDE DEF owed
    <3>2. k >= owed
      BY <3>1
    <3>3. QED
      BY <3>2 DEF owed
  <2>6. Covers(k, b)
    BY <1>2, <2>1, <2>5 DEF Covers
  <2>7. QED
    BY <2>6 DEF b
<1>6. QED
  BY <1>1, <1>4, <1>5

\* SwapFunded in terms of Covers.
LEMMA FundedIsCovered ==
    SwapFunded <=> \A p \in Pdas :
        Open(p) /\ autos[p].prefunded /\ ~autos[p].fee_topup_enabled =>
            Covers(bal[p][autos[p].action.mint], autos[p])
BY DEF SwapFunded, Covers

\* SwapFunded is inductive.
LEMMA StepFunded == Core /\ SwapFunded /\ [Next]_vars => SwapFunded'
<1> SUFFICES ASSUME Core, SwapFunded, [Next]_vars PROVE SwapFunded'
  OBVIOUS
<1>1. AccountsOK /\ AccountsOK' /\ now \in Nat
  BY StepCore DEF Core, AccountsOK
<1> SUFFICES ASSUME NEW q \in Pdas, Open(q)', autos'[q].prefunded,
                    ~autos'[q].fee_topup_enabled
             PROVE  Covers(bal'[q][autos'[q].action.mint], autos'[q])
  BY DEF SwapFunded, Covers
<1>2. ASSUME Open(q) PROVE
        /\ autos[q] \in Autos /\ autos[q].action.mint \in Mints /\ q \in Holders
        /\ bal[q][autos[q].action.mint] \in Nat /\ bal'[q][autos[q].action.mint] \in Nat
        /\ autos[q].prefunded /\ ~autos[q].fee_topup_enabled =>
              Covers(bal[q][autos[q].action.mint], autos[q])
  BY <1>1, <1>2, OpenRule, Places DEF AccountsOK, SwapFunded, Covers
<1>3. CASE ~Creates
  <2>1. SameRules
    BY <1>1, <1>3, OtherKinds, RulesStay
  <2>2. Open(q) /\ autos'[q] \in {autos[q], [autos[q] EXCEPT !.finished = TRUE],
                                 advance(autos[q], now)}
    BY <2>1 DEF SameRules
  <2> DEFINE a == autos[q]
             m == a.action.mint
             n == bal[q][m]
             k == bal'[q][m]
  <2>3. /\ autos'[q].action = a.action /\ autos'[q].prefunded = a.prefunded
        /\ autos'[q].fee_topup_enabled = a.fee_topup_enabled
    BY <1>2, <2>2 DEF Autos, advance
  <2>4. a \in Autos /\ n \in Nat /\ k \in Nat /\ Covers(n, a)
    BY <1>2, <2>2, <2>3
  <2>5. \/ k >= n
        \/ autos'[q] = advance(a, now) /\ k + a.action.amount >= n
        \/ autos'[q] = a /\ a.fee_topup_enabled
    BY <1>3, TokenSteps DEF TokenStep
  <2> HIDE DEF k, n
  <2>6. Covers(k, autos'[q])
    <3>1. CASE k >= n
      <4>1. k + a.action.amount >= n
        BY <2>4, <3>1, CoverTypes
      <4>2. QED
        <5>1. Covers(k, a) /\ Covers(k, [a EXCEPT !.finished = TRUE])
          BY <2>4, <3>1, CoverKept
        <5>2. Covers(k, advance(a, now))
          BY <1>1, <2>4, <4>1, CoverFired
        <5>3. QED
          BY <2>2, <5>1, <5>2
    <3>2. CASE autos'[q] = advance(a, now) /\ k + a.action.amount >= n
      BY <1>1, <2>4, <3>2, CoverFired
    <3>3. CASE autos'[q] = a /\ a.fee_topup_enabled
      BY <2>3, <3>3
    <3>4. QED
      BY <2>5, <3>1, <3>2, <3>3
  <2>7. QED
    BY <2>3, <2>6 DEF k
<1>4. CASE Creates
  <2>1. PICK o \in Owners, r \in Requests : CreateRule(o, r)
    BY <1>4 DEF Creates
  <2> DEFINE p == <<o, config.automation_count>>
  <2>2. CASE q = p
    <3>1. /\ autos'[q].action = r.action /\ autos'[q].executions = 0
          /\ autos'[q].cadence = r.cadence
          /\ bal'[q][r.action.mint] >= r.action.amount * TotalFires(r.cadence)
      BY <1>1, <2>1, <2>2, CreateTokens
    <3>2. TotalFires(r.cadence) - 0 = TotalFires(r.cadence)
      BY RequestTypes
    <3>3. QED
      BY <3>1, <3>2 DEF Covers
  <2>3. CASE q # p
    BY <1>1, <1>2, <2>1, <2>3, CreateTokens DEF Open
  <2>4. QED
    BY <2>2, <2>3
<1>5. QED
  BY <1>3, <1>4

\* Whatever the keeper's routes take and however they are ordered with the other
\* instructions, a swap rule made with its whole deposit can pay for every fire it
\* has left (create_automation_swap.rs and the input cap of execute_swap.rs).
THEOREM SwapStaysFunded == Spec => []SwapFunded
<1>1. Init => SwapFunded
  BY DEF Init, SwapFunded, Open
<1>2. QED
  BY <1>1, InitCore, StepCore, StepFunded, PTL DEF Spec

-----------------------------------------------------------------------------
(* Nothing is left behind by an owner's close                               *)

IntLedgers == [Holders -> [Assets -> Int]]

\* A rule holds tokens only in token accounts that exist.
TokensHoused == \A p \in Pdas, m \in Mints : ata[p][m] = 0 => bal[p][m] = 0

\* Every rule does what some client asked for.
Asked == \A p \in Pdas : status[p] # "absent" => \E r \in Requests : autos[p].action = r.action

\* Every token account of an open rule is its input account, or was listed, or was
\* opened since: that is what an attempt to close it can still miss.
Listed(p) ==
    \A l \in listed[p], m \in Mints :
        \/ ata[p][m] = 0
        \/ m = autos[p].action.mint
        \/ m \in l.dust
        \/ m \in l.late

\* A token rule closed by its owner has no account of its token left, a swap rule no
\* token account but those opened since the listing it was closed with, and no
\* lamports unless there is one.
Emptied(p) ==
    LET act == autos[p].action
    IN  /\ act.kind = "TransferSpl" => ata[p][act.mint] = 0
        /\ act.kind = "Swap" => \E l \in listed[p] :
              /\ \A m \in Mints \ l.late : ata[p][m] = 0
              /\ (\A m \in l.late : ata[p][m] = 0) => bal[p][Sol] = 0

EmptyInv ==
    /\ ListingsOK
    /\ TokensHoused
    /\ Asked
    /\ \A p \in Pdas : status[p] = "absent" => listed[p] = {}
    /\ \A p \in Pdas : Open(p) => Listed(p)
    /\ \A p \in Pdas : status[p] = "closed" => Emptied(p)

\* A transfer of tokens moves no lamports.
LEMMA MoveKeepsSol ==
    ASSUME NEW b \in IntLedgers, NEW from \in Holders, NEW to \in Holders,
           NEW m \in Mints, NEW n \in Nat
    PROVE  /\ Move(b, from, to, m, n) \in IntLedgers
           /\ \A h \in Holders : Move(b, from, to, m, n)[h][Sol] = b[h][Sol]
<1>1. m \in Assets /\ Sol \in Assets /\ m # Sol
  BY Places, PartiesAssumption
<1>2. CASE from # to
  BY <1>1, <1>2, MoveCredits DEF IntLedgers
<1>3. CASE from = to
  <2> DEFINE debited == [b EXCEPT ![from][m] = @ - n]
  <2>1. debited \in IntLedgers /\ \A h \in Holders : debited[h][Sol] = b[h][Sol]
    BY <1>1 DEF IntLedgers
  <2>2. Move(b, from, to, m, n) = [debited EXCEPT ![to][m] = @ + n]
    BY DEF Move
  <2> HIDE DEF debited
  <2>3. QED
    BY <1>1, <2>1, <2>2 DEF IntLedgers
<1>4. QED
  BY <1>2, <1>3

\* Lamports sent from one holder to another leave everyone else's alone.
LEMMA SolSpares ==
    ASSUME AccountsOK, NEW q \in Pdas, NEW from \in Holders \ {q}, NEW to \in Holders \ {q},
           NEW n \in Nat, bal[from][Sol] >= n, bal' = Move(bal, from, to, Sol, n)
    PROVE  bal'[q][Sol] = bal[q][Sol]
<1>1. bal \in Ledgers /\ q \in Holders /\ Sol \in Assets
  BY Places DEF AccountsOK, Ledgers
<1>2. \A h \in Holders, x \in Assets :
        Move(bal, from, to, Sol, n)[h][x] =
          IF x # Sol \/ (h = from /\ h = to) THEN bal[h][x]
          ELSE IF h = from THEN bal[h][x] - n
          ELSE IF h = to THEN bal[h][x] + n ELSE bal[h][x]
  BY <1>1, MoveEffect
<1>3. QED
  BY <1>1, <1>2

\* No instruction gives a token account or lamports to a rule that its owner closed
\* and that has no token account: a chain's upstream rule stops at the missing
\* account before it funds the address (execute_swap.rs).
LEMMA DeadKept ==
    ASSUME Core, NonceUsedOnce, Asked, ClientRequests, [Next]_vars,
           NEW q \in Pdas, status[q] = "closed"
    PROVE  /\ \A x \in Mints : ata'[q][x] = ata[q][x]
           /\ (\A x \in Mints : ata[q][x] = 0) => bal'[q][Sol] = bal[q][Sol]
<1> DEFINE Goal == /\ \A x \in Mints : ata'[q][x] = ata[q][x]
                   /\ (\A x \in Mints : ata[q][x] = 0) => bal'[q][Sol] = bal[q][Sol]
<1>1. AccountsOK /\ q \in Holders /\ Sol \in Assets /\ bal \in IntLedgers /\ bal \in Ledgers
  BY Places DEF Core, AccountsOK, IntLedgers, Ledgers
<1>2. \A p \in Pdas : Open(p) => p # q
  BY DEF Open
<1>3. CASE Tick \/ Govern \/ UNCHANGED vars
  BY <1>3 DEF Tick, Govern, vars, ledger
<1>4. ASSUME NEW o \in Owners, NEW r \in Requests, setup_atas(o, r) PROVE Goal
  <2>1. /\ bal' = [bal EXCEPT ![o][Sol] = @ - AtaRent * Cardinality(MissingAtas(o, r))]
        /\ ata' = [p \in Pdas |-> [m \in Mints |->
                     IF <<p, m>> \in MissingAtas(o, r) THEN AtaRent ELSE ata[p][m]]]
        /\ \A z \in MissingAtas(o, r) : status[z[1]] \in {"absent", "open"}
    BY <1>4 DEF setup_atas
  <2>2. \A x \in Mints : <<q, x>> \notin MissingAtas(o, r)
    BY <2>1
  <2>3. o # q /\ bal'[q] = bal[q]
    BY <1>1, <2>1, Places
  <2>4. \A x \in Mints : ata'[q][x] = ata[q][x]
    BY <2>1, <2>2
  <2>5. QED
    BY <2>3, <2>4
<1>5. ASSUME NEW o \in Owners, NEW r \in Requests, CreateRule(o, r) PROVE Goal
  <2>1. q # <<o, config.automation_count>>
    <3>1. q[2] < config.automation_count /\ q[2] \in Nat /\ config.automation_count \in Nat
      BY <1>1, CountAssumption, Places DEF NonceUsedOnce, AccountsOK, Configs, Nonces
    <3>2. QED
      BY <3>1
  <2>2. ata' = ata /\ bal'[q] = bal[q]
    BY <1>1, <1>5, <2>1, CreateTokens
  <2>3. QED
    BY <2>2
<1>6. ASSUME NEW p \in Pdas, Open(p), transfer_sol(p) PROVE Goal
  <2> DEFINE n == autos[p].action.amount
             d == autos[p].action.destination
  <2>1. n \in Nat /\ p \in Holders /\ bal[p][Sol] \in Nat
    BY <1>1, <1>6, OpenRule, Places DEF AccountsOK
  <2>2. /\ RentExemptOrGone(bal[p][Sol] - n) /\ bal' = Move(bal, p, d, Sol, n) /\ ata' = ata
        /\ autos[p].action.kind = "TransferSol"
    BY <1>6 DEF transfer_sol, CanFire
  <2>3. d \in Wallets
    BY <1>6, <2>2 DEF Asked, ClientRequests, Open
  <2>4. d \in Holders /\ d # q
    BY <2>3, Places
  <2> HIDE DEF n, d
  <2>5. bal[p][Sol] >= n
    BY <2>1, <2>2, AmountsAssumption DEF RentExemptOrGone
  <2>6. bal'[q][Sol] = bal[q][Sol]
    BY <1>1, <1>2, <1>6, <2>1, <2>2, <2>4, <2>5, SolSpares
  <2>7. QED
    BY <2>2, <2>6
<1>7. ASSUME NEW p \in Pdas, Open(p), transfer_spl(p) PROVE Goal
  <2>1. /\ autos[p].action.mint \in Mints /\ autos[p].action.amount \in Nat
        /\ autos[p].action.destination \in Holders /\ p \in Holders
    BY <1>1, <1>7, OpenRule
  <2>2. /\ bal' = Move(bal, p, autos[p].action.destination, autos[p].action.mint,
                       autos[p].action.amount)
        /\ ata' = ata
    BY <1>7 DEF transfer_spl
  <2>3. bal'[q][Sol] = bal[q][Sol]
    BY <1>1, <2>1, <2>2, MoveKeepsSol
  <2>4. QED
    BY <2>2, <2>3
<1>8. ASSUME NEW p \in Pdas, Open(p), NEW got \in Fills,
             NEW used \in Spends(p, autos[p].action.mint), swap(p, used, got)
      PROVE  Goal
  <2> DEFINE act == autos[p].action
             m == act.mint
             w == act.output_mint
             d == act.destination
             e == act.linked_downstream
             l == act.link_fee_deposit
             fee == swap_fee(got)
             t == config.treasury
             b1 == Move(bal, p, Pool, m, used)
             b2 == Move(b1, Pool, d, w, got)
             b3 == Move(b2, d, t, w, fee)
  <2>1. /\ m \in Mints /\ w \in Mints /\ d \in Holders /\ p \in Holders /\ Pool \in Holders
        /\ t \in Holders /\ e \in Pdas \cup {NoLink} /\ l \in Nat /\ config \in Configs
    BY <1>1, <1>8, OpenRule, Places DEF AccountsOK, Configs
  <2>2. bal[p][m] \in Nat
    BY <2>1, Places DEF AccountsOK, Core
  <2>3. got \in Nat /\ used \in Nat
    BY <1>8, <2>2, AmountsAssumption DEF Spends
  <2>4. fee \in Nat
    BY <2>1, <2>3, SwapFeeBound
  <2>5. /\ bal' = LinkDeposit(b3, p) /\ ata' = ata
        /\ CanReceive(d, w) /\ CanLinkDeposit(p)
    BY <1>8 DEF swap
  <2>6. e \in {NoLink, d} \/ l = 0
    BY <1>8 DEF Asked, ClientRequests, Open
  <2>7. bal' = IF e = NoLink THEN b3 ELSE Move(b3, p, e, Sol, l)
    BY <2>5 DEF LinkDeposit
  <2>8. e # NoLink => bal[p][Sol] - l >= Rent
    BY <2>5 DEF CanLinkDeposit
  <2> HIDE DEF act, m, w, d, e, l, fee, t
  <2>9. b1 \in IntLedgers /\ \A h \in Holders : b1[h][Sol] = bal[h][Sol]
    <3>1. /\ bal \in IntLedgers /\ p \in Holders /\ Pool \in Holders /\ m \in Mints
          /\ used \in Nat
      BY <1>1, <2>1, <2>3
    <3>2. /\ Move(bal, p, Pool, m, used) \in IntLedgers
          /\ \A h \in Holders : Move(bal, p, Pool, m, used)[h][Sol] = bal[h][Sol]
      BY <3>1, MoveKeepsSol
    <3>3. QED
      BY <3>2
  <2> HIDE DEF b1
  <2>10. b2 \in IntLedgers /\ \A h \in Holders : b2[h][Sol] = bal[h][Sol]
    <3>1. b2 \in IntLedgers /\ \A h \in Holders : b2[h][Sol] = b1[h][Sol]
      BY <2>1, <2>3, <2>9, MoveKeepsSol
    <3>2. QED
      BY <2>9, <3>1
  <2> HIDE DEF b2
  <2>11. b3 \in IntLedgers /\ \A h \in Holders : b3[h][Sol] = bal[h][Sol]
    <3>1. b3 \in IntLedgers /\ \A h \in Holders : b3[h][Sol] = b2[h][Sol]
      BY <2>1, <2>4, <2>10, MoveKeepsSol
    <3>2. QED
      BY <2>10, <3>1
  <2> HIDE DEF b3
  <2>12. p # q
    BY <1>2, <1>8
  <2>13. ASSUME \A x \in Mints : ata[q][x] = 0 PROVE bal'[q][Sol] = bal[q][Sol]
    <3>1. d # q
      BY <2>1, <2>5, <2>13 DEF CanReceive
    <3>2. CASE e = NoLink
      BY <1>1, <2>7, <2>11, <3>2
    <3>3. CASE e # NoLink
      <4>1. e \in Holders /\ bal' = Move(b3, p, e, Sol, l)
        BY <2>1, <2>7, <3>3, Places
      <4>2. CASE p = e
        BY <1>1, <2>1, <2>11, <2>12, <4>1, <4>2 DEF Move, IntLedgers
      <4>3. CASE p # e
        <5>1. /\ Move(b3, p, e, Sol, l)[e][Sol] = b3[e][Sol] + l
              /\ \A h \in Holders \ {p, e} : Move(b3, p, e, Sol, l)[h] = b3[h]
          <6>1. /\ b3 \in [Holders -> [Assets -> Int]] /\ l \in Nat /\ Sol \in Assets
                /\ p \in Holders /\ e \in Holders /\ p # e
            BY <1>1, <2>1, <2>11, <4>1, <4>3 DEF IntLedgers
          <6>2. /\ \A x \in Assets :
                     Move(b3, p, e, Sol, l)[e][x] = IF x = Sol THEN b3[e][x] + l ELSE b3[e][x]
                /\ \A h \in Holders \ {p, e} : Move(b3, p, e, Sol, l)[h] = b3[h]
            BY <6>1, MoveCredits
          <6>3. QED
            BY <6>1, <6>2
        <5>2. CASE e = q
          <6>1. l = 0
            BY <2>6, <3>1, <3>3, <5>2
          <6>2. bal[q][Sol] \in Int
            BY <1>1 DEF IntLedgers
          <6>3. QED
            BY <1>1, <2>11, <4>1, <5>1, <5>2, <6>1, <6>2
        <5>3. CASE e # q
          BY <1>1, <2>11, <2>12, <4>1, <5>1, <5>3
        <5>4. QED
          BY <5>2, <5>3
      <4>4. QED
        BY <4>2, <4>3
    <3>4. QED
      BY <3>2, <3>3
  <2>14. QED
    BY <2>5, <2>13
<1>9. ASSUME NEW k \in Wallets, NEW p \in Pdas, Open(p), Convert(k, p) PROVE Goal
  <2>1. PICK m \in Mints, got \in Fills : \E u \in Spends(p, m) :
          execute_fee_topup(k, p, m, u, got) \/ execute_bridge(k, p, m, u, got)
    BY <1>9 DEF Convert
  <2> PICK used \in Spends(p, m) :
        execute_fee_topup(k, p, m, used, got) \/ execute_bridge(k, p, m, used, got)
    BY <2>1
  <2>2. bal[p][m] \in Nat /\ p \in Holders /\ k \in Holders /\ Pool \in Holders
    BY <1>1, Places DEF AccountsOK
  <2>3. got \in Nat /\ used \in Nat
    BY <2>2, AmountsAssumption DEF Spends
  <2>4. PICK w \in Mints, to \in Holders :
          /\ bal' = Move(Move(bal, p, Pool, m, used), Pool, to, w, got) /\ ata' = ata
    <3>1. CASE execute_fee_topup(k, p, m, used, got)
      BY <2>2, <3>1, PartiesAssumption DEF execute_fee_topup
    <3>2. CASE execute_bridge(k, p, m, used, got)
      BY <1>1, <1>9, <2>2, <3>2, OpenRule DEF execute_bridge
    <3>3. QED
      BY <3>1, <3>2
  <2>5. /\ Move(bal, p, Pool, m, used) \in IntLedgers
        /\ \A h \in Holders : Move(bal, p, Pool, m, used)[h][Sol] = bal[h][Sol]
    <3>1. bal \in IntLedgers /\ m \in Mints /\ p \in Holders /\ Pool \in Holders /\ used \in Nat
      BY <1>1, <2>2, <2>3
    <3>2. QED
      BY <3>1, MoveKeepsSol
  <2>6. bal'[q][Sol] = bal[q][Sol]
    <3> DEFINE b1 == Move(bal, p, Pool, m, used)
    <3>1. b1 \in IntLedgers /\ w \in Mints /\ to \in Holders /\ Pool \in Holders /\ got \in Nat
      BY <2>2, <2>3, <2>5
    <3>2. bal' = Move(b1, Pool, to, w, got) /\ b1[q][Sol] = bal[q][Sol]
      BY <1>1, <2>4, <2>5
    <3> HIDE DEF b1
    <3>3. \A h \in Holders : Move(b1, Pool, to, w, got)[h][Sol] = b1[h][Sol]
      BY <3>1, MoveKeepsSol
    <3>4. QED
      BY <1>1, <3>2, <3>3
  <2>7. QED
    BY <2>4, <2>6
<1>10. ASSUME NEW p \in Pdas, Open(p), NEW fee \in 1..MaxLinkFee, NEW k \in Wallets,
              execute_link_fee_debit(k, p, fee)
       PROVE  Goal
  <2>1. /\ fee \in Nat /\ p \in Holders /\ config.keeper \in Holders /\ bal[p][Sol] \in Nat
        /\ config.keeper # q
    BY <1>1, Places, AmountsAssumption DEF AccountsOK, Configs
  <2>2. /\ bal[p][Sol] - fee >= Rent /\ bal' = Move(bal, p, config.keeper, Sol, fee)
        /\ ata' = ata
    BY <1>10 DEF execute_link_fee_debit
  <2>3. bal[p][Sol] >= fee
    BY <2>1, <2>2, AmountsAssumption
  <2>4. bal'[q][Sol] = bal[q][Sol]
    BY <1>1, <1>2, <1>10, <2>1, <2>2, <2>3, SolSpares
  <2>5. QED
    BY <2>2, <2>4
<1>11. ASSUME NEW k \in Wallets, NEW p \in Pdas, KeeperStep(k, p) PROVE Goal
  <2>1. Open(p)
    BY <1>11 DEF KeeperStep
  <2>2. ASSUME handle_until_expiry(p) PROVE Goal
    BY <2>2 DEF handle_until_expiry, ledger
  <2>3. CASE execute_automation(k, p)
    BY <1>6, <2>1, <2>2, <2>3 DEF execute_automation
  <2>4. CASE execute_automation_spl(k, p)
    BY <1>7, <2>1, <2>2, <2>4 DEF execute_automation_spl
  <2>5. CASE FireSwap(k, p)
    BY <1>8, <2>1, <2>2, <2>5 DEF FireSwap, execute_swap
  <2>6. CASE Convert(k, p)
    BY <1>9, <2>1, <2>6
  <2>7. QED
    BY <1>10, <1>11, <2>1, <2>3, <2>4, <2>5, <2>6 DEF KeeperStep
<1>12. ASSUME NEW p \in Pdas, NEW ms \in SUBSET Mints, NEW payee \in Wallets,
              NEW how \in {"closed", "swept"}, Close(p, ms, payee, how)
       PROVE  Goal
  <2>1. p # q
    BY <1>2, <1>12 DEF Close
  <2>2. ata'[q] = ata[q] /\ bal'[q][Sol] = bal[q][Sol]
    BY <1>1, <1>12, <2>1, CloseTokens
  <2>3. QED
    BY <2>2
<1>13. ASSUME NEW o \in Owners, NEW p \in Pdas, OwnerStep(o, p) PROVE Goal
  <2>1. o \in Wallets /\ (Open(p) => autos[p].action.mint \in Mints)
    BY <1>1, Places, OpenRule
  <2>2. CASE close_automation(o, p)
    BY <1>12, <2>1, <2>2 DEF close_automation
  <2>3. CASE close_automation_spl(o, p)
    BY <1>12, <2>1, <2>3 DEF close_automation_spl
  <2>4. ASSUME NEW l \in listed[p], close_automation_swap(o, p, l) PROVE Goal
    <3>1. {autos[p].action.mint} \cup l.dust \in SUBSET Mints
      BY <2>1, <2>4 DEF close_automation_swap, DustMints
    <3>2. QED
      BY <1>12, <2>1, <2>4, <3>1 DEF close_automation_swap
  <2>5. ASSUME NEW x \in TopUps, top_up(o, p, x) PROVE Goal
    <3>1. x \in Nat /\ o \in Holders /\ p \in Holders /\ o # q
      BY Places, AmountsAssumption
    <3>2. bal[o][Sol] >= x /\ bal' = Move(bal, o, p, Sol, x) /\ ata' = ata /\ Open(p)
      BY <2>5 DEF top_up
    <3>3. bal'[q][Sol] = bal[q][Sol]
      BY <1>1, <1>2, <3>1, <3>2, SolSpares
    <3>4. QED
      BY <3>2, <3>3
  <2>6. CASE collect_pda_dust_atas(o, p)
    BY <2>6 DEF collect_pda_dust_atas, ledger
  <2>7. QED
    BY <1>13, <2>2, <2>3, <2>4, <2>5, <2>6 DEF OwnerStep
<1>14. ASSUME NEW s \in Wallets, NEW p \in Pdas, AdminClose(s, p) PROVE Goal
  <2>1. config.treasury \in Wallets /\ autos[p].action.mint \in Mints
    BY <1>1, <1>14, OpenRule DEF AccountsOK, Configs, AdminClose
  <2>2. ASSUME NEW dust \in SUBSET DustMints(p)
        PROVE  {autos[p].action.mint} \cup dust \in SUBSET Mints
    BY <2>1 DEF DustMints
  <2>3. QED
    BY <1>12, <1>14, <2>1, <2>2
       DEF AdminClose, admin_close_automation, admin_close_automation_spl,
           admin_close_automation_swap
<1>15. QED
  BY <1>3, <1>4, <1>5, <1>11, <1>13, <1>14 DEF Next

\* What the owner's close leaves: every token account of a swap rule is its input
\* account or one the client listed, unless it was opened since.
LEMMA OwnerEmpties ==
    ASSUME AccountsOK, ListingsOK, \A p \in Pdas : Open(p) => Listed(p), ~UntypedClose,
           NEW o \in Owners, NEW p \in Pdas, OwnerStep(o, p),
           NEW q \in Pdas, status[q] # "closed", status'[q] = "closed"
    PROVE  Emptied(q)'
<1>1. \A ms, payee, how : Close(p, ms, payee, how) =>
         Open(p) /\ q = p /\ UNCHANGED <<config, now, autos>>
  BY DEF Close, AccountsOK
<1>2. Open(p) => autos[p].action.mint \in Mints
  BY OpenRule
<1>3. o \in Wallets
  BY Places
<1>4. CASE close_automation(o, p)
  <2>1. autos[p].action.kind = "TransferSol" /\ q = p /\ autos' = autos
    BY <1>1, <1>4 DEF close_automation, SentForSol
  <2>2. QED
    BY <2>1 DEF Emptied
<1>5. CASE close_automation_spl(o, p)
  <2>1. /\ Close(p, {autos[p].action.mint}, o, "closed") /\ q = p /\ autos' = autos
        /\ autos[p].action.kind = "TransferSpl" /\ autos[p].action.mint \in Mints
    BY <1>1, <1>2, <1>5 DEF close_automation_spl
  <2>2. ata'[p][autos[p].action.mint] = 0
    <3> DEFINE ms == {autos[p].action.mint}
    <3>1. ms \in SUBSET Mints /\ Close(p, ms, o, "closed") /\ autos[p].action.mint \in ms
      BY <2>1
    <3> HIDE DEF ms
    <3>2. \A m \in Mints : ata'[p][m] = IF m \in ms THEN 0 ELSE ata[p][m]
      BY <1>3, <3>1, CloseTokens
    <3>3. QED
      BY <2>1, <3>1, <3>2
  <2>3. QED
    BY <2>1, <2>2 DEF Emptied
<1>6. ASSUME NEW l \in listed[p], close_automation_swap(o, p, l) PROVE Emptied(q)'
  <2> DEFINE ms == {autos[p].action.mint} \cup l.dust
  <2>1. /\ Close(p, ms, o, "closed") /\ q = p /\ autos' = autos
        /\ autos[p].action.kind = "Swap" /\ ms \in SUBSET Mints
        /\ listed' = [listed EXCEPT ![p] = {l}] /\ Open(p)
    BY <1>1, <1>2, <1>6 DEF close_automation_swap, DustMints
  <2>2. bal'[p][Sol] = 0 /\ \A m \in Mints : ata'[p][m] = IF m \in ms THEN 0 ELSE ata[p][m]
    <3> HIDE DEF ms
    <3>1. QED
      BY <1>3, <2>1, CloseTokens
  <2>3. ASSUME NEW m \in Mints \ l.late PROVE ata'[p][m] = 0
    <3>1. m \in ms \/ ata[p][m] = 0
      BY <2>1 DEF Listed
    <3>2. QED
      BY <2>2, <3>1
  <2>4. listed'[p] = {l}
    BY <2>1 DEF ListingsOK
  <2>5. QED
    BY <2>1, <2>2, <2>3, <2>4 DEF Emptied
<1>7. CASE \E x \in TopUps : top_up(o, p, x)
  BY <1>7 DEF top_up
<1>8. CASE collect_pda_dust_atas(o, p)
  BY <1>8 DEF collect_pda_dust_atas
<1>9. QED
  BY <1>4, <1>5, <1>6, <1>7, <1>8 DEF OwnerStep

\* Only an owner's instruction closes a rule as "closed".
LEMMA OwnerCloses ==
    ASSUME AccountsOK, [Next]_vars, NEW q \in Pdas, status[q] # "closed", status'[q] = "closed"
    PROVE  \E o \in Owners, p \in Pdas : OwnerStep(o, p)
<1>1. CASE Tick \/ Govern \/ UNCHANGED vars
  BY <1>1 DEF Tick, Govern, vars
<1>2. ASSUME NEW o \in Owners, NEW r \in Requests, setup_atas(o, r) PROVE FALSE
  BY <1>2 DEF setup_atas
<1>3. ASSUME NEW o \in Owners, NEW r \in Requests, CreateRule(o, r) PROVE FALSE
  BY <1>3, CreateTokens
<1>4. ASSUME NEW k \in Wallets, NEW p \in Pdas, KeeperStep(k, p) PROVE FALSE
  <2>1. FireStep(p) \/ ExpireStep(p) \/ QuietStep
    BY <1>4, KeeperSteps
  <2>2. status' = status \/ status' = [status EXCEPT ![p] = "reaped"]
    BY <2>1 DEF FireStep, ExpireStep, handle_until_expiry, QuietStep
  <2>3. QED
    BY <2>2 DEF AccountsOK
<1>5. ASSUME NEW s \in Wallets, NEW p \in Pdas, AdminClose(s, p) PROVE FALSE
  <2>1. status' = [status EXCEPT ![p] = "swept"]
    BY <1>5 DEF AdminClose, admin_close_automation, admin_close_automation_spl,
                admin_close_automation_swap, Close
  <2>2. QED
    BY <2>1 DEF AccountsOK
<1>6. QED
  BY <1>1, <1>2, <1>3, <1>4, <1>5 DEF Next

\* A rule's action never changes, and every new one was asked for.
LEMMA StepAsked ==
    ASSUME AccountsOK, Asked, [Next]_vars
    PROVE  Asked' /\ \A q \in Pdas : status[q] # "absent" => autos'[q].action = autos[q].action
                                                             \/ Creates
<1>1. CASE Creates
  <2>1. PICK o \in Owners, r \in Requests : CreateRule(o, r)
    BY <1>1 DEF Creates
  <2> DEFINE p == <<o, config.automation_count>>
  <2>2. /\ p \in Pdas /\ autos'[p].action = r.action
        /\ \A q \in Pdas \ {p} : status'[q] = status[q] /\ autos'[q] = autos[q]
    BY <2>1, CreateTokens
  <2>3. QED
    BY <1>1, <2>2 DEF Asked
<1>2. CASE ~Creates
  <2>1. QuietStep \/ \E p \in Pdas : FireStep(p) \/ ExpireStep(p) \/ RetireStep(p)
    BY <1>2, OtherKinds
  <2> DEFINE Stay == \A q \in Pdas :
                       /\ status'[q] # "absent" => status[q] # "absent"
                       /\ status[q] # "absent" => autos'[q].action = autos[q].action
  <2>2. Stay
    <3>1. CASE QuietStep
      BY <3>1 DEF QuietStep
    <3>2. ASSUME NEW p \in Pdas, FireStep(p) PROVE Stay
      <4>1. advance(autos[p], now).action = autos[p].action
        BY <3>2 DEF FireStep, Open, AccountsOK, Autos, advance
      <4>2. autos' = [autos EXCEPT ![p] = advance(autos[p], now)] /\ status[p] = "open"
        BY <3>2 DEF FireStep, Fired, Open
      <4>3. \A q \in Pdas : autos'[q].action = autos[q].action
        BY <4>1, <4>2 DEF AccountsOK
      <4>4. \A q \in Pdas : status'[q] # "absent" => status[q] # "absent"
        BY <3>2 DEF FireStep, Open, AccountsOK
      <4>5. QED
        BY <4>3, <4>4
    <3>3. ASSUME NEW p \in Pdas, ExpireStep(p) PROVE Stay
      BY <3>3 DEF ExpireStep, handle_until_expiry, Open, AccountsOK, Autos
    <3>4. ASSUME NEW p \in Pdas, RetireStep(p) PROVE Stay
      BY <3>4 DEF RetireStep, Open, AccountsOK
    <3>5. QED
      BY <2>1, <3>1, <3>2, <3>3, <3>4
  <2>3. QED
    BY <2>2 DEF Asked
<1>3. QED
  BY <1>1, <1>2

\* Tokens stay where a token account holds them.
LEMMA StepHoused ==
    ASSUME Core, TokensHoused, [Next]_vars
    PROVE  TokensHoused'
<1>1. AccountsOK /\ AccountsOK'
  BY StepCore DEF Core
<1>2. \A q \in Pdas, x \in Mints : /\ bal[q][x] \in Nat /\ bal'[q][x] \in Nat
                                   /\ ata[q][x] \in Nat /\ ata'[q][x] \in Nat
  BY <1>1, Places DEF AccountsOK
<1>3. CASE Creates
  <2>1. PICK o \in Owners, r \in Requests : CreateRule(o, r)
    BY <1>3 DEF Creates
  <2> DEFINE p == <<o, config.automation_count>>
  <2>2. /\ p \in Pdas /\ ata' = ata
        /\ \A q \in Pdas \ {p} : bal'[q] = bal[q]
        /\ \A x \in Mints : bal'[p][x] <= bal[p][x] \/ ata[p][x] > 0
    BY <1>1, <2>1, CreateTokens
  <2> HIDE DEF p
  <2>3. QED
    BY <1>2, <2>2 DEF TokensHoused
<1>4. CASE ~Creates
  <2>1. /\ \A q \in Pdas, x \in Mints : bal'[q][x] <= bal[q][x] \/ ata'[q][x] > 0
        /\ \A q \in Pdas, x \in Mints : ata'[q][x] = 0 => ata[q][x] = 0 \/ bal'[q][x] = 0
    BY <1>4, TokenSteps DEF TokenStep
  <2>2. ASSUME NEW q \in Pdas, NEW x \in Mints, ata'[q][x] = 0 PROVE bal'[q][x] = 0
    BY <1>2, <2>1, <2>2 DEF TokensHoused
  <2>3. QED
    BY <2>2 DEF TokensHoused
<1>5. QED
  BY <1>3, <1>4

\* Only the clients' setup opens token accounts.
LEMMA NoNewAtas ==
    ASSUME AccountsOK, [Next]_vars, \A o \in Owners, r \in Requests : ~setup_atas(o, r)
    PROVE  \A q \in Pdas, x \in Mints : ata[q][x] = 0 => ata'[q][x] = 0
<1> DEFINE Goal == \A q \in Pdas, x \in Mints : ata[q][x] = 0 => ata'[q][x] = 0
<1>1. CASE ata' = ata
  BY <1>1
<1>2. ASSUME NEW o \in Owners, NEW r \in Requests, CreateRule(o, r) PROVE ata' = ata
  BY <1>2, CreateTokens
<1>3. ASSUME NEW k \in Wallets, NEW p \in Pdas, KeeperStep(k, p) PROVE ata' = ata
  BY <1>3 DEF KeeperStep, execute_automation, execute_automation_spl, FireSwap, execute_swap,
              Convert, execute_fee_topup, execute_bridge, execute_link_fee_debit,
              handle_until_expiry, transfer_sol, transfer_spl, swap, ledger
<1>4. ASSUME NEW p \in Pdas, NEW ms, NEW payee, NEW how, Close(p, ms, payee, how) PROVE Goal
  BY <1>4 DEF Close, AccountsOK
<1>5. ASSUME NEW o \in Owners, NEW p \in Pdas, OwnerStep(o, p) PROVE Goal
  BY <1>1, <1>4, <1>5 DEF OwnerStep, close_automation, close_automation_spl,
     close_automation_swap, top_up, collect_pda_dust_atas, ledger
<1>6. ASSUME NEW s \in Wallets, NEW p \in Pdas, AdminClose(s, p) PROVE Goal
  BY <1>4, <1>6 DEF AdminClose, admin_close_automation, admin_close_automation_spl,
                    admin_close_automation_swap
<1>7. CASE Tick \/ Govern \/ UNCHANGED vars
  BY <1>1, <1>7 DEF Tick, Govern, vars, ledger
<1>8. QED
  BY <1>1, <1>2, <1>3, <1>5, <1>6, <1>7 DEF Next

\* A rule's action is what it was, and no other rule opens, unless one is created at
\* an address that no client listed.
LEMMA SameRule ==
    ASSUME AccountsOK, NonceUsedOnce, Asked, [Next]_vars,
           NEW q \in Pdas, status[q] # "absent"
    PROVE  autos'[q].action = autos[q].action
<1>1. CASE Creates
  <2>1. PICK o \in Owners, r \in Requests : CreateRule(o, r)
    BY <1>1 DEF Creates
  <2>2. q # <<o, config.automation_count>>
    <3>1. q[2] < config.automation_count /\ q[2] \in Nat /\ config.automation_count \in Nat
      BY CountAssumption, Places DEF NonceUsedOnce, AccountsOK, Configs, Nonces
    <3>2. QED
      BY <3>1
  <2>3. QED
    BY <2>1, <2>2, CreateTokens
<1>2. QED
  BY <1>1, StepAsked

\* What a step does to the listings: a listing is made for an open rule, of the
\* accounts it has; it stays until the rule is closed with one of them; and an
\* account opened meanwhile is noted in it.
LEMMA StepListed ==
    ASSUME AccountsOK, AccountsOK', ListingsOK, NonceUsedOnce, Asked, [Next]_vars,
           \A p \in Pdas : status[p] = "absent" => listed[p] = {},
           \A p \in Pdas : Open(p) => Listed(p)
    PROVE  /\ \A p \in Pdas : status'[p] = "absent" => listed'[p] = {}
           /\ \A p \in Pdas : Open(p)' => Listed(p)'
<1> DEFINE Goal == /\ \A p \in Pdas : status'[p] = "absent" => listed'[p] = {}
                   /\ \A p \in Pdas : Open(p)' => Listed(p)'
<1>1. \A q \in Pdas : /\ status'[q] = "absent" => status[q] = "absent"
                      /\ status[q] = "absent" /\ status'[q] # "absent" => Creates
                      /\ Open(q)' => Open(q) \/ status[q] = "absent"
  <2>1. CASE Creates
    <3>1. PICK o \in Owners, r \in Requests : CreateRule(o, r)
      BY <2>1 DEF Creates
    <3> DEFINE p == <<o, config.automation_count>>
    <3>2. /\ p \in Pdas /\ status'[p] = "open"
          /\ \A q \in Pdas \ {p} : status'[q] = status[q]
      BY <3>1, CreateTokens
    <3>3. status[p] = "absent"
      <4>1. config.automation_count \in Nat /\ p[2] = config.automation_count
        BY CountAssumption DEF AccountsOK, Configs
      <4>2. ~(p[2] < config.automation_count)
        BY <4>1
      <4>3. QED
        BY <3>2, <4>2 DEF NonceUsedOnce
    <3>4. QED
      BY <2>1, <3>2, <3>3 DEF Open
  <2>2. CASE ~Creates
    <3>1. QuietStep \/ \E p \in Pdas : FireStep(p) \/ ExpireStep(p) \/ RetireStep(p)
      BY <2>2, OtherKinds
    <3>2. QED
      BY <3>1 DEF QuietStep, FireStep, ExpireStep, RetireStep, handle_until_expiry, Open,
                  AccountsOK
  <2>3. QED
    BY <2>1, <2>2
<1>2. ASSUME NEW q \in Pdas, status[q] # "absent" PROVE autos'[q].action = autos[q].action
  BY <1>2, SameRule
<1>3. CASE UNCHANGED listed /\ \A o \in Owners, r \in Requests : ~setup_atas(o, r)
  <2>1. \A q \in Pdas, x \in Mints : ata[q][x] = 0 => ata'[q][x] = 0
    BY <1>3, NoNewAtas
  <2>2. ASSUME NEW p \in Pdas, Open(p)' PROVE Listed(p)'
    <3>1. CASE status[p] = "absent"
      BY <1>3, <3>1 DEF Listed
    <3>2. CASE Open(p)
      <4>1. autos'[p].action = autos[p].action
        BY <1>2, <3>2 DEF Open
      <4>2. QED
        BY <1>3, <2>1, <3>2, <4>1 DEF Listed
    <3>3. QED
      BY <1>1, <2>2, <3>1, <3>2
  <2>3. QED
    BY <1>1, <1>3, <2>2
<1>4. ASSUME NEW o \in Owners, NEW r \in Requests, setup_atas(o, r) PROVE Goal
  <2> DEFINE missing == MissingAtas(o, r)
  <2>1. /\ ata' = [p \in Pdas |-> [m \in Mints |->
                     IF <<p, m>> \in missing THEN AtaRent ELSE ata[p][m]]]
        /\ listed' = [p \in Pdas |->
             {[l EXCEPT !.late = @ \cup {m \in Mints : <<p, m>> \in missing}] : l \in listed[p]}]
        /\ status' = status /\ autos' = autos
    BY <1>4 DEF setup_atas
  <2> HIDE DEF missing
  <2>2. ASSUME NEW p \in Pdas, Open(p)' PROVE Listed(p)'
    <3>1. Listed(p)
      BY <2>1, <2>2 DEF Open
    <3>2. ASSUME NEW k \in listed'[p], NEW m \in Mints
          PROVE  \/ ata'[p][m] = 0 \/ m = autos[p].action.mint \/ m \in k.dust \/ m \in k.late
      <4>1. PICK l \in listed[p] :
              k = [l EXCEPT !.late = @ \cup {x \in Mints : <<p, x>> \in missing}]
        BY <2>1
      <4>2. /\ k.dust = l.dust
            /\ k.late = l.late \cup {x \in Mints : <<p, x>> \in missing}
        BY <4>1 DEF ListingsOK, Listings
      <4>3. CASE <<p, m>> \in missing
        BY <4>2, <4>3
      <4>4. CASE <<p, m>> \notin missing
        BY <2>1, <3>1, <4>2, <4>4 DEF Listed
      <4>5. QED
        BY <4>3, <4>4
    <3>3. QED
      BY <2>1, <3>2 DEF Listed
  <2>3. QED
    BY <2>1, <2>2
<1>5. ASSUME NEW o \in Owners, NEW p \in Pdas, collect_pda_dust_atas(o, p) PROVE Goal
  <2>1. /\ listed' = [listed EXCEPT ![p] = @ \cup {[dust |-> DustMints(p), late |-> {}]}]
        /\ UNCHANGED <<config, now, status, autos, bal, ata>> /\ Open(p)
    BY <1>5 DEF collect_pda_dust_atas, ledger
  <2>2. \A q \in Pdas \ {p} : listed'[q] = listed[q]
    BY <2>1 DEF ListingsOK
  <2>3. \A l \in listed'[p] : l \in listed[p] \/ l = [dust |-> DustMints(p), late |-> {}]
    BY <2>1 DEF ListingsOK
  <2>4. \A m \in Mints : ata[p][m] = 0 \/ m = autos[p].action.mint \/ m \in DustMints(p)
    BY DEF AccountsOK, DustMints
  <2>5. Listed(p)'
    BY <2>1, <2>3, <2>4 DEF Listed
  <2>6. ASSUME NEW q \in Pdas \ {p}, Open(q)' PROVE Listed(q)'
    BY <2>1, <2>2, <2>6 DEF Listed, Open
  <2>7. QED
    BY <2>1, <2>2, <2>5, <2>6 DEF Open
<1>6. ASSUME NEW o \in Owners, NEW p \in Pdas, NEW l \in listed[p],
             close_automation_swap(o, p, l)
      PROVE  Goal
  <2>1. /\ listed' = [listed EXCEPT ![p] = {l}] /\ UNCHANGED autos
        /\ status' = [status EXCEPT ![p] = "closed"]
        /\ \A q \in Pdas \ {p} : ata'[q] = ata[q]
    BY <1>6 DEF close_automation_swap, Close, AccountsOK
  <2>2. \A q \in Pdas \ {p} : listed'[q] = listed[q] /\ status'[q] = status[q]
    BY <2>1 DEF ListingsOK, AccountsOK
  <2>3. status'[p] = "closed"
    BY <2>1 DEF AccountsOK
  <2>4. QED
    BY <2>1, <2>2, <2>3 DEF Listed, Open
<1>7. CASE UNCHANGED vars
  BY <1>7 DEF vars, Listed, Open
<1>8. CASE \E o \in Owners, p \in Pdas : OwnerStep(o, p)
  BY <1>3, <1>4, <1>5, <1>6, <1>8 DEF OwnerStep
<1>9. QED
  BY <1>3, <1>4, <1>7, <1>8 DEF Next

\* The listing a rule was closed with is kept, and what was opened since with it.
LEMMA ListingKept ==
    ASSUME AccountsOK, ListingsOK, [Next]_vars,
           NEW q \in Pdas, status[q] = "closed", NEW l \in listed[q]
    PROVE  \E k \in listed'[q] : l.late \subseteq k.late
<1>1. CASE UNCHANGED listed
  BY <1>1
<1>2. ASSUME NEW o \in Owners, NEW r \in Requests, setup_atas(o, r)
      PROVE  \E k \in listed'[q] : l.late \subseteq k.late
  <2>1. PICK missing : listed' = [p \in Pdas |->
          {[x EXCEPT !.late = @ \cup {m \in Mints : <<p, m>> \in missing}] : x \in listed[p]}]
    BY <1>2 DEF setup_atas
  <2>2. [l EXCEPT !.late = @ \cup {m \in Mints : <<q, m>> \in missing}] \in listed'[q]
    BY <2>1
  <2>3. l.late \subseteq [l EXCEPT !.late = @ \cup {m \in Mints : <<q, m>> \in missing}].late
    BY DEF ListingsOK, Listings
  <2>4. QED
    BY <2>2, <2>3
<1>3. ASSUME NEW o \in Owners, NEW p \in Pdas, OwnerStep(o, p) PROVE listed'[q] = listed[q]
  <2>1. Open(p) => p # q
    BY DEF Open
  <2>2. QED
    BY <1>3, <2>1 DEF OwnerStep, collect_pda_dust_atas, close_automation_swap, ListingsOK
<1>4. QED
  BY <1>1, <1>2, <1>3 DEF Next, vars

\* A rule whose owner closed it stays empty.
LEMMA StepEmpty ==
    ASSUME ~UntypedClose, ClientRequests, Core, NonceUsedOnce, EmptyInv, [Next]_vars
    PROVE  EmptyInv'
<1>1. AccountsOK /\ AccountsOK'
  BY StepCore DEF Core
<1>2. TokensHoused' /\ Asked' /\ ListingsOK'
  BY <1>1, StepHoused, StepAsked, StepListings DEF EmptyInv
<1>3. ASSUME NEW q \in Pdas, status'[q] = "closed" PROVE Emptied(q)'
  <2>1. CASE status[q] # "closed"
    BY <1>1, <1>3, <2>1, OwnerCloses, OwnerEmpties DEF EmptyInv
  <2>2. CASE status[q] = "closed"
    <3>1. Emptied(q) /\ autos[q].action.mint \in Mints
      BY <1>1, <2>2 DEF EmptyInv, AccountsOK, Autos, Actions
    <3>2. /\ \A x \in Mints : ata'[q][x] = ata[q][x]
          /\ (\A x \in Mints : ata[q][x] = 0) => bal'[q][Sol] = bal[q][Sol]
      BY <2>2, DeadKept DEF EmptyInv
    <3>3. autos'[q].action = autos[q].action
      BY <1>1, <2>2, SameRule DEF EmptyInv
    <3>4. ASSUME autos[q].action.kind = "Swap"
          PROVE  \E k \in listed'[q] :
                   /\ \A m \in Mints \ k.late : ata'[q][m] = 0
                   /\ (\A m \in k.late : ata'[q][m] = 0) => bal'[q][Sol] = 0
      <4>1. PICK l \in listed[q] : /\ \A x \in Mints \ l.late : ata[q][x] = 0
                                   /\ (\A x \in l.late : ata[q][x] = 0) => bal[q][Sol] = 0
        BY <3>1, <3>4 DEF Emptied
      <4>2. PICK k \in listed'[q] : l.late \subseteq k.late
        BY <1>1, <2>2, ListingKept DEF EmptyInv
      <4>3. l.late \subseteq Mints /\ k.late \subseteq Mints
        BY <1>2 DEF EmptyInv, ListingsOK, Listings
      <4>4. ASSUME NEW m \in Mints \ k.late PROVE ata'[q][m] = 0
        <5>1. m \in Mints \ l.late
          BY <4>2
        <5>2. ata[q][m] = 0
          BY <4>1, <5>1
        <5>3. QED
          BY <3>2, <5>2
      <4>5. ASSUME \A m \in k.late : ata'[q][m] = 0 PROVE bal'[q][Sol] = 0
        <5>1. \A m \in Mints : ata[q][m] = 0
          BY <3>2, <4>3, <4>4, <4>5
        <5>2. QED
          BY <3>2, <4>1, <4>3, <5>1
      <4>6. QED
        BY <4>4, <4>5
    <3>5. autos[q].action.kind = "TransferSpl" => ata'[q][autos[q].action.mint] = 0
      BY <3>1, <3>2 DEF Emptied
    <3>6. QED
      BY <3>3, <3>4, <3>5 DEF Emptied
  <2>3. QED
    BY <2>1, <2>2
<1>4. /\ \A p \in Pdas : status'[p] = "absent" => listed'[p] = {}
      /\ \A p \in Pdas : Open(p)' => Listed(p)'
  BY <1>1, StepListed DEF EmptyInv
<1>5. QED
  BY <1>2, <1>3, <1>4 DEF EmptyInv

\* An owner's close of a token rule leaves nothing of value at its address, for any
\* chain of rules still firing into it and however long the close took to sign,
\* except through a token account opened after the client listed them, as long as the
\* clients send each close for its own kind and build requests as they do
\* (close_automation_spl.rs, close_automation_swap.rs; src/lib/close-automation.ts,
\* src/lib/linked-chains.ts).
THEOREM CloseLeavesNothing ==
    ASSUME ~UntypedClose, ClientRequests
    PROVE  Spec => []OwnerCloseLeavesNothing
<1>1. Init => EmptyInv
  BY PartiesAssumption, InitListings
     DEF Init, EmptyInv, TokensHoused, Asked, Listed, Open, Holders, Assets
<1>2. ~UntypedClose /\ ClientRequests
  OBVIOUS
<1>3. Core /\ NonceUsedOnce /\ EmptyInv /\ [Next]_vars => EmptyInv'
  BY <1>2, StepEmpty
<1>4. Core /\ EmptyInv => OwnerCloseLeavesNothing
  <2> SUFFICES ASSUME Core, EmptyInv, NEW p \in Pdas, status[p] = "closed"
               PROVE  LET act == autos[p].action
                      IN  /\ act.kind = "TransferSpl" =>
                               bal[p][act.mint] = 0 /\ ata[p][act.mint] = 0
                          /\ act.kind = "Swap" => \E l \in listed[p] :
                                /\ \A m \in Mints \ l.late : bal[p][m] = 0 /\ ata[p][m] = 0
                                /\ (\A m \in l.late : ata[p][m] = 0) => bal[p][Sol] = 0
    BY DEF OwnerCloseLeavesNothing
  <2>1. Emptied(p) /\ autos[p].action.mint \in Mints
    BY DEF EmptyInv, Core, AccountsOK, Autos, Actions
  <2>2. \A m \in Mints : ata[p][m] = 0 => bal[p][m] = 0
    BY DEF EmptyInv, TokensHoused
  <2>3. QED
    BY <2>1, <2>2 DEF Emptied
<1>5. QED
  BY <1>1, <1>3, <1>4, InitCore, StepCore, NumberedOnce, PTL DEF Spec

-----------------------------------------------------------------------------
(* Sums over finite sets                                                    *)

\* Induction over 0..n, told of a set: what holds of 0 and of a number whose
\* predecessor it holds of, holds of all (the least number outside the set
\* would have a predecessor in it).
LEMMA SetInduction ==
    ASSUME NEW n \in Nat, NEW S, 0 \in S, \A k \in 1..n : k - 1 \in S => k \in S
    PROVE  \A k \in 0..n : k \in S
<1> DEFINE T == {k \in 0..n : k \notin S}
<1>1. SUFFICES ASSUME T # {} PROVE FALSE
  OBVIOUS
<1>2. T \in SUBSET Nat
  OBVIOUS
<1>3. \E m \in T : \A k \in T : ~ (<<k, m>> \in OpToRel(<, Nat))
  <2> HIDE DEF T
  <2> QED BY <1>1, <1>2, NatLessThanWellFounded, WFMin
<1>4. PICK m \in T : \A k \in T : ~ (k < m)
  <2>1. \A x, y \in Nat : y < x => <<y, x>> \in OpToRel(<, Nat)
    BY DEF OpToRel
  <2> HIDE DEF T
  <2> QED BY <1>2, <1>3, <2>1
<1>5. m \in 1..n
  OBVIOUS
<1>6. m - 1 \in S
  BY <1>4, <1>5
<1> QED BY <1>5, <1>6

\* The same for the subsets of a finite set: what holds of the empty set, and of
\* a set when it holds of the set without its chosen element, holds of all.
Chosen(s) == CHOOSE x \in s : TRUE

LEMMA SubsetInduction ==
    ASSUME NEW S, IsFiniteSet(S), NEW Good, {} \in Good,
           \A s \in SUBSET S : s # {} /\ s \ {Chosen(s)} \in Good => s \in Good
    PROVE  \A s \in SUBSET S : s \in Good
<1> DEFINE n == Cardinality(S)
           Sized == {k \in 0..n : \A s \in SUBSET S : Cardinality(s) = k => s \in Good}
<1>1. n \in Nat /\ \A s \in SUBSET S : IsFiniteSet(s) /\ Cardinality(s) \in 0..n
  BY FS_Subset, FS_CardinalityType
<1>2. 0 \in Sized
  <2>1. \A s \in SUBSET S : Cardinality(s) = 0 => s = {}
    BY <1>1, FS_EmptySet
  <2> QED BY <1>1, <2>1
<1>3. ASSUME NEW k \in 1..n, k - 1 \in Sized PROVE k \in Sized
  <2>1. SUFFICES ASSUME NEW s \in SUBSET S, Cardinality(s) = k PROVE s \in Good
    BY <1>1
  <2>2. s # {}
    BY <1>1, <1>3, <2>1, FS_EmptySet
  <2>3. Chosen(s) \in s
    BY <2>2 DEF Chosen
  <2>4. Cardinality(s \ {Chosen(s)}) = k - 1
    BY <1>1, <2>1, <2>3, FS_RemoveElement
  <2>5. s \ {Chosen(s)} \in Good
    BY <1>3, <2>4
  <2> QED BY <2>2, <2>5
<1> HIDE DEF n
<1>4. \A k \in 0..n : k \in Sized
  <2> HIDE DEF Sized
  <2> QED BY <1>1, <1>2, <1>3, SetInduction
<1> QED BY <1>1, <1>4

\* The fold of the community modules is defined as the function on subsets that
\* satisfies this equation.
Adds(f, it) ==
    it = [s \in SUBSET DOMAIN f |->
            IF s = {} THEN 0 ELSE f[Chosen(s)] + it[s \ {Chosen(s)}]]
Sum(f) == FoldFunction(+, 0, f)

LEMMA SumIsAdds == 
    ASSUME NEW f
    PROVE  Sum(f) = (CHOOSE it : Adds(f, it))[DOMAIN f]
BY DEF Sum, FoldFunction, FoldFunctionOnSet, MapThenFoldSet, Adds, Chosen

\* The equation on the subsets with at most k elements.
Upto(S, k) == {s \in SUBSET S : Cardinality(s) <= k}
AddsUpto(f, S, k, it) ==
    /\ it \in [Upto(S, k) -> Int]
    /\ \A s \in Upto(S, k) :
         it[s] = IF s = {} THEN 0 ELSE f[Chosen(s)] + it[s \ {Chosen(s)}]

LEMMA AddsOneMore ==
    ASSUME NEW S, IsFiniteSet(S), NEW f \in [S -> Int], NEW k \in Nat, k # 0,
           NEW before, AddsUpto(f, S, k - 1, before)
    PROVE  \E it : AddsUpto(f, S, k, it)
<1>1. \A s \in SUBSET S : IsFiniteSet(s) /\ Cardinality(s) \in Nat
  BY FS_Subset, FS_CardinalityType
<1>2. ASSUME NEW s \in Upto(S, k), s # {}
      PROVE  Chosen(s) \in S /\ s \ {Chosen(s)} \in Upto(S, k - 1)
  <2>1. Chosen(s) \in s
    BY <1>2 DEF Chosen
  <2>2. Cardinality(s \ {Chosen(s)}) = Cardinality(s) - 1
    BY <1>1, <2>1, FS_RemoveElement DEF Upto
  <2>3. Cardinality(s) \in Nat /\ Cardinality(s) <= k /\ s \in SUBSET S
    BY <1>1 DEF Upto
  <2> QED BY <2>1, <2>2, <2>3 DEF Upto
<1>3. PICK it : it = [s \in Upto(S, k) |->
                        IF s = {} THEN 0 ELSE f[Chosen(s)] + before[s \ {Chosen(s)}]]
  OBVIOUS
<1>4. \A s \in Upto(S, k - 1) : s \in Upto(S, k) /\ it[s] = before[s]
  <2>1. ASSUME NEW s \in Upto(S, k - 1) PROVE s \in Upto(S, k)
    BY <1>1 DEF Upto
  <2>2. ASSUME NEW s \in Upto(S, k - 1) PROVE it[s] = before[s]
    BY <1>3, <2>1, <2>2 DEF AddsUpto
  <2> QED BY <2>1, <2>2
<1>5. it \in [Upto(S, k) -> Int]
  <2>1. ASSUME NEW s \in Upto(S, k), s # {}
        PROVE  f[Chosen(s)] + before[s \ {Chosen(s)}] \in Int
    BY <1>2, <2>1 DEF AddsUpto
  <2>2. ASSUME NEW s \in Upto(S, k) PROVE it[s] \in Int
    <3>1. CASE s = {}
      BY <1>3, <3>1
    <3>2. CASE s # {}
      BY <1>3, <2>1, <3>2
    <3> QED BY <3>1, <3>2
  <2>3. it = [s \in Upto(S, k) |-> it[s]]
    BY <1>3
  <2> QED BY <2>2, <2>3
<1>6. ASSUME NEW s \in Upto(S, k)
      PROVE  it[s] = IF s = {} THEN 0 ELSE f[Chosen(s)] + it[s \ {Chosen(s)}]
  <2>1. CASE s = {}
    BY <1>3, <2>1
  <2>2. CASE s # {}
    BY <1>2, <1>3, <1>4, <2>2
  <2> QED BY <2>1, <2>2
<1> QED BY <1>5, <1>6 DEF AddsUpto

\* A sum over a finite set is what the equation says.
LEMMA SumUnfolds ==
    ASSUME NEW S, IsFiniteSet(S), NEW f \in [S -> Int]
    PROVE  \E it \in [SUBSET S -> Int] :
             /\ \A s \in SUBSET S :
                  it[s] = IF s = {} THEN 0 ELSE f[Chosen(s)] + it[s \ {Chosen(s)}]
             /\ Sum(f) = it[S]
<1> DEFINE n == Cardinality(S)
           Sized == {k \in 0..n : \E it : AddsUpto(f, S, k, it)}
<1>1. n \in Nat /\ \A s \in SUBSET S : IsFiniteSet(s) /\ Cardinality(s) \in 0..n
  BY FS_Subset, FS_CardinalityType
<1>2. 0 \in Sized
  <2>1. \A s \in Upto(S, 0) : s = {}
    BY <1>1, FS_EmptySet DEF Upto
  <2>2. PICK it : it = [s \in Upto(S, 0) |-> 0]
    OBVIOUS
  <2>3. AddsUpto(f, S, 0, it)
    BY <2>1, <2>2 DEF AddsUpto
  <2> QED BY <1>1, <2>3
<1>3. ASSUME NEW k \in 1..n, k - 1 \in Sized PROVE k \in Sized
  <2>1. PICK before : AddsUpto(f, S, k - 1, before)
    BY <1>3
  <2>2. k \in Nat /\ k # 0
    BY <1>1
  <2>3. \E it : AddsUpto(f, S, k, it)
    BY <2>1, <2>2, AddsOneMore
  <2> QED BY <1>1, <2>3
<1>4. \A k \in 0..n : k \in Sized
  <2> HIDE DEF n, Sized
  <2> QED BY <1>1, <1>2, <1>3, SetInduction
<1>5. PICK whole : AddsUpto(f, S, n, whole)
  BY <1>1, <1>4
<1>6. Upto(S, n) = SUBSET S
  BY <1>1 DEF Upto
<1>7. Adds(f, whole)
  <2>1. DOMAIN f = S
    OBVIOUS
  <2>2. whole \in [SUBSET S -> Int]
    BY <1>5, <1>6 DEF AddsUpto
  <2>3. \A s \in SUBSET S :
          whole[s] = IF s = {} THEN 0 ELSE f[Chosen(s)] + whole[s \ {Chosen(s)}]
    BY <1>5, <1>6 DEF AddsUpto
  <2> QED BY <2>1, <2>2, <2>3 DEF Adds
<1>8. PICK it : it = (CHOOSE g : Adds(f, g))
  OBVIOUS
<1>9. Adds(f, it)
  BY <1>7, <1>8
<1>10. DOMAIN f = S /\ Sum(f) = it[S]
  BY <1>8, SumIsAdds
<1>11. \A s \in SUBSET S :
         it[s] = IF s = {} THEN 0 ELSE f[Chosen(s)] + it[s \ {Chosen(s)}]
  BY <1>9, <1>10 DEF Adds
<1>12. it \in [SUBSET S -> Int]
  <2> DEFINE Good == {s \in SUBSET S : it[s] \in Int}
  <2>1. {} \in Good
    BY <1>11
  <2>2. ASSUME NEW s \in SUBSET S, s # {}, s \ {Chosen(s)} \in Good PROVE s \in Good
    <3>1. Chosen(s) \in S
      BY <2>2 DEF Chosen
    <3> QED BY <1>11, <2>2, <3>1
  <2>3. \A s \in SUBSET S : s \in Good
    <3> HIDE DEF Good
    <3> QED BY <2>1, <2>2, SubsetInduction
  <2>4. it = [s \in SUBSET S |-> it[s]]
    BY <1>9, <1>10 DEF Adds
  <2> QED BY <2>3, <2>4
<1> QED BY <1>10, <1>11, <1>12

\* Sums add up.
LEMMA SumAdds ==
    ASSUME NEW S, IsFiniteSet(S), NEW f \in [S -> Int], NEW d \in [S -> Int],
           NEW g \in [S -> Int], \A x \in S : g[x] = f[x] + d[x]
    PROVE  Sum(f) \in Int /\ Sum(d) \in Int /\ Sum(g) = Sum(f) + Sum(d)
<1>1. PICK ft \in [SUBSET S -> Int] :
        /\ \A s \in SUBSET S :
             ft[s] = IF s = {} THEN 0 ELSE f[Chosen(s)] + ft[s \ {Chosen(s)}]
        /\ Sum(f) = ft[S]
  BY SumUnfolds
<1>2. PICK dt \in [SUBSET S -> Int] :
        /\ \A s \in SUBSET S :
             dt[s] = IF s = {} THEN 0 ELSE d[Chosen(s)] + dt[s \ {Chosen(s)}]
        /\ Sum(d) = dt[S]
  BY SumUnfolds
<1>3. PICK gt \in [SUBSET S -> Int] :
        /\ \A s \in SUBSET S :
             gt[s] = IF s = {} THEN 0 ELSE g[Chosen(s)] + gt[s \ {Chosen(s)}]
        /\ Sum(g) = gt[S]
  BY SumUnfolds
<1> DEFINE Good == {s \in SUBSET S : gt[s] = ft[s] + dt[s]}
<1>4. {} \in Good
  <2>1. {} \in SUBSET S
    OBVIOUS
  <2>2. ft[{}] = 0 /\ dt[{}] = 0 /\ gt[{}] = 0
    BY <1>1, <1>2, <1>3, <2>1
  <2> QED BY <2>1, <2>2
<1>5. ASSUME NEW s \in SUBSET S, s # {}, s \ {Chosen(s)} \in Good PROVE s \in Good
  <2>1. PICK c \in S : c = Chosen(s)
    BY <1>5 DEF Chosen
  <2>2. PICK less \in SUBSET S : less = s \ {c}
    OBVIOUS
  <2>3. gt[s] = g[c] + gt[less] /\ ft[s] = f[c] + ft[less] /\ dt[s] = d[c] + dt[less]
    BY <1>1, <1>2, <1>3, <1>5, <2>1, <2>2
  <2>4. gt[less] = ft[less] + dt[less]
    BY <1>5, <2>1, <2>2
  <2>5. /\ g[c] = f[c] + d[c] /\ f[c] \in Int /\ d[c] \in Int
        /\ ft[less] \in Int /\ dt[less] \in Int
    OBVIOUS
  <2> QED BY <2>3, <2>4, <2>5
<1>6. \A s \in SUBSET S : s \in Good
  <2> HIDE DEF Good
  <2> QED BY <1>4, <1>5, SubsetInduction
<1>7. ft[S] \in Int /\ dt[S] \in Int
  OBVIOUS
<1> QED BY <1>1, <1>2, <1>3, <1>6, <1>7

\* What is k on a block and nothing elsewhere sums to k for each of its members.
LEMMA SumOfBlock ==
    ASSUME NEW S, IsFiniteSet(S), NEW M \in SUBSET S, NEW k \in Int,
           NEW f \in [S -> Int], \A x \in S : f[x] = IF x \in M THEN k ELSE 0
    PROVE  Sum(f) = k * Cardinality(M)
<1>1. PICK it \in [SUBSET S -> Int] :
        /\ \A s \in SUBSET S :
             it[s] = IF s = {} THEN 0 ELSE f[Chosen(s)] + it[s \ {Chosen(s)}]
        /\ Sum(f) = it[S]
  BY SumUnfolds
<1>2. \A s \in SUBSET S : IsFiniteSet(M \cap s) /\ Cardinality(M \cap s) \in Nat
  BY FS_Subset, FS_CardinalityType
<1> DEFINE Good == {s \in SUBSET S : it[s] = k * Cardinality(M \cap s)}
<1>3. {} \in Good
  <2>1. M \cap {} = {} /\ Cardinality({}) = 0 /\ k * 0 = 0
    BY FS_EmptySet
  <2> QED BY <1>1, <2>1
<1>4. ASSUME NEW s \in SUBSET S, s # {}, s \ {Chosen(s)} \in Good PROVE s \in Good
  <2>1. PICK c \in S : c = Chosen(s)
    BY <1>4 DEF Chosen
  <2>2. c \in s
    BY <1>4, <2>1 DEF Chosen
  <2>3. PICK less \in SUBSET S : less = s \ {c}
    OBVIOUS
  <2>4. it[s] = f[c] + it[less] /\ it[less] = k * Cardinality(M \cap less)
    BY <1>1, <1>4, <2>1, <2>3
  <2>5. M \cap less = (M \cap s) \ {c}
    BY <2>3
  <2>6. Cardinality(M \cap less) =
          IF c \in M \cap s THEN Cardinality(M \cap s) - 1 ELSE Cardinality(M \cap s)
    BY <1>2, <2>5, FS_RemoveElement
  <2>7. PICK z \in Nat : z = Cardinality(M \cap s)
    BY <1>2
  <2>8. CASE c \in M
    <3>1. it[s] = k + k * (z - 1)
      BY <2>2, <2>4, <2>6, <2>7, <2>8
    <3>2. k + k * (z - 1) = k * z
      OBVIOUS
    <3> QED BY <2>7, <3>1, <3>2
  <2>9. CASE c \notin M
    <3>1. it[s] = 0 + k * z /\ k * z \in Int
      BY <2>2, <2>4, <2>6, <2>7, <2>9
    <3> QED BY <2>7, <3>1
  <2> QED BY <2>8, <2>9
<1>5. \A s \in SUBSET S : s \in Good
  <2> HIDE DEF Good
  <2> QED BY <1>3, <1>4, SubsetInduction
<1>6. M \cap S = M
  OBVIOUS
<1> QED BY <1>1, <1>5, <1>6

\* Changing a function by k on a block changes its sum by k for each member.
Shifted(S, f, M, k, g) == \A x \in S : g[x] = IF x \in M THEN f[x] + k ELSE f[x]
Block(M, k) == k * Cardinality(M)

LEMMA BlockShift ==
    ASSUME NEW S, IsFiniteSet(S), NEW M \in SUBSET S, NEW k \in Int,
           NEW f \in [S -> Int], NEW g \in [S -> Int], Shifted(S, f, M, k, g)
    PROVE  Sum(f) \in Int /\ Sum(g) = Sum(f) + Block(M, k)
<1>1. PICK d : d = [x \in S |-> IF x \in M THEN k ELSE 0]
  OBVIOUS
<1>2. d \in [S -> Int] /\ \A x \in S : d[x] = IF x \in M THEN k ELSE 0
  BY <1>1
<1>3. \A x \in S : g[x] = f[x] + d[x]
  BY <1>2 DEF Shifted
<1>4. Sum(f) \in Int /\ Sum(g) = Sum(f) + Sum(d)
  BY <1>2, <1>3, SumAdds
<1> QED BY <1>2, <1>4, SumOfBlock DEF Block

\* A change at one point changes the sum as much.
ShiftedAt(S, f, y, k, g) == \A x \in S : g[x] = IF x = y THEN f[x] + k ELSE f[x]

LEMMA PointShift ==
    ASSUME NEW S, IsFiniteSet(S), NEW y \in S, NEW k \in Int,
           NEW f \in [S -> Int], NEW g \in [S -> Int], ShiftedAt(S, f, y, k, g)
    PROVE  Sum(f) \in Int /\ Sum(g) = Sum(f) + k
<1>1. \A x \in S : g[x] = IF x \in {y} THEN f[x] + k ELSE f[x]
  BY DEF ShiftedAt
<1>2. PICK M \in SUBSET S : M = {y}
  OBVIOUS
<1>3. Shifted(S, f, M, k, g)
  BY <1>1, <1>2 DEF Shifted
<1>4. Sum(f) \in Int /\ Sum(g) = Sum(f) + Block(M, k)
  BY <1>3, BlockShift
<1>5. Cardinality(M) = 1
  <2>1. Cardinality({y}) = 1
    BY FS_Singleton, Zenon
  <2> QED BY <1>2, <2>1
<1>6. Block(M, k) = k
  <2>1. k * 1 = k
    OBVIOUS
  <2> QED BY <1>5, <2>1 DEF Block
<1> QED BY <1>4, <1>6

-----------------------------------------------------------------------------
(* Every asset is conserved                                                 *)

\* The places of value are finitely many.
LEMMA PlacesFinite ==
    /\ IsFiniteSet(Holders)
    /\ IsFiniteSet(Pdas \X Mints)
<1>1. IsFiniteSet(Nonces)
  BY CountAssumption, FS_Interval DEF Nonces
<1>2. IsFiniteSet(Owners)
  BY PartiesAssumption, FS_Subset
<1>3. IsFiniteSet(Pdas)
  BY <1>1, <1>2, FS_Product DEF Pdas
<1>4. IsFiniteSet(Pdas \X Mints)
  BY <1>3, PartiesAssumption, FS_Product
<1>5. IsFiniteSet(Wallets \cup Pdas)
  BY <1>3, PartiesAssumption, FS_Union
<1>6. IsFiniteSet(Holders)
  BY <1>5, FS_AddElement DEF Holders
<1> QED BY <1>4, <1>6

\* What a holder gains of an asset, all gain.
Credited(b, h, a, n, c) ==
    \A q \in Holders, x \in Assets :
        c[q][x] = IF q = h /\ x = a THEN b[q][x] + n ELSE b[q][x]

LEMMA CreditCounts ==
    ASSUME NEW b \in IntLedgers, NEW h \in Holders, NEW a \in Assets, NEW n \in Int,
           NEW c \in IntLedgers, Credited(b, h, a, n, c), NEW x \in Assets
    PROVE  /\ Held(b, x) \in Int
           /\ Held(c, x) = IF x = a THEN Held(b, x) + n ELSE Held(b, x)
<1>1. PICK f : f = [q \in Holders |-> b[q][x]]
  OBVIOUS
<1>2. PICK g : g = [q \in Holders |-> c[q][x]]
  OBVIOUS
<1>3. Held(b, x) = Sum(f) /\ Held(c, x) = Sum(g)
  BY <1>1, <1>2 DEF Held, Sum
<1>4. f \in [Holders -> Int] /\ g \in [Holders -> Int]
  BY <1>1, <1>2 DEF IntLedgers
<1>5. CASE x = a
  <2>1. ShiftedAt(Holders, f, h, n, g)
    BY <1>1, <1>2, <1>5 DEF Credited, ShiftedAt
  <2>2. Sum(f) \in Int /\ Sum(g) = Sum(f) + n
    BY <1>4, <2>1, PlacesFinite, PointShift
  <2> QED BY <1>3, <1>5, <2>2
<1>6. CASE x # a
  <2>1. ShiftedAt(Holders, f, h, 0, g)
    <3>1. \A q \in Holders : g[q] = f[q]
      BY <1>1, <1>2, <1>6 DEF Credited
    <3>2. \A q \in Holders : f[q] + 0 = f[q]
      BY <1>4
    <3> QED BY <3>1, <3>2 DEF ShiftedAt
  <2>2. 0 \in Int
    OBVIOUS
  <2>3. Sum(f) \in Int /\ Sum(g) = Sum(f) + 0
    BY <1>4, <2>1, <2>2, PlacesFinite, PointShift
  <2> QED BY <1>3, <1>6, <2>3
<1> QED BY <1>5, <1>6

\* A ledger of integers, and another that holds as much of every asset.
SameWealth(b, c) ==
    /\ c \in IntLedgers
    /\ \A x \in Assets : Held(c, x) = Held(b, x)

\* A transfer, to whomever, leaves as much of every asset as there was.
LEMMA MoveConserves ==
    ASSUME NEW b \in IntLedgers, NEW from \in Holders, NEW to \in Holders,
           NEW a \in Assets, NEW n \in Int
    PROVE  SameWealth(b, Move(b, from, to, a, n))
<1>1. PICK d : d = [b EXCEPT ![from][a] = @ - n]
  OBVIOUS
<1>2. PICK c : c = [d EXCEPT ![to][a] = @ + n]
  OBVIOUS
<1>3. Move(b, from, to, a, n) = c
  BY <1>1, <1>2 DEF Move
<1>4. d \in IntLedgers /\ Credited(b, from, a, 0 - n, d)
  BY <1>1 DEF IntLedgers, Credited
<1>5. c \in IntLedgers /\ Credited(d, to, a, n, c)
  BY <1>2, <1>4 DEF IntLedgers, Credited
<1>6. 0 - n \in Int
  OBVIOUS
<1>7. ASSUME NEW x \in Assets PROVE Held(c, x) = Held(b, x)
  <2>1. /\ Held(b, x) \in Int
        /\ Held(d, x) = IF x = a THEN Held(b, x) + (0 - n) ELSE Held(b, x)
    BY <1>4, <1>6, CreditCounts
  <2>2. Held(c, x) = IF x = a THEN Held(d, x) + n ELSE Held(d, x)
    BY <1>4, <1>5, CreditCounts
  <2> QED BY <2>1, <2>2
<1> QED BY <1>3, <1>5, <1>7 DEF SameWealth

LEMMA SameWealthTwice ==
    ASSUME NEW b, NEW c, NEW d, SameWealth(b, c), SameWealth(c, d)
    PROVE  SameWealth(b, d) /\ c \in IntLedgers /\ d \in IntLedgers
BY DEF SameWealth

LEMMA BalIntegers ==
    ASSUME AccountsOK
    PROVE  bal \in IntLedgers /\ SameWealth(bal, bal)
BY DEF AccountsOK, IntLedgers, SameWealth

-----------------------------------------------------------------------------
(* What the instructions that open and close no token account pay, they     *)
(* pay from one holder to another.                                          *)
Pays == SameWealth(bal, bal') /\ ata' = ata

LEMMA MoveAgain ==
    ASSUME NEW b, NEW c \in IntLedgers, SameWealth(b, c),
           NEW from \in Holders, NEW to \in Holders, NEW a \in Assets, NEW n \in Int
    PROVE  /\ Move(c, from, to, a, n) \in IntLedgers
           /\ SameWealth(b, Move(c, from, to, a, n))
<1>1. SameWealth(c, Move(c, from, to, a, n))
  BY MoveConserves
<1> QED BY <1>1 DEF SameWealth

LEMMA CreateConserves ==
    ASSUME AccountsOK, NEW o \in Owners, NEW r \in Requests, CreateRule(o, r)
    PROVE  Pays
<1>1. PICK asset \in Assets, deposit \in Nat : Create(o, r, asset, deposit)
  <2>1. r.action.amount \in Nat /\ r.action.mint \in Assets /\ r.seed_amount \in Nat
        /\ r.action.amount * TotalFires(r.cadence) \in Nat /\ Sol \in Assets
    BY RequestTypes, Places
  <2>2. QED
    BY <2>1 DEF CreateRule, create_automation, create_automation_spl,
                create_automation_swap, create_automation_swap_linked
<1>2. PICK p : p = <<o, config.automation_count>>
  OBVIOUS
<1>3. PICK fee : fee = compute_time_fee(r.cadence, now, config.time_fee_lamports_per_day)
  OBVIOUS
<1>4. PICK rent : rent = IF bal[p][Sol] >= Rent THEN 0 ELSE Rent - bal[p][Sol]
  OBVIOUS
<1>5. /\ o \in Holders /\ p \in Holders /\ Sol \in Assets /\ config.keeper \in Holders
      /\ deposit \in Int
  <2>1. p \in Pdas
    BY <1>1, <1>2, CreatePays
  <2> QED BY <2>1, Places DEF AccountsOK, Configs
<1>6. fee \in Int
  BY <1>3, TimeFeeBounds, RequestTypes, FeeAssumption DEF AccountsOK, Configs
<1>7. rent \in Int
  BY <1>4, <1>5, AmountsAssumption, LedgerNat DEF AccountsOK, Ledgers
<1>8. /\ bal' = Move(Move(Move(bal, o, p, Sol, rent), o, p, asset, deposit),
                     o, config.keeper, Sol, fee)
      /\ ata' = ata
  BY <1>1, <1>2, <1>3, <1>4 DEF Create
<1>9. PICK b1 : b1 = Move(bal, o, p, Sol, rent)
  OBVIOUS
<1>10. b1 \in IntLedgers /\ SameWealth(bal, b1)
  BY <1>5, <1>7, <1>9, BalIntegers, MoveAgain
<1>11. PICK b2 : b2 = Move(b1, o, p, asset, deposit)
  OBVIOUS
<1>12. b2 \in IntLedgers /\ SameWealth(bal, b2)
  BY <1>5, <1>10, <1>11, MoveAgain
<1>13. bal' = Move(b2, o, config.keeper, Sol, fee)
  BY <1>8, <1>9, <1>11
<1>14. SameWealth(bal, bal')
  BY <1>5, <1>6, <1>12, <1>13, MoveAgain
<1> QED BY <1>8, <1>14 DEF Pays

\* One payment of a rule, or to a rule.
LEMMA PaymentPays ==
    ASSUME AccountsOK, NEW from \in Holders, NEW to \in Holders, NEW a \in Assets, NEW n \in Int,
           bal' = Move(bal, from, to, a, n), ata' = ata
    PROVE  Pays
<1>1. SameWealth(bal, Move(bal, from, to, a, n))
  BY BalIntegers, MoveConserves
<1> QED BY <1>1 DEF Pays

LEMMA TransfersConserve ==
    ASSUME AccountsOK, NEW p \in Pdas, Open(p), transfer_sol(p) \/ transfer_spl(p)
    PROVE  Pays
<1>1. PICK d : d = autos[p].action.destination
  OBVIOUS
<1>2. PICK n : n = autos[p].action.amount
  OBVIOUS
<1>3. /\ d \in Holders /\ n \in Int /\ p \in Holders /\ Sol \in Assets
      /\ autos[p].action.mint \in Assets
  BY <1>1, <1>2, OpenRule, Places
<1>4. PICK a \in Assets : bal' = Move(bal, p, d, a, n) /\ ata' = ata
  <2>1. CASE transfer_sol(p)
    <3>1. bal' = Move(bal, p, d, Sol, n) /\ ata' = ata
      BY <1>1, <1>2, <2>1 DEF transfer_sol
    <3> QED BY <1>3, <3>1
  <2>2. CASE transfer_spl(p)
    <3>1. bal' = Move(bal, p, d, autos[p].action.mint, n) /\ ata' = ata
      BY <1>1, <1>2, <2>2 DEF transfer_spl
    <3> QED BY <1>3, <3>1
  <2> QED BY <2>1, <2>2
<1> QED BY <1>3, <1>4, PaymentPays

\* A trade with the pools is two payments.
LEMMA TradeConserves ==
    ASSUME AccountsOK, NEW p \in Holders, NEW to \in Holders, NEW m \in Mints, NEW w \in Mints,
           NEW used \in Int, NEW got \in Int,
           NEW c, c = Move(Move(bal, p, Pool, m, used), Pool, to, w, got)
    PROVE  c \in IntLedgers /\ SameWealth(bal, c)
<1>1. PICK b1 : b1 = Move(bal, p, Pool, m, used)
  OBVIOUS
<1>2. Pool \in Holders /\ m \in Assets /\ w \in Assets
  BY Places
<1>3. b1 \in IntLedgers /\ SameWealth(bal, b1)
  BY <1>1, <1>2, BalIntegers, MoveAgain
<1>4. c = Move(b1, Pool, to, w, got)
  BY <1>1
<1> QED BY <1>2, <1>3, <1>4, MoveAgain

LEMMA ConvertConserves ==
    ASSUME AccountsOK, NEW k \in Wallets, NEW p \in Pdas, Open(p), Convert(k, p)
    PROVE  Pays
<1>1. PICK m \in Mints, got \in Fills : \E u \in Spends(p, m) :
        execute_fee_topup(k, p, m, u, got) \/ execute_bridge(k, p, m, u, got)
  BY DEF Convert
<1> PICK used \in Spends(p, m) :
      execute_fee_topup(k, p, m, used, got) \/ execute_bridge(k, p, m, used, got)
  BY <1>1
<1>2. got \in Int /\ used \in Int /\ p \in Holders /\ k \in Holders
  BY AmountsAssumption, Places DEF Spends
<1>3. PICK w \in Mints, to \in Holders :
        /\ bal' = Move(Move(bal, p, Pool, m, used), Pool, to, w, got)
        /\ ata' = ata
  <2>1. CASE execute_fee_topup(k, p, m, used, got)
    BY <1>2, <2>1, PartiesAssumption DEF execute_fee_topup
  <2>2. CASE execute_bridge(k, p, m, used, got)
    BY <1>2, <2>2, OpenRule DEF execute_bridge
  <2>3. QED
    BY <2>1, <2>2
<1> QED BY <1>2, <1>3, TradeConserves DEF Pays

LEMMA SwapConserves ==
    ASSUME AccountsOK, NEW p \in Pdas, Open(p), NEW got \in Fills,
           NEW used \in Spends(p, autos[p].action.mint), swap(p, used, got)
    PROVE  Pays
<1>1. PICK d : d = autos[p].action.destination
  OBVIOUS
<1>2. PICK m : m = autos[p].action.mint
  OBVIOUS
<1>3. PICK w : w = autos[p].action.output_mint
  OBVIOUS
<1>4. PICK fee : fee = swap_fee(got)
  OBVIOUS
<1>5. /\ d \in Holders /\ m \in Mints /\ w \in Mints /\ p \in Holders /\ w \in Assets
      /\ config \in Configs /\ config.treasury \in Holders /\ Sol \in Assets
  BY <1>1, <1>2, <1>3, OpenRule, Places DEF AccountsOK, Configs
<1>6. got \in Nat /\ used \in Int
  BY AmountsAssumption DEF Spends
<1>7. fee \in Int
  BY <1>4, <1>5, <1>6, SwapFeeBound
<1>8. PICK routed : routed = Move(Move(bal, p, Pool, m, used), Pool, d, w, got)
  OBVIOUS
<1>9. routed \in IntLedgers /\ SameWealth(bal, routed)
  BY <1>5, <1>6, <1>8, TradeConserves
<1>10. PICK paid : paid = Move(routed, d, config.treasury, w, fee)
  OBVIOUS
<1>11. paid \in IntLedgers /\ SameWealth(bal, paid)
  BY <1>5, <1>7, <1>9, <1>10, MoveAgain
<1>12. bal' = LinkDeposit(paid, p) /\ ata' = ata
  BY <1>1, <1>2, <1>3, <1>4, <1>8, <1>10 DEF swap
<1>13. SameWealth(bal, LinkDeposit(paid, p))
  <2>1. CASE autos[p].action.linked_downstream = NoLink
    BY <1>11, <2>1 DEF LinkDeposit
  <2>2. CASE autos[p].action.linked_downstream # NoLink
    <3>1. PICK e : e = autos[p].action.linked_downstream
      OBVIOUS
    <3>2. PICK n : n = autos[p].action.link_fee_deposit
      OBVIOUS
    <3>3. e \in Holders /\ n \in Int
      BY <2>2, <3>1, <3>2, OpenRule, Places
    <3>4. LinkDeposit(paid, p) = Move(paid, p, e, Sol, n)
      BY <2>2, <3>1, <3>2 DEF LinkDeposit
    <3> QED BY <1>5, <1>11, <3>3, <3>4, MoveAgain
  <2> QED BY <2>1, <2>2
<1> QED BY <1>12, <1>13 DEF Pays

LEMMA KeeperPays ==
    ASSUME AccountsOK, NEW k \in Wallets, NEW p \in Pdas, KeeperStep(k, p)
    PROVE  Pays
<1>1. Open(p)
  BY DEF KeeperStep
<1>2. ASSUME handle_until_expiry(p) PROVE Pays
  BY <1>2, BalIntegers DEF handle_until_expiry, ledger, Pays
<1>3. CASE execute_automation(k, p)
  BY <1>1, <1>2, <1>3, TransfersConserve DEF execute_automation
<1>4. CASE execute_automation_spl(k, p)
  BY <1>1, <1>2, <1>4, TransfersConserve DEF execute_automation_spl
<1>5. CASE FireSwap(k, p)
  BY <1>1, <1>2, <1>5, SwapConserves DEF FireSwap, execute_swap
<1>6. CASE Convert(k, p)
  BY <1>1, <1>6, ConvertConserves
<1>7. CASE \E fee \in 1..MaxLinkFee : execute_link_fee_debit(k, p, fee)
  <2>1. PICK fee \in 1..MaxLinkFee : execute_link_fee_debit(k, p, fee)
    BY <1>7
  <2>2. bal' = Move(bal, p, config.keeper, Sol, fee) /\ ata' = ata
    BY <2>1 DEF execute_link_fee_debit
  <2>3. p \in Holders /\ config.keeper \in Holders /\ Sol \in Assets /\ fee \in Int
    BY Places, AmountsAssumption DEF AccountsOK, Configs
  <2> QED BY <2>2, <2>3, PaymentPays
<1> QED BY <1>3, <1>4, <1>5, <1>6, <1>7 DEF KeeperStep

LEMMA TopUpPays ==
    ASSUME AccountsOK, NEW o \in Owners, NEW p \in Pdas, NEW x \in TopUps, top_up(o, p, x)
    PROVE  Pays
<1>1. bal' = Move(bal, o, p, Sol, x) /\ ata' = ata
  BY DEF top_up
<1>2. o \in Holders /\ p \in Holders /\ Sol \in Assets /\ x \in Int
  BY Places, AmountsAssumption
<1> QED BY <1>1, <1>2, PaymentPays

-----------------------------------------------------------------------------
(* A token account of a rule holds its rent from the setup transaction on   *)
(* until the close that hands it back.                                      *)
AtaSizes == \A p \in Pdas, m \in Mints : ata[p][m] \in {0, AtaRent}

IntAtas == [Pdas -> [Mints -> Int]]

\* Token accounts that open or close with k lamports each.
Resized(t, M, k, u) ==
    \A p \in Pdas, m \in Mints :
        u[p][m] = IF <<p, m>> \in M THEN t[p][m] + k ELSE t[p][m]

LEMMA RentsCount ==
    ASSUME NEW t \in IntAtas, NEW u \in IntAtas, NEW M \in SUBSET (Pdas \X Mints),
           NEW k \in Int, Resized(t, M, k, u)
    PROVE  AtaRents(t) \in Int /\ AtaRents(u) = AtaRents(t) + Block(M, k)
<1>1. PICK S : S = Pdas \X Mints
  OBVIOUS
<1>2. PICK f : f = [q \in S |-> t[q[1]][q[2]]]
  OBVIOUS
<1>3. PICK g : g = [q \in S |-> u[q[1]][q[2]]]
  OBVIOUS
<1>4. AtaRents(t) = Sum(f) /\ AtaRents(u) = Sum(g)
  BY <1>1, <1>2, <1>3 DEF AtaRents, Sum
<1>5. \A q \in S : q[1] \in Pdas /\ q[2] \in Mints /\ q = <<q[1], q[2]>>
  BY <1>1
<1>6. f \in [S -> Int] /\ g \in [S -> Int]
  BY <1>2, <1>3, <1>5 DEF IntAtas
<1>7. Shifted(S, f, M, k, g)
  BY <1>2, <1>3, <1>5 DEF Resized, Shifted
<1>8. IsFiniteSet(S) /\ M \in SUBSET S
  BY <1>1, PlacesFinite
<1> QED BY <1>4, <1>6, <1>7, <1>8, BlockShift

\* What is taken off a block is what was put there.
LEMMA BlockOpposite ==
    ASSUME NEW M, Cardinality(M) \in Nat, NEW k \in Int
    PROVE  /\ Block(M, k) \in Int
           /\ Block(M, 0 - k) = 0 - Block(M, k)
<1>1. PICK n \in Nat : n = Cardinality(M)
  OBVIOUS
<1>2. k * n \in Int /\ (0 - k) * n = 0 - k * n
  OBVIOUS
<1> QED BY <1>1, <1>2 DEF Block

\* What goes from wallets into token accounts and back stays as much.
LEMMA LamportsOver ==
    ASSUME NEW n \in Int, \A a \in Assets : Held(bal, a) \in Int, AtaRents(ata) \in Int,
           \A a \in Assets : Held(bal', a) = IF a = Sol THEN Held(bal, a) + n ELSE Held(bal, a),
           AtaRents(ata') = AtaRents(ata) + (0 - n)
    PROVE  \A a \in Assets : TotalOf(a)' = TotalOf(a)
<1>1. ASSUME NEW a \in Assets PROVE TotalOf(a)' = TotalOf(a)
  <2>1. /\ Held(bal', a) = IF a = Sol THEN Held(bal, a) + n ELSE Held(bal, a)
        /\ Held(bal, a) \in Int
    OBVIOUS
  <2>2. TotalOf(a)' = Held(bal', a) + (IF a = Sol THEN AtaRents(ata') ELSE 0)
    BY DEF TotalOf
  <2> QED BY <2>1, <2>2 DEF TotalOf
<1> QED BY <1>1

\* A ledger of integers holds integer totals.
LEMMA TotalsInt ==
    ASSUME AccountsOK
    PROVE  /\ \A a \in Assets : Held(bal, a) \in Int
           /\ AtaRents(ata) \in Int
           /\ ata \in IntAtas
<1>1. bal \in IntLedgers /\ ata \in IntAtas
  BY DEF AccountsOK, IntLedgers, IntAtas
<1>2. ASSUME NEW a \in Assets PROVE Held(bal, a) \in Int
  <2>1. Pool \in Holders /\ 0 \in Int
    BY Places
  <2>2. Credited(bal, Pool, a, 0, bal)
    BY <1>1 DEF Credited, IntLedgers
  <2> QED BY <1>1, <2>1, <2>2, CreditCounts
<1>3. AtaRents(ata) \in Int
  <2>1. {} \in SUBSET (Pdas \X Mints) /\ 0 \in Int
    OBVIOUS
  <2>2. Resized(ata, {}, 0, ata)
    BY DEF Resized
  <2> QED BY <1>1, <2>1, <2>2, RentsCount
<1> QED BY <1>1, <1>2, <1>3

\* The setup transaction turns lamports of the owner into rent.
LEMMA SetupConserves ==
    ASSUME AccountsOK, AtaSizes, NEW o \in Owners, NEW r \in Requests, setup_atas(o, r)
    PROVE  AtaSizes' /\ \A a \in Assets : TotalOf(a)' = TotalOf(a)
<1>1. PICK M : M = MissingAtas(o, r)
  OBVIOUS
<1>2. M \in SUBSET (Pdas \X Mints) /\ \A q \in M : ata[q[1]][q[2]] = 0
  <2>1. r.action.mint \in Mints /\ r.action.output_mint \in Mints
    BY RequestTypes DEF Actions
  <2>2. \A q \in {<<<<o, config.automation_count>>, r.action.mint>>,
                  <<r.action.destination, r.action.output_mint>>} :
          q[1] \in Pdas => q \in Pdas \X Mints
    BY <2>1
  <2> QED BY <1>1, <2>2 DEF MissingAtas
<1>3. Cardinality(M) \in Nat
  BY <1>2, PlacesFinite, FS_Subset, FS_CardinalityType
<1>4. PICK cost : cost = Block(M, AtaRent)
  OBVIOUS
<1>5. AtaRent \in Int /\ cost \in Int
  BY <1>3, <1>4, AmountsAssumption, BlockOpposite
<1>6. /\ bal' = [bal EXCEPT ![o][Sol] = @ - cost]
      /\ ata' = [p \in Pdas |-> [m \in Mints |->
                   IF <<p, m>> \in M THEN AtaRent ELSE ata[p][m]]]
  BY <1>1, <1>4 DEF setup_atas, Block
<1>7. o \in Holders /\ Sol \in Assets /\ bal \in IntLedgers
  BY Places, BalIntegers
<1>8. bal' \in IntLedgers /\ Credited(bal, o, Sol, 0 - cost, bal')
  BY <1>5, <1>6, <1>7 DEF IntLedgers, Credited
<1>9. ASSUME NEW a \in Assets
      PROVE  Held(bal', a) = IF a = Sol THEN Held(bal, a) + (0 - cost) ELSE Held(bal, a)
  <2>1. 0 - cost \in Int
    BY <1>5
  <2> QED BY <1>7, <1>8, <2>1, CreditCounts
<1>10. ata \in IntAtas /\ ata' \in IntAtas
  BY <1>5, <1>6, TotalsInt DEF IntAtas
<1>11. ASSUME NEW p \in Pdas, NEW m \in Mints
       PROVE  /\ ata'[p][m] = IF <<p, m>> \in M THEN ata[p][m] + AtaRent ELSE ata[p][m]
              /\ ata'[p][m] \in {0, AtaRent}
  <2>1. ata'[p][m] = IF <<p, m>> \in M THEN AtaRent ELSE ata[p][m]
    BY <1>6
  <2>2. <<p, m>> \in M => ata[p][m] = 0
    <3>1. PICK q : q = <<p, m>>
      OBVIOUS
    <3>2. q[1] = p /\ q[2] = m
      BY <3>1
    <3> QED BY <1>2, <3>1, <3>2
  <2> QED BY <1>5, <2>1, <2>2 DEF AtaSizes
<1>12. Resized(ata, M, AtaRent, ata')
  BY <1>11 DEF Resized
<1>13. AtaRents(ata') = AtaRents(ata) + cost
  BY <1>2, <1>4, <1>5, <1>10, <1>12, RentsCount
<1>14. AtaSizes'
  BY <1>11 DEF AtaSizes
<1>15. 0 - cost \in Int /\ 0 - (0 - cost) = cost
  BY <1>5
<1>16. AtaRents(ata') = AtaRents(ata) + (0 - (0 - cost))
  BY <1>13, <1>15
<1>17. \A a \in Assets : TotalOf(a)' = TotalOf(a)
  BY <1>9, <1>15, <1>16, TotalsInt, LamportsOver
<1> QED BY <1>14, <1>17

\* The drained tokens go to the owner, the rent of their accounts to the payee.
LEMMA DrainConserves ==
    ASSUME AccountsOK, NEW p \in Pdas, NEW ms \in SUBSET Mints, NEW payee \in Wallets,
           NEW c, c = DrainAtas(p, ms, payee), NEW n \in Int, n = AtaRent * Cardinality(ms)
    PROVE  /\ c \in IntLedgers
           /\ \A a \in Assets :
                Held(c, a) = IF a = Sol THEN Held(bal, a) + n ELSE Held(bal, a)
<1>1. /\ p \in Holders /\ payee \in Holders /\ p[1] \in Holders /\ p[1] # p /\ Sol \in Assets
      /\ Sol \notin ms /\ bal \in IntLedgers
  BY Places, BalIntegers, PartiesAssumption
<1>2. PICK drained : drained = [h \in Holders |->
            [a \in Assets |->
                IF a \notin ms THEN bal[h][a]
                ELSE IF h = p THEN 0
                ELSE IF h = p[1] THEN bal[h][a] + bal[p][a] ELSE bal[h][a]]]
  OBVIOUS
<1>3. c = [drained EXCEPT ![payee][Sol] = @ + n]
  BY <1>2 DEF DrainAtas
<1>4. ASSUME NEW h \in Holders, NEW a \in Assets
      PROVE  bal[h][a] \in Int /\ bal[p][a] \in Int
  BY <1>1 DEF IntLedgers
<1>5. drained \in IntLedgers
  BY <1>2, <1>4 DEF IntLedgers
<1>6. c \in IntLedgers /\ Credited(drained, payee, Sol, n, c)
  BY <1>1, <1>3, <1>5 DEF IntLedgers, Credited
<1>7. ASSUME NEW a \in Assets PROVE Held(drained, a) = Held(bal, a)
  <2>1. PICK f : f = [h \in Holders |-> bal[h][a]]
    OBVIOUS
  <2>2. PICK g : g = [h \in Holders |-> drained[h][a]]
    OBVIOUS
  <2>3. Held(bal, a) = Sum(f) /\ Held(drained, a) = Sum(g)
    BY <2>1, <2>2 DEF Held, Sum
  <2>4. CASE a \notin ms
    <3>1. f = g
      BY <1>2, <2>1, <2>2, <2>4
    <3> QED BY <2>3, <3>1
  <2>5. CASE a \in ms
    <3>1. PICK n1 \in Int : n1 = bal[p][a]
      BY <1>1, <1>4
    <3>2. PICK mid : mid = [h \in Holders |-> IF h = p THEN 0 ELSE bal[h][a]]
      OBVIOUS
    <3>3. f \in [Holders -> Int] /\ mid \in [Holders -> Int] /\ g \in [Holders -> Int]
      BY <1>4, <1>5, <2>1, <2>2, <3>2 DEF IntLedgers
    <3>4. ShiftedAt(Holders, f, p, 0 - n1, mid)
      BY <1>4, <2>1, <3>1, <3>2 DEF ShiftedAt
    <3>5. ShiftedAt(Holders, mid, p[1], n1, g)
      <4>1. ASSUME NEW h \in Holders
            PROVE  g[h] = IF h = p THEN 0
                          ELSE IF h = p[1] THEN bal[h][a] + bal[p][a] ELSE bal[h][a]
        BY <1>2, <2>2, <2>5
      <4> QED BY <1>1, <3>1, <3>2, <4>1 DEF ShiftedAt
    <3>6. 0 - n1 \in Int
      OBVIOUS
    <3>7. Sum(f) \in Int /\ Sum(mid) = Sum(f) + (0 - n1)
      BY <1>1, <3>3, <3>4, <3>6, PlacesFinite, PointShift
    <3>8. Sum(g) = Sum(mid) + n1
      BY <1>1, <3>3, <3>5, PlacesFinite, PointShift
    <3> QED BY <2>3, <3>7, <3>8
  <2> QED BY <2>4, <2>5
<1>8. ASSUME NEW a \in Assets
      PROVE  Held(c, a) = IF a = Sol THEN Held(drained, a) + n ELSE Held(drained, a)
  BY <1>1, <1>5, <1>6, CreditCounts
<1> QED BY <1>6, <1>7, <1>8

\* The lamports of a close go to the owner and the treasury.
LEMMA SplitConserves ==
    ASSUME AccountsOK, NEW b \in IntLedgers, NEW p \in Pdas,
           NEW c, c = SplitLamports(b, p)
    PROVE  SameWealth(b, c)
<1>1. /\ p \in Holders /\ p[1] \in Holders /\ config.treasury \in Holders /\ Sol \in Assets
      /\ Rent \in Int
  BY Places, AmountsAssumption DEF AccountsOK, Configs
<1>2. PICK refund : refund = IF b[p][Sol] > Rent THEN b[p][Sol] - Rent ELSE 0
  OBVIOUS
<1>3. PICK rest : rest = b[p][Sol] - refund
  OBVIOUS
<1>4. b[p][Sol] \in Int
  BY <1>1 DEF IntLedgers
<1>5. refund \in Int /\ rest \in Int
  BY <1>1, <1>2, <1>3, <1>4
<1>6. c = Move(Move(b, p, p[1], Sol, refund), p, config.treasury, Sol, rest)
  BY <1>2, <1>3 DEF SplitLamports
<1>7. PICK d : d = Move(b, p, p[1], Sol, refund)
  OBVIOUS
<1>8. d \in IntLedgers /\ SameWealth(b, d)
  BY <1>1, <1>5, <1>7, MoveConserves DEF SameWealth
<1>9. c = Move(d, p, config.treasury, Sol, rest)
  BY <1>6, <1>7
<1> QED BY <1>1, <1>5, <1>8, <1>9, MoveAgain

\* A close hands back what the rule and its token accounts held.
LEMMA CloseConserves ==
    ASSUME AccountsOK, AtaSizes, NEW p \in Pdas, NEW ms \in SUBSET Mints,
           NEW payee \in Wallets, NEW how, Close(p, ms, payee, how)
    PROVE  AtaSizes' /\ \A a \in Assets : TotalOf(a)' = TotalOf(a)
<1>1. IsFiniteSet(ms) /\ Cardinality(ms) \in Nat
  BY PartiesAssumption, FS_Subset, FS_CardinalityType
<1>2. PICK M : M = {p} \X ms
  OBVIOUS
<1>3. M \in SUBSET (Pdas \X Mints) /\ \A q \in Pdas, m \in Mints :
        <<q, m>> \in M <=> q = p /\ m \in ms
  BY <1>2
<1>4. Cardinality(M) = Cardinality(ms)
  <2>1. IsFiniteSet({p}) /\ Cardinality({p}) = 1
    BY FS_Singleton, Zenon
  <2>2. Cardinality(M) = 1 * Cardinality(ms)
    BY <1>1, <1>2, <2>1, FS_Product
  <2> QED BY <1>1, <2>2
<1>5. PICK n : n = Block(M, AtaRent)
  OBVIOUS
<1>6. AtaRent \in Int /\ n \in Int /\ Block(M, 0 - AtaRent) = 0 - n
  BY <1>1, <1>4, <1>5, AmountsAssumption, BlockOpposite
<1>7. n = AtaRent * Cardinality(ms)
  BY <1>4, <1>5 DEF Block
<1>8. /\ \A m \in ms : ata[p][m] > 0
      /\ bal' = SplitLamports(DrainAtas(p, ms, payee), p)
      /\ ata' = [ata EXCEPT ![p] = [m \in Mints |-> IF m \in ms THEN 0 ELSE @[m]]]
  BY DEF Close
<1>9. PICK c : c = DrainAtas(p, ms, payee)
  OBVIOUS
<1>10. /\ c \in IntLedgers
       /\ \A a \in Assets : Held(c, a) = IF a = Sol THEN Held(bal, a) + n ELSE Held(bal, a)
  BY <1>6, <1>7, <1>9, DrainConserves
<1>11. SameWealth(c, bal')
  BY <1>8, <1>9, <1>10, SplitConserves
<1>12. \A a \in Assets : Held(bal', a) = IF a = Sol THEN Held(bal, a) + n ELSE Held(bal, a)
  BY <1>10, <1>11 DEF SameWealth
<1>13. ASSUME NEW q \in Pdas, NEW m \in Mints
       PROVE  /\ ata'[q][m] = IF <<q, m>> \in M THEN ata[q][m] + (0 - AtaRent) ELSE ata[q][m]
              /\ ata'[q][m] \in {0, AtaRent}
  <2>1. ata'[q][m] = IF q = p /\ m \in ms THEN 0 ELSE ata[q][m]
    BY <1>8 DEF AccountsOK
  <2>2. ata[q][m] \in {0, AtaRent} /\ (q = p /\ m \in ms => ata[q][m] > 0)
    BY <1>8 DEF AtaSizes
  <2> QED BY <1>3, <1>6, <2>1, <2>2
<1>14. Resized(ata, M, 0 - AtaRent, ata') /\ AtaSizes'
  BY <1>13 DEF Resized, AtaSizes
<1>15. ata \in IntAtas /\ ata' \in IntAtas
  <2>1. ata' \in [Pdas -> [Mints -> Nat]]
    BY <1>8 DEF AccountsOK
  <2> QED BY <2>1 DEF AccountsOK, IntAtas
<1>16. 0 - AtaRent \in Int
  BY <1>6
<1>17. AtaRents(ata') = AtaRents(ata) + (0 - n)
  BY <1>3, <1>6, <1>14, <1>15, <1>16, RentsCount
<1>18. \A a \in Assets : TotalOf(a)' = TotalOf(a)
  BY <1>6, <1>12, <1>17, TotalsInt, LamportsOver
<1> QED BY <1>14, <1>18

-----------------------------------------------------------------------------

WealthStep == AtaSizes' /\ \A a \in Assets : TotalOf(a)' = TotalOf(a)

\* A payment between holders, and a step that pays nothing.
LEMMA PaysConserves ==
    ASSUME AtaSizes, Pays
    PROVE  WealthStep
<1>1. AtaSizes'
  BY DEF AtaSizes, Pays
<1>2. ASSUME NEW a \in Assets PROVE TotalOf(a)' = TotalOf(a)
  BY DEF Pays, SameWealth, TotalOf
<1> QED BY <1>1, <1>2 DEF WealthStep

LEMMA StepConserves ==
    ASSUME AccountsOK, AtaSizes, [Next]_vars
    PROVE  WealthStep
<1>1. ASSUME bal' = bal, ata' = ata PROVE WealthStep
  BY <1>1, BalIntegers, PaysConserves DEF Pays
<1>2. CASE Tick
  BY <1>1, <1>2 DEF Tick, ledger
<1>3. CASE Govern
  BY <1>1, <1>3 DEF Govern, ledger
<1>4. CASE \E o \in Owners, r \in Requests : setup_atas(o, r) \/ CreateRule(o, r)
  BY <1>4, SetupConserves, CreateConserves, PaysConserves DEF WealthStep
<1>5. ASSUME NEW o \in Owners, NEW p \in Pdas, OwnerStep(o, p) PROVE WealthStep
  <2>1. o \in Wallets /\ (Open(p) => autos[p].action.mint \in Mints)
    BY Places, OpenRule
  <2>2. CASE close_automation(o, p)
    <3>1. {} \in SUBSET Mints /\ Close(p, {}, o, "closed")
      BY <2>2 DEF close_automation
    <3> QED BY <2>1, <3>1, CloseConserves DEF WealthStep
  <2>3. CASE close_automation_spl(o, p)
    <3>1. PICK ms : ms = {autos[p].action.mint}
      OBVIOUS
    <3>2. ms \in SUBSET Mints /\ Close(p, ms, o, "closed")
      BY <2>1, <2>3, <3>1 DEF close_automation_spl
    <3> QED BY <2>1, <3>2, CloseConserves DEF WealthStep
  <2>4. ASSUME NEW l \in listed[p], close_automation_swap(o, p, l) PROVE WealthStep
    <3>1. PICK ms : ms = {autos[p].action.mint} \cup l.dust
      OBVIOUS
    <3>2. ms \in SUBSET Mints /\ Close(p, ms, o, "closed")
      BY <2>1, <2>4, <3>1 DEF close_automation_swap, DustMints
    <3> QED BY <2>1, <3>2, CloseConserves DEF WealthStep
  <2>5. CASE \E x \in TopUps : top_up(o, p, x)
    BY <2>5, TopUpPays, PaysConserves
  <2>6. CASE collect_pda_dust_atas(o, p)
    BY <1>1, <2>6 DEF collect_pda_dust_atas, ledger
  <2> QED BY <1>5, <2>2, <2>3, <2>4, <2>5, <2>6 DEF OwnerStep
<1>6. ASSUME NEW s \in Wallets, NEW p \in Pdas, AdminClose(s, p) PROVE WealthStep
  <2>1. PICK t \in Wallets : t = config.treasury
    BY DEF AccountsOK, Configs
  <2>2. autos[p].action.mint \in Mints
    BY <1>6, OpenRule DEF AdminClose
  <2>3. CASE admin_close_automation(s, p)
    <3>1. {} \in SUBSET Mints /\ Close(p, {}, t, "swept")
      BY <2>1, <2>3 DEF admin_close_automation
    <3> QED BY <3>1, CloseConserves DEF WealthStep
  <2>4. CASE admin_close_automation_spl(s, p)
    <3>1. PICK ms : ms = {autos[p].action.mint}
      OBVIOUS
    <3>2. ms \in SUBSET Mints /\ Close(p, ms, t, "swept")
      BY <2>1, <2>2, <2>4, <3>1 DEF admin_close_automation_spl
    <3> QED BY <3>2, CloseConserves DEF WealthStep
  <2>5. CASE \E dust \in SUBSET DustMints(p) : admin_close_automation_swap(s, p, dust)
    <3>1. PICK dust \in SUBSET DustMints(p) : admin_close_automation_swap(s, p, dust)
      BY <2>5
    <3>2. PICK ms : ms = {autos[p].action.mint} \cup dust
      OBVIOUS
    <3>3. ms \in SUBSET Mints /\ Close(p, ms, t, "swept")
      BY <2>1, <2>2, <3>1, <3>2 DEF admin_close_automation_swap, DustMints
    <3> QED BY <3>3, CloseConserves DEF WealthStep
  <2> QED BY <1>6, <2>3, <2>4, <2>5 DEF AdminClose
<1>7. ASSUME NEW s \in Wallets, NEW p \in Pdas, KeeperStep(s, p) PROVE WealthStep
  BY <1>7, KeeperPays, PaysConserves
<1>8. CASE UNCHANGED vars
  BY <1>1, <1>8 DEF vars
<1>9. QED
  BY <1>2, <1>3, <1>4, <1>5, <1>6, <1>7, <1>8 DEF Next

\* The wallets start with their endowments, the pools with their tokens.
LEMMA InitConserved == Init => Conserved /\ AtaSizes
<1> SUFFICES ASSUME Init PROVE Conserved /\ AtaSizes
  OBVIOUS
<1>1. AtaSizes
  BY DEF Init, AtaSizes
<1>2. AtaRents(ata) = 0
  <2>1. PICK f : f = [q \in Pdas \X Mints |-> ata[q[1]][q[2]]]
    OBVIOUS
  <2>2. \A q \in Pdas \X Mints : ata[q[1]][q[2]] = 0
    BY DEF Init
  <2>3. f \in [Pdas \X Mints -> Int]
    BY <2>1, <2>2
  <2>4. {} \in SUBSET (Pdas \X Mints) /\ 0 \in Int
    OBVIOUS
  <2>5. \A q \in Pdas \X Mints : f[q] = IF q \in {} THEN 0 ELSE 0
    BY <2>1, <2>2
  <2>6. Sum(f) = 0 * Cardinality({})
    BY <2>3, <2>4, <2>5, PlacesFinite, SumOfBlock
  <2>7. AtaRents(ata) = Sum(f)
    BY <2>1 DEF AtaRents, Sum
  <2>8. Cardinality({}) = 0
    BY FS_EmptySet
  <2> QED BY <2>6, <2>7, <2>8
<1>3. ASSUME NEW a \in Assets
      PROVE  Held(bal, a) =
               Endowment * Cardinality(Wallets) + (IF a = Sol THEN 0 ELSE PoolTokens)
  <2>1. PICK e \in Nat : e = Endowment
    BY AmountsAssumption
  <2>2. PICK s \in Nat : s = IF a = Sol THEN 0 ELSE PoolTokens
    BY AmountsAssumption
  <2>3. PICK f : f = [h \in Holders |-> IF h \in Wallets THEN e ELSE 0]
    OBVIOUS
  <2>4. PICK g : g = [h \in Holders |-> bal[h][a]]
    OBVIOUS
  <2>5. \A h \in Holders : g[h] = IF h \in Wallets THEN e ELSE IF h = Pool THEN s ELSE 0
    BY <2>1, <2>2, <2>4 DEF Init
  <2>6. f \in [Holders -> Int] /\ g \in [Holders -> Int]
    BY <2>3, <2>4, <2>5
  <2>7. ShiftedAt(Holders, f, Pool, s, g)
    BY <2>3, <2>5, Places DEF ShiftedAt
  <2>8. Sum(g) = Sum(f) + s
    BY <2>6, <2>7, PlacesFinite, Places, PointShift
  <2>9. Sum(f) = e * Cardinality(Wallets)
    <3>1. Wallets \in SUBSET Holders /\ \A h \in Holders : f[h] = IF h \in Wallets THEN e ELSE 0
      BY <2>3, Places
    <3> QED BY <2>6, <3>1, PlacesFinite, SumOfBlock
  <2>10. Held(bal, a) = Sum(g)
    BY <2>4 DEF Held, Sum
  <2> QED BY <2>1, <2>2, <2>8, <2>9, <2>10
<1>4. ASSUME NEW a \in Assets
      PROVE  TotalOf(a) =
               Endowment * Cardinality(Wallets) + (IF a = Sol THEN 0 ELSE PoolTokens)
  <2>1. Endowment * Cardinality(Wallets) \in Nat /\ PoolTokens \in Nat
    BY PartiesAssumption, AmountsAssumption, FS_CardinalityType
  <2> QED BY <1>2, <1>3, <2>1 DEF TotalOf
<1> QED BY <1>1, <1>4 DEF Conserved

\* No instruction mints or burns: the lamports and tokens of all the parties, the
\* rules, the pools and the token accounts are at all times what the wallets and the
\* pools started with, whatever is created, fired, drained, split or swept.
THEOREM NothingLost == Spec => []Conserved
<1>1. AccountsOK /\ Conserved /\ AtaSizes /\ [Next]_vars => (Conserved /\ AtaSizes)'
  <2> SUFFICES ASSUME AccountsOK, Conserved, AtaSizes, [Next]_vars PROVE (Conserved /\ AtaSizes)'
    OBVIOUS
  <2>1. AtaSizes' /\ \A a \in Assets : TotalOf(a)' = TotalOf(a)
    BY StepConserves DEF WealthStep
  <2>2. ASSUME NEW a \in Assets
        PROVE  TotalOf(a)' = Endowment * Cardinality(Wallets) + (IF a = Sol THEN 0 ELSE PoolTokens)
    BY <2>1 DEF Conserved
  <2> QED BY <2>1, <2>2 DEF Conserved
<1>2. QED
  BY <1>1, InitConserved, TypeCorrect, PTL DEF Spec, TypeOK

=============================================================================
