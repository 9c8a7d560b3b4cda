--------------------------- MODULE ClientRules_proofs ---------------------------
(* The two stores of the web client.  The saved list: no row of a rule that   *)
(* holds a deposit is lost, for any wallets, chains of rules, switches,       *)
(* errors and events.  The history of a rule: it has no hole below its        *)
(* cursor, for any number of walkers, any page size and any number of         *)
(* executions and failures.                                                   *)
EXTENDS SavedRules, RuleHistory, TLAPS

States    == {"absent", "void", "open", "finished", "gone"}
Views     == UNION {[S -> BOOLEAN] : S \in SUBSET Rules}
Answers   == UNION {[S -> {"open", "finished", "gone"}] : S \in SUBSET Ids}
Decisions == UNION {[S -> BOOLEAN] : S \in SUBSET Ids}

(* TypeOK, with the shape of the records.                                     *)
Shaped ==
  /\ TypeOK
  /\ hydration \in [at : {"idle", "asked", "got"}, view : Views]
  /\ sync \in [at : {"idle", "got"}, view : Answers]
  /\ create \in [at : {"idle", "sent", "confirmed"}, of : Chains \union {{}}]
  /\ close \in [at : {"idle", "next", "sent"}, by : Wallets \union {NoWallet},
                todo : Decisions, now : SUBSET Ids]

Born(r) == chain[r] # "absent"
Dead(r) == chain[r] \in {"void", "gone"}
Over(r) == Dead(r) \/ r \in misled
Held(r) == chain[r] \in {"open", "finished"} /\ r \notin misled

(* What the transactions under way can still change.                          *)
Underway ==
  /\ \A c \in minting : \A r \in c : ~ Born(r)
  /\ \A r \in closing : Born(r)
  /\ create.at # "idle" => create.of \in Chains
  /\ create.at = "confirmed" \/ (create.at = "sent" /\ create.of \notin minting)
       => \A r \in create.of : Born(r)

(* Rows are of rules that were created, and what says that a rule is closed   *)
(* is right for good unless the client was misled.                            *)
RowsTold(rows) == \A i \in DOMAIN rows : Born(i[1]) /\ (rows[i].closed => Over(i[1]))
Told ==
  /\ RowsTold(list) /\ \A w \in Wallets : RowsTold(saved[w])
  /\ \A i \in DOMAIN close.todo : Born(i[1]) /\ (close.todo[i] => Over(i[1]))
  /\ \A i \in DOMAIN sync.view : Born(i[1]) /\ (sync.view[i] = "gone" => Dead(i[1]))
  /\ \A r \in DOMAIN hydration.view : Born(r)

(* The rows shown cover those saved for the wallet they belong to.            *)
Listed(rows, r) == \E i \in DOMAIN rows : i[1] = r
Kept ==
  owner # NoWallet =>
    \A r \in Rules : Held(r) /\ Listed(saved[owner], r) => Listed(list, r)

SavedInv == Shaped /\ Underway /\ Told /\ Kept

OpenRulesStep ==
  \A w \in Wallets, r \in Rules :
    Held(r) /\ Listed(saved[w], r) => Listed(saved'[w], r)

-----------------------------------------------------------------------------
LEMMA ListOf ==
  ASSUME NEW S \in SUBSET Ids, NEW f \in [S -> Rows]
  PROVE  f \in Lists
  BY DEF Lists

LEMMA OfList ==
  ASSUME NEW f \in Lists
  PROVE  /\ DOMAIN f \in SUBSET Ids /\ f \in [DOMAIN f -> Rows]
         /\ \A i \in DOMAIN f : i[1] \in Rules /\ f[i] \in Rows /\ f[i].closed \in BOOLEAN
<1>1. PICK S \in SUBSET Ids : f \in [S -> Rows]
  BY DEF Lists
<1>2. DOMAIN f = S
  BY <1>1
<1>3. \A i \in Ids : i[1] \in Rules
  BY DEF Ids
<1> QED BY <1>1, <1>2, <1>3 DEF Rows

LEMMA Emptiness ==
  /\ Nothing \in Lists /\ Nothing \in Views /\ Nothing \in Answers /\ Nothing \in Decisions
  /\ DOMAIN Nothing = {}
<1>1. \A T : Nothing \in [{} -> T]
  BY DEF Nothing
<1>2. Nothing \in Lists
  BY <1>1, ListOf
<1>3. Nothing \in Views /\ Nothing \in Answers /\ Nothing \in Decisions
  BY <1>1 DEF Views, Answers, Decisions
<1>4. DOMAIN Nothing = {}
  BY DEF Nothing
<1> QED BY <1>2, <1>3, <1>4

LEMMA Parties == NoWallet \notin Wallets /\ \A c \in Chains : c \subseteq Rules
  BY SavedRulesAssumption DEF Rules

(* A write to the list that drops only rows of rules that hold nothing, and  *)
(* forgets a misled rule only when no row believes the close any more.       *)
LEMMA ShowStep ==
  ASSUME SavedInv, NEW rows \in Lists, Show(rows), UNCHANGED chain,
         misled' \in SUBSET Rules,
         \A i \in DOMAIN rows : Born(i[1]) /\ (rows[i].closed => Over(i[1])'),
         \A r \in Rules : Held(r) /\ Listed(list, r) => Listed(rows, r),
         \A r \in misled \ misled' : Listed(rows, r) /\ ~ Believed(r)'
  PROVE  /\ list' \in Lists /\ saved' \in [Wallets -> Lists]
         /\ UNCHANGED <<wallet, owner, switches>>
         /\ RowsTold(list)' /\ (\A w \in Wallets : RowsTold(saved[w]))'
         /\ Kept' /\ OpenRulesStep
<1>1. /\ list' = rows
      /\ saved' = IF MaySave THEN [saved EXCEPT ![wallet] = rows] ELSE saved
      /\ UNCHANGED <<wallet, owner, switches, chain>>
  BY DEF Show
<1>2. /\ saved \in [Wallets -> Lists] /\ list \in Lists
      /\ wallet \in Wallets \union {NoWallet} /\ owner \in Wallets \union {NoWallet}
  BY DEF SavedInv, Shaped, TypeOK
<1>3. /\ RowsTold(list) /\ \A w \in Wallets : RowsTold(saved[w])
      /\ Kept
  BY DEF SavedInv, Told
<1>4. MaySave => wallet \in Wallets /\ owner = wallet
  BY <1>2 DEF MaySave
<1>5. saved' \in [Wallets -> Lists]
  BY <1>1, <1>2, <1>4
<1>6. \A w \in Wallets : saved'[w] = IF MaySave /\ w = wallet THEN rows ELSE saved[w]
  BY <1>1, <1>2, <1>4
<1>7. RowsTold(list)'
  BY <1>1 DEF RowsTold, Born
<1>8. ASSUME NEW w \in Wallets
      PROVE  RowsTold(saved[w])'
  <2>1. CASE MaySave /\ w = wallet
    BY <1>1, <1>6, <2>1 DEF RowsTold, Born
  <2>2. CASE ~ (MaySave /\ w = wallet)
    <3>1. saved'[w] = saved[w]
      BY <1>6, <2>2
    <3>2. SUFFICES ASSUME NEW i \in DOMAIN saved[w]
                   PROVE  Born(i[1])' /\ (saved[w][i].closed => Over(i[1])')
      BY <3>1 DEF RowsTold
    <3>3. Born(i[1])' /\ (saved[w][i].closed => Over(i[1]))
      BY <1>1, <1>3 DEF RowsTold, Born
    <3>4. saved[w][i].closed => i[1] \notin misled \ misled'
      BY <3>1 DEF Believed
    <3> QED BY <1>1, <3>3, <3>4 DEF Over, Dead
  <2> QED BY <2>1, <2>2
<1>9. Kept'
  <2> SUFFICES ASSUME owner # NoWallet, NEW r \in Rules, Held(r)', Listed(saved'[owner], r)
               PROVE  Listed(rows, r)
    BY <1>1 DEF Kept, Listed
  <2>1. owner \in Wallets
    BY <1>2
  <2>2. CASE MaySave
    BY <1>4, <1>6, <2>1, <2>2
  <2>3. CASE ~ MaySave
    <3>1. Listed(saved[owner], r)
      BY <1>6, <2>1, <2>3
    <3>2. CASE Held(r)
      BY <1>3, <3>1, <3>2 DEF Kept
    <3>3. CASE ~ Held(r)
      BY <1>1, <3>3 DEF Held
    <3> QED BY <3>2, <3>3
  <2> QED BY <2>2, <2>3
<1>10. OpenRulesStep
  <2> SUFFICES ASSUME NEW w \in Wallets, NEW r \in Rules, Held(r), Listed(saved[w], r)
               PROVE  Listed(saved'[w], r)
    BY DEF OpenRulesStep
  <2>1. CASE MaySave /\ w = wallet
    <3>1. owner = w /\ owner # NoWallet
      BY <1>4, <2>1, Parties
    <3>2. Listed(list, r)
      BY <1>3, <3>1 DEF Kept
    <3> QED BY <1>6, <2>1, <3>2
  <2>2. CASE ~ (MaySave /\ w = wallet)
    BY <1>6, <2>2
  <2> QED BY <2>1, <2>2
<1> QED BY <1>1, <1>5, <1>7, <1>8, <1>9, <1>10

(* A step that writes no list.                                                *)
LEMMA QuietStep ==
  ASSUME SavedInv, UNCHANGED <<chain, list, saved, owner, misled>>
  PROVE  /\ RowsTold(list)' /\ (\A w \in Wallets : RowsTold(saved[w]))'
         /\ Kept' /\ OpenRulesStep
<1>1. RowsTold(list) /\ (\A w \in Wallets : RowsTold(saved[w])) /\ Kept
  BY DEF SavedInv, Told
<1>2. RowsTold(list)'
  BY <1>1 DEF RowsTold, Born, Over, Dead
<1>3. (\A w \in Wallets : RowsTold(saved[w]))'
  BY <1>1 DEF RowsTold, Born, Over, Dead
<1>4. Kept'
  BY <1>1 DEF Kept, Held, Listed
<1>5. OpenRulesStep
  BY DEF OpenRulesStep
<1> QED BY <1>2, <1>3, <1>4, <1>5

-----------------------------------------------------------------------------
(* What happens on chain only ever moves a rule on: it is created once, and   *)
(* what is void or gone stays so.                                             *)
LEMMA LaterStep ==
  ASSUME SavedInv, UNCHANGED <<page, tasks, misled>>,
         chain' \in [Rules -> States],
         \A r \in Rules : Born(r) => Born(r)' /\ (Held(r)' => Held(r)),
         \A r \in Rules : Dead(r) => Dead(r)',
         minting' \subseteq minting, closing' \subseteq closing,
         \A c \in minting' : \A r \in c : ~ Born(r)',
         \A c \in minting \ minting' : \A r \in c : Born(r)',
         errors' \in 0..MaxErrors, events' \in 0..MaxEvents
  PROVE  SavedInv' /\ OpenRulesStep
<1>1. /\ TypeOK /\ Underway /\ Told /\ Kept
      /\ UNCHANGED <<wallet, owner, list, saved, switches, hydration, sync, create, close, misled>>
  BY DEF SavedInv, Shaped, page, tasks
<1>2. Shaped'
  BY <1>1 DEF SavedInv, Shaped, TypeOK, States
<1>3. Underway'
  <2>1. \A r \in closing' : Born(r)'
    BY <1>1 DEF Underway, TypeOK
  <2>2. create.at # "idle" => create.of \in Chains
    BY <1>1 DEF Underway
  <2>3. ASSUME create.at = "confirmed" \/ (create.at = "sent" /\ create.of \notin minting'),
               NEW r \in create.of
        PROVE  Born(r)'
    <3>1. create.of \in Chains /\ r \in Rules
      BY <2>2, <2>3, Parties
    <3>2. CASE create.of \in minting
      <4>1. CASE create.of \in minting'
        <5>1. create.at = "confirmed"
          BY <2>3, <4>1
        <5>2. Born(r)
          BY <1>1, <5>1 DEF Underway
        <5> QED BY <3>1, <5>2
      <4>2. CASE create.of \notin minting'
        BY <3>2, <4>2
      <4> QED BY <4>1, <4>2
    <3>3. CASE create.of \notin minting
      <4>1. Born(r)
        BY <1>1, <2>3, <3>3 DEF Underway
      <4> QED BY <3>1, <4>1
    <3> QED BY <3>2, <3>3
  <2>4. \A c \in minting' : \A r \in c : ~ Born(r)'
    OBVIOUS
  <2> QED BY <1>1, <2>1, <2>2, <2>3, <2>4 DEF Underway, Born
<1>4. ASSUME NEW rows \in Lists, RowsTold(rows), NEW i \in DOMAIN rows
      PROVE  Born(i[1])' /\ (rows[i].closed => Over(i[1])')
  <2>1. i[1] \in Rules
    BY OfList
  <2>2. Born(i[1]) /\ (rows[i].closed => Over(i[1]))
    BY <1>4 DEF RowsTold
  <2> QED BY <1>1, <2>1, <2>2 DEF Over
<1>5. list \in Lists /\ \A w \in Wallets : saved[w] \in Lists
  BY <1>1 DEF TypeOK
<1>6. RowsTold(list)' /\ (\A w \in Wallets : RowsTold(saved[w]))'
  <2>1. RowsTold(list)'
    <3>1. RowsTold(list)
      BY <1>1 DEF Told
    <3> QED BY <1>1, <1>4, <1>5, <3>1 DEF RowsTold
  <2>2. ASSUME NEW w \in Wallets PROVE RowsTold(saved[w])'
    <3>1. RowsTold(saved[w]) /\ saved'[w] = saved[w]
      BY <1>1 DEF Told
    <3> QED BY <1>4, <1>5, <3>1 DEF RowsTold
  <2> QED BY <2>1, <2>2
<1>7. /\ DOMAIN close.todo \subseteq Ids /\ DOMAIN sync.view \subseteq Ids
      /\ DOMAIN hydration.view \subseteq Rules
  <2>1. close.todo \in UNION {[S -> BOOLEAN] : S \in SUBSET Ids}
    BY <1>1 DEF TypeOK
  <2>2. sync.view \in UNION {[S -> {"open", "finished", "gone"}] : S \in SUBSET Ids}
    BY <1>1 DEF TypeOK
  <2>3. hydration.view \in UNION {[S -> BOOLEAN] : S \in SUBSET Rules}
    BY <1>1 DEF TypeOK
  <2> QED BY <2>1, <2>2, <2>3
<1>8. \A i \in Ids : i[1] \in Rules
  BY DEF Ids
<1>9. (\A i \in DOMAIN close.todo : Born(i[1]) /\ (close.todo[i] => Over(i[1])))'
  <2> SUFFICES ASSUME NEW i \in DOMAIN close.todo
               PROVE  Born(i[1])' /\ (close.todo[i] => Over(i[1])')
    BY <1>1
  <2>1. Born(i[1]) /\ (close.todo[i] => Over(i[1])) /\ i[1] \in Rules
    BY <1>1, <1>7, <1>8 DEF Told
  <2> QED BY <1>1, <2>1 DEF Over
<1>10. (\A i \in DOMAIN sync.view : Born(i[1]) /\ (sync.view[i] = "gone" => Dead(i[1])))'
  <2> SUFFICES ASSUME NEW i \in DOMAIN sync.view
               PROVE  Born(i[1])' /\ (sync.view[i] = "gone" => Dead(i[1])')
    BY <1>1
  <2>1. Born(i[1]) /\ (sync.view[i] = "gone" => Dead(i[1])) /\ i[1] \in Rules
    BY <1>1, <1>7, <1>8 DEF Told
  <2> QED BY <2>1
<1>11. (\A r \in DOMAIN hydration.view : Born(r))'
  BY <1>1, <1>7 DEF Told
<1>12. Told'
  BY <1>6, <1>9, <1>10, <1>11 DEF Told
<1>13. Kept'
  <2> SUFFICES ASSUME owner # NoWallet, NEW r \in Rules, Held(r)', Listed(saved[owner], r)
               PROVE  Listed(list, r)
    BY <1>1 DEF Kept, Listed
  <2>1. owner \in Wallets
    BY <1>1 DEF TypeOK
  <2>2. Born(r)
    BY <1>1, <2>1 DEF Told, RowsTold, Listed
  <2> QED BY <1>1, <2>2 DEF Kept
<1>14. OpenRulesStep
  BY <1>1 DEF OpenRulesStep
<1> QED BY <1>2, <1>3, <1>12, <1>13, <1>14 DEF SavedInv

LEMMA ChainSteps ==
  ASSUME SavedInv,
         \/ \E c \in Chains : Mint(c)
         \/ \E r \in Rules : Refund(r) \/ Finish(r) \/ CloseElsewhere(r)
  PROVE  SavedInv' /\ OpenRulesStep
<1>1. /\ chain \in [Rules -> States] /\ minting \subseteq Chains /\ closing \subseteq Rules
      /\ errors \in 0..MaxErrors /\ events \in 0..MaxEvents
  BY DEF SavedInv, Shaped, TypeOK, States
<1>2. /\ \A c \in minting : \A r \in c : ~ Born(r)
      /\ \A r \in closing : Born(r)
  BY DEF SavedInv, Underway
<1>3. MaxErrors \in Nat /\ MaxEvents \in Nat /\ \A c, d \in Chains : c # d => c \cap d = {}
  BY SavedRulesAssumption
<1>4. ASSUME NEW c \in Chains, Mint(c) PROVE SavedInv' /\ OpenRulesStep
  <2>1. /\ c \in minting /\ minting' = minting \ {c}
        /\ UNCHANGED <<closing, events, page, tasks, misled>>
    BY <1>4 DEF Mint
  <2>2. PICK s \in {"open", "void"} :
          /\ chain' = [r \in Rules |-> IF r \in c THEN s ELSE chain[r]]
          /\ errors' = errors \/ (errors < MaxErrors /\ errors' = errors + 1)
    BY <1>4 DEF Mint
  <2>3. chain' \in [Rules -> States]
    BY <1>1, <2>2 DEF States
  <2>4. \A r \in Rules : r \in c => ~ Born(r) /\ Born(r)'
    BY <1>2, <2>1, <2>2 DEF Born
  <2>5. \A r \in Rules : r \notin c => chain'[r] = chain[r]
    BY <2>2
  <2>6. \A r \in Rules : Born(r) => Born(r)' /\ (Held(r)' => Held(r))
    BY <2>1, <2>4, <2>5 DEF Born, Held
  <2>7. \A r \in Rules : Dead(r) => Dead(r)'
    BY <2>4, <2>5 DEF Born, Dead
  <2>8. \A d \in minting' : \A r \in d : ~ Born(r)'
    BY <1>1, <1>2, <1>3, <2>1, <2>5, Parties DEF Born
  <2>9. \A d \in minting \ minting' : \A r \in d : Born(r)'
    BY <2>1, <2>4, Parties
  <2>10. errors' \in 0..MaxErrors
    BY <1>1, <1>3, <2>2
  <2> QED BY <1>1, <2>1, <2>3, <2>6, <2>7, <2>8, <2>9, <2>10, LaterStep
<1>5. ASSUME NEW r \in Rules, Refund(r) \/ Finish(r) \/ CloseElsewhere(r)
      PROVE  SavedInv' /\ OpenRulesStep
  <2>1. /\ UNCHANGED <<minting, page, tasks, misled>>
        /\ closing' \subseteq closing
    BY <1>5 DEF Refund, Finish, CloseElsewhere
  <2>2. \/ UNCHANGED chain
        \/ /\ Born(r)
           /\ \/ chain' = [chain EXCEPT ![r] = "gone"]
              \/ chain[r] = "open" /\ chain' = [chain EXCEPT ![r] = "finished"]
    BY <1>2, <1>5 DEF Refund, Finish, CloseElsewhere, Born
  <2>3. chain' \in [Rules -> States]
    BY <1>1, <2>2 DEF States
  <2>4. \A s \in Rules : Born(s) <=> Born(s)'
    BY <1>1, <2>2 DEF Born
  <2>5. \A s \in Rules : Held(s)' => Held(s)
    BY <1>1, <2>1, <2>2 DEF Held
  <2>6. \A s \in Rules : Dead(s) => Dead(s)'
    BY <1>1, <2>2 DEF Dead
  <2>7. \A d \in minting' : \A s \in d : ~ Born(s)'
    BY <1>1, <1>2, <2>1, <2>4, Parties
  <2>8. errors' \in 0..MaxErrors /\ events' \in 0..MaxEvents
    BY <1>1, <1>3, <1>5 DEF Refund, Finish, CloseElsewhere
  <2> QED BY <1>1, <2>1, <2>3, <2>4, <2>5, <2>6, <2>7, <2>8, LaterStep
<1> QED BY <1>4, <1>5

-----------------------------------------------------------------------------
(* The page: wallets, loading, hydration and polls.                           *)
LEMMA Domains ==
  ASSUME SavedInv
  PROVE  /\ hydration.view \in Views /\ sync.view \in Answers /\ close.todo \in Decisions
         /\ DOMAIN hydration.view \subseteq Rules /\ DOMAIN sync.view \subseteq Ids
         /\ DOMAIN close.todo \subseteq Ids
         /\ list \in Lists /\ saved \in [Wallets -> Lists]
         /\ \A i \in Ids : i[1] \in Rules
<1>1. hydration.view \in Views /\ sync.view \in Answers /\ close.todo \in Decisions
  BY DEF SavedInv, Shaped
<1>2. list \in Lists /\ saved \in [Wallets -> Lists]
  BY DEF SavedInv, Shaped, TypeOK
<1>3. /\ DOMAIN hydration.view \subseteq Rules /\ DOMAIN sync.view \subseteq Ids
      /\ DOMAIN close.todo \subseteq Ids
  BY <1>1 DEF Views, Answers, Decisions
<1>4. \A i \in Ids : i[1] \in Rules
  BY DEF Ids
<1> QED BY <1>1, <1>2, <1>3, <1>4

LEMMA IdleTypes ==
  /\ Idle \in [at : {"idle", "asked", "got"}, view : Views]
  /\ Idle \in [at : {"idle", "got"}, view : Answers]
  /\ NoCreate \in [at : {"idle", "sent", "confirmed"}, of : Chains \union {{}}]
  /\ NoClose \in [at : {"idle", "next", "sent"}, by : Wallets \union {NoWallet},
                   todo : Decisions, now : SUBSET Ids]
  /\ Idle.at = "idle" /\ DOMAIN Idle.view = {} /\ NoCreate.at = "idle"
  /\ NoClose.at = "idle" /\ DOMAIN NoClose.todo = {} /\ NoClose.now = {}
  BY Emptiness DEF Idle, NoCreate, NoClose

LEMMA SwitchStep ==
  ASSUME SavedInv, NEW w \in Wallets \union {NoWallet}, Switch(w)
  PROVE  SavedInv' /\ OpenRulesStep
<1>1. /\ wallet' = w /\ switches' = switches + 1 /\ switches < MaxSwitches
      /\ UNCHANGED <<chain, minting, closing, errors, events, owner, list, saved,
                     hydration, sync, create, close, misled>>
  BY DEF Switch, onChain, tasks
<1>2. TypeOK /\ Underway /\ Told
  BY DEF SavedInv, Shaped
<1>3. switches' \in 0..MaxSwitches
  BY <1>1, <1>2, SavedRulesAssumption DEF TypeOK
<1>4. Shaped'
  BY <1>1, <1>2, <1>3 DEF SavedInv, Shaped, TypeOK
<1>5. Underway'
  BY <1>1, <1>2 DEF Underway, Born
<1>6. /\ RowsTold(list)' /\ (\A v \in Wallets : RowsTold(saved[v]))'
      /\ Kept' /\ OpenRulesStep
  BY <1>1, QuietStep
<1>7. Told'
  BY <1>1, <1>2, <1>6 DEF Told, Born, Over, Dead
<1> QED BY <1>4, <1>5, <1>6, <1>7 DEF SavedInv

LEMMA ReloadStep ==
  ASSUME SavedInv, Reload
  PROVE  SavedInv' /\ OpenRulesStep
<1>1. /\ wallet' = NoWallet /\ owner' = NoWallet /\ list' = Nothing
      /\ switches' = switches + 1 /\ switches < MaxSwitches
      /\ hydration' = Idle /\ sync' = Idle /\ create' = NoCreate /\ close' = NoClose
      /\ UNCHANGED <<chain, minting, closing, errors, events, saved, misled>>
  BY DEF Reload, onChain
<1>2. TypeOK /\ Underway /\ Told
  BY DEF SavedInv, Shaped
<1>3. switches' \in 0..MaxSwitches
  BY <1>1, <1>2, SavedRulesAssumption DEF TypeOK
<1>4. Shaped'
  <2>1. TypeOK'
    BY <1>1, <1>2, <1>3, IdleTypes, Emptiness DEF TypeOK, Idle, NoCreate, NoClose, Views, Answers, Decisions
  <2> QED BY <1>1, <2>1, IdleTypes DEF Shaped
<1>5. Underway'
  BY <1>1, <1>2, IdleTypes DEF Underway, Born
<1>6. (\A v \in Wallets : RowsTold(saved[v]))'
  BY <1>1, <1>2 DEF Told, RowsTold, Born, Over, Dead
<1>7. RowsTold(list)'
  BY <1>1, Emptiness DEF RowsTold
<1>8. Told'
  BY <1>1, <1>6, <1>7, IdleTypes DEF Told
<1>9. Kept' /\ OpenRulesStep
  BY <1>1 DEF Kept, OpenRulesStep
<1> QED BY <1>4, <1>5, <1>8, <1>9 DEF SavedInv

LEMMA LoadStep ==
  ASSUME SavedInv, Load
  PROVE  SavedInv' /\ OpenRulesStep
<1>1. /\ owner' = wallet
      /\ list' = IF wallet = NoWallet THEN Nothing ELSE saved[wallet]
      /\ hydration' = Hydrating(wallet)
      /\ UNCHANGED <<chain, minting, closing, errors, events, wallet, saved, switches,
                     sync, create, close, misled>>
  BY DEF Load, onChain
<1>0. /\ owner' = wallet
      /\ UNCHANGED <<chain, minting, closing, errors, events, wallet, saved, switches,
                     sync, create, close, misled>>
  BY <1>1
<1>2. TypeOK /\ Underway /\ Told
  BY DEF SavedInv, Shaped
<1>3. wallet = NoWallet \/ wallet \in Wallets
  BY <1>2 DEF TypeOK
<1>4. list' \in Lists
  BY <1>1, <1>2, <1>3, Emptiness DEF TypeOK
<1>5. /\ hydration' \in [at : {"idle", "asked", "got"}, view : Views]
      /\ DOMAIN hydration'.view = {}
      /\ wallet = NoWallet => hydration' = Idle
  BY <1>1, IdleTypes, Emptiness DEF Hydrating
<1>6. Shaped'
  <2>1. hydration'.at \in {"idle", "asked", "got"} /\ hydration'.view \in Views
    BY <1>5
  <2>2. TypeOK'
    BY <1>0, <1>2, <1>4, <1>5, <2>1 DEF TypeOK, Views
  <2> QED BY <1>1, <1>5, <2>2 DEF SavedInv, Shaped
<1>7. Underway'
  BY <1>1, <1>2 DEF Underway, Born
<1>8. (\A v \in Wallets : RowsTold(saved[v]))'
  BY <1>1, <1>2 DEF Told, RowsTold, Born, Over, Dead
<1>9. RowsTold(list)'
  <2>1. CASE wallet = NoWallet
    BY <1>1, <2>1, Emptiness DEF RowsTold
  <2>2. CASE wallet \in Wallets
    <3>1. list' = saved[wallet]
      BY <1>1, <2>2, Parties
    <3>2. RowsTold(saved[wallet])
      BY <1>2, <2>2 DEF Told
    <3> QED BY <1>1, <3>1, <3>2 DEF RowsTold, Born, Over, Dead
  <2> QED BY <1>3, <2>1, <2>2
<1>10. Told'
  BY <1>0, <1>2, <1>5, <1>8, <1>9 DEF Told, Born, Over, Dead
<1>11. Kept' /\ OpenRulesStep
  BY <1>1 DEF Kept, OpenRulesStep
<1> QED BY <1>6, <1>7, <1>10, <1>11 DEF SavedInv

LEMMA HydrateReadStep ==
  ASSUME SavedInv, HydrateRead
  PROVE  SavedInv' /\ OpenRulesStep
<1>1. /\ hydration.at = "asked"
      /\ hydration' \in {Idle, [at |-> "got", view |-> FromChain(owner)]}
      /\ UNCHANGED <<chain, minting, closing, errors, events, wallet, owner, list, saved,
                     switches, sync, create, close, misled>>
  BY DEF HydrateRead, onChain, page
<1>2. TypeOK /\ Underway /\ Told
  BY DEF SavedInv, Shaped
<1>3. /\ FromChain(owner) \in Views
      /\ \A r \in DOMAIN FromChain(owner) : Born(r)
  <2> DEFINE mine == {r \in Rules : Owner(r) = owner /\ chain[r] \in {"open", "finished"}}
  <2>1. FromChain(owner) = [r \in mine |-> chain[r] = "finished"]
    BY DEF FromChain
  <2>2. FromChain(owner) \in [mine -> BOOLEAN] /\ mine \in SUBSET Rules
    BY <2>1
  <2>3. \A r \in mine : Born(r)
    BY DEF Born
  <2> QED BY <2>2, <2>3 DEF Views
<1>4. /\ hydration' \in [at : {"idle", "asked", "got"}, view : Views]
      /\ \A r \in DOMAIN hydration'.view : Born(r)
  BY <1>1, <1>3, IdleTypes
<1>5. owner # NoWallet
  BY <1>1, <1>2, IdleTypes DEF TypeOK
<1>6. Shaped'
  <2>1. hydration'.at \in {"idle", "asked", "got"} /\ hydration'.view \in Views
    BY <1>4
  <2>2. TypeOK'
    BY <1>1, <1>2, <1>5, <2>1 DEF TypeOK, Views
  <2> QED BY <1>1, <1>4, <2>2 DEF SavedInv, Shaped
<1>7. Underway'
  BY <1>1, <1>2 DEF Underway, Born
<1>8. /\ RowsTold(list)' /\ (\A v \in Wallets : RowsTold(saved[v]))'
      /\ Kept' /\ OpenRulesStep
  BY <1>1, QuietStep
<1>9. Told'
  BY <1>1, <1>2, <1>4, <1>8 DEF Told, Born, Over, Dead
<1> QED BY <1>6, <1>7, <1>8, <1>9 DEF SavedInv

LEMMA SyncReadStep ==
  ASSUME SavedInv, SyncRead
  PROVE  SavedInv' /\ OpenRulesStep
<1> DEFINE answer == [i \in Polled(list) |->
             IF chain[i[1]] \in {"open", "finished"} THEN chain[i[1]] ELSE "gone"]
<1>1. /\ sync' = [at |-> "got", view |-> answer]
      /\ UNCHANGED <<chain, minting, closing, errors, events, wallet, owner, list, saved,
                     switches, hydration, create, close, misled>>
  BY DEF SyncRead, onChain, page
<1>2. TypeOK /\ Underway /\ Told
  BY DEF SavedInv, Shaped
<1>3. Polled(list) \subseteq DOMAIN list /\ DOMAIN list \subseteq Ids
  BY <1>2, OfList DEF Polled, TypeOK
<1>4. answer \in Answers
  <2>1. answer \in [Polled(list) -> {"open", "finished", "gone"}]
    OBVIOUS
  <2>2. Polled(list) \in SUBSET Ids
    BY <1>3
  <2> QED BY <2>1, <2>2 DEF Answers
<1>5. \A i \in DOMAIN answer : Born(i[1]) /\ (answer[i] = "gone" => Dead(i[1]))
  <2> SUFFICES ASSUME NEW i \in Polled(list)
               PROVE  Born(i[1]) /\ (answer[i] = "gone" => Dead(i[1]))
    OBVIOUS
  <2>1. Born(i[1]) /\ i[1] \in Rules
    BY <1>2, <1>3 DEF Told, RowsTold, Ids
  <2>2. chain[i[1]] \in States
    BY <1>2, <2>1 DEF TypeOK, States
  <2>3. answer[i] = IF chain[i[1]] \in {"open", "finished"} THEN chain[i[1]] ELSE "gone"
    OBVIOUS
  <2> HIDE DEF answer
  <2> QED BY <2>1, <2>2, <2>3 DEF Born, Dead, States
<1> HIDE DEF answer
<1>6. Shaped'
  <2>1. sync' \in [at : {"idle", "got"}, view : Answers]
    BY <1>1, <1>4
  <2>2. sync'.at \in {"idle", "got"} /\ sync'.view \in Answers
    BY <2>1
  <2>3. TypeOK'
    BY <1>1, <1>2, <2>2 DEF TypeOK, Answers
  <2> QED BY <1>1, <2>1, <2>3 DEF SavedInv, Shaped
<1>7. Underway'
  BY <1>1, <1>2 DEF Underway, Born
<1>8. /\ RowsTold(list)' /\ (\A v \in Wallets : RowsTold(saved[v]))'
      /\ Kept' /\ OpenRulesStep
  BY <1>1, QuietStep
<1>9. sync'.view = answer
  BY <1>1
<1>10. Told'
  BY <1>1, <1>2, <1>5, <1>8, <1>9 DEF Told, Born, Over, Dead
<1> QED BY <1>6, <1>7, <1>8, <1>10 DEF SavedInv

(* A merge has a row for each rule that had one or has an account; it says    *)
(* closed only where a row did and there is no account.                       *)
LEMMA MergeRows ==
  ASSUME NEW rows \in Lists, NEW view \in Views
  PROVE  LET m == Merge(rows, view) IN
         /\ m \in Lists
         /\ \A i \in DOMAIN m : Listed(rows, i[1]) \/ i[1] \in DOMAIN view
         /\ \A i \in DOMAIN m : m[i].closed =>
              i[1] \notin DOMAIN view /\ i \in DOMAIN rows /\ rows[i].closed
         /\ \A r \in Rules : Listed(rows, r) \/ r \in DOMAIN view => Listed(m, r)
<1> DEFINE rules == {i[1] : i \in DOMAIN rows} \union DOMAIN view
           ids == {MergedId(rows, r) : r \in rules}
           row(i) == IF i[1] \in DOMAIN view THEN [done |-> view[i[1]], closed |-> FALSE]
                     ELSE IF {i[1]} \X {"made", "read"} \subseteq DOMAIN rows
                          THEN [done |-> rows[<<i[1], "made">>].done, closed |-> FALSE]
                          ELSE rows[i]
           m == Merge(rows, view)
<1>1. m = [i \in ids |-> row(i)]
  BY DEF Merge
<1>2. /\ DOMAIN rows \subseteq Ids
      /\ \A i \in DOMAIN rows : i[1] \in Rules /\ rows[i] \in Rows
  BY OfList
<1>3. DOMAIN view \subseteq Rules /\ view \in [DOMAIN view -> BOOLEAN]
  <2>1. PICK S \in SUBSET Rules : view \in [S -> BOOLEAN]
    BY DEF Views
  <2> QED BY <2>1
<1>4. rules \subseteq Rules
  BY <1>2, <1>3
<1>5. \A r \in Rules : MergedId(rows, r) \in Ids /\ MergedId(rows, r)[1] = r
  BY DEF MergedId, Ids
<1>6. ids \in SUBSET Ids /\ \A i \in ids : i[1] \in rules /\ i = MergedId(rows, i[1])
  BY <1>4, <1>5
<1>7. ASSUME NEW i \in ids, i[1] \notin DOMAIN view,
             ~ ({i[1]} \X {"made", "read"} \subseteq DOMAIN rows)
      PROVE  i \in DOMAIN rows
  <2>1. PICK j \in DOMAIN rows : j[1] = i[1]
    BY <1>6, <1>7
  <2>2. j = <<i[1], "made">> \/ j = <<i[1], "read">>
    BY <1>2, <2>1 DEF Ids
  <2>3. i = MergedId(rows, i[1])
    BY <1>6
  <2>4. <<i[1], "made">> \notin DOMAIN rows \/ <<i[1], "read">> \notin DOMAIN rows
    BY <1>7
  <2> QED BY <2>1, <2>2, <2>3, <2>4 DEF MergedId
<1>8. ASSUME NEW i \in ids
      PROVE  row(i) \in Rows /\ (row(i).closed =>
               i[1] \notin DOMAIN view /\ i \in DOMAIN rows /\ rows[i].closed)
  <2>1. CASE i[1] \in DOMAIN view
    <3>1. view[i[1]] \in BOOLEAN
      BY <1>3, <2>1
    <3> QED BY <2>1, <3>1 DEF Rows
  <2>2. CASE i[1] \notin DOMAIN view /\ {i[1]} \X {"made", "read"} \subseteq DOMAIN rows
    <3>1. <<i[1], "made">> \in DOMAIN rows
      BY <2>2
    <3>2. rows[<<i[1], "made">>].done \in BOOLEAN
      BY <1>2, <3>1 DEF Rows
    <3> QED BY <2>2, <3>2 DEF Rows
  <2>3. CASE i[1] \notin DOMAIN view /\ ~ ({i[1]} \X {"made", "read"} \subseteq DOMAIN rows)
    <3>1. row(i) = rows[i]
      BY <2>3
    <3> QED BY <1>2, <1>7, <2>3, <3>1
  <2> QED BY <2>1, <2>2, <2>3
<1> HIDE DEF row, m, ids
<1>9. m \in Lists
  <2>1. m \in [ids -> Rows]
    BY <1>1, <1>8
  <2> QED BY <1>6, <2>1, ListOf
<1>10. DOMAIN m = ids /\ \A i \in ids : m[i] = row(i)
  BY <1>1
<1>11. \A i \in DOMAIN m : Listed(rows, i[1]) \/ i[1] \in DOMAIN view
  BY <1>6, <1>10 DEF Listed
<1>12. \A r \in Rules : Listed(rows, r) \/ r \in DOMAIN view => Listed(m, r)
  <2> SUFFICES ASSUME NEW r \in Rules, Listed(rows, r) \/ r \in DOMAIN view
               PROVE  Listed(m, r)
    OBVIOUS
  <2>1. r \in rules
    BY DEF Listed
  <2>2. MergedId(rows, r) \in ids
    BY <2>1 DEF ids
  <2> QED BY <1>5, <1>10, <2>2 DEF Listed
<1>13. \A i \in DOMAIN m : m[i].closed =>
         i[1] \notin DOMAIN view /\ i \in DOMAIN rows /\ rows[i].closed
  BY <1>8, <1>10
<1> QED BY <1>9, <1>11, <1>12, <1>13 DEF m

LEMMA HydrateStep ==
  ASSUME SavedInv, Hydrate
  PROVE  SavedInv' /\ OpenRulesStep
<1> DEFINE rows == Merge(list, hydration.view)
<1>1. /\ Show(rows) /\ hydration' = Idle
      /\ misled' = misled \ {r \in DOMAIN hydration.view : ~ Believed(r)'}
      /\ UNCHANGED <<chain, minting, closing, errors, events, sync, create, close>>
  BY DEF Hydrate, onChain
<1>2. TypeOK /\ Underway /\ Told
  BY DEF SavedInv, Shaped
<1>3. /\ list \in Lists /\ hydration.view \in Views
      /\ DOMAIN hydration.view \subseteq Rules /\ DOMAIN close.todo \subseteq Ids
  BY Domains
<1>4. /\ rows \in Lists
      /\ \A i \in DOMAIN rows : Listed(list, i[1]) \/ i[1] \in DOMAIN hydration.view
      /\ \A i \in DOMAIN rows : rows[i].closed =>
           i[1] \notin DOMAIN hydration.view /\ i \in DOMAIN list /\ list[i].closed
      /\ \A r \in Rules : Listed(list, r) \/ r \in DOMAIN hydration.view => Listed(rows, r)
  BY <1>3, MergeRows
<1> HIDE DEF rows
<1>5. misled' \in SUBSET Rules
  BY <1>1, <1>2 DEF TypeOK
<1>6. ASSUME NEW i \in DOMAIN rows
      PROVE  Born(i[1]) /\ (rows[i].closed => Over(i[1])')
  <2>1. Born(i[1])
    BY <1>2, <1>4 DEF Told, RowsTold, Listed
  <2>2. ASSUME rows[i].closed PROVE Over(i[1])'
    <3>1. Over(i[1]) /\ i[1] \notin DOMAIN hydration.view
      BY <1>2, <1>4, <2>2 DEF Told, RowsTold
    <3> QED BY <1>1, <3>1 DEF Over, Dead
  <2> QED BY <2>1, <2>2
<1>7. \A r \in misled \ misled' : Listed(rows, r) /\ ~ Believed(r)'
  BY <1>1, <1>3, <1>4
<1>8. \A r \in Rules : Held(r) /\ Listed(list, r) => Listed(rows, r)
  BY <1>4
<1>9. /\ list' \in Lists /\ saved' \in [Wallets -> Lists]
      /\ UNCHANGED <<wallet, owner, switches>>
      /\ RowsTold(list)' /\ (\A w \in Wallets : RowsTold(saved[w]))'
      /\ Kept' /\ OpenRulesStep
  BY <1>1, <1>4, <1>5, <1>6, <1>7, <1>8, ShowStep
<1>10. Shaped'
  <2>1. hydration'.at \in {"idle", "asked", "got"} /\ hydration'.view \in Views
    BY <1>1, IdleTypes
  <2>2. TypeOK'
    BY <1>1, <1>2, <1>5, <1>9, <2>1 DEF TypeOK, Views
  <2> QED BY <1>1, <2>2, IdleTypes DEF SavedInv, Shaped
<1>11. Underway'
  BY <1>1, <1>2 DEF Underway, Born
<1>12. (\A i \in DOMAIN close.todo : Born(i[1]) /\ (close.todo[i] => Over(i[1])))'
  <2> SUFFICES ASSUME NEW i \in DOMAIN close.todo
               PROVE  Born(i[1])' /\ (close.todo[i] => Over(i[1])')
    BY <1>1
  <2>1. Born(i[1]) /\ (close.todo[i] => Over(i[1]))
    BY <1>2 DEF Told
  <2>2. Believed(i[1])'
    BY <1>1 DEF Believed
  <2> QED BY <1>1, <2>1, <2>2 DEF Born, Over, Dead
<1>13. Told'
  <2>1. (\A i \in DOMAIN sync.view : Born(i[1]) /\ (sync.view[i] = "gone" => Dead(i[1])))'
    BY <1>1, <1>2 DEF Told, Born, Dead
  <2>2. (\A r \in DOMAIN hydration.view : Born(r))'
    BY <1>1, IdleTypes
  <2> QED BY <1>9, <1>12, <2>1, <2>2 DEF Told
<1> QED BY <1>9, <1>10, <1>11, <1>13 DEF SavedInv

LEMMA SyncStep ==
  ASSUME SavedInv, Sync
  PROVE  SavedInv' /\ OpenRulesStep
<1> DEFINE row(i) == IF i \notin DOMAIN sync.view THEN list[i]
                     ELSE [done   |-> list[i].done   \/ sync.view[i] = "finished",
                           closed |-> list[i].closed \/ sync.view[i] = "gone"]
           rows == [i \in DOMAIN list |-> row(i)]
<1>1. /\ Show(rows) /\ sync' = Idle
      /\ UNCHANGED <<chain, minting, closing, errors, events, hydration, create, close, misled>>
  BY DEF Sync, onChain
<1>2. TypeOK /\ Underway /\ Told
  BY DEF SavedInv, Shaped
<1>3. /\ list \in Lists /\ DOMAIN list \in SUBSET Ids
      /\ \A i \in DOMAIN list : list[i] \in Rows
  BY Domains, OfList
<1>4. \A i \in DOMAIN list : row(i) \in Rows
  BY <1>3 DEF Rows
<1>5. rows \in Lists
  <2>1. rows \in [DOMAIN list -> Rows]
    BY <1>4
  <2> HIDE DEF rows
  <2> QED BY <1>3, <2>1, ListOf
<1>6. ASSUME NEW i \in DOMAIN list
      PROVE  Born(i[1]) /\ (row(i).closed => Over(i[1]))
  <2>1. Born(i[1]) /\ (list[i].closed => Over(i[1]))
    BY <1>2 DEF Told, RowsTold
  <2>2. CASE i \notin DOMAIN sync.view
    BY <2>1, <2>2
  <2>3. CASE i \in DOMAIN sync.view
    <3>1. sync.view[i] = "gone" => Dead(i[1])
      BY <1>2, <2>3 DEF Told
    <3>2. row(i).closed <=> (list[i].closed \/ sync.view[i] = "gone")
      BY <2>3
    <3> QED BY <2>1, <3>1, <3>2 DEF Over
  <2> QED BY <2>2, <2>3
<1>7. DOMAIN rows = DOMAIN list /\ \A i \in DOMAIN list : rows[i] = row(i)
  OBVIOUS
<1> HIDE DEF rows, row
<1>8. \A i \in DOMAIN rows : Born(i[1]) /\ (rows[i].closed => Over(i[1])')
  BY <1>1, <1>6, <1>7 DEF Over, Dead
<1>9. \A r \in Rules : Held(r) /\ Listed(list, r) => Listed(rows, r)
  BY <1>7 DEF Listed
<1>10. misled' \in SUBSET Rules
  BY <1>1, <1>2 DEF TypeOK
<1>11. /\ list' \in Lists /\ saved' \in [Wallets -> Lists]
      /\ UNCHANGED <<wallet, owner, switches>>
      /\ RowsTold(list)' /\ (\A w \in Wallets : RowsTold(saved[w]))'
      /\ Kept' /\ OpenRulesStep
  BY <1>1, <1>5, <1>8, <1>9, <1>10, ShowStep
<1>12. Shaped'
  <2>1. sync'.at \in {"idle", "got"} /\ sync'.view \in Answers
    BY <1>1, IdleTypes
  <2>2. TypeOK'
    BY <1>1, <1>2, <1>11, <2>1 DEF TypeOK, Answers
  <2> QED BY <1>1, <2>2, IdleTypes DEF SavedInv, Shaped
<1>13. Underway'
  BY <1>1, <1>2 DEF Underway, Born
<1>14. Told'
  <2>1. (\A i \in DOMAIN close.todo : Born(i[1]) /\ (close.todo[i] => Over(i[1])))'
    BY <1>1, <1>2 DEF Told, Born, Over, Dead
  <2>2. (\A r \in DOMAIN hydration.view : Born(r))'
    BY <1>1, <1>2 DEF Told, Born
  <2>3. (\A i \in DOMAIN sync.view : Born(i[1]) /\ (sync.view[i] = "gone" => Dead(i[1])))'
    BY <1>1, IdleTypes
  <2> QED BY <1>11, <2>1, <2>2, <2>3 DEF Told
<1> QED BY <1>11, <1>12, <1>13, <1>14 DEF SavedInv

-----------------------------------------------------------------------------
(* Creating.                                                                  *)
LEMMA CreateSteps ==
  ASSUME SavedInv, CreateConfirmed \/ CreateFails \/ \E c \in Chains : Create(c)
  PROVE  SavedInv' /\ OpenRulesStep
<1>1. UNCHANGED <<chain, closing, errors, events, wallet, owner, list, saved, switches,
                  hydration, sync, close, misled>>
  BY DEF CreateConfirmed, CreateFails, Create, onChain, page
<1>2. TypeOK /\ Underway /\ Told
  BY DEF SavedInv, Shaped
<1>3. create \in [at : {"idle", "sent", "confirmed"}, of : Chains \union {{}}]
  BY DEF SavedInv, Shaped
<1>4. /\ create' \in [at : {"idle", "sent", "confirmed"}, of : Chains \union {{}}]
      /\ minting' \subseteq Chains /\ Underway'
  <2>1. CASE CreateConfirmed
    <3>1. /\ create.at = "sent" /\ create.of \notin minting
          /\ create' = [create EXCEPT !.at = "confirmed"] /\ minting' = minting
      BY <2>1 DEF CreateConfirmed, onChain
    <3>2. create'.at = "confirmed" /\ create'.of = create.of
      BY <1>3, <3>1
    <3>3. create' \in [at : {"idle", "sent", "confirmed"}, of : Chains \union {{}}]
      BY <1>3, <3>1
    <3> QED BY <1>1, <1>2, <3>1, <3>2, <3>3 DEF Underway, Born, TypeOK
  <2>2. CASE CreateFails
    <3>1. create' = NoCreate /\ minting' \subseteq minting
      BY <2>2 DEF CreateFails
    <3> QED BY <1>1, <1>2, <3>1, IdleTypes DEF Underway, Born, TypeOK
  <2>3. CASE \E c \in Chains : Create(c)
    <3>1. PICK c \in Chains : Create(c)
      BY <2>3
    <3>2. /\ create' = [at |-> "sent", of |-> c] /\ minting' = minting \union {c}
          /\ \A r \in c : chain[r] = "absent"
      BY <3>1 DEF Create
    <3>3. create'.at = "sent" /\ create'.of = c
      BY <3>2
    <3>4. create' \in [at : {"idle", "sent", "confirmed"}, of : Chains \union {{}}]
      BY <3>2
    <3> QED BY <1>1, <1>2, <3>2, <3>3, <3>4 DEF Underway, Born, TypeOK
  <2> QED BY <2>1, <2>2, <2>3
<1>5. Shaped'
  <2>1. create'.at \in {"idle", "sent", "confirmed"} /\ create'.of \in Chains \union {{}}
    BY <1>4
  <2>2. TypeOK'
    BY <1>1, <1>2, <1>4, <2>1 DEF TypeOK
  <2> QED BY <1>1, <1>4, <2>2 DEF SavedInv, Shaped
<1>6. /\ RowsTold(list)' /\ (\A v \in Wallets : RowsTold(saved[v]))'
      /\ Kept' /\ OpenRulesStep
  BY <1>1, QuietStep
<1>7. Told'
  BY <1>1, <1>2, <1>6 DEF Told, Born, Over, Dead
<1> QED BY <1>4, <1>5, <1>6, <1>7 DEF SavedInv

LEMMA RecordStep ==
  ASSUME SavedInv, Record
  PROVE  SavedInv' /\ OpenRulesStep
<1> DEFINE made == create.of \X {"made"}
           rows == [i \in DOMAIN list \union made |-> IF i \in made THEN Live ELSE list[i]]
<1>1. /\ create.at = "confirmed" /\ Show(rows) /\ create' = NoCreate
      /\ UNCHANGED <<chain, minting, closing, errors, events, hydration, sync, close, misled>>
  BY DEF Record, onChain
<1>2. TypeOK /\ Underway /\ Told
  BY DEF SavedInv, Shaped
<1>3. /\ list \in Lists /\ DOMAIN list \in SUBSET Ids
      /\ \A i \in DOMAIN list : list[i] \in Rows
  BY Domains, OfList
<1>4. create.of \in Chains /\ \A r \in create.of : Born(r)
  BY <1>1, <1>2 DEF Underway
<1>5. made \subseteq Ids
  BY <1>4, Parties DEF Ids
<1>6. Live \in Rows /\ Live.closed = FALSE
  BY DEF Live, Rows
<1>7. rows \in Lists
  <2>1. rows \in [DOMAIN list \union made -> Rows]
    BY <1>3, <1>6
  <2>2. DOMAIN list \union made \in SUBSET Ids
    BY <1>3, <1>5
  <2> HIDE DEF rows, made
  <2> QED BY <2>1, <2>2, ListOf
<1>8. ASSUME NEW i \in DOMAIN rows
      PROVE  Born(i[1]) /\ (rows[i].closed => Over(i[1])')
  <2>1. CASE i \in made
    BY <1>4, <1>6, <2>1
  <2>2. CASE i \notin made
    <3>1. i \in DOMAIN list /\ rows[i] = list[i]
      BY <2>2
    <3> QED BY <1>1, <1>2, <3>1 DEF Told, RowsTold, Over, Dead
  <2> QED BY <2>1, <2>2
<1>9. \A r \in Rules : Held(r) /\ Listed(list, r) => Listed(rows, r)
  BY DEF Listed
<1>10. misled' \in SUBSET Rules
  BY <1>1, <1>2 DEF TypeOK
<1> HIDE DEF rows
<1>11. /\ list' \in Lists /\ saved' \in [Wallets -> Lists]
      /\ UNCHANGED <<wallet, owner, switches>>
      /\ RowsTold(list)' /\ (\A w \in Wallets : RowsTold(saved[w]))'
      /\ Kept' /\ OpenRulesStep
  BY <1>1, <1>7, <1>8, <1>9, <1>10, ShowStep
<1>12. Shaped'
  <2>1. create'.at \in {"idle", "sent", "confirmed"} /\ create'.of \in Chains \union {{}}
    BY <1>1, IdleTypes
  <2>2. TypeOK'
    BY <1>1, <1>2, <1>11, <2>1 DEF TypeOK
  <2> QED BY <1>1, <2>2, IdleTypes DEF SavedInv, Shaped
<1>13. Underway'
  BY <1>1, <1>2, IdleTypes DEF Underway, Born
<1>14. Told'
  BY <1>1, <1>2, <1>11 DEF Told, Born, Over, Dead
<1> QED BY <1>11, <1>12, <1>13, <1>14 DEF SavedInv

-----------------------------------------------------------------------------
(* Closing.                                                                   *)
LEMMA DeleteStep ==
  ASSUME SavedInv, NEW id \in DOMAIN list, Delete(id)
  PROVE  SavedInv' /\ OpenRulesStep
<1> DEFINE todo == [i \in Siblings(id) |-> list[i].closed]
<1>1. /\ close' = [at |-> "next", by |-> wallet, todo |-> todo, now |-> {}]
      /\ UNCHANGED <<chain, minting, closing, errors, events, wallet, owner, list, saved,
                     switches, hydration, sync, create, misled>>
  BY DEF Delete, onChain, page
<1>2. TypeOK /\ Underway /\ Told
  BY DEF SavedInv, Shaped
<1>3. /\ DOMAIN list \in SUBSET Ids
      /\ \A i \in DOMAIN list : list[i].closed \in BOOLEAN
  BY Domains, OfList
<1>4. Siblings(id) \subseteq DOMAIN list
  BY DEF Siblings
<1>5. todo \in Decisions /\ DOMAIN todo \subseteq DOMAIN list
      /\ \A i \in DOMAIN todo : todo[i] = list[i].closed
  <2>1. todo \in [Siblings(id) -> BOOLEAN] /\ Siblings(id) \in SUBSET Ids
    BY <1>3, <1>4
  <2>2. todo \in Decisions
    BY <2>1 DEF Decisions
  <2> QED BY <1>4, <2>2
<1> HIDE DEF todo
<1>6. /\ close'.at = "next" /\ close'.by = wallet /\ close'.todo = todo /\ close'.now = {}
  BY <1>1
<1>7. Shaped'
  <2>1. close' \in [at : {"idle", "next", "sent"}, by : Wallets \union {NoWallet},
                    todo : Decisions, now : SUBSET Ids]
    BY <1>1, <1>2, <1>5 DEF TypeOK
  <2>2. /\ close'.at \in {"idle", "next", "sent"} /\ close'.by \in Wallets \union {NoWallet}
        /\ close'.todo \in Decisions
        /\ close'.now \subseteq DOMAIN close'.todo
        /\ close'.at = "sent" <=> close'.now # {}
    BY <1>2, <1>5, <1>6 DEF TypeOK
  <2>3. TypeOK'
    BY <1>1, <1>2, <2>2 DEF TypeOK, Decisions
  <2> QED BY <1>1, <2>1, <2>3 DEF SavedInv, Shaped
<1>8. Underway'
  BY <1>1, <1>2 DEF Underway, Born
<1>9. /\ RowsTold(list)' /\ (\A v \in Wallets : RowsTold(saved[v]))'
      /\ Kept' /\ OpenRulesStep
  BY <1>1, QuietStep
<1>10. (\A i \in DOMAIN close.todo : Born(i[1]) /\ (close.todo[i] => Over(i[1])))'
  <2> SUFFICES ASSUME NEW i \in DOMAIN todo PROVE Born(i[1])' /\ (todo[i] => Over(i[1])')
    BY <1>6
  <2>1. Born(i[1]) /\ (list[i].closed => Over(i[1]))
    BY <1>2, <1>5 DEF Told, RowsTold
  <2> QED BY <1>1, <1>5, <2>1 DEF Born, Over, Dead
<1>11. Told'
  <2>1. (\A i \in DOMAIN sync.view : Born(i[1]) /\ (sync.view[i] = "gone" => Dead(i[1])))'
    BY <1>1, <1>2 DEF Told, Born, Dead
  <2>2. (\A r \in DOMAIN hydration.view : Born(r))'
    BY <1>1, <1>2 DEF Told, Born
  <2> QED BY <1>9, <1>10, <2>1, <2>2 DEF Told
<1> QED BY <1>7, <1>8, <1>9, <1>11 DEF SavedInv

LEMMA Rested ==
  ASSUME SavedInv, NEW id \in Ids
  PROVE  /\ Rest(id) \in [at : {"idle", "next", "sent"}, by : Wallets \union {NoWallet},
                          todo : Decisions, now : SUBSET Ids]
         /\ Rest(id).at # "sent" /\ Rest(id).now = {}
         /\ DOMAIN Rest(id).todo \subseteq DOMAIN close.todo
         /\ \A i \in DOMAIN Rest(id).todo : Rest(id).todo[i] = close.todo[i]
<1> DEFINE left == Without(close.todo, id)
<1>1. close \in [at : {"idle", "next", "sent"}, by : Wallets \union {NoWallet},
                 todo : Decisions, now : SUBSET Ids]
  BY DEF SavedInv, Shaped
<1>2. PICK S \in SUBSET Ids : close.todo \in [S -> BOOLEAN]
  BY <1>1 DEF Decisions
<1>3. left \in [S \ {id} -> BOOLEAN] /\ \A i \in S \ {id} : left[i] = close.todo[i]
  BY <1>2 DEF Without
<1>4. left \in Decisions
  BY <1>3 DEF Decisions
<1>5. DOMAIN left = S \ {id} /\ DOMAIN close.todo = S
  BY <1>2, <1>3
<1> HIDE DEF left
<1>6. CASE DOMAIN left = {}
  <2>1. Rest(id) = NoClose
    BY <1>6 DEF Rest, left
  <2> QED BY <2>1, IdleTypes
<1>7. CASE DOMAIN left # {}
  <2>1. Rest(id) = [close EXCEPT !.at = "next", !.todo = left, !.now = {}]
    BY <1>7 DEF Rest, left
  <2>2. Rest(id) = [at |-> "next", by |-> close.by, todo |-> left, now |-> {}]
    BY <1>1, <2>1
  <2> QED BY <1>1, <1>3, <1>4, <1>5, <2>2
<1> QED BY <1>6, <1>7

(* A step that ends with one row less to close, shown or not.                 *)
LEMMA RestStep ==
  ASSUME SavedInv, NEW id \in Ids, close' = Rest(id),
         UNCHANGED <<chain, minting, errors, events, wallet, owner, switches,
                     hydration, sync, create>>,
         closing' \subseteq closing, misled \subseteq misled', misled' \in SUBSET Rules,
         list' \in Lists, saved' \in [Wallets -> Lists],
         RowsTold(list)', (\A w \in Wallets : RowsTold(saved[w]))', Kept'
  PROVE  SavedInv'
<1>1. TypeOK /\ Underway /\ Told
  BY DEF SavedInv, Shaped
<1>2. /\ close' \in [at : {"idle", "next", "sent"}, by : Wallets \union {NoWallet},
                      todo : Decisions, now : SUBSET Ids]
      /\ close'.at # "sent" /\ close'.now = {}
      /\ DOMAIN close'.todo \subseteq DOMAIN close.todo
      /\ \A i \in DOMAIN close'.todo : close'.todo[i] = close.todo[i]
  BY Rested
<1>3. Shaped'
  <2>1. /\ close'.at \in {"idle", "next", "sent"} /\ close'.by \in Wallets \union {NoWallet}
        /\ close'.todo \in Decisions
        /\ close'.now \subseteq DOMAIN close'.todo
        /\ close'.at = "sent" <=> close'.now # {}
    BY <1>2
  <2>2. TypeOK'
    BY <1>1, <2>1 DEF TypeOK, Decisions
  <2> QED BY <1>2, <2>2 DEF SavedInv, Shaped
<1>4. Underway'
  BY <1>1 DEF Underway, Born
<1>5. (\A i \in DOMAIN close.todo : Born(i[1]) /\ (close.todo[i] => Over(i[1])))'
  BY <1>1, <1>2 DEF Told, Born, Over, Dead
<1>6. Told'
  BY <1>1, <1>5 DEF Told, Born, Dead
<1> QED BY <1>3, <1>4, <1>6 DEF SavedInv

LEMMA DropStep ==
  ASSUME SavedInv, NEW id \in Ids, Remove(id) \/ Orphaned(id)
  PROVE  SavedInv' /\ OpenRulesStep
<1> DEFINE rows == Without(list, id)
<1>1. /\ id \in DOMAIN close.todo /\ Show(rows) /\ close' = Rest(id)
      /\ UNCHANGED <<chain, minting, closing, errors, events, hydration, sync, create, misled>>
  BY DEF Remove, Orphaned, onChain
<1>2. TypeOK /\ Underway /\ Told
  BY DEF SavedInv, Shaped
<1>3. /\ list \in Lists /\ DOMAIN list \in SUBSET Ids
      /\ \A i \in DOMAIN list : list[i] \in Rows
  BY Domains, OfList
<1>4. /\ rows = [i \in DOMAIN list \ {id} |-> list[i]]
      /\ DOMAIN rows = DOMAIN list \ {id} /\ \A i \in DOMAIN rows : rows[i] = list[i]
  BY DEF Without
<1> HIDE DEF rows
<1>5. rows \in Lists
  <2>1. rows \in [DOMAIN list \ {id} -> Rows] /\ DOMAIN list \ {id} \in SUBSET Ids
    BY <1>3, <1>4
  <2> QED BY <2>1, ListOf
<1>6. ~ Held(id[1])
  <2>1. CASE Remove(id)
    <3>1. close.todo[id]
      BY <2>1 DEF Remove, ToRemove
    <3> QED BY <1>1, <1>2, <3>1 DEF Told, Over, Dead, Held
  <2>2. CASE Orphaned(id)
    BY <2>2 DEF Orphaned, Held
  <2> QED BY <2>1, <2>2
<1>7. \A i \in DOMAIN rows : Born(i[1]) /\ (rows[i].closed => Over(i[1])')
  BY <1>1, <1>2, <1>4 DEF Told, RowsTold, Over, Dead
<1>8. \A r \in Rules : Held(r) /\ Listed(list, r) => Listed(rows, r)
  BY <1>4, <1>6 DEF Listed
<1>9. misled' \in SUBSET Rules
  BY <1>1, <1>2 DEF TypeOK
<1>10. /\ list' \in Lists /\ saved' \in [Wallets -> Lists]
      /\ UNCHANGED <<wallet, owner, switches>>
      /\ RowsTold(list)' /\ (\A w \in Wallets : RowsTold(saved[w]))'
      /\ Kept' /\ OpenRulesStep
  BY <1>1, <1>5, <1>7, <1>8, <1>9, ShowStep
<1> QED BY <1>1, <1>9, <1>10, RestStep

LEMMA ClosedStep ==
  ASSUME SavedInv, NEW id \in Ids, Closed(id)
  PROVE  SavedInv' /\ OpenRulesStep
<1> DEFINE row(i) == IF i = id THEN [list[i] EXCEPT !.closed = TRUE] ELSE list[i]
           rows == [i \in DOMAIN list |-> row(i)]
<1>1. /\ id \in close.now /\ Show(rows) /\ close' = Rest(id)
      /\ misled' = IF chain[id[1]] = "gone" THEN misled ELSE misled \union {id[1]}
      /\ UNCHANGED <<chain, minting, closing, errors, events, hydration, sync, create>>
  BY DEF Closed, onChain
<1>2. TypeOK /\ Underway /\ Told
  BY DEF SavedInv, Shaped
<1>3. /\ list \in Lists /\ DOMAIN list \in SUBSET Ids
      /\ \A i \in DOMAIN list : list[i] \in Rows
  BY Domains, OfList
<1>4. \A i \in DOMAIN list : row(i) \in Rows /\ (i # id => row(i) = list[i])
  BY <1>3 DEF Rows
<1>5. DOMAIN rows = DOMAIN list /\ \A i \in DOMAIN list : rows[i] = row(i)
  OBVIOUS
<1> HIDE DEF rows, row
<1>6. rows \in Lists
  <2>1. rows \in [DOMAIN list -> Rows]
    BY <1>4 DEF rows
  <2> QED BY <1>3, <2>1, ListOf
<1>7. id[1] \in Rules
  BY DEF Ids
<1>8. misled' \in SUBSET Rules /\ misled \subseteq misled'
  BY <1>1, <1>2, <1>7 DEF TypeOK
<1>9. Over(id[1])'
  BY <1>1 DEF Over, Dead
<1>10. \A i \in DOMAIN rows : Born(i[1]) /\ (rows[i].closed => Over(i[1])')
  <2> SUFFICES ASSUME NEW i \in DOMAIN list
               PROVE  Born(i[1]) /\ (row(i).closed => Over(i[1])')
    BY <1>5
  <2>1. Born(i[1]) /\ (list[i].closed => Over(i[1]))
    BY <1>2 DEF Told, RowsTold
  <2>2. CASE i = id
    BY <1>9, <2>1, <2>2
  <2>3. CASE i # id
    BY <1>1, <1>4, <1>8, <2>1, <2>3 DEF Over, Dead
  <2> QED BY <2>2, <2>3
<1>11. \A r \in Rules : Held(r) /\ Listed(list, r) => Listed(rows, r)
  BY <1>5 DEF Listed
<1>12. /\ list' \in Lists /\ saved' \in [Wallets -> Lists]
      /\ UNCHANGED <<wallet, owner, switches>>
      /\ RowsTold(list)' /\ (\A w \in Wallets : RowsTold(saved[w]))'
      /\ Kept' /\ OpenRulesStep
  BY <1>1, <1>6, <1>8, <1>10, <1>11, ShowStep
<1> QED BY <1>1, <1>8, <1>12, RestStep

LEMMA FailStep ==
  ASSUME SavedInv, NEW id \in Ids, SendFails(id) \/ CloseFails(id)
  PROVE  SavedInv' /\ OpenRulesStep
<1>1. /\ close' = Rest(id) /\ closing' \subseteq closing
      /\ UNCHANGED <<chain, minting, errors, events, wallet, owner, list, saved, switches,
                     hydration, sync, create, misled>>
  BY DEF SendFails, CloseFails, onChain, page
<1>2. /\ RowsTold(list)' /\ (\A v \in Wallets : RowsTold(saved[v]))'
      /\ Kept' /\ OpenRulesStep
  BY <1>1, QuietStep
<1>3. misled' \in SUBSET Rules /\ list' \in Lists /\ saved' \in [Wallets -> Lists]
  BY <1>1 DEF SavedInv, Shaped, TypeOK
<1> QED BY <1>1, <1>2, <1>3, RestStep

LEMMA SendStep ==
  ASSUME SavedInv, NEW id \in Ids, Send(id)
  PROVE  SavedInv' /\ OpenRulesStep
<1>1. /\ id \in DOMAIN close.todo
      /\ chain[id[1]] \in {"open", "finished"}
      /\ closing' = closing \union {id[1]}
      /\ close' = [close EXCEPT !.at = "sent", !.now = {id}]
      /\ UNCHANGED <<chain, minting, errors, events, wallet, owner, list, saved, switches,
                     hydration, sync, create, misled>>
  BY DEF Send, page
<1>2. TypeOK /\ Underway /\ Told
  BY DEF SavedInv, Shaped
<1>3. close \in [at : {"idle", "next", "sent"}, by : Wallets \union {NoWallet},
                 todo : Decisions, now : SUBSET Ids]
  BY DEF SavedInv, Shaped
<1>4. close' = [at |-> "sent", by |-> close.by, todo |-> close.todo, now |-> {id}]
  BY <1>1, <1>3
<1>5. /\ close'.at = "sent" /\ close'.by = close.by /\ close'.todo = close.todo
      /\ close'.now = {id}
  BY <1>4
<1>6. id[1] \in Rules
  BY DEF Ids
<1>7. Shaped'
  <2>1. close' \in [at : {"idle", "next", "sent"}, by : Wallets \union {NoWallet},
                    todo : Decisions, now : SUBSET Ids]
    BY <1>3, <1>4
  <2>2. /\ close'.at \in {"idle", "next", "sent"} /\ close'.by \in Wallets \union {NoWallet}
        /\ close'.todo \in Decisions
        /\ close'.now \subseteq DOMAIN close'.todo
        /\ close'.at = "sent" <=> close'.now # {}
    BY <1>1, <1>3, <1>5
  <2>3. closing' \subseteq Rules
    BY <1>1, <1>2, <1>6 DEF TypeOK
  <2>4. TypeOK'
    BY <1>1, <1>2, <2>2, <2>3 DEF TypeOK, Decisions
  <2> QED BY <1>1, <2>1, <2>4 DEF SavedInv, Shaped
<1>8. Underway'
  BY <1>1, <1>2 DEF Underway, Born
<1>9. /\ RowsTold(list)' /\ (\A v \in Wallets : RowsTold(saved[v]))'
      /\ Kept' /\ OpenRulesStep
  BY <1>1, QuietStep
<1>10. Told'
  BY <1>1, <1>2, <1>5, <1>9 DEF Told, Born, Over, Dead
<1> QED BY <1>7, <1>8, <1>9, <1>10 DEF SavedInv

-----------------------------------------------------------------------------
LEMMA SavedInit == Init => SavedInv
<1> SUFFICES ASSUME Init PROVE SavedInv
  OBVIOUS
<1> USE DEF Init
<1>1. ASSUME NEW w \in Wallets
      PROVE  saved[w] \in Lists /\ RowsTold(saved[w])
  <2> DEFINE S == {i \in Ids : i[2] = "made" /\ Owner(i[1]) = w /\ ChainOf(i[1]) \in Existing}
  <2>1. saved[w] = [i \in S |-> Live]
    OBVIOUS
  <2>2. Live \in Rows /\ Live.closed = FALSE
    BY DEF Live, Rows
  <2>3. saved[w] \in [S -> Rows] /\ S \in SUBSET Ids
    BY <2>1, <2>2
  <2>4. \A i \in S : Born(i[1])
    BY DEF Born, Ids
  <2> HIDE DEF S
  <2>5. saved[w] \in Lists
    BY <2>3, ListOf
  <2>6. RowsTold(saved[w])
    BY <2>1, <2>2, <2>4 DEF RowsTold
  <2> QED BY <2>5, <2>6
<1>2. saved \in [Wallets -> Lists]
  <2>1. DOMAIN saved = Wallets /\ saved = [w \in Wallets |-> saved[w]]
    OBVIOUS
  <2> QED BY <1>1, <2>1
<1>3. chain \in [Rules -> {"absent", "void", "open", "finished", "gone"}]
  OBVIOUS
<1>4. /\ hydration.at \in {"idle", "asked", "got"} /\ hydration.view \in Views
      /\ sync.at \in {"idle", "got"} /\ sync.view \in Answers
      /\ create.at \in {"idle", "sent", "confirmed"} /\ create.of \in Chains \union {{}}
      /\ close.at \in {"idle", "next", "sent"} /\ close.by \in Wallets \union {NoWallet}
      /\ close.todo \in Decisions /\ close.now \subseteq DOMAIN close.todo
      /\ close.at = "sent" <=> close.now # {}
  BY IdleTypes
<1>5. TypeOK
  BY <1>2, <1>3, <1>4, Emptiness, SavedRulesAssumption DEF TypeOK, Views, Answers, Decisions
<1>6. Shaped
  BY <1>5, IdleTypes DEF Shaped
<1>7. Underway
  BY IdleTypes DEF Underway
<1>8. RowsTold(list)
  BY Emptiness DEF RowsTold
<1>9. Told
  BY <1>1, <1>8, IdleTypes DEF Told
<1>10. Kept
  BY DEF Kept
<1> QED BY <1>6, <1>7, <1>9, <1>10 DEF SavedInv

LEMMA SavedNext == SavedInv /\ [Next]_vars => SavedInv' /\ OpenRulesStep
<1> SUFFICES ASSUME SavedInv, [Next]_vars PROVE SavedInv' /\ OpenRulesStep
  OBVIOUS
<1>1. CASE \E w \in Wallets \union {NoWallet} : Switch(w)
  BY <1>1, SwitchStep
<1>2. CASE Reload \/ Load \/ HydrateRead \/ Hydrate \/ SyncRead \/ Sync
  BY <1>2, ReloadStep, LoadStep, HydrateReadStep, HydrateStep, SyncReadStep, SyncStep
<1>3. CASE CreateConfirmed \/ CreateFails \/ \E c \in Chains : Create(c)
  BY <1>3, CreateSteps
<1>4. CASE Record
  BY <1>4, RecordStep
<1>5. CASE \/ \E c \in Chains : Mint(c)
           \/ \E r \in Rules : Refund(r) \/ Finish(r) \/ CloseElsewhere(r)
  BY <1>5, ChainSteps
<1>6. CASE \E id \in DOMAIN list : Delete(id)
  BY <1>6, DeleteStep
<1>7. CASE \E id \in Ids : Closing(id)
  BY <1>7, DropStep, SendStep, FailStep, ClosedStep DEF Closing
<1>8. CASE UNCHANGED vars
  <2>1. UNCHANGED <<chain, minting, closing, errors, events, wallet, owner, list, saved,
                    switches, hydration, sync, create, close, misled>>
    BY <1>8 DEF vars, onChain, page, tasks
  <2>2. /\ RowsTold(list)' /\ (\A v \in Wallets : RowsTold(saved[v]))'
        /\ Kept' /\ OpenRulesStep
    BY <2>1, QuietStep
  <2>3. Shaped' /\ Underway'
    BY <2>1 DEF SavedInv, Shaped, TypeOK, Underway, Born
  <2>4. Told'
    BY <2>1, <2>2 DEF SavedInv, Told, Born, Over, Dead
  <2> QED BY <2>2, <2>3, <2>4 DEF SavedInv
<1> QED BY <1>1, <1>2, <1>3, <1>4, <1>5, <1>6, <1>7, <1>8 DEF Next

(* The types, for any wallets, chains of rules and bounds.                    *)
THEOREM SavedTypes == Spec => []TypeOK
<1>1. SavedInv => TypeOK
  BY DEF SavedInv, Shaped
<1> QED BY <1>1, SavedInit, SavedNext, PTL DEF Spec

(* However wallet switches, reloads, hydrations, polls, creates and closes    *)
(* interleave, no save drops the row of a rule that holds a deposit, unless   *)
(* the client wrongly believes it closed (the save effect, closeOneRule,      *)
(* mergeOnChainAutomations).                                                  *)
THEOREM DepositsStayListed == Spec => OpenRulesStaySaved
<1>1. OpenRulesStep => \A w \in Wallets, r \in Rules :
         chain[r] \in {"open", "finished"} /\ r \notin misled
           /\ (\E i \in DOMAIN saved[w] : i[1] = r)
         => \E i \in DOMAIN saved'[w] : i[1] = r
  BY DEF OpenRulesStep, Held, Listed
<1> QED BY <1>1, SavedInit, SavedNext, PTL DEF Spec, OpenRulesStaySaved

-----------------------------------------------------------------------------
(* The history of a rule (RuleHistory).                                       *)

(* The signatures a cursor may have passed without a record. *)
Passed == cut \union mute

(* What makes an entry safe to save at any later time: with n executions on *)
(* chain and the signatures in c passed, it is whole up to its own cursor,  *)
(* and the cursor is not ahead of the chain.  Both survive whatever the     *)
(* chain and the other walkers do, so that it does not matter how old a     *)
(* copy is when it is saved.                                                *)
Whole(e, n, c) ==
  /\ e \in Entries /\ e.cursor <= n
  /\ e.seen \subseteq 1..n
  /\ \A s \in 1..e.cursor : s \in e.seen \/ s \in c

HistoryInv ==
  /\ HistoryTypeOK
  /\ Whole(entry, fires, Passed)
  /\ \A w \in Walkers : Whole(walker[w].copy, fires, Passed)

(* An entry that is whole stays whole as the chain and the passed ones grow. *)
LEMMA WholeStays ==
  ASSUME NEW e, NEW n \in Nat, NEW m \in Nat, n <= m, NEW c, NEW d, c \subseteq d,
         Whole(e, n, c)
  PROVE  Whole(e, m, d)
<1>1. e.cursor \in Nat /\ e.cursor <= m
  BY DEF Whole, Entries
<1>2. e.seen \subseteq 1..m
  BY DEF Whole
<1> QED  BY <1>1, <1>2 DEF Whole

(* An entry freshly made is whole. *)
LEMMA FreshWhole ==
  ASSUME NEW n \in Nat, NEW c
  PROVE  Whole(Fresh, n, c)
<1>1. Fresh \in Entries  BY RuleHistoryAssumption DEF Fresh, Entries
<1> QED  BY <1>1 DEF Whole, Fresh

LEMMA InitHistory == HistoryInit => HistoryInv
<1> SUFFICES ASSUME HistoryInit PROVE HistoryInv  OBVIOUS
<1> USE RuleHistoryAssumption
<1>1. Whole(Fresh, fires, Passed)  BY FreshWhole DEF HistoryInit
<1>2. Fresh \in Entries  BY DEF Fresh, Entries
<1>3. Asleep \in [at : {"idle", "walk", "save"}, copy : Entries]
  BY <1>2 DEF Asleep
<1>4. entry.seen = {} /\ entry.cursor = 0  BY DEF HistoryInit, Fresh
<1>5. HistoryTypeOK
  <2>1. fires = 0 /\ faults = 0 /\ cut = {} /\ mute = {} /\ over = FALSE /\ terminal = FALSE
    BY DEF HistoryInit
  <2>2. fires \in 0..MaxFires /\ faults \in 0..MaxFaults  BY <2>1
  <2>3. entry \in Entries  BY <1>2 DEF HistoryInit
  <2>4. walker \in [Walkers -> [at : {"idle", "walk", "save"}, copy : Entries]]
    BY <1>3 DEF HistoryInit
  <2>5. entry.seen \subseteq 1..fires /\ entry.cursor <= fires  BY <1>4, <2>1
  <2>6. cut \subseteq 1..fires /\ mute \subseteq 1..fires  BY <2>1
  <2> QED  BY <2>1, <2>2, <2>3, <2>4, <2>5, <2>6 DEF HistoryTypeOK
<1>6. \A w \in Walkers : walker[w].copy = Fresh  BY DEF HistoryInit, Asleep
<1> QED  BY <1>1, <1>5, <1>6 DEF HistoryInv, HistoryInit

(* The signatures a walk finds on a page, with those that did not fit it    *)
(* and those that gave no record, make the entry whole up to the newest     *)
(* one; if one of them is lost the cursor stays.                            *)
LEMMA WalkWhole ==
  ASSUME HistoryTypeOK, NEW had, Whole(had, fires, Passed),
         NEW lost \in SUBSET Page(had.cursor), NEW dumb \in SUBSET (Page(had.cursor) \ lost),
         IF NextCursor(had.cursor, lost) = had.cursor THEN UNCHANGED <<cut, mute>>
         ELSE /\ cut' = cut \union {s \in 1..fires :
                                     had.cursor < s /\ s \notin Page(had.cursor)}
              /\ mute' = mute \union dumb
  PROVE  /\ Whole([cursor |-> NextCursor(had.cursor, lost),
                   seen   |-> had.seen \union (Page(had.cursor) \ (lost \union dumb))],
                  fires, Passed')
         /\ Passed \subseteq Passed'
         /\ cut' \subseteq 1..fires /\ mute' \subseteq 1..fires
<1> DEFINE sheet  == Page(had.cursor)
           failed == lost \union dumb
           cursor == NextCursor(had.cursor, lost)
           found  == [cursor |-> cursor, seen |-> had.seen \union (sheet \ failed)]
<1> USE RuleHistoryAssumption
<1>0. fires \in Nat /\ fires <= MaxFires /\ cut \subseteq 1..fires /\ mute \subseteq 1..fires
  BY DEF HistoryTypeOK
<1>1. had.cursor \in Nat /\ had.cursor <= fires /\ had.seen \subseteq 1..fires
  BY <1>0 DEF Whole, Entries
<1>2. sheet \subseteq 1..fires  BY DEF Page
<1>3. /\ cut \subseteq cut' /\ mute \subseteq mute'
      /\ cut' \subseteq 1..fires /\ mute' \subseteq 1..fires
  <2>1. CASE cursor = had.cursor  BY <2>1, <1>0
  <2>2. CASE cursor # had.cursor  BY <2>2, <1>0, <1>2
  <2> QED  BY <2>1, <2>2
<1>4. cursor \in {fires, had.cursor}  BY DEF NextCursor
<1>5. found.seen \subseteq 1..fires /\ 1..fires \subseteq Sigs
  BY <1>0, <1>1, <1>2 DEF Sigs
<1>6. found \in Entries  BY <1>0, <1>1, <1>4, <1>5 DEF Entries
<1>7. ASSUME NEW s \in 1..cursor PROVE s \in found.seen \/ s \in Passed'
  <2>1. CASE cursor = had.cursor
    <3>1. s \in had.seen \/ s \in Passed  BY <2>1 DEF Whole
    <3> QED  BY <3>1, <1>3 DEF Passed
  <2>2. CASE cursor # had.cursor
    <3>1. lost = {} /\ cursor = fires  BY <2>2 DEF NextCursor
    <3>2. s \in 1..fires  BY <3>1
    <3>3. CASE s <= had.cursor
      <4>1. s \in 1..had.cursor  BY <3>2, <3>3, <1>0, <1>1
      <4>2. s \in had.seen \/ s \in Passed  BY <4>1 DEF Whole
      <4> QED  BY <4>2, <1>3 DEF Passed
    <3>4. CASE had.cursor < s
      <4>1. s \in sheet \/ s \in cut'  BY <3>2, <3>4, <2>2
      <4>2. s \in sheet => s \in found.seen \/ s \in mute'  BY <3>1, <2>2
      <4> QED  BY <4>1, <4>2 DEF Passed
    <3> QED  BY <3>2, <3>3, <3>4, <1>0, <1>1
  <2> QED  BY <2>1, <2>2
<1>8. found.cursor <= fires  BY <1>0, <1>1, <1>4
<1>9. \A s \in 1..found.cursor : s \in found.seen \/ s \in Passed'  BY <1>7
<1>10. Whole(found, fires, Passed')  BY <1>5, <1>6, <1>8, <1>9 DEF Whole
<1>11. Passed \subseteq Passed'  BY <1>3 DEF Passed
<1> QED  BY <1>3, <1>10, <1>11

LEMMA WalkKeeps ==
  ASSUME HistoryInv, NEW w \in Walkers, Walk(w)
  PROVE  HistoryInv'
<1> USE RuleHistoryAssumption
<1> DEFINE had    == walker[w].copy
           sheet   == Page(had.cursor)
           Stages == [at : {"idle", "walk", "save"}, copy : Entries]
<1>0. /\ HistoryTypeOK /\ fires \in Nat /\ cut \subseteq 1..fires /\ mute \subseteq 1..fires
      /\ faults \in 0..MaxFaults /\ walker \in [Walkers -> Stages] /\ Whole(entry, fires, Passed)
      /\ \A v \in Walkers : Whole(walker[v].copy, fires, Passed)
  BY DEF HistoryInv, HistoryTypeOK
<1>1. fires' = fires /\ entry' = entry /\ over' = over /\ terminal' = terminal
  BY DEF Walk
<1>2. PICK next :
        /\ Whole(next.copy, fires, Passed') /\ next \in Stages
        /\ Passed \subseteq Passed' /\ cut' \subseteq 1..fires /\ mute' \subseteq 1..fires
        /\ walker' = [walker EXCEPT ![w] = next]
        /\ faults' \in 0..MaxFaults
  <2>1. Whole(Fresh, fires, Passed) /\ Fresh \in Entries
    BY FreshWhole, <1>0 DEF Whole
  <2>2. CASE /\ faults < MaxFaults /\ faults' = faults + 1
             /\ walker' = [walker EXCEPT ![w] = Asleep] /\ UNCHANGED <<cut, mute>>
    <3>1. Asleep \in Stages /\ Asleep.copy = Fresh  BY <2>1 DEF Asleep
    <3>2. Passed' = Passed  BY <2>2 DEF Passed
    <3>3. Whole(Asleep.copy, fires, Passed')  BY <3>1, <3>2, <2>1
    <3>4. faults' \in 0..MaxFaults  BY <2>2, <1>0
    <3> QED  BY <2>2, <3>1, <3>2, <3>3, <3>4, <1>0
  <2>3. ASSUME NEW lost \in SUBSET sheet, NEW dumb \in SUBSET (sheet \ lost),
               LET failed == lost \union dumb
                   cursor == NextCursor(had.cursor, lost)
                   found  == [cursor |-> cursor, seen |-> had.seen \union (sheet \ failed)]
               IN
               /\ failed # {} => faults < MaxFaults
               /\ faults' = IF failed = {} THEN faults ELSE faults + 1
               /\ walker' = [walker EXCEPT ![w] =
                       IF found = had THEN Asleep ELSE [at |-> "save", copy |-> found]]
               /\ IF cursor = had.cursor THEN UNCHANGED <<cut, mute>>
                  ELSE /\ cut' = cut \union {s \in 1..fires : had.cursor < s /\ s \notin sheet}
                       /\ mute' = mute \union dumb
        PROVE  \E next :
                 /\ Whole(next.copy, fires, Passed') /\ next \in Stages
                 /\ Passed \subseteq Passed' /\ cut' \subseteq 1..fires /\ mute' \subseteq 1..fires
                 /\ walker' = [walker EXCEPT ![w] = next]
                 /\ faults' \in 0..MaxFaults
    <3> DEFINE failed == lost \union dumb
               cursor == NextCursor(had.cursor, lost)
               found  == [cursor |-> cursor, seen |-> had.seen \union (sheet \ failed)]
               next   == IF found = had THEN Asleep ELSE [at |-> "save", copy |-> found]
    <3>1. /\ Whole(found, fires, Passed') /\ Passed \subseteq Passed'
          /\ cut' \subseteq 1..fires /\ mute' \subseteq 1..fires
      <4>1. Whole(had, fires, Passed)  BY <1>0
      <4>2. IF cursor = had.cursor THEN UNCHANGED <<cut, mute>>
            ELSE /\ cut' = cut \union {s \in 1..fires : had.cursor < s /\ s \notin sheet}
                 /\ mute' = mute \union dumb
        BY <2>3
      <4> HIDE DEF had
      <4> QED  BY <1>0, <4>1, <4>2, WalkWhole
    <3>2. found \in Entries  BY <3>1 DEF Whole
    <3>3. [at |-> "save", copy |-> found] \in Stages  BY <3>2
    <3>4. Asleep \in Stages /\ Asleep.copy = Fresh  BY <2>1 DEF Asleep
    <3>5. next \in Stages  BY <3>3, <3>4
    <3>6. Whole(next.copy, fires, Passed')
      <4>1. Whole(Fresh, fires, Passed')  BY FreshWhole, <1>0
      <4>2. CASE found = had  BY <4>1, <4>2, <3>4
      <4>3. CASE found # had
        <5>1. next.copy = found  BY <4>3
        <5> QED  BY <5>1, <3>1
      <4> QED  BY <4>2, <4>3
    <3>7. faults' \in 0..MaxFaults  BY <2>3, <1>0
    <3>8. walker' = [walker EXCEPT ![w] = next]  BY <2>3
    <3> HIDE DEF next
    <3> QED  BY <3>1, <3>5, <3>6, <3>7, <3>8
  <2> QED  BY <2>2, <2>3 DEF Walk
<1>3. walker' \in [Walkers -> Stages]  BY <1>0, <1>2
<1>4. HistoryTypeOK'  BY <1>0, <1>1, <1>2, <1>3 DEF HistoryTypeOK
<1>5. ASSUME NEW e, Whole(e, fires, Passed) PROVE Whole(e, fires', Passed')
  <2>1. fires <= fires /\ Passed \subseteq Passed'  BY <1>0, <1>2
  <2>2. Whole(e, fires, Passed')  BY <1>0, <1>5, <2>1, WholeStays
  <2> QED  BY <2>2, <1>1
<1>7. Whole(entry', fires', Passed')  BY <1>0, <1>1, <1>5
<1>6. ASSUME NEW v \in Walkers PROVE Whole(walker'[v].copy, fires', Passed')
  <2>1. CASE v = w  BY <2>1, <1>0, <1>1, <1>2
  <2>2. CASE v # w
    <3>1. walker'[v] = walker[v]  BY <2>2, <1>0, <1>2
    <3>2. Whole(walker[v].copy, fires, Passed)  BY <1>0
    <3> HIDE DEF had, sheet
    <3> QED  BY <3>1, <3>2, <1>5
  <2> QED  BY <2>1, <2>2
<1> QED  BY <1>4, <1>6, <1>7 DEF HistoryInv

(* Every other step leaves the entries as they are, puts one into another's *)
(* place, or adds executions to the chain.                                  *)
LEMMA OthersKeep ==
  ASSUME HistoryInv,
         \/ Fire \/ End \/ Observe \/ ReloadHistory
         \/ \E w \in Walkers : Start(w) \/ Save(w)
         \/ UNCHANGED historyVars
  PROVE  HistoryInv'
<1> USE RuleHistoryAssumption
<1> DEFINE Stages == [at : {"idle", "walk", "save"}, copy : Entries]
<1>0. /\ HistoryTypeOK /\ fires \in Nat /\ cut \subseteq 1..fires /\ mute \subseteq 1..fires
      /\ walker \in [Walkers -> Stages] /\ Whole(entry, fires, Passed)
      /\ \A v \in Walkers : Whole(walker[v].copy, fires, Passed)
  BY DEF HistoryInv, HistoryTypeOK
<1>1. Whole(Fresh, fires, Passed) /\ Asleep \in Stages /\ Asleep.copy = Fresh
  <2>1. Whole(Fresh, fires, Passed)  BY FreshWhole, <1>0
  <2>2. Fresh \in Entries  BY <2>1 DEF Whole
  <2> QED  BY <2>1, <2>2 DEF Asleep
<1>2. cut' = cut /\ mute' = mute /\ Passed' = Passed
  BY DEF Passed, Fire, End, Observe, ReloadHistory, Start, Save, historyVars
<1>3. CASE Fire
  <2>1. fires' \in Nat /\ fires <= fires' /\ entry' = entry /\ walker' = walker
    BY <1>0, <1>3 DEF Fire
  <2>2. Whole(entry', fires', Passed')  BY <2>1, <1>0, <1>2, WholeStays
  <2>3. \A v \in Walkers : Whole(walker'[v].copy, fires', Passed')
    BY <2>1, <1>0, <1>2, WholeStays
  <2>4. HistoryTypeOK'
    <3>1. fires' \in 0..MaxFires /\ 1..fires \subseteq 1..fires'
      BY <1>0, <1>3 DEF Fire, HistoryTypeOK
    <3>2. over' \in BOOLEAN /\ terminal' \in BOOLEAN /\ (terminal' => over')
      BY <1>0, <1>3 DEF Fire, HistoryTypeOK
    <3>3. /\ entry' \in Entries /\ walker' \in [Walkers -> Stages]
          /\ faults' \in 0..MaxFaults
      BY <1>0, <1>3, <2>1 DEF Fire, HistoryTypeOK
    <3>4. entry'.seen \subseteq 1..fires' /\ entry'.cursor <= fires'
      BY <2>2 DEF Whole
    <3>5. cut' \subseteq 1..fires' /\ mute' \subseteq 1..fires'  BY <1>0, <1>2, <2>1, <3>1
    <3> QED  BY <3>1, <3>2, <3>3, <3>4, <3>5 DEF HistoryTypeOK
  <2> QED  BY <2>2, <2>3, <2>4 DEF HistoryInv
<1>4. CASE End \/ Observe \/ UNCHANGED historyVars
  <2>1. fires' = fires /\ entry' = entry /\ walker' = walker
    BY <1>4 DEF End, Observe, historyVars
  <2>2. HistoryTypeOK'
    <3>1. faults' = faults  BY <1>4 DEF End, Observe, historyVars
    <3>2. over' \in BOOLEAN /\ terminal' \in BOOLEAN /\ (terminal' => over')
      <4>1. over \in BOOLEAN /\ terminal \in BOOLEAN /\ (terminal => over)
        BY <1>0 DEF HistoryTypeOK
      <4>2. CASE End  BY <4>1, <4>2 DEF End
      <4>3. CASE Observe  BY <4>1, <4>3 DEF Observe
      <4>4. CASE UNCHANGED historyVars  BY <4>1, <4>4 DEF historyVars
      <4> QED  BY <1>4, <4>2, <4>3, <4>4
    <3> QED  BY <1>0, <1>2, <2>1, <3>1, <3>2 DEF HistoryTypeOK
  <2> QED  BY <1>0, <1>2, <2>1, <2>2 DEF HistoryInv
<1>5. CASE ReloadHistory
  <2>1. fires' = fires /\ entry' = entry
        /\ walker' = [w \in Walkers |-> Asleep]
    BY <1>5 DEF ReloadHistory
  <2>2. HistoryTypeOK'  BY <1>0, <1>1, <1>5, <2>1 DEF ReloadHistory, HistoryTypeOK
  <2>3. \A v \in Walkers : Whole(walker'[v].copy, fires', Passed')  BY <2>1, <1>1, <1>2
  <2> QED  BY <1>0, <1>2, <2>1, <2>2, <2>3 DEF HistoryInv
<1>6. ASSUME NEW w \in Walkers, Start(w) PROVE HistoryInv'
  <2>1. /\ fires' = fires /\ entry' = entry
        /\ walker' = [walker EXCEPT ![w] = [at |-> "walk", copy |-> entry]]
    BY <1>6 DEF Start
  <2>2. [at |-> "walk", copy |-> entry] \in Stages  BY <1>0 DEF Whole
  <2>3. HistoryTypeOK'  BY <1>0, <1>6, <2>1, <2>2 DEF Start, HistoryTypeOK
  <2>4. \A v \in Walkers : Whole(walker'[v].copy, fires', Passed')
    BY <1>0, <1>2, <2>1
  <2> QED  BY <1>0, <1>2, <2>1, <2>3, <2>4 DEF HistoryInv
<1>7. ASSUME NEW w \in Walkers, Save(w) PROVE HistoryInv'
  <2>1. /\ fires' = fires /\ entry' = walker[w].copy
        /\ walker' = [walker EXCEPT ![w] = Asleep]
    BY <1>7 DEF Save, Saved
  <2>2. Whole(entry', fires', Passed')  BY <1>0, <1>2, <2>1
  <2>3. \A v \in Walkers : Whole(walker'[v].copy, fires', Passed')
    BY <1>0, <1>1, <1>2, <2>1
  <2>4. walker' \in [Walkers -> Stages]  BY <1>0, <1>1, <2>1
  <2>5. HistoryTypeOK'
    BY <1>0, <1>7, <2>1, <2>2, <2>4 DEF Save, HistoryTypeOK, Whole
  <2> QED  BY <2>2, <2>3, <2>5 DEF HistoryInv
<1> QED  BY <1>3, <1>4, <1>5, <1>6, <1>7

LEMMA HistoryInvariant == HistorySpec => []HistoryInv
<1>1. HistoryInv /\ [HistoryNext]_historyVars => HistoryInv'
  BY WalkKeeps, OthersKeep DEF HistoryNext
<1> QED  BY InitHistory, <1>1, PTL DEF HistorySpec

(* The saved entry and the copies of all walkers keep their types and stay  *)
(* behind the chain (useAutomationFills.ts, one rule's entry of the cache). *)
THEOREM HistoryTyped == HistorySpec => []HistoryTypeOK
<1>1. HistoryInv => HistoryTypeOK  BY DEF HistoryInv
<1> QED  BY HistoryInvariant, <1>1, PTL

(* The cursor passes no execution that is not recorded, but for those       *)
(* beyond a full page and those fetched without a record, whichever walkers *)
(* save over each other, whatever fetch fails and whenever the page is      *)
(* reloaded, for any number of walkers and executions (the cursor rule of   *)
(* useAutomationFills.ts).                                                  *)
THEOREM HistoryHasNoHoles == HistorySpec => []NothingSkipped
<1>1. HistoryInv => NothingSkipped  BY DEF HistoryInv, Whole, Passed, NothingSkipped
<1> QED  BY HistoryInvariant, <1>1, PTL
=============================================================================
