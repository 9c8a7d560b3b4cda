-------------------------- MODULE AutomationProgram --------------------------
(***************************************************************************)
(* The on-chain program: rules held in Automation accounts, the escrow     *)
(* each one keeps, and every instruction that creates, fires, debits or    *)
(* closes a rule (programs/sotama_automations/src/instructions).  A        *)
(* transaction is atomic on chain, so each instruction is one action; it   *)
(* is enabled exactly when the handler returns Ok.                         *)
(*                                                                         *)
(* An Automation account lives at the PDA derived from its owner and the   *)
(* value of Config.automation_count at creation, so a PDA is the pair      *)
(* <<owner, nonce>>.  "bal" is the ledger: lamports (asset Sol) and tokens *)
(* of every holder; "ata" holds the lamports of each token account a PDA   *)
(* owns (0: the account does not exist).  Jupiter's pools are the holder   *)
(* Pool.                                                                   *)
(***************************************************************************)
EXTENDS Cadence, ProgramConfig, FiniteSets, Functions

CONSTANTS
    Owners,       \* wallets that create rules
    Mints, Wsol,  \* token mints, and the wrapped-SOL mint among them
    Sol, Pool, NoLink, NoAuto,
    InitialAdmin, InitialKeeper,  \* who deploys, and the keeper it names
    Successors,   \* keys the admin may hand a role to
    Requests,     \* the create instructions' arguments that are tried
    Rent,         \* rent-exempt minimum of an Automation account
    AtaRent,      \* rent of a token account
    EmptyRent,    \* rent-exempt minimum of an account without data
    MinAmount,    \* MIN_AMOUNT_LAMPORTS
    MaxLinkFee,   \* MAX_LINK_FEE_LAMPORTS
    BpsScale,     \* 10_000 in the code
    MaxTime,      \* bound on the clock
    Fills,        \* output amounts a Jupiter route may deliver
    TopUps,       \* lamports an owner may send to one of its PDAs
    Endowment,    \* lamports, and tokens of each mint, a wallet starts with
    PoolTokens,   \* tokens of each mint the pools start with
    UntypedClose  \* TRUE: close_automation is also sent for token rules

Nonces == 0..(MaxAutomations - 1)
Pdas == Owners \X Nonces
Holders == Wallets \cup Pdas \cup {Pool}
Assets == Mints \cup {Sol}

Actions ==
    [kind : {"TransferSol", "TransferSpl", "Swap"},
     destination : Wallets \cup Pdas, mint : Mints, output_mint : Mints,
     amount : Nat, min_amount_out : Nat,
     linked_downstream : Pdas \cup {NoLink}, link_fee_deposit : Nat]

CreateArgs ==
    [ix : {"sol", "spl", "swap", "linked"}, action : Actions, cadence : Cadences,
     min_interval : Nat, enable_fee_topup : BOOLEAN, bridge_enabled : BOOLEAN,
     seed_amount : Nat]

ASSUME PartiesAssumption ==
    /\ Owners \subseteq Wallets /\ Successors \subseteq Wallets
    /\ InitialAdmin \in Wallets /\ InitialKeeper \in Wallets
    /\ IsFiniteSet(Wallets) /\ IsFiniteSet(Mints) /\ Wsol \in Mints /\ Sol \notin Mints
    /\ Pool \notin Wallets \cup Pdas
    /\ Wallets \cap Pdas = {}
    /\ NoLink \notin Holders
ASSUME RequestsAssumption == Requests \subseteq CreateArgs
ASSUME AmountsAssumption ==
    /\ Rent \in Nat \ {0} /\ AtaRent \in Nat \ {0} /\ EmptyRent \in Nat \ {0}
    /\ MinAmount \in Nat \ {0}
    /\ MaxLinkFee \in Nat /\ BpsScale \in Nat \ {0}
    /\ MaxSwapFeeBps <= BpsScale
    /\ MaxTime \in Nat /\ Endowment \in Nat /\ PoolTokens \in Nat
    /\ Fills \subseteq Nat /\ TopUps \subseteq Nat
ASSUME UntypedCloseAssumption == UntypedClose \in BOOLEAN

VARIABLES
    now,     \* Clock::unix_timestamp
    status,  \* what is at a PDA: nothing yet, a live account, or a dead one
    autos,   \* the Automation accounts' data
    bal,     \* lamports and tokens of every holder
    ata,     \* lamports of the token accounts owned by a PDA
    listed   \* listings of token accounts the owner's client closes with

vars == <<config, now, status, autos, bal, ata, listed>>
ledger == <<bal, ata>>

\* "prefunded" is a history bit: the rule was made by create_automation_swap.
Autos ==
    [action : Actions, cadence : Cadences, min_interval : Nat,
     executions : 0..U32Max, finished : BOOLEAN, created_at : Nat, executed_at : Nat,
     fee_topup_enabled : BOOLEAN, bridge_enabled : BOOLEAN, prefunded : BOOLEAN]

ASSUME NoAutoAssumption == NoAuto \notin Autos

\* What one attempt to close a swap rule read of its token accounts; "late" is
\* history: the accounts opened since.
Listings == [dust : SUBSET Mints, late : SUBSET Mints]

Init ==
    /\ initialize_config(InitialAdmin, InitialKeeper)
    /\ now = 1
    /\ status = [p \in Pdas |-> "absent"]
    /\ autos = [p \in Pdas |-> NoAuto]
    /\ bal = [h \in Holders |->
                [a \in Assets |-> IF h \in Wallets THEN Endowment
                                  ELSE IF h = Pool /\ a # Sol THEN PoolTokens ELSE 0]]
    /\ ata = [p \in Pdas |-> [m \in Mints |-> 0]]
    /\ listed = [p \in Pdas |-> {}]

Open(p) == status[p] = "open"

\* Take n of asset a from one holder and give it to another, in that order.
Move(b, from, to, a, n) ==
    LET debited == [b EXCEPT ![from][a] = @ - n]
    IN  [debited EXCEPT ![to][a] = @ + n]

\* Wallets open their own token accounts; a PDA's must exist already.
CanReceive(h, m) == h \in Pdas => ata[h][m] > 0

-----------------------------------------------------------------------------
(* Creating a rule                                                          *)

\* The client's setup transaction: the token accounts a rule will need, its own
\* input account and the one its output lands in, where they do not exist yet
\* (createAssociatedTokenAccountIdempotent); the owner pays their rent.  A chain
\* is built of its own new rules, so its outputs never name a dead one.
MissingAtas(o, r) ==
    {q \in {<<<<o, config.automation_count>>, r.action.mint>>,
            <<r.action.destination, r.action.output_mint>>} :
        q[1] \in Pdas /\ ata[q[1]][q[2]] = 0}

setup_atas(o, r) ==
    LET missing == MissingAtas(o, r)
        cost    == AtaRent * Cardinality(missing)
    IN  /\ r.ix # "sol" /\ missing # {}
        /\ \A q \in missing : status[q[1]] \in {"absent", "open"}
        /\ bal[o][Sol] >= cost
        /\ bal' = [bal EXCEPT ![o][Sol] = @ - cost]
        /\ ata' = [p \in Pdas |-> [m \in Mints |->
                     IF <<p, m>> \in missing THEN AtaRent ELSE ata[p][m]]]
        /\ listed' = [p \in Pdas |->
                        {[l EXCEPT !.late = @ \cup {m \in Mints : <<p, m>> \in missing}] :
                            l \in listed[p]}]
        /\ UNCHANGED <<config, now, status, autos>>

\* Seeded fault: the counter is not advanced.
SameNonce == config.automation_count

\* The number after the one a new rule takes.
NextNonce == config.automation_count + 1

\* What every create handler does around its own deposit: the checks, the
\* account (Anchor's init only pays the rent the address still lacks), the
\* deposit, the time fee to the keeper and the next nonce.
Create(o, r, asset, deposit) ==
    LET n    == config.automation_count
        p    == <<o, n>>
        fee  == compute_time_fee(r.cadence, now, config.time_fee_lamports_per_day)
        held == bal[p][Sol]
        rent == IF held >= Rent THEN 0 ELSE Rent - held
        sol  == IF asset = Sol THEN deposit ELSE 0
    IN  /\ ~config.shutdown
        /\ ValidCadence(r.cadence)
        /\ r.cadence.kind = "Until" => r.cadence.deadline > now
        /\ n < MaxAutomations
        /\ bal[o][Sol] >= rent + sol + fee
        /\ bal[o][asset] >= deposit
        /\ status' = [status EXCEPT ![p] = "open"]
        /\ autos' = [autos EXCEPT ![p] =
                [action |-> r.action, cadence |-> r.cadence,
                 min_interval |-> r.min_interval,
                 executions |-> 0, finished |-> FALSE,
                 created_at |-> now, executed_at |-> 0,
                 fee_topup_enabled |-> r.ix \in {"swap", "linked"} /\ r.enable_fee_topup,
                 bridge_enabled |-> r.ix = "linked" /\ r.bridge_enabled,
                 prefunded |-> r.ix = "swap"]]
        /\ bal' = Move(Move(Move(bal, o, p, Sol, rent), o, p, asset, deposit),
                       o, config.keeper, Sol, fee)
        /\ config' = [config EXCEPT !.automation_count = NextNonce]
        /\ UNCHANGED <<now, ata>>

\* The token handlers decode the PDA's input token account.
InputAtaReady(o, r) ==
    /\ config.automation_count < MaxAutomations
    /\ ata[<<o, config.automation_count>>][r.action.mint] > 0

create_automation(o, r) ==
    /\ r.ix = "sol"
    /\ r.action.kind = "TransferSol"
    /\ r.action.amount >= MinAmount
    /\ Create(o, r, Sol, r.action.amount)

create_automation_spl(o, r) ==
    /\ r.ix = "spl"
    /\ r.action.kind = "TransferSpl"
    /\ r.action.amount > 0
    /\ InputAtaReady(o, r)
    /\ Create(o, r, r.action.mint, r.action.amount)

TotalFires(c) == IF c.kind = "Repeat" THEN c.total ELSE 1

\* The deposit covers every fire, so Until is refused here.
create_automation_swap(o, r) ==
    LET total_deposit == r.action.amount * TotalFires(r.cadence)
    IN  /\ r.ix = "swap"
        /\ r.action.kind = "Swap"
        /\ r.action.amount > 0
        /\ r.cadence.kind # "Until"
        /\ total_deposit <= U64Max
        /\ InputAtaReady(o, r)
        /\ Create(o, r, r.action.mint, total_deposit)

create_automation_swap_linked(o, r) ==
    /\ r.ix = "linked"
    /\ r.action.kind = "Swap"
    /\ r.action.amount > 0
    /\ InputAtaReady(o, r)
    /\ Create(o, r, r.action.mint, r.seed_amount)

-----------------------------------------------------------------------------
(* Firing a rule                                                            *)

\* The gates every keeper instruction starts with.
KeeperGate(k, p) ==
    /\ ~config.paused
    /\ ~config.shutdown
    /\ k = config.keeper
    /\ Open(p)

\* A fire attempted past an Until deadline ends the rule and returns Ok.
handle_until_expiry(p) ==
    /\ is_until_expired(autos[p], now)
    /\ autos' = [autos EXCEPT ![p].finished = TRUE]
    /\ UNCHANGED <<config, now, status, ledger>>

CanFire(p, kind) ==
    /\ ~is_until_expired(autos[p], now)
    /\ check_can_fire(autos[p], now)
    /\ autos[p].action.kind = kind

Fired(p) == autos' = [autos EXCEPT ![p] = advance(autos[p], now)]

\* Seeded fault: only an overdraft is refused.
NotOverdrawn(left) == left >= 0

\* What is left must cover the rent, or be nothing: the runtime removes an
\* account without lamports.
RentExemptOrGone(left) == left = 0 \/ left >= Rent

transfer_sol(p) ==
    LET act  == autos[p].action
        left == bal[p][Sol] - act.amount
    IN  /\ CanFire(p, "TransferSol")
        /\ act.destination # p
        /\ RentExemptOrGone(left)
        /\ bal' = Move(bal, p, act.destination, Sol, act.amount)
        /\ status' = [status EXCEPT ![p] = IF left = 0 THEN "reaped" ELSE @]
        /\ Fired(p)
        /\ UNCHANGED <<config, now, ata>>

execute_automation(k, p) ==
    /\ KeeperGate(k, p)
    /\ handle_until_expiry(p) \/ transfer_sol(p)

transfer_spl(p) ==
    LET act == autos[p].action
    IN  /\ CanFire(p, "TransferSpl")
        /\ CanReceive(act.destination, act.mint)
        /\ bal[p][act.mint] >= act.amount
        /\ bal' = Move(bal, p, act.destination, act.mint, act.amount)
        /\ Fired(p)
        /\ UNCHANGED <<config, now, status, ata>>

execute_automation_spl(k, p) ==
    /\ KeeperGate(k, p)
    /\ handle_until_expiry(p) \/ transfer_spl(p)

swap_fee(received) == (received * config.swap_fee_bps) \div BpsScale

\* The fee leaves the output token account with the PDA as authority, which
\* the token program accepts only for an account the PDA owns.
FeeIsAuthorised(p, fee) == fee > 0 => autos[p].action.destination = p

\* link_fee_deposit moves to the downstream PDA; the runtime refuses to leave
\* an address without an account below the rent of an empty one.
LinkDeposit(b, p) ==
    LET act == autos[p].action
    IN  IF act.linked_downstream = NoLink THEN b
        ELSE Move(b, p, act.linked_downstream, Sol, act.link_fee_deposit)

CanLinkDeposit(p) ==
    LET act == autos[p].action
        d   == act.linked_downstream
    IN  d # NoLink =>
          /\ bal[p][Sol] - act.link_fee_deposit >= Rent
          /\ Open(d) \/ act.link_fee_deposit = 0
                     \/ bal[d][Sol] + act.link_fee_deposit >= EmptyRent

\* Seeded fault: the route may take whatever the account holds.
InputUncapped(p, used) == TRUE

\* One fire takes no more of the escrow than its own share.
InputCapped(p, used) == used <= autos[p].action.amount

\* The relayed route takes "used" of the input and delivers "got".
swap(p, used, got) ==
    LET act == autos[p].action
        fee == swap_fee(got)
    IN  /\ CanFire(p, "Swap")
        /\ act.link_fee_deposit <= MaxLinkFee
        /\ ata[p][act.mint] > 0
        /\ CanReceive(act.destination, act.output_mint)
        /\ act.mint # act.output_mint
        /\ used <= bal[p][act.mint]
        /\ got <= bal[Pool][act.output_mint]
        /\ got >= act.min_amount_out
        /\ InputCapped(p, used)
        /\ FeeIsAuthorised(p, fee)
        /\ CanLinkDeposit(p)
        /\ LET routed == Move(Move(bal, p, Pool, act.mint, used),
                              Pool, act.destination, act.output_mint, got)
           IN  bal' = LinkDeposit(Move(routed, act.destination, config.treasury,
                                       act.output_mint, fee), p)
        /\ Fired(p)
        /\ UNCHANGED <<config, now, status, ata>>

execute_swap(k, p, used, got) ==
    /\ KeeperGate(k, p)
    /\ handle_until_expiry(p) \/ swap(p, used, got)

\* Sells tokens of the PDA for wrapped SOL of the keeper.
execute_fee_topup(k, p, m, used, got) ==
    /\ KeeperGate(k, p)
    /\ autos[p].fee_topup_enabled
    /\ ~autos[p].finished
    /\ got > 0
    /\ m # Wsol /\ used <= bal[p][m] /\ got <= bal[Pool][Wsol]
    /\ bal' = Move(Move(bal, p, Pool, m, used), Pool, k, Wsol, got)
    /\ UNCHANGED <<config, now, status, autos, ata>>

\* Turns other tokens of the PDA into its input mint.
execute_bridge(k, p, m, used, got) ==
    LET input == autos[p].action.mint
    IN  /\ KeeperGate(k, p)
        /\ autos[p].bridge_enabled
        /\ autos[p].action.kind = "Swap"
        /\ ata[p][input] > 0
        /\ m # input /\ used <= bal[p][m] /\ got <= bal[Pool][input]
        /\ bal' = Move(Move(bal, p, Pool, m, used), Pool, p, input, got)
        /\ UNCHANGED <<config, now, status, autos, ata>>

execute_link_fee_debit(k, p, fee) ==
    /\ KeeperGate(k, p)
    /\ fee <= MaxLinkFee
    /\ bal[p][Sol] - fee >= Rent
    /\ bal' = Move(bal, p, config.keeper, Sol, fee)
    /\ UNCHANGED <<config, now, status, autos, ata>>

-----------------------------------------------------------------------------
(* Closing a rule                                                           *)

\* Seeded fault: the treasury is credited before the refund is taken off.
SplitLamports_twice(b, p) ==
    LET refund == IF b[p][Sol] > Rent THEN b[p][Sol] - Rent ELSE 0
    IN  [b EXCEPT ![p[1]][Sol] = @ + refund,
                  ![config.treasury][Sol] = @ + b[p][Sol],
                  ![p][Sol] = 0]

\* Above-rent lamports to the owner, the rent to the treasury.
SplitLamports(b, p) ==
    LET deposit_refund == IF b[p][Sol] > Rent THEN b[p][Sol] - Rent ELSE 0
    IN  Move(Move(b, p, p[1], Sol, deposit_refund),
             p, config.treasury, Sol, b[p][Sol] - deposit_refund)

\* The PDA's tokens of the mints in ms to the owner, the rent of those token
\* accounts to "payee".
DrainAtas(p, ms, payee) ==
    LET drained == [h \in Holders |->
            [a \in Assets |->
                IF a \notin ms THEN bal[h][a]
                ELSE IF h = p THEN 0
                ELSE IF h = p[1] THEN bal[h][a] + bal[p][a] ELSE bal[h][a]]]
    IN  [drained EXCEPT ![payee][Sol] = @ + AtaRent * Cardinality(ms)]

Close(p, ms, payee, how) ==
    /\ Open(p)
    /\ \A m \in ms : ata[p][m] > 0
    /\ bal' = SplitLamports(DrainAtas(p, ms, payee), p)
    /\ ata' = [ata EXCEPT ![p] = [m \in Mints |-> IF m \in ms THEN 0 ELSE @[m]]]
    /\ status' = [status EXCEPT ![p] = how]
    /\ UNCHANGED <<config, now, autos>>

\* The handler does not look at the action; its clients send it for
\* TransferSol rules.
SentForSol(p) == UntypedClose \/ autos[p].action.kind = "TransferSol"

\* Seeded fault: empty accounts are left out.
HoldingMints(p) == {m \in Mints : m # autos[p].action.mint /\ bal[p][m] > 0}

\* The token accounts of the PDA other than its input account.
DustMints(p) == {m \in Mints : m # autos[p].action.mint /\ ata[p][m] > 0}

\* The client reads them, then asks for a blockhash and the wallet's signature
\* and sends: whatever happens meanwhile, this attempt names what it read.  The
\* owner may make another one.
collect_pda_dust_atas(o, p) ==
    /\ o = p[1] /\ Open(p)
    /\ autos[p].action.kind = "Swap"
    /\ listed' = [listed EXCEPT ![p] = @ \cup {[dust |-> DustMints(p), late |-> {}]}]
    /\ UNCHANGED <<config, now, status, autos, ledger>>

close_automation(o, p) ==
    /\ o = p[1] /\ Open(p) /\ SentForSol(p)
    /\ Close(p, {}, o, "closed")

close_automation_spl(o, p) ==
    /\ o = p[1] /\ Open(p)
    /\ autos[p].action.kind = "TransferSpl"
    /\ Close(p, {autos[p].action.mint}, o, "closed")

\* The remaining accounts are those one attempt listed, and must be the PDA's;
\* history keeps the attempt that landed.
close_automation_swap(o, p, l) ==
    /\ o = p[1] /\ Open(p)
    /\ autos[p].action.kind = "Swap"
    /\ l.dust \subseteq DustMints(p)
    /\ Close(p, {autos[p].action.mint} \cup l.dust, o, "closed")
    /\ listed' = [listed EXCEPT ![p] = {l}]

\* Seeded fault: a paused program cannot be wound down.
AdminGate_unpaused(signer) == config.shutdown /\ ~config.paused /\ signer = config.admin

AdminGate(signer) == config.shutdown /\ signer = config.admin

admin_close_automation(signer, p) ==
    /\ AdminGate(signer) /\ Open(p) /\ SentForSol(p)
    /\ Close(p, {}, config.treasury, "swept")

admin_close_automation_spl(signer, p) ==
    /\ AdminGate(signer) /\ Open(p)
    /\ autos[p].action.kind = "TransferSpl"
    /\ Close(p, {autos[p].action.mint}, config.treasury, "swept")

\* wind-down.mjs passes no dust accounts; another caller may.
admin_close_automation_swap(signer, p, dust) ==
    /\ AdminGate(signer) /\ Open(p)
    /\ autos[p].action.kind = "Swap"
    /\ dust \subseteq DustMints(p)
    /\ Close(p, {autos[p].action.mint} \cup dust, config.treasury, "swept")

-----------------------------------------------------------------------------
(* The chain around the program                                             *)

Tick ==
    /\ now < MaxTime
    /\ now' = now + 1
    /\ UNCHANGED <<config, status, autos, ledger>>

\* "the owner can system-transfer SOL into the PDA at any time"
top_up(o, p, x) ==
    /\ o = p[1] /\ Open(p)
    /\ bal[o][Sol] >= x
    /\ bal' = Move(bal, o, p, Sol, x)
    /\ UNCHANGED <<config, now, status, autos, ata>>

-----------------------------------------------------------------------------

Govern ==
    /\ \E s \in Wallets :
          \/ \E new \in Successors : \/ update_keeper(s, new)
                                 \/ update_admin(s, new)
                                 \/ update_treasury(s, new)
          \/ \E b \in BOOLEAN : set_paused(s, b)
          \/ \E bps \in 0..MaxSwapFeeBps : update_swap_fee_bps(s, bps)
          \/ \E fee \in 0..MaxTimeFee : update_time_fee_per_day(s, fee)
          \/ set_shutdown(s)
          \/ migrate_config(s)
    /\ UNCHANGED <<now, status, autos, ledger>>

CreateRule(o, r) ==
    \/ create_automation(o, r)
    \/ create_automation_spl(o, r)
    \/ create_automation_swap(o, r)
    \/ create_automation_swap_linked(o, r)

\* Amounts of a token a route may take out of a PDA.
Spends(p, m) == 0..bal[p][m]

FireSwap(k, p) ==
    \E got \in Fills : \E used \in Spends(p, autos[p].action.mint) :
        execute_swap(k, p, used, got)

Convert(k, p) ==
    \E m \in Mints, got \in Fills : \E used \in Spends(p, m) :
        execute_fee_topup(k, p, m, used, got) \/ execute_bridge(k, p, m, used, got)

KeeperStep(k, p) ==
    /\ Open(p)
    /\ \/ execute_automation(k, p)
       \/ execute_automation_spl(k, p)
       \/ FireSwap(k, p)
       \/ Convert(k, p)
       \/ \E fee \in 1..MaxLinkFee : execute_link_fee_debit(k, p, fee)

OwnerStep(o, p) ==
    \/ /\ \/ close_automation(o, p)
          \/ close_automation_spl(o, p)
          \/ \E x \in TopUps : top_up(o, p, x)
       /\ UNCHANGED listed
    \/ collect_pda_dust_atas(o, p)
    \/ \E l \in listed[p] : close_automation_swap(o, p, l)

AdminClose(s, p) ==
    /\ Open(p)
    /\ \/ admin_close_automation(s, p)
       \/ admin_close_automation_spl(s, p)
       \/ \E dust \in SUBSET DustMints(p) : admin_close_automation_swap(s, p, dust)

Next ==
    \/ /\ \/ Tick
          \/ Govern
          \/ \E o \in Owners, r \in Requests : CreateRule(o, r)
          \/ \E s \in Wallets, p \in Pdas : KeeperStep(s, p) \/ AdminClose(s, p)
       /\ UNCHANGED listed
    \/ \E o \in Owners, r \in Requests : setup_atas(o, r)
    \/ \E o \in Owners, p \in Pdas : OwnerStep(o, p)

Spec == Init /\ [][Next]_vars

-----------------------------------------------------------------------------
(* Properties                                                               *)

Statuses == {"absent", "open", "closed", "swept", "reaped"}

\* The types of the state; an allocated PDA holds Automation data.
AccountsOK ==
    /\ config \in Configs
    /\ now \in Nat
    /\ status \in [Pdas -> Statuses]
    /\ autos \in [Pdas -> Autos \cup {NoAuto}]
    /\ \A p \in Pdas : status[p] # "absent" => autos[p] \in Autos
    /\ bal \in [Holders -> [Assets -> Nat]]
    /\ ata \in [Pdas -> [Mints -> Nat]]
ListingsOK == listed \in [Pdas -> SUBSET Listings]
TypeOK == AccountsOK /\ ListingsOK

\* An open rule always keeps its account's rent: no transfer, link deposit or
\* fee debit leaves it between zero and rent-exempt (the "zombie PDA" of
\* execute_automation.rs), so every open rule can still be closed.
RentFloor == \A p \in Pdas : Open(p) => bal[p][Sol] >= Rent

\* A rule is finished exactly when its cadence is used up, and an Until rule
\* never fired after its deadline (state.rs, advance and handle_until_expiry).
CadenceSound ==
    \A p \in Pdas : status[p] # "absent" =>
        LET a == autos[p]
        IN  /\ a.cadence.kind = "Once" =>
                 a.executions <= 1 /\ (a.finished <=> a.executions = 1)
            /\ a.cadence.kind = "Repeat" =>
                 /\ a.executions <= a.cadence.total
                 /\ a.finished <=> a.executions = a.cadence.total
            /\ a.cadence.kind = "Until" =>
                 /\ a.executed_at <= a.cadence.deadline
                 /\ a.finished => now > a.cadence.deadline

\* The escrow of a rule made by create_automation_swap always covers all the
\* fires it has left, whatever the keeper's routes took so far (the input cap
\* of execute_swap), unless its owner allowed fee top-ups.
SwapFunded ==
    \A p \in Pdas :
        LET a == autos[p]
        IN  Open(p) /\ a.prefunded /\ ~a.fee_topup_enabled =>
              bal[p][a.action.mint] >=
                a.action.amount * (TotalFires(a.cadence) - a.executions)

\* One global counter numbers the rules of all owners: a number is given out
\* once, below the counter, whoever raced for it.
NonceUsedOnce ==
    \A p \in Pdas : status[p] # "absent" =>
        /\ p[2] < config.automation_count
        /\ \A q \in Pdas : status[q] # "absent" /\ q[2] = p[2] => q = p

\* The requests as the clients build them (buildSwapAction of linked-chains.ts):
\* no link fee is deposited, least of all with a rule the output is not paid to.
\* A SOL transfer pays the address its owner typed, taken to be a wallet's.
ClientRequests ==
    \A r \in Requests :
        /\ r.action.kind = "TransferSol" => r.action.destination \in Wallets
        /\ \/ r.action.linked_downstream \in {NoLink, r.action.destination}
           \/ r.action.link_fee_deposit = 0

\* After its owner closed a token rule nothing of value is left at its PDA, where
\* no instruction could reach it any more: none of a transfer rule's token, and
\* nothing of a swap rule, neither what came in while the close was being signed
\* nor what an upstream rule of its chain sends later, except through a token
\* account opened after the client listed the accounts for that very close.
OwnerCloseLeavesNothing ==
    \A p \in Pdas : status[p] = "closed" =>
        LET act == autos[p].action
        IN  /\ act.kind = "TransferSpl" => bal[p][act.mint] = 0 /\ ata[p][act.mint] = 0
            /\ act.kind = "Swap" => \E l \in listed[p] :
                  /\ \A m \in Mints \ l.late : bal[p][m] = 0 /\ ata[p][m] = 0
                  /\ (\A m \in l.late : ata[p][m] = 0) => bal[p][Sol] = 0

\* What the holders have of an asset, and the lamports in the token accounts.
Held(b, a) == FoldFunction(+, 0, [h \in Holders |-> b[h][a]])
AtaRents(t) == FoldFunction(+, 0, [q \in Pdas \X Mints |-> t[q[1]][q[2]]])

TotalOf(a) == Held(bal, a) + (IF a = Sol THEN AtaRents(ata) ELSE 0)

\* Every asset is conserved: what a handler takes from one account it gives to
\* another (the handlers' direct lamport arithmetic and token transfers).
Conserved ==
    \A a \in Assets : TotalOf(a) =
        Endowment * Cardinality(Wallets) + (IF a = Sol THEN 0 ELSE PoolTokens)

\* After set_shutdown the governed fields are frozen, no rule is created or
\* fires, and value leaves an escrow only for rule owners and the treasury
\* the switch was pulled under.
WindDownStep ==
    config.shutdown =>
        /\ config' = [config EXCEPT !.paused = config'.paused, !.keeper = config'.keeper]
        /\ autos' = autos
        /\ \A p \in Pdas : status'[p] # status[p] =>
              status[p] = "open" /\ status'[p] \in {"closed", "swept"}
        /\ \A h \in Wallets \ (Owners \cup {config.treasury}) : bal'[h] = bal[h]
WindDownFlow == [][WindDownStep]_vars

\* The close instruction that goes with the kind of the rule (wind-down.mjs).
OwnSweep(p) ==
    \/ autos[p].action.kind = "TransferSol" /\ admin_close_automation(config.admin, p)
    \/ admin_close_automation_spl(config.admin, p)
    \/ admin_close_automation_swap(config.admin, p, {})

\* Once the kill switch is pulled nothing the keeper, an owner, a pause or a
\* change of admin did can keep an open rule from being swept: the close of its
\* own kind would be accepted, finished or not, paused or not, funded or not.
AlwaysSweepable ==
    config.shutdown => \A p \in Pdas : Open(p) => ENABLED OwnSweep(p)

\* The rules implement the abstract schedule: what a transaction does to the
\* accounts, seen through the map below, is a step of RuleSchedule.
Phase ==
    [p \in Pdas |-> CASE status[p] = "absent" -> "absent"
                      [] status[p] = "open" -> IF autos[p].finished THEN "done" ELSE "live"
                      [] OTHER -> "gone"]

Plan ==
    [p \in Pdas |->
        IF status[p] = "absent" THEN NoAuto
        ELSE [kind |-> autos[p].cadence.kind, total |-> autos[p].cadence.total,
              deadline |-> autos[p].cadence.deadline, gap |-> autos[p].min_interval]]

Schedule == INSTANCE RuleSchedule WITH
    Rules <- Pdas, Cap <- U32Max, clock <- now, phase <- Phase, plan <- Plan,
    fires <- [p \in Pdas |-> IF status[p] = "absent" THEN 0 ELSE autos[p].executions],
    last <- [p \in Pdas |-> IF status[p] = "absent" THEN 0 ELSE autos[p].executed_at]

\* Every behaviour of the program keeps the promise of RuleSchedule
\* (check_can_fire, advance, handle_until_expiry and the close instructions).
KeepsSchedule == Schedule!Spec

=============================================================================
