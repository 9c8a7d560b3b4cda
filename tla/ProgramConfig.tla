---------------------------- MODULE ProgramConfig ----------------------------
(***************************************************************************)
(* The program's single Config account and the instructions that govern    *)
(* it (instructions/initialize_config.rs, update_*.rs, set_paused.rs,      *)
(* set_shutdown.rs, migrate_config.rs).  Every instruction names the key   *)
(* that signed it; the account constraint has_one = admin is its guard.    *)
(***************************************************************************)
EXTENDS Integers

CONSTANTS
    Wallets,          \* keys that sign, own tokens and hold lamports
    MaxSwapFeeBps,    \* MAX_SWAP_FEE_BPS
    MaxTimeFee,       \* MAX_TIME_FEE_LAMPORTS_PER_DAY
    DefaultSwapFeeBps,
    DefaultTimeFee,
    MaxAutomations,   \* bound on automation_count (u64 in the code)
    Devnet            \* TRUE for the build with the "devnet" cargo feature

ASSUME WalletsAssumption == Wallets # {}
ASSUME FeeAssumption ==
    /\ MaxSwapFeeBps \in Nat /\ MaxTimeFee \in Nat
    /\ DefaultSwapFeeBps \in 0..MaxSwapFeeBps
    /\ DefaultTimeFee \in 0..MaxTimeFee
ASSUME CountAssumption == MaxAutomations \in Nat
ASSUME DevnetAssumption == Devnet \in BOOLEAN

VARIABLE config

Configs ==
    [admin : Wallets, keeper : Wallets, treasury : Wallets,
     paused : BOOLEAN, shutdown : BOOLEAN,
     automation_count : 0..MaxAutomations,
     swap_fee_bps : 0..MaxSwapFeeBps,
     time_fee_lamports_per_day : 0..MaxTimeFee]

\* initialize_config runs once (the account is an `init` PDA), so the
\* program starts in the state it leaves behind.
initialize_config(admin, keeper) ==
    config = [admin |-> admin, keeper |-> keeper, treasury |-> admin,
              paused |-> FALSE, shutdown |-> FALSE,
              automation_count |-> 0,
              swap_fee_bps |-> DefaultSwapFeeBps,
              time_fee_lamports_per_day |-> DefaultTimeFee]

update_keeper(signer, new) ==
    /\ signer = config.admin
    /\ config' = [config EXCEPT !.keeper = new]

set_paused(signer, paused) ==
    /\ signer = config.admin
    /\ config' = [config EXCEPT !.paused = paused]

set_shutdown(signer) ==
    /\ signer = config.admin
    /\ ~config.shutdown
    /\ config' = [config EXCEPT !.shutdown = TRUE]

update_admin(signer, new) ==
    /\ signer = config.admin
    /\ ~config.shutdown
    /\ config' = [config EXCEPT !.admin = new]

\* Seeded fault: the treasury can be redirected during a wind-down.
update_treasury_any(signer, new) ==
    /\ signer = config.admin
    /\ config' = [config EXCEPT !.treasury = new]

update_treasury(signer, new) ==
    /\ signer = config.admin
    /\ ~config.shutdown
    /\ config' = [config EXCEPT !.treasury = new]

update_swap_fee_bps(signer, bps) ==
    /\ signer = config.admin
    /\ ~config.shutdown
    /\ bps <= MaxSwapFeeBps
    /\ config' = [config EXCEPT !.swap_fee_bps = bps]

update_time_fee_per_day(signer, fee) ==
    /\ signer = config.admin
    /\ ~config.shutdown
    /\ fee <= MaxTimeFee
    /\ config' = [config EXCEPT !.time_fee_lamports_per_day = fee]

\* Present only in devnet builds; puts treasury and fees back to launch values.
migrate_config(signer) ==
    /\ Devnet
    /\ signer = config.admin
    /\ ~config.shutdown
    /\ config' = [config EXCEPT !.treasury = signer,
                                !.swap_fee_bps = DefaultSwapFeeBps,
                                !.time_fee_lamports_per_day = DefaultTimeFee]

=============================================================================
