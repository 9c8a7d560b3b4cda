------------------------------ MODULE MCProgram ------------------------------
(* Small instances of AutomationProgram for TLC.                            *)
EXTENDS AutomationProgram

CONSTANTS o1, o2, adm, kpr, A, W

Once == [kind |-> "Once", total |-> 0, deadline |-> 0]
Repeat(n) == [kind |-> "Repeat", total |-> n, deadline |-> 0]
Until(t) == [kind |-> "Until", total |-> 0, deadline |-> t]

SolAction(to, n) ==
    [kind |-> "TransferSol", destination |-> to, mint |-> A, output_mint |-> W,
     amount |-> n, min_amount_out |-> 0, linked_downstream |-> NoLink, link_fee_deposit |-> 0]
SplAction(to, n) == [SolAction(to, n) EXCEPT !.kind = "TransferSpl"]
SwapAction(from, into, to, n, min) ==
    [SolAction(to, n) EXCEPT !.kind = "Swap", !.mint = from, !.output_mint = into,
                             !.min_amount_out = min]
LinkedAction(from, into, next, n, fee) ==
    [SwapAction(from, into, next, n, 1) EXCEPT !.linked_downstream = next,
                                               !.link_fee_deposit = fee]

Request(ix, act, cad, gap, topup, bridge, seed) ==
    [ix |-> ix, action |-> act, cadence |-> cad, min_interval |-> gap,
     enable_fee_topup |-> topup, bridge_enabled |-> bridge, seed_amount |-> seed]

\* One owner, two rules: transfers of SOL and tokens, swaps to a wallet and a
\* two-rule chain whose head feeds rule 1 and whose tail feeds rule 0.
EscrowRequests ==
    { Request("sol", SolAction(kpr, 2), Repeat(2), 1, FALSE, FALSE, 0),
      Request("spl", SplAction(kpr, 1), Until(2), 0, FALSE, FALSE, 0),
      Request("swap", SwapAction(A, W, o1, 1, 1), Repeat(2), 1, FALSE, FALSE, 0),
      Request("linked", LinkedAction(A, W, <<o1, 1>>, 1, 1), Once, 0, TRUE, FALSE, 1),
      Request("linked", LinkedAction(A, W, <<o1, 0>>, 1, 0), Until(2), 0, FALSE, TRUE, 0) }

\* Two owners race for the numbers while the roles, fees and switches change;
\* the swap keeps its own output, as the first rule of a chain of one.
GovernRequests ==
    { Request("sol", SolAction(adm, 1), Once, 0, FALSE, FALSE, 0),
      Request("spl", SplAction(adm, 1), Once, 0, FALSE, FALSE, 0),
      Request("swap", SwapAction(A, W, <<o1, 0>>, 1, 2), Once, 0, FALSE, FALSE, 0) }

\* The requests of every instance are ones the clients build.
ASSUME ClientRequestsAssumption == ClientRequests

-----------------------------------------------------------------------------
(* Statements of comments and docs that the code does not keep.             *)

\* set_shutdown.rs: "Every execute_/create_ ix checks both" switches, so no
\* rule is created while the program is paused.
PausedBlocksCreate ==
    [][config.paused => \A p \in Pdas : status[p] = "absent" => status'[p] = "absent"]_vars
PauseRequests == { Request("sol", SolAction(kpr, 1), Once, 0, FALSE, FALSE, 0) }

\* close_automation.rs: "Close a TransferSol automation"; after it nothing of the
\* rule is left (OwnerCloseLeavesNothing), provided it closes no other kind.
UntypedRequests == { Request("spl", SplAction(kpr, 1), Repeat(2), 0, FALSE, FALSE, 0) }

\* close-automation.ts looks through both token programs for the accounts of a swap
\* rule, since "missing it would leave funds stranded": nothing of one is left behind.
NothingStranded ==
    \A p \in Pdas : status[p] = "closed" /\ autos[p].action.kind = "Swap" =>
        \A m \in Mints : bal[p][m] = 0 /\ ata[p][m] = 0

\* execute_swap.rs: the fee "is transferred from the output ATA to the treasury's
\* output ATA. PDA signs the SPL transfer", so a funded swap into a wallet that
\* the keeper keeps trying does fire.
SwapFires ==
    \A p \in Pdas :
        Open(p) /\ autos[p].prefunded ~>
            ~Open(p) \/ config.paused \/ config.shutdown \/ autos[p].executions > 0
KeeperRetries ==
    Spec /\ \A p \in Pdas : WF_vars(\E k \in Wallets : Open(p) /\ FireSwap(k, p))
SwapFeeRequests == { Request("swap", SwapAction(A, W, o1, 1, 2), Once, 0, FALSE, FALSE, 0) }

=============================================================================
