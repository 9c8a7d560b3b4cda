------------------------------ MODULE SpotSignals ------------------------------
(***************************************************************************)
(* The trading half of the statistical-arbitrage bot for one pair and one  *)
(* quote size: SignalEngine (signal-engine.ts), TradeExecutor              *)
(* (trade-executor.ts), the execute call of JupiterClient and the two      *)
(* tables they write (packages/db signals.ts and executions.ts).           *)
(*                                                                         *)
(* Every eligible quote starts a handler that nobody waits for, so several *)
(* run at once.  A handler reads the open positions, awaits an order and a *)
(* swap, and writes what came of it.  Only the awaits another handler or   *)
(* the chain can tell apart are steps of their own: the read, the order    *)
(* and the swap.  The rows that follow the last of them are written in its *)
(* step, because no handler reads between them; that one of the writes     *)
(* fails is a choice of the step (Throw, and the failure in Settle).       *)
(*                                                                         *)
(* The chain is external: a transaction handed to it may land              *)
(* at any later time, unless the reply said that it failed.                *)
(***************************************************************************)
EXTENDS Integers, FiniteSets, Sequences, Functions

CONSTANTS
  Works,        \* handlers that may run at the same time
  Modes,        \* values of TRADE_EXECUTION_MODE the operator uses
  Quoted,       \* token units a buy is quoted at
  Slip,         \* units the slippage may take from a buy
  External,     \* token units the wallet holds from elsewhere
  MaxSignals,   \* bound: rows of paper_signals
  MaxTxs,       \* bound: transactions handed to the chain
  MaxRestarts   \* bound: restarts of the process

Live == {"jupiter-managed", "helius-sender"}

ASSUME SpotAssumption ==
  /\ IsFiniteSet(Works)
  /\ Modes \subseteq Live \union {"paper", "jupiter-dry-run"}
  /\ Quoted \in Nat /\ Slip \in 0..Quoted /\ External \in Nat
  /\ MaxSignals \in Nat /\ MaxTxs \in Nat /\ MaxRestarts \in Nat

VARIABLES
  mode,      \* the mode the running process was started with
  work,      \* what each handler is doing
  signals,   \* paper_signals, in insertion order
  txs,       \* transactions handed to the chain, with their trade_executions row
  held,      \* token units in the wallet
  cooling,   \* dedupe keys attempted less than minIntervalMs ago; 0 is the open key
  restarts

vars == <<mode, work, signals, txs, held, cooling, restarts>>

Sides     == {"buy", "sell"}
Statuses  == {"none", "success", "failed", "skipped", "error", "submitted"}
SignalIds == 1..MaxSignals
TxIds     == 1..MaxTxs

(* todo: the open positions the handler read and has still to look at;      *)
(* cur: the one it is closing, 0 for a buy.                                 *)
Idle == [at |-> "idle", side |-> "buy", todo |-> {}, cur |-> 0, tx |-> 0]

TypeOK ==
  /\ mode \in Modes
  /\ work \in [Works -> [at: {"idle", "decide", "order", "sending"}, side: Sides,
                         todo: SUBSET SignalIds, cur: {0} \union SignalIds,
                         tx: {0} \union TxIds]]
  /\ signals \in Seq([mode: Modes, entry: {0} \union TxIds, units: Nat,
                      stale: BOOLEAN, exit: {"open"} \union Modes,
                      sale: {0} \union TxIds])
  /\ txs \in Seq([side: Sides, signal: {0} \union SignalIds, units: Nat,
                  landed: BOOLEAN, row: Statuses,
                  cut: BOOLEAN])
  /\ Len(signals) <= MaxSignals /\ Len(txs) <= MaxTxs
  /\ held \in Nat /\ cooling \subseteq {0} \union SignalIds
  /\ restarts \in 0..MaxRestarts

Init ==
  /\ mode \in Modes
  /\ work = [w \in Works |-> Idle]
  /\ signals = <<>> /\ txs = <<>>
  /\ held = External /\ cooling = {} /\ restarts = 0

-----------------------------------------------------------------------------
(* requiresLiveSuccess *)
RequiresLiveSuccess == mode \in Live

(* The rows openSignalsByKey returns. *)
OpenSignals == {i \in 1..Len(signals) : signals[i].exit = "open"}

(* A mutant: any position with an entry transaction counts, or none at all. *)
LiveEntry_unchecked(s) == s \in OpenSignals

(* executeClose sells only what a live entry bought. *)
LiveEntry(s) == signals[s].entry # 0 /\ signals[s].mode \in Live

Buying(w)  == work[w].side = "buy"
Drop(w)    == work' = [work EXCEPT ![w] = Idle]

(* A mutant: the position that was looked at last stays in the list. *)
Proceed_stuck(w, left) ==
  work' = [work EXCEPT ![w] =
             IF Buying(w) THEN Idle
             ELSE [Idle EXCEPT !.at = "decide", !.side = "sell", !.todo = left \union {0}]]

(* The handler is done with one position: a buy ends, the close loop goes   *)
(* on with the positions that are left.                                     *)
Proceed(w, left) ==
  work' = [work EXCEPT ![w] =
             IF Buying(w) THEN Idle
             ELSE [Idle EXCEPT !.at = "decide", !.side = "sell", !.todo = left]]

(* openSignal: a position entered in this mode, by this transaction.        *)
OpenSignal(tx, units) ==
  signals' = Append(signals, [mode |-> mode, entry |-> tx, units |-> units,
                              stale |-> FALSE, exit |-> "open", sale |-> 0])

(* closeSignal: an UPDATE by id, whether the row is still open or not.      *)
CloseSignal(s, tx) ==
  signals' = [signals EXCEPT ![s].exit = mode, ![s].sale = tx]

(* A mutant: the row is written whatever came of the execution. *)
Settle_regardless(w, key, left, ok, tx, units) ==
  /\ Proceed(w, left)
  /\ IF Buying(w) THEN OpenSignal(tx, units) ELSE CloseSignal(key, tx)

(* What SignalEngine does when execute() returns: without a success the     *)
(* live modes go on with nothing written, the other modes write the row all *)
(* the same.                                                                *)
Settle(w, key, left, ok, tx, units) ==
  /\ Proceed(w, left)
  /\ IF RequiresLiveSuccess /\ ~ ok THEN UNCHANGED signals
     ELSE IF Buying(w) THEN OpenSignal(tx, units) ELSE CloseSignal(key, tx)

-----------------------------------------------------------------------------
(* A live-eligible observation of one side starts a handler, which reads    *)
(* the open positions.                                                      *)
Observe(w, side) ==
  /\ work[w].at = "idle"
  /\ side = "buy" =>
       Len(signals) + Cardinality({v \in Works : work[v].at # "idle" /\ Buying(v)})
         < MaxSignals
  /\ work' = [work EXCEPT ![w] = [Idle EXCEPT !.at = "decide", !.side = side,
                                              !.todo = OpenSignals]]
  /\ UNCHANGED <<mode, signals, txs, held, cooling, restarts>>

(* A buy stops at an open position or at an edge below the threshold; a     *)
(* sell stops at the end of its list.                                       *)
Stop(w) ==
  /\ work[w].at = "decide"
  /\ Buying(w) \/ work[w].todo = {}
  /\ Drop(w)
  /\ UNCHANGED <<mode, signals, txs, held, cooling, restarts>>

(* The position the close loop takes next: the oldest entry. *)
Oldest(w, s) == s \in work[w].todo /\ \A i \in work[w].todo : s <= i

(* Neither stale nor converged. *)
KeepPosition(w) ==
  /\ work[w].at = "decide" /\ ~ Buying(w)
  /\ \E s \in SignalIds :
       /\ Oldest(w, s) /\ ~ signals[s].stale
       /\ Proceed(w, work[w].todo \ {s})
  /\ UNCHANGED <<mode, signals, txs, held, cooling, restarts>>

(* execute(): an attempt on a key tried too recently gives "cooldown",      *)
(* any other starts the cooldown and requests an order.                     *)
Execute(w, key, left) ==
  IF key \in cooling
    THEN Settle(w, key, left, FALSE, 0, Quoted) /\ UNCHANGED cooling
    ELSE /\ work' = [work EXCEPT ![w].at = "order", ![w].cur = key, ![w].todo = left]
         /\ cooling' = cooling \union {key}
         /\ UNCHANGED signals

(* executeOpen: there is no executor in paper mode. *)
TryOpen(w) ==
  /\ work[w].at = "decide" /\ Buying(w) /\ work[w].todo = {}
  /\ IF mode = "paper" THEN Settle(w, 0, {}, FALSE, 0, Quoted) /\ UNCHANGED cooling
                       ELSE Execute(w, 0, {})
  /\ UNCHANGED <<mode, txs, held, restarts>>

(* executeClose of a stale or converged position; in the live modes only a  *)
(* position that a live entry bought is sold.                               *)
TryClose(w) ==
  /\ work[w].at = "decide" /\ ~ Buying(w)
  /\ \E s \in SignalIds :
       LET left == work[w].todo \ {s} IN
       /\ Oldest(w, s)
       /\ IF mode = "paper" \/ (RequiresLiveSuccess /\ ~ LiveEntry(s))
            THEN Settle(w, s, left, FALSE, 0, Quoted) /\ UNCHANGED cooling
            ELSE Execute(w, s, left)
  /\ UNCHANGED <<mode, txs, held, restarts>>

(* The order call failed, was rate-limited, gave nothing to sign, could not *)
(* be signed, or this is a dry run.                                         *)
NoSwap(w) ==
  /\ work[w].at = "order"
  /\ Settle(w, work[w].cur, work[w].todo, FALSE, 0, Quoted)
  /\ UNCHANGED <<mode, txs, held, cooling, restarts>>

(* The order is signed and handed over. *)
Submit(w) ==
  /\ work[w].at = "order" /\ mode # "jupiter-dry-run"
  /\ Len(txs) < MaxTxs
  /\ txs' = Append(txs,
       [side |-> work[w].side, signal |-> work[w].cur, landed |-> FALSE,
        row |-> "none", cut |-> FALSE,
        units |-> IF Buying(w) THEN Quoted ELSE signals[work[w].cur].units])
  /\ work' = [work EXCEPT ![w].at = "sending", ![w].tx = Len(txs) + 1]
  /\ UNCHANGED <<mode, signals, held, cooling, restarts>>

(* The answer is recorded in trade_executions and execute() returns it; the *)
(* write of the position that follows may fail.                             *)
Answered(w, status, units) ==
  LET tx == work[w].tx IN
  \/ /\ Settle(w, work[w].cur, work[w].todo, status = "success", tx, units)
     /\ txs' = [txs EXCEPT ![tx].row = status]
  \/ /\ Drop(w) /\ UNCHANGED signals
     /\ txs' = [txs EXCEPT ![tx].row = status, ![tx].cut = TRUE]

(* A mutant: an HTTP error is taken for a swap that failed. *)
ManagedReply_pessimistic(w) ==
  /\ work[w].at = "sending" /\ mode = "jupiter-managed"
  /\ LET tx == txs[work[w].tx] IN
     \/ tx.landed /\ \E u \in {tx.units, Quoted} : Answered(w, "success", u)
     \/ \E s \in {"failed", "skipped"} : Answered(w, s, Quoted)
  /\ UNCHANGED <<mode, held, cooling, restarts>>

(* executeViaJupiter: /execute answers Success or Failed after the fact; a  *)
(* timeout or an HTTP error says nothing about the swap.  The amount really *)
(* received may be missing from the answer.                                 *)
ManagedReply(w) ==
  /\ work[w].at = "sending" /\ mode = "jupiter-managed"
  /\ LET tx == txs[work[w].tx] IN
     \/ tx.landed /\ \E u \in {tx.units, Quoted} : Answered(w, "success", u)
     \/ ~ tx.landed /\ \E s \in {"failed", "skipped"} : Answered(w, s, Quoted)
     \/ Answered(w, "error", Quoted)
  /\ UNCHANGED <<mode, held, cooling, restarts>>

(* executeViaHeliusSender: success only when the confirmation poll saw it   *)
(* in time, "submitted" otherwise; the amount is always the quoted one.     *)
SenderReply(w) ==
  /\ work[w].at = "sending" /\ mode = "helius-sender"
  /\ \/ txs[work[w].tx].landed /\ Answered(w, "success", Quoted)
     \/ \E s \in {"submitted", "error"} : Answered(w, s, Quoted)
  /\ UNCHANGED <<mode, held, cooling, restarts>>

-----------------------------------------------------------------------------
(* Transactions whose handler dies before their row is written. *)
Cut(ws) ==
  txs' = [t \in 1..Len(txs) |->
            IF \E w \in ws : work[w].tx = t THEN [txs[t] EXCEPT !.cut = TRUE] ELSE txs[t]]

(* A query, or the confirmation poll of the Sender path, throws: the        *)
(* scheduler logs it and the handler is gone.                               *)
Throw(w) ==
  /\ work[w].at # "idle"
  /\ Cut({w}) /\ Drop(w)
  /\ UNCHANGED <<mode, signals, held, cooling, restarts>>

(* The process is stopped or dies, and comes back with a mode of its own:   *)
(* handlers and cooldowns are lost, tables and chain remain.                *)
Restart ==
  /\ restarts < MaxRestarts
  /\ restarts' = restarts + 1
  /\ mode' \in Modes
  /\ Cut(Works)
  /\ work' = [w \in Works |-> Idle]
  /\ cooling' = {}
  /\ UNCHANGED <<signals, held>>

(* minIntervalMs passes for a key; SIGNAL_MAX_HOLD_MS passes for a position. *)
Cool(k) ==
  /\ k \in cooling
  /\ cooling' = cooling \ {k}
  /\ UNCHANGED <<mode, work, signals, txs, held, restarts>>

Age(s) ==
  /\ s \in OpenSignals /\ ~ signals[s].stale
  /\ signals' = [signals EXCEPT ![s].stale = TRUE]
  /\ UNCHANGED <<mode, work, txs, held, cooling, restarts>>

(* The chain: a pending transaction may land, unless Jupiter has answered   *)
(* that it failed.  A buy delivers the quoted units or, within the          *)
(* slippage, fewer; a sell lands only when the wallet holds what it sells.  *)
Land(t) ==
  /\ t <= Len(txs) /\ ~ txs[t].landed /\ txs[t].row \notin {"failed", "skipped"}
  /\ \/ /\ txs[t].side = "buy"
        /\ \E got \in (Quoted - Slip)..Quoted :
             /\ txs' = [txs EXCEPT ![t].landed = TRUE, ![t].units = got]
             /\ held' = held + got
     \/ /\ txs[t].side = "sell" /\ txs[t].units <= held
        /\ txs' = [txs EXCEPT ![t].landed = TRUE]
        /\ held' = held - txs[t].units
  /\ UNCHANGED <<mode, work, signals, cooling, restarts>>

Handler(w) ==
  \/ Stop(w) \/ KeepPosition(w) \/ TryOpen(w) \/ TryClose(w)
  \/ NoSwap(w) \/ Submit(w) \/ ManagedReply(w) \/ SenderReply(w)

Next ==
  \/ \E w \in Works, side \in Sides : Observe(w, side)
  \/ \E w \in Works : Handler(w) \/ Throw(w)
  \/ \E t \in TxIds : Land(t)
  \/ \E k \in {0} \union SignalIds : Cool(k)
  \/ \E s \in SignalIds : Age(s)
  \/ Restart

(* Some handler goes on while there is one; sell quotes of the pair keep    *)
(* coming; positions keep ageing; a handler that finds a stale one first in *)
(* its list does not fail for ever, in the close or in the order call.      *)
Fairness ==
  /\ WF_vars(\E w \in Works : Handler(w))
  /\ WF_vars(\E s \in SignalIds : Age(s))
  /\ SF_vars(\E w \in Works : Observe(w, "sell"))
  /\ SF_vars(\E w \in Works : TryClose(w) /\ \E s \in SignalIds :
                                Oldest(w, s) /\ signals[s].stale)
  /\ SF_vars(\E w \in Works : NoSwap(w) /\ ~ Buying(w))

Spec == Init /\ [][Next]_vars
FairSpec == Spec /\ Fairness

-----------------------------------------------------------------------------
(* In the live modes a sale is only ever handed to the chain for a position *)
(* that was opened by a live entry recorded as a success, whatever modes    *)
(* the process ran in before (executeClose, liveEntry).                     *)
LiveSaleBacked ==
  \A t \in 1..Len(txs) :
    txs[t].side = "sell" =>
      LET s == txs[t].signal IN
      /\ s \in 1..Len(signals) /\ signals[s].mode \in Live
      /\ signals[s].entry \in 1..Len(txs)
      /\ txs[signals[s].entry].side = "buy" /\ txs[signals[s].entry].row = "success"

(* A position closed in a live mode was really sold: the sale its row names *)
(* landed, sold this position and is recorded as a success.                 *)
LiveCloseSold ==
  \A s \in 1..Len(signals) :
    signals[s].exit \in Live =>
      /\ signals[s].sale \in 1..Len(txs)
      /\ LET sale == txs[signals[s].sale] IN
         /\ sale.signal = s /\ sale.side = "sell"
         /\ sale.landed /\ sale.row = "success"

(* Tokens bought without a position to show for them: only when the answer  *)
(* was an error or a mere submission, and then the trade_executions row     *)
(* says which, or when the handler was cut off.                             *)
UntrackedBuyExplained ==
  \A t \in 1..Len(txs) :
    (/\ txs[t].side = "buy" /\ txs[t].landed /\ ~ txs[t].cut
     /\ \A s \in 1..Len(signals) : signals[s].entry # t
     /\ \A w \in Works : work[w].tx # t) => txs[t].row \in {"error", "submitted"}

(* What the live closes have sold never exceeds what successful live        *)
(* entries have bought (the class comment of SignalEngine).                 *)
Units(ts) == FoldFunction(+, 0, [t \in 1..Len(txs) |-> IF t \in ts THEN txs[t].units ELSE 0])
SoldWithinLiveEntries ==
  Units({t \in 1..Len(txs) : txs[t].side = "sell" /\ txs[t].landed})
    <= Units({t \in 1..Len(txs) : txs[t].side = "buy" /\ txs[t].row = "success"})

(* An open position does not stay open for ever outside the live modes: it  *)
(* becomes stale at the latest, and a sell quote then closes it.            *)
OpenPositionCloses ==
  \A s \in SignalIds : (s \in OpenSignals) ~> (s \notin OpenSignals \/ mode \in Live)
================================================================================
