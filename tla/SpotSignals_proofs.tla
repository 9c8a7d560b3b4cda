--------------------------- MODULE SpotSignals_proofs ---------------------------
(* The safety properties of SpotSignals for any number of handlers, any      *)
(* modes, positions, transactions and restarts.                              *)
EXTENDS SpotSignals, SequenceTheorems, FiniteSetTheorems, TLAPS

SignalRec == [mode: Modes, entry: Nat, units: Nat, stale: BOOLEAN,
              exit: {"open"} \union Modes, sale: Nat]
TxRec     == [side: Sides, signal: Nat, units: Nat, landed: BOOLEAN, row: Statuses,
              cut: BOOLEAN]
WorkRec   == [at: {"idle", "decide", "order", "sending"}, side: Sides,
              todo: SUBSET Nat, cur: Nat, tx: Nat]

(* TypeOK without the bounds of the model, which nothing below rests on.     *)
Typed ==
  /\ mode \in Modes
  /\ work \in [Works -> WorkRec]
  /\ signals \in Seq(SignalRec) /\ txs \in Seq(TxRec)

(* A handler looks at positions that exist, orders only where there is an    *)
(* executor, in a live mode sells only what a live entry bought, and waits   *)
(* for the answer to a transaction that is its own and has no row yet.       *)
Task(w) ==
  LET k == work[w] IN
  /\ k.todo \subseteq 1..Len(signals)
  /\ k.at \in {"order", "sending"} =>
       /\ mode # "paper"
       /\ k.side = "sell" =>
            /\ k.cur \in 1..Len(signals)
            /\ mode \in Live => LiveEntry(k.cur)
  /\ k.at = "sending" =>
       /\ mode \in Live /\ k.tx \in 1..Len(txs)
       /\ txs[k.tx].row = "none" /\ ~ txs[k.tx].cut
       /\ txs[k.tx].side = k.side /\ txs[k.tx].signal = k.cur
  /\ k.at # "sending" => k.tx = 0

Alone(v, w) == work[v].tx # 0 /\ work[w].tx = work[v].tx => v = w

(* The entry of a live position is a buy recorded as a success.              *)
Bought(s) ==
  signals[s].entry # 0 /\ signals[s].mode \in Live =>
    /\ signals[s].entry \in 1..Len(txs)
    /\ txs[signals[s].entry].side = "buy" /\ txs[signals[s].entry].row = "success"

Sold(s) ==
  signals[s].exit \in Live =>
    /\ signals[s].sale \in 1..Len(txs)
    /\ LET sale == txs[signals[s].sale] IN
       /\ sale.signal = s /\ sale.side = "sell"
       /\ sale.landed /\ sale.row = "success"

(* What a transaction's row says of it.                                      *)
Told(t) ==
  /\ txs[t].side = "sell" => txs[t].signal \in 1..Len(signals) /\ LiveEntry(txs[t].signal)
  /\ txs[t].row = "none" => txs[t].cut \/ \E w \in Works : work[w].tx = t
  /\ txs[t].row \in {"failed", "skipped"} => ~ txs[t].landed
  /\ txs[t].row = "success" =>
       \/ txs[t].cut \/ txs[t].side = "sell"
       \/ \E s \in 1..Len(signals) : signals[s].entry = t

SpotInv ==
  /\ Typed
  /\ \A w \in Works : Task(w)
  /\ \A v, w \in Works : Alone(v, w)
  /\ \A s \in 1..Len(signals) : Bought(s) /\ Sold(s)
  /\ \A t \in 1..Len(txs) : Told(t)

-----------------------------------------------------------------------------
(* The properties are read off the invariant.                                *)
LEMMA InvSaleBacked == ASSUME SpotInv PROVE LiveSaleBacked
  <1> SUFFICES ASSUME NEW t \in 1..Len(txs), txs[t].side = "sell"
               PROVE  LET s == txs[t].signal IN
                      /\ s \in 1..Len(signals) /\ signals[s].mode \in Live
                      /\ signals[s].entry \in 1..Len(txs)
                      /\ txs[signals[s].entry].side = "buy"
                      /\ txs[signals[s].entry].row = "success"
    BY DEF LiveSaleBacked
  <1>1. txs[t].signal \in 1..Len(signals) /\ LiveEntry(txs[t].signal)
    BY DEF SpotInv, Told
  <1>2. Bought(txs[t].signal)
    BY <1>1 DEF SpotInv
  <1> QED
    BY <1>1, <1>2 DEF Bought, LiveEntry

LEMMA InvCloseSold == ASSUME SpotInv PROVE LiveCloseSold
  BY DEF SpotInv, Sold, LiveCloseSold

LEMMA InvBuyExplained == ASSUME SpotInv PROVE UntrackedBuyExplained
  <1> SUFFICES ASSUME NEW t \in 1..Len(txs),
                      txs[t].side = "buy", txs[t].landed, ~ txs[t].cut,
                      \A s \in 1..Len(signals) : signals[s].entry # t,
                      \A w \in Works : work[w].tx # t
               PROVE  txs[t].row \in {"error", "submitted"}
    BY DEF UntrackedBuyExplained
  <1>1. Told(t)
    BY DEF SpotInv
  <1>2. txs[t] \in TxRec
    BY DEF SpotInv, Typed
  <1>3. txs[t].row \in Statuses
    BY <1>2 DEF TxRec
  <1> QED
    BY <1>1, <1>3 DEF Told, Statuses

-----------------------------------------------------------------------------
(* What no step undoes: positions and transactions keep what identifies      *)
(* them, a row that was written stays as it is.                              *)
SignalsKept ==
  /\ Len(signals) <= Len(signals')
  /\ \A s \in 1..Len(signals) :
       signals'[s].mode = signals[s].mode /\ signals'[s].entry = signals[s].entry

TxsKept ==
  /\ Len(txs) <= Len(txs')
  /\ \A t \in 1..Len(txs) :
       /\ txs'[t].side = txs[t].side /\ txs'[t].signal = txs[t].signal
       /\ txs[t].landed => txs'[t].landed
       /\ txs[t].cut => txs'[t].cut
       /\ txs[t].row # "none" => txs'[t].row = txs[t].row

LEMMA Lengths == ASSUME SpotInv PROVE Len(signals) \in Nat /\ Len(txs) \in Nat
  BY DEF Typed, SpotInv

LEMMA BoughtKept ==
  ASSUME SpotInv, SignalsKept, TxsKept, NEW s \in 1..Len(signals)
  PROVE  Bought(s)'
  <1>1. Bought(s) /\ Len(txs) \in Nat /\ 1..Len(txs) \subseteq 1..Len(txs')
    <2>1. Bought(s)
      BY DEF SpotInv
    <2> QED
      BY <2>1, Lengths DEF TxsKept
  <1>2. signals'[s].mode = signals[s].mode /\ signals'[s].entry = signals[s].entry
    BY DEF SignalsKept
  <1>3. SUFFICES ASSUME signals[s].entry # 0, signals[s].mode \in Live
                 PROVE  /\ signals[s].entry \in 1..Len(txs')
                        /\ txs'[signals[s].entry].side = "buy"
                        /\ txs'[signals[s].entry].row = "success"
    BY <1>2 DEF Bought, Live
  <1> QED
    BY <1>1, <1>3 DEF Bought, TxsKept

LEMMA SoldKept ==
  ASSUME SpotInv, SignalsKept, TxsKept, NEW s \in 1..Len(signals),
         signals'[s].exit = signals[s].exit, signals'[s].sale = signals[s].sale
  PROVE  Sold(s)'
  <1>1. Sold(s)
    BY DEF SpotInv
  <1>2. SUFFICES ASSUME signals[s].exit \in Live
                 PROVE  /\ signals[s].sale \in 1..Len(txs')
                        /\ txs'[signals[s].sale].signal = s
                        /\ txs'[signals[s].sale].side = "sell"
                        /\ txs'[signals[s].sale].landed
                        /\ txs'[signals[s].sale].row = "success"
    BY DEF Sold, Live
  <1>3. 1..Len(txs) \subseteq 1..Len(txs')
    BY Lengths DEF TxsKept
  <1> QED
    BY <1>1, <1>2, <1>3 DEF Sold, TxsKept

LEMMA LiveEntryKept ==
  ASSUME SignalsKept, NEW s \in 1..Len(signals), LiveEntry(s)
  PROVE  LiveEntry(s)'
  BY DEF SignalsKept, LiveEntry, Live

LEMMA TaskKept ==
  ASSUME SpotInv, SignalsKept, TxsKept, mode' = mode, NEW w \in Works,
         work'[w] = work[w],
         work[w].at = "sending" =>
           /\ txs'[work[w].tx].row = txs[work[w].tx].row
           /\ txs'[work[w].tx].cut = txs[work[w].tx].cut
  PROVE  Task(w)'
  <1>1. Task(w)
    BY DEF SpotInv
  <1>2. 1..Len(signals) \subseteq 1..Len(signals') /\ 1..Len(txs) \subseteq 1..Len(txs')
    BY Lengths DEF SignalsKept, TxsKept
  <1>3. work[w].todo \subseteq 1..Len(signals')
    BY <1>1, <1>2 DEF Task
  <1>4. ASSUME work[w].at \in {"order", "sending"}, work[w].side = "sell"
        PROVE  /\ work[w].cur \in 1..Len(signals')
               /\ mode \in Live => LiveEntry(work[w].cur)'
    BY <1>1, <1>2, <1>4, LiveEntryKept DEF Task
  <1>5. ASSUME work[w].at = "sending"
        PROVE  /\ mode \in Live /\ work[w].tx \in 1..Len(txs')
               /\ txs'[work[w].tx].row = "none" /\ ~ txs'[work[w].tx].cut
               /\ txs'[work[w].tx].side = work[w].side
               /\ txs'[work[w].tx].signal = work[w].cur
    BY <1>1, <1>2, <1>5 DEF Task, TxsKept
  <1> QED
    BY <1>1, <1>3, <1>4, <1>5 DEF Task, Live

LEMMA ToldKept ==
  ASSUME SpotInv, SignalsKept, TxsKept, NEW t \in 1..Len(txs),
         txs'[t].row = txs[t].row,
         txs'[t].landed => txs[t].landed \/ txs[t].row \notin {"failed", "skipped"},
         txs[t].row = "none" => txs'[t].cut \/ \E w \in Works : work'[w].tx = t
  PROVE  Told(t)'
  <1>1. Told(t)
    BY DEF SpotInv
  <1>2. txs'[t].side = txs[t].side /\ txs'[t].signal = txs[t].signal
        /\ (txs[t].cut => txs'[t].cut)
    BY DEF TxsKept
  <1>3. ASSUME txs[t].side = "sell"
        PROVE  txs[t].signal \in 1..Len(signals') /\ LiveEntry(txs[t].signal)'
    <2>1. txs[t].signal \in 1..Len(signals) /\ LiveEntry(txs[t].signal)
      BY <1>1, <1>3 DEF Told
    <2>2. txs[t].signal \in 1..Len(signals')
      BY <2>1, Lengths DEF SignalsKept
    <2> QED
      BY <1>2, <2>1, <2>2 DEF SignalsKept, LiveEntry, Live
  <1>4. ASSUME txs'[t].row = "success"
        PROVE  \/ txs'[t].cut \/ txs'[t].side = "sell"
               \/ \E s \in 1..Len(signals') : signals'[s].entry = t
    BY <1>1, <1>2, <1>4, Lengths DEF Told, SignalsKept
  <1> QED
    BY <1>1, <1>2, <1>3, <1>4 DEF Told

-----------------------------------------------------------------------------
(* What the helpers of the handlers do to work and signals.                  *)
LEMMA ProceedEffect ==
  ASSUME Typed, NEW w \in Works, NEW left \in SUBSET Nat, Proceed(w, left)
  PROVE  /\ work' \in [Works -> WorkRec]
         /\ \A v \in Works \ {w} : work'[v] = work[v]
         /\ work'[w].at \in {"idle", "decide"} /\ work'[w].tx = 0
         /\ work'[w].todo \subseteq left /\ work'[w].cur = 0
         /\ IF Buying(w) THEN work'[w].at = "idle" ELSE work'[w].side = "sell"
  <1>1. /\ Idle \in WorkRec
        /\ [Idle EXCEPT !.at = "decide", !.side = "sell", !.todo = left] \in WorkRec
    BY DEF Idle, WorkRec, Sides
  <1>2. work \in [Works -> WorkRec]
    BY DEF Typed
  <1> QED
    BY <1>1, <1>2 DEF Proceed, Idle

LEMMA OpenEffect ==
  ASSUME Typed, NEW tx \in Nat, NEW units \in Nat, OpenSignal(tx, units)
  PROVE  /\ signals' \in Seq(SignalRec)
         /\ Len(signals') = Len(signals) + 1
         /\ \A s \in 1..Len(signals) : signals'[s] = signals[s]
         /\ signals'[Len(signals) + 1].entry = tx
         /\ signals'[Len(signals) + 1].mode = mode
         /\ signals'[Len(signals) + 1].exit = "open"
         /\ signals'[Len(signals) + 1].sale = 0
  <1> DEFINE r == [mode |-> mode, entry |-> tx, units |-> units,
                   stale |-> FALSE, exit |-> "open", sale |-> 0]
  <1>1. r \in SignalRec
    BY DEF SignalRec, Typed
  <1>2. signals \in Seq(SignalRec) /\ signals' = Append(signals, r)
    BY DEF OpenSignal, Typed
  <1> HIDE DEF r
  <1>3. /\ signals' \in Seq(SignalRec)
        /\ Len(signals') = Len(signals) + 1
        /\ \A s \in 1..Len(signals) : signals'[s] = signals[s]
        /\ signals'[Len(signals) + 1] = r
    BY <1>1, <1>2
  <1> QED
    BY <1>3 DEF r

LEMMA CloseEffect ==
  ASSUME Typed, NEW key \in 1..Len(signals), NEW tx \in Nat, CloseSignal(key, tx)
  PROVE  /\ signals' \in Seq(SignalRec)
         /\ Len(signals') = Len(signals)
         /\ \A s \in 1..Len(signals) \ {key} : signals'[s] = signals[s]
         /\ signals'[key].entry = signals[key].entry
         /\ signals'[key].mode = signals[key].mode
         /\ signals'[key].exit = mode /\ signals'[key].sale = tx
  <1> DEFINE r == [signals[key] EXCEPT !.exit = mode, !.sale = tx]
  <1>1. signals \in Seq(SignalRec) /\ signals[key] \in SignalRec
    BY DEF Typed
  <1>2. /\ r \in SignalRec
        /\ r.entry = signals[key].entry /\ r.mode = signals[key].mode
        /\ r.exit = mode /\ r.sale = tx
    BY <1>1 DEF SignalRec, Typed
  <1>3. signals' = [signals EXCEPT ![key] = r]
    BY DEF CloseSignal
  <1> HIDE DEF r
  <1>4. /\ signals' \in Seq(SignalRec) /\ Len(signals') = Len(signals)
        /\ \A s \in 1..Len(signals) \ {key} : signals'[s] = signals[s]
        /\ signals'[key] = r
    BY <1>1, <1>2, <1>3
  <1> QED
    BY <1>2, <1>4

(* A handler is done with one position.  A position is only added by a buy   *)
(* and only closed by a sale, and otherwise stays as it is.                  *)
Settled(w, key, left, tx, units) ==
  /\ Proceed(w, left)
  /\ \/ UNCHANGED signals
     \/ Buying(w) /\ OpenSignal(tx, units)
     \/ ~ Buying(w) /\ CloseSignal(key, tx)

SettledEffect(w, key, tx) ==
  /\ work' \in [Works -> WorkRec]
  /\ \A v \in Works \ {w} : work'[v] = work[v]
  /\ work'[w].at \in {"idle", "decide"} /\ work'[w].tx = 0
  /\ work'[w].todo \subseteq 1..Len(signals) /\ work'[w].cur = 0
  /\ IF Buying(w) THEN work'[w].at = "idle" ELSE work'[w].side = "sell"
  /\ signals' \in Seq(SignalRec) /\ SignalsKept /\ Len(signals') <= Len(signals) + 1
  /\ \A s \in 1..Len(signals) :
       \/ signals'[s].exit = signals[s].exit /\ signals'[s].sale = signals[s].sale
       \/ ~ Buying(w) /\ s = key /\ signals'[s].exit = mode /\ signals'[s].sale = tx
  /\ \A s \in Len(signals) + 1..Len(signals') :
       /\ Buying(w) /\ signals'[s].exit = "open" /\ signals'[s].entry = tx
       /\ signals'[s].mode = mode /\ signals'[s].sale = 0

LEMMA SettleEffect ==
  ASSUME SpotInv, NEW w \in Works, NEW left, left \subseteq 1..Len(signals),
         NEW key, NEW tx \in Nat, NEW units \in Nat,
         ~ Buying(w) => key \in 1..Len(signals),
         Settled(w, key, left, tx, units)
  PROVE  SettledEffect(w, key, tx)
  <1> USE DEF Settled, SettledEffect
  <1>1. Typed /\ Len(signals) \in Nat
    BY Lengths DEF SpotInv
  <1>2. left \in SUBSET Nat
    BY <1>1
  <1>3. /\ work' \in [Works -> WorkRec]
        /\ \A v \in Works \ {w} : work'[v] = work[v]
        /\ work'[w].at \in {"idle", "decide"} /\ work'[w].tx = 0
        /\ work'[w].todo \subseteq 1..Len(signals) /\ work'[w].cur = 0
        /\ IF Buying(w) THEN work'[w].at = "idle" ELSE work'[w].side = "sell"
    BY <1>1, <1>2, ProceedEffect
  <1>4. CASE UNCHANGED signals
    BY <1>1, <1>3, <1>4 DEF SignalsKept, Typed
  <1>5. CASE Buying(w) /\ OpenSignal(tx, units)
    <2>1. /\ signals' \in Seq(SignalRec)
          /\ Len(signals') = Len(signals) + 1
          /\ \A s \in 1..Len(signals) : signals'[s] = signals[s]
          /\ signals'[Len(signals) + 1].entry = tx
          /\ signals'[Len(signals) + 1].mode = mode
          /\ signals'[Len(signals) + 1].exit = "open"
          /\ signals'[Len(signals) + 1].sale = 0
      BY <1>1, <1>5, OpenEffect
    <2>2. \A s \in Len(signals) + 1..Len(signals') : s = Len(signals) + 1
      BY <1>1, <2>1
    <2> QED
      BY <1>1, <1>3, <1>5, <2>1, <2>2 DEF SignalsKept
  <1>6. CASE ~ Buying(w) /\ CloseSignal(key, tx)
    <2>1. /\ signals' \in Seq(SignalRec)
          /\ Len(signals') = Len(signals)
          /\ \A s \in 1..Len(signals) \ {key} : signals'[s] = signals[s]
          /\ signals'[key].entry = signals[key].entry
          /\ signals'[key].mode = signals[key].mode
          /\ signals'[key].exit = mode /\ signals'[key].sale = tx
      BY <1>1, <1>6, CloseEffect
    <2>2. Len(signals) + 1..Len(signals') = {}
      BY <1>1, <2>1
    <2> QED
      BY <1>1, <1>3, <1>6, <2>1, <2>2 DEF SignalsKept
  <1> QED
    BY <1>4, <1>5, <1>6 DEF Settled

-----------------------------------------------------------------------------
(* A handler that has nothing on its way goes on, and the chain and the      *)
(* positions stay as they are.                                               *)
LEMMA QuietStep ==
  ASSUME SpotInv, NEW w \in Works, UNCHANGED <<mode, signals, txs>>,
         work' \in [Works -> WorkRec], \A v \in Works \ {w} : work'[v] = work[v],
         work[w].tx = 0, work'[w].tx = 0, Task(w)'
  PROVE  SpotInv'
  <1>1. Typed' /\ SignalsKept /\ TxsKept
    BY Lengths DEF SpotInv, Typed, SignalsKept, TxsKept
  <1>2. \A v \in Works : Task(v)'
    BY <1>1, TaskKept
  <1>3. \A u, v \in Works : Alone(u, v)'
    BY DEF SpotInv, Alone
  <1>4. \A s \in 1..Len(signals) : Bought(s)' /\ Sold(s)'
    BY <1>1, BoughtKept, SoldKept
  <1>5. ASSUME NEW t \in 1..Len(txs) PROVE Told(t)'
    <2>1. ASSUME txs[t].row = "none"
          PROVE  txs'[t].cut \/ \E v \in Works : work'[v].tx = t
      <3>1. t # 0 /\ Told(t)
        BY DEF SpotInv
      <3> QED
        BY <2>1, <3>1 DEF Told
    <2> QED
      BY <1>1, <2>1, ToldKept
  <1> QED
    BY <1>1, <1>2, <1>3, <1>4, <1>5 DEF SpotInv

(* An attempt that ends without a swap.                                      *)
LEMMA UnsoldStep ==
  ASSUME SpotInv, NEW w \in Works, NEW left, left \subseteq 1..Len(signals), NEW key,
         ~ Buying(w) => key \in 1..Len(signals), work[w].tx = 0,
         Settle(w, key, left, FALSE, 0, Quoted), UNCHANGED <<mode, txs>>
  PROVE  SpotInv'
  <1>0. Quoted \in Nat /\ Typed /\ Len(signals) \in Nat /\ Len(txs) \in Nat
    BY SpotAssumption, Lengths DEF SpotInv
  <1>1. /\ work' \in [Works -> WorkRec]
        /\ \A v \in Works \ {w} : work'[v] = work[v]
        /\ work'[w].at \in {"idle", "decide"} /\ work'[w].tx = 0
        /\ work'[w].todo \subseteq 1..Len(signals)
        /\ signals' \in Seq(SignalRec) /\ SignalsKept
        /\ \A s \in 1..Len(signals) :
             \/ signals'[s].exit = signals[s].exit /\ signals'[s].sale = signals[s].sale
             \/ signals'[s].exit = mode /\ mode \notin Live
        /\ \A s \in Len(signals) + 1..Len(signals') :
             signals'[s].exit = "open" /\ signals'[s].entry = 0
    <2>1. Settled(w, key, left, 0, Quoted) /\ (UNCHANGED signals \/ mode \notin Live)
      BY DEF Settle, Settled, RequiresLiveSuccess
    <2>2. 0 \in Nat /\ Quoted \in Nat
      BY <1>0
    <2>3. SettledEffect(w, key, 0)
      BY <2>1, <2>2, SettleEffect, Zenon
    <2> QED
      BY <2>1, <2>3 DEF SettledEffect
  <1>2. Typed' /\ TxsKept
    BY <1>0, <1>1 DEF Typed, TxsKept
  <1>3. Task(w)'
    <2>1. 1..Len(signals) \subseteq 1..Len(signals')
      BY <1>0, <1>1 DEF SignalsKept
    <2> QED
      BY <1>1, <2>1 DEF Task
  <1>4. \A v \in Works : Task(v)'
    BY <1>1, <1>2, <1>3, TaskKept
  <1>5. \A u, v \in Works : Alone(u, v)'
    BY <1>1 DEF SpotInv, Alone
  <1>6. ASSUME NEW s \in 1..Len(signals') PROVE Bought(s)' /\ Sold(s)'
    <2>1. CASE s \in 1..Len(signals)
      <3>1. Bought(s)'
        BY <1>1, <1>2, <2>1, BoughtKept
      <3>2. CASE signals'[s].exit = signals[s].exit /\ signals'[s].sale = signals[s].sale
        BY <1>1, <1>2, <2>1, <3>1, <3>2, SoldKept
      <3>3. CASE signals'[s].exit = mode /\ mode \notin Live
        BY <3>1, <3>3 DEF Sold, Live
      <3> QED
        BY <1>1, <2>1, <3>2, <3>3
    <2>2. CASE s \in Len(signals) + 1..Len(signals')
      BY <1>1, <2>2 DEF Bought, Sold, Live
    <2>3. Len(signals') \in Nat
      BY <1>1
    <2> QED
      BY <1>0, <2>1, <2>2, <2>3
  <1>7. ASSUME NEW t \in 1..Len(txs) PROVE Told(t)'
    <2>1. ASSUME txs[t].row = "none"
          PROVE  txs'[t].cut \/ \E v \in Works : work'[v].tx = t
      <3>1. t # 0 /\ Told(t)
        BY DEF SpotInv
      <3> QED
        BY <1>1, <2>1, <3>1 DEF Told
    <2> QED
      BY <1>1, <1>2, <2>1, ToldKept
  <1> QED
    BY <1>1, <1>2, <1>4, <1>5, <1>6, <1>7 DEF SpotInv

(* Typing and the state of one handler, as the steps below use them.         *)
LEMMA TaskFacts ==
  ASSUME SpotInv, NEW w \in Works
  PROVE  /\ work \in [Works -> WorkRec] /\ work[w] \in WorkRec
         /\ work[w].todo \subseteq 1..Len(signals)
         /\ work[w].at # "sending" => work[w].tx = 0
         /\ work[w].side \in Sides /\ (~ Buying(w) => work[w].side = "sell")
  BY DEF SpotInv, Typed, Task, WorkRec, Buying, Sides

LEMMA ObserveInv ==
  ASSUME SpotInv, NEW w \in Works, NEW side \in Sides, Observe(w, side)
  PROVE  SpotInv'
  <1> DEFINE r == [Idle EXCEPT !.at = "decide", !.side = side, !.todo = OpenSignals]
  <1>1. work' = [work EXCEPT ![w] = r] /\ work[w].tx = 0
        /\ UNCHANGED <<mode, signals, txs>>
    BY TaskFacts DEF Observe
  <1>2. OpenSignals \subseteq 1..Len(signals) /\ OpenSignals \subseteq Nat
    BY DEF OpenSignals
  <1>3. r \in WorkRec /\ r.at = "decide" /\ r.tx = 0 /\ r.todo = OpenSignals
    BY <1>2 DEF WorkRec, Idle
  <1> HIDE DEF r
  <1>4. /\ work' \in [Works -> WorkRec] /\ work'[w] = r
        /\ \A v \in Works \ {w} : work'[v] = work[v]
    BY <1>1, <1>3, TaskFacts
  <1>5. Task(w)'
    BY <1>1, <1>2, <1>3, <1>4 DEF Task
  <1> QED
    BY <1>1, <1>3, <1>4, <1>5, QuietStep

LEMMA StopInv ==
  ASSUME SpotInv, NEW w \in Works, Stop(w)
  PROVE  SpotInv'
  <1>1. Idle \in WorkRec /\ Idle.at = "idle" /\ Idle.tx = 0 /\ Idle.todo = {}
    BY DEF Idle, WorkRec, Sides
  <1>2. work' = [work EXCEPT ![w] = Idle] /\ work[w].tx = 0
        /\ UNCHANGED <<mode, signals, txs>>
    BY TaskFacts DEF Stop, Drop
  <1>3. /\ work' \in [Works -> WorkRec] /\ work'[w] = Idle
        /\ \A v \in Works \ {w} : work'[v] = work[v]
    BY <1>1, <1>2, TaskFacts
  <1>4. Task(w)'
    BY <1>1, <1>3 DEF Task
  <1> QED
    BY <1>1, <1>2, <1>3, <1>4, QuietStep

LEMMA KeepInv ==
  ASSUME SpotInv, NEW w \in Works, KeepPosition(w)
  PROVE  SpotInv'
  <1>1. PICK s \in SignalIds : Proceed(w, work[w].todo \ {s})
    BY DEF KeepPosition
  <1>2. work[w].tx = 0 /\ UNCHANGED <<mode, signals, txs>>
    BY TaskFacts DEF KeepPosition
  <1>3. work[w].todo \ {s} \in SUBSET Nat /\ Typed
    BY TaskFacts DEF SpotInv
  <1>4. /\ work' \in [Works -> WorkRec]
        /\ \A v \in Works \ {w} : work'[v] = work[v]
        /\ work'[w].at \in {"idle", "decide"} /\ work'[w].tx = 0
        /\ work'[w].todo \subseteq work[w].todo \ {s}
    BY <1>1, <1>3, ProceedEffect
  <1>5. Task(w)'
    BY <1>2, <1>4, TaskFacts DEF Task
  <1> QED
    BY <1>2, <1>4, <1>5, QuietStep

(* An attempt that is made in a mode with an executor.                       *)
LEMMA ExecuteInv ==
  ASSUME SpotInv, NEW w \in Works, NEW key \in Nat, NEW left, left \subseteq 1..Len(signals),
         ~ Buying(w) => key \in 1..Len(signals) /\ (mode \in Live => LiveEntry(key)),
         work[w].tx = 0, mode # "paper", Execute(w, key, left), UNCHANGED <<mode, txs>>
  PROVE  SpotInv'
  <1>1. CASE key \in cooling
    <2>1. Settle(w, key, left, FALSE, 0, Quoted)
      BY <1>1 DEF Execute
    <2> QED
      BY <2>1, UnsoldStep, Zenon
  <1>2. CASE key \notin cooling
    <2> DEFINE r == [work[w] EXCEPT !.at = "order", !.cur = key, !.todo = left]
    <2>1. work' = [work EXCEPT ![w] = r] /\ UNCHANGED signals
      BY <1>2 DEF Execute
    <2>2. left \subseteq Nat
      BY Lengths
    <2>3. /\ r \in WorkRec /\ r.at = "order" /\ r.tx = 0
          /\ r.todo = left /\ r.cur = key /\ r.side = work[w].side
      BY <2>2, TaskFacts DEF WorkRec
    <2> HIDE DEF r
    <2>4. /\ work' \in [Works -> WorkRec] /\ work'[w] = r
          /\ \A v \in Works \ {w} : work'[v] = work[v]
      BY <2>1, <2>3, TaskFacts
    <2>5. Task(w)'
      BY <2>1, <2>3, <2>4 DEF Task, Buying, LiveEntry, Live
    <2> QED
      BY <2>1, <2>3, <2>4, <2>5, QuietStep
  <1> QED
    BY <1>1, <1>2

LEMMA TryOpenInv ==
  ASSUME SpotInv, NEW w \in Works, TryOpen(w)
  PROVE  SpotInv'
  <1>1. /\ Buying(w) /\ work[w].tx = 0 /\ UNCHANGED <<mode, txs>>
        /\ {} \subseteq 1..Len(signals) /\ 0 \in Nat
    BY TaskFacts DEF TryOpen
  <1>2. CASE mode = "paper"
    <2>1. Settle(w, 0, {}, FALSE, 0, Quoted)
      BY <1>2 DEF TryOpen
    <2> QED
      BY <1>1, <2>1, UnsoldStep, Zenon
  <1>3. CASE mode # "paper"
    <2>1. Execute(w, 0, {})
      BY <1>3 DEF TryOpen
    <2> QED
      BY <1>1, <1>3, <2>1, ExecuteInv, Zenon
  <1> QED
    BY <1>2, <1>3

LEMMA TryCloseInv ==
  ASSUME SpotInv, NEW w \in Works, TryClose(w)
  PROVE  SpotInv'
  <1>1. PICK s \in SignalIds :
          /\ Oldest(w, s)
          /\ IF mode = "paper" \/ (RequiresLiveSuccess /\ ~ LiveEntry(s))
               THEN Settle(w, s, work[w].todo \ {s}, FALSE, 0, Quoted) /\ UNCHANGED cooling
               ELSE Execute(w, s, work[w].todo \ {s})
    BY DEF TryClose
  <1>2. /\ ~ Buying(w) /\ work[w].tx = 0 /\ UNCHANGED <<mode, txs>>
        /\ work[w].todo \ {s} \subseteq 1..Len(signals)
        /\ s \in 1..Len(signals) /\ s \in Nat
    BY <1>1, TaskFacts DEF TryClose, Oldest
  <1>3. CASE mode = "paper" \/ (RequiresLiveSuccess /\ ~ LiveEntry(s))
    <2>1. Settle(w, s, work[w].todo \ {s}, FALSE, 0, Quoted)
      BY <1>1, <1>3
    <2> QED
      BY <1>2, <2>1, UnsoldStep, Zenon
  <1>4. CASE ~ (mode = "paper" \/ (RequiresLiveSuccess /\ ~ LiveEntry(s)))
    <2>1. Execute(w, s, work[w].todo \ {s}) /\ mode # "paper"
          /\ (mode \in Live => LiveEntry(s))
      BY <1>1, <1>4 DEF RequiresLiveSuccess
    <2> QED
      BY <1>2, <2>1, ExecuteInv, Zenon
  <1> QED
    BY <1>3, <1>4

LEMMA NoSwapInv ==
  ASSUME SpotInv, NEW w \in Works, NoSwap(w)
  PROVE  SpotInv'
  <1>1. /\ Settle(w, work[w].cur, work[w].todo, FALSE, 0, Quoted)
        /\ UNCHANGED <<mode, txs>> /\ work[w].tx = 0
        /\ work[w].todo \subseteq 1..Len(signals)
    BY TaskFacts DEF NoSwap
  <1>2. ~ Buying(w) => work[w].cur \in 1..Len(signals)
    <2>1. Task(w) /\ work[w].at = "order"
      BY DEF SpotInv, NoSwap
    <2> QED
      BY <2>1, TaskFacts DEF Task
  <1> QED
    BY <1>1, <1>2, UnsoldStep, Zenon

-----------------------------------------------------------------------------
(* A transaction is handed to the chain.                                     *)
LEMMA SubmitInv ==
  ASSUME SpotInv, NEW w \in Works, Submit(w)
  PROVE  SpotInv'
  <1> DEFINE k == work[w]
             n == Len(txs) + 1
             r == [side |-> k.side, signal |-> k.cur, landed |-> FALSE,
                   row |-> "none", cut |-> FALSE,
                   units |-> IF Buying(w) THEN Quoted ELSE signals[k.cur].units]
             q == [k EXCEPT !.at = "sending", !.tx = n]
  <1>0. Typed /\ Len(txs) \in Nat /\ Len(signals) \in Nat
    BY Lengths DEF SpotInv
  <1>1. /\ k.at = "order" /\ k.tx = 0 /\ k \in WorkRec /\ Task(w)
        /\ (~ Buying(w) => k.side = "sell")
        /\ UNCHANGED <<mode, signals>>
    BY TaskFacts DEF Submit, SpotInv
  <1>2. mode \in Live
    <2>1. mode \in Modes /\ mode # "paper" /\ mode # "jupiter-dry-run"
      BY <1>0, <1>1 DEF Task, Submit, Typed
    <2> QED
      BY <2>1, SpotAssumption
  <1>3. k.side = "sell" => k.cur \in 1..Len(signals) /\ LiveEntry(k.cur)
    BY <1>1, <1>2 DEF Task
  <1>4. r \in TxRec
    <2>1. ASSUME ~ Buying(w) PROVE signals[k.cur].units \in Nat
      <3>1. signals[k.cur] \in SignalRec
        BY <1>0, <1>1, <1>3, <2>1 DEF Typed
      <3> QED
        BY <3>1 DEF SignalRec
    <2>2. Quoted \in Nat /\ k.side \in Sides /\ k.cur \in Nat
      BY <1>1, SpotAssumption DEF WorkRec
    <2> QED
      BY <2>1, <2>2 DEF TxRec, Statuses
  <1>5. /\ r.side = k.side /\ r.signal = k.cur /\ r.row = "none"
        /\ r.cut = FALSE
    OBVIOUS
  <1>6. /\ q \in WorkRec /\ q.at = "sending" /\ q.tx = n
        /\ q.side = k.side /\ q.cur = k.cur /\ q.todo = k.todo
    <2>1. n \in Nat
      BY <1>0
    <2>2. k \in WorkRec
      BY <1>1
    <2> HIDE DEF n, k
    <2> QED
      BY <2>1, <2>2 DEF WorkRec
  <1>7. txs' = Append(txs, r) /\ work' = [work EXCEPT ![w] = q]
    BY DEF Submit
  <1> HIDE DEF r, q
  <1>8. /\ txs' \in Seq(TxRec) /\ Len(txs') = n
        /\ \A t \in 1..Len(txs) : txs'[t] = txs[t]
        /\ txs'[n] = r
    BY <1>0, <1>4, <1>7 DEF Typed
  <1>9. /\ work' \in [Works -> WorkRec] /\ work'[w] = q
        /\ \A v \in Works \ {w} : work'[v] = work[v]
    BY <1>6, <1>7, TaskFacts
  <1>10. Typed' /\ SignalsKept /\ TxsKept
    BY <1>0, <1>1, <1>8, <1>9 DEF Typed, SignalsKept, TxsKept
  <1>11. Task(w)'
    BY <1>0, <1>1, <1>2, <1>3, <1>5, <1>6, <1>8, <1>9 DEF Task, LiveEntry, Live
  <1>12. ASSUME NEW v \in Works \ {w} PROVE Task(v)'
    <2>1. work[v].at = "sending" => work[v].tx \in 1..Len(txs)
      BY DEF SpotInv, Task
    <2> QED
      BY <1>1, <1>8, <1>9, <1>10, <2>1, TaskKept
  <1>13. ASSUME NEW u \in Works, NEW v \in Works PROVE Alone(u, v)'
    <2>1. ASSUME NEW x \in Works \ {w} PROVE work[x].tx # n
      <3>1. Task(x) /\ work[x] \in WorkRec
        BY TaskFacts DEF SpotInv
      <3> QED
        BY <1>0, <3>1 DEF Task
    <2> QED
      BY <1>6, <1>9, <2>1 DEF SpotInv, Alone
  <1>14. \A s \in 1..Len(signals) : Bought(s)' /\ Sold(s)'
    BY <1>1, <1>10, BoughtKept, SoldKept
  <1>15. ASSUME NEW t \in 1..Len(txs') PROVE Told(t)'
    <2>1. CASE t \in 1..Len(txs)
      <3>1. ASSUME txs[t].row = "none"
            PROVE  txs'[t].cut \/ \E v \in Works : work'[v].tx = t
        <4>1. t # 0 /\ Told(t)
          BY <2>1 DEF SpotInv
        <4> QED
          BY <1>1, <1>8, <1>9, <2>1, <3>1, <4>1 DEF Told
      <3> QED
        BY <1>8, <1>10, <2>1, <3>1, ToldKept
    <2>2. CASE t = n
      <3>1. txs'[t].side = "sell" => txs'[t].signal \in 1..Len(signals) /\ LiveEntry(k.cur)
        BY <1>3, <1>5, <1>8, <2>2
      <3> QED
        BY <1>1, <1>5, <1>6, <1>8, <1>9, <2>2, <3>1 DEF Told, LiveEntry, Live
    <2> QED
      BY <1>0, <1>8, <2>1, <2>2
  <1> QED
    BY <1>1, <1>10, <1>11, <1>12, <1>13, <1>14, <1>15 DEF SpotInv

-----------------------------------------------------------------------------
(* One element of a sequence is replaced.                                    *)
LEMMA Replaced ==
  ASSUME NEW S, NEW q \in Seq(S), NEW i \in 1..Len(q), NEW e \in S,
         NEW p, p = [q EXCEPT ![i] = e]
  PROVE  /\ p \in Seq(S) /\ Len(p) = Len(q) /\ p[i] = e
         /\ \A j \in 1..Len(q) \ {i} : p[j] = q[j]
  OBVIOUS

(* The row of a transaction that had none is written; nobody else waits for  *)
(* it.                                                                       *)
LEMMA RowEffect ==
  ASSUME SpotInv, NEW w \in Works, work[w].at = "sending",
         NEW status \in Statuses, NEW cut \in BOOLEAN,
         txs' = [txs EXCEPT ![work[w].tx] = [@ EXCEPT !.row = status, !.cut = cut]]
  PROVE  /\ txs' \in Seq(TxRec) /\ Len(txs') = Len(txs) /\ TxsKept
         /\ \A t \in 1..Len(txs) \ {work[w].tx} : txs'[t] = txs[t]
         /\ txs'[work[w].tx].row = status /\ txs'[work[w].tx].cut = cut
         /\ txs'[work[w].tx].landed = txs[work[w].tx].landed
  <1> DEFINE x == work[w].tx
             r == [txs[x] EXCEPT !.row = status, !.cut = cut]
  <1>1. /\ x \in 1..Len(txs) /\ txs[x].row = "none" /\ ~ txs[x].cut
        /\ txs \in Seq(TxRec)
    BY DEF SpotInv, Task, Typed
  <1>2. txs[x] \in TxRec
    BY <1>1
  <1>3. /\ r \in TxRec /\ r.side = txs[x].side /\ r.signal = txs[x].signal
        /\ r.landed = txs[x].landed /\ r.row = status /\ r.cut = cut
    BY <1>2 DEF TxRec
  <1>4. txs' = [txs EXCEPT ![x] = r]
    BY <1>1
  <1> HIDE DEF r, x
  <1>5. /\ txs' \in Seq(TxRec) /\ Len(txs') = Len(txs)
        /\ \A t \in 1..Len(txs) \ {x} : txs'[t] = txs[t]
        /\ txs'[x] = r
    <2>1. txs \in Seq(TxRec)
      BY <1>1
    <2>2. x \in 1..Len(txs)
      BY <1>1
    <2>3. r \in TxRec
      BY <1>3
    <2>4. txs' \in Seq(TxRec)
      <3>1. [txs EXCEPT ![x] = r] \in Seq(TxRec)
        BY <2>1, <2>2, <2>3, ExceptSeq, Zenon
      <3> QED
        BY <1>4, <3>1, Zenon
    <2>5. Len(txs') = Len(txs)
      BY <2>1, <2>2, <2>3, <1>4, Replaced
    <2>6. txs'[x] = r
      BY <2>1, <2>2, <2>3, <1>4, Replaced
    <2>7. \A t \in 1..Len(txs) \ {x} : txs'[t] = txs[t]
      BY <2>1, <2>2, <2>3, <1>4, Replaced
    <2> QED
      BY <2>4, <2>5, <2>6, <2>7
  <1>6. ASSUME NEW t \in 1..Len(txs)
        PROVE  /\ txs'[t].side = txs[t].side /\ txs'[t].signal = txs[t].signal
               /\ txs[t].landed => txs'[t].landed
               /\ txs[t].cut => txs'[t].cut
               /\ txs[t].row # "none" => txs'[t].row = txs[t].row
    <2>1. CASE t = x
      BY <1>1, <1>3, <1>5, <2>1
    <2>2. CASE t # x
      BY <1>5, <2>2
    <2> QED
      BY <2>1, <2>2
  <1>7. TxsKept
    BY <1>5, <1>6, Lengths DEF TxsKept
  <1>8. txs'[x].row = status /\ txs'[x].cut = cut /\ txs'[x].landed = txs[x].landed
    BY <1>3, <1>5
  <1> QED
    BY <1>5, <1>7, <1>8 DEF x

(* A transaction other than the one that was answered is told as before.     *)
LEMMA OtherTold ==
  ASSUME SpotInv, NEW w \in Works, SignalsKept, TxsKept,
         \A v \in Works \ {w} : work'[v] = work[v],
         NEW t \in 1..Len(txs), t # work[w].tx, txs'[t] = txs[t]
  PROVE  Told(t)'
  <1>1. ASSUME txs[t].row = "none"
        PROVE  txs'[t].cut \/ \E v \in Works : work'[v].tx = t
    <2>1. txs[t].cut \/ \E v \in Works : work[v].tx = t
      BY <1>1 DEF SpotInv, Told
    <2> QED
      BY <2>1
  <1>2. txs'[t].row = txs[t].row /\ txs'[t].landed = txs[t].landed
    OBVIOUS
  <1> QED
    BY <1>1, <1>2, ToldKept

LEMMA OtherTask ==
  ASSUME SpotInv, NEW w \in Works, work[w].at = "sending", SignalsKept, TxsKept,
         mode' = mode, NEW v \in Works \ {w}, work'[v] = work[v],
         \A t \in 1..Len(txs) \ {work[w].tx} : txs'[t] = txs[t]
  PROVE  Task(v)'
  <1>1. Task(v) /\ Task(w) /\ Alone(w, v)
    BY DEF SpotInv
  <1>2. work[v].at = "sending" => work[v].tx \in 1..Len(txs) \ {work[w].tx}
    BY <1>1 DEF Task, Alone
  <1> QED
    BY <1>2, TaskKept

(* The answer is written and the position with it.                           *)
LEMMA SettledAnswer ==
  ASSUME SpotInv, NEW w \in Works, work[w].at = "sending",
         NEW status \in Statuses \ {"none"}, NEW units \in Nat, mode' = mode,
         status = "success" => txs[work[w].tx].landed,
         status \in {"failed", "skipped"} => ~ txs[work[w].tx].landed,
         Settle(w, work[w].cur, work[w].todo, status = "success", work[w].tx, units),
         txs' = [txs EXCEPT ![work[w].tx].row = status]
  PROVE  SpotInv'
  <1> DEFINE x == work[w].tx
             s0 == work[w].cur
  <1>0. Typed /\ Len(txs) \in Nat /\ Len(signals) \in Nat
    BY Lengths DEF SpotInv
  <1>1. /\ x \in 1..Len(txs) /\ txs[x].row = "none" /\ ~ txs[x].cut
        /\ txs[x].side = work[w].side /\ txs[x].signal = s0 /\ mode \in Live
        /\ (work[w].side = "sell" => s0 \in 1..Len(signals) /\ LiveEntry(s0))
        /\ work[w].side \in Sides /\ work[w].todo \subseteq 1..Len(signals)
    BY TaskFacts DEF SpotInv, Task
  <1>2. txs' = [txs EXCEPT ![x] = [@ EXCEPT !.row = status, !.cut = FALSE]]
    <2>1. txs[x] \in TxRec
      BY <1>0, <1>1 DEF Typed
    <2>2. [txs[x] EXCEPT !.row = status] = [txs[x] EXCEPT !.row = status, !.cut = FALSE]
      BY <1>1, <2>1 DEF TxRec
    <2> QED
      BY <1>0, <2>2
  <1>3. /\ txs' \in Seq(TxRec) /\ Len(txs') = Len(txs) /\ TxsKept
        /\ \A t \in 1..Len(txs) \ {x} : txs'[t] = txs[t]
        /\ txs'[x].row = status /\ txs'[x].cut = FALSE
        /\ txs'[x].landed = txs[x].landed
    BY <1>2, RowEffect
  <1>4. /\ Settled(w, s0, work[w].todo, x, units)
        /\ UNCHANGED signals \/ status = "success"
        /\ status = "success" /\ Buying(w) => OpenSignal(x, units)
    BY <1>1 DEF Settle, Settled, RequiresLiveSuccess
  <1>5. x \in Nat /\ (~ Buying(w) => s0 \in 1..Len(signals))
    BY <1>1, TaskFacts
  <1>6. SettledEffect(w, s0, x)
    BY <1>1, <1>4, <1>5, SettleEffect, Zenon
  <1>7. /\ work' \in [Works -> WorkRec]
        /\ \A v \in Works \ {w} : work'[v] = work[v]
        /\ work'[w].at \in {"idle", "decide"} /\ work'[w].tx = 0
        /\ work'[w].todo \subseteq 1..Len(signals)
        /\ signals' \in Seq(SignalRec) /\ SignalsKept
    BY <1>6 DEF SettledEffect
  <1>8. Typed'
    BY <1>0, <1>3, <1>7 DEF Typed
  <1>9. Task(w)'
    <2>1. 1..Len(signals) \subseteq 1..Len(signals')
      BY <1>0, <1>7 DEF SignalsKept
    <2> QED
      BY <1>7, <2>1 DEF Task
  <1>10. \A v \in Works : Task(v)'
    BY <1>3, <1>7, <1>9, OtherTask
  <1>11. \A u, v \in Works : Alone(u, v)'
    BY <1>7 DEF SpotInv, Alone
  <1>12. txs'[x].side = work[w].side /\ txs'[x].signal = s0
    BY <1>1, <1>3 DEF TxsKept
  <1>13. ASSUME NEW s \in 1..Len(signals') PROVE Bought(s)' /\ Sold(s)'
    <2>1. CASE s \in 1..Len(signals)
      <3>1. Bought(s)'
        BY <1>3, <1>7, <2>1, BoughtKept
      <3>2. CASE signals'[s].exit = signals[s].exit /\ signals'[s].sale = signals[s].sale
        BY <1>3, <1>7, <2>1, <3>1, <3>2, SoldKept
      <3>3. CASE ~ (signals'[s].exit = signals[s].exit /\ signals'[s].sale = signals[s].sale)
        <4>1. ~ Buying(w) /\ s = s0 /\ signals'[s].exit = mode /\ signals'[s].sale = x
          BY <1>6, <2>1, <3>3 DEF SettledEffect
        <4>2. status = "success" /\ txs'[x].landed /\ work[w].side = "sell"
          BY <1>3, <1>4, <3>3, <4>1, TaskFacts
        <4> QED
          BY <1>1, <1>3, <1>12, <3>1, <4>1, <4>2 DEF Sold, Live
      <3> QED
        BY <3>2, <3>3
    <2>2. CASE s \in Len(signals) + 1..Len(signals')
      <3>1. /\ Buying(w) /\ signals'[s].exit = "open" /\ signals'[s].entry = x
            /\ signals'[s].mode = mode
        BY <1>6, <2>2 DEF SettledEffect
      <3>2. status = "success"
        BY <1>0, <1>4, <2>2
      <3> QED
        BY <1>1, <1>3, <1>12, <3>1, <3>2 DEF Bought, Sold, Live, Buying
    <2>3. Len(signals') \in Nat
      BY <1>7
    <2> QED
      BY <1>0, <2>1, <2>2, <2>3
  <1>14. ASSUME NEW t \in 1..Len(txs') PROVE Told(t)'
    <2>1. CASE t # x
      BY <1>3, <1>7, <2>1, OtherTold
    <2>2. CASE t = x
      <3>1. ASSUME work[w].side = "sell"
            PROVE  s0 \in 1..Len(signals') /\ signals'[s0].entry # 0
                   /\ signals'[s0].mode \in Live
        <4>1. s0 \in 1..Len(signals) /\ LiveEntry(s0)
          BY <1>1, <3>1
        <4>2. s0 \in 1..Len(signals')
          BY <1>0, <1>7, <4>1 DEF SignalsKept
        <4> QED
          BY <1>7, <4>1, <4>2 DEF LiveEntry, SignalsKept
      <3>2. ASSUME status = "success", Buying(w)
            PROVE  \E s \in 1..Len(signals') : signals'[s].entry = x
        <4>1. /\ Len(signals') = Len(signals) + 1
              /\ signals'[Len(signals) + 1].entry = x
          BY <1>0, <1>4, <1>5, <3>2, OpenEffect
        <4> QED
          BY <1>0, <4>1
      <3>3. txs'[t].side = "sell" =>
              txs'[t].signal \in 1..Len(signals') /\ LiveEntry(txs[t].signal)'
        BY <1>12, <2>2, <3>1 DEF LiveEntry, Live
      <3>4. txs'[t].row = "success" =>
              txs'[t].side = "sell" \/ \E s \in 1..Len(signals') : signals'[s].entry = t
        BY <1>3, <1>12, <2>2, <3>2, TaskFacts
      <3> QED
        BY <1>1, <1>3, <1>12, <2>2, <3>3, <3>4 DEF Told
    <2> QED
      BY <2>1, <2>2
  <1> QED
    BY <1>8, <1>10, <1>11, <1>13, <1>14 DEF SpotInv

(* The answer is written, and then the handler is cut off.                   *)
LEMMA CutAnswer ==
  ASSUME SpotInv, NEW w \in Works, work[w].at = "sending",
         NEW status \in Statuses \ {"none"}, UNCHANGED <<mode, signals>>,
         status \in {"failed", "skipped"} => ~ txs[work[w].tx].landed,
         Drop(w),
         txs' = [txs EXCEPT ![work[w].tx].row = status, ![work[w].tx].cut = TRUE]
  PROVE  SpotInv'
  <1> DEFINE x == work[w].tx
  <1>0. Typed /\ Len(txs) \in Nat /\ Len(signals) \in Nat
    BY Lengths DEF SpotInv
  <1>1. /\ x \in 1..Len(txs) /\ txs[x].side = work[w].side
        /\ txs[x].signal = work[w].cur /\ mode \in Live
        /\ (work[w].side = "sell" => /\ work[w].cur \in 1..Len(signals)
                                     /\ LiveEntry(work[w].cur))
    BY DEF SpotInv, Task
  <1>2. txs' = [txs EXCEPT ![x] = [@ EXCEPT !.row = status, !.cut = TRUE]]
    BY <1>0, <1>1 DEF Typed
  <1>3. /\ txs' \in Seq(TxRec) /\ Len(txs') = Len(txs) /\ TxsKept
        /\ \A t \in 1..Len(txs) \ {x} : txs'[t] = txs[t]
        /\ txs'[x].row = status /\ txs'[x].cut = TRUE
        /\ txs'[x].landed = txs[x].landed
    BY <1>2, RowEffect
  <1>4. Idle \in WorkRec /\ Idle.at = "idle" /\ Idle.tx = 0 /\ Idle.todo = {}
    BY DEF Idle, WorkRec, Sides
  <1>5. /\ work' \in [Works -> WorkRec] /\ work'[w] = Idle
        /\ \A v \in Works \ {w} : work'[v] = work[v]
    BY <1>4, TaskFacts DEF Drop
  <1>6. Typed' /\ SignalsKept
    BY <1>0, <1>3, <1>5 DEF Typed, SignalsKept
  <1>7. Task(w)'
    BY <1>4, <1>5 DEF Task
  <1>8. \A v \in Works : Task(v)'
    BY <1>3, <1>5, <1>6, <1>7, OtherTask
  <1>9. \A u, v \in Works : Alone(u, v)'
    BY <1>4, <1>5 DEF SpotInv, Alone
  <1>10. \A s \in 1..Len(signals) : Bought(s)' /\ Sold(s)'
    BY <1>3, <1>6, BoughtKept, SoldKept
  <1>11. ASSUME NEW t \in 1..Len(txs) PROVE Told(t)'
    <2>1. CASE t # x
      BY <1>3, <1>5, <1>6, <2>1, OtherTold
    <2>2. CASE t = x
      <3>1. txs'[t].side = work[w].side /\ txs'[t].signal = work[w].cur
        <4>1. TxsKept
          BY <1>3
        <4>2. txs'[t].side = txs[t].side /\ txs'[t].signal = txs[t].signal
          BY <4>1, Zenon DEF TxsKept
        <4> QED
          BY <1>1, <2>2, <4>2
      <3> QED
        BY <1>1, <1>3, <2>2, <3>1 DEF Told, LiveEntry, Live
    <2> QED
      BY <2>1, <2>2
  <1> QED
    BY <1>3, <1>6, <1>8, <1>9, <1>10, <1>11 DEF SpotInv

LEMMA AnswerInv ==
  ASSUME SpotInv, NEW w \in Works, work[w].at = "sending", mode' = mode,
         NEW status \in Statuses \ {"none"}, NEW units \in Nat,
         status = "success" => txs[work[w].tx].landed,
         status \in {"failed", "skipped"} => ~ txs[work[w].tx].landed,
         Answered(w, status, units)
  PROVE  SpotInv'
  <1>1. CASE /\ Settle(w, work[w].cur, work[w].todo, status = "success", work[w].tx, units)
             /\ txs' = [txs EXCEPT ![work[w].tx].row = status]
    BY <1>1, SettledAnswer
  <1>2. CASE /\ Drop(w) /\ UNCHANGED signals
             /\ txs' = [txs EXCEPT ![work[w].tx].row = status, ![work[w].tx].cut = TRUE]
    BY <1>2, CutAnswer
  <1> QED
    BY <1>1, <1>2 DEF Answered

LEMMA ManagedReplyInv ==
  ASSUME SpotInv, NEW w \in Works, ManagedReply(w)
  PROVE  SpotInv'
  <1> DEFINE x == txs[work[w].tx]
  <1>1. work[w].at = "sending" /\ mode' = mode
    BY DEF ManagedReply
  <1>2. Quoted \in Nat /\ x.units \in Nat
    <2>1. work[w].tx \in 1..Len(txs) /\ Typed
      BY <1>1 DEF SpotInv, Task
    <2>2. x \in TxRec
      BY <2>1 DEF Typed
    <2> QED
      BY <2>2, SpotAssumption DEF TxRec
  <1>3. {"success", "failed", "skipped", "error"} \subseteq Statuses \ {"none"}
    BY DEF Statuses
  <1>4. CASE x.landed /\ \E u \in {x.units, Quoted} : Answered(w, "success", u)
    BY <1>1, <1>2, <1>3, <1>4, AnswerInv
  <1>5. CASE ~ x.landed /\ \E s \in {"failed", "skipped"} : Answered(w, s, Quoted)
    BY <1>1, <1>2, <1>3, <1>5, AnswerInv
  <1>6. CASE Answered(w, "error", Quoted)
    BY <1>1, <1>2, <1>3, <1>6, AnswerInv
  <1> QED
    BY <1>4, <1>5, <1>6 DEF ManagedReply

LEMMA SenderReplyInv ==
  ASSUME SpotInv, NEW w \in Works, SenderReply(w)
  PROVE  SpotInv'
  <1>1. work[w].at = "sending" /\ mode' = mode /\ Quoted \in Nat
    BY SpotAssumption DEF SenderReply
  <1>2. {"success", "submitted", "error"} \subseteq Statuses \ {"none"}
    BY DEF Statuses
  <1>3. CASE txs[work[w].tx].landed /\ Answered(w, "success", Quoted)
    BY <1>1, <1>2, <1>3, AnswerInv
  <1>4. CASE \E s \in {"submitted", "error"} : Answered(w, s, Quoted)
    BY <1>1, <1>2, <1>4, AnswerInv
  <1> QED
    BY <1>3, <1>4 DEF SenderReply

-----------------------------------------------------------------------------
(* Handlers end, alone or with the process; their transactions are cut off.  *)
LEMMA CutEffect ==
  ASSUME SpotInv, NEW ws \in SUBSET Works, Cut(ws)
  PROVE  /\ txs' \in Seq(TxRec) /\ Len(txs') = Len(txs) /\ TxsKept
         /\ \A t \in 1..Len(txs) :
              /\ txs'[t].row = txs[t].row /\ txs'[t].landed = txs[t].landed
              /\ txs'[t] = txs[t] \/ (txs'[t].cut /\ \E w \in ws : work[w].tx = t)
              /\ (\E w \in ws : work[w].tx = t) => txs'[t].cut
  <1> DEFINE r(t) == IF \E w \in ws : work[w].tx = t
                       THEN [txs[t] EXCEPT !.cut = TRUE] ELSE txs[t]
  <1>1. txs \in Seq(TxRec) /\ Len(txs) \in Nat
    BY Lengths DEF SpotInv, Typed
  <1>2. ASSUME NEW t \in 1..Len(txs)
        PROVE  /\ r(t) \in TxRec
               /\ r(t).side = txs[t].side /\ r(t).signal = txs[t].signal
               /\ r(t).row = txs[t].row /\ r(t).landed = txs[t].landed
               /\ r(t) = txs[t] \/ (r(t).cut /\ \E w \in ws : work[w].tx = t)
               /\ (\E w \in ws : work[w].tx = t) => r(t).cut
    <2>1. txs[t] \in TxRec
      BY <1>1
    <2>2. CASE \E w \in ws : work[w].tx = t
      <3>1. r(t) = [txs[t] EXCEPT !.cut = TRUE]
        BY <2>2
      <3> HIDE DEF r
      <3> QED
        BY <2>1, <2>2, <3>1 DEF TxRec
    <2>3. CASE ~ \E w \in ws : work[w].tx = t
      <3>1. r(t) = txs[t]
        BY <2>3
      <3> HIDE DEF r
      <3> QED
        BY <2>1, <2>3, <3>1
    <2> QED
      BY <2>2, <2>3
  <1>3. txs' = [t \in 1..Len(txs) |-> r(t)]
    BY DEF Cut
  <1> HIDE DEF r
  <1>4. txs' \in [1..Len(txs) -> TxRec] /\ \A t \in 1..Len(txs) : txs'[t] = r(t)
    BY <1>2, <1>3
  <1>5. txs' \in Seq(TxRec) /\ Len(txs') = Len(txs)
    <2>1. txs' \in Seq(TxRec)
      BY <1>1, <1>4, SeqDef
    <2>2. DOMAIN txs' = 1..Len(txs)
      BY <1>4
    <2> QED
      BY <1>1, <2>1, <2>2, LenProperties
  <1>6. \A t \in 1..Len(txs) : txs[t].cut => txs'[t].cut
    BY <1>2, <1>4
  <1>7. TxsKept
    BY <1>1, <1>2, <1>4, <1>5, <1>6 DEF TxsKept
  <1> QED
    BY <1>2, <1>4, <1>5, <1>7

LEMMA CutInv ==
  ASSUME SpotInv, NEW ws \in SUBSET Works, Cut(ws), mode' \in Modes,
         mode' = mode \/ ws = Works, signals' = signals,
         work' = [v \in Works |-> IF v \in ws THEN Idle ELSE work[v]]
  PROVE  SpotInv'
  <1>0. Typed /\ Len(txs) \in Nat /\ Len(signals) \in Nat /\ work \in [Works -> WorkRec]
    BY Lengths DEF SpotInv, Typed
  <1>1. /\ txs' \in Seq(TxRec) /\ Len(txs') = Len(txs) /\ TxsKept
        /\ \A t \in 1..Len(txs) :
             /\ txs'[t].row = txs[t].row /\ txs'[t].landed = txs[t].landed
             /\ txs'[t] = txs[t] \/ (txs'[t].cut /\ \E w \in ws : work[w].tx = t)
             /\ (\E w \in ws : work[w].tx = t) => txs'[t].cut
    BY CutEffect
  <1>2. Idle \in WorkRec /\ Idle.at = "idle" /\ Idle.tx = 0 /\ Idle.todo = {}
    BY DEF Idle, WorkRec, Sides
  <1>3. /\ work' \in [Works -> WorkRec]
        /\ \A v \in ws : work'[v] = Idle
        /\ \A v \in Works \ ws : work'[v] = work[v]
    BY <1>0, <1>2
  <1>4. Typed' /\ SignalsKept
    BY <1>0, <1>1, <1>3 DEF Typed, SignalsKept
  <1>5. ASSUME NEW v \in Works PROVE Task(v)'
    <2>1. CASE v \in ws
      BY <1>2, <1>3, <2>1 DEF Task
    <2>2. CASE v \notin ws
      <3>1. mode' = mode /\ work'[v] = work[v]
        BY <1>3, <2>2
      <3>2. ASSUME work[v].at = "sending"
            PROVE  /\ txs'[work[v].tx].row = txs[work[v].tx].row
                   /\ txs'[work[v].tx].cut = txs[work[v].tx].cut
        <4>1. work[v].tx \in 1..Len(txs) /\ ~ txs[work[v].tx].cut
          BY <3>2 DEF SpotInv, Task
        <4>2. ~ \E w \in ws : work[w].tx = work[v].tx
          BY <2>2, <4>1 DEF SpotInv, Alone
        <4>3. txs'[work[v].tx] = txs[work[v].tx]
          BY <1>1, <4>1, <4>2
        <4> QED
          BY <4>3
      <3> QED
        BY <1>1, <1>4, <3>1, <3>2, TaskKept
    <2> QED
      BY <2>1, <2>2
  <1>6. \A u, v \in Works : Alone(u, v)'
    <2> SUFFICES ASSUME NEW u \in Works, NEW v \in Works,
                        work'[u].tx # 0, work'[v].tx = work'[u].tx
                 PROVE  u = v
      BY DEF Alone
    <2>1. u \notin ws /\ v \notin ws
      BY <1>2, <1>3
    <2> QED
      BY <1>3, <2>1 DEF SpotInv, Alone
  <1>7. \A s \in 1..Len(signals) : Bought(s)' /\ Sold(s)'
    BY <1>1, <1>4, BoughtKept, SoldKept
  <1>8. ASSUME NEW t \in 1..Len(txs) PROVE Told(t)'
    <2>1. ASSUME txs[t].row = "none"
          PROVE  txs'[t].cut \/ \E v \in Works : work'[v].tx = t
      <3>1. txs[t].cut \/ \E v \in Works : work[v].tx = t
        BY <2>1 DEF SpotInv, Told
      <3>2. CASE txs[t].cut
        BY <1>1, <3>2 DEF TxsKept
      <3>3. CASE \E v \in Works : work[v].tx = t
        <4>1. PICK v \in Works : work[v].tx = t
          BY <3>3
        <4>2. CASE v \in ws
          BY <1>1, <4>1, <4>2
        <4>3. CASE v \notin ws
          BY <1>3, <4>1, <4>3
        <4> QED
          BY <4>2, <4>3
      <3> QED
        BY <3>1, <3>2, <3>3
    <2>2. txs'[t].row = txs[t].row /\ txs'[t].landed = txs[t].landed
      BY <1>1
    <2> QED
      BY <1>1, <1>4, <2>1, <2>2, ToldKept
  <1> QED
    BY <1>1, <1>4, <1>5, <1>6, <1>7, <1>8 DEF SpotInv

LEMMA ThrowInv ==
  ASSUME SpotInv, NEW w \in Works, Throw(w)
  PROVE  SpotInv'
  <1>1. work' = [v \in Works |-> IF v \in {w} THEN Idle ELSE work[v]]
    BY TaskFacts DEF Throw, Drop
  <1>2. Cut({w}) /\ mode' = mode /\ mode' \in Modes /\ signals' = signals
        /\ {w} \in SUBSET Works
    BY DEF Throw, SpotInv, Typed
  <1> QED
    BY <1>1, <1>2, CutInv

LEMMA RestartInv ==
  ASSUME SpotInv, Restart
  PROVE  SpotInv'
  <1>1. work' = [v \in Works |-> IF v \in Works THEN Idle ELSE work[v]]
    BY DEF Restart
  <1>2. Cut(Works) /\ mode' \in Modes /\ signals' = signals /\ Works \in SUBSET Works
    BY DEF Restart
  <1> QED
    BY <1>1, <1>2, CutInv

-----------------------------------------------------------------------------
(* Time and the chain: work is as before, and so is what positions and rows  *)
(* say.                                                                      *)
LEMMA OutsideStep ==
  ASSUME SpotInv, UNCHANGED <<mode, work>>, Typed', SignalsKept, TxsKept,
         Len(signals') = Len(signals), Len(txs') = Len(txs),
         \A s \in 1..Len(signals) : /\ signals'[s].exit = signals[s].exit
                                    /\ signals'[s].sale = signals[s].sale,
         \A t \in 1..Len(txs) :
           /\ txs'[t].row = txs[t].row /\ txs'[t].cut = txs[t].cut
           /\ txs'[t].landed => txs[t].landed \/ txs[t].row \notin {"failed", "skipped"}
  PROVE  SpotInv'
  <1>1. ASSUME NEW w \in Works PROVE Task(w)'
    <2>1. work[w].at = "sending" => work[w].tx \in 1..Len(txs)
      BY DEF SpotInv, Task
    <2> QED
      BY <2>1, TaskKept
  <1>2. \A u, v \in Works : Alone(u, v)'
    BY DEF SpotInv, Alone
  <1>3. \A s \in 1..Len(signals) : Bought(s)' /\ Sold(s)'
    BY BoughtKept, SoldKept
  <1>4. ASSUME NEW t \in 1..Len(txs) PROVE Told(t)'
    <2>1. ASSUME txs[t].row = "none"
          PROVE  txs'[t].cut \/ \E v \in Works : work'[v].tx = t
      <3>1. txs[t].cut \/ \E v \in Works : work[v].tx = t
        BY <2>1 DEF SpotInv, Told
      <3> QED
        BY <3>1
    <2> QED
      BY <2>1, ToldKept
  <1> QED
    BY <1>1, <1>2, <1>3, <1>4 DEF SpotInv

LEMMA LandInv ==
  ASSUME SpotInv, NEW t \in TxIds, Land(t)
  PROVE  SpotInv'
  <1>0. /\ Typed /\ txs \in Seq(TxRec) /\ Len(txs) \in Nat /\ t \in 1..Len(txs)
        /\ UNCHANGED <<mode, work, signals>> /\ ~ txs[t].landed
        /\ txs[t].row \notin {"failed", "skipped"} /\ txs[t] \in TxRec
    BY Lengths DEF SpotInv, Typed, Land, TxIds
  <1>1. \E u \in Nat : txs' = [txs EXCEPT ![t] = [txs[t] EXCEPT !.landed = TRUE, !.units = u]]
    <2>1. CASE \E got \in (Quoted - Slip)..Quoted :
                 txs' = [txs EXCEPT ![t].landed = TRUE, ![t].units = got]
      <3>1. PICK got \in (Quoted - Slip)..Quoted :
              txs' = [txs EXCEPT ![t].landed = TRUE, ![t].units = got]
        BY <2>1
      <3>2. got \in Nat
        BY SpotAssumption
      <3>3. txs' = [txs EXCEPT ![t] = [txs[t] EXCEPT !.landed = TRUE, !.units = got]]
        BY <1>0, <3>1
      <3> QED
        BY <3>2, <3>3
    <2>2. CASE txs' = [txs EXCEPT ![t].landed = TRUE]
      <3>1. txs[t].units \in Nat
        BY <1>0 DEF TxRec
      <3>2. [txs[t] EXCEPT !.landed = TRUE, !.units = txs[t].units]
              = [txs[t] EXCEPT !.landed = TRUE]
        BY <1>0 DEF TxRec
      <3>3. txs' = [txs EXCEPT ![t] = [txs[t] EXCEPT !.landed = TRUE]]
        BY <1>0, <2>2
      <3> QED
        BY <3>1, <3>2, <3>3
    <2> QED
      BY <2>1, <2>2 DEF Land
  <1>2. PICK u \in Nat :
          txs' = [txs EXCEPT ![t] = [txs[t] EXCEPT !.landed = TRUE, !.units = u]]
    BY <1>1
  <1> DEFINE r == [txs[t] EXCEPT !.landed = TRUE, !.units = u]
  <1>3. /\ r \in TxRec /\ r.side = txs[t].side /\ r.signal = txs[t].signal
        /\ r.row = txs[t].row /\ r.cut = txs[t].cut /\ r.landed
    BY <1>0 DEF TxRec
  <1>4. txs' = [txs EXCEPT ![t] = r]
    BY <1>2
  <1> HIDE DEF r
  <1>5. [txs EXCEPT ![t] = r] \in Seq(TxRec)
    BY <1>0, <1>3, ExceptSeq, Zenon
  <1>6. txs' \in Seq(TxRec)
    BY <1>4, <1>5, Zenon
  <1>7. /\ Len(txs') = Len(txs) /\ txs'[t] = r
        /\ \A x \in 1..Len(txs) \ {t} : txs'[x] = txs[x]
    BY <1>0, <1>3, <1>4, Replaced
  <1>8. ASSUME NEW x \in 1..Len(txs)
        PROVE  /\ txs'[x].side = txs[x].side /\ txs'[x].signal = txs[x].signal
               /\ txs'[x].row = txs[x].row /\ txs'[x].cut = txs[x].cut
               /\ txs[x].landed => txs'[x].landed
               /\ txs'[x].landed => txs[x].landed \/ txs[x].row \notin {"failed", "skipped"}
    <2>1. CASE x = t
      BY <1>0, <1>3, <1>7, <2>1
    <2>2. CASE x # t
      BY <1>7, <2>2
    <2> QED
      BY <2>1, <2>2
  <1>9. Typed' /\ SignalsKept
    BY <1>0, <1>6, Lengths DEF Typed, SignalsKept
  <1>10. TxsKept
    BY <1>0, <1>7, <1>8 DEF TxsKept
  <1> QED
    BY <1>0, <1>7, <1>8, <1>9, <1>10, OutsideStep

LEMMA AgeInv ==
  ASSUME SpotInv, NEW s \in SignalIds, Age(s)
  PROVE  SpotInv'
  <1> DEFINE r == [signals[s] EXCEPT !.stale = TRUE]
  <1>0. /\ Typed /\ signals \in Seq(SignalRec) /\ Len(signals) \in Nat
        /\ s \in 1..Len(signals) /\ signals[s] \in SignalRec
        /\ UNCHANGED <<mode, work, txs>>
    BY Lengths DEF SpotInv, Typed, Age, OpenSignals
  <1>1. /\ r \in SignalRec /\ r.mode = signals[s].mode /\ r.entry = signals[s].entry
        /\ r.exit = signals[s].exit /\ r.sale = signals[s].sale
    BY <1>0 DEF SignalRec
  <1>2. signals' = [signals EXCEPT ![s] = r]
    BY DEF Age
  <1> HIDE DEF r
  <1>3. [signals EXCEPT ![s] = r] \in Seq(SignalRec)
    BY <1>0, <1>1, ExceptSeq, Zenon
  <1>4. signals' \in Seq(SignalRec)
    BY <1>2, <1>3, Zenon
  <1>5. /\ Len(signals') = Len(signals) /\ signals'[s] = r
        /\ \A x \in 1..Len(signals) \ {s} : signals'[x] = signals[x]
    BY <1>0, <1>1, <1>2, Replaced
  <1>6. ASSUME NEW x \in 1..Len(signals)
        PROVE  /\ signals'[x].mode = signals[x].mode /\ signals'[x].entry = signals[x].entry
               /\ signals'[x].exit = signals[x].exit /\ signals'[x].sale = signals[x].sale
    <2>1. CASE x = s
      BY <1>1, <1>5, <2>1
    <2>2. CASE x # s
      BY <1>5, <2>2
    <2> QED
      BY <2>1, <2>2
  <1>7. Typed' /\ TxsKept
    BY <1>0, <1>4, Lengths DEF Typed, TxsKept
  <1>8. SignalsKept
    BY <1>0, <1>5, <1>6 DEF SignalsKept
  <1> QED
    BY <1>0, <1>5, <1>6, <1>7, <1>8, OutsideStep

LEMMA UnchangedInv ==
  ASSUME SpotInv, UNCHANGED <<mode, work, signals, txs>>
  PROVE  SpotInv'
  <1>1. Typed' /\ SignalsKept /\ TxsKept
    BY Lengths DEF SpotInv, Typed, SignalsKept, TxsKept
  <1> QED
    BY <1>1, OutsideStep

-----------------------------------------------------------------------------
LEMMA SpotInit == ASSUME Init PROVE SpotInv
  <1>1. /\ Idle \in WorkRec /\ Idle.at = "idle" /\ Idle.tx = 0 /\ Idle.todo = {}
    BY DEF Idle, WorkRec, Sides
  <1>2. /\ work \in [Works -> WorkRec] /\ \A w \in Works : work[w] = Idle
        /\ signals = <<>> /\ txs = <<>> /\ mode \in Modes
    BY <1>1 DEF Init
  <1>3. Typed
    BY <1>2 DEF Typed
  <1>4. Len(signals) = 0 /\ Len(txs) = 0
    BY <1>2
  <1>5. \A w \in Works : Task(w)
    BY <1>1, <1>2 DEF Task
  <1>6. \A v, w \in Works : Alone(v, w)
    BY <1>1, <1>2 DEF Alone
  <1> QED
    BY <1>3, <1>4, <1>5, <1>6 DEF SpotInv

LEMMA SpotNext == ASSUME SpotInv, [Next]_vars PROVE SpotInv'
  <1>1. ASSUME NEW w \in Works, NEW side \in Sides, Observe(w, side) PROVE SpotInv'
    BY <1>1, ObserveInv
  <1>2. ASSUME NEW w \in Works, Handler(w) PROVE SpotInv'
    BY <1>2, StopInv, KeepInv, TryOpenInv, TryCloseInv, NoSwapInv, SubmitInv,
       ManagedReplyInv, SenderReplyInv DEF Handler
  <1>3. ASSUME NEW w \in Works, Throw(w) PROVE SpotInv'
    BY <1>3, ThrowInv
  <1>4. ASSUME NEW t \in TxIds, Land(t) PROVE SpotInv'
    BY <1>4, LandInv
  <1>5. ASSUME NEW k \in {0} \union SignalIds, Cool(k) PROVE SpotInv'
    BY <1>5, UnchangedInv DEF Cool
  <1>6. ASSUME NEW s \in SignalIds, Age(s) PROVE SpotInv'
    BY <1>6, AgeInv
  <1>7. ASSUME Restart PROVE SpotInv'
    BY <1>7, RestartInv
  <1>8. ASSUME UNCHANGED vars PROVE SpotInv'
    BY <1>8, UnchangedInv DEF vars
  <1> QED
    BY <1>1, <1>2, <1>3, <1>4, <1>5, <1>6, <1>7, <1>8 DEF Next

LEMMA SpotInvariant == Spec => []SpotInv
  BY SpotInit, SpotNext, PTL DEF Spec

(* In the live modes only what a live entry bought is sold, for any number of *)
(* handlers, restarts and modes (executeClose).                              *)
THEOREM SalesAreBacked == Spec => []LiveSaleBacked
  BY SpotInvariant, InvSaleBacked, PTL

(* A position closed live was sold by the sale its row names (closeSignal).   *)
THEOREM ClosesAreSold == Spec => []LiveCloseSold
  BY SpotInvariant, InvCloseSold, PTL

(* A buy without a position can be told from its row (executeOpen).           *)
THEOREM BuysAreExplained == Spec => []UntrackedBuyExplained
  BY SpotInvariant, InvBuyExplained, PTL

-----------------------------------------------------------------------------
(* The bounds of the state.  A handler that buys reserves a row of           *)
(* paper_signals when it starts, so that there is room when it is done.      *)
Buyers == {v \in Works : work[v].at # "idle" /\ Buying(v)}

RoomLeft == Len(signals) + Cardinality(Buyers) <= MaxSignals
Current  == \A w \in Works : work[w].cur \in 0..Len(signals)

(* Positions name transactions that exist, and transactions positions.       *)
Linked ==
  /\ \A s \in 1..Len(signals) : {signals[s].entry, signals[s].sale} \subseteq 0..Len(txs)
  /\ \A t \in 1..Len(txs) : txs[t].signal \in 0..Len(signals)

Counted ==
  /\ Len(txs) <= MaxTxs /\ held \in Nat /\ restarts \in 0..MaxRestarts
  /\ cooling \subseteq {0} \union SignalIds

Small == RoomLeft /\ Current /\ Linked /\ Counted

LEMMA SpotBounds ==
  /\ IsFiniteSet(Works) /\ Quoted \in Nat /\ Slip \in 0..Quoted /\ External \in Nat
  /\ MaxSignals \in Nat /\ MaxTxs \in Nat /\ MaxRestarts \in Nat
  BY SpotAssumption

LEMMA BuyersFinite == IsFiniteSet(Buyers) /\ Cardinality(Buyers) \in Nat
  <1>1. Buyers \subseteq Works
    BY DEF Buyers
  <1>2. IsFiniteSet(Buyers)
    BY <1>1, SpotBounds, FS_Subset
  <1> QED BY <1>2, FS_CardinalityType

LEMMA BuyersFiniteNext == IsFiniteSet(Buyers') /\ Cardinality(Buyers') \in Nat
  <1>1. Buyers' \subseteq Works
    BY DEF Buyers
  <1>2. IsFiniteSet(Buyers')
    BY <1>1, SpotBounds, FS_Subset
  <1> QED BY <1>2, FS_CardinalityType

LEMMA WithinSignals ==
  ASSUME SpotInv, RoomLeft
  PROVE  Len(signals) \in Nat /\ 0..Len(signals) \subseteq {0} \union SignalIds
  <1>1. Len(signals) \in Nat /\ Cardinality(Buyers) \in Nat /\ MaxSignals \in Nat
    BY Lengths, BuyersFinite, SpotBounds
  <1> QED BY <1>1 DEF RoomLeft, SignalIds

(* One handler goes on, and adds at most the row it has room for.            *)
LEMMA RoomKept ==
  ASSUME SpotInv, RoomLeft, Current, NEW w \in Works,
         \A v \in Works \ {w} : work'[v] = work[v],
         work'[w].cur \in 0..Len(signals), Len(signals') \in Nat,
         w \in Buyers' => w \in Buyers,
         \/ Len(signals') = Len(signals)
         \/ Len(signals') = Len(signals) + 1 /\ w \in Buyers /\ w \notin Buyers'
  PROVE  RoomLeft' /\ Current'
  <1>0. Len(signals) \in Nat /\ MaxSignals \in Nat
    BY Lengths, SpotBounds
  <1>1. Current'
    BY <1>0 DEF Current
  <1>2. Buyers' \subseteq Buyers
    BY DEF Buyers, Buying
  <1>3. CASE Len(signals') = Len(signals)
    <2>1. Cardinality(Buyers') <= Cardinality(Buyers)
      BY <1>2, BuyersFinite, FS_Subset
    <2>2. RoomLeft'
      BY <1>0, <1>3, <2>1, BuyersFinite, BuyersFiniteNext DEF RoomLeft
    <2> QED BY <1>1, <2>2
  <1>4. CASE Len(signals') = Len(signals) + 1 /\ w \in Buyers /\ w \notin Buyers'
    <2>1. PICK others : others = Buyers \ {w}
      OBVIOUS
    <2>2. Buyers' \subseteq others
      BY <1>2, <1>4, <2>1
    <2>3. IsFiniteSet(others) /\ Cardinality(others) = Cardinality(Buyers) - 1
      BY <1>4, <2>1, BuyersFinite, FS_RemoveElement
    <2>4. Cardinality(Buyers') <= Cardinality(others)
      BY <2>2, <2>3, FS_Subset
    <2>5. RoomLeft'
      BY <1>0, <1>4, <2>3, <2>4, BuyersFinite, BuyersFiniteNext DEF RoomLeft
    <2> QED BY <1>1, <2>5
  <1> QED BY <1>3, <1>4

(* A handler that changes neither positions nor transactions.                *)
LEMMA QuietSmall ==
  ASSUME SpotInv, Small, NEW w \in Works, UNCHANGED <<signals, txs>>, Counted',
         \A v \in Works \ {w} : work'[v] = work[v],
         work'[w].cur \in 0..Len(signals), w \in Buyers' => w \in Buyers
  PROVE  Small'
  <1>1. RoomLeft /\ Current /\ Len(signals') \in Nat /\ Len(signals') = Len(signals)
    BY Lengths DEF Small
  <1>2. RoomLeft' /\ Current'
    BY <1>1, RoomKept
  <1>3. Linked'
    BY DEF Small, Linked
  <1> QED BY <1>2, <1>3 DEF Small

LEMMA CountedKept ==
  ASSUME Small, UNCHANGED <<held, restarts>>, Len(txs') = Len(txs), cooling' \subseteq cooling
  PROVE  Counted'
  BY DEF Small, Counted

(* A handler is done with one position, and says what came of it.            *)
LEMMA SettleSmall ==
  ASSUME SpotInv, Small, NEW w \in Works, NEW left, left \subseteq 1..Len(signals), NEW key,
         NEW ok, NEW tx \in 0..Len(txs), NEW units \in Nat, work[w].at # "idle",
         ~ Buying(w) => key \in 1..Len(signals), Settle(w, key, left, ok, tx, units),
         Len(txs') = Len(txs), \A t \in 1..Len(txs) : txs'[t].signal = txs[t].signal,
         Counted'
  PROVE  Small'
  <1>0. Len(signals) \in Nat /\ Len(txs) \in Nat /\ tx \in Nat
    BY Lengths
  <1>1. Settled(w, key, left, tx, units)
    BY DEF Settle, Settled
  <1>2. SettledEffect(w, key, tx)
    BY <1>0, <1>1, SettleEffect, Zenon
  <1>3. /\ \A v \in Works \ {w} : work'[v] = work[v]
        /\ work'[w].cur = 0 /\ IF Buying(w) THEN work'[w].at = "idle" ELSE work'[w].side = "sell"
        /\ signals' \in Seq(SignalRec) /\ SignalsKept /\ Len(signals') <= Len(signals) + 1
        /\ \A s \in 1..Len(signals) :
             signals'[s].sale = signals[s].sale \/ signals'[s].sale = tx
        /\ \A s \in Len(signals) + 1..Len(signals') :
             Buying(w) /\ signals'[s].entry = tx /\ signals'[s].sale = 0
    BY <1>2 DEF SettledEffect
  <1>4. Len(signals') \in Nat /\ Len(signals) <= Len(signals')
    BY <1>3 DEF SignalsKept
  <1>5. w \notin Buyers'
    BY <1>3 DEF Buyers, Buying
  <1>6. \/ Len(signals') = Len(signals)
        \/ Len(signals') = Len(signals) + 1 /\ w \in Buyers
    <2>1. ASSUME Len(signals') = Len(signals) + 1 PROVE w \in Buyers
      <3>1. Len(signals) + 1 \in Len(signals) + 1..Len(signals')
        BY <1>0, <2>1
      <3>2. Buying(w)
        BY <1>3, <3>1
      <3> QED BY <3>2 DEF Buyers
    <2> QED BY <1>0, <1>3, <1>4, <2>1
  <1>7. RoomLeft' /\ Current'
    <2>1. RoomLeft /\ Current /\ work'[w].cur \in 0..Len(signals)
      BY <1>0, <1>3 DEF Small
    <2> QED BY <1>3, <1>4, <1>5, <1>6, <2>1, RoomKept
  <1>8. Linked'
    <2>1. ASSUME NEW s \in 1..Len(signals')
          PROVE  signals'[s].entry \in 0..Len(txs) /\ signals'[s].sale \in 0..Len(txs)
      <3>1. CASE s \in 1..Len(signals)
        <4>1. signals[s].entry \in 0..Len(txs) /\ signals[s].sale \in 0..Len(txs)
          BY <3>1 DEF Small, Linked
        <4>2. signals'[s].entry = signals[s].entry
          BY <1>3, <3>1 DEF SignalsKept
        <4> QED BY <1>3, <3>1, <4>1, <4>2
      <3>2. CASE s \in Len(signals) + 1..Len(signals')
        BY <1>0, <1>3, <3>2
      <3> QED BY <1>0, <1>4, <3>1, <3>2
    <2>2. \A t \in 1..Len(txs') : txs'[t].signal \in 0..Len(signals')
      BY <1>0, <1>4 DEF Small, Linked
    <2> QED BY <2>1, <2>2 DEF Linked
  <1> QED BY <1>7, <1>8 DEF Small

LEMMA ObserveSmall ==
  ASSUME SpotInv, Small, NEW w \in Works, NEW side \in Sides, Observe(w, side)
  PROVE  Small'
  <1>1. /\ work' = [work EXCEPT ![w] = [Idle EXCEPT !.at = "decide", !.side = side,
                                                    !.todo = OpenSignals]]
        /\ work[w].at = "idle" /\ UNCHANGED <<signals, txs, held, cooling, restarts>>
        /\ side = "buy" => Len(signals) + Cardinality(Buyers) < MaxSignals
    BY DEF Observe, Buyers
  <1>2. /\ \A v \in Works \ {w} : work'[v] = work[v]
        /\ work'[w].cur = 0 /\ work'[w].side = side /\ work'[w].at = "decide"
    BY <1>1, TaskFacts DEF Idle
  <1>3. Len(signals) \in Nat /\ MaxSignals \in Nat
    BY Lengths, SpotBounds
  <1>4. Counted' /\ Linked'
    BY <1>1 DEF Small, Counted, Linked
  <1>5. Current'
    BY <1>1, <1>2, <1>3 DEF Small, Current
  <1>6. RoomLeft'
    <2>1. CASE side = "sell"
      <3>1. Buyers' = Buyers
        BY <1>1, <1>2, <2>1 DEF Buyers, Buying
      <3> QED BY <1>1, <3>1 DEF Small, RoomLeft
    <2>2. CASE side = "buy"
      <3>1. Buyers' = Buyers \union {w} /\ w \notin Buyers
        BY <1>1, <1>2, <2>2 DEF Buyers, Buying
      <3>2. Cardinality(Buyers') = Cardinality(Buyers) + 1
        BY <3>1, BuyersFinite, FS_AddElement
      <3>3. Cardinality(Buyers) \in Nat
        BY BuyersFinite
      <3> QED BY <1>1, <1>3, <2>2, <3>2, <3>3 DEF RoomLeft
    <2> QED BY <2>1, <2>2 DEF Sides
  <1> QED BY <1>4, <1>5, <1>6 DEF Small

LEMMA StopSmall ==
  ASSUME SpotInv, Small, NEW w \in Works, Stop(w)
  PROVE  Small'
  <1>1. work' = [work EXCEPT ![w] = Idle] /\ UNCHANGED <<signals, txs, held, cooling, restarts>>
    BY DEF Stop, Drop
  <1>2. \A v \in Works \ {w} : work'[v] = work[v]
    BY <1>1, TaskFacts
  <1>3. work'[w].cur = 0 /\ work'[w].at = "idle"
    BY <1>1, TaskFacts DEF Idle
  <1>4. work'[w].cur \in 0..Len(signals) /\ w \notin Buyers'
    BY <1>3, Lengths DEF Buyers
  <1>5. Counted'
    BY <1>1, CountedKept
  <1> QED BY <1>1, <1>2, <1>4, <1>5, QuietSmall

LEMMA KeepSmall ==
  ASSUME SpotInv, Small, NEW w \in Works, KeepPosition(w)
  PROVE  Small'
  <1>1. PICK s \in SignalIds : Proceed(w, work[w].todo \ {s})
    BY DEF KeepPosition
  <1>2. ~ Buying(w) /\ UNCHANGED <<signals, txs, held, cooling, restarts>>
    BY DEF KeepPosition
  <1>3. work[w].todo \ {s} \in SUBSET Nat /\ Typed
    BY TaskFacts DEF SpotInv
  <1>4. /\ \A v \in Works \ {w} : work'[v] = work[v]
        /\ work'[w].cur = 0 /\ work'[w].side = "sell"
    BY <1>1, <1>2, <1>3, ProceedEffect
  <1>5. work'[w].cur \in 0..Len(signals) /\ w \notin Buyers'
    BY <1>4, Lengths DEF Buyers, Buying
  <1>6. Counted'
    BY <1>2, CountedKept
  <1> QED BY <1>2, <1>4, <1>5, <1>6, QuietSmall

LEMMA ExecuteSmall ==
  ASSUME SpotInv, Small, NEW w \in Works, NEW key \in 0..Len(signals), NEW left,
         left \subseteq 1..Len(signals), ~ Buying(w) => key \in 1..Len(signals),
         work[w].at # "idle", Execute(w, key, left), UNCHANGED <<txs, held, restarts>>
  PROVE  Small'
  <1>0. Quoted \in Nat /\ 0 \in 0..Len(txs)
    BY SpotBounds, Lengths
  <1>1. CASE key \in cooling
    <2>1. Settle(w, key, left, FALSE, 0, Quoted) /\ UNCHANGED cooling
      BY <1>1 DEF Execute
    <2>2. Counted'
      BY <2>1, CountedKept
    <2> QED BY <1>0, <2>1, <2>2, SettleSmall, Zenon
  <1>2. CASE key \notin cooling
    <2>1. /\ work' = [work EXCEPT ![w] = [work[w] EXCEPT !.at = "order", !.cur = key,
                                                         !.todo = left]]
          /\ cooling' = cooling \union {key} /\ UNCHANGED signals
      BY <1>2 DEF Execute
    <2>2. /\ \A v \in Works \ {w} : work'[v] = work[v]
          /\ work'[w].cur = key /\ work'[w].side = work[w].side
      BY <2>1, TaskFacts DEF WorkRec
    <2>3. w \in Buyers' => w \in Buyers
      BY <2>2 DEF Buyers, Buying
    <2>4. Counted'
      BY <2>1, WithinSignals DEF Small, Counted
    <2> QED BY <2>1, <2>2, <2>3, <2>4, QuietSmall
  <1> QED BY <1>1, <1>2

LEMMA TryOpenSmall ==
  ASSUME SpotInv, Small, NEW w \in Works, TryOpen(w)
  PROVE  Small'
  <1>0. Quoted \in Nat /\ 0 \in 0..Len(txs) /\ 0 \in 0..Len(signals)
    BY SpotBounds, Lengths
  <1>1. /\ Buying(w) /\ work[w].at # "idle" /\ UNCHANGED <<txs, held, restarts>>
        /\ {} \subseteq 1..Len(signals)
    BY DEF TryOpen
  <1>2. CASE mode = "paper"
    <2>1. Settle(w, 0, {}, FALSE, 0, Quoted) /\ UNCHANGED cooling
      BY <1>2 DEF TryOpen
    <2>2. Counted'
      BY <1>1, <2>1, CountedKept
    <2> QED BY <1>0, <1>1, <2>1, <2>2, SettleSmall, Zenon
  <1>3. CASE mode # "paper"
    <2>1. Execute(w, 0, {})
      BY <1>3 DEF TryOpen
    <2> QED BY <1>0, <1>1, <2>1, ExecuteSmall, Zenon
  <1> QED BY <1>2, <1>3

LEMMA TryCloseSmall ==
  ASSUME SpotInv, Small, NEW w \in Works, TryClose(w)
  PROVE  Small'
  <1>0. Quoted \in Nat /\ 0 \in 0..Len(txs)
    BY SpotBounds, Lengths
  <1>1. PICK s \in SignalIds :
          /\ Oldest(w, s)
          /\ \/ Settle(w, s, work[w].todo \ {s}, FALSE, 0, Quoted) /\ UNCHANGED cooling
             \/ Execute(w, s, work[w].todo \ {s})
    BY DEF TryClose
  <1>2. /\ work[w].at # "idle" /\ UNCHANGED <<txs, held, restarts>>
        /\ work[w].todo \ {s} \subseteq 1..Len(signals)
        /\ s \in 1..Len(signals) /\ s \in 0..Len(signals)
    BY <1>1, TaskFacts, Lengths DEF TryClose, Oldest
  <1>3. CASE Settle(w, s, work[w].todo \ {s}, FALSE, 0, Quoted) /\ UNCHANGED cooling
    <2>1. Counted'
      BY <1>2, <1>3, CountedKept
    <2> QED BY <1>0, <1>2, <1>3, <2>1, SettleSmall, Zenon
  <1>4. CASE Execute(w, s, work[w].todo \ {s})
    BY <1>2, <1>4, ExecuteSmall, Zenon
  <1> QED BY <1>1, <1>3, <1>4

LEMMA NoSwapSmall ==
  ASSUME SpotInv, Small, NEW w \in Works, NoSwap(w)
  PROVE  Small'
  <1>0. Quoted \in Nat /\ 0 \in 0..Len(txs)
    BY SpotBounds, Lengths
  <1>1. /\ Settle(w, work[w].cur, work[w].todo, FALSE, 0, Quoted)
        /\ UNCHANGED <<txs, held, cooling, restarts>> /\ work[w].at # "idle"
        /\ work[w].todo \subseteq 1..Len(signals)
    BY TaskFacts DEF NoSwap
  <1>2. ~ Buying(w) => work[w].cur \in 1..Len(signals)
    <2>1. Task(w) /\ work[w].at = "order"
      BY DEF SpotInv, NoSwap
    <2> QED BY <2>1, TaskFacts DEF Task
  <1>3. Counted'
    BY <1>1, CountedKept
  <1> QED BY <1>0, <1>1, <1>2, <1>3, SettleSmall, Zenon

-----------------------------------------------------------------------------
LEMMA SubmitSmall ==
  ASSUME SpotInv, Small, NEW w \in Works, Submit(w)
  PROVE  Small'
  <1>0. Len(txs) \in Nat /\ Len(signals) \in Nat /\ MaxTxs \in Nat /\ txs \in Seq(TxRec)
    BY Lengths, SpotBounds DEF SpotInv, Typed
  <1>1. PICK r : /\ txs' = Append(txs, r) /\ r.signal = work[w].cur
    BY DEF Submit
  <1>2. /\ work' = [work EXCEPT ![w].at = "sending", ![w].tx = Len(txs) + 1]
        /\ work[w].at = "order" /\ Len(txs) < MaxTxs
        /\ UNCHANGED <<signals, held, cooling, restarts>>
    BY DEF Submit
  <1>3. /\ \A v \in Works \ {w} : work'[v] = work[v]
        /\ work'[w].cur = work[w].cur /\ work'[w].side = work[w].side
    BY <1>2, TaskFacts DEF WorkRec
  <1>4. /\ Len(txs') = Len(txs) + 1 /\ txs'[Len(txs) + 1] = r
        /\ \A t \in 1..Len(txs) : txs'[t] = txs[t]
    <2>1. txs \in Seq(TxRec \union {r}) /\ r \in TxRec \union {r}
      BY <1>0
    <2> QED BY <1>1, <2>1
  <1>5. RoomLeft' /\ Current'
    <2>1. RoomLeft /\ Current /\ work'[w].cur \in 0..Len(signals)
          /\ Len(signals') = Len(signals) /\ Len(signals') \in Nat
      BY <1>0, <1>2, <1>3 DEF Small, Current
    <2>2. w \in Buyers' => w \in Buyers
      BY <1>2, <1>3 DEF Buyers, Buying
    <2> QED BY <1>3, <2>1, <2>2, RoomKept
  <1>6. Linked'
    <2>1. \A s \in 1..Len(signals) : {signals[s].entry, signals[s].sale} \subseteq 0..Len(txs')
      BY <1>0, <1>4 DEF Small, Linked
    <2>2. \A t \in 1..Len(txs') : txs'[t].signal \in 0..Len(signals)
      <3>1. work[w].cur \in 0..Len(signals)
        BY DEF Small, Current
      <3>2. ASSUME NEW t \in 1..Len(txs') PROVE t \in 1..Len(txs) \/ t = Len(txs) + 1
        BY <1>0, <1>4
      <3> QED BY <1>1, <1>4, <3>1, <3>2 DEF Small, Linked
    <2> QED BY <1>2, <2>1, <2>2 DEF Linked
  <1>7. Counted'
    BY <1>0, <1>2, <1>4 DEF Small, Counted
  <1> QED BY <1>5, <1>6, <1>7 DEF Small

(* The rows of transactions change, and with them at most one handler.       *)
LEMMA DropSmall ==
  ASSUME SpotInv, Small, NEW ws \in SUBSET Works,
         work' = [v \in Works |-> IF v \in ws THEN Idle ELSE work[v]],
         UNCHANGED signals, Len(txs') = Len(txs),
         \A t \in 1..Len(txs) : txs'[t].signal = txs[t].signal, Counted'
  PROVE  Small'
  <1>1. Len(signals) \in Nat /\ MaxSignals \in Nat
    BY Lengths, SpotBounds
  <1>2. Current'
    BY <1>1 DEF Small, Current, Idle
  <1>3. Buyers' \subseteq Buyers
    BY DEF Buyers, Buying, Idle
  <1>4. Cardinality(Buyers') <= Cardinality(Buyers)
    BY <1>3, BuyersFinite, FS_Subset
  <1>5. RoomLeft'
    BY <1>1, <1>4, BuyersFinite, BuyersFiniteNext DEF Small, RoomLeft
  <1>6. Linked'
    BY DEF Small, Linked
  <1> QED BY <1>2, <1>5, <1>6 DEF Small

LEMMA AnswerSmall ==
  ASSUME SpotInv, Small, NEW w \in Works, work[w].at = "sending",
         NEW status, NEW units \in Nat, Answered(w, status, units),
         UNCHANGED <<held, cooling, restarts>>
  PROVE  Small'
  <1>1. /\ work[w].tx \in 1..Len(txs) /\ work[w].tx \in 0..Len(txs)
        /\ ~ Buying(w) => work[w].cur \in 1..Len(signals)
    BY TaskFacts DEF SpotInv, Task
  <1>2. txs \in Seq(TxRec) /\ txs[work[w].tx] \in TxRec
    BY <1>1 DEF SpotInv, Typed
  <1>3. CASE /\ Settle(w, work[w].cur, work[w].todo, status = "success", work[w].tx, units)
             /\ txs' = [txs EXCEPT ![work[w].tx].row = status]
    <2>1. Len(txs') = Len(txs) /\ \A t \in 1..Len(txs) : txs'[t].signal = txs[t].signal
      BY <1>1, <1>2, <1>3 DEF TxRec
    <2>2. Counted'
      BY <2>1, CountedKept
    <2>3. work[w].todo \subseteq 1..Len(signals) /\ work[w].at # "idle"
      BY TaskFacts
    <2> QED BY <1>1, <1>3, <2>1, <2>2, <2>3, SettleSmall, Zenon
  <1>4. CASE /\ Drop(w) /\ UNCHANGED signals
             /\ txs' = [txs EXCEPT ![work[w].tx].row = status, ![work[w].tx].cut = TRUE]
    <2>1. Len(txs') = Len(txs) /\ \A t \in 1..Len(txs) : txs'[t].signal = txs[t].signal
      BY <1>1, <1>2, <1>4 DEF TxRec
    <2>2. Counted'
      BY <2>1, CountedKept
    <2>3. work' = [v \in Works |-> IF v \in {w} THEN Idle ELSE work[v]]
      BY <1>4, TaskFacts DEF Drop
    <2>4. {w} \in SUBSET Works
      OBVIOUS
    <2> QED BY <1>4, <2>1, <2>2, <2>3, <2>4, DropSmall
  <1> QED BY <1>3, <1>4 DEF Answered

LEMMA ReplySmall ==
  ASSUME SpotInv, Small, NEW w \in Works, ManagedReply(w) \/ SenderReply(w)
  PROVE  Small'
  <1>1. work[w].at = "sending" /\ UNCHANGED <<held, cooling, restarts>> /\ Quoted \in Nat
    BY SpotBounds DEF ManagedReply, SenderReply
  <1>2. txs[work[w].tx].units \in Nat
    <2>1. work[w].tx \in 1..Len(txs) /\ Typed
      BY <1>1 DEF SpotInv, Task
    <2>2. txs[work[w].tx] \in TxRec
      BY <2>1 DEF Typed
    <2> QED BY <2>2 DEF TxRec
  <1>3. \E status, units : units \in Nat /\ Answered(w, status, units)
    BY <1>1, <1>2 DEF ManagedReply, SenderReply
  <1> QED BY <1>1, <1>3, AnswerSmall

LEMMA EndsSmall ==
  ASSUME SpotInv, Small, Restart \/ \E w \in Works : Throw(w)
  PROVE  Small'
  <1>1. ASSUME NEW ws \in SUBSET Works, Cut(ws), UNCHANGED <<signals, held>>,
               work' = [v \in Works |-> IF v \in ws THEN Idle ELSE work[v]],
               restarts' \in 0..MaxRestarts, cooling' \subseteq cooling
        PROVE  Small'
    <2>1. Len(txs') = Len(txs) /\ \A t \in 1..Len(txs) : txs'[t].signal = txs[t].signal
      BY <1>1, CutEffect DEF TxsKept
    <2>2. Counted'
      BY <1>1, <2>1 DEF Small, Counted
    <2> QED BY <1>1, <2>1, <2>2, DropSmall
  <1>2. CASE Restart
    <2>1. work' = [v \in Works |-> IF v \in Works THEN Idle ELSE work[v]]
      BY <1>2 DEF Restart
    <2>2. restarts' \in 0..MaxRestarts
      BY <1>2, SpotBounds DEF Restart, Small, Counted
    <2>3. Cut(Works) /\ UNCHANGED <<signals, held>> /\ cooling' \subseteq cooling
          /\ Works \in SUBSET Works
      BY <1>2 DEF Restart
    <2> QED BY <1>1, <2>1, <2>2, <2>3
  <1>3. ASSUME NEW w \in Works, Throw(w) PROVE Small'
    <2>1. work' = [v \in Works |-> IF v \in {w} THEN Idle ELSE work[v]]
      BY <1>3, TaskFacts DEF Throw, Drop
    <2>2. Cut({w}) /\ UNCHANGED <<signals, held, cooling, restarts>> /\ {w} \in SUBSET Works
      BY <1>3 DEF Throw
    <2>3. restarts' \in 0..MaxRestarts
      BY <2>2 DEF Small, Counted
    <2> QED BY <1>1, <2>1, <2>2, <2>3
  <1> QED BY <1>2, <1>3

(* Time and the chain leave handlers alone, and what rows name.              *)
LEMMA OutsideSmall ==
  ASSUME SpotInv, Small, UNCHANGED work, Counted',
         Len(signals') = Len(signals), Len(txs') = Len(txs),
         \A s \in 1..Len(signals) : /\ signals'[s].entry = signals[s].entry
                                    /\ signals'[s].sale = signals[s].sale,
         \A t \in 1..Len(txs) : txs'[t].signal = txs[t].signal
  PROVE  Small'
  <1>1. Current' /\ Buyers' = Buyers
    BY DEF Small, Current, Buyers, Buying
  <1>2. RoomLeft'
    BY <1>1 DEF Small, RoomLeft
  <1>3. Linked'
    BY DEF Small, Linked
  <1> QED BY <1>1, <1>2, <1>3 DEF Small

LEMMA AgeSmall ==
  ASSUME SpotInv, Small, NEW s \in SignalIds, Age(s)
  PROVE  Small'
  <1>1. /\ s \in 1..Len(signals) /\ signals' = [signals EXCEPT ![s].stale = TRUE]
        /\ UNCHANGED <<work, txs, held, cooling, restarts>>
    BY DEF Age, OpenSignals
  <1>2. signals \in Seq(SignalRec) /\ signals[s] \in SignalRec
    BY <1>1 DEF SpotInv, Typed
  <1>3. /\ Len(signals') = Len(signals)
        /\ \A i \in 1..Len(signals) : /\ signals'[i].entry = signals[i].entry
                                      /\ signals'[i].sale = signals[i].sale
    <2>1. PICK r : r = [signals[s] EXCEPT !.stale = TRUE]
      OBVIOUS
    <2>2. r.entry = signals[s].entry /\ r.sale = signals[s].sale
      BY <1>2, <2>1 DEF SignalRec
    <2>3. signals' = [signals EXCEPT ![s] = r]
      BY <1>1, <2>1
    <2>4. Len(signals') = Len(signals) /\ signals'[s] = r
          /\ \A i \in 1..Len(signals) : i # s => signals'[i] = signals[i]
      BY <1>1, <1>2, <2>3
    <2> QED BY <2>2, <2>4
  <1>4. Counted'
    BY <1>1, CountedKept
  <1> QED BY <1>1, <1>3, <1>4, OutsideSmall

LEMMA LandSmall ==
  ASSUME SpotInv, Small, NEW t \in TxIds, Land(t)
  PROVE  Small'
  <1>1. txs \in Seq(TxRec) /\ t \in 1..Len(txs) /\ txs[t] \in TxRec
    <2>1. txs \in Seq(TxRec) /\ Len(txs) \in Nat
      BY Lengths DEF SpotInv, Typed
    <2>2. t \in 1..Len(txs)
      BY <2>1, SpotBounds DEF Land, TxIds
    <2> QED BY <2>1, <2>2
  <1>2. /\ UNCHANGED <<work, signals, cooling, restarts>>
        /\ \/ \E got \in (Quoted - Slip)..Quoted :
                txs' = [txs EXCEPT ![t].landed = TRUE, ![t].units = got] /\ held' = held + got
           \/ /\ txs[t].units <= held /\ txs' = [txs EXCEPT ![t].landed = TRUE]
              /\ held' = held - txs[t].units
    BY DEF Land
  <1>3. Len(txs') = Len(txs) /\ \A i \in 1..Len(txs) : txs'[i].signal = txs[i].signal
    <2>1. ASSUME NEW r, r.signal = txs[t].signal, txs' = [txs EXCEPT ![t] = r]
          PROVE  Len(txs') = Len(txs) /\ \A i \in 1..Len(txs) : txs'[i].signal = txs[i].signal
      <3>1. Len(txs') = Len(txs) /\ txs'[t] = r
            /\ \A i \in 1..Len(txs) : i # t => txs'[i] = txs[i]
        BY <1>1, <2>1
      <3> QED BY <2>1, <3>1
    <2>2. ASSUME NEW got, txs' = [txs EXCEPT ![t].landed = TRUE, ![t].units = got]
          PROVE  Len(txs') = Len(txs) /\ \A i \in 1..Len(txs) : txs'[i].signal = txs[i].signal
      <3>1. PICK r : r = [txs[t] EXCEPT !.landed = TRUE, !.units = got]
        OBVIOUS
      <3>2. r.signal = txs[t].signal
        BY <1>1, <3>1 DEF TxRec
      <3>3. txs' = [txs EXCEPT ![t] = r]
        BY <1>1, <2>2, <3>1
      <3> QED BY <2>1, <3>2, <3>3
    <2>3. ASSUME txs' = [txs EXCEPT ![t].landed = TRUE]
          PROVE  Len(txs') = Len(txs) /\ \A i \in 1..Len(txs) : txs'[i].signal = txs[i].signal
      <3>1. PICK r : r = [txs[t] EXCEPT !.landed = TRUE]
        OBVIOUS
      <3>2. r.signal = txs[t].signal
        BY <1>1, <3>1 DEF TxRec
      <3>3. txs' = [txs EXCEPT ![t] = r]
        BY <1>1, <2>3, <3>1
      <3> QED BY <2>1, <3>2, <3>3
    <2> QED BY <1>2, <2>2, <2>3
  <1>4. held' \in Nat
    <2>1. txs[t].units \in Nat /\ held \in Nat
      BY <1>1 DEF TxRec, Small, Counted
    <2> QED BY <1>2, <2>1, SpotBounds
  <1>5. Counted'
    BY <1>2, <1>3, <1>4 DEF Small, Counted
  <1> QED BY <1>2, <1>3, <1>5, OutsideSmall

LEMMA SmallNext == ASSUME SpotInv, Small, [Next]_vars PROVE Small'
  <1>1. ASSUME NEW w \in Works, NEW side \in Sides, Observe(w, side) PROVE Small'
    BY <1>1, ObserveSmall
  <1>2. ASSUME NEW w \in Works, Handler(w) PROVE Small'
    BY <1>2, StopSmall, KeepSmall, TryOpenSmall, TryCloseSmall, NoSwapSmall, SubmitSmall,
       ReplySmall DEF Handler
  <1>3. CASE Restart \/ \E w \in Works : Throw(w)
    BY <1>3, EndsSmall
  <1>4. ASSUME NEW t \in TxIds, Land(t) PROVE Small'
    BY <1>4, LandSmall
  <1>5. ASSUME NEW k \in {0} \union SignalIds, Cool(k) PROVE Small'
    <2>1. cooling' \subseteq cooling /\ UNCHANGED <<work, signals, txs, held, restarts>>
      BY <1>5 DEF Cool
    <2>2. Counted'
      BY <2>1, CountedKept
    <2> QED BY <2>1, <2>2, OutsideSmall
  <1>6. ASSUME NEW s \in SignalIds, Age(s) PROVE Small'
    BY <1>6, AgeSmall
  <1>7. CASE UNCHANGED vars
    <2>1. UNCHANGED <<work, signals, txs, held, cooling, restarts>>
      BY <1>7 DEF vars
    <2>2. Counted'
      BY <2>1, CountedKept
    <2> QED BY <2>1, <2>2, OutsideSmall
  <1> QED BY <1>1, <1>2, <1>3, <1>4, <1>5, <1>6, <1>7 DEF Next

LEMMA SmallInit == ASSUME Init PROVE Small
  <1>1. /\ \A w \in Works : work[w] = Idle
        /\ signals = <<>> /\ txs = <<>> /\ held = External /\ cooling = {} /\ restarts = 0
    BY DEF Init
  <1>2. Len(signals) = 0 /\ Len(txs) = 0
    BY <1>1
  <1>3. Buyers = {}
    BY <1>1 DEF Buyers, Idle
  <1>4. RoomLeft
    BY <1>2, <1>3, SpotBounds, FS_EmptySet DEF RoomLeft
  <1>5. Current /\ Linked
    BY <1>1, <1>2 DEF Current, Linked, Idle
  <1>6. Counted
    BY <1>1, <1>2, SpotBounds DEF Counted
  <1> QED BY <1>4, <1>5, <1>6 DEF Small

LEMMA Retyped ==
  ASSUME NEW S, NEW T, NEW q \in Seq(S), \A i \in 1..Len(q) : q[i] \in T
  PROVE  q \in Seq(T)
  <1>1. q \in [1..Len(q) -> S] /\ Len(q) \in Nat
    OBVIOUS
  <1>2. q \in [1..Len(q) -> T]
    BY <1>1
  <1> QED BY <1>1, <1>2, SeqDef

LEMMA InvSpotTypes == ASSUME SpotInv, Small PROVE TypeOK
  <1>0. /\ Len(signals) \in Nat /\ Len(txs) \in Nat /\ MaxTxs \in Nat /\ MaxSignals \in Nat
        /\ 0..Len(signals) \subseteq {0} \union SignalIds
    BY Lengths, SpotBounds, WithinSignals DEF Small
  <1>1. Len(signals) <= MaxSignals /\ 1..Len(signals) \subseteq SignalIds
    BY <1>0, BuyersFinite DEF Small, RoomLeft, SignalIds
  <1>2. Len(txs) <= MaxTxs /\ 0..Len(txs) \subseteq {0} \union TxIds
    BY <1>0 DEF Small, Counted, TxIds
  <1>3. work \in [Works -> [at: {"idle", "decide", "order", "sending"}, side: Sides,
                            todo: SUBSET SignalIds, cur: {0} \union SignalIds,
                            tx: {0} \union TxIds]]
    <2>1. ASSUME NEW w \in Works
          PROVE  work[w] \in [at: {"idle", "decide", "order", "sending"}, side: Sides,
                              todo: SUBSET SignalIds, cur: {0} \union SignalIds,
                              tx: {0} \union TxIds]
      <3>1. work[w] \in WorkRec /\ Task(w) /\ work[w].cur \in 0..Len(signals)
        BY TaskFacts DEF SpotInv, Small, Current
      <3>2. work[w].todo \subseteq SignalIds
        BY <1>1, <3>1 DEF Task
      <3>3. work[w].cur \in {0} \union SignalIds
        BY <1>0, <3>1
      <3>4. work[w].tx \in {0} \union TxIds
        BY <1>2, <3>1 DEF Task
      <3> QED BY <3>1, <3>2, <3>3, <3>4 DEF WorkRec
    <2>2. work = [w \in Works |-> work[w]]
      BY DEF SpotInv, Typed
    <2> QED BY <2>1, <2>2
  <1>4. signals \in Seq([mode: Modes, entry: {0} \union TxIds, units: Nat,
                         stale: BOOLEAN, exit: {"open"} \union Modes,
                         sale: {0} \union TxIds])
    <2>1. ASSUME NEW s \in 1..Len(signals)
          PROVE  signals[s] \in [mode: Modes, entry: {0} \union TxIds, units: Nat,
                                 stale: BOOLEAN, exit: {"open"} \union Modes,
                                 sale: {0} \union TxIds]
      <3>1. signals[s] \in SignalRec
        BY DEF SpotInv, Typed
      <3>2. signals[s].entry \in {0} \union TxIds /\ signals[s].sale \in {0} \union TxIds
        BY <1>2 DEF Small, Linked
      <3> QED BY <3>1, <3>2 DEF SignalRec
    <2>2. signals \in Seq(SignalRec)
      BY DEF SpotInv, Typed
    <2> QED BY <2>1, <2>2, Retyped
  <1>5. txs \in Seq([side: Sides, signal: {0} \union SignalIds, units: Nat,
                     landed: BOOLEAN, row: Statuses, cut: BOOLEAN])
    <2>1. ASSUME NEW t \in 1..Len(txs)
          PROVE  txs[t] \in [side: Sides, signal: {0} \union SignalIds, units: Nat,
                             landed: BOOLEAN, row: Statuses, cut: BOOLEAN]
      <3>1. txs[t] \in TxRec
        BY DEF SpotInv, Typed
      <3>2. txs[t].signal \in {0} \union SignalIds
        BY <1>0 DEF Small, Linked
      <3> QED BY <3>1, <3>2 DEF TxRec
    <2>2. txs \in Seq(TxRec)
      BY DEF SpotInv, Typed
    <2> QED BY <2>1, <2>2, Retyped
  <1>6. held \in Nat /\ restarts \in 0..MaxRestarts /\ cooling \subseteq {0} \union SignalIds
    BY DEF Small, Counted
  <1>7. mode \in Modes
    BY DEF SpotInv, Typed
  <1> QED BY <1>1, <1>2, <1>3, <1>4, <1>5, <1>6, <1>7 DEF TypeOK

(* TypeOK (SpotSignals): positions name transactions that were handed over,   *)
(* transactions and cooldown keys name positions, and the wallet is never     *)
(* overdrawn, whatever handlers, restarts and landings interleave             *)
(* (signal-engine.ts, trade-executor.ts).                                     *)
THEOREM RowsNameEachOther == Spec => []TypeOK
  <1>1. Init => SpotInv /\ Small
    BY SpotInit, SmallInit
  <1>2. SpotInv /\ Small /\ [Next]_vars => Small'
    BY SmallNext
  <1>3. SpotInv /\ Small => TypeOK
    BY InvSpotTypes
  <1> QED BY <1>1, <1>2, <1>3, SpotInvariant, PTL DEF Spec

=============================================================================
