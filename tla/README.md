# Sotama: a verification development

Sotama lets a wallet owner put money under a *rule* ("when SOL is above $200,
swap 1 SOL to USDC, ten times, at most once an hour"). A Solana program holds
each rule and its escrow; an off-chain keeper watches prices, accounts and the
clock, and sends the transaction that fires a rule when its trigger is met. A web client
builds chains of rules, creates and closes them, and keeps its own list of them.
Beside that the repository holds a statistical-arbitrage bot that trades on its own
account. These TLA+ modules model the program, the keeper, the client and the bot as
their source does it, the configurations check them with TLC, and proof modules
establish the main properties of the program, the keeper, the client's
chains, saved rules and history, and the bot with TLAPS.

Paths below are relative to `src/`.

## 1. Inventory

| component | state | operations | interacts by |
|---|---|---|---|
| **Automation program**, rules and escrow (`programs/sotama_automations/src/instructions`) | one `Automation` account per rule at the PDA `(owner, nonce)`; lamports and token accounts of the PDA | 4 create, 3 execute, fee top-up, bridge, link-fee debit, 3 owner closes, 3 admin closes | transactions of owners, keeper and admin; CPI to Jupiter, SPL tokens and the system program; events in logs |
| **Program configuration** (`initialize_config`, `update_*`, `set_*`, `migrate_config`) | the `Config` account: admin, keeper, treasury, pause and shutdown switches, fees, rule counter | 9 instructions | read by every other instruction |
| **Rule schedule** (`state.rs`) | executions, executed_at, finished | validate, expiry, check_can_fire, advance, time fee | called by the handlers |
| **Keeper: index** (`keeper/src/indexer.rs`, `main.rs`) | `WatchedSet`: `by_pubkey` and trigger buckets, `armed` flags | apply a delta, periodic and reconnect reconcile | reads the chain by RPC; shared with watchers through a watch channel |
| **Keeper: event stream** (`keeper/src/streaming`, `events`) | WebSocket subscription, channels | subscribe, reconnect with sentinel, decode | program logs to the lifecycle task |
| **Keeper: executor** (`keeper/src/executor.rs`) | `Dedupe`: terminal, recent and in-flight sets | claim, build, send, escalate, release | events from the watchers; RPC and Helius Sender |
| **Keeper: time watcher** (`time_watcher.rs`) | `recently_fired` | scan | index to executor |
| **Keeper: price and account watchers** (`price_watcher`, `lazer_watcher`, `jupiter_watcher`, `subscriber`) | subscriptions, last prices | compare, emit | feeds to executor |
| **Keeper: caches** (`fills`, `prices`, `mints`, `caches`) | fills, prices, decimals, blockhash, fees, tables, treasury | refresh, read | RPC and HTTP |
| **Keeper: bridge dispatcher** (`bridge_dispatcher.rs`, `vaults`) | `VaultCache`, one subscription per token account | follow the index, scan balances, send `execute_bridge` | index, WebSockets, Jupiter, RPC |
| **Web client: chain builder** (`src/components/builder/LinkedChainBuilder.tsx`, `linked-chains.ts`) | cards, links, loop mode, two modals | edit a card, link, add, remove, cut a cascade, save | hands a draft to chain creation |
| **Web client: chain creation and reading back** (`linked-chains.ts`, `ChainDepositSheet.tsx`, `on-chain-automations.ts`) | one attempt per press of the button | read the counter, open token accounts, create in batches of two, report; find the chains again from the accounts | transactions; the program's counter, which every wallet advances |
| **Web client: saved rules** (`AutomationWorkspace.tsx`, `automations.ts`, `useOnChainAutomationSync.ts`, `close-automation.ts`) | the list shown, one list per wallet in localStorage | load, hydrate, poll, create, delete, close a cascade | RPC answers that come when the list has changed |
| **Web client: execution history** (`useAutomationFills.ts`) | a cursor and records per rule in localStorage | walk the signatures newer than the cursor | RPC |
| **Bot: signals and trades** (`services/stat-arb-bot/src/signal-engine.ts`, `trade-executor.ts`) | tables of signals and executions, cooldowns | open, close, execute in four modes | quotes that are handled concurrently; Jupiter and Helius; SQL |
| **Bot: pairs and subscriptions** (`pair-loader.ts`, `index.ts`, `pyth-stream.ts`) | pair maps, feed ids, a socket per endpoint | refresh, reconfigure, connect, reconnect, shut down | SQL, WebSockets |
| **Bot: prices, quotes and quality** (`pyth-stream.ts`, `pyth-snapshot.ts`, `quote-scheduler.ts`, `packages/market-core`) | seen updates, token bucket, last quotes | deduplicate, probe, admit, quote, gate | price updates to signals |
| **Wind-down script** (`scripts/wind-down.mjs`) | none | enumerate and admin-close | transactions |
| rest of the client, bot, `packages/*`, `apps/*` | pages, catalogues, statistics | display, convert | HTTP, SQL |

What makes this system hard, and what makes each part right:

- *Program.* A transaction is atomic, but any number of parties order them: the
  keeper may send anything its key allows, owners close while rules fire, two rules
  of a chain feed each other, the admin changes fees and keys, or pulls the kill
  switch, in between. Right means: an open rule keeps its rent; the escrow of its
  remaining fires is there; it fires as often and when its cadence says; a closed
  rule leaves nothing behind but what came after its accounts were listed; no lamport
  appears or disappears; after the kill switch money flows only back, and no rule
  refuses to be swept.
- *Index.* Three tasks read the chain and publish later, and the log stream loses
  messages. Right means: the copies of a rule agree, the flags are those of the
  set, and the set converges to the active rules.
- *Executor.* Events are handled by concurrent tasks, sends fail, expire or land
  late. Right means: a rule is claimed by one task at a time, no claim leaks, the
  same trigger is not used twice, oldest rule first, only dead rules are given up.
- *Price watchers.* Hermes (polled or streamed) and several Lazer connections watch
  the same feeds, and each leaves to the other what the other covers. Right means:
  nobody fires on an old price, and no feed is ever left to somebody who does not
  cover it, so that a crossing that lasts is seen.
- *Chain builder and creation.* A link is an index into cards that come and go; the
  addresses of a chain are computed from a counter that other wallets advance, and
  its rules are created by several transactions of which any may fail. Right
  means: links name later cards or the ring's first, outputs go where the cards say,
  a rule has a loop's cadence exactly when its output comes back, and a browser
  that knows nothing finds the chain in its order.
- *Saved rules and history.* Everything awaits the network and then writes into the
  list of whichever wallet is shown. Right means: no row of a rule that holds a
  deposit is lost, rows settle to what the chain says, no execution that
  could be read is skipped for good.
- *Bot.* Each quote starts a handler nobody waits for; swaps land after their
  answer was an error; the mode may change at a restart. Right means: only what a
  live entry bought is sold live, only what was sold is closed, a buy without a
  position can be told from its row, no signal on an old price, no request beyond
  the budget, and subscriptions that follow the table.

`PROJECT.json` lists every component with its status and every hazard at its line.

## 2. Modules

| module | models | state / actions in terms of the code |
|---|---|---|
| `Cadence` | `state.rs` schedule functions | pure operators with the source's names |
| `ProgramConfig` | the `Config` account | `config`; one action per governance instruction |
| `AutomationProgram` (extends both) | every instruction of the program | `status`, `autos` (account data), `bal` (one ledger of lamports and tokens), `ata` (token accounts of PDAs), `listed` (what the client read of them for a close it has not sent yet), `now`; an action is enabled exactly when the handler returns Ok, since a failing transaction changes nothing |
| `RuleSchedule` | the abstract promise about firing | `phase`, `plan`, `fires`, `last`; Start, Fire, Expire, Retire |
| `MCProgram` | TLC instances of the program | requests, statements of comments |
| `AutomationProgram_proofs` | theorems | section 6 |
| `KeeperIndex` | `indexer.rs`, lifecycle and reconcile tasks of `main.rs`, the log subscription | `set` is the `WatchedSet`; `delta` and `scan` are what a task has fetched and not applied, which is where the code awaits; `logs`, `socket`, `sentinels` the stream; `chain` what the index reads of the program |
| `KeeperExecutor` (extends `Cadence`) | `executor.rs`, `time_watcher.rs` | `tasks` one per event; `dedupe`; `net` transactions under way; `acct` the rules, run by the same `Cadence` operators as the program |
| `PriceTriggers` | `price_watcher.rs`, `lazer_watcher.rs`, `prices/cache.rs`, the delivery of `hermes_sse.rs`, the executor's age check | `cache` the shared `PriceCache`; `local_prices` and `polling` the poll task; `link` one record per Lazer connection, with what it has subscribed and what the server still streams; `updates` and `by_endpoint` the way to the union that Hermes reads; `eval` the evaluator with the copies it took before its awaits; `channel` the trigger channel; `oracle` what Pyth has published |
| `ChainDraft` | `LinkedChainBuilder.tsx` and the checks of `linked-chains.ts` on a draft | `cards` with their links, `loop`, `asking` and `cutting` the two modals; one action per handler |
| `ChainCreation` (extends `ChainDraft`) | `sendChainCreate`, the deposit sheet, what is recorded | `att` one record per attempt, which goes through setup, batches, confirmation and report; `rules` the program's rules by number, other wallets' too; `atas`; `saved` what was reported |
| `ChainReading` (extends `ChainCreation`) | `reconstructChainLinks` | operators on `rules`: neighbours, component, start, position |
| `SavedRules` | the client's list and its storage against the accounts | `list`, `saved`, `owner`, `wallet`; `hydration`, `sync`, `create`, `close` hold what each of them has read or decided and not yet written; `chain`, `minting`, `closing` are the chain; one open page |
| `RuleHistory` | `useAutomationFills.ts` for one rule | `entry` the saved cursor and records, `walker` each refresh under way with the copy it has in memory; `cut` and `mute` are history: what no page held, what decoded to nothing |
| `SpotSignals` | `signal-engine.ts`, `trade-executor.ts`, the tables of `packages/db` they write | `signals` and `txs` are the rows; `work` what each handler awaits; `held` the wallet; `cooling` the cooldowns; `mode` |
| `BotFeeds` | `pair-loader.ts`, `index.ts`, `pyth-stream.ts` | `table` the rows; `reads` the queries under way; `current`, `index`, `rejected`; `feedIds` and `sock` the stream |
| `QuoteFlow` | `pyth-stream.ts`, `pyth-snapshot.ts`, `quote-scheduler.ts`, `rps-budget.ts`, `quote-quality.ts` | `wire` and `seen` the updates; `probes` the snapshots; `tokens` the bucket; `work` the quotes under way; `storing` what passed the gate and waits for its rows to be written before SignalEngine gets it |
| `KeeperIndex_proofs`, `KeeperExecutor_proofs`, `PriceTriggers_proofs`, `ChainCreation_proofs` (also of `ChainDraft` and `ChainReading`), `ClientRules_proofs` (of `SavedRules` and `RuleHistory`), `SpotSignals_proofs`, `BotQuotes_proofs` (of `QuoteFlow` and `BotFeeds`) | theorems | section 6 |
| `MCKeeperIndex`, `MCKeeperExecutor`, `MCPriceTriggers`, `MCChainCreation`, `MCSavedRules`, `MCRuleHistory`, `MCSpotSignals`, `MCBotFeeds`, `MCQuoteFlow` | TLC instances | |

Definitions commented "Seeded fault" or "A mutant" are mutated forms of the definition that follows
them. No specification uses them; each shows that a property does notice the
mistake it describes.

Abstractions worth knowing. A rule's PDA is the pair of owner and counter value.
A trigger is data the program only stores, so it does not appear in the program
model. The relayed Jupiter route takes any amount of the input and delivers any
amount from a small set, within what the handler checks afterwards; the pools are
one holder. Token-2022 transfer fees, account sizes and event payloads are left
out. The setup transaction in which the client opens token accounts
(`linked-chains.ts`) is an action of its own, because another owner's create may
come between it and the create. So is the listing of the token accounts with which the
client closes a swap rule (`collect_pda_dust_atas`): a blockhash and the wallet's
signature are awaited before the close lands, and accounts may be opened meanwhile. Other people's unsolicited transfers into a PDA
are limited to `top_up` by its owner. In `KeeperIndex` the chain is reduced to
what `fetch_active` reads. In `KeeperExecutor` a price event is any non-empty set
of watched rules with a correlation id; where such events come from is
`PriceTriggers`. In it time is the age of each reading, counted up to the first age at
which no source is fresh (`TooOld`), so that the clock needs no bound. `age` is
the time since `fetched_at`, which is what the code looks at, and `held` the time
since the keeper received the price. A rule is the set of prices that cross its
threshold: `crossed_above`, `crossed_below` and the exponents are in that set. Only
triggers quoted in USD on a Pyth feed are modelled, and armed rules only; Shadow is
Off as far as the live cache goes. Back-offs and the adaptive sleep are any time spent
before the next step. An event whose price snapshot is too old is
dropped whole on arrival; that equals an event that never came.

In the client, a card's rule is its two mints, whether it spends what the previous
card delivers and whether its trigger watches the previous card's fill; an address
`PDA(owner, n)` is the number `n`. A row of the saved list is told apart by its rule
and by whether this client made it or read it from the chain. In the bot, prices and
thresholds are the choice of whether an observation opens or closes; what another
handler or the chain cannot tell apart is one step. A row of the pairs table is its
feed and its share of the budget. A price is the time of its publication.

## 3. Runs

| run | what it checks | shows |
|---|---|---|
| `program_escrow` | TypeOK, RentFloor, CadenceSound, SwapFunded, OwnerCloseLeavesNothing, Conserved, KeepsSchedule | one owner, two rules drawn from all kinds and cadences, a chain of two rules feeding each other, top-ups, bridges, closes sent after their accounts were listed, wind-down |
| `program_governance` | NonceUsedOnce, AlwaysSweepable, WindDownFlow | two owners racing for a number with rules of every kind; admin and treasury handed on, fees charged, devnet migration, pause, kill switch; no open rule refuses its sweep |
| `keeper_index` | TypeOK, IndexesAgree, Converges | an old chain head and its new tail; events, both reconcilers, one drop or failing call |
| `keeper_executor` | TypeOK, InFlightExact, ReplayWindow, ClaimsAreReleased | Repeat, Until and Once rules under two concurrent events; two faults among failing sends, expiries and refusals |
| `price_triggers` | TypeOK, StreamedPricesAreFresh, ActiveFollowsConnections, CrossingIsSeen | one feed, one rule, one Lazer connection, with the poll or with the stream; a price that changes, a rule that comes and goes, a connection lost and made again, both channels full |
| `client_chain` | TypeOK, DraftWellLinked, RoutesAsPlanned, LoopedIffOnRing, ReadBackInOrder | chains of up to three cards made in every way the builder allows, created in two batches; another wallet's rule between, a failing batch, a second attempt |
| `saved_rules` | TypeOK, OpenRulesStaySaved, RowsSettle | two wallets in one browser, switches and reloads while hydrations, polls, a create and a close are under way |
| `rule_history` | NothingSkipped | a walker of the page shown and one left behind by a reload; failing requests, transactions that decode to nothing, a full page |
| `bot_signals` | TypeOK, LiveSaleBacked, LiveCloseSold, UntrackedBuyExplained | two handlers of one pair in all four modes; swaps that land late or after an error; a restart into another mode |
| `bot_feeds` | FeedsTypeOK, SubscribedToIndexed, PairsConverge | two pairs and two endpoints; overlapping refreshes, a failing query, a bad row, closed sockets, shutdown |
| `quote_flow` | TypeOK, SignalsFresh, BudgetHeld | two endpoints, two routes, two tokens; a late snapshot, late and repeated prices, a slow or failing database, a pair taken off and put back |
| `claim_time_retry` (violation) | DueRulesFire | "ix failed (will retry on next trigger)" (`executor.rs`): the time watcher never emits the rule again |

In `program_escrow` no fee is configured and `close_automation` is sent for SOL
rules only, as the clients do, so that two statements of section 4 do not hide the
rest; `program_governance` charges both fees, with a swap whose output
account the PDA owns, and lets `close_automation` be sent for any rule.

**Bounds.** Two rules are the least at which one can feed, race or outlive
another; each fires twice at most (`U32Max = 2` in TLC, so that saturation of the
counter is reached too). Amounts are 1 or 2 with `Rent = 2`, so every balance
around the rent floor occurs. Time runs to 3 and deadlines lie at 2: before, at
and after. Two concurrent events and a cache of two entries make eviction, two
tasks on one rule and a replay happen. One or two faults are counted over all
kinds together. `price_triggers` has two prices, one on each side of the threshold, so
one publication is a crossing or its end; ages run to 2, with 1 allowed, so that fresh,
just too old and older all occur (the layers' different limits matter to `put` only
through their order, which is modelled, and the theorems hold for all limits); two changes
are a loss and a re-made connection, or a rule that leaves and returns. One connection is
enough for the hand-over to Hermes; several are covered by the theorem. Three cards
are the least with two batches, a middle card to remove and a ring that is not the
whole chain; six numbers leave room for two attempts of three or one and foreign rules.
One created rule and three switches let a rule be created under one wallet and answered
for under another, and be read back after a return; that a cascade which closes several rules
of a chain keeps the rows of its siblings rests on the theorem, for any chains. A page of two and four executions overflow
a page; the proof has any. Two handlers, two positions and two transactions are a buy
with its sale, two sales or two buys at once. One edit of the table while two reads are
under way is the reordering of answers; the initial table is any. A clock of 3 with a bucket of 2
passes through empty, refilled and full, every limit of the gate is reached and passed, and an
observation can wait for the database beyond them. One snapshot is under way at a time in TLC, also one asked
for before the pair was taken off; the theorems have any number.
Every bound is a named CONSTANT. The runs stop where their clock,
counters and faults are used up, hence `CHECK_DEADLOCK FALSE`.

**Fairness.** Nothing is assumed of what owners, keeper or admin send to the program:
its properties are safety properties, `AlwaysSweepable` among them, which says that a
close would be accepted and not that anybody sends it.
`KeeperIndex!FairSpec` is fair to the keeper's own tasks: tokio runs what can run,
the reconcile timer ticks, and an RPC call fails only `MaxFaults` times. Nothing is
assumed of rules, drops and reconnects. `KeeperExecutor!FairSpec` is fair
to each event's task, the clock, the watcher's timer, and to a sent transaction
landing or expiring. `PriceTriggers!FairSpec` is fair to time, to every task, to the
stream, and strongly fair where a step is repeatedly but not continuously possible: a
sender waiting for room in a tokio channel is served in order, a poll of Hermes
succeeds now and then, and a Lazer connection that is up repeats its prices (every
200 ms). Nothing is assumed of connections being made or lost. `BotFeeds!FeedsFairSpec` is fair to the poll
timer, the oldest query, `setImmediate`, the reconnect timers and to an endpoint's
accepting a connection, which fails `MaxFaults` times at most. `SavedRules!FairSpec` is
fair to the page's effects, the poll and the answers to them, never to a button or the
chain. `claim_time_retry` uses `KeeperExecutor!FairSpec`.

## 4. Statements of the repository the code does not keep

Each is a definition of the module named, with its quotation as comment. TLC refutes
it when it takes the place of the properties in the configuration named, with
the values given; one of them, `DueRulesFire`, is the run `claim_time_retry` and a
finding in `PROJECT.json`.

| statement | definition | instance | what the code does |
|---|---|---|---|
| "Every execute_/create_ ix checks both" switches (`set_shutdown.rs:41`) | `MCProgram!PausedBlocksCreate` | `program_governance`, as PROPERTY | create handlers do not read `paused` |
| "Close a `TransferSol` automation" (`close_automation.rs:7`) | `AutomationProgram!OwnerCloseLeavesNothing` | `program_escrow` with `UntypedClose = TRUE`, `Requests <- UntypedRequests` | the handler accepts any kind and strands the tokens of a token rule |
| "missing it would leave funds stranded" (`close-automation.ts:196`) | `MCProgram!NothingStranded` | `program_escrow` | an account opened between the listing and the close is not in the close, and the rules that pay into it go on doing so |
| the fee moves "from the output ATA ... PDA signs" (`execute_swap.rs:356`) | `MCProgram!SwapFires` | `program_governance` with `SPECIFICATION KeeperRetries`, `Requests <- SwapFeeRequests`, `Devnet = FALSE`, `Successors = {}` (with both swap fees 0 it holds) | with a wallet as destination the PDA is not the authority, so the fire fails while a fee is set |
| gated "until the upstream actually fires" (`indexer.rs:554`) | `KeeperIndex!UpstreamArms` | `keeper_index`, as PROPERTY | nothing recomputes the flag after that fire |
| "Prevents parallel re-fires while a tx is between sign and confirm" (`executor.rs:71`) | `KeeperExecutor!OneTransactionAtATime` | `keeper_executor` | the claim is released after the send |
| "ix failed (will retry on next trigger)" (`executor.rs:394`) | `KeeperExecutor!DueRulesFire` | `claim_time_retry` | a time rule is emitted once |
| "if the price snapshot that triggered this event is now stale, drop the fire" (`executor.rs:236`) | `PriceTriggers!ActsOnFreshPrices` | `price_triggers` | the evaluator stamps a price of the poll's own map with the present time; `StreamedPricesAreFresh` shows that with the stream on the promise is kept |
| a lasting crossing is seen, on a feed the Lazer server ignores | `PriceTriggers!CrossingIsSeen` | `price_triggers` with `Muted = {f1}` | the feed is published as streamed all the same (`lazer_watcher.rs:538`) and Hermes leaves it alone |
| a looped chain is a cycle | `ChainDraft!LoopClosesCycle` | `client_chain` | adding or removing a card unlinks the last one but leaves the loop mode |
| "so we know what we created" (`linked-chains.ts`) | `ChainCreation!RecordedRulesExist` | `client_chain` | the addresses reported are those computed before another wallet's rule came between |
| outputs go to the owner or the next rule (head of `linked-chains.ts`) | `ChainCreation!OutputsReachRules` | `client_chain` | a failed second batch leaves rules that pay into addresses without an account |
| a whole chain is read back in order whatever lies around it | `ChainReading!WholeChainsKeepOrder` | `client_chain` | a stray rule of a failed attempt that pays into the chain becomes its head |
| "On-chain close succeeded — keep the record as terminal history" (`AutomationWorkspace.tsx`) | `SavedRules!ClosedRowsHoldNothing` | `saved_rules` | confirmation is awaited without looking at the error of the transaction |
| "Local strategies are scoped per connected wallet" (`AutomationWorkspace.tsx`) | `SavedRules!SavedPerWallet` | `saved_rules` | a create that is confirmed after a switch is recorded under the wallet shown then |
| the terminal ones are "exactly the history we want to surface" (`useAutomationFills.ts`) | `RuleHistory!EveryExecutionShown` | `rule_history` | a rule that is over and has one record is not walked again |
| "we'd skip that sig forever otherwise" (`useAutomationFills.ts:193`) | `RuleHistory!EveryFetchRecorded` | `rule_history` | the cursor passes a transaction that was fetched without logs, or whose logs the parser throws on (`:205`): only failed fetches are counted |
| a basis is no older than `maxBasisAgeMs` when it is acted on (`quote-quality.ts`) | `QuoteFlow!FreshAtHandOver` | `quote_flow`, as PROPERTY | `index.ts` judges the age when the quote is answered (`:194`) and awaits two inserts (`:225`) before SignalEngine gets the observation (`:254`) |
| sales never exceed what live entries bought (class comment of `SignalEngine`) | `SpotSignals!SoldWithinLiveEntries` | `bot_signals` with `External = 1`, `MaxTxs = 3`, `Modes <- MCManaged` | a sale whose answer was an error but which landed is sent again; with `Slip = 1` and two transactions also because the quoted amount is recorded, not the received |
| pairs are reconfigured without a restart (`pair-loader.ts`) | `BotFeeds!FittingPairsRun` | `bot_feeds`, as PROPERTY | a pair refused for want of budget is not reported again when another makes room |

Some disagreements met while reading are below the level of the models: the catch
of chain creation waits for a collision of addresses, which the program reports as
`ConstraintSeeds`; the deposit confirmation records the loop's cadence for every card of a
chain although only rules on the ring get it; `symbolsPromise` caches a rejected
promise; the trade executor's own calls bypass the request bucket; the telemetry's "60s
rolling window" is a tumbling one; one bad row fails the whole `listEnabledPairs`;
`minPriceMoveBps` is read by nothing; `wind-down.mjs:150` reads `closeFeeLamports`,
which `Config` no longer has, and throws there before any close, and `:157` leaves finished rules out
although they hold rent and what is left of their deposits; `executor.rs:182` promises that later rules of a batch are
read again, which they are not.

`OpenPositionCloses` (`SpotSignals`: an open position does not stay open for ever
outside the live modes) holds under `FairSpec` with `Modes <- MCDryModes` and
`MaxTxs = 0` in `bot_signals.cfg`, without its symmetry; no run repeats it.

## 5. Abstract specification

`RuleSchedule` says what an owner is promised: no more fires than the cadence
has, never within the minimum interval, never past an Until deadline, none when
done, and a gone rule stays gone. `AutomationProgram` implements it under the map
`Phase`, `Plan`, executions and executed_at; `KeepsSchedule` is that
refinement, checked by `program_escrow` and proved by `ScheduleIsKept`.

## 6. Proofs

All theorems are of the specification of their module, for every value of the constants under the named
assumptions of `Cadence`, `ProgramConfig`, `AutomationProgram`, `PriceTriggers`, `ChainDraft`,
`ChainCreation`, `RuleHistory`, `SpotSignals`, `KeeperIndex`, `KeeperExecutor`, `SavedRules`, `QuoteFlow` and `BotFeeds` (parties are
distinct, amounts natural, the fee caps not above the scale, a page holds at least one
signature, what the program sums over is finite: wallets and mints); none bounds the number of owners, rules, tokens, feeds, connections, cards,
attempts, walkers, handlers, positions, transactions, events or wallets.

| theorem | statement |
|---|---|
| `TypeCorrect` | `[]TypeOK`, with no balance ever below zero |
| `RentIsKept` | `[]RentFloor` |
| `CadenceIsKept` | `[]CadenceSound` |
| `NumberedOnce` | `[]NonceUsedOnce` |
| `WindDownIsSafe` | `WindDownFlow` |
| `ScheduleIsKept` | `KeepsSchedule`, that is `Schedule!Spec` |
| `ActiveIsExact` | `[]ActiveFollowsConnections` of `PriceTriggers` |
| `StreamIsFresh` | `[]StreamedPricesAreFresh` of `PriceTriggers` |
| `ChannelsWithinCapacity` | `[]TypeOK` of `PriceTriggers` |
| `IndexTypes` | `[]TypeOK` of `KeeperIndex` |
| `IndexAgrees` | `[]IndexesAgree` of `KeeperIndex` |
| `DraftsWellLinked` | `[]DraftWellLinked` of `ChainDraft`, in `ChainCreation` |
| `RoutesStayPlanned` | `[]RoutesAsPlanned` of `ChainCreation` |
| `AddressesInRange` | `[]TypeOK` of `ChainCreation` |
| `LoopsRunOnRings` | `[]LoopedIffOnRing` of `ChainCreation` |
| `ChainsReadBack` | `[]ReadBackInOrder` of `ChainReading` |
| `HistoryTyped` | `[]HistoryTypeOK` of `RuleHistory` |
| `HistoryHasNoHoles` | `[]NothingSkipped` of `RuleHistory` |
| `SalesAreBacked` | `[]LiveSaleBacked` of `SpotSignals` |
| `ClosesAreSold` | `[]LiveCloseSold` of `SpotSignals` |
| `BuysAreExplained` | `[]UntrackedBuyExplained` of `SpotSignals` |
| `RowsNameEachOther` | `[]TypeOK` of `SpotSignals` |
| `OneSendPerEvent` | `[]TypeOK` of `KeeperExecutor` |
| `ClaimsAreExact` | `[]InFlightExact` of `KeeperExecutor` |
| `ReplaysAreRefused` | `[]ReplayWindow` of `KeeperExecutor` |
| `SavedTypes` | `[]TypeOK` of `SavedRules` |
| `DepositsStayListed` | `OpenRulesStaySaved` of `SavedRules` |
| `SignalsAreFresh` | `[]SignalsFresh` of `QuoteFlow` |
| `FlowTypes` | `[]TypeOK` of `QuoteFlow` |
| `RequestsWithinBudget` | `[]BudgetHeld` of `QuoteFlow` |
| `FeedsTypes` | `[]FeedsTypeOK` of `BotFeeds` |
| `StreamFollowsPairs` | `[]SubscribedToIndexed` of `BotFeeds` |

For the program the inductive invariant is `Core == TypeOK /\ RentFloor`. `TypeOK` alone is not
inductive: a close splits a PDA's lamports into a refund and the rent, and a link
deposit takes from them, so that no balance is negative needs the rent floor. The
argument goes instruction by instruction: `MoveEffect` says what one movement on
the ledger does, the lemmas on create, fire, debit and close use it, and `StepCore`
puts the disjuncts of `Next` together. `CadenceSound` and `NonceUsedOnce` are
inductive on top of `Core`: the first is proved through `RuleSound`, the part
about one rule, with `AdvanceSound` for the fire; the second from the counter's
being above every number given out. `FiveKinds` sorts every step into start, fire,
expire, retire and quiet, which gives both `CadenceIsKept` and the refinement
(`FireRefines` and its companions). `TimeFeeBounds` and `SwapFeeBound` bound the
two fees.

For the price watchers the types are inductive by themselves (`Types`, theorem
`TypesKept`). `ActiveFollowsConnections` is inductive with them: an update appended is the
last one about its endpoint and says what the connection has just subscribed, and one
taken from the head either has a later one about the same endpoint or was that last
one. `StreamedPricesAreFresh` needs `Streamed`: with the stream on the poll's map is empty and
nothing is being polled, and in the cache, in the events the evaluator holds and in the
channel `age` equals `held`; only a poll's price can have them apart.

Three more statements about the program have an invariant each. `SwapFunded` is inductive with
`Core`: a fire takes no more than `amount` of the input and `advance` counts it (`Covers`), a
bridge takes other tokens only, and a rule with a fee top-up, which may take these, is excepted. `OwnerCloseLeavesNothing` needs `EmptyInv`: tokens lie only
in token accounts that exist (`TokensHoused`), every rule does what some request asked for
(`Asked`), a token account of an open swap rule is its input account, was listed, or was
opened since the listing (`Listed`, for every attempt to close), and a token rule its owner has closed has no
token account but those opened after the listing it was closed with and, if there is none of them, no
lamports (`Emptied`); where the accounts are gone nothing can be paid in, by a bridge
or an upstream fire. The exception is real: `NothingStranded` (section 4) is the statement without it. Its theorem has two hypotheses, `~UntypedClose`
(`close_automation` is sent for SOL rules, section 4 has the instance without it) and
`ClientRequests`, which TLC evaluates on every instance. `Conserved` is a sum over all wallets, rules and
pools: `SumUnfolds` shows that the library's fold has the recursive equation on
every finite set, `PointShift` and `BlockShift` what one changed entry or a block of equal changes does to it, and
`MoveConserves` that a movement leaves it alone. The close handlers give back the rent of
every token account at once, which needs that each holds 0 or `AtaRent` (`AtaSizes`, inductive).

For the index, `Agrees` says of the published set that it is filed rule by rule and that computing
its flags again changes nothing; `IndexInv` says the same of a snapshot a reconciler holds and has not published. A delta
alone would break the flags, so `insert_ctx` and `remove_by_pubkey` keep only
`WellFiled` and `recompute_armed` restores `Agrees`.

For chains, `CreationInv` adds to the types and the links what a rule on chain has to do
with its attempt: a rule that an attempt created lies at `start + card - 1`, its
destination and upstream are those its card had when the attempt began, and a draft
no longer changes once an attempt has begun. `DraftWellLinked` is inductive with the modals' invariants
(`EditInv`, one case per handler); `RoutesAsPlanned` follows from the places
(`RoutesFromPlaces`). A card's link is compared by number, so what another wallet creates
between two batches shows as a failed batch and never as a wrong destination.

`LoopedIffOnRing` is about where a walk over the cards returns to. `Walks` is the walk over
stations of which only the last sends back, `GoesRound` its place after each number of steps;
they give which cards come back to themselves, the same for the rules (`Followed`,
`CardsFollowed`), and hence that the loop's cadence is on the ring. `TypeOK` adds `Room`: `Begin` sees that
the whole chain still fits, so no address is derived beyond the last number. `ReadBackInOrder` adds one more
inductive fact, `BegunSound`: a draft that is begun has a first card that watches no fill. Then a whole
chain that nothing pays into or watches has no neighbour outside (`AloneLinks`), the search grows by
one card a round and by nothing else (`ComponentIsChain`), it begins at the first rule (`StartIsFirst`),
and following the payments meets the rules in the order of their cards (`PositionsAreCards`).

For the history, `HistoryInv` says of the saved entry and of every walker's copy that it
is whole up to its cursor but for what no page held and what decoded to nothing (`Whole`); a save by a walker with an
older copy takes the cursor back with the records, which is why two walkers are harmless.

For the bot's trades, `SpotInv` says what a handler that is under way knows: that an executor
exists, that what it sells in a live mode was bought live, and that the transaction it waits for
has no row and is awaited by nobody else (`Alone`). The last is what makes the row that it writes
the first and only one; without it a row could be turned from success to failure under a position
that names it. `Sold`, `Bought` and `Told` tie positions and rows together. `Typed` is the
part of `TypeOK` that does not name a bound of the model, so the argument rests on none. The bounds are
a theorem of their own: a handler that buys has reserved its row when it starts (`RoomLeft`),
and positions and transactions name each other only where there are such rows (`Linked`).

For the executor, `ExecInv` adds to the in-flight set what the cache of recent triggers is:
the last claims, as many as it has room for (`Recent`), so that a claim of the same pair further
back than the window is the only one it can have forgotten. Each task's queue is increasing
and its earlier claims are of smaller rules (`Queued`, `Past`), which is the order of an event.
`Sorting` shows that every finite set of numbers has an increasing enumeration, by ranks
and without induction, which is what `sort_matches_for_queue` is. That a rule has no more
transactions in the air than there were events counts the transactions together with the tasks that
have not done with the rule yet (`OncePerEvent`): a send moves one from the second to the first.

For the saved rules, `Kept` says that a row saved for the owner of the list shown is in that list,
so that saving the list loses nothing; it holds through a switch of wallets because
`MaySave` lets no list be saved before it was loaded. `Told` says that whatever says a rule is
closed (a row, an answer of the poll, a decision of a close under way) is right for good, unless the
client was misled about that rule, and `Underway` what the transactions can still change. A rule on which the client
was misled stays excepted until no list, saved or shown, believes it closed: the first list that is corrected
is not enough, since another wallet's may hold the same row.

For the quotes, `FlowInv` says that the lag a request carries is at least what its price was
late (`Honest`); the price of an observation is then, when its quote is answered, as old as its basis and its lag together. `BudgetInv`
weighs what the bucket has left against what was granted since any time: together they are at most what it
holds and what it got back, which an admission leaves equal and a refill raises with the clock.

For the feeds, `Sound` is what a report keeps while its rows are taken one by one: the three maps name the same pairs,
and a refresh is due unless the stream listens to exactly their feeds (`WithPairIs` for one row,
`Steps` for the fold over the rows). `Tuned` says it of each socket; `stopped` is part of it, because queries that
are under way at a shutdown still report.

For the price watchers' channels `Limits` adds to the types that the trigger channel is finite, without which its
capacity would bound nothing.

Recursion is within reach where it is over numbers (steps of a walk, rounds of a search, sizes of a set): an
argument by the least number at which a statement fails (`NatLessThanWellFounded` with `WFMin`, in `SetInduction`,
`Greatest`, `IteratesExist` and `StepsExist`) replaces the induction theorems, whose operator parameter the provers cannot
instantiate. So every safety invariant and action property of the passing runs, but for one, is
stated by a theorem, for every value of the constants. The one is `AlwaysSweepable`, which says ENABLED. Only
model-checked besides is liveness: `Converges`, `ClaimsAreReleased`, `CrossingIsSeen`, `PairsConverge`,
`RowsSettle`, which rest on fairness and so on ENABLED, out of TLAPS's reach; and `DueRulesFire`, which the code refutes. The definitions of section 4 are refuted,
not proved.

## 7. Not modelled, and why

Ratio, Jupiter and fill-relative triggers, account subscriptions and process supervision
of the keeper are next in the plan. The bridge dispatcher scans the balances that
`VaultManager` has been told of and sends `execute_bridge`; the program model takes that instruction at any
time, which includes every schedule, so what is missing is whether a stranded balance is ever
bridged. Read, not modelled: an account subscription reports changes only and a dropped one is not
followed by a read (`streaming/ws_source.rs:176`), so a balance older than the subscription waits for its next
change; `VaultManager` subscribes to the address under the legacy token program
(`vaults/mod.rs:59`) while the dispatcher looks up the one under the mint's own, so Token-2022
balances are never seen; and until a bridge shows in the cache every scan sends another. `execute_fee_topup`,
which the program model has, is sent by nothing in the keeper: `config.rs:232` reads
settings nobody uses. Two ways in which
the keeper comes to a stop lie outside the models, which assume that every task gets to
run: the poll loop that starts over without awaiting (`price_watcher.rs:135` and `:171`)
keeps one of the four worker threads busy, and `lazer_watcher` without a token returns at
once (`lazer_watcher.rs:103`), which ends the whole process. The treasury is read once per process
(`caches/treasury.rs:46`); after `update_treasury` swaps fail until the keeper is
restarted. Transaction encoding, signing, HTTP clients and fee estimation are I/O: what
matters of them is that a call fails, which the models have. The generated IDL, the
token and feed catalogues and the pages are data and presentation; the form of a
single card and of the deposit sheet only reports a result. Back-tests and statistics
are numerics over floats without state. The bot's HTTP API only reads. In `SavedRules`
one page is open: two tabs over the same localStorage, which save over each other without looking,
are not modelled. Whether the wind-down script closes everything is not claimed: section 4 says where it
stops. The price watchers' `StreamedPricesAreFresh` is about the stream; with the poll the promise is not
kept (section 4).

## 8. Plan

1. *Done:* program, configuration, schedule, refinement; index; executor and time
   watcher; price triggers in USD; chain builder, creation and reading back; saved rules
   and history; the bot's signals, feeds and quotes; the theorems of section 6.
2. *Rest of the price triggers:* crossing with exponents and ratios as pure operators
   against a rational reference; Jupiter's mint prices, which two tasks evaluate;
   triggers relative to a fill; process supervision. Then `PriceTriggers` and
   `KeeperExecutor` composed, with correlations, for the crossing that Lazer and the
   evaluator both send (`lazer_watcher.rs:693`).
3. *Bridge dispatcher and account subscriber:* vault subscriptions and shards against balances
   and rules that change under way. *Wind-down script:* enumeration and batches.
4. *Composition:* the executor's rules replaced by the program's, to check that
   what the keeper sends is accepted or harmless.
5. *Proofs:* with 2 to 4, the invariants of the new modules; the lemmas on crossings.
