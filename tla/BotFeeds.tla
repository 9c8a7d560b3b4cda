-------------------------------- MODULE BotFeeds --------------------------------
(***************************************************************************)
(* What the statistical-arbitrage bot listens to: PairLoader polls the     *)
(* table of enabled pairs (packages/db pairs.ts) and reports what changed, *)
(* index.ts keeps its maps and the scheduler's up to date within the       *)
(* request budget, and PythStream holds one WebSocket per Lazer endpoint,  *)
(* subscribed to the feeds of the indexed pairs.                           *)
(*                                                                         *)
(* A row of the table is abstracted to the feed it names and the share of  *)
(* the request budget it needs.  A row that PairConfigSchema refuses is    *)
(* Bad; one without an active quote size is refused there too, so that     *)
(* runtimePair never returns null.                                         *)
(***************************************************************************)
EXTENDS Integers, Sequences, FiniteSets, Functions

CONSTANTS
  Order,      \* the pairs, in the order of their ids
  Feeds,      \* Lazer feed ids
  Rows,       \* rows of enabled pairs
  None,       \* a pair that is not enabled, or not known
  Bad,        \* a row that does not parse
  Servers,    \* ENDPOINTS
  Budget,     \* JUPITER_MAX_RPS with its headroom
  MaxEdits,   \* bound: changes to the table
  MaxFaults,  \* bound: failing queries and lost connections
  MaxReads    \* bound: queries under way at the same time

Pairs == {Order[i] : i \in 1..Len(Order)}

ASSUME FeedsAssumption ==
  /\ Order \in Seq(Pairs)
  /\ \A i, j \in 1..Len(Order) : Order[i] = Order[j] => i = j
  /\ \A r \in Rows : r.feed \in Feeds /\ r.cost \in Nat
  /\ {None, Bad} \cap Rows = {} /\ None # Bad
  /\ Budget \in Nat /\ MaxEdits \in Nat /\ MaxFaults \in Nat /\ MaxReads \in Nat \ {0}

VARIABLES
  table,     \* market_pairs
  reads,     \* what queries under way have read and not returned yet
  current,   \* PairLoader.current
  index,     \* pairConfigs, lazerIdToPairs and the scheduler's pairs
  rejected,  \* pairs whose last report was rejected with an error in the log
  due,       \* refreshScheduled
  feedIds,   \* PythStream.feedIds, as a set
  sock,      \* per endpoint: the socket, what it is subscribed to, its reconnect timer
  stopped,   \* the process is shutting down
  edits, faults

tableVars  == <<table, edits>>
loaderVars == <<reads, current, index, rejected, due>>
streamVars == <<feedIds, sock>>
botVars == <<tableVars, loaderVars, streamVars, stopped, faults>>

Entries == Rows \union {None}
NoSocket == [ws |-> "none", sub |-> {}, timer |-> FALSE]

FeedsTypeOK ==
  /\ table \in [Pairs -> Entries \union {Bad}]
  /\ reads \in Seq([Pairs -> Entries \union {Bad}]) /\ Len(reads) <= MaxReads
  /\ current \in [Pairs -> Entries]
  /\ index \in [configs: [Pairs -> Entries], byFeed: [Feeds -> SUBSET Pairs],
                scheduled: SUBSET Pairs]
  /\ rejected \subseteq Pairs /\ due \in BOOLEAN
  /\ feedIds \subseteq Feeds
  /\ sock \in [Servers -> [ws: {"none", "connecting", "open", "closed"},
                             sub: SUBSET Feeds, timer: BOOLEAN]]
  /\ stopped \in BOOLEAN
  /\ edits \in 0..MaxEdits /\ faults \in 0..MaxFaults

FeedsInit ==
  /\ table \in [Pairs -> Entries]
  /\ reads = <<>> /\ current = [p \in Pairs |-> None]
  /\ index = [configs |-> [p \in Pairs |-> None], byFeed |-> [f \in Feeds |-> {}],
              scheduled |-> {}]
  /\ rejected = {} /\ due = FALSE
  /\ feedIds = {} /\ sock = [e \in Servers |-> NoSocket]
  /\ stopped = FALSE /\ edits = 0 /\ faults = 0

-----------------------------------------------------------------------------
(* upsertPair, disablePair: the operator edits the table (bound: only while *)
(* the bot runs).                                                           *)
EditTable(p, row) ==
  /\ edits < MaxEdits /\ table[p] # row /\ ~ stopped
  /\ table' = [table EXCEPT ![p] = row] /\ edits' = edits + 1
  /\ UNCHANGED <<loaderVars, streamVars, stopped, faults>>

(* assertRuntimeBudget *)
Cost(configs) ==
  FoldFunction(+, 0, [p \in Pairs |-> IF configs[p] = None THEN 0 ELSE configs[p].cost])
WithinBudget(configs) == Cost(configs) <= Budget

(* A mutant: the old feed keeps the pair. *)
WithPair_leaving(st, p, row) ==
  LET candidate == [st.index.configs EXCEPT ![p] = row]
      byFeed    == [st.index.byFeed EXCEPT ![row.feed] = @ \union {p}]
  IN IF ~ WithinBudget(candidate) THEN [st EXCEPT !.rejected = @ \union {p}]
     ELSE [index    |-> [configs |-> candidate, byFeed |-> byFeed,
                         scheduled |-> st.index.scheduled \union {p}],
           rejected |-> st.rejected \ {p},
           due      |-> st.due]

(* indexPair: nothing happens to a pair that does not fit the budget.       *)
WithPair(st, p, row) ==
  LET candidate == [st.index.configs EXCEPT ![p] = row]
      byFeed    == [f \in Feeds |-> IF f = row.feed THEN st.index.byFeed[f] \union {p}
                                                    ELSE st.index.byFeed[f] \ {p}]
  IN IF ~ WithinBudget(candidate) THEN [st EXCEPT !.rejected = @ \union {p}]
     ELSE [index    |-> [configs |-> candidate, byFeed |-> byFeed,
                         scheduled |-> st.index.scheduled \union {p}],
           rejected |-> st.rejected \ {p},
           due      |-> st.due]

(* unindexPair of pairs that are gone, and onRemoved's refreshSubscriptions: *)
(* the maps, the rejected pairs and whether a refresh has been asked for.    *)
Removed(gone) ==
  [index |-> [configs   |-> [p \in Pairs |-> IF p \in gone THEN None
                                                          ELSE index.configs[p]],
              byFeed    |-> [f \in Feeds |-> index.byFeed[f] \ gone],
              scheduled |-> index.scheduled \ gone],
   rejected |-> rejected \ gone,
   due      |-> due \/ gone # {}]

(* onAdded *)
Added(st, p, row) == [WithPair(st, p, row) EXCEPT !.due = TRUE]

(* onUpdated: the subscriptions are only refreshed for another feed. *)
Updated(st, p, row) ==
  LET prev == st.index.configs[p]
  IN [WithPair(st, p, row) EXCEPT !.due = @ \/ prev = None \/ prev.feed # row.feed]

(* What a row that was read does: nothing when it is as it was. *)
Reported(st, p, row) ==
  IF row \in {None, current[p]} THEN st
  ELSE IF current[p] = None THEN Added(st, p, row) ELSE Updated(st, p, row)

(* refresh(), after its query: removals first, then the rows in order. *)
Refreshed(next) ==
  LET gone == {p \in Pairs : current[p] # None /\ next[p] = None}
      done[k \in 0..Len(Order)] ==
        IF k = 0 THEN Removed(gone) ELSE Reported(done[k - 1], Order[k], next[Order[k]])
  IN done[Len(Order)]

-----------------------------------------------------------------------------
(* The timer of PairLoader: a query is sent, whether or not the last one    *)
(* has returned.                                                            *)
Query ==
  /\ ~ stopped /\ Len(reads) < MaxReads
  /\ reads' = Append(reads, table)
  /\ UNCHANGED <<tableVars, current, index, rejected, due, streamVars, stopped, faults>>

Without(i) == [k \in 1..Len(reads) - 1 |-> reads[IF k < i THEN k ELSE k + 1]]

(* A query returns; queries may overtake each other. *)
Refresh(i) ==
  /\ i <= Len(reads) /\ \A p \in Pairs : reads[i][p] # Bad
  /\ LET st == Refreshed(reads[i]) IN
     /\ index' = st.index /\ rejected' = st.rejected /\ due' = st.due
  /\ current' = reads[i]
  /\ reads' = Without(i)
  /\ UNCHANGED <<tableVars, streamVars, stopped, faults>>

(* A mutant: a list that is refused is asked for again and never dropped. *)
RefuseRow_retrying(i) ==
  /\ i <= Len(reads) /\ \E p \in Pairs : reads[i][p] = Bad
  /\ reads' = Append(reads, table)
  /\ UNCHANGED <<tableVars, current, index, rejected, due, streamVars, stopped, faults>>

(* One row that does not parse fails the whole list. *)
RefuseRow(i) ==
  /\ i <= Len(reads) /\ \E p \in Pairs : reads[i][p] = Bad
  /\ reads' = Without(i)
  /\ UNCHANGED <<tableVars, current, index, rejected, due, streamVars, stopped, faults>>

(* The query fails. *)
QueryFails(i) ==
  /\ i <= Len(reads) /\ faults < MaxFaults
  /\ faults' = faults + 1 /\ reads' = Without(i)
  /\ UNCHANGED <<tableVars, current, index, rejected, due, streamVars, stopped>>

-----------------------------------------------------------------------------
(* closeSocket of every endpoint: whatever its socket was doing is dropped  *)
(* and a reconnect is scheduled, unless the process stops.                  *)
ClosedAll(down) == [e \in Servers |-> [NoSocket EXCEPT !.timer = ~ down]]

(* The setImmediate of refreshSubscriptions runs setFeedIds.  The ids are   *)
(* compared in order, so that the same set may count as a change; after     *)
(* closeSocket every endpoint has its timer and none is connected at once.  *)
SetFeedIds ==
  /\ due /\ due' = FALSE
  /\ feedIds' = {f \in Feeds : index.byFeed[f] # {}}
  /\ \/ sock' = ClosedAll(stopped)
     \/ feedIds' = feedIds /\ UNCHANGED sock
  /\ UNCHANGED <<tableVars, reads, current, index, rejected, stopped, faults>>

(* A mutant: only a connection that was lost is made again. *)
Connect_lost(e) ==
  /\ ~ stopped /\ sock[e].timer /\ sock[e].ws = "closed"
  /\ sock' = [sock EXCEPT ![e] = [ws |-> "connecting", sub |-> {}, timer |-> FALSE]]
  /\ UNCHANGED <<tableVars, loaderVars, feedIds, stopped, faults>>

(* The reconnect timer fires: connect. *)
Connect(e) ==
  /\ ~ stopped /\ sock[e].timer
  /\ sock' = [sock EXCEPT ![e] = [ws |-> "connecting", sub |-> {}, timer |-> FALSE]]
  /\ UNCHANGED <<tableVars, loaderVars, feedIds, stopped, faults>>

(* "open": subscribe to what feedIds is now. *)
Open(e) ==
  /\ sock[e].ws = "connecting"
  /\ sock' = [sock EXCEPT ![e].ws = "open", ![e].sub = feedIds]
  /\ UNCHANGED <<tableVars, loaderVars, feedIds, stopped, faults>>

(* "close", also after "error": scheduleReconnect. *)
Close(e) ==
  /\ sock[e].ws \in {"connecting", "open"} /\ faults < MaxFaults
  /\ faults' = faults + 1
  /\ sock' = [sock EXCEPT ![e] = [ws |-> "closed", sub |-> {}, timer |-> TRUE]]
  /\ UNCHANGED <<tableVars, loaderVars, feedIds, stopped>>

(* SIGTERM: queries that are under way still return. *)
Shutdown ==
  /\ ~ stopped /\ stopped' = TRUE
  /\ sock' = ClosedAll(TRUE)
  /\ UNCHANGED <<tableVars, loaderVars, feedIds, faults>>

FeedsNext ==
  \/ \E p \in Pairs, row \in Entries \union {Bad} : EditTable(p, row)
  \/ Query \/ SetFeedIds \/ Shutdown
  \/ \E i \in 1..MaxReads : Refresh(i) \/ RefuseRow(i) \/ QueryFails(i)
  \/ \E e \in Servers : Connect(e) \/ Open(e) \/ Close(e)

(* The poll timer goes on; a query returns or is refused, the oldest one    *)
(* not never; setImmediate runs; timers fire; an endpoint accepts a         *)
(* connection unless it fails, which it does MaxFaults times at most.       *)
Fairness ==
  /\ WF_botVars(Query)
  /\ WF_botVars(Refresh(1) \/ RefuseRow(1) \/ QueryFails(1))
  /\ WF_botVars(SetFeedIds)
  /\ \A e \in Servers : WF_botVars(Connect(e)) /\ WF_botVars(Open(e))

FeedsSpec == FeedsInit /\ [][FeedsNext]_botVars
FeedsFairSpec == FeedsSpec /\ Fairness

-----------------------------------------------------------------------------
Indexed == {p \in Pairs : index.configs[p] # None}

(* However reports, connections and refreshes interleave, the three maps    *)
(* name the same pairs, a refresh is due whenever the feeds of the pairs    *)
(* are not those of the stream, an open socket is subscribed to the         *)
(* stream's present feeds, and an endpoint that should be listened to is    *)
(* connected, connecting or about to.                                       *)
SubscribedToIndexed ==
  /\ index.scheduled = Indexed
  /\ \A f \in Feeds :
       index.byFeed[f] = {p \in Indexed : index.configs[p].feed = f}
  /\ ~ due => feedIds = {f \in Feeds : index.byFeed[f] # {}}
  /\ \A e \in Servers :
       /\ sock[e].ws = "open" => sock[e].sub = feedIds
       /\ ~ stopped /\ feedIds # {} =>
            (sock[e].timer <=> sock[e].ws \in {"none", "closed"})
       /\ stopped => sock[e] = NoSocket

(* When the operator stops editing a table without bad rows, the bot comes  *)
(* to watch what the table says and every endpoint streams it, except for   *)
(* pairs it has rejected for want of budget (PairLoader, refresh).          *)
Settled ==
  /\ \A p \in Pairs : index.configs[p] = table[p] \/ (table[p] # None /\ p \in rejected)
  /\ feedIds = {index.configs[p].feed : p \in Indexed}
  /\ \A e \in Servers : feedIds # {} => sock[e].ws = "open" /\ sock[e].sub = feedIds
PairsConverge ==
  <>[](stopped \/ (\E p \in Pairs : table[p] = Bad) \/ Settled)

(* Enabled pairs that all fit the budget are all quoted in the end, without *)
(* a restart (pair-loader.ts on reconfiguring the workers).                 *)
FittingPairsRun ==
  <>[](\/ stopped \/ \E p \in Pairs : table[p] = Bad
       \/ ~ WithinBudget(table) \/ index.configs = table)
================================================================================
