---------------------------- MODULE PriceTriggers ----------------------------
(***************************************************************************)
(* How the keeper sees that a price has crossed a rule's threshold         *)
(* (keeper/src/price_watcher.rs, lazer_watcher.rs, prices/cache.rs): the   *)
(* Hermes poll, the Hermes SSE stream and several Lazer connections write  *)
(* prices; an evaluator and the Lazer connections read them and send       *)
(* trigger events; the executor drops an event whose snapshot is too old.  *)
(* Only triggers quoted in USD on a Pyth feed are here, and only the       *)
(* watched rules that are armed.  Time is the age of each reading, counted *)
(* up to TooOld, so that the clock itself needs no bound.                  *)
(***************************************************************************)
EXTENDS Integers, Sequences, FiniteSets

CONSTANTS
    Feeds,
    Rules,
    FeedOf,      \* the feed of each rule's AssetPrice trigger
    Prices,
    CrossedBy,   \* the prices at which each rule's threshold is crossed
    Endpoints,   \* LAZER_ENDPOINTS
    Catalog,     \* the feeds of Lazer's symbol catalog
    Muted,       \* subscribed feeds of which Lazer sends nothing usable
    MaxAge,      \* SourceLayer::max_age
    Modes,       \* the stream modes examined: "off" (poll) and "on" (SSE)
    ChannelCap,  \* capacity of the trigger channel
    UpdatesCap,  \* capacity of the channel of active-feed updates
    MaxPublish,  \* bound on the publications of a feed
    MaxChanges,  \* bound on changes of the watched set and lost connections
    None

Layers == {"lazer", "sse", "poll"}

ASSUME PriceAssumption ==
    /\ FeedOf \in [Rules -> Feeds] /\ CrossedBy \in [Rules -> SUBSET Prices]
    /\ Catalog \subseteq Feeds /\ Muted \subseteq Catalog
    /\ MaxAge \in [Layers -> Nat]
    /\ MaxAge["lazer"] <= MaxAge["sse"] /\ MaxAge["sse"] <= MaxAge["poll"]
    /\ Modes \subseteq {"off", "on"}
    /\ ChannelCap \in Nat \ {0} /\ UpdatesCap \in Nat \ {0}
    /\ MaxPublish \in Nat /\ MaxChanges \in Nat

VARIABLES
    mode,
    oracle,      \* the latest publication of each feed
    watched,     \* the armed rules of the keeper's index
    cache,       \* PriceCache
    local_prices,
    polling,     \* the feeds the poll task has asked Hermes for
    link,        \* each Lazer connection
    updates,     \* active-feed updates on their way to the union task
    by_endpoint,
    eval,        \* the evaluator: the snapshots it took, the events it has to send
    channel,     \* trigger events the executor has not yet taken
    seen,        \* history: rules an event was sent for, on the latest publication
    changes      \* of the watched set and of connections, so far

watchers == <<watched, cache, local_prices, polling, eval>>
lazer == <<link, updates, by_endpoint>>
vars == <<mode, oracle, watchers, lazer, channel, seen, changes>>

-----------------------------------------------------------------------------
(* Readings and events                                                      *)

\* The first age at which no layer is fresh.
TooOld == MaxAge["poll"] + 1
Older(age) == IF age < TooOld THEN age + 1 ELSE age

Readings == [price : Prices, publish_time : 0..MaxPublish, age : 0..TooOld]

\* PriceSnapshot: age is the time since fetched_at, held the time since the keeper
\* received the price.
Snapshots == [price : Prices, publish_time : 0..MaxPublish, source : Layers,
              age : 0..TooOld, held : 0..TooOld]
Events == [feed : Feeds, matches : SUBSET Rules, snapshot : Snapshots]

snapshot(reading, source, age) ==
    [price |-> reading.price, publish_time |-> reading.publish_time,
     source |-> source, age |-> age, held |-> reading.age]

\* What a source delivers now: the latest publication, just received.
Received(f) == [price |-> oracle[f].price, publish_time |-> oracle[f].publish_time,
                age |-> 0]

\* The rules of the set that a reading of the feed crosses.
matches(set, f, reading) ==
    {r \in set : FeedOf[r] = f /\ reading.price \in CrossedBy[r]}

price_feeds_for_source(set) == {FeedOf[r] : r \in set}

\* A fresh snapshot of a better layer is not overwritten.
Better == {<<"lazer", "sse">>, <<"lazer", "poll">>, <<"sse", "poll">>}
put(f, snap) ==
    IF /\ cache[f] # None
       /\ <<cache[f].source, snap.source>> \in Better
       /\ cache[f].age < MaxAge[cache[f].source]
    THEN cache
    ELSE [cache EXCEPT ![f] = snap]

\* The union the watch channel holds.
lazer_active == UNION {by_endpoint[e] : e \in Endpoints}

\* Seeded fault: an event is sent without waiting for room.
Room_unbounded == TRUE

Room == Cardinality(channel) < ChannelCap

\* An event enters the channel.
Sent(event) ==
    /\ channel' = channel \cup {event}
    /\ seen' = IF event.snapshot.publish_time = oracle[event.feed].publish_time
               THEN seen \cup event.matches ELSE seen

-----------------------------------------------------------------------------
(* The world                                                                *)

\* A new price is published; one that repeats the last would change no decision.
Publish(f) ==
    /\ oracle[f].publish_time < MaxPublish
    /\ \E p \in Prices \ {oracle[f].price} :
         oracle' = [oracle EXCEPT ![f] = [price |-> p, publish_time |-> @.publish_time + 1]]
    /\ seen' = {r \in seen : FeedOf[r] # f}
    /\ UNCHANGED <<mode, watchers, lazer, channel, changes>>

\* The indexer publishes a new WatchedSet.
Rewatch ==
    /\ \E r \in Rules :
         watched' = IF r \in watched THEN watched \ {r} ELSE watched \cup {r}
    /\ changes < MaxChanges /\ changes' = changes + 1
    /\ UNCHANGED <<mode, oracle, cache, local_prices, polling, eval, lazer, channel,
                   seen>>

\* Time passes for everything that was fetched or received.
Aged(reading) ==
    IF reading = None THEN None ELSE [reading EXCEPT !.age = Older(@)]
AgedSnapshot(snap) ==
    IF snap = None THEN None
    ELSE [snap EXCEPT !.age = Older(@), !.held = Older(@)]
AgedEvents(events) ==
    {[e EXCEPT !.snapshot = AgedSnapshot(@)] : e \in events}

Tick ==
    /\ cache' = [f \in Feeds |-> AgedSnapshot(cache[f])]
    /\ local_prices' = [f \in Feeds |-> Aged(local_prices[f])]
    /\ eval' = [eval EXCEPT !.to_fire = AgedEvents(@)]
    /\ channel' = AgedEvents(channel)
    /\ UNCHANGED <<mode, oracle, watched, polling, lazer, seen, changes>>

-----------------------------------------------------------------------------
(* Hermes: the poll (mode off) and the SSE stream (mode on)                 *)

NoPrices == [f \in Feeds |-> None]

\* The poll picks the feeds Lazer does not stream; with none it starts over at
\* once.  Its adaptive sleep is any time spent with nothing asked.
PollStart ==
    /\ mode = "off" /\ polling = {}
    /\ polling' = price_feeds_for_source(watched) \ lazer_active
    /\ UNCHANGED <<mode, oracle, watched, cache, local_prices, eval, lazer, channel,
                   seen, changes>>

\* Hermes answers: every price goes into the shared cache and into the poll's own
\* map, which nothing ever evicts.
PollFetch ==
    /\ polling # {}
    /\ cache' = [f \in Feeds |->
                   IF f \in polling THEN put(f, snapshot(Received(f), "poll", 0))[f]
                   ELSE cache[f]]
    /\ local_prices' = [f \in Feeds |->
                          IF f \in polling THEN Received(f) ELSE local_prices[f]]
    /\ polling' = {}
    /\ UNCHANGED <<mode, oracle, watched, eval, lazer, channel, seen, changes>>

\* Hermes fails: the poll starts over.
PollFail ==
    /\ polling # {}
    /\ polling' = {}
    /\ UNCHANGED <<mode, oracle, watched, cache, local_prices, eval, lazer, channel,
                   seen, changes>>

\* The stream delivers a price of a feed in use.
SseDeliver(f) ==
    /\ mode = "on" /\ f \in price_feeds_for_source(watched)
    /\ cache' = put(f, snapshot(Received(f), "sse", 0))
    /\ UNCHANGED <<mode, oracle, watched, local_prices, polling, eval, lazer, channel,
                   seen, changes>>

-----------------------------------------------------------------------------
(* Lazer                                                                    *)

Down == [status |-> "down", subscribed |-> {}, server |-> {}]

current_lazer_ids == price_feeds_for_source(watched) \cap Catalog

publish_active_feeds(e, feeds) ==
    /\ Len(updates) < UpdatesCap
    /\ updates' = Append(updates, [endpoint |-> e, feeds |-> feeds])

\* Seeded fault: an empty update does not clear the endpoint.
Unite_keep(update) ==
    IF update.feeds = {} THEN by_endpoint
    ELSE [by_endpoint EXCEPT ![update.endpoint] = update.feeds]

\* The union task applies one endpoint's update.
Unite(update) == [by_endpoint EXCEPT ![update.endpoint] = update.feeds]

UniteNext ==
    /\ updates # <<>>
    /\ by_endpoint' = Unite(Head(updates))
    /\ updates' = Tail(updates)
    /\ UNCHANGED <<mode, oracle, watchers, link, channel, seen, changes>>

\* A connection is made and subscribed to the feeds of the current set.
Connect(e) ==
    /\ link[e].status = "down"
    /\ link' = [link EXCEPT ![e] = [status |-> "up", subscribed |-> current_lazer_ids,
                                    server |-> current_lazer_ids]]
    /\ publish_active_feeds(e, current_lazer_ids)
    /\ UNCHANGED <<mode, oracle, watchers, by_endpoint, channel, seen, changes>>

\* The set has changed: new feeds are subscribed, removed ones go on streaming
\* (send_unsubscribe does nothing).
Resubscribe(e) ==
    /\ link[e].status = "up" /\ link[e].subscribed # current_lazer_ids
    /\ link' = [link EXCEPT ![e].subscribed = current_lazer_ids,
                            ![e].server = @ \cup current_lazer_ids]
    /\ publish_active_feeds(e, current_lazer_ids)
    /\ UNCHANGED <<mode, oracle, watchers, by_endpoint, channel, seen, changes>>

\* The connection breaks, is closed, or is given up after five unreadable messages.
Drop(e) ==
    /\ link[e].status = "up" /\ changes < MaxChanges
    /\ link' = [link EXCEPT ![e].status = "lost", ![e].server = {}]
    /\ changes' = changes + 1
    /\ UNCHANGED <<mode, oracle, watchers, updates, by_endpoint, channel, seen>>

\* Seeded fault: a lost connection keeps its feeds.
Retract_none(e) == UNCHANGED updates

\* run_endpoint_loop withdraws the endpoint's feeds, then reconnects.
Retract(e) == publish_active_feeds(e, {})

Retire(e) ==
    /\ link[e].status = "lost"
    /\ link' = [link EXCEPT ![e] = Down]
    /\ Retract(e)
    /\ UNCHANGED <<mode, oracle, watchers, by_endpoint, channel, seen, changes>>

\* A price arrives: it goes into the cache, and the rules it crosses are sent at
\* once (process_feed_update).  A full channel holds up the connection, so that such
\* a price is taken to arrive when there is room.
LazerDeliver(e, f) ==
    LET snap == snapshot(Received(f), "lazer", 0)
        to_fire == matches(watched, f, snap)
    IN  /\ f \in link[e].server \ Muted
        /\ cache' = put(f, snap)
        /\ IF to_fire = {} THEN UNCHANGED <<channel, seen>>
           ELSE Room /\ Sent([feed |-> f, matches |-> to_fire, snapshot |-> snap])
        /\ UNCHANGED <<mode, oracle, watched, local_prices, polling, eval, lazer, changes>>

-----------------------------------------------------------------------------
(* The evaluator and the executor's age check                               *)

EvalIdle == [stage |-> "idle", set |-> {}, active |-> {}, to_fire |-> {}]

\* A price cache, mint cache or heartbeat wake-up: the set and the active feeds are
\* copied before the awaits that follow.
EvalWake ==
    /\ eval.stage = "idle"
    /\ eval' = [stage |-> "evaluate", set |-> watched, active |-> lazer_active, to_fire |-> {}]
    /\ UNCHANGED <<mode, oracle, watched, cache, local_prices, polling, lazer, channel,
                   seen, changes>>

\* Seeded fault: a cached price is stamped anew as well.
Decide_restamped(f) ==
    IF f \in eval.active THEN None
    ELSE IF local_prices[f] # None THEN snapshot(local_prices[f], "poll", 0)
    ELSE IF cache[f] # None THEN [cache[f] EXCEPT !.age = 0]
    ELSE None

\* The snapshot a feed is decided on.  The poll's own price comes first and is
\* stamped with the present time; the cache serves the feeds the poll has none of.
\* A feed Lazer streams is left to Lazer.
Decide(f) ==
    IF f \in eval.active THEN None
    ELSE IF local_prices[f] # None THEN snapshot(local_prices[f], "poll", 0)
    ELSE cache[f]

Crossings ==
    {f \in Feeds : Decide(f) # None /\ matches(eval.set, f, Decide(f)) # {}}

Evaluate ==
    /\ eval.stage = "evaluate"
    /\ eval' = [eval EXCEPT
                  !.stage = "send",
                  !.to_fire = {[feed |-> f, matches |-> matches(eval.set, f, Decide(f)),
                                snapshot |-> Decide(f)] : f \in Crossings}]
    /\ UNCHANGED <<mode, oracle, watched, cache, local_prices, polling, lazer, channel,
                   seen, changes>>

\* The events of a tick are sent one after the other, then it waits again.
Emit ==
    /\ eval.stage = "send"
    /\ IF eval.to_fire = {}
       THEN eval' = EvalIdle /\ UNCHANGED <<channel, seen>>
       ELSE /\ Room
            /\ \E event \in eval.to_fire :
                 /\ Sent(event)
                 /\ eval' = [eval EXCEPT !.to_fire = @ \ {event}]
    /\ UNCHANGED <<mode, oracle, watched, cache, local_prices, polling, lazer, changes>>

\* process_event: a snapshot older than its layer allows is not acted on.
Fresh(snap) == snap.age <= MaxAge[snap.source]

\* An event is taken; what its rules then go through is KeeperExecutor's.
Take ==
    /\ \E event \in channel : channel' = channel \ {event}
    /\ UNCHANGED <<mode, oracle, watchers, lazer, seen, changes>>

-----------------------------------------------------------------------------
Init ==
    /\ mode \in Modes
    /\ oracle \in [Feeds -> [price : Prices, publish_time : {0}]]
    /\ watched \in SUBSET Rules
    /\ cache = NoPrices /\ local_prices = NoPrices /\ polling = {}
    /\ link = [e \in Endpoints |-> Down]
    /\ updates = <<>>
    /\ by_endpoint = [e \in Endpoints |-> {}]
    /\ eval = EvalIdle
    /\ channel = {} /\ seen = {} /\ changes = 0

Poll == PollStart \/ PollFetch \/ PollFail
Evaluator == EvalWake \/ Evaluate \/ Emit

Next ==
    \/ Tick \/ Rewatch
    \/ \E f \in Feeds : Publish(f) \/ SseDeliver(f)
    \/ Poll
    \/ \E e \in Endpoints : Connect(e) \/ Resubscribe(e) \/ Drop(e) \/ Retire(e)
    \/ \E e \in Endpoints, f \in Feeds : LazerDeliver(e, f)
    \/ UniteNext
    \/ Evaluator
    \/ Take

Spec == Init /\ [][Next]_vars

\* Time passes; every task runs on; the channels are fair to their senders; Hermes
\* answers some of its polls; a connected Lazer repeats the prices it streams.
FairSpec ==
    /\ Spec
    /\ WF_vars(Tick) /\ WF_vars(Take) /\ WF_vars(UniteNext)
    /\ WF_vars(PollStart) /\ SF_vars(PollFetch)
    /\ WF_vars(EvalWake) /\ WF_vars(Evaluate) /\ SF_vars(Emit)
    /\ \A e \in Endpoints : SF_vars(Resubscribe(e)) /\ SF_vars(Retire(e))
    /\ \A f \in Feeds : WF_vars(SseDeliver(f))
    /\ \A e \in Endpoints, f \in Feeds : SF_vars(LazerDeliver(e, f))

-----------------------------------------------------------------------------
(* Properties                                                               *)

PriceTypes ==
    /\ mode \in Modes
    /\ oracle \in [Feeds -> [price : Prices, publish_time : 0..MaxPublish]]
    /\ watched \subseteq Rules
    /\ cache \in [Feeds -> Snapshots \cup {None}]
    /\ local_prices \in [Feeds -> Readings \cup {None}]
    /\ polling \subseteq Feeds
    /\ eval \in [stage : {"idle", "evaluate", "send"}, set : SUBSET Rules,
                 active : SUBSET Feeds, to_fire : SUBSET Events]
    /\ channel \subseteq Events

LazerTypes ==
    /\ link \in [Endpoints -> [status : {"down", "up", "lost"},
                               subscribed : SUBSET Catalog, server : SUBSET Catalog]]
    /\ updates \in Seq([endpoint : Endpoints, feeds : SUBSET Feeds])
    /\ by_endpoint \in [Endpoints -> SUBSET Feeds]

\* The types of the state; no channel holds more than its capacity.
TypeOK ==
    /\ PriceTypes /\ LazerTypes
    /\ seen \subseteq Rules /\ changes \in 0..MaxChanges
    /\ Cardinality(channel) <= ChannelCap /\ Len(updates) <= UpdatesCap

\* The executor never acts on a price the keeper received longer ago than the
\* source allows ("if the price snapshot that triggered this event is now stale,
\* drop the fire and wait for the watcher to push a fresh crossing",
\* executor.rs:236).
ActsOnFreshPrices ==
    \A event \in channel :
        Fresh(event.snapshot) => event.snapshot.held <= MaxAge[event.snapshot.source]

\* With the SSE stream on, the promise is kept: age and time of receipt agree from
\* every source through the cache, the evaluator and the channel.
StreamedPricesAreFresh == mode = "on" => ActsOnFreshPrices

\* Once the updates under way are applied, Hermes skips a feed for an endpoint
\* exactly if its connection is subscribed to it: no crash, reconnect or change of
\* the set leaves a feed marked that no connection covers (active_feeds_tx,
\* "Cleared on disconnect so Hermes resumes covering them", lazer_watcher.rs:95).
ActiveFollowsConnections ==
    \A e \in Endpoints :
        LET about(i) == updates[i].endpoint = e
        IN  \/ /\ by_endpoint[e] = link[e].subscribed
               /\ \A i \in DOMAIN updates : ~about(i)
            \/ \E i \in DOMAIN updates :
                 /\ about(i) /\ updates[i].feeds = link[e].subscribed
                 /\ \A j \in DOMAIN updates : j > i => ~about(j)

\* A price that stays across a watched rule's threshold leads to a trigger event on
\* that price, whoever of Hermes and Lazer is in charge of the feed and however the
\* charge changes hands.
CrossingIsSeen ==
    \A r \in Rules :
        <>[](r \in watched /\ oracle[FeedOf[r]].price \in CrossedBy[r])
            => <>(r \in seen)

=============================================================================
