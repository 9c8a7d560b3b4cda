------------------------ MODULE PriceTriggers_proofs ------------------------
(* Proofs about PriceTriggers: for any feeds, rules, connections, ages and   *)
(* capacities, the active-feed updates follow the connections, and streamed  *)
(* prices are acted on only while they are fresh.                            *)
EXTENDS PriceTriggers, SequenceTheorems, FiniteSetTheorems, TLAPS

Types == PriceTypes /\ LazerTypes

-----------------------------------------------------------------------------
(* Operators                                                                *)

\* Ages stay in their range.
LEMMA AgeTypes ==
    /\ TooOld \in Nat /\ 0 \in 0..TooOld
    /\ \A age \in 0..TooOld : Older(age) \in 0..TooOld
<1>1. TooOld \in Nat /\ TooOld > 0
  BY PriceAssumption DEF TooOld, Layers
<1> QED
  BY <1>1 DEF Older

\* What a source delivers is a reading, and makes a snapshot in any layer.
LEMMA ReceivedType ==
    ASSUME PriceTypes, NEW f \in Feeds
    PROVE  /\ Received(f) \in Readings
           /\ \A layer \in Layers : snapshot(Received(f), layer, 0) \in Snapshots
<1>1. Received(f) \in Readings
  BY AgeTypes DEF PriceTypes, Received, Readings
<1>2. ASSUME NEW layer \in Layers
      PROVE  snapshot(Received(f), layer, 0) \in Snapshots
  BY <1>1, AgeTypes DEF snapshot, Snapshots, Readings
<1> QED
  BY <1>1, <1>2

\* A put leaves the cache a cache.
LEMMA PutType ==
    ASSUME PriceTypes, NEW f \in Feeds, NEW snap \in Snapshots
    PROVE  put(f, snap) \in [Feeds -> Snapshots \cup {None}]
  BY DEF PriceTypes, put

\* Ageing keeps snapshots, readings and events what they are.
LEMMA AgedTypes ==
    /\ \A snap \in Snapshots : AgedSnapshot(snap) \in Snapshots
    /\ \A snap \in Snapshots \cup {None} : AgedSnapshot(snap) \in Snapshots \cup {None}
    /\ \A reading \in Readings \cup {None} : Aged(reading) \in Readings \cup {None}
    /\ \A events \in SUBSET Events : AgedEvents(events) \in SUBSET Events
<1>1. ASSUME NEW snap \in Snapshots
      PROVE  [snap EXCEPT !.age = Older(@), !.held = Older(@)] \in Snapshots
  BY AgeTypes DEF Snapshots
<1>2. ASSUME NEW reading \in Readings
      PROVE  [reading EXCEPT !.age = Older(@)] \in Readings
  BY AgeTypes DEF Readings
<1>3. \A snap \in Snapshots : AgedSnapshot(snap) \in Snapshots
  BY <1>1 DEF AgedSnapshot
<1>4. ASSUME NEW events \in SUBSET Events
      PROVE  AgedEvents(events) \in SUBSET Events
  <2>1. ASSUME NEW e \in Events
        PROVE  [e EXCEPT !.snapshot = AgedSnapshot(@)] \in Events
    BY <1>3 DEF Events
  <2> QED
    BY <2>1 DEF AgedEvents
<1> QED
  BY <1>1, <1>2, <1>3, <1>4 DEF AgedSnapshot, Aged

\* What a feed is decided on is a snapshot, if there is anything to decide on, so
\* that the crossings are events.
LEMMA DecideType ==
    ASSUME PriceTypes, eval.stage = "evaluate"
    PROVE  {[feed |-> f, matches |-> matches(eval.set, f, Decide(f)), snapshot |-> Decide(f)]
              : f \in Crossings} \in SUBSET Events
<1>1. ASSUME NEW f \in Feeds, Decide(f) # None
      PROVE  Decide(f) \in Snapshots
  <2>1. CASE f \notin eval.active /\ local_prices[f] # None
    <3>1. local_prices[f] \in Readings
      BY <2>1 DEF PriceTypes
    <3>2. snapshot(local_prices[f], "poll", 0) \in Snapshots
      BY <3>1, AgeTypes DEF snapshot, Snapshots, Readings, Layers
    <3> QED
      BY <2>1, <3>2 DEF Decide
  <2>2. CASE f \notin eval.active /\ local_prices[f] = None
    BY <1>1, <2>2 DEF Decide, PriceTypes
  <2> QED
    BY <1>1, <2>1, <2>2 DEF Decide
<1>2. ASSUME NEW f, NEW snap
      PROVE  matches(eval.set, f, snap) \in SUBSET Rules
  BY DEF matches, PriceTypes
<1>3. ASSUME NEW f \in Crossings
      PROVE  [feed |-> f, matches |-> matches(eval.set, f, Decide(f)), snapshot |-> Decide(f)]
               \in Events
  <2>1. f \in Feeds /\ Decide(f) # None
    BY DEF Crossings
  <2>2. Decide(f) \in Snapshots
    BY <1>1, <2>1
  <2>3. matches(eval.set, f, Decide(f)) \in SUBSET Rules
    BY <1>2
  <2> QED
    BY <2>1, <2>2, <2>3 DEF Events
<1> QED
  BY <1>3

-----------------------------------------------------------------------------
(* Types                                                                    *)

\* A step of a Lazer connection or of the union task keeps the types of Lazer's
\* state.
LEMMA LazerStepTypes ==
    ASSUME Types, NEW e \in Endpoints,
           Connect(e) \/ Resubscribe(e) \/ Drop(e) \/ Retire(e)
    PROVE  LazerTypes'
<1> USE DEF Types, LazerTypes
<1>1. current_lazer_ids \in SUBSET Catalog /\ {} \in SUBSET Catalog
  BY DEF current_lazer_ids
<1>2. \A feeds \in SUBSET Catalog : [endpoint |-> e, feeds |-> feeds]
                                      \in [endpoint : Endpoints, feeds : SUBSET Feeds]
  BY PriceAssumption
<1>3. CASE Connect(e)
  <2>1. updates' \in Seq([endpoint : Endpoints, feeds : SUBSET Feeds])
    BY <1>1, <1>2, <1>3 DEF Connect, publish_active_feeds
  <2>2. link' \in [Endpoints -> [status : {"down", "up", "lost"},
                                 subscribed : SUBSET Catalog, server : SUBSET Catalog]]
    BY <1>1, <1>3 DEF Connect
  <2> QED
    BY <1>3, <2>1, <2>2 DEF Connect
<1>4. CASE Resubscribe(e)
  <2>1. updates' \in Seq([endpoint : Endpoints, feeds : SUBSET Feeds])
    BY <1>1, <1>2, <1>4 DEF Resubscribe, publish_active_feeds
  <2>2. link' \in [Endpoints -> [status : {"down", "up", "lost"},
                                 subscribed : SUBSET Catalog, server : SUBSET Catalog]]
    BY <1>1, <1>4 DEF Resubscribe
  <2> QED
    BY <1>4, <2>1, <2>2 DEF Resubscribe
<1>5. CASE Drop(e)
  BY <1>1, <1>5 DEF Drop
<1>6. CASE Retire(e)
  <2>1. updates' \in Seq([endpoint : Endpoints, feeds : SUBSET Feeds])
    BY <1>1, <1>2, <1>6 DEF Retire, Retract, publish_active_feeds
  <2> QED
    BY <1>1, <1>6, <2>1 DEF Retire, Down
<1> QED
  BY <1>3, <1>4, <1>5, <1>6

\* So does the union task.
LEMMA UniteTypes ==
    ASSUME Types, UniteNext
    PROVE  LazerTypes'
<1>1. /\ Head(updates) \in [endpoint : Endpoints, feeds : SUBSET Feeds]
      /\ Tail(updates) \in Seq([endpoint : Endpoints, feeds : SUBSET Feeds])
  BY HeadTailProperties DEF Types, LazerTypes, UniteNext
<1>2. Unite(Head(updates)) \in [Endpoints -> SUBSET Feeds]
  BY <1>1 DEF Unite, Types, LazerTypes
<1> QED
  BY <1>1, <1>2 DEF Types, LazerTypes, UniteNext

\* Lazer's state is of no concern to the price caches, and the other way round.
LEMMA UntouchedTypes ==
    ASSUME Types
    PROVE  /\ UNCHANGED <<mode, oracle, watchers, channel>> => PriceTypes'
           /\ UNCHANGED lazer => LazerTypes'
<1>1. ASSUME UNCHANGED <<mode, oracle, watchers, channel>>
      PROVE  PriceTypes'
  BY <1>1 DEF Types, PriceTypes, watchers
<1>2. ASSUME UNCHANGED lazer
      PROVE  LazerTypes'
  BY <1>2 DEF Types, LazerTypes, lazer
<1> QED
  BY <1>1, <1>2

\* Time passing keeps the types of the caches and the events.
LEMMA TickTypes ==
    ASSUME Types, Tick
    PROVE  PriceTypes'
<1>1. cache' \in [Feeds -> Snapshots \cup {None}]
  BY AgedTypes DEF Types, PriceTypes, Tick
<1>2. local_prices' \in [Feeds -> Readings \cup {None}]
  BY AgedTypes DEF Types, PriceTypes, Tick
<1>3. channel' \subseteq Events
  <2>1. channel \in SUBSET Events
    BY DEF Types, PriceTypes
  <2> QED
    BY <2>1, AgedTypes DEF Tick
<1>4. eval' \in [stage : {"idle", "evaluate", "send"}, set : SUBSET Rules,
                 active : SUBSET Feeds, to_fire : SUBSET Events]
  <2>1. eval.to_fire \in SUBSET Events
    BY DEF Types, PriceTypes
  <2>2. AgedEvents(eval.to_fire) \in SUBSET Events
    BY <2>1, AgedTypes
  <2> QED
    BY <2>2 DEF Types, PriceTypes, Tick
<1> QED
  BY <1>1, <1>2, <1>3, <1>4 DEF Types, PriceTypes, Tick

\* So does the poll ...
LEMMA PollTypes ==
    ASSUME Types, Poll
    PROVE  PriceTypes'
<1>1. CASE PollStart
  <2>1. price_feeds_for_source(watched) \subseteq Feeds
    BY PriceAssumption DEF Types, PriceTypes, price_feeds_for_source
  <2> QED
    BY <1>1, <2>1 DEF PollStart, Types, PriceTypes
<1>2. CASE PollFetch
  <2>1. \A f \in Feeds : /\ Received(f) \in Readings
                         /\ snapshot(Received(f), "poll", 0) \in Snapshots
    BY ReceivedType DEF Types, Layers
  <2>2. \A f \in Feeds : put(f, snapshot(Received(f), "poll", 0))
                           \in [Feeds -> Snapshots \cup {None}]
    BY <2>1, PutType DEF Types
  <2>3. \A f \in Feeds : put(f, snapshot(Received(f), "poll", 0))[f] \in Snapshots \cup {None}
    BY <2>2
  <2>4. cache' \in [Feeds -> Snapshots \cup {None}]
    BY <1>2, <2>3 DEF PollFetch, Types, PriceTypes
  <2>5. local_prices' \in [Feeds -> Readings \cup {None}]
    BY <1>2, <2>1 DEF PollFetch, Types, PriceTypes
  <2> QED
    BY <1>2, <2>4, <2>5 DEF PollFetch, Types, PriceTypes
<1>3. CASE PollFail
  BY <1>3 DEF PollFail, Types, PriceTypes
<1> QED
  BY <1>1, <1>2, <1>3 DEF Poll

\* ... a price that is delivered ...
LEMMA DeliverTypes ==
    ASSUME Types, NEW f \in Feeds,
           SseDeliver(f) \/ \E e \in Endpoints : LazerDeliver(e, f)
    PROVE  PriceTypes'
<1>1. CASE SseDeliver(f)
  <2>1. snapshot(Received(f), "sse", 0) \in Snapshots
    BY ReceivedType DEF Types, Layers
  <2>2. cache' \in [Feeds -> Snapshots \cup {None}]
    BY <1>1, <2>1, PutType DEF SseDeliver, Types
  <2> QED
    BY <1>1, <2>2 DEF SseDeliver, Types, PriceTypes
<1>2. ASSUME NEW e \in Endpoints, LazerDeliver(e, f)
      PROVE  PriceTypes'
  <2> DEFINE snap == snapshot(Received(f), "lazer", 0)
             to_fire == matches(watched, f, snap)
  <2>1. snap \in Snapshots
    BY ReceivedType DEF Types, Layers
  <2>2. to_fire \in SUBSET Rules
    BY DEF matches, Types, PriceTypes
  <2>3. [feed |-> f, matches |-> to_fire, snapshot |-> snap] \in Events
    BY <2>1, <2>2 DEF Events
  <2> HIDE DEF snap, to_fire
  <2>4. put(f, snap) \in [Feeds -> Snapshots \cup {None}]
    BY <2>1, PutType DEF Types
  <2>5. cache' = put(f, snap)
    BY <1>2 DEF LazerDeliver, snap
  <2>6. \/ channel' = channel
        \/ channel' = channel \cup {[feed |-> f, matches |-> to_fire, snapshot |-> snap]}
    BY <1>2 DEF LazerDeliver, Sent, snap, to_fire
  <2>7. channel' \subseteq Events
    BY <2>3, <2>6 DEF Types, PriceTypes
  <2> QED
    BY <1>2, <2>4, <2>5, <2>7 DEF LazerDeliver, Types, PriceTypes
<1> QED
  BY <1>1, <1>2

\* ... the evaluator ...
LEMMA EvaluatorTypes ==
    ASSUME Types, Evaluator
    PROVE  PriceTypes'
<1>1. CASE EvalWake
  <2>1. lazer_active \subseteq Feeds
    BY DEF lazer_active, Types, LazerTypes
  <2> QED
    BY <1>1, <2>1 DEF EvalWake, Types, PriceTypes
<1>2. CASE Evaluate
  <2> DEFINE to_fire == {[feed |-> f, matches |-> matches(eval.set, f, Decide(f)),
                          snapshot |-> Decide(f)] : f \in Crossings}
  <2>1. to_fire \in SUBSET Events
    BY <1>2, DecideType DEF Types, Evaluate
  <2>2. eval' = [eval EXCEPT !.stage = "send", !.to_fire = to_fire]
    BY <1>2 DEF Evaluate
  <2> HIDE DEF to_fire
  <2>3. eval' \in [stage : {"idle", "evaluate", "send"}, set : SUBSET Rules,
                   active : SUBSET Feeds, to_fire : SUBSET Events]
    BY <2>1, <2>2 DEF Types, PriceTypes
  <2> QED
    BY <1>2, <2>3 DEF Evaluate, Types, PriceTypes
<1>3. CASE Emit /\ eval.to_fire = {}
  BY <1>3 DEF Emit, EvalIdle, Types, PriceTypes
<1>4. CASE Emit /\ eval.to_fire # {}
  <2>1. PICK event \in eval.to_fire : /\ Sent(event)
                                      /\ eval' = [eval EXCEPT !.to_fire = @ \ {event}]
    BY <1>4 DEF Emit
  <2>2. event \in Events
    BY DEF Types, PriceTypes
  <2>3. channel' \subseteq Events
    BY <2>1, <2>2 DEF Sent, Types, PriceTypes
  <2>4. eval' \in [stage : {"idle", "evaluate", "send"}, set : SUBSET Rules,
                   active : SUBSET Feeds, to_fire : SUBSET Events]
    BY <2>1 DEF Types, PriceTypes
  <2> QED
    BY <1>4, <2>3, <2>4 DEF Emit, Types, PriceTypes
<1> QED
  BY <1>1, <1>2, <1>3, <1>4 DEF Evaluator

\* ... and the index, the publishers and the executor.
LEMMA WorldTypes ==
    ASSUME Types, Rewatch \/ (\E f \in Feeds : Publish(f)) \/ Take
    PROVE  PriceTypes'
<1>1. CASE Rewatch
  BY <1>1 DEF Rewatch, Types, PriceTypes
<1>2. ASSUME NEW f \in Feeds, Publish(f)
      PROVE  PriceTypes'
  <2>1. oracle' \in [Feeds -> [price : Prices, publish_time : 0..MaxPublish]]
    BY <1>2, PriceAssumption DEF Publish, Types, PriceTypes
  <2> QED
    BY <1>2, <2>1 DEF Publish, watchers, Types, PriceTypes
<1>3. CASE Take
  BY <1>3 DEF Take, watchers, Types, PriceTypes
<1> QED
  BY <1>1, <1>2, <1>3

\* The steps of the fetching, evaluating and executing side.
PriceStep ==
    \/ Tick \/ Rewatch \/ Poll \/ Evaluator \/ Take
    \/ \E f \in Feeds : Publish(f) \/ SseDeliver(f) \/ \E e \in Endpoints : LazerDeliver(e, f)

\* The steps of the connections and the union task.
LazerStep ==
    \/ UniteNext
    \/ \E e \in Endpoints : Connect(e) \/ Resubscribe(e) \/ Drop(e) \/ Retire(e)

\* Every step is of one side and leaves the other side's state alone.
LEMMA TwoSides ==
    /\ Next => PriceStep \/ LazerStep
    /\ PriceStep => UNCHANGED lazer
    /\ LazerStep => UNCHANGED <<mode, oracle, watchers, channel>>
<1>1. Next => PriceStep \/ LazerStep
  BY DEF Next, PriceStep, LazerStep
<1>2. PriceStep => UNCHANGED lazer
  BY DEF PriceStep, Tick, Rewatch, Poll, PollStart, PollFetch, PollFail, Evaluator, EvalWake,
         Evaluate, Emit, Take, Publish, SseDeliver, LazerDeliver
<1>3. LazerStep => UNCHANGED <<mode, oracle, watchers, channel>>
  BY DEF LazerStep, UniteNext, Connect, Resubscribe, Drop, Retire
<1> QED
  BY <1>1, <1>2, <1>3

\* The state keeps its types.
THEOREM TypesKept == Spec => []Types
<1>1. Init => Types
  <2> SUFFICES ASSUME Init PROVE Types
    OBVIOUS
  <2>1. oracle \in [Feeds -> [price : Prices, publish_time : 0..MaxPublish]]
    <3>1. [price : Prices, publish_time : {0}] \subseteq [price : Prices, publish_time : 0..MaxPublish]
      BY PriceAssumption
    <3> QED
      BY <3>1 DEF Init
  <2>2. PriceTypes
    BY <2>1 DEF Init, PriceTypes, NoPrices, EvalIdle
  <2>3. LazerTypes
    BY DEF Init, LazerTypes, Down
  <2> QED
    BY <2>2, <2>3 DEF Types
<1>2. Types /\ [Next]_vars => Types'
  <2> SUFFICES ASSUME Types, [Next]_vars PROVE Types'
    OBVIOUS
  <2>1. CASE PriceStep
    <3>1. LazerTypes'
      BY <2>1, TwoSides, UntouchedTypes
    <3>2. PriceTypes'
      BY <2>1, TickTypes, PollTypes, DeliverTypes, EvaluatorTypes, WorldTypes DEF PriceStep
    <3> QED
      BY <3>1, <3>2 DEF Types
  <2>2. CASE LazerStep
    <3>1. PriceTypes'
      BY <2>2, TwoSides, UntouchedTypes
    <3>2. LazerTypes'
      BY <2>2, LazerStepTypes, UniteTypes DEF LazerStep
    <3> QED
      BY <3>1, <3>2 DEF Types
  <2>3. CASE UNCHANGED vars
    BY <2>3, UntouchedTypes DEF vars, lazer, watchers, Types
  <2> QED
    BY <2>1, <2>2, <2>3, TwoSides
<1> QED
  BY <1>1, <1>2, PTL DEF Spec

-----------------------------------------------------------------------------
(* The active feeds follow the connections                                  *)

\* An update that is queued last speaks for its endpoint; the others are as before.
LEMMA UpdateFollows ==
    ASSUME Types, ActiveFollowsConnections, NEW e \in Endpoints, NEW feeds \in SUBSET Feeds,
           updates' = Append(updates, [endpoint |-> e, feeds |-> feeds]),
           link'[e].subscribed = feeds,
           \A o \in Endpoints : o # e => link'[o] = link[o],
           UNCHANGED by_endpoint
    PROVE  ActiveFollowsConnections'
<1> DEFINE U == [endpoint : Endpoints, feeds : SUBSET Feeds]
           new == [endpoint |-> e, feeds |-> feeds]
<1>1. updates \in Seq(U) /\ new \in U
  BY DEF Types, LazerTypes
<1> HIDE DEF U, new
<1>2. updates' = Append(updates, new)
  BY DEF new
<1>3. /\ updates' \in Seq(U) /\ Len(updates') = Len(updates) + 1
      /\ \A i \in 1..Len(updates) : updates'[i] = updates[i]
      /\ updates'[Len(updates) + 1] = new
  BY <1>1, <1>2, AppendProperties
<1>4. /\ DOMAIN updates = 1..Len(updates) /\ Len(updates) \in Nat
      /\ DOMAIN updates' = 1..(Len(updates) + 1)
  BY <1>1, <1>3
<1>5. new.endpoint = e /\ new.feeds = feeds
  BY DEF new
<1> SUFFICES ASSUME NEW o \in Endpoints
             PROVE  \/ /\ by_endpoint'[o] = link'[o].subscribed
                       /\ \A i \in DOMAIN updates' : updates'[i].endpoint # o
                    \/ \E i \in DOMAIN updates' :
                         /\ updates'[i].endpoint = o /\ updates'[i].feeds = link'[o].subscribed
                         /\ \A j \in DOMAIN updates' : j > i => updates'[j].endpoint # o
  BY DEF ActiveFollowsConnections
<1>6. CASE o = e
  <2>1. Len(updates) + 1 \in DOMAIN updates'
    BY <1>4
  <2>2. \A j \in DOMAIN updates' : ~(j > Len(updates) + 1)
    BY <1>4
  <2> QED
    BY <1>3, <1>5, <1>6, <2>1, <2>2
<1>7. CASE o # e
  <2>1. CASE /\ by_endpoint[o] = link[o].subscribed
             /\ \A i \in DOMAIN updates : updates[i].endpoint # o
    BY <1>3, <1>4, <1>5, <1>7, <2>1
  <2>2. CASE \E i \in DOMAIN updates :
               /\ updates[i].endpoint = o /\ updates[i].feeds = link[o].subscribed
               /\ \A j \in DOMAIN updates : j > i => updates[j].endpoint # o
    <3>1. PICK i \in DOMAIN updates :
               /\ updates[i].endpoint = o /\ updates[i].feeds = link[o].subscribed
               /\ \A j \in DOMAIN updates : j > i => updates[j].endpoint # o
      BY <2>2
    <3>2. /\ i \in DOMAIN updates'
          /\ updates'[i].endpoint = o /\ updates'[i].feeds = link'[o].subscribed
      BY <1>3, <1>4, <1>7, <3>1
    <3>3. \A j \in DOMAIN updates' : j > i => updates'[j].endpoint # o
      BY <1>3, <1>4, <1>5, <1>7, <3>1
    <3> QED
      BY <3>2, <3>3
  <2> QED
    BY <2>1, <2>2 DEF ActiveFollowsConnections
<1> QED
  BY <1>6, <1>7

\* The union task takes the oldest update: if it was the last of its endpoint, its
\* feeds are now in by_endpoint, otherwise a later one still speaks for it.
LEMMA UniteFollows ==
    ASSUME Types, ActiveFollowsConnections, UniteNext
    PROVE  ActiveFollowsConnections'
<1> DEFINE U == [endpoint : Endpoints, feeds : SUBSET Feeds]
<1>1. updates \in Seq(U) /\ updates # <<>>
  BY DEF Types, LazerTypes, UniteNext
<1> HIDE DEF U
<1>2. /\ by_endpoint' = [by_endpoint EXCEPT ![updates[1].endpoint] = updates[1].feeds]
      /\ by_endpoint \in [Endpoints -> SUBSET Feeds]
      /\ updates' = Tail(updates) /\ link' = link
  <2>1. Head(updates) = updates[1]
    BY <1>1
  <2>2. by_endpoint' = Unite(Head(updates))
    BY DEF UniteNext
  <2> QED
    BY <2>1, <2>2 DEF Types, LazerTypes, UniteNext, Unite
<1>3. /\ updates' \in Seq(U) /\ Len(updates') = Len(updates) - 1
      /\ \A i \in 1..Len(updates') : updates'[i] = updates[i + 1]
  BY <1>1, <1>2, HeadTailProperties
<1>4. /\ DOMAIN updates = 1..Len(updates) /\ Len(updates) \in Nat \ {0}
      /\ DOMAIN updates' = 1..(Len(updates) - 1)
  BY <1>1, <1>3
<1>5. \A i \in DOMAIN updates' : i + 1 \in DOMAIN updates /\ updates'[i] = updates[i + 1]
  BY <1>3, <1>4
<1> SUFFICES ASSUME NEW o \in Endpoints
             PROVE  \/ /\ by_endpoint'[o] = link'[o].subscribed
                       /\ \A i \in DOMAIN updates' : updates'[i].endpoint # o
                    \/ \E i \in DOMAIN updates' :
                         /\ updates'[i].endpoint = o /\ updates'[i].feeds = link'[o].subscribed
                         /\ \A j \in DOMAIN updates' : j > i => updates'[j].endpoint # o
  BY DEF ActiveFollowsConnections
<1>6. CASE /\ by_endpoint[o] = link[o].subscribed
           /\ \A i \in DOMAIN updates : updates[i].endpoint # o
  <2>1. updates[1].endpoint # o
    BY <1>4, <1>6
  <2> QED
    BY <1>2, <1>5, <1>6, <2>1
<1>7. CASE \E i \in DOMAIN updates :
             /\ updates[i].endpoint = o /\ updates[i].feeds = link[o].subscribed
             /\ \A j \in DOMAIN updates : j > i => updates[j].endpoint # o
  <2>1. PICK i \in DOMAIN updates :
             /\ updates[i].endpoint = o /\ updates[i].feeds = link[o].subscribed
             /\ \A j \in DOMAIN updates : j > i => updates[j].endpoint # o
    BY <1>7
  <2>2. CASE i = 1
    <3>1. by_endpoint'[o] = link'[o].subscribed
      BY <1>2, <2>1, <2>2
    <3>2. \A j \in DOMAIN updates' : updates'[j].endpoint # o
      BY <1>4, <1>5, <2>1, <2>2
    <3> QED
      BY <3>1, <3>2
  <2>3. CASE i # 1
    <3>1. i - 1 \in DOMAIN updates' /\ updates'[i - 1] = updates[i]
      BY <1>3, <1>4, <2>1, <2>3
    <3>2. \A j \in DOMAIN updates' : j > i - 1 => updates'[j].endpoint # o
      BY <1>4, <1>5, <2>1
    <3> QED
      BY <1>2, <2>1, <3>1, <3>2
  <2> QED
    BY <2>2, <2>3
<1> QED
  BY <1>6, <1>7 DEF ActiveFollowsConnections

\* However connections come and go and the watched set changes, and with any number
\* of endpoints, the last word on each endpoint's feeds is what its connection is
\* subscribed to (lazer_watcher.rs:137 and :208).
THEOREM ActiveIsExact == Spec => []ActiveFollowsConnections
<1>1. Init => ActiveFollowsConnections
  BY DEF Init, ActiveFollowsConnections, Down
<1>2. ActiveFollowsConnections /\ Types /\ [Next]_vars => ActiveFollowsConnections'
  <2> SUFFICES ASSUME ActiveFollowsConnections, Types, [Next]_vars
               PROVE  ActiveFollowsConnections'
    OBVIOUS
  <2>1. current_lazer_ids \in SUBSET Feeds /\ {} \in SUBSET Feeds
    BY PriceAssumption DEF current_lazer_ids
  <2>2. CASE UNCHANGED lazer
    BY <2>2 DEF lazer, ActiveFollowsConnections
  <2>3. CASE UniteNext
    BY <2>3, UniteFollows
  <2>4. ASSUME NEW e \in Endpoints, Connect(e) \/ Resubscribe(e)
        PROVE  ActiveFollowsConnections'
    <3>1. /\ link'[e].subscribed = current_lazer_ids
          /\ \A o \in Endpoints : o # e => link'[o] = link[o]
          /\ updates' = Append(updates, [endpoint |-> e, feeds |-> current_lazer_ids])
          /\ UNCHANGED by_endpoint
      BY <2>4 DEF Connect, Resubscribe, publish_active_feeds, Types, LazerTypes
    <3> QED
      BY <2>1, <3>1, UpdateFollows
  <2>5. ASSUME NEW e \in Endpoints, Retire(e)
        PROVE  ActiveFollowsConnections'
    <3>1. /\ link'[e].subscribed = {}
          /\ \A o \in Endpoints : o # e => link'[o] = link[o]
          /\ updates' = Append(updates, [endpoint |-> e, feeds |-> {}])
          /\ UNCHANGED by_endpoint
      BY <2>5 DEF Retire, Retract, publish_active_feeds, Down, Types, LazerTypes
    <3> QED
      BY <2>1, <3>1, UpdateFollows
  <2>6. ASSUME NEW e \in Endpoints, Drop(e)
        PROVE  ActiveFollowsConnections'
    <3>1. \A o \in Endpoints : link'[o].subscribed = link[o].subscribed
      BY <2>6 DEF Drop, Types, LazerTypes
    <3>2. UNCHANGED <<updates, by_endpoint>>
      BY <2>6 DEF Drop
    <3> QED
      BY <3>1, <3>2 DEF ActiveFollowsConnections
  <2>7. CASE UNCHANGED vars
    BY <2>2, <2>7 DEF vars, lazer
  <2> QED
    BY <2>2, <2>3, <2>4, <2>5, <2>6, <2>7, TwoSides DEF LazerStep
<1> QED
  BY <1>1, <1>2, TypesKept, PTL DEF Spec

-----------------------------------------------------------------------------
(* Streamed prices are acted on only while fresh                            *)

\* With the stream on nothing is polled, and the age of every snapshot is the time
\* since its price was received.
AgeIsHeld(snap) == snap.age = snap.held
Streamed ==
    mode = "on" =>
        /\ polling = {} /\ \A f \in Feeds : local_prices[f] = None
        /\ \A f \in Feeds : cache[f] # None => AgeIsHeld(cache[f])
        /\ \A event \in eval.to_fire \cup channel : AgeIsHeld(event.snapshot)

\* Every step keeps age and time of receipt together.
LEMMA StreamedStep ==
    ASSUME Types, Streamed, [Next]_vars
    PROVE  Streamed'
<1> SUFFICES ASSUME mode' = "on"
             PROVE  /\ polling' = {} /\ \A f \in Feeds : local_prices'[f] = None
                    /\ \A f \in Feeds : cache'[f] # None => AgeIsHeld(cache'[f])
                    /\ \A event \in eval'.to_fire \cup channel' : AgeIsHeld(event.snapshot)
  BY DEF Streamed, AgeIsHeld
<1>1. mode' = mode
  BY DEF Next, vars, Tick, Rewatch, Poll, PollStart, PollFetch, PollFail, Evaluator, EvalWake,
         Evaluate, Emit, Take, Publish, SseDeliver, LazerDeliver, UniteNext, Connect,
         Resubscribe, Drop, Retire
<1>2. /\ polling = {} /\ \A f \in Feeds : local_prices[f] = None
      /\ \A f \in Feeds : cache[f] # None => AgeIsHeld(cache[f])
      /\ \A event \in eval.to_fire \cup channel : AgeIsHeld(event.snapshot)
  BY <1>1 DEF Streamed
<1>3. CASE UNCHANGED watchers /\ UNCHANGED channel
  BY <1>2, <1>3 DEF watchers, AgeIsHeld
<1>4. CASE Tick
  <2>1. \A snap \in Snapshots : AgeIsHeld(snap) => AgeIsHeld([snap EXCEPT !.age = Older(@), !.held = Older(@)])
    BY DEF AgeIsHeld, Snapshots
  <2>2. \A snap \in Snapshots : AgeIsHeld(snap) => AgeIsHeld(AgedSnapshot(snap))
    BY <2>1 DEF AgedSnapshot
  <2>3. \A f \in Feeds : cache'[f] # None => AgeIsHeld(cache'[f])
    <3> SUFFICES ASSUME NEW f \in Feeds, cache'[f] # None PROVE AgeIsHeld(cache'[f])
      OBVIOUS
    <3>1. cache'[f] = AgedSnapshot(cache[f]) /\ cache[f] # None
      BY <1>4 DEF Tick, AgedSnapshot
    <3>2. cache[f] \in Snapshots
      BY <3>1 DEF Types, PriceTypes
    <3> QED
      BY <1>2, <2>2, <3>1, <3>2
  <2>4. ASSUME NEW events \in SUBSET Events, \A event \in events : AgeIsHeld(event.snapshot)
        PROVE  \A event \in AgedEvents(events) : AgeIsHeld(event.snapshot)
    <3> SUFFICES ASSUME NEW e \in events
                 PROVE  AgeIsHeld([e EXCEPT !.snapshot = AgedSnapshot(@)].snapshot)
      BY DEF AgedEvents
    <3>1. e \in Events /\ e.snapshot \in Snapshots
      BY DEF Events
    <3>2. [e EXCEPT !.snapshot = AgedSnapshot(@)].snapshot = AgedSnapshot(e.snapshot)
      BY <3>1 DEF Events
    <3> QED
      BY <2>2, <2>4, <3>1, <3>2
  <2>5. /\ eval'.to_fire = AgedEvents(eval.to_fire) /\ channel' = AgedEvents(channel)
        /\ eval.to_fire \in SUBSET Events /\ channel \in SUBSET Events
    BY <1>4 DEF Tick, Types, PriceTypes
  <2>6. \A event \in eval'.to_fire : AgeIsHeld(event.snapshot)
    BY <1>2, <2>4, <2>5
  <2>7. \A event \in channel' : AgeIsHeld(event.snapshot)
    BY <1>2, <2>4, <2>5
  <2>8. polling' = {} /\ \A f \in Feeds : local_prices'[f] = None
    BY <1>2, <1>4 DEF Tick, Aged
  <2> QED
    BY <2>3, <2>6, <2>7, <2>8
<1>5. CASE Rewatch \/ EvalWake
  BY <1>2, <1>5 DEF Rewatch, EvalWake, AgeIsHeld
<1>6. CASE Poll
  BY <1>1, <1>2, <1>6 DEF Poll, PollStart, PollFetch, PollFail
<1>7. ASSUME NEW f \in Feeds, SseDeliver(f) \/ \E e \in Endpoints : LazerDeliver(e, f)
      PROVE  /\ polling' = {} /\ \A g \in Feeds : local_prices'[g] = None
             /\ \A g \in Feeds : cache'[g] # None => AgeIsHeld(cache'[g])
             /\ \A event \in eval'.to_fire \cup channel' : AgeIsHeld(event.snapshot)
  <2>1. PICK snap : /\ AgeIsHeld(snap)
                    /\ cache' = put(f, snap)
                    /\ \/ channel' = channel
                       \/ channel' = channel \cup {[feed |-> f, snapshot |-> snap,
                                                    matches |-> matches(watched, f, snap)]}
                    /\ UNCHANGED <<polling, local_prices, eval>>
    <3>1. \A layer : AgeIsHeld(snapshot(Received(f), layer, 0))
      BY DEF AgeIsHeld, snapshot, Received
    <3>2. CASE SseDeliver(f)
      BY <3>1, <3>2 DEF SseDeliver
    <3>3. CASE \E e \in Endpoints : LazerDeliver(e, f)
      BY <3>1, <3>3 DEF LazerDeliver, Sent
    <3> QED
      BY <1>7, <3>2, <3>3
  <2>2. \A g \in Feeds : cache'[g] = cache[g] \/ cache'[g] = snap
    BY <2>1 DEF put, Types, PriceTypes
  <2>3. \A event \in channel' : event \in channel \/ event.snapshot = snap
    BY <2>1
  <2> QED
    BY <1>2, <2>1, <2>2, <2>3
<1>8. CASE Evaluate
  <2>1. \A f \in Crossings : Decide(f) = cache[f] /\ Decide(f) # None /\ f \in Feeds
    BY <1>2 DEF Crossings, Decide
  <2>2. \A event \in eval'.to_fire : \E f \in Crossings : event.snapshot = Decide(f)
    BY <1>8 DEF Evaluate, Types, PriceTypes
  <2>3. \A event \in eval'.to_fire : AgeIsHeld(event.snapshot)
    BY <1>2, <2>1, <2>2
  <2> QED
    BY <1>2, <1>8, <2>3 DEF Evaluate
<1>9. CASE Emit
  <2>1. eval'.to_fire \subseteq eval.to_fire /\ channel' \subseteq channel \cup eval.to_fire
    BY <1>9 DEF Emit, Sent, EvalIdle, Types, PriceTypes
  <2> QED
    BY <1>2, <1>9, <2>1 DEF Emit
<1>10. CASE Take
  BY <1>2, <1>10 DEF Take, watchers
<1>11. CASE LazerStep
  BY <1>3, <1>11, TwoSides
<1>12. ASSUME NEW f \in Feeds, Publish(f)
       PROVE  UNCHANGED watchers /\ UNCHANGED channel
  BY <1>12 DEF Publish
<1>13. CASE UNCHANGED vars
  BY <1>3, <1>13 DEF vars
<1> QED
  BY <1>3, <1>4, <1>5, <1>6, <1>7, <1>8, <1>9, <1>10, <1>11, <1>12, <1>13, TwoSides
     DEF PriceStep, Evaluator

\* With the SSE stream on, the executor acts on no price that was received longer
\* ago than its source allows (executor.rs:236).
THEOREM StreamIsFresh == Spec => []StreamedPricesAreFresh
<1>1. Init => Streamed
  BY DEF Init, Streamed, NoPrices, EvalIdle
<1>2. Types /\ Streamed => StreamedPricesAreFresh
  BY DEF Streamed, StreamedPricesAreFresh, ActsOnFreshPrices, Fresh, AgeIsHeld
<1>3. Types /\ Streamed /\ [Next]_vars => Streamed'
  BY StreamedStep
<1> QED
  BY <1>1, <1>2, <1>3, TypesKept, PTL DEF Spec

-----------------------------------------------------------------------------
(* The channels keep within their capacities                                *)

\* What TypeOK says besides Types.  The channel is finite, so that what its
\* capacity bounds is a number.
Limits ==
    /\ seen \subseteq Rules /\ changes \in 0..MaxChanges
    /\ IsFiniteSet(channel) /\ Cardinality(channel) <= ChannelCap
    /\ Len(updates) <= UpdatesCap

\* The size of a set of events, after a step that leaves the others alone.
ChannelFits == IsFiniteSet(channel) /\ Cardinality(channel) <= ChannelCap

LEMMA Capacities ==
    ChannelCap \in Nat \ {0} /\ UpdatesCap \in Nat \ {0} /\ MaxChanges \in Nat
  BY PriceAssumption DEF PriceAssumption

\* A sender waits for room; ageing and taking events add none.
LEMMA ChannelStaysWithinCap ==
    ASSUME Types, ChannelFits, Next
    PROVE  ChannelFits'
<1>1. ASSUME NEW event, Room, channel' = channel \cup {event}
      PROVE  ChannelFits'
  <2>1. Cardinality(channel) \in Nat /\ Cardinality(channel) < ChannelCap
    BY <1>1, FS_CardinalityType DEF ChannelFits, Room
  <2>2. IsFiniteSet(channel') /\ Cardinality(channel') \in {Cardinality(channel), Cardinality(channel) + 1}
    BY <1>1, FS_AddElement, FS_CardinalityType DEF ChannelFits
  <2> QED
    BY <2>1, <2>2, Capacities DEF ChannelFits
<1>2. CASE Tick
  <2>1. channel' = AgedEvents(channel)
    BY <1>2 DEF Tick
  <2>2. PICK age : age = [e \in channel |-> [e EXCEPT !.snapshot = AgedSnapshot(@)]]
    OBVIOUS
  <2>3. IsFiniteSet(channel') /\ Cardinality(channel') <= Cardinality(channel)
    <3>1. age \in Surjection(channel, channel')
      BY <2>1, <2>2 DEF AgedEvents, Surjection
    <3> QED
      BY <3>1, FS_Surjection DEF ChannelFits
  <2>4. Cardinality(channel) \in Nat /\ Cardinality(channel') \in Nat
    BY <2>3, FS_CardinalityType DEF ChannelFits
  <2> QED
    BY <2>3, <2>4, Capacities DEF ChannelFits
<1>3. CASE Take
  <2>1. PICK event \in channel : channel' = channel \ {event}
    BY <1>3 DEF Take
  <2>2. IsFiniteSet(channel') /\ Cardinality(channel') = Cardinality(channel) - 1
    BY <2>1, FS_RemoveElement DEF ChannelFits
  <2> QED
    BY <2>2, Capacities, FS_CardinalityType DEF ChannelFits
<1>4. ASSUME NEW e \in Endpoints, NEW f \in Feeds, LazerDeliver(e, f)
      PROVE  ChannelFits'
  <2>1. CASE UNCHANGED channel
    BY <2>1 DEF ChannelFits
  <2>2. CASE channel' # channel
    BY <1>1, <1>4, <2>2 DEF LazerDeliver, Sent
  <2> QED
    BY <2>1, <2>2
<1>5. CASE Emit
  <2>1. CASE UNCHANGED channel
    BY <2>1 DEF ChannelFits
  <2>2. CASE channel' # channel
    BY <1>1, <1>5, <2>2 DEF Emit, Sent
  <2> QED
    BY <2>1, <2>2
<1>6. CASE UNCHANGED channel
  BY <1>6 DEF ChannelFits
<1> QED
  BY <1>2, <1>3, <1>4, <1>5, <1>6 DEF Next, Rewatch, Publish, SseDeliver, Poll, PollStart,
     PollFetch, PollFail, Connect, Resubscribe, Drop, Retire, UniteNext, Evaluator, EvalWake,
     Evaluate

\* The other sender waits as well: for the channel of active-feed updates.
LEMMA UpdatesStayWithinCap ==
    ASSUME Types, Len(updates) <= UpdatesCap, Next
    PROVE  Len(updates') <= UpdatesCap
<1>0. Len(updates) \in Nat /\ UpdatesCap \in Nat /\ updates \in Seq([endpoint : Endpoints, feeds : SUBSET Feeds])
  BY Capacities DEF Types, LazerTypes
<1>1. CASE UNCHANGED updates
  BY <1>1
<1>2. ASSUME NEW e \in Endpoints, NEW feeds, publish_active_feeds(e, feeds)
      PROVE  Len(updates') <= UpdatesCap
  <2>1. Len(updates) < UpdatesCap /\ Len(updates') = Len(updates) + 1
    BY <1>0, <1>2 DEF publish_active_feeds
  <2> QED
    BY <1>0, <2>1
<1>3. CASE UniteNext
  <2>1. updates # <<>> /\ updates' = Tail(updates)
    BY <1>3 DEF UniteNext
  <2>2. Len(updates') = Len(updates) - 1
    BY <1>0, <2>1
  <2> QED
    BY <1>0, <2>2
<1>4. ASSUME NEW e \in Endpoints, Connect(e) \/ Resubscribe(e) \/ Drop(e) \/ Retire(e)
      PROVE  Len(updates') <= UpdatesCap
  BY <1>1, <1>2, <1>4 DEF Connect, Resubscribe, Drop, Retire, Retract
<1>5. CASE UNCHANGED lazer
  BY <1>1, <1>5 DEF lazer
<1> QED
  BY <1>3, <1>4, <1>5, TwoSides DEF LazerStep

\* What has been seen are watched rules; the bound of the model is kept.
LEMMA SeenRules ==
    ASSUME Types, seen \subseteq Rules, Next
    PROVE  seen' \subseteq Rules
<1>1. ASSUME NEW event \in Events, Sent(event)
      PROVE  seen' \subseteq Rules
  BY <1>1 DEF Sent, Events
<1>2. ASSUME NEW f \in Feeds, Publish(f)
      PROVE  seen' \subseteq Rules
  BY <1>2 DEF Publish
<1>3. ASSUME NEW e \in Endpoints, NEW f \in Feeds, LazerDeliver(e, f)
      PROVE  seen' \subseteq Rules
  <2>1. PICK snap : snap = snapshot(Received(f), "lazer", 0)
    OBVIOUS
  <2>2. snap \in Snapshots
    BY <2>1, ReceivedType DEF Types, Layers
  <2>3. matches(watched, f, snap) \in SUBSET Rules
    BY DEF matches, Types, PriceTypes
  <2>4. PICK event : event = [feed |-> f, matches |-> matches(watched, f, snap), snapshot |-> snap]
    OBVIOUS
  <2>5. event \in Events
    BY <2>2, <2>3, <2>4 DEF Events
  <2>6. UNCHANGED seen \/ Sent(event)
    BY <1>3, <2>1, <2>4 DEF LazerDeliver
  <2> QED
    BY <1>1, <2>5, <2>6
<1>4. CASE Emit
  BY <1>1, <1>4 DEF Emit, Types, PriceTypes
<1>5. CASE UNCHANGED seen
  BY <1>5
<1> QED
  BY <1>2, <1>3, <1>4, <1>5 DEF Next, Tick, Take, Rewatch, SseDeliver, Poll, PollStart,
     PollFetch, PollFail, Connect, Resubscribe, Drop, Retire, UniteNext, Evaluator, EvalWake,
     Evaluate

LEMMA ChangesCounted ==
    ASSUME changes \in 0..MaxChanges, Next
    PROVE  changes' \in 0..MaxChanges
<1>1. CASE changes < MaxChanges /\ changes' = changes + 1
  BY <1>1, Capacities
<1>2. CASE UNCHANGED changes
  BY <1>2
<1> QED
  BY <1>1, <1>2 DEF Next, Tick, Take, Rewatch, Publish, SseDeliver, Poll, PollStart, PollFetch,
     PollFail, Connect, Resubscribe, Drop, Retire, UniteNext, Evaluator, EvalWake, Evaluate,
     Emit, LazerDeliver

\* TypeOK (PriceTriggers): whoever sends, a full channel holds the sender up, so that
\* neither the trigger channel nor the channel of active-feed updates ever holds more
\* than its capacity, for any capacities and any number of endpoints
\* (price_watcher.rs and lazer_watcher.rs, the awaits on trigger_tx.send and
\* active_feeds_tx.send).
THEOREM ChannelsWithinCapacity == Spec => []TypeOK
<1>1. Init => Limits
  <2> SUFFICES ASSUME Init PROVE Limits
    OBVIOUS
  <2>1. channel = {} /\ seen = {} /\ changes = 0 /\ updates = <<>>
    BY DEF Init
  <2>2. IsFiniteSet({}) /\ Cardinality({}) = 0 /\ Len(<<>>) = 0
    BY FS_EmptySet
  <2> QED
    BY <2>1, <2>2, Capacities DEF Limits
<1>2. Types /\ Limits /\ [Next]_vars => Limits'
  <2> SUFFICES ASSUME Types, Limits, [Next]_vars PROVE Limits'
    OBVIOUS
  <2>1. CASE Next
    <3>1. ChannelFits'
      BY <2>1, ChannelStaysWithinCap DEF Limits, ChannelFits
    <3>2. Len(updates') <= UpdatesCap
      BY <2>1, UpdatesStayWithinCap DEF Limits
    <3>3. seen' \subseteq Rules /\ changes' \in 0..MaxChanges
      BY <2>1, SeenRules, ChangesCounted DEF Limits
    <3> QED
      BY <3>1, <3>2, <3>3 DEF Limits, ChannelFits
  <2>2. CASE UNCHANGED vars
    BY <2>2 DEF vars, lazer, Limits
  <2> QED
    BY <2>1, <2>2
<1>3. Types /\ Limits => TypeOK
  BY DEF Types, Limits, TypeOK
<1> QED
  BY <1>1, <1>2, <1>3, TypesKept, PTL DEF Spec

=============================================================================
