-------------------------------- MODULE QuoteFlow --------------------------------
(***************************************************************************)
(* From a price to a signal, for one pair of the statistical-arbitrage     *)
(* bot: the Lazer endpoints stream the same updates, PythStream drops the  *)
(* copies, the Hermes snapshot steps in while the stream is silent,        *)
(* QuoteScheduler admits requests for quotes under a token bucket, and the *)
(* quality gate decides whether an answer may reach SignalEngine           *)
(* (pyth-stream.ts, pyth-snapshot.ts, quote-scheduler.ts, rps-budget.ts,   *)
(* quote-quality.ts and onWork of index.ts).                               *)
(*                                                                         *)
(* Time is counted in the units in which the bucket gets one request back. *)
(* A price is the time of its publication; an update of the stream repeats *)
(* the last price under the time at which it was sent.  The market regime  *)
(* and the checks of the quality gate that look at the quote itself are    *)
(* abstracted to whether they let an observation pass.                     *)
(***************************************************************************)
EXTENDS Integers, Sequences, FiniteSets, Functions

CONSTANTS
  Endpoints,    \* the Lazer endpoints
  Sides,        \* the routes of the pair, in the order of its directions
  Capacity,     \* bucketCapacity
  Interval,     \* quoteIntervalMs
  MaxLag,       \* maxPythFreshnessLagMs
  MaxBasisAge,  \* maxBasisAgeMs
  MaxLatency,   \* maxQuoteLatencyMs
  Silence,      \* PYTH_SNAPSHOT_AFTER_SILENCE_MS
  MaxTime,      \* bound: the clock
  MaxUpdates,   \* bound: updates on the way from one endpoint
  MaxProbes     \* bound: snapshots under way

Routes == {Sides[i] : i \in 1..Len(Sides)}

ASSUME FlowAssumption ==
  /\ Sides \in Seq(Routes)
  /\ \A i, j \in 1..Len(Sides) : Sides[i] = Sides[j] => i = j
  /\ {Capacity, Interval, Silence, MaxTime} \subseteq Nat \ {0}
  /\ {MaxLag, MaxBasisAge, MaxLatency, MaxUpdates, MaxProbes} \subseteq Nat

VARIABLES
  now,
  latest,       \* when the last price was published
  wire,         \* per endpoint: updates on the way
  seen,         \* PythStream.seen, of the updates still on the way from somewhere
  lastStream,   \* lastStreamTickAtByPair; 0 is none
  indexed,      \* the pair is in pairConfigs and in the scheduler
  probing,      \* snapshotInFlightByPair
  probes,       \* when each snapshot under way was asked for
  symbols,      \* symbolsPromise
  lastQuoteAt,  \* per route; 0 is none
  tokens,       \* of the bucket
  work,         \* quotes that were asked for and not answered
  granted,      \* requests admitted until the end of each time
  storing       \* observations that passed the gate, while their rows are written

feedVars  == <<latest, wire>>
pairVars  == <<indexed, lastStream>>
probeVars == <<probing, probes, symbols>>
quoteVars == <<lastQuoteAt, tokens, work, granted>>
vars == <<now, feedVars, seen, pairVars, probeVars, quoteVars, storing>>

Times   == 1..MaxTime
Updates == [born: Times, sent: Times]

(* What onObservation is called with: "born" is when the price was          *)
(* published, "observed" is observedAtMs.                                   *)
Observations == [side: Routes, born: Times, observed: Times]

TypeOK ==
  /\ now \in Times /\ latest \in Times
  /\ wire \in [Endpoints -> Seq(Updates)]
  /\ \A e \in Endpoints : Len(wire[e]) <= MaxUpdates
  /\ seen \subseteq Updates
  /\ lastStream \in 0..MaxTime /\ indexed \in BOOLEAN
  /\ probing \in BOOLEAN /\ probes \in Seq(Times) /\ Len(probes) <= MaxProbes
  /\ symbols \in {"none", "loaded", "failed"}
  /\ lastQuoteAt \in [Routes -> 0..MaxTime]
  /\ tokens \in 0..Capacity
  /\ work \subseteq [side: Routes, born: Times, stamp: Times, lag: 0..MaxTime,
                     allow: BOOLEAN, asked: Times]
  /\ granted \in [0..MaxTime -> Nat]
  /\ storing \subseteq Observations

Init ==
  /\ now = 1 /\ latest = 1
  /\ wire = [e \in Endpoints |-> <<>>] /\ seen = {}
  /\ lastStream = 0 /\ indexed = FALSE
  /\ probing = FALSE /\ probes = <<>> /\ symbols = "none"
  /\ lastQuoteAt = [r \in Routes |-> 0]
  /\ tokens = Capacity /\ work = {}
  /\ granted = [t \in 0..MaxTime |-> 0]
  /\ storing = {}

-----------------------------------------------------------------------------
(* Pyth publishes a price. *)
Publish ==
  /\ latest # now /\ latest' = now
  /\ UNCHANGED <<now, wire, seen, pairVars, probeVars, quoteVars, storing>>

(* The stream sends the price under the present time, on the endpoints that *)
(* are connected.                                                           *)
Stream ==
  /\ \E es \in SUBSET Endpoints :
       /\ es # {} /\ \A e \in es : Len(wire[e]) < MaxUpdates
       /\ wire' = [e \in Endpoints |->
                     IF e \in es
                       THEN Append(wire[e], [born |-> latest, sent |-> now])
                       ELSE wire[e]]
  /\ UNCHANGED <<now, latest, seen, pairVars, probeVars, quoteVars, storing>>

(* TokenBucket.refill, which the code does when the bucket is looked at. *)
Refill == tokens' = IF tokens < Capacity THEN tokens + 1 ELSE Capacity

Tick ==
  /\ now < MaxTime /\ now' = now + 1
  /\ Refill
  /\ granted' = [granted EXCEPT ![now'] = granted[now]]
  /\ UNCHANGED <<feedVars, seen, pairVars, probeVars, lastQuoteAt, work, storing>>

-----------------------------------------------------------------------------
(* shouldQuote *)
ShouldQuote(r) == lastQuoteAt[r] = 0 \/ now - lastQuoteAt[r] >= Interval

(* The places, in the order of the directions, of the routes to be quoted. *)
Due == {i \in 1..Len(Sides) : ShouldQuote(Sides[i])}

(* A mutant: the bucket is asked once for all routes. *)
Admitted_together == {Sides[i] : i \in {k \in Due : tokens > 0}}

(* The routes onPriceTick admits: in order, while the bucket has tokens. *)
Admitted ==
  {Sides[i] : i \in {k \in Due : Cardinality({j \in Due : j < k}) < tokens}}

(* A mutant: the bucket is read and not drawn from. *)
QuotePair_free(born, stamp, lag, allow) ==
  /\ granted' = [granted EXCEPT ![now] = @ + Cardinality(Admitted)]
  /\ lastQuoteAt' = [r \in Routes |-> IF r \in Admitted THEN now ELSE lastQuoteAt[r]]
  /\ work' = work \union {[side |-> r, born |-> born, stamp |-> stamp, lag |-> lag,
                           allow |-> allow, asked |-> now] : r \in Admitted}
  /\ UNCHANGED tokens

(* onPriceTick: each route that is admitted asks Jupiter for a quote, which *)
(* carries what the tick said.                                              *)
QuotePair(born, stamp, lag, allow) ==
  /\ tokens' = tokens - Cardinality(Admitted)
  /\ granted' = [granted EXCEPT ![now] = @ + Cardinality(Admitted)]
  /\ lastQuoteAt' = [r \in Routes |-> IF r \in Admitted THEN now ELSE lastQuoteAt[r]]
  /\ work' = work \union {[side |-> r, born |-> born, stamp |-> stamp, lag |-> lag,
                           allow |-> allow, asked |-> now] : r \in Admitted}

(* processPythTick: a stale tick of the stream is dropped, a stale snapshot *)
(* is quoted all the same but may not signal.                               *)
ProcessTick(born, stamp, source) ==
  LET lag   == IF stamp > born THEN stamp - born ELSE 0
      stale == lag > MaxLag
  IN IF ~ indexed \/ (stale /\ source = "stream") THEN UNCHANGED quoteVars
     ELSE QuotePair(born, stamp, lag, ~ stale)

OnTheWay == UNION {Range(wire[e]) : e \in Endpoints}

(* An update arrives: a copy of one that was seen is dropped. *)
Arrive(e) ==
  /\ wire[e] # <<>>
  /\ wire' = [wire EXCEPT ![e] = Tail(@)]
  /\ LET u == Head(wire[e]) IN
     /\ seen' = (seen \union {u}) \intersect OnTheWay'
     /\ IF u \in seen THEN UNCHANGED <<lastStream, quoteVars>>
        ELSE /\ lastStream' = IF indexed THEN now ELSE lastStream
             /\ ProcessTick(u.born, u.sent, "stream")
  /\ UNCHANGED <<now, latest, indexed, probeVars, storing>>

(* The connection of an endpoint breaks, with what is on the way. *)
Lose(e) ==
  /\ wire[e] # <<>> /\ wire' = [wire EXCEPT ![e] = <<>>]
  /\ seen' = seen \intersect OnTheWay'
  /\ UNCHANGED <<now, latest, pairVars, probeVars, quoteVars, storing>>

(* wasSeen, over its limit, forgets the updates it saw longest ago. *)
Forget(u) ==
  /\ u \in seen /\ seen' = seen \ {u}
  /\ UNCHANGED <<now, feedVars, pairVars, probeVars, quoteVars, storing>>

-----------------------------------------------------------------------------
(* shouldProbeSnapshot, of a pair that is not a crypto pair *)
ShouldProbe(last) == last = 0 \/ now - last >= Silence

StartProbe ==
  /\ Len(probes) < MaxProbes
  /\ probes' = Append(probes, now) /\ probing' = TRUE
  /\ UNCHANGED symbols

(* indexPair of a pair that was not known asks for a snapshot at once. *)
IndexPair ==
  /\ ~ indexed /\ indexed' = TRUE
  /\ IF ~ probing /\ ShouldProbe(lastStream) THEN StartProbe ELSE UNCHANGED probeVars
  /\ UNCHANGED <<now, feedVars, seen, lastStream, quoteVars, storing>>

(* unindexPair, with removePair of the scheduler: a snapshot and quotes     *)
(* that are under way are left to themselves.                               *)
UnindexPair ==
  /\ indexed /\ indexed' = FALSE
  /\ lastStream' = 0 /\ probing' = FALSE
  /\ lastQuoteAt' = [r \in Routes |-> 0]
  /\ UNCHANGED <<now, feedVars, seen, probes, symbols, tokens, work, granted, storing>>

(* The snapshot timer. *)
Probe ==
  /\ indexed /\ ~ probing /\ ShouldProbe(lastStream)
  /\ StartProbe
  /\ UNCHANGED <<now, feedVars, seen, pairVars, quoteVars, storing>>

ProbeDone(i) ==
  /\ probes' = [k \in 1..Len(probes) - 1 |-> probes[IF k < i THEN k ELSE k + 1]]
  /\ probing' = FALSE

(* latestForPair answers: the price as Hermes has it now, under the time at *)
(* which it was asked for.                                                  *)
Snapshot(i) ==
  /\ i <= Len(probes) /\ symbols # "failed"
  /\ symbols' = "loaded" /\ ProbeDone(i)
  /\ ProcessTick(latest, probes[i], "snapshot")
  /\ UNCHANGED <<now, feedVars, seen, pairVars, storing>>

(* It has no answer, or throws; when the catalogue of symbols could not be  *)
(* fetched, the rejected promise is what every later probe gets.            *)
ProbeFails(i) ==
  /\ i <= Len(probes) /\ ProbeDone(i)
  /\ symbols' \in IF symbols = "none" THEN {"loaded", "failed"} ELSE {symbols}
  /\ UNCHANGED <<now, feedVars, seen, pairVars, quoteVars, storing>>

-----------------------------------------------------------------------------
(* A mutant: the age of the basis is counted from the request. *)
Eligible_requested(q) ==
  /\ q.lag <= MaxLag
  /\ now - q.asked <= MaxBasisAge
  /\ now - q.asked <= MaxLatency

(* classifyQuoteQuality, of what it knows about time. *)
Eligible(q) ==
  /\ q.lag <= MaxLag
  /\ now - q.stamp <= MaxBasisAge
  /\ now - q.asked <= MaxLatency

(* The quote arrives and is judged, and then the writes of recordQuote are  *)
(* awaited; one that is live-eligible, and whose tick allows signals, is to *)
(* become an observation.                                                   *)
Answer(q) ==
  /\ q \in work /\ work' = work \ {q}
  /\ \E passes \in BOOLEAN :
       storing' = IF Eligible(q) /\ q.allow /\ passes
                    THEN storing \union {[side |-> q.side, born |-> q.born,
                                         observed |-> now]}
                    ELSE storing
  /\ UNCHANGED <<now, feedVars, seen, pairVars, probeVars, lastQuoteAt, tokens, granted>>

(* Jupiter refuses or fails: only the quote's row is written. *)
NoQuote(q) ==
  /\ q \in work /\ work' = work \ {q}
  /\ UNCHANGED <<now, feedVars, seen, pairVars, probeVars, lastQuoteAt, tokens, granted,
                 storing>>

(* The rows are written and SignalEngine gets the observation, whose age is *)
(* not looked at again.                                                     *)
Observe(o) ==
  /\ o \in storing /\ storing' = storing \ {o}
  /\ UNCHANGED <<now, feedVars, seen, pairVars, probeVars, quoteVars>>

(* The database refuses a row: the error is counted, nothing else happens. *)
StoreFails(o) ==
  /\ o \in storing /\ storing' = storing \ {o}
  /\ UNCHANGED <<now, feedVars, seen, pairVars, probeVars, quoteVars>>

Next ==
  \/ Publish \/ Stream \/ Tick \/ IndexPair \/ UnindexPair \/ Probe
  \/ \E e \in Endpoints : Arrive(e) \/ Lose(e)
  \/ \E u \in seen : Forget(u)
  \/ \E i \in 1..MaxProbes : Snapshot(i) \/ ProbeFails(i)
  \/ \E q \in work : Answer(q) \/ NoQuote(q)
  \/ \E o \in storing : Observe(o) \/ StoreFails(o)

Spec == Init /\ [][Next]_vars

-----------------------------------------------------------------------------
(* Whatever the stream, the network, the snapshots and Jupiter delay: when  *)
(* the quote of an observation for SignalEngine was answered - that is, at  *)
(* its observedAtMs - the price it compares with had been published no      *)
(* longer ago than both limits of the quality gate allow together           *)
(* (classifyQuoteQuality, processPythTick).  Of the time the database then  *)
(* takes, before the observation is handed over, it says nothing.           *)
SignalsFresh == \A o \in storing : o.observed - o.born <= MaxLag + MaxBasisAge

(* The gate's limits say how old a basis may be that SignalEngine acts on   *)
(* (maxBasisAgeMs of quote-quality.ts): that would be when it is given the  *)
(* observation.                                                             *)
FreshAtHandOver ==
  [][\A o \in storing : Observe(o) => now - o.born <= MaxLag + MaxBasisAge]_vars

(* In no span of time are more requests admitted than the bucket holds and  *)
(* gets back in it, also when a pair is removed and comes back              *)
(* (QuoteScheduler on the shared RPS budget).                               *)
BudgetHeld ==
  \A a, b \in 1..now :
    a <= b => granted[b] - granted[a - 1] <= Capacity + (b - a)
================================================================================
