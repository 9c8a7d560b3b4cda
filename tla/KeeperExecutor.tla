---------------------------- MODULE KeeperExecutor ----------------------------
(***************************************************************************)
(* How the keeper turns trigger events into transactions                   *)
(* (keeper/src/executor.rs, time_watcher.rs): a task per event that takes  *)
(* its rules oldest first, claims each in the shared Dedupe, builds and    *)
(* sends a transaction, and releases the claim; around it the watchers     *)
(* that emit events, the index that lags behind the chain, and the network *)
(* where a sent transaction lands or expires later.  A rule is identified  *)
(* by its place in the (created_at, nonce) order.                          *)
(***************************************************************************)
EXTENDS Cadence, Sequences, FiniteSets, Functions

CONSTANTS
    Rules,        \* 1..n, oldest first
    TimeRules,    \* the rules with a TimeElapsed trigger
    DueAt,        \* created_at + duration of each of them
    Plans,        \* cadence and minimum interval of each rule
    Correlations, \* correlation ids of price and account events
    CacheSize,    \* RECENT_TRIGGER_CACHE_SIZE
    MaxEvents,    \* bound on the events of a run
    MaxFaults,    \* bound on failing sends and expiring transactions
    MaxTime,      \* bound on the clock
    Preflight,    \* FALSE when Helius Sender is used: no simulation before a send
    Idle

ASSUME ExecutorAssumption ==
    /\ Rules \in SUBSET (Nat \ {0}) /\ IsFiniteSet(Rules)
    /\ TimeRules \subseteq Rules /\ DueAt \in [TimeRules -> Nat]
    /\ Plans \in [Rules -> [cadence : Cadences, min_interval : Nat]]
    /\ CacheSize \in Nat \ {0} /\ MaxEvents \in Nat /\ MaxFaults \in Nat
    /\ MaxTime \in Nat \ {0} /\ Preflight \in BOOLEAN
    /\ Idle \notin {"send", "escalate"}

VARIABLES
    now,
    acct,     \* the rules' accounts: schedule, executions, finished
    watched,  \* the rules in the keeper's index
    time_fired, \* recently_fired of the time watcher
    tasks,    \* one per event, in the order of arrival
    dedupe,
    net,      \* sent transactions of each rule that have not landed or expired
    claims,   \* history: every claim that was granted
    faults

vars == <<now, acct, watched, time_fired, tasks, dedupe, net, claims, faults>>

Tasks == DOMAIN tasks

-----------------------------------------------------------------------------
(* Dedupe                                                                   *)

\* recent_triggers holds exactly the members of recent_order.
recent_triggers == Range(dedupe.recent_order)

\* Seeded fault: a rule that is being sent is claimed again.
MayClaim_racing(r, corr) ==
    r \notin dedupe.terminal_fired /\ <<r, corr>> \notin recent_triggers

MayClaim(r, corr) ==
    /\ r \notin dedupe.terminal_fired
    /\ <<r, corr>> \notin recent_triggers
    /\ r \notin dedupe.in_flight

\* Seeded faults: the cache never evicts; it evicts one entry early.
Remember_all(order, key) == Append(order, key)
Remember_short(order, key) ==
    LET longer == Append(order, key)
    IN  IF Len(longer) >= CacheSize THEN Tail(longer) ELSE longer

\* A granted claim enters the cache, which forgets its oldest entries.
Remember(order, key) ==
    LET longer == Append(order, key)
    IN  IF Len(longer) > CacheSize THEN Tail(longer) ELSE longer

claimed(r, corr) ==
    [dedupe EXCEPT !.recent_order = Remember(@, <<r, corr>>),
                   !.in_flight = @ \cup {r}]

release_success(r) == [dedupe EXCEPT !.in_flight = @ \ {r}]

\* Seeded fault: only a terminal failure clears the claim.
release_leaky(r, treat_as_done) ==
    IF treat_as_done
    THEN [dedupe EXCEPT !.in_flight = @ \ {r}, !.terminal_fired = @ \cup {r}]
    ELSE dedupe

release_failure(r, treat_as_done) ==
    [dedupe EXCEPT !.in_flight = @ \ {r},
                   !.terminal_fired = IF treat_as_done THEN @ \cup {r} ELSE @]

-----------------------------------------------------------------------------
(* Events                                                                   *)

\* sort_matches_for_queue: oldest rule first.
sort_matches_for_queue(ms) ==
    CHOOSE s \in [1..Cardinality(ms) -> ms] : \A i, j \in DOMAIN s : i < j => s[i] < s[j]

\* The channel hands each event to a task of its own.
Spawn(ms, corr) ==
    /\ Len(tasks) < MaxEvents
    /\ tasks' = Append(tasks, [queue |-> sort_matches_for_queue(ms), corr |-> corr,
                               stage |-> Idle])

\* A price or account watcher sees a crossing for some rules.  The same crossing
\* may be seen by two feeds, so a correlation can come again.
Cross ==
    /\ \E ms \in SUBSET (watched \ TimeRules) \ {{}}, corr \in Correlations : Spawn(ms, corr)
    /\ UNCHANGED <<now, acct, watched, time_fired, dedupe, net, claims, faults>>

\* time_watcher: every due rule it has not emitted before, in one event.
ScanTime ==
    LET active == watched \cap TimeRules
        fresh  == IF active = {} THEN {} ELSE time_fired \cap active
        due    == {r \in active : r \notin fresh /\ now >= DueAt[r]}
    IN  /\ time_fired' = fresh \cup due
        /\ IF due = {} THEN UNCHANGED tasks ELSE Spawn(due, <<"time", now>>)
        /\ UNCHANGED <<now, acct, watched, dedupe, net, claims, faults>>

-----------------------------------------------------------------------------
(* The task of an event                                                     *)

Attempt(t, stage) == tasks' = [tasks EXCEPT ![t].stage = stage]
NextMatch(t) == tasks' = [tasks EXCEPT ![t].stage = Idle, ![t].queue = Tail(@)]

Claim(t) ==
    LET r    == Head(tasks[t].queue)
        corr == tasks[t].corr
    IN  /\ tasks[t].stage = Idle /\ tasks[t].queue # <<>>
        /\ IF MayClaim(r, corr)
           THEN /\ dedupe' = claimed(r, corr)
                /\ claims' = Append(claims, [rule |-> r, corr |-> corr, task |-> t])
                /\ Attempt(t, "send")
           ELSE NextMatch(t) /\ UNCHANGED <<dedupe, claims>>
        /\ UNCHANGED <<now, acct, watched, time_fired, net, faults>>

\* With preflight the node runs the instruction first and returns its error.
Rejected(r) ==
    /\ Preflight
    /\ ~is_until_expired(acct[r], now)
    /\ ~check_can_fire(acct[r], now)

\* The transaction is accepted for delivery: that is all the keeper waits for.
Send(t) ==
    LET r == Head(tasks[t].queue)
    IN  /\ tasks[t].stage \in {"send", "escalate"}
        /\ ~Rejected(r)
        /\ net' = [net EXCEPT ![r] = @ + 1]
        /\ dedupe' = release_success(r)
        /\ NextMatch(t)
        /\ UNCHANGED <<now, acct, watched, time_fired, claims, faults>>

\* The handler's own error: AutomationFinished is terminal, an interval not.
SendRejected(t) ==
    LET r == Head(tasks[t].queue)
    IN  /\ tasks[t].stage \in {"send", "escalate"}
        /\ Rejected(r)
        /\ dedupe' = release_failure(r, acct[r].finished)
        /\ NextMatch(t)
        /\ UNCHANGED <<now, acct, watched, time_fired, net, claims, faults>>

\* "blockhash not found": one more attempt with a fresh blockhash and a higher fee.
SendExpired(t) ==
    /\ tasks[t].stage = "send" /\ faults < MaxFaults
    /\ faults' = faults + 1
    /\ Attempt(t, "escalate")
    /\ UNCHANGED <<now, acct, watched, time_fired, dedupe, net, claims>>

\* Any other failure of building, signing or sending gives the rule up for this
\* event, and so does a second expiry.
SendFails(t) ==
    /\ tasks[t].stage \in {"send", "escalate"} /\ faults < MaxFaults
    /\ faults' = faults + 1
    /\ dedupe' = release_failure(Head(tasks[t].queue), FALSE)
    /\ NextMatch(t)
    /\ UNCHANGED <<now, acct, watched, time_fired, net, claims>>

-----------------------------------------------------------------------------
(* The chain and the index                                                  *)

\* The instruction runs when its transaction lands; a refused one has no effect.
Executed(a) ==
    IF is_until_expired(a, now) THEN [a EXCEPT !.finished = TRUE]
    ELSE IF check_can_fire(a, now) THEN advance(a, now) ELSE a

Land(r) ==
    /\ net[r] > 0
    /\ net' = [net EXCEPT ![r] = @ - 1]
    /\ acct' = [acct EXCEPT ![r] = Executed(@)]
    /\ UNCHANGED <<now, watched, time_fired, tasks, dedupe, claims, faults>>

Expire(r) ==
    /\ net[r] > 0 /\ faults < MaxFaults
    /\ faults' = faults + 1
    /\ net' = [net EXCEPT ![r] = @ - 1]
    /\ UNCHANGED <<now, acct, watched, time_fired, tasks, dedupe, claims>>

\* The index drops a finished rule some time after it finished.
Prune(r) ==
    /\ r \in watched /\ acct[r].finished
    /\ watched' = watched \ {r}
    /\ UNCHANGED <<now, acct, time_fired, tasks, dedupe, net, claims, faults>>

Tick ==
    /\ now < MaxTime
    /\ now' = now + 1
    /\ UNCHANGED <<acct, watched, time_fired, tasks, dedupe, net, claims, faults>>

-----------------------------------------------------------------------------

Init ==
    /\ now = 1
    /\ acct = [r \in Rules |->
                 [cadence |-> Plans[r].cadence, min_interval |-> Plans[r].min_interval,
                  executions |-> 0, executed_at |-> 0, finished |-> FALSE]]
    /\ watched = Rules
    /\ time_fired = {}
    /\ tasks = <<>>
    /\ dedupe = [terminal_fired |-> {}, recent_order |-> <<>>, in_flight |-> {}]
    /\ net = [r \in Rules |-> 0]
    /\ claims = <<>>
    /\ faults = 0

TaskStep(t) == Claim(t) \/ Send(t) \/ SendRejected(t) \/ SendExpired(t) \/ SendFails(t)

Next ==
    \/ Cross \/ ScanTime \/ Tick
    \/ \E t \in Tasks : TaskStep(t)
    \/ \E r \in Rules : Land(r) \/ Expire(r) \/ Prune(r)

Spec == Init /\ [][Next]_vars

\* tokio runs every task that can run, the clock and the watcher's interval go on,
\* and a delivered transaction lands or expires.
FairSpec ==
    /\ Spec
    /\ WF_vars(Tick) /\ WF_vars(ScanTime)
    /\ \A t \in 1..MaxEvents : WF_vars(t \in Tasks /\ TaskStep(t))
    /\ \A r \in Rules : WF_vars(Land(r) \/ Expire(r))

-----------------------------------------------------------------------------
(* Properties                                                               *)

\* The types of the state.
TypeOK ==
    /\ now \in 1..MaxTime
    /\ watched \subseteq Rules /\ time_fired \subseteq TimeRules
    /\ \A t \in Tasks : tasks[t].stage \in {Idle, "send", "escalate"}
    /\ dedupe.terminal_fired \subseteq Rules /\ dedupe.in_flight \subseteq Rules
    /\ Len(dedupe.recent_order) <= CacheSize
    /\ net \in [Rules -> 0..MaxEvents]
    /\ faults \in 0..MaxFaults

\* The in-flight set is exactly the rules some task is sending for, and no two
\* tasks send for the same rule: no claim is taken twice, none is left behind by
\* a failed send (try_claim, release_success, release_failure).  A rule the
\* keeper has given up on can really fire no more: a Repeat rule is not trapped
\* after its first fire (the "historical note" on Dedupe).
InFlightExact ==
    LET busy == {t \in Tasks : tasks[t].stage # Idle}
        rule(t) == Head(tasks[t].queue)
    IN  /\ dedupe.in_flight = {rule(t) : t \in busy}
        /\ \A t, u \in busy : rule(t) = rule(u) => t = u
        /\ \A r \in dedupe.terminal_fired : acct[r].finished

\* The same trigger event never claims a rule twice as long as fewer than
\* RECENT_TRIGGER_CACHE_SIZE claims came between: the cache forgets nothing early.
\* And the rules of one event are claimed oldest first, also when events overlap.
ReplayWindow ==
    \A i, j \in DOMAIN claims : i < j =>
        /\ claims[i].rule = claims[j].rule /\ claims[i].corr = claims[j].corr
             => j - i > CacheSize
        /\ claims[i].task = claims[j].task => claims[i].rule < claims[j].rule

\* However sends fail, expire and are refused, every event is worked off and no
\* rule stays claimed.
ClaimsAreReleased ==
    \A r \in Rules : r \in dedupe.in_flight ~> r \notin dedupe.in_flight

\* Dedupe: in_flight "Prevents parallel re-fires while a tx is between sign and
\* confirm", so a rule never has two transactions under way.
OneTransactionAtATime == \A r \in Rules : net[r] <= 1

\* "ix failed (will retry on next trigger)": a time rule whose attempt failed is
\* tried again, so with finitely many failures a due rule does fire.
DueRulesFire ==
    \A r \in TimeRules : now >= DueAt[r] /\ r \in watched ~> acct[r].executions > 0

=============================================================================
