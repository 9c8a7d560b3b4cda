------------------------------ MODULE KeeperIndex ------------------------------
(***************************************************************************)
(* The keeper's index of active rules (keeper/src/indexer.rs): the         *)
(* WatchedSet every watcher reads, kept up to date by three tasks that     *)
(* share it through a watch channel: the lifecycle task that applies one   *)
(* program event at a time (main.rs), the periodic reconcile               *)
(* (indexer::run) and the reconcile after a WebSocket reconnect.  Each     *)
(* reads the chain first and publishes later, so what it publishes may be  *)
(* stale.  The chain itself is reduced to what the index reads of it.      *)
(***************************************************************************)
EXTENDS Naturals, Sequences, FiniteSets

CONSTANTS
    Rules,
    Link,         \* linked_downstream of each rule that has one
    Consumes,     \* the rules with consume_upstream_output
    Total,        \* fires after which each rule is finished
    Keys,         \* watched accounts, feeds and the list of time rules
    WatchKeys,    \* the keys each rule's trigger is filed under
    Old,          \* the rules that exist when the keeper starts
    MaxFaults,    \* bound on WebSocket drops and failing RPC calls together
    None

ASSUME LinkAssumption == DOMAIN Link \subseteq Rules /\ \A r \in DOMAIN Link : Link[r] \in Rules
ASSUME RulesAssumption ==
    /\ IsFiniteSet(Rules)
    /\ Consumes \subseteq Rules /\ Old \subseteq Rules
    /\ Total \in [Rules -> Nat \ {0}]
    /\ WatchKeys \in [Rules -> SUBSET Keys]
ASSUME FaultsAssumption == MaxFaults \in Nat

VARIABLES
    chain,     \* the rules' accounts
    socket,    \* the logs subscription: "down", "opening" or "subscribed"
    logs,      \* events between the program and the lifecycle task
    sentinels, \* reconnects not yet answered by a reconcile
    set,       \* the published WatchedSet
    delta,     \* what the lifecycle task has fetched and not yet applied
    scan,      \* what each reconciler has fetched and not yet published
    faults

vars == <<chain, socket, logs, sentinels, set, delta, scan, faults>>
tasks == <<delta, scan>>

Scanners == {"periodic", "reconnect"}

Active == {r \in Rules : chain[r].st = "open" /\ ~chain[r].finished}

-----------------------------------------------------------------------------
(* The WatchedSet                                                           *)

\* A tail of a chain is armed once a rule that feeds it has fired, as far as
\* the same set of rules shows.
compute_armed(items) ==
    LET fed(r) == \E u \in DOMAIN items :
                     /\ u \in DOMAIN Link /\ Link[u] = r
                     /\ items[u].executions > 0
    IN  [r \in DOMAIN items |->
            [items[r] EXCEPT !.armed = r \in Consumes => fed(r)]]

\* The entries of a bucket are kept by rule: their order across rules plays no
\* part.
insert_ctx(ctx, s) ==
    [by_pubkey |-> [r \in DOMAIN s.by_pubkey \cup {ctx.pubkey} |->
                       IF r = ctx.pubkey THEN ctx ELSE s.by_pubkey[r]],
     triggers  |-> [k \in Keys |-> [r \in Rules |->
                       IF r = ctx.pubkey /\ k \in WatchKeys[r]
                       THEN Append(s.triggers[k][r], ctx)
                       ELSE s.triggers[k][r]]]]

remove_by_pubkey(p, s) ==
    [by_pubkey |-> [r \in DOMAIN s.by_pubkey \ {p} |-> s.by_pubkey[r]],
     triggers  |-> [k \in Keys |-> [s.triggers[k] EXCEPT ![p] = <<>>]]]

\* insert_ctx of every item into a set that is empty.
from_index(items) ==
    [by_pubkey |-> items,
     triggers  |-> [k \in Keys |-> [r \in Rules |->
                       IF r \in DOMAIN items /\ k \in WatchKeys[r]
                       THEN <<items[r]>> ELSE <<>>]]]

\* The flags computed over by_pubkey are copied into every bucket.
recompute_armed(s) ==
    LET items == compute_armed(s.by_pubkey)
    IN  [by_pubkey |-> items,
         triggers  |-> [k \in Keys |-> [r \in Rules |->
             [i \in 1..Len(s.triggers[k][r]) |->
                 [s.triggers[k][r][i] EXCEPT !.armed = items[r].armed]]]]]

\* Seeded fault: the old entry stays.
upsert_only(ctx, s) == insert_ctx(ctx, s)

upsert(ctx, s) == insert_ctx(ctx, remove_by_pubkey(ctx.pubkey, s))

apply_delta(s, d) ==
    CASE d.kind = "upsert" -> recompute_armed(upsert(d.ctx, s))
      [] d.kind = "remove" /\ d.pubkey \in DOMAIN s.by_pubkey ->
            recompute_armed(remove_by_pubkey(d.pubkey, s))
      [] OTHER -> s

\* Seeded fault: only the number of rules is compared.
fingerprint_len(s) == Cardinality(DOMAIN s.by_pubkey)

\* Address, trigger kind, target, quote and source: no instruction edits a
\* trigger, so the addresses decide.
fingerprint(s) == DOMAIN s.by_pubkey

-----------------------------------------------------------------------------
(* The chain and the logs subscription                                      *)

Ctx(r) == [pubkey |-> r, executions |-> chain[r].executions, armed |-> TRUE]

\* Notifications reach only a live subscription.
Emit(evs) == logs' = IF socket = "subscribed" THEN logs \o evs ELSE logs

Create(r) ==
    /\ chain[r].st = "absent"
    /\ chain' = [chain EXCEPT ![r].st = "open"]
    /\ Emit(<<[kind |-> "Created", rule |-> r]>>)
    /\ UNCHANGED <<socket, sentinels, set, tasks, faults>>

\* A swap reports its fill, the last fire also the end.
Fire(r) ==
    LET n    == chain[r].executions + 1
        done == n = Total[r]
    IN  /\ r \in Active
        /\ chain' = [chain EXCEPT ![r].executions = n, ![r].finished = done]
        /\ Emit((IF r \in DOMAIN Link \cup Consumes THEN <<[kind |-> "Filled", rule |-> r]>> ELSE <<>>)
                \o (IF done THEN <<[kind |-> "Finished", rule |-> r]>> ELSE <<>>))
        /\ UNCHANGED <<socket, sentinels, set, tasks, faults>>

\* Closing a rule that had finished before emits nothing the keeper decodes.
Close(r) ==
    /\ chain[r].st = "open"
    /\ chain' = [chain EXCEPT ![r].st = "gone"]
    /\ Emit(IF chain[r].finished THEN <<>> ELSE <<[kind |-> "Finished", rule |-> r]>>)
    /\ UNCHANGED <<socket, sentinels, set, tasks, faults>>

\* A drop loses the notifications that were still in the socket.
Drop ==
    /\ socket # "down" /\ faults < MaxFaults
    /\ socket' = "down"
    /\ faults' = faults + 1
    /\ \E n \in 0..Len(logs) : logs' = SubSeq(logs, 1, n)
    /\ UNCHANGED <<chain, sentinels, set, tasks>>

\* The sentinel goes out as soon as the socket is up, before the program's logs
\* are subscribed to.
Reopen ==
    /\ socket = "down"
    /\ socket' = "opening"
    /\ sentinels' = sentinels + 1
    /\ UNCHANGED <<chain, logs, set, tasks, faults>>

Subscribe ==
    /\ socket = "opening"
    /\ socket' = "subscribed"
    /\ UNCHANGED <<chain, logs, sentinels, set, tasks, faults>>

-----------------------------------------------------------------------------
(* The keeper's tasks                                                       *)

\* An RPC call may fail; every caller logs that and drops the work.
RpcFails == faults < MaxFaults /\ faults' = faults + 1

\* resolve_lifecycle: an event that names a new rule makes the task read its
\* account; a missing account is an error, a finished one a removal.
ResolveCreated(r) ==
    \/ /\ chain[r].st = "open"
       /\ delta' = IF chain[r].finished THEN [kind |-> "remove", pubkey |-> r]
                                        ELSE [kind |-> "upsert", ctx |-> Ctx(r)]
       /\ UNCHANGED faults
    \/ /\ chain[r].st = "gone"
       /\ UNCHANGED <<delta, faults>>
    \/ RpcFails /\ UNCHANGED delta

Resolve ==
    /\ logs # <<>> /\ delta = None
    /\ logs' = Tail(logs)
    /\ LET ev == Head(logs)
       IN  \/ ev.kind = "Created" /\ ResolveCreated(ev.rule)
           \/ /\ ev.kind = "Finished"
              /\ delta' = [kind |-> "remove", pubkey |-> ev.rule]
              /\ UNCHANGED faults
           \/ ev.kind = "Filled" /\ UNCHANGED <<delta, faults>>
    /\ UNCHANGED <<chain, socket, sentinels, set, scan>>

Apply ==
    /\ delta # None
    /\ set' = apply_delta(set, delta)
    /\ delta' = None
    /\ UNCHANGED <<chain, socket, logs, sentinels, scan, faults>>

\* fetch_active: every unfinished account, its flags computed over the lot.
fetch_active == compute_armed([r \in Active |-> Ctx(r)])

\* Seeded fault: the reconnect reconciler does not wait for a sentinel.
AlwaysCalled(who) == TRUE

\* The reconnect reconciler runs once per sentinel, the other on a timer.
Called(who) == who = "reconnect" => sentinels > 0

Fetch(who) ==
    /\ scan[who] = None
    /\ Called(who)
    /\ sentinels' = IF who = "reconnect" THEN sentinels - 1 ELSE sentinels
    /\ \/ scan' = [scan EXCEPT ![who] = [items |-> fetch_active]] /\ UNCHANGED faults
       \/ RpcFails /\ UNCHANGED scan
    /\ UNCHANGED <<chain, socket, logs, set, delta>>

Publish(who) ==
    /\ scan[who] # None
    /\ LET new_set == from_index(scan[who].items)
       IN  set' = IF fingerprint(new_set) = fingerprint(set) THEN set ELSE new_set
    /\ scan' = [scan EXCEPT ![who] = None]
    /\ UNCHANGED <<chain, socket, logs, sentinels, delta, faults>>

-----------------------------------------------------------------------------

\* The keeper starts, seeded by a scan, on a chain that may hold rules already.
Init ==
    /\ chain = [r \in Rules |-> [st |-> IF r \in Old THEN "open" ELSE "absent",
                                 executions |-> 0, finished |-> FALSE]]
    /\ socket = "down"
    /\ logs = <<>>
    /\ sentinels = 0
    /\ set = from_index(fetch_active)
    /\ delta = None
    /\ scan = [who \in Scanners |-> None]
    /\ faults = 0

Next ==
    \/ \E r \in Rules : Create(r) \/ Fire(r) \/ Close(r)
    \/ Drop \/ Reopen \/ Subscribe
    \/ Resolve \/ Apply
    \/ \E who \in Scanners : Fetch(who) \/ Publish(who)

Spec == Init /\ [][Next]_vars

\* The timer keeps ticking and tokio runs every task that can run; RPC calls
\* fail only MaxFaults times.
FairSpec ==
    /\ Spec
    /\ WF_vars(Resolve) /\ WF_vars(Apply)
    /\ \A who \in Scanners : WF_vars(Fetch(who)) /\ WF_vars(Publish(who))

-----------------------------------------------------------------------------
(* Properties                                                               *)

Ctxs == [pubkey : Rules, executions : Nat, armed : BOOLEAN]

\* The types of the state.
TypeOK ==
    /\ chain \in [Rules -> [st : {"absent", "open", "gone"}, executions : Nat,
                            finished : BOOLEAN]]
    /\ socket \in {"down", "opening", "subscribed"}
    /\ \A i \in DOMAIN logs :
          logs[i] \in [kind : {"Created", "Filled", "Finished"}, rule : Rules]
    /\ sentinels \in 0..(MaxFaults + 1)
    /\ DOMAIN set.by_pubkey \subseteq Rules
    /\ \A r \in DOMAIN set.by_pubkey : set.by_pubkey[r] \in Ctxs /\ set.by_pubkey[r].pubkey = r
    /\ faults \in 0..MaxFaults

\* Whatever mix of deltas and snapshots was applied, a rule is filed exactly once
\* under each of its keys, under no other, and every copy equals the one in
\* by_pubkey: the watchers that read the buckets and those that read by_pubkey
\* see the same rules with the same flags, which are always those of the
\* published set (insert_ctx, remove_by_pubkey, recompute_armed).
BucketsAgree ==
    \A k \in Keys, r \in Rules :
        set.triggers[k][r] =
            IF r \in DOMAIN set.by_pubkey /\ k \in WatchKeys[r]
            THEN <<set.by_pubkey[r]>> ELSE <<>>

IndexesAgree == BucketsAgree /\ compute_armed(set.by_pubkey) = set.by_pubkey

\* Lost notifications, failed calls, drops and stale publications are repaired:
\* once the rules stop changing, the index holds exactly the active ones.
Converges == <>[](DOMAIN set.by_pubkey = Active)

\* indexer.rs, compute_armed: a tail rule is kept back "until the upstream
\* actually fires", so after that fire it is armed, or it has ended.
UpstreamArms ==
    \A u \in DOMAIN Link :
        LET d == Link[u]
        IN  chain[u].executions > 0 /\ d \in Active ~>
              \/ d \notin Active
              \/ d \in DOMAIN set.by_pubkey /\ set.by_pubkey[d].armed

=============================================================================
