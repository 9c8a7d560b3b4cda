-------------------------- MODULE KeeperIndex_proofs --------------------------
(***************************************************************************)
(* The index of active rules for any rules, links, keys and faults: what   *)
(* the tasks share is well formed, and its parts always agree.             *)
(***************************************************************************)
EXTENDS KeeperIndex, TLAPS

(* Rules by their addresses, each entry under its own. *)
Items(items) ==
  /\ items \in [DOMAIN items -> Ctxs] /\ DOMAIN items \subseteq Rules
  /\ \A r \in DOMAIN items : items[r].pubkey = r

(* Whether the items show a fire of a rule that feeds r, and its flag. *)
FedBy(items, r) ==
  \E u \in DOMAIN items : u \in DOMAIN Link /\ Link[u] = r /\ items[u].executions > 0
Flag(items, r) == r \in Consumes => FedBy(items, r)

LEMMA ArmedIs ==
  ASSUME NEW items
  PROVE  compute_armed(items) =
           [r \in DOMAIN items |-> [items[r] EXCEPT !.armed = Flag(items, r)]]
  BY DEF compute_armed, Flag, FedBy

LEMMA FlagSame ==
  ASSUME NEW a, NEW b, DOMAIN a = DOMAIN b,
         \A r \in DOMAIN a : a[r].executions = b[r].executions, NEW r
  PROVE  Flag(a, r) = Flag(b, r) /\ Flag(a, r) \in BOOLEAN
  BY DEF Flag, FedBy

LEMMA ArmedEntry ==
  ASSUME NEW items, Items(items), NEW r \in DOMAIN items
  PROVE  /\ compute_armed(items)[r] \in Ctxs
         /\ compute_armed(items)[r].pubkey = r
         /\ compute_armed(items)[r].executions = items[r].executions
         /\ compute_armed(items)[r].armed = Flag(items, r)
         /\ compute_armed(items)[r] = [items[r] EXCEPT !.armed = Flag(items, r)]
  <1>1. items[r] \in Ctxs /\ items[r].pubkey = r
    BY DEF Items
  <1>2. Flag(items, r) \in BOOLEAN
    BY DEF Flag, FedBy
  <1>3. compute_armed(items)[r] = [items[r] EXCEPT !.armed = Flag(items, r)]
    BY ArmedIs
  <1> QED BY <1>1, <1>2, <1>3 DEF Ctxs

LEMMA ArmedItems ==
  ASSUME NEW items, Items(items)
  PROVE  Items(compute_armed(items)) /\ DOMAIN compute_armed(items) = DOMAIN items
  <1>1. PICK once : once = compute_armed(items)
    OBVIOUS
  <1>2. once = [r \in DOMAIN items |-> once[r]] /\ DOMAIN once = DOMAIN items
    BY <1>1 DEF compute_armed
  <1>3. \A r \in DOMAIN items : once[r] \in Ctxs /\ once[r].pubkey = r
    BY <1>1, ArmedEntry
  <1>4. Items(once)
    BY <1>2, <1>3 DEF Items
  <1> QED BY <1>1, <1>2, <1>4

(* What is computed from the executions alone does not change when it is    *)
(* computed again.                                                          *)
LEMMA ArmedAgain ==
  ASSUME NEW items, Items(items)
  PROVE  compute_armed(compute_armed(items)) = compute_armed(items)
  <1>1. PICK once : once = compute_armed(items)
    OBVIOUS
  <1>2. Items(once) /\ DOMAIN once = DOMAIN items
    BY <1>1, ArmedItems
  <1>3. \A r \in DOMAIN items : /\ once[r].executions = items[r].executions
                                /\ once[r].armed = Flag(items, r)
    BY <1>1, ArmedEntry
  <1>4. PICK twice : twice = compute_armed(once)
    OBVIOUS
  <1>5. DOMAIN twice = DOMAIN once /\ twice = [r \in DOMAIN once |-> twice[r]]
    BY <1>4, ArmedIs
  <1>6. \A r \in DOMAIN once : twice[r] = once[r]
    <2>1. TAKE r \in DOMAIN once
    <2>2. Flag(once, r) = Flag(items, r)
      BY <1>2, <1>3, FlagSame
    <2>3. twice[r] = [once[r] EXCEPT !.armed = once[r].armed]
      BY <1>2, <1>3, <1>4, <2>2, ArmedIs
    <2>4. once[r] \in Ctxs
      BY <1>2 DEF Items
    <2> QED BY <2>3, <2>4 DEF Ctxs
  <1>7. once = [r \in DOMAIN once |-> once[r]]
    BY <1>2 DEF Items
  <1>8. twice = once
    BY <1>5, <1>6, <1>7
  <1> QED BY <1>1, <1>4, <1>8

-----------------------------------------------------------------------------
(* Buckets                                                                  *)

Filed(s) ==
  /\ s.triggers \in [Keys -> [Rules -> Seq(Ctxs)]]
  /\ \A k \in Keys, r \in Rules :
        s.triggers[k][r] = IF r \in DOMAIN s.by_pubkey /\ k \in WatchKeys[r]
                           THEN <<s.by_pubkey[r]>> ELSE <<>>

(* A set that is well formed but whose flags may be out of date. *)
WellFiled(s) == Items(s.by_pubkey) /\ Filed(s)

(* A set that is as it is published. *)
Agrees(s) == WellFiled(s) /\ compute_armed(s.by_pubkey) = s.by_pubkey

LEMMA BucketTypes ==
  ASSUME NEW f, f = [k \in Keys |-> f[k]],
         \A k \in Keys : f[k] = [r \in Rules |-> f[k][r]],
         \A k \in Keys, r \in Rules : f[k][r] \in Seq(Ctxs)
  PROVE  f \in [Keys -> [Rules -> Seq(Ctxs)]]
  <1>1. \A k \in Keys : f[k] \in [Rules -> Seq(Ctxs)]
    OBVIOUS
  <1> QED BY <1>1

LEMMA FromItems ==
  ASSUME NEW items, Items(items)
  PROVE  WellFiled(from_index(items)) /\ from_index(items).by_pubkey = items
  <1>1. from_index(items).by_pubkey = items
    BY DEF from_index
  <1>2. from_index(items).triggers =
          [k \in Keys |-> [r \in Rules |->
             IF r \in DOMAIN items /\ k \in WatchKeys[r] THEN <<items[r]>> ELSE <<>>]]
    BY DEF from_index
  <1>3. \A k \in Keys, r \in Rules :
          (IF r \in DOMAIN items /\ k \in WatchKeys[r] THEN <<items[r]>> ELSE <<>>) \in Seq(Ctxs)
    BY DEF Items
  <1>4. from_index(items).triggers \in [Keys -> [Rules -> Seq(Ctxs)]]
    BY <1>2, <1>3
  <1> QED BY <1>1, <1>2, <1>4 DEF WellFiled, Filed

LEMMA WithoutRule ==
  ASSUME NEW s, WellFiled(s), NEW p \in Rules
  PROVE  /\ WellFiled(remove_by_pubkey(p, s))
         /\ p \notin DOMAIN remove_by_pubkey(p, s).by_pubkey
  <1>1. PICK t : t = remove_by_pubkey(p, s)
    OBVIOUS
  <1>2. t.by_pubkey = [r \in DOMAIN s.by_pubkey \ {p} |-> s.by_pubkey[r]]
    BY <1>1 DEF remove_by_pubkey
  <1>3. t.triggers = [k \in Keys |-> [s.triggers[k] EXCEPT ![p] = <<>>]]
    BY <1>1 DEF remove_by_pubkey
  <1>4. Items(t.by_pubkey) /\ p \notin DOMAIN t.by_pubkey
    BY <1>2 DEF WellFiled, Items
  <1>5. \A k \in Keys : s.triggers[k] \in [Rules -> Seq(Ctxs)]
    BY DEF WellFiled, Filed
  <1>6. \A k \in Keys : [s.triggers[k] EXCEPT ![p] = <<>>] \in [Rules -> Seq(Ctxs)]
    BY <1>5
  <1>7. \A k \in Keys, r \in Rules :
          t.triggers[k][r] = IF r = p THEN <<>> ELSE s.triggers[k][r]
    BY <1>3, <1>5
  <1>8. t.triggers \in [Keys -> [Rules -> Seq(Ctxs)]]
    BY <1>3, <1>6
  <1>9. Filed(t)
    <2>1. \A k \in Keys, r \in Rules :
            s.triggers[k][r] = IF r \in DOMAIN s.by_pubkey /\ k \in WatchKeys[r]
                               THEN <<s.by_pubkey[r]>> ELSE <<>>
      BY DEF WellFiled, Filed
    <2> QED BY <1>2, <1>7, <1>8, <2>1 DEF Filed
  <1> QED BY <1>1, <1>4, <1>9 DEF WellFiled

LEMMA WithRule ==
  ASSUME NEW s, WellFiled(s), NEW ctx \in Ctxs, ctx.pubkey \notin DOMAIN s.by_pubkey
  PROVE  WellFiled(insert_ctx(ctx, s))
  <1>0. PICK p \in Rules : p = ctx.pubkey
    BY DEF Ctxs
  <1>1. PICK t : t = insert_ctx(ctx, s)
    OBVIOUS
  <1>2. t.by_pubkey = [r \in DOMAIN s.by_pubkey \cup {p} |->
                         IF r = p THEN ctx ELSE s.by_pubkey[r]]
    BY <1>0, <1>1 DEF insert_ctx
  <1>3. t.triggers = [k \in Keys |-> [r \in Rules |->
                         IF r = p /\ k \in WatchKeys[r]
                         THEN Append(s.triggers[k][r], ctx) ELSE s.triggers[k][r]]]
    BY <1>0, <1>1 DEF insert_ctx
  <1>4. Items(t.by_pubkey)
    BY <1>0, <1>2 DEF WellFiled, Items
  <1>5. \A k \in Keys, r \in Rules :
          /\ s.triggers[k][r] \in Seq(Ctxs)
          /\ s.triggers[k][r] = IF r \in DOMAIN s.by_pubkey /\ k \in WatchKeys[r]
                                THEN <<s.by_pubkey[r]>> ELSE <<>>
    BY DEF WellFiled, Filed
  <1>6. \A k \in Keys, r \in Rules :
          IF r = p /\ k \in WatchKeys[r]
          THEN Append(s.triggers[k][r], ctx) = <<ctx>> /\ <<ctx>> \in Seq(Ctxs)
          ELSE s.triggers[k][r] \in Seq(Ctxs)
    <2>1. TAKE k \in Keys, r \in Rules
    <2>2. Append(<<>>, ctx) = <<ctx>> /\ <<ctx>> \in Seq(Ctxs)
      OBVIOUS
    <2>3. r = p => s.triggers[k][r] = <<>>
      BY <1>0, <1>5
    <2> QED BY <1>5, <2>2, <2>3
  <1>7. t.triggers \in [Keys -> [Rules -> Seq(Ctxs)]]
    <2>1. PICK f : f = t.triggers
      OBVIOUS
    <2>2. f = [k \in Keys |-> f[k]] /\ \A k \in Keys : f[k] = [r \in Rules |-> f[k][r]]
      BY <1>3, <2>1
    <2>3. ASSUME NEW k \in Keys, NEW r \in Rules PROVE f[k][r] \in Seq(Ctxs)
      <3>1. f[k][r] = IF r = p /\ k \in WatchKeys[r]
                      THEN Append(s.triggers[k][r], ctx) ELSE s.triggers[k][r]
        BY <1>3, <2>1
      <3>2. CASE r = p /\ k \in WatchKeys[r]
        <4>1. Append(s.triggers[k][r], ctx) \in Seq(Ctxs)
          BY <1>6, <3>2
        <4> QED BY <3>1, <3>2, <4>1
      <3>3. CASE ~ (r = p /\ k \in WatchKeys[r])
        <4>1. s.triggers[k][r] \in Seq(Ctxs)
          BY <1>6, <3>3
        <4> QED BY <3>1, <3>3, <4>1
      <3> QED BY <3>2, <3>3
    <2>4. f \in [Keys -> [Rules -> Seq(Ctxs)]]
      BY <2>2, <2>3, BucketTypes
    <2> QED BY <2>1, <2>4
  <1>8. \A k \in Keys, r \in Rules :
          t.triggers[k][r] = IF r \in DOMAIN t.by_pubkey /\ k \in WatchKeys[r]
                             THEN <<t.by_pubkey[r]>> ELSE <<>>
    <2>1. TAKE k \in Keys, r \in Rules
    <2>2. t.triggers[k][r] = IF r = p /\ k \in WatchKeys[r] THEN <<ctx>> ELSE s.triggers[k][r]
      BY <1>3, <1>6
    <2> QED BY <1>2, <1>5, <2>2
  <1> QED BY <1>1, <1>4, <1>7, <1>8 DEF WellFiled, Filed

(* The copies in the buckets get the flags of the published items. *)
LEMMA Rearmed ==
  ASSUME NEW s, WellFiled(s)
  PROVE  Agrees(recompute_armed(s))
  <1>1. PICK items : items = compute_armed(s.by_pubkey)
    OBVIOUS
  <1>2. PICK t : t = recompute_armed(s)
    OBVIOUS
  <1>3. t.by_pubkey = items
    BY <1>1, <1>2 DEF recompute_armed
  <1>4. t.triggers = [k \in Keys |-> [r \in Rules |->
                        [i \in 1..Len(s.triggers[k][r]) |->
                           [s.triggers[k][r][i] EXCEPT !.armed = items[r].armed]]]]
    BY <1>1, <1>2 DEF recompute_armed
  <1>5. Items(s.by_pubkey)
    BY DEF WellFiled
  <1>6. Items(items) /\ DOMAIN items = DOMAIN s.by_pubkey /\ compute_armed(items) = items
    BY <1>1, <1>5, ArmedItems, ArmedAgain
  <1>7. \A r \in DOMAIN items : items[r] = [s.by_pubkey[r] EXCEPT !.armed = items[r].armed]
                                /\ items[r] \in Ctxs
    <2>1. TAKE r \in DOMAIN items
    <2>2. r \in DOMAIN s.by_pubkey
      BY <1>6
    <2>3. /\ compute_armed(s.by_pubkey)[r] \in Ctxs
          /\ compute_armed(s.by_pubkey)[r].armed = Flag(s.by_pubkey, r)
          /\ compute_armed(s.by_pubkey)[r] = [s.by_pubkey[r] EXCEPT !.armed = Flag(s.by_pubkey, r)]
      BY <1>5, <2>2, ArmedEntry
    <2> QED BY <1>1, <2>3
  <1>8. \A k \in Keys, r \in Rules :
          s.triggers[k][r] = IF r \in DOMAIN items /\ k \in WatchKeys[r]
                             THEN <<s.by_pubkey[r]>> ELSE <<>>
    BY <1>6 DEF WellFiled, Filed
  <1>9. \A k \in Keys, r \in Rules :
          LET copy == [i \in 1..Len(s.triggers[k][r]) |->
                         [s.triggers[k][r][i] EXCEPT !.armed = items[r].armed]]
          IN  /\ copy = IF r \in DOMAIN items /\ k \in WatchKeys[r]
                        THEN <<items[r]>> ELSE <<>>
              /\ copy \in Seq(Ctxs)
    <2>1. TAKE k \in Keys, r \in Rules
    <2>2. PICK copy : copy = [i \in 1..Len(s.triggers[k][r]) |->
                         [s.triggers[k][r][i] EXCEPT !.armed = items[r].armed]]
      OBVIOUS
    <2>3. CASE r \in DOMAIN items /\ k \in WatchKeys[r]
      <3>1. s.triggers[k][r] = <<s.by_pubkey[r]>>
        BY <1>8, <2>3
      <3>2. Len(s.triggers[k][r]) = 1 /\ s.triggers[k][r][1] = s.by_pubkey[r]
        BY <3>1
      <3>3. copy = [i \in 1..1 |-> items[r]]
        BY <1>7, <2>2, <2>3, <3>2
      <3>4. copy = <<items[r]>> /\ copy \in Seq(Ctxs)
        BY <1>7, <2>3, <3>3
      <3> QED BY <2>2, <2>3, <3>4
    <2>4. CASE ~ (r \in DOMAIN items /\ k \in WatchKeys[r])
      <3>0. s.triggers[k][r] = <<>> /\ Len(<<>>) = 0
        BY <1>8, <2>4
      <3>1. Len(s.triggers[k][r]) = 0
        BY <3>0
      <3>2. copy = <<>> /\ <<>> \in Seq(Ctxs)
        BY <2>2, <3>1
      <3> QED BY <2>2, <2>4, <3>2
    <2> QED BY <2>3, <2>4
  <1>10. \A k \in Keys, r \in Rules :
          t.triggers[k][r] = IF r \in DOMAIN items /\ k \in WatchKeys[r]
                             THEN <<items[r]>> ELSE <<>>
    BY <1>4, <1>9
  <1>11. t.triggers \in [Keys -> [Rules -> Seq(Ctxs)]]
    <2>1. PICK f : f = t.triggers
      OBVIOUS
    <2>2. f = [k \in Keys |-> f[k]] /\ \A k \in Keys : f[k] = [r \in Rules |-> f[k][r]]
      BY <1>4, <2>1
    <2>3. \A k \in Keys, r \in Rules : f[k][r] \in Seq(Ctxs)
      <3>1. \A k \in Keys, r \in Rules :
              (IF r \in DOMAIN items /\ k \in WatchKeys[r]
               THEN <<items[r]>> ELSE <<>>) \in Seq(Ctxs)
        BY <1>7
      <3> QED BY <1>10, <2>1, <3>1
    <2>4. f \in [Keys -> [Rules -> Seq(Ctxs)]]
      BY <2>2, <2>3, BucketTypes
    <2> QED BY <2>1, <2>4
  <1> QED BY <1>2, <1>3, <1>6, <1>10, <1>11 DEF Agrees, WellFiled, Filed

-----------------------------------------------------------------------------
(* The invariant                                                            *)

(* Events, and what a task has fetched and not used yet. *)
Events == [kind : {"Created", "Filled", "Finished"}, rule : Rules]
Delta(d) == \/ d.kind = "upsert" /\ d.ctx \in Ctxs
            \/ d.kind = "remove" /\ d.pubkey \in Rules
Scanned(sc) == Items(sc.items) /\ compute_armed(sc.items) = sc.items

ChainTypes ==
  /\ chain \in [Rules -> [st : {"absent", "open", "gone"}, executions : Nat,
                          finished : BOOLEAN]]
  /\ socket \in {"down", "opening", "subscribed"}
  /\ logs \in Seq(Events)

(* A drop pays for the sentinel of the reconnect after it. *)
Sentinels ==
  /\ faults \in 0..MaxFaults
  /\ sentinels \in Nat
  /\ sentinels + (IF socket = "down" THEN 1 ELSE 0) <= faults + 1

TaskTypes ==
  /\ delta = None \/ Delta(delta)
  /\ scan = [who \in Scanners |-> scan[who]]
  /\ \A who \in Scanners : scan[who] = None \/ Scanned(scan[who])

IndexInv == ChainTypes /\ Sentinels /\ TaskTypes /\ Agrees(set)

LEMMA Constants ==
  /\ MaxFaults \in Nat /\ Total \in [Rules -> Nat \ {0}] /\ Old \subseteq Rules
  BY FaultsAssumption, RulesAssumption DEF FaultsAssumption, RulesAssumption

LEMMA IndexInvImplies == IndexInv => TypeOK /\ IndexesAgree
  <1> SUFFICES ASSUME IndexInv PROVE TypeOK /\ IndexesAgree
    OBVIOUS
  <1>1. sentinels \in 0..(MaxFaults + 1)
    BY Constants DEF IndexInv, Sentinels
  <1>2. \A i \in DOMAIN logs : logs[i] \in Events
    BY DEF IndexInv, ChainTypes
  <1>3. Items(set.by_pubkey)
    BY DEF IndexInv, Agrees, WellFiled
  <1>4. TypeOK
    BY <1>1, <1>2, <1>3 DEF TypeOK, IndexInv, ChainTypes, Sentinels, Events, Items
  <1>5. IndexesAgree
    BY DEF IndexInv, Agrees, WellFiled, Filed, IndexesAgree, BucketsAgree
  <1> QED BY <1>4, <1>5

LEMMA FetchedItems ==
  ASSUME ChainTypes
  PROVE  Items(fetch_active) /\ compute_armed(fetch_active) = fetch_active
  <1> DEFINE read == [r \in Active |-> Ctx(r)]
  <1>1. Active \subseteq Rules
    BY DEF Active
  <1>2. \A r \in Rules : Ctx(r) \in Ctxs /\ Ctx(r).pubkey = r
    BY DEF Ctx, Ctxs, ChainTypes
  <1>3. Items(read)
    BY <1>1, <1>2 DEF Items
  <1>4. fetch_active = compute_armed(read)
    BY DEF fetch_active
  <1> HIDE DEF read
  <1> QED BY <1>3, <1>4, ArmedItems, ArmedAgain

LEMMA PublishedAgrees ==
  ASSUME NEW items, Items(items), compute_armed(items) = items
  PROVE  Agrees(from_index(items))
  BY FromItems DEF Agrees

LEMMA AppliedAgrees ==
  ASSUME NEW s, Agrees(s), NEW d, Delta(d)
  PROVE  Agrees(apply_delta(s, d))
  <1>0. WellFiled(s)
    BY DEF Agrees
  <1>1. CASE d.kind = "upsert"
    <2>1. d.ctx \in Ctxs /\ d.ctx.pubkey \in Rules
      BY <1>1 DEF Delta, Ctxs
    <2>2. WellFiled(remove_by_pubkey(d.ctx.pubkey, s))
          /\ d.ctx.pubkey \notin DOMAIN remove_by_pubkey(d.ctx.pubkey, s).by_pubkey
      BY <1>0, <2>1, WithoutRule
    <2>3. WellFiled(upsert(d.ctx, s))
      BY <2>1, <2>2, WithRule DEF upsert
    <2>4. Agrees(recompute_armed(upsert(d.ctx, s)))
      BY <2>3, Rearmed
    <2> QED BY <1>1, <2>4 DEF apply_delta
  <1>2. CASE d.kind = "remove" /\ d.pubkey \in DOMAIN s.by_pubkey
    <2>1. d.pubkey \in Rules
      BY <1>0, <1>2 DEF WellFiled, Items
    <2>2. WellFiled(remove_by_pubkey(d.pubkey, s))
      BY <1>0, <2>1, WithoutRule
    <2>3. Agrees(recompute_armed(remove_by_pubkey(d.pubkey, s)))
      BY <2>2, Rearmed
    <2>4. d.kind # "upsert"
      BY <1>2
    <2> QED BY <1>2, <2>3, <2>4 DEF apply_delta
  <1>3. CASE d.kind # "upsert" /\ ~ (d.kind = "remove" /\ d.pubkey \in DOMAIN s.by_pubkey)
    BY <1>3 DEF apply_delta
  <1> QED BY <1>1, <1>2, <1>3

-----------------------------------------------------------------------------

LEMMA IndexStarts == Init => IndexInv
  <1> SUFFICES ASSUME Init PROVE IndexInv
    OBVIOUS
  <1>1. ChainTypes
    <2>1. chain \in [Rules -> [st : {"absent", "open", "gone"}, executions : Nat,
                               finished : BOOLEAN]]
      BY DEF Init
    <2>2. <<>> \in Seq(Events)
      OBVIOUS
    <2> QED BY <2>1, <2>2 DEF Init, ChainTypes
  <1>2. Sentinels
    BY Constants DEF Init, Sentinels
  <1>3. TaskTypes
    BY DEF Init, TaskTypes
  <1>4. Agrees(set)
    BY <1>1, FetchedItems, PublishedAgrees DEF Init
  <1> QED BY <1>1, <1>2, <1>3, <1>4 DEF IndexInv

LEMMA Emitted ==
  ASSUME logs \in Seq(Events), NEW evs \in Seq(Events), Emit(evs)
  PROVE  logs' \in Seq(Events)
  BY DEF Emit

LEMMA Queue ==
  ASSUME logs \in Seq(Events)
  PROVE  /\ \A n \in 0..Len(logs) : SubSeq(logs, 1, n) \in Seq(Events)
         /\ logs # <<>> => Head(logs) \in Events /\ Tail(logs) \in Seq(Events)
  OBVIOUS

LEMMA SameChain == ChainTypes /\ UNCHANGED <<chain, socket, logs>> => ChainTypes'
  BY DEF ChainTypes, Events
LEMMA SameSentinels == Sentinels /\ UNCHANGED <<socket, sentinels, faults>> => Sentinels'
  BY DEF Sentinels
LEMMA SameTasks == TaskTypes /\ UNCHANGED tasks => TaskTypes'
  BY DEF TaskTypes, tasks, Scanners, Delta, Scanned
LEMMA SameSet == Agrees(set) /\ UNCHANGED set => Agrees(set)'
  BY DEF Agrees, WellFiled, Filed, Items

LEMMA IndexSteps == IndexInv /\ [Next]_vars => IndexInv'
  <1> SUFFICES ASSUME IndexInv, [Next]_vars PROVE IndexInv'
    OBVIOUS
  <1>0. ChainTypes /\ Sentinels /\ TaskTypes /\ Agrees(set)
    BY DEF IndexInv
  <1>00. logs \in Seq(Events)
    BY <1>0 DEF ChainTypes
  <1>1. ASSUME NEW r \in Rules, Create(r) PROVE IndexInv'
    <2>1. logs' \in Seq(Events)
      <3>1. <<[kind |-> "Created", rule |-> r]>> \in Seq(Events)
        BY DEF Events
      <3> QED BY <1>00, <1>1, <3>1, Emitted DEF Create
    <2>2. ChainTypes'
      BY <1>0, <1>1, <2>1 DEF Create, ChainTypes, Events
    <2> QED BY <1>0, <1>1, <2>2, SameSentinels, SameTasks, SameSet DEF Create, IndexInv
  <1>2. ASSUME NEW r \in Rules, Fire(r) PROVE IndexInv'
    <2> DEFINE n == chain[r].executions + 1
               done == n = Total[r]
               evs == (IF r \in DOMAIN Link \cup Consumes
                       THEN <<[kind |-> "Filled", rule |-> r]>> ELSE <<>>)
                      \o (IF done THEN <<[kind |-> "Finished", rule |-> r]>> ELSE <<>>)
    <2>1. evs \in Seq(Events)
      <3>1. <<[kind |-> "Filled", rule |-> r]>> \in Seq(Events)
            /\ <<[kind |-> "Finished", rule |-> r]>> \in Seq(Events) /\ <<>> \in Seq(Events)
        BY DEF Events
      <3> QED BY <3>1
    <2>2. Emit(evs)
      BY <1>2 DEF Fire
    <2>3. n \in Nat /\ done \in BOOLEAN
      BY <1>0 DEF ChainTypes
    <2>4. chain' = [chain EXCEPT ![r].executions = n, ![r].finished = done]
      BY <1>2 DEF Fire
    <2> HIDE DEF n, done, evs
    <2>5. logs' \in Seq(Events)
      BY <1>00, <2>1, <2>2, Emitted
    <2>6. chain' \in [Rules -> [st : {"absent", "open", "gone"}, executions : Nat,
                                finished : BOOLEAN]]
      BY <1>0, <2>3, <2>4 DEF ChainTypes
    <2>7. ChainTypes'
      BY <1>0, <1>2, <2>5, <2>6 DEF Fire, ChainTypes, Events
    <2> QED BY <1>0, <1>2, <2>7, SameSentinels, SameTasks, SameSet DEF Fire, IndexInv
  <1>3. ASSUME NEW r \in Rules, Close(r) PROVE IndexInv'
    <2>1. logs' \in Seq(Events)
      <3>1. (IF chain[r].finished THEN <<>> ELSE <<[kind |-> "Finished", rule |-> r]>>)
              \in Seq(Events)
        <4>1. <<[kind |-> "Finished", rule |-> r]>> \in Seq(Events) /\ <<>> \in Seq(Events)
          BY DEF Events
        <4> QED BY <4>1
      <3> QED BY <1>00, <1>3, <3>1, Emitted DEF Close
    <2>2. ChainTypes'
      BY <1>0, <1>3, <2>1 DEF Close, ChainTypes, Events
    <2> QED BY <1>0, <1>3, <2>2, SameSentinels, SameTasks, SameSet DEF Close, IndexInv
  <1>4. CASE Drop
    <2>1. logs' \in Seq(Events)
      BY <1>00, <1>4, Queue DEF Drop
    <2>2. ChainTypes'
      BY <1>0, <1>4, <2>1 DEF Drop, ChainTypes, Events
    <2>3. Sentinels'
      BY <1>0, <1>4, Constants DEF Drop, Sentinels
    <2> QED BY <1>0, <1>4, <2>2, <2>3, SameTasks, SameSet DEF Drop, IndexInv
  <1>5. CASE Reopen
    <2>1. ChainTypes'
      BY <1>0, <1>5 DEF Reopen, ChainTypes, Events
    <2>2. Sentinels'
      BY <1>0, <1>5, Constants DEF Reopen, Sentinels
    <2> QED BY <1>0, <1>5, <2>1, <2>2, SameTasks, SameSet DEF Reopen, IndexInv
  <1>6. CASE Subscribe
    <2>1. ChainTypes'
      BY <1>0, <1>6 DEF Subscribe, ChainTypes, Events
    <2>2. Sentinels'
      BY <1>0, <1>6, Constants DEF Subscribe, Sentinels
    <2> QED BY <1>0, <1>6, <2>1, <2>2, SameTasks, SameSet DEF Subscribe, IndexInv
  <1>7. CASE Resolve
    <2>1. Head(logs) \in Events /\ Tail(logs) \in Seq(Events)
      BY <1>00, <1>7, Queue DEF Resolve
    <2>2. ChainTypes'
      BY <1>0, <1>7, <2>1 DEF Resolve, ChainTypes, Events
    <2>3. Head(logs).rule \in Rules
      BY <2>1 DEF Events
    <2>4. (delta = None \/ Delta(delta))' /\ (UNCHANGED faults \/ RpcFails)
      <3>1. CASE ResolveCreated(Head(logs).rule)
        <4>1. Ctx(Head(logs).rule) \in Ctxs
          BY <1>0, <2>3 DEF Ctx, Ctxs, ChainTypes
        <4> QED BY <1>0, <2>3, <3>1, <4>1 DEF ResolveCreated, TaskTypes, Delta, Ctxs
      <3>2. CASE delta' = [kind |-> "remove", pubkey |-> Head(logs).rule] /\ UNCHANGED faults
        BY <2>3, <3>2 DEF Delta
      <3>3. CASE UNCHANGED <<delta, faults>>
        BY <1>0, <3>3 DEF TaskTypes, Delta, Ctxs
      <3> QED BY <1>7, <3>1, <3>2, <3>3 DEF Resolve
    <2>5. Sentinels'
      BY <1>0, <1>7, <2>4, Constants DEF Resolve, Sentinels, RpcFails
    <2>6. TaskTypes'
      BY <1>0, <1>7, <2>4 DEF Resolve, TaskTypes, Scanners, Scanned
    <2> QED BY <1>0, <1>7, <2>2, <2>5, <2>6, SameSet DEF Resolve, IndexInv
  <1>8. CASE Apply
    <2>1. Delta(delta)
      BY <1>0, <1>8 DEF Apply, TaskTypes
    <2>2. Agrees(set')
      BY <1>0, <1>8, <2>1, AppliedAgrees DEF Apply
    <2>3. Agrees(set)'
      BY <2>2 DEF Agrees, WellFiled, Filed, Items
    <2>4. TaskTypes'
      BY <1>0, <1>8 DEF Apply, TaskTypes, Scanners, Scanned
    <2> QED BY <1>0, <1>8, <2>3, <2>4, SameChain, SameSentinels DEF Apply, IndexInv
  <1>9. ASSUME NEW who \in Scanners, Fetch(who) PROVE IndexInv'
    <2>1. Sentinels'
      <3>1. UNCHANGED faults \/ RpcFails
        BY <1>9 DEF Fetch
      <3>2. sentinels' \in Nat /\ sentinels' <= sentinels
        BY <1>0, <1>9 DEF Fetch, Called, Sentinels
      <3> QED BY <1>0, <1>9, <3>1, <3>2, Constants DEF Fetch, Sentinels, RpcFails
    <2>2. TaskTypes'
      <3>1. CASE UNCHANGED scan
        BY <1>0, <1>9, <3>1, SameTasks DEF Fetch, tasks
      <3>2. CASE scan' = [scan EXCEPT ![who] = [items |-> fetch_active]]
        <4>1. PICK sc : sc = [items |-> fetch_active]
          OBVIOUS
        <4>2. Scanned(sc)
          BY <1>0, <4>1, FetchedItems DEF Scanned
        <4>3. /\ scan' = [w \in Scanners |-> scan'[w]]
              /\ \A w \in Scanners : scan'[w] = IF w = who THEN sc ELSE scan[w]
          BY <1>0, <3>2, <4>1 DEF TaskTypes
        <4>4. \A w \in Scanners : scan'[w] = None \/ Scanned(scan'[w])
          BY <1>0, <4>2, <4>3 DEF TaskTypes
        <4>5. UNCHANGED delta
          BY <1>9 DEF Fetch
        <4> QED BY <1>0, <4>3, <4>4, <4>5 DEF TaskTypes, Scanners, Scanned, Delta
      <3> QED BY <1>9, <3>1, <3>2 DEF Fetch
    <2> QED BY <1>0, <1>9, <2>1, <2>2, SameChain, SameSet DEF Fetch, IndexInv
  <1>10. ASSUME NEW who \in Scanners, Publish(who) PROVE IndexInv'
    <2>1. Scanned(scan[who])
      BY <1>0, <1>10 DEF Publish, TaskTypes
    <2>2. Agrees(from_index(scan[who].items))
      BY <2>1, PublishedAgrees DEF Scanned
    <2>3. Agrees(set')
      BY <1>0, <1>10, <2>2 DEF Publish
    <2>4. Agrees(set)'
      BY <2>3 DEF Agrees, WellFiled, Filed, Items
    <2>5. TaskTypes'
      <3>1. /\ scan' = [w \in Scanners |-> scan'[w]]
            /\ \A w \in Scanners : scan'[w] = IF w = who THEN None ELSE scan[w]
        BY <1>0, <1>10 DEF Publish, TaskTypes
      <3>2. UNCHANGED delta
        BY <1>10 DEF Publish
      <3> QED BY <1>0, <3>1, <3>2 DEF TaskTypes, Scanners, Scanned, Delta
    <2> QED BY <1>0, <1>10, <2>4, <2>5, SameChain, SameSentinels DEF Publish, IndexInv
  <1>11. CASE UNCHANGED vars
    <2>1. /\ UNCHANGED <<chain, socket, logs>> /\ UNCHANGED <<socket, sentinels, faults>>
          /\ UNCHANGED tasks /\ UNCHANGED set
      BY <1>11 DEF vars, tasks
    <2> QED BY <1>0, <2>1, SameChain, SameSentinels, SameTasks, SameSet DEF IndexInv
  <1> QED BY <1>1, <1>2, <1>3, <1>4, <1>5, <1>6, <1>7, <1>8, <1>9, <1>10, <1>11 DEF Next

(* What the tasks share is well formed, and no more reconnects wait for     *)
(* their reconcile than there were drops (indexer.rs, events/subscriber.rs).*)
THEOREM IndexTypes == Spec => []TypeOK
  <1>1. Init => IndexInv
    BY IndexStarts
  <1>2. IndexInv /\ [Next]_vars => IndexInv'
    BY IndexSteps
  <1>3. IndexInv => TypeOK
    BY IndexInvImplies
  <1> QED BY <1>1, <1>2, <1>3, PTL DEF Spec

(* Whatever deltas and snapshots are applied, in whatever order and however *)
(* stale, a rule is filed once under each of its keys and under no other,   *)
(* its copies are the entry of by_pubkey, and every flag is the one the     *)
(* published rules imply (insert_ctx, remove_by_pubkey, recompute_armed).   *)
THEOREM IndexAgrees == Spec => []IndexesAgree
  <1>1. Init => IndexInv
    BY IndexStarts
  <1>2. IndexInv /\ [Next]_vars => IndexInv'
    BY IndexSteps
  <1>3. IndexInv => IndexesAgree
    BY IndexInvImplies
  <1> QED BY <1>1, <1>2, <1>3, PTL DEF Spec
=============================================================================
