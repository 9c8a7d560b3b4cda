------------------------- MODULE KeeperExecutor_proofs -------------------------
(* The claims of the executor for any number of rules, events, correlations  *)
(* and faults, and any size of the cache of recent triggers.                 *)
EXTENDS KeeperExecutor, FiniteSetTheorems, SequenceTheorems, TLAPS

Corrs   == Correlations \cup ({"time"} \X Nat)
Account == [cadence : Cadences, min_interval : Nat, executions : 0..U32Max,
            executed_at : Nat, finished : BOOLEAN]
TaskRec == [queue : Seq(Rules), corr : Corrs, stage : {Idle, "send", "escalate"}]
ClaimRec == [rule : Rules, corr : Corrs, task : Nat]

(* The types, without the bounds of the model on which nothing below rests.  *)
Typed ==
  /\ now \in Nat /\ faults \in Nat
  /\ watched \in SUBSET Rules /\ time_fired \in SUBSET TimeRules
  /\ acct \in [Rules -> Account]
  /\ tasks \in Seq(TaskRec)
  /\ dedupe \in [terminal_fired : SUBSET Rules, recent_order : Seq(Rules \X Corrs),
                 in_flight : SUBSET Rules]
  /\ net \in [Rules -> Nat]
  /\ claims \in Seq(ClaimRec)

(* A task's queue holds its rules oldest first, and a task that is sending   *)
(* has its rule at the head.                                                 *)
Queued(k) ==
  /\ \A i, j \in 1..Len(k.queue) : i < j => k.queue[i] < k.queue[j]
  /\ k.stage # Idle => k.queue # <<>>

AllQueued(ts) == \A t \in DOMAIN ts : Queued(ts[t])

Busy(ts)    == {t \in DOMAIN ts : ts[t].stage # Idle}
Sending(ts) == {Head(ts[t].queue) : t \in Busy(ts)}

(* InFlightExact in parts.                                                   *)
Exact ==
  /\ dedupe.in_flight = Sending(tasks)
  /\ \A t, u \in Busy(tasks) : Head(tasks[t].queue) = Head(tasks[u].queue) => t = u
Dead == \A r \in dedupe.terminal_fired : acct[r].finished

(* The cache holds the last claims, as many of them as it has room for.      *)
Recent(order, cs) ==
  /\ Len(order) = (IF Len(cs) <= CacheSize THEN Len(cs) ELSE CacheSize)
  /\ \A i \in 1..Len(order) :
       LET c == cs[Len(cs) - Len(order) + i] IN order[i] = <<c.rule, c.corr>>

(* A claim's task is past the claimed rule, or is sending for it.            *)
Past(c, ts) ==
  /\ c.task \in DOMAIN ts
  /\ \A q \in 1..Len(ts[c.task].queue) :
       \/ c.rule < ts[c.task].queue[q]
       \/ ts[c.task].stage # Idle /\ q = 1 /\ c.rule = ts[c.task].queue[1]

AllPast(cs, ts) == \A i \in DOMAIN cs : Past(cs[i], ts)

Apart(cs) ==
  \A i, j \in DOMAIN cs : i < j /\ cs[i].rule = cs[j].rule /\ cs[i].corr = cs[j].corr
    => j - i > CacheSize
Ordered(cs) ==
  \A i, j \in DOMAIN cs : i < j /\ cs[i].task = cs[j].task => cs[i].rule < cs[j].rule

ExecInv ==
  /\ Typed
  /\ AllQueued(tasks)
  /\ Exact /\ Dead
  /\ Recent(dedupe.recent_order, claims)
  /\ AllPast(claims, tasks)
  /\ Apart(claims) /\ Ordered(claims)

-----------------------------------------------------------------------------
(* A finite set of numbers has an increasing enumeration: each member's rank  *)
(* is the number of members up to it.                                         *)
LEMMA Sorting ==
  ASSUME NEW S \in SUBSET Nat, IsFiniteSet(S)
  PROVE  \E s \in [1..Cardinality(S) -> S] : \A i, j \in DOMAIN s : i < j => s[i] < s[j]
<1> DEFINE n == Cardinality(S)
           Upto(a) == {b \in S : b <= a}
           rank == [a \in S |-> Cardinality(Upto(a))]
<1>n. n \in Nat
  BY FS_CardinalityType
<1>1. \A a \in S : /\ IsFiniteSet(Upto(a)) /\ Cardinality(Upto(a)) \in Nat
                   /\ Cardinality(Upto(a)) <= n /\ Cardinality(Upto(a)) # 0
  <2> TAKE a \in S
  <2>1. Upto(a) \in SUBSET S
    OBVIOUS
  <2>2. IsFiniteSet(Upto(a)) /\ Cardinality(Upto(a)) <= n
    BY <2>1, FS_Subset
  <2>3. Cardinality(Upto(a)) \in Nat
    BY <2>2, FS_CardinalityType
  <2>4. a \in Upto(a)
    OBVIOUS
  <2>5. Cardinality(Upto(a)) # 0
    BY <2>2, <2>4, FS_EmptySet
  <2> QED BY <2>2, <2>3, <2>5
<1>2. \A a, b \in S : rank[a] = rank[b] => a = b
  <2> SUFFICES ASSUME NEW a \in S, NEW b \in S, a <= b, rank[a] = rank[b]
               PROVE  a = b
    OBVIOUS
  <2>1. Upto(a) \in SUBSET Upto(b)
    <3>1. \A c \in S : c <= a => c <= b
      OBVIOUS
    <3> QED BY <3>1
  <2>2. Upto(a) = Upto(b)
    BY <1>1, <2>1, FS_Subset
  <2>3. b \in Upto(b)
    OBVIOUS
  <2> QED BY <2>2, <2>3
<1>3. \A a, b \in S : rank[a] < rank[b] => a < b
  <2> SUFFICES ASSUME NEW a \in S, NEW b \in S, b <= a
               PROVE  rank[b] <= rank[a]
    BY <1>1
  <2>1. Upto(b) \in SUBSET Upto(a)
    <3>1. \A c \in S : c <= b => c <= a
      OBVIOUS
    <3> QED BY <3>1
  <2> QED BY <1>1, <2>1, FS_Subset
<1>4. rank \in [S -> 1..n]
  BY <1>1, <1>n
<1>5. rank \in Injection(S, 1..n)
  BY <1>2, <1>4 DEF Injection, IsInjective
<1>6. IsFiniteSet(1..n) /\ Cardinality(1..n) = n
  BY <1>n, FS_Interval
<1>7. rank \in Surjection(S, 1..n)
  BY <1>5, <1>6, FS_Injection
<1>8. \A i \in 1..n : \E a \in S : rank[a] = i
  BY <1>7 DEF Surjection
<1> DEFINE s == [i \in 1..n |-> CHOOSE a \in S : rank[a] = i]
<1>9. \A i \in 1..n : s[i] \in S /\ rank[s[i]] = i
  BY <1>8
<1>10. s \in [1..n -> S]
  BY <1>9
<1> HIDE DEF rank, s
<1>11. \A i, j \in 1..n : i < j => s[i] < s[j]
  BY <1>3, <1>9
<1> QED
  BY <1>10, <1>11

LEMMA Oldest ==
  ASSUME NEW ms \in SUBSET Rules
  PROVE  LET q == sort_matches_for_queue(ms) IN
         q \in Seq(Rules) /\ \A i, j \in 1..Len(q) : i < j => q[i] < q[j]
<1> DEFINE q == sort_matches_for_queue(ms)
<1>1. ms \in SUBSET Nat /\ IsFiniteSet(ms)
  BY ExecutorAssumption, FS_Subset
<1>2. \E s \in [1..Cardinality(ms) -> ms] : \A i, j \in DOMAIN s : i < j => s[i] < s[j]
  BY <1>1, Sorting
<1>3. q \in [1..Cardinality(ms) -> ms] /\ \A i, j \in DOMAIN q : i < j => q[i] < q[j]
  BY <1>2 DEF sort_matches_for_queue
<1>4. Cardinality(ms) \in Nat
  BY <1>1, FS_CardinalityType
<1> HIDE DEF q
<1>5. q \in Seq(Rules)
  <2>1. q \in [1..Cardinality(ms) -> Rules]
    BY <1>3
  <2> QED BY <2>1, <1>4
<1>6. Len(q) = Cardinality(ms) /\ DOMAIN q = 1..Len(q)
  BY <1>3, <1>4, <1>5
<1>7. q \in Seq(Rules) /\ \A i, j \in 1..Len(q) : i < j => q[i] < q[j]
  BY <1>3, <1>5, <1>6
<1> QED BY <1>7 DEF q

-----------------------------------------------------------------------------
(* What the three ways to change the tasks do to them.                        *)
LEMMA TaskDomain ==
  ASSUME tasks \in Seq(TaskRec)
  PROVE  /\ DOMAIN tasks = 1..Len(tasks) /\ Len(tasks) \in Nat
         /\ \A t \in DOMAIN tasks : tasks[t] \in TaskRec
  OBVIOUS

LEMMA Spawned ==
  ASSUME tasks \in Seq(TaskRec), AllQueued(tasks),
         NEW ms \in SUBSET Rules, NEW corr \in Corrs, Spawn(ms, corr)
  PROVE  /\ tasks' \in Seq(TaskRec) /\ AllQueued(tasks')
         /\ DOMAIN tasks \subseteq DOMAIN tasks'
         /\ \A t \in DOMAIN tasks : tasks'[t] = tasks[t]
         /\ Busy(tasks') = Busy(tasks)
<1> DEFINE q == sort_matches_for_queue(ms)
           k == [queue |-> q, corr |-> corr, stage |-> Idle]
<1>1. q \in Seq(Rules) /\ \A i, j \in 1..Len(q) : i < j => q[i] < q[j]
  BY Oldest
<1>2. tasks' = Append(tasks, k)
  BY DEF Spawn
<1> HIDE DEF q
<1>3. k \in TaskRec
  BY <1>1 DEF TaskRec
<1>4. Queued(k) /\ k.stage = Idle
  BY <1>1 DEF Queued
<1> HIDE DEF k
<1>5. tasks' \in Seq(TaskRec) /\ DOMAIN tasks' = 1..Len(tasks)+1 /\ DOMAIN tasks = 1..Len(tasks)
      /\ Len(tasks) \in Nat
  BY <1>2, <1>3
<1>6. \A t \in DOMAIN tasks : tasks'[t] = tasks[t]
  BY <1>2, <1>3, <1>5
<1>7. tasks'[Len(tasks)+1] = k
  BY <1>2, <1>3, <1>5
<1>8. AllQueued(tasks')
  BY <1>4, <1>5, <1>6, <1>7 DEF AllQueued
<1>9. Busy(tasks') = Busy(tasks)
  BY <1>4, <1>5, <1>6, <1>7 DEF Busy
<1>10. DOMAIN tasks \subseteq DOMAIN tasks'
  BY <1>5
<1> QED BY <1>5, <1>6, <1>8, <1>9, <1>10

LEMMA Attempted ==
  ASSUME tasks \in Seq(TaskRec), AllQueued(tasks), NEW t \in DOMAIN tasks,
         NEW stage \in {"send", "escalate"}, tasks[t].queue # <<>>, Attempt(t, stage)
  PROVE  /\ tasks' \in Seq(TaskRec) /\ AllQueued(tasks')
         /\ DOMAIN tasks' = DOMAIN tasks
         /\ \A u \in DOMAIN tasks : tasks'[u].queue = tasks[u].queue
         /\ \A u \in DOMAIN tasks \ {t} : tasks'[u].stage = tasks[u].stage
         /\ tasks'[t].stage # Idle
<1>1. DOMAIN tasks = 1..Len(tasks) /\ \A u \in DOMAIN tasks : tasks[u] \in TaskRec
  BY TaskDomain
<1>2. tasks' = [tasks EXCEPT ![t].stage = stage]
  BY DEF Attempt
<1>3. DOMAIN tasks' = DOMAIN tasks
  BY <1>2
<1>4. \A u \in DOMAIN tasks \ {t} : tasks'[u] = tasks[u]
  BY <1>2
<1>5. tasks'[t] = [tasks[t] EXCEPT !.stage = stage]
  BY <1>2
<1>6. /\ tasks'[t] \in TaskRec /\ tasks'[t].queue = tasks[t].queue
      /\ tasks'[t].stage = stage
  BY <1>1, <1>5 DEF TaskRec
<1>7. tasks' \in Seq(TaskRec)
  <2>1. \A u \in DOMAIN tasks : tasks'[u] \in TaskRec
    BY <1>1, <1>4, <1>6
  <2>2. tasks' = [u \in DOMAIN tasks |-> tasks'[u]]
    BY <1>2
  <2>3. tasks' \in [1..Len(tasks) -> TaskRec]
    BY <1>1, <2>1, <2>2
  <2>4. Len(tasks) \in Nat
    OBVIOUS
  <2> QED BY <2>3, <2>4
<1>8. stage # Idle
  BY ExecutorAssumption
<1>9. AllQueued(tasks')
  BY <1>3, <1>4, <1>6 DEF AllQueued, Queued
<1> QED BY <1>3, <1>4, <1>6, <1>7, <1>8, <1>9

LEMMA Moved ==
  ASSUME tasks \in Seq(TaskRec), AllQueued(tasks), NEW t \in DOMAIN tasks,
         tasks[t].queue # <<>>, NextMatch(t)
  PROVE  /\ tasks' \in Seq(TaskRec) /\ AllQueued(tasks')
         /\ DOMAIN tasks' = DOMAIN tasks
         /\ \A u \in DOMAIN tasks \ {t} : tasks'[u] = tasks[u]
         /\ tasks'[t].stage = Idle
         /\ tasks'[t].queue \in Seq(Rules)
         /\ Len(tasks'[t].queue) = Len(tasks[t].queue) - 1
         /\ \A q \in 1..Len(tasks'[t].queue) : tasks'[t].queue[q] = tasks[t].queue[q + 1]
<1>1. DOMAIN tasks = 1..Len(tasks) /\ \A u \in DOMAIN tasks : tasks[u] \in TaskRec
  BY TaskDomain
<1>2. tasks' = [tasks EXCEPT ![t].stage = Idle, ![t].queue = Tail(@)]
  BY DEF NextMatch
<1>3. DOMAIN tasks' = DOMAIN tasks
  BY <1>2
<1>4. \A u \in DOMAIN tasks \ {t} : tasks'[u] = tasks[u]
  BY <1>2
<1>5. tasks'[t] = [tasks[t] EXCEPT !.stage = Idle, !.queue = Tail(@)]
  BY <1>2
<1>6. tasks[t].queue \in Seq(Rules)
  BY <1>1 DEF TaskRec
<1>7. /\ tasks'[t] \in TaskRec /\ tasks'[t].queue = Tail(tasks[t].queue)
      /\ tasks'[t].stage = Idle
  <2>1. tasks'[t] = [queue |-> Tail(tasks[t].queue), corr |-> tasks[t].corr, stage |-> Idle]
    BY <1>1, <1>5 DEF TaskRec
  <2>2. Tail(tasks[t].queue) \in Seq(Rules)
    BY <1>6
  <2>3. tasks[t].corr \in Corrs
    BY <1>1 DEF TaskRec
  <2> QED BY <2>1, <2>2, <2>3 DEF TaskRec
<1>8. /\ Tail(tasks[t].queue) \in Seq(Rules)
      /\ Len(Tail(tasks[t].queue)) = Len(tasks[t].queue) - 1
      /\ \A q \in 1..Len(Tail(tasks[t].queue)) :
           Tail(tasks[t].queue)[q] = tasks[t].queue[q + 1]
  BY <1>6
<1>9. tasks' \in Seq(TaskRec)
  <2>1. \A u \in DOMAIN tasks : tasks'[u] \in TaskRec
    BY <1>1, <1>4, <1>7
  <2>2. tasks' = [u \in DOMAIN tasks |-> tasks'[u]]
    BY <1>2
  <2>3. tasks' \in [1..Len(tasks) -> TaskRec]
    BY <1>1, <2>1, <2>2
  <2>4. Len(tasks) \in Nat
    OBVIOUS
  <2> QED BY <2>3, <2>4
<1>10. Queued(tasks'[t])
  BY <1>6, <1>7, <1>8 DEF AllQueued, Queued
<1>11. AllQueued(tasks')
  BY <1>3, <1>4, <1>10 DEF AllQueued
<1> QED BY <1>3, <1>4, <1>7, <1>8, <1>9, <1>11

-----------------------------------------------------------------------------
(* What a granted claim does to the cache and to the history.                 *)
LEMMA RecentKept ==
  ASSUME NEW order \in Seq(Rules \X Corrs), NEW cs \in Seq(ClaimRec), NEW c \in ClaimRec,
         Recent(order, cs)
  PROVE  /\ Remember(order, <<c.rule, c.corr>>) \in Seq(Rules \X Corrs)
         /\ Recent(Remember(order, <<c.rule, c.corr>>), Append(cs, c))
<1> DEFINE key == <<c.rule, c.corr>>
           longer == Append(order, key)
           ds == Append(cs, c)
<1>1. key \in Rules \X Corrs
  BY DEF ClaimRec
<1> HIDE DEF key
<1>2. /\ longer \in Seq(Rules \X Corrs) /\ Len(longer) = Len(order) + 1
      /\ longer[Len(order) + 1] = key
      /\ \A i \in 1..Len(order) : longer[i] = order[i]
  BY <1>1
<1>3. /\ ds \in Seq(ClaimRec) /\ Len(ds) = Len(cs) + 1 /\ ds[Len(cs) + 1] = c
      /\ \A i \in 1..Len(cs) : ds[i] = cs[i]
  OBVIOUS
<1>4. CacheSize \in Nat \ {0} /\ Len(cs) \in Nat /\ Len(order) \in Nat
  BY ExecutorAssumption
<1>5. /\ Len(order) = (IF Len(cs) <= CacheSize THEN Len(cs) ELSE CacheSize)
      /\ \A i \in 1..Len(order) :
           order[i] = <<cs[Len(cs) - Len(order) + i].rule, cs[Len(cs) - Len(order) + i].corr>>
  BY DEF Recent
<1> HIDE DEF longer, ds
<1>6. \A i \in 1..Len(longer) :
        longer[i] = <<ds[Len(ds) - Len(longer) + i].rule, ds[Len(ds) - Len(longer) + i].corr>>
  <2> TAKE i \in 1..Len(longer)
  <2>1. CASE i = Len(longer)
    <3>1. Len(ds) - Len(longer) + i = Len(cs) + 1 /\ i = Len(order) + 1
      BY <1>2, <1>3, <1>4, <2>1
    <3> QED BY <1>2, <1>3, <3>1 DEF key
  <2>2. CASE i # Len(longer)
    <3>1. i \in 1..Len(order) /\ Len(cs) - Len(order) + i \in 1..Len(cs)
      BY <1>2, <1>4, <1>5, <2>2
    <3>2. Len(ds) - Len(longer) + i = Len(cs) - Len(order) + i
      BY <1>2, <1>3, <1>4, <3>1
    <3> QED BY <1>2, <1>3, <1>5, <3>1, <3>2
  <2> QED BY <2>1, <2>2
<1>7. CASE Len(longer) > CacheSize
  <2>1. Remember(order, key) = Tail(longer)
    BY <1>7 DEF Remember, longer
  <2>2. /\ Tail(longer) \in Seq(Rules \X Corrs) /\ Len(Tail(longer)) = Len(longer) - 1
        /\ \A i \in 1..Len(Tail(longer)) : Tail(longer)[i] = longer[i + 1]
    BY <1>2, <1>4
  <2>3. Len(Tail(longer)) = CacheSize /\ Len(ds) > CacheSize
    BY <1>2, <1>3, <1>4, <1>5, <1>7, <2>2
  <2>4. ASSUME NEW i \in 1..Len(Tail(longer))
        PROVE  LET d == ds[Len(ds) - Len(Tail(longer)) + i] IN Tail(longer)[i] = <<d.rule, d.corr>>
    <3>1. i + 1 \in 1..Len(longer) /\ Len(ds) - Len(longer) + (i + 1) = Len(ds) - Len(Tail(longer)) + i
      <4>1. Len(Tail(longer)) = Len(order) /\ i \in 1..Len(order)
        BY <1>2, <1>4, <2>2, <2>4
      <4>2. i + 1 \in 1..Len(longer)
        BY <1>2, <1>4, <4>1
      <4>3. \A a, b, k \in Nat : (a + 1) - (b + 1) + (k + 1) = (a + 1) - b + k
        OBVIOUS
      <4>4. (Len(cs) + 1) - (Len(order) + 1) + (i + 1) = (Len(cs) + 1) - Len(order) + i
        BY <1>4, <4>1, <4>3
      <4>5. Len(ds) = Len(cs) + 1 /\ Len(longer) = Len(order) + 1
        BY <1>2, <1>3
      <4> QED BY <4>1, <4>2, <4>4, <4>5
    <3> QED BY <1>6, <2>2, <3>1
  <2>5. Len(Tail(longer)) = (IF Len(ds) <= CacheSize THEN Len(ds) ELSE CacheSize)
    BY <1>3, <1>4, <2>3
  <2>6. Recent(Tail(longer), ds)
    BY <2>4, <2>5 DEF Recent
  <2> QED BY <2>1, <2>2, <2>6 DEF key, ds
<1>8. CASE ~ (Len(longer) > CacheSize)
  <2>1. Remember(order, key) = longer
    BY <1>8 DEF Remember, longer
  <2>2. Len(longer) = (IF Len(ds) <= CacheSize THEN Len(ds) ELSE CacheSize)
    BY <1>2, <1>3, <1>4, <1>5, <1>8
  <2>3. Recent(longer, ds)
    BY <1>6, <2>2 DEF Recent
  <2> QED BY <1>2, <2>1, <2>3 DEF key, ds
<1> QED BY <1>7, <1>8

LEMMA ApartKept ==
  ASSUME NEW order \in Seq(Rules \X Corrs), NEW cs \in Seq(ClaimRec), NEW c \in ClaimRec,
         Recent(order, cs), Apart(cs), <<c.rule, c.corr>> \notin Range(order)
  PROVE  Apart(Append(cs, c))
<1> DEFINE ds == Append(cs, c)
<1>1. /\ DOMAIN ds = 1..Len(cs) + 1 /\ DOMAIN cs = 1..Len(cs) /\ ds[Len(cs) + 1] = c
      /\ \A i \in 1..Len(cs) : ds[i] = cs[i]
  OBVIOUS
<1>2. CacheSize \in Nat /\ Len(cs) \in Nat /\ Len(order) \in Nat /\ DOMAIN order = 1..Len(order)
  BY ExecutorAssumption
<1> HIDE DEF ds
<1>3. ASSUME NEW i \in 1..Len(cs), cs[i].rule = c.rule, cs[i].corr = c.corr
      PROVE  Len(cs) + 1 - i > CacheSize
  <2>1. CASE i <= Len(cs) - Len(order)
    BY <1>2, <2>1 DEF Recent
  <2>2. CASE i > Len(cs) - Len(order)
    <3> DEFINE j == i - (Len(cs) - Len(order))
    <3>1. j \in 1..Len(order) /\ Len(cs) - Len(order) + j = i
      BY <1>2, <2>2
    <3>2. order[j] = <<c.rule, c.corr>>
      BY <1>3, <3>1 DEF Recent
    <3>3. order[j] \in Range(order)
      BY <1>2, <3>1 DEF Range
    <3> QED BY <3>2, <3>3
  <2> QED BY <1>2, <2>1, <2>2
<1>4. SUFFICES ASSUME NEW i \in DOMAIN ds, NEW j \in DOMAIN ds, i < j,
                      ds[i].rule = ds[j].rule, ds[i].corr = ds[j].corr
               PROVE  j - i > CacheSize
  BY DEF Apart, ds
<1>5. i \in 1..Len(cs)
  BY <1>1, <1>2, <1>4
<1>6. CASE j \in 1..Len(cs)
  BY <1>1, <1>4, <1>5, <1>6 DEF Apart
<1>7. CASE j = Len(cs) + 1
  BY <1>1, <1>3, <1>4, <1>5, <1>7
<1> QED BY <1>1, <1>2, <1>6, <1>7

LEMMA OrderedKept ==
  ASSUME NEW cs \in Seq(ClaimRec), NEW c \in ClaimRec, Ordered(cs),
         \A i \in DOMAIN cs : cs[i].task = c.task => cs[i].rule < c.rule
  PROVE  Ordered(Append(cs, c))
<1> DEFINE ds == Append(cs, c)
<1>1. /\ DOMAIN ds = 1..Len(cs) + 1 /\ DOMAIN cs = 1..Len(cs) /\ ds[Len(cs) + 1] = c
      /\ \A i \in 1..Len(cs) : ds[i] = cs[i]
  OBVIOUS
<1>2. Len(cs) \in Nat
  OBVIOUS
<1> HIDE DEF ds
<1>3. SUFFICES ASSUME NEW i \in DOMAIN ds, NEW j \in DOMAIN ds, i < j,
                      ds[i].task = ds[j].task
               PROVE  ds[i].rule < ds[j].rule
  BY DEF Ordered, ds
<1>4. i \in 1..Len(cs)
  BY <1>1, <1>2, <1>3
<1>5. CASE j \in 1..Len(cs)
  BY <1>1, <1>3, <1>4, <1>5 DEF Ordered
<1>6. CASE j = Len(cs) + 1
  BY <1>1, <1>3, <1>4, <1>6
<1> QED BY <1>1, <1>2, <1>5, <1>6

-----------------------------------------------------------------------------
(* Sent, failed or refused: the rule leaves in_flight, the task goes on.      *)
LEMMA Released ==
  ASSUME ExecInv, NEW t \in DOMAIN tasks, tasks[t].stage \in {"send", "escalate"},
         NextMatch(t), UNCHANGED claims,
         dedupe'.in_flight = dedupe.in_flight \ {Head(tasks[t].queue)}
  PROVE  /\ tasks' \in Seq(TaskRec) /\ AllQueued(tasks') /\ Exact'
         /\ AllPast(claims, tasks)'
<1>1. tasks \in Seq(TaskRec) /\ AllQueued(tasks) /\ tasks[t].stage # Idle
  BY ExecutorAssumption DEF ExecInv, Typed
<1>2. tasks[t].queue # <<>>
  BY <1>1 DEF AllQueued, Queued
<1>3. /\ tasks' \in Seq(TaskRec) /\ AllQueued(tasks')
      /\ DOMAIN tasks' = DOMAIN tasks
      /\ \A u \in DOMAIN tasks \ {t} : tasks'[u] = tasks[u]
      /\ tasks'[t].stage = Idle
      /\ Len(tasks'[t].queue) = Len(tasks[t].queue) - 1
      /\ \A q \in 1..Len(tasks'[t].queue) : tasks'[t].queue[q] = tasks[t].queue[q + 1]
  BY <1>1, <1>2, Moved
<1>4. t \in Busy(tasks) /\ Busy(tasks') = Busy(tasks) \ {t}
  BY <1>1, <1>3 DEF Busy
<1>5. Busy(tasks) \subseteq DOMAIN tasks
  BY DEF Busy
<1>6. /\ dedupe.in_flight = Sending(tasks)
      /\ \A v, u \in Busy(tasks) : Head(tasks[v].queue) = Head(tasks[u].queue) => v = u
  BY DEF ExecInv, Exact
<1>7. Exact'
  <2>1. Sending(tasks') = Sending(tasks) \ {Head(tasks[t].queue)}
    BY <1>3, <1>4, <1>5, <1>6 DEF Sending
  <2>2. \A v, u \in Busy(tasks') : Head(tasks'[v].queue) = Head(tasks'[u].queue) => v = u
    BY <1>3, <1>4, <1>5, <1>6
  <2> QED BY <1>6, <2>1, <2>2 DEF Exact
<1>8. ASSUME NEW i \in DOMAIN claims
      PROVE  Past(claims[i], tasks')
  <2>1. Past(claims[i], tasks) /\ claims[i].task \in DOMAIN tasks
    BY DEF ExecInv, AllPast, Past
  <2>2. CASE claims[i].task # t
    BY <1>3, <2>1, <2>2 DEF Past
  <2>3. CASE claims[i].task = t
    <3>1. tasks[t].queue \in Seq(Rules)
      BY <1>1, TaskDomain DEF TaskRec
    <3>2. claims[i].rule \in Nat /\ \A q \in 1..Len(tasks[t].queue) : tasks[t].queue[q] \in Nat
      <4>1. claims \in Seq(ClaimRec)
        BY DEF ExecInv, Typed
      <4>2. claims[i] \in ClaimRec
        BY <4>1
      <4>3. claims[i].rule \in Rules
        BY <4>2 DEF ClaimRec
      <4>4. \A q \in 1..Len(tasks[t].queue) : tasks[t].queue[q] \in Rules
        BY <3>1
      <4>5. \A r \in Rules : r \in Nat
        BY ExecutorAssumption
      <4> QED BY <4>3, <4>4, <4>5
    <3>3. \A j, k \in 1..Len(tasks[t].queue) : j < k => tasks[t].queue[j] < tasks[t].queue[k]
      BY <1>1 DEF AllQueued, Queued
    <3>4. ASSUME NEW q \in 1..Len(tasks'[t].queue)
          PROVE  claims[i].rule < tasks'[t].queue[q]
      <4>1. /\ Len(tasks[t].queue) \in Nat /\ q + 1 \in 1..Len(tasks[t].queue)
            /\ 1 \in 1..Len(tasks[t].queue) /\ 1 < q + 1
        BY <1>3, <3>1
      <4>2. claims[i].rule < tasks[t].queue[q + 1]
                \/ claims[i].rule = tasks[t].queue[1]
        BY <2>1, <2>3, <4>1 DEF Past
      <4>3. tasks'[t].queue[q] = tasks[t].queue[q + 1]
        BY <1>3
      <4> QED BY <3>2, <3>3, <4>1, <4>2, <4>3
    <3> QED BY <1>3, <2>3, <3>4 DEF Past
  <2> QED BY <2>2, <2>3
<1>9. AllPast(claims, tasks)'
  BY <1>8 DEF AllPast
<1> QED BY <1>3, <1>7, <1>9

(* A step that gives no claim and leaves the cache and the history alone.     *)
LEMMA Leftover ==
  ASSUME ExecInv, Typed', AllQueued(tasks'), Exact', Dead', AllPast(claims, tasks)',
         UNCHANGED claims, dedupe'.recent_order = dedupe.recent_order
  PROVE  ExecInv'
BY DEF ExecInv

LEMMA SpawnStep ==
  ASSUME ExecInv, NEW ms \in SUBSET Rules, NEW corr \in Corrs, Spawn(ms, corr),
         time_fired' \in SUBSET TimeRules,
         UNCHANGED <<now, acct, watched, dedupe, net, claims, faults>>
  PROVE  ExecInv'
<1>1. tasks \in Seq(TaskRec) /\ AllQueued(tasks)
  BY DEF ExecInv, Typed
<1>2. /\ tasks' \in Seq(TaskRec) /\ AllQueued(tasks')
      /\ DOMAIN tasks \subseteq DOMAIN tasks'
      /\ \A t \in DOMAIN tasks : tasks'[t] = tasks[t]
      /\ Busy(tasks') = Busy(tasks)
  BY <1>1, Spawned
<1>3. Busy(tasks) \subseteq DOMAIN tasks
  BY DEF Busy
<1>4. Typed'
  BY <1>2 DEF ExecInv, Typed
<1>5. Exact'
  <2>1. Sending(tasks') = Sending(tasks)
    BY <1>2, <1>3 DEF Sending
  <2>2. \A v, u \in Busy(tasks') : Head(tasks'[v].queue) = Head(tasks'[u].queue) => v = u
    BY <1>2, <1>3 DEF ExecInv, Exact
  <2> QED BY <2>1, <2>2 DEF ExecInv, Exact
<1>6. Dead'
  BY DEF ExecInv, Dead
<1>7. AllPast(claims, tasks)'
  <2> SUFFICES ASSUME NEW i \in DOMAIN claims PROVE Past(claims[i], tasks')
    BY DEF AllPast
  <2>1. Past(claims[i], tasks) /\ claims[i].task \in DOMAIN tasks
    BY DEF ExecInv, AllPast, Past
  <2> QED BY <1>2, <2>1 DEF Past
<1> QED BY <1>2, <1>4, <1>5, <1>6, <1>7, Leftover

LEMMA EventStep ==
  ASSUME ExecInv, Cross \/ ScanTime
  PROVE  ExecInv'
<1>1. watched \in SUBSET Rules /\ now \in Nat /\ time_fired \in SUBSET TimeRules
  BY DEF ExecInv, Typed
<1>2. CASE Cross
  <2>1. PICK ms \in SUBSET (watched \ TimeRules) \ {{}}, corr \in Correlations : Spawn(ms, corr)
    BY <1>2 DEF Cross
  <2>2. ms \in SUBSET Rules /\ corr \in Corrs
    BY <1>1 DEF Corrs
  <2> QED BY <1>1, <1>2, <2>1, <2>2, SpawnStep DEF Cross
<1>3. CASE ScanTime
  <2> DEFINE active == watched \cap TimeRules
             fresh  == IF active = {} THEN {} ELSE time_fired \cap active
             due    == {r \in active : r \notin fresh /\ now >= DueAt[r]}
  <2>1. fresh \cup due \in SUBSET TimeRules /\ due \in SUBSET Rules
    BY <1>1
  <2>2. /\ time_fired' = fresh \cup due
        /\ IF due = {} THEN UNCHANGED tasks ELSE Spawn(due, <<"time", now>>)
        /\ UNCHANGED <<now, acct, watched, dedupe, net, claims, faults>>
    BY <1>3 DEF ScanTime
  <2> HIDE DEF due, fresh
  <2>3. CASE due = {}
    <3>1. UNCHANGED tasks
      BY <2>2, <2>3
    <3>2. Typed'
      BY <2>1, <2>2, <3>1 DEF ExecInv, Typed
    <3>3. Exact' /\ Dead' /\ AllPast(claims, tasks)' /\ AllQueued(tasks')
      BY <2>2, <3>1 DEF ExecInv, Exact, Dead
    <3> QED BY <2>2, <3>2, <3>3, Leftover
  <2>4. CASE due # {}
    <3>1. Spawn(due, <<"time", now>>)
      BY <2>2, <2>4
    <3>2. <<"time", now>> \in Corrs
      BY <1>1 DEF Corrs
    <3> QED BY <2>1, <2>2, <3>1, <3>2, SpawnStep
  <2> QED BY <2>3, <2>4
<1> QED BY <1>2, <1>3

-----------------------------------------------------------------------------
LEMMA ExecInit == Init => ExecInv
<1> SUFFICES ASSUME Init PROVE ExecInv
  OBVIOUS
<1> USE DEF Init
<1>1. acct \in [Rules -> Account]
  <2> SUFFICES ASSUME NEW r \in Rules PROVE acct[r] \in Account
    OBVIOUS
  <2>1. Plans[r] \in [cadence : Cadences, min_interval : Nat]
    BY ExecutorAssumption
  <2>2. 0 \in 0..U32Max
    BY WidthAssumption
  <2> QED BY <2>1, <2>2 DEF Account
<1>2. Typed
  BY <1>1 DEF Typed
<1>3. DOMAIN tasks = {} /\ DOMAIN claims = {} /\ Len(claims) = 0
  OBVIOUS
<1>4. Exact /\ Dead /\ AllQueued(tasks)
  BY <1>3 DEF Exact, Dead, AllQueued, Sending, Busy
<1>5. Recent(dedupe.recent_order, claims)
  BY ExecutorAssumption, <1>3 DEF Recent
<1>6. AllPast(claims, tasks) /\ Apart(claims) /\ Ordered(claims)
  BY <1>3 DEF AllPast, Apart, Ordered
<1> QED BY <1>2, <1>4, <1>5, <1>6 DEF ExecInv

(* A claim is refused without a trace, or taken by one task alone.            *)
LEMMA ClaimStep ==
  ASSUME ExecInv, NEW t \in Tasks, Claim(t)
  PROVE  ExecInv'
<1> DEFINE r == Head(tasks[t].queue)
           corr == tasks[t].corr
           c == [rule |-> r, corr |-> corr, task |-> t]
<1>1. /\ tasks \in Seq(TaskRec) /\ AllQueued(tasks) /\ t \in DOMAIN tasks
      /\ tasks[t].stage = Idle /\ tasks[t].queue # <<>> /\ t \in Nat
      /\ tasks[t].queue \in Seq(Rules) /\ corr \in Corrs
  <2>1. tasks \in Seq(TaskRec) /\ AllQueued(tasks) /\ t \in DOMAIN tasks
    BY DEF ExecInv, Typed, Tasks
  <2>2. tasks[t].stage = Idle /\ tasks[t].queue # <<>>
    BY DEF Claim
  <2>3. tasks[t] \in TaskRec /\ t \in Nat
    BY <2>1
  <2> QED BY <2>1, <2>2, <2>3 DEF TaskRec
<1>2. r \in Rules /\ r = tasks[t].queue[1] /\ 1 \in 1..Len(tasks[t].queue)
  BY <1>1
<1>3. UNCHANGED <<now, acct, watched, time_fired, net, faults>>
  BY DEF Claim
<1>4. CASE MayClaim(r, corr)
  <2>1. dedupe' = claimed(r, corr) /\ claims' = Append(claims, c) /\ Attempt(t, "send")
    BY <1>4 DEF Claim
  <2>2. /\ tasks' \in Seq(TaskRec) /\ AllQueued(tasks')
        /\ DOMAIN tasks' = DOMAIN tasks
        /\ \A u \in DOMAIN tasks : tasks'[u].queue = tasks[u].queue
        /\ \A u \in DOMAIN tasks \ {t} : tasks'[u].stage = tasks[u].stage
        /\ tasks'[t].stage # Idle
    BY <1>1, <2>1, Attempted
  <2>3. c \in ClaimRec
    BY <1>1, <1>2 DEF ClaimRec
  <2>4. /\ dedupe \in [terminal_fired : SUBSET Rules, recent_order : Seq(Rules \X Corrs),
                        in_flight : SUBSET Rules]
        /\ claims \in Seq(ClaimRec) /\ Recent(dedupe.recent_order, claims)
        /\ Apart(claims) /\ Ordered(claims) /\ AllPast(claims, tasks)
    BY DEF ExecInv, Typed
  <2>5. /\ dedupe'.recent_order = Remember(dedupe.recent_order, <<r, corr>>)
        /\ dedupe'.in_flight = dedupe.in_flight \cup {r}
        /\ dedupe'.terminal_fired = dedupe.terminal_fired
        /\ DOMAIN dedupe' = DOMAIN dedupe
    BY <2>1, <2>4 DEF claimed
  <2>6. /\ <<r, corr>> \notin Range(dedupe.recent_order)
        /\ r \notin dedupe.in_flight
    BY <1>4 DEF MayClaim, recent_triggers
  <2>7. c.rule = r /\ c.corr = corr /\ c.task = t
    OBVIOUS
  <2> HIDE DEF c, r, corr
  <2>8. /\ dedupe'.recent_order \in Seq(Rules \X Corrs)
        /\ Recent(dedupe'.recent_order, claims')
    BY <2>1, <2>3, <2>4, <2>5, <2>7, RecentKept
  <2>9. Apart(claims')
    BY <2>1, <2>3, <2>4, <2>6, <2>7, ApartKept
  <2>10. /\ claims' \in Seq(ClaimRec) /\ DOMAIN claims' = 1..Len(claims) + 1
         /\ DOMAIN claims = 1..Len(claims) /\ Len(claims) \in Nat
         /\ claims'[Len(claims) + 1] = c /\ \A i \in DOMAIN claims : claims'[i] = claims[i]
    BY <2>1, <2>3, <2>4
  <2>11. Ordered(claims')
    <3>1. \A i \in DOMAIN claims : claims[i].task = c.task => claims[i].rule < c.rule
      BY <1>1, <1>2, <2>4, <2>7 DEF AllPast, Past
    <3> QED BY <2>1, <2>3, <2>4, <3>1, OrderedKept
  <2>12. AllPast(claims, tasks)'
    <3> SUFFICES ASSUME NEW i \in DOMAIN claims' PROVE Past(claims'[i], tasks')
      BY DEF AllPast
    <3>1. CASE i = Len(claims) + 1
      <4>1. claims'[i] = c
        BY <2>10, <3>1
      <4>2. \A q \in 1..Len(tasks[t].queue) : q = 1 \/ r < tasks[t].queue[q]
        BY <1>1, <1>2 DEF AllQueued, Queued
      <4> QED BY <1>1, <1>2, <2>2, <2>7, <4>1, <4>2 DEF Past
    <3>2. CASE i \in DOMAIN claims
      <4>1. claims'[i] = claims[i] /\ Past(claims[i], tasks)
        BY <2>4, <2>10, <3>2 DEF AllPast
      <4>2. CASE claims[i].task = t
        BY <1>1, <2>2, <4>1, <4>2 DEF Past
      <4>3. CASE claims[i].task # t
        BY <2>2, <4>1, <4>3 DEF Past
      <4> QED BY <4>2, <4>3
    <3> QED BY <2>10, <3>1, <3>2
  <2>13. Busy(tasks') = Busy(tasks) \cup {t} /\ Busy(tasks) \subseteq DOMAIN tasks
    BY <1>1, <2>2 DEF Busy
  <2>14. Exact'
    <3>1. /\ dedupe.in_flight = Sending(tasks)
          /\ \A v, u \in Busy(tasks) : Head(tasks[v].queue) = Head(tasks[u].queue) => v = u
      BY DEF ExecInv, Exact
    <3>2. Sending(tasks') = Sending(tasks) \cup {r}
      <4>1. \A u \in Busy(tasks') : Head(tasks'[u].queue) = Head(tasks[u].queue)
        BY <1>1, <2>2, <2>13
      <4>2. Sending(tasks') = {Head(tasks[u].queue) : u \in Busy(tasks')}
        BY <4>1 DEF Sending
      <4>3. Sending(tasks') = {Head(tasks[u].queue) : u \in Busy(tasks)} \cup {Head(tasks[t].queue)}
        BY <2>13, <4>2
      <4> QED BY <4>3 DEF Sending, r
    <3>3. \A u \in Busy(tasks) : Head(tasks[u].queue) # Head(tasks[t].queue)
      BY <2>6, <3>1 DEF Sending, r
    <3>4. \A v, u \in Busy(tasks') : Head(tasks'[v].queue) = Head(tasks'[u].queue) => v = u
      BY <1>1, <2>2, <2>13, <3>1, <3>3
    <3> QED BY <2>5, <3>1, <3>2, <3>4 DEF Exact
  <2>15. Dead'
    BY <1>3, <2>5 DEF ExecInv, Dead
  <2>16. Typed'
    <3>1. dedupe' = [terminal_fired |-> dedupe.terminal_fired, in_flight |-> dedupe.in_flight \cup {r},
                     recent_order |-> Remember(dedupe.recent_order, <<r, corr>>)]
      BY <2>1, <2>4 DEF claimed
    <3>2. dedupe' \in [terminal_fired : SUBSET Rules, recent_order : Seq(Rules \X Corrs),
                       in_flight : SUBSET Rules]
      BY <1>2, <2>4, <2>5, <2>8, <3>1
    <3> QED BY <1>3, <2>2, <2>10, <3>2 DEF ExecInv, Typed
  <2> QED BY <2>2, <2>8, <2>9, <2>11, <2>12, <2>14, <2>15, <2>16 DEF ExecInv
<1>5. CASE ~ MayClaim(r, corr)
  <2>1. NextMatch(t) /\ UNCHANGED <<dedupe, claims>>
    BY <1>5 DEF Claim
  <2>2. /\ tasks' \in Seq(TaskRec) /\ AllQueued(tasks')
        /\ DOMAIN tasks' = DOMAIN tasks
        /\ \A u \in DOMAIN tasks \ {t} : tasks'[u] = tasks[u]
        /\ tasks'[t].stage = Idle
        /\ Len(tasks'[t].queue) = Len(tasks[t].queue) - 1
        /\ \A q \in 1..Len(tasks'[t].queue) : tasks'[t].queue[q] = tasks[t].queue[q + 1]
    BY <1>1, <2>1, Moved
  <2>3. Busy(tasks') = Busy(tasks) /\ t \notin Busy(tasks) /\ Busy(tasks) \subseteq DOMAIN tasks
    BY <1>1, <2>2 DEF Busy
  <2>4. Exact'
    <3>1. Sending(tasks') = Sending(tasks)
      BY <2>2, <2>3 DEF Sending
    <3>2. \A v, u \in Busy(tasks') : Head(tasks'[v].queue) = Head(tasks'[u].queue) => v = u
      BY <2>2, <2>3 DEF ExecInv, Exact
    <3> QED BY <2>1, <3>1, <3>2 DEF ExecInv, Exact
  <2>5. Typed' /\ Dead'
    BY <1>3, <2>1, <2>2 DEF ExecInv, Typed, Dead
  <2>6. AllPast(claims, tasks)'
    <3> SUFFICES ASSUME NEW i \in DOMAIN claims PROVE Past(claims[i], tasks')
      BY <2>1 DEF AllPast
    <3>1. Past(claims[i], tasks) /\ claims[i].task \in DOMAIN tasks
      BY DEF ExecInv, AllPast, Past
    <3>2. CASE claims[i].task # t
      BY <2>2, <3>1, <3>2 DEF Past
    <3>3. CASE claims[i].task = t
      <4>1. \A q \in 1..Len(tasks'[t].queue) : q + 1 \in 1..Len(tasks[t].queue)
        BY <1>1, <2>2
      <4> QED BY <1>1, <2>2, <3>1, <3>3, <4>1 DEF Past
    <3> QED BY <3>2, <3>3
  <2> QED BY <2>1, <2>2, <2>4, <2>5, <2>6, Leftover
<1> QED BY <1>4, <1>5

(* The chain and the clock do not touch claims, and a finished rule stays so. *)
LEMMA ChainStep ==
  ASSUME ExecInv, Tick \/ \E r \in Rules : Land(r) \/ Expire(r) \/ Prune(r)
  PROVE  ExecInv'
<1>1. /\ now \in Nat /\ acct \in [Rules -> Account] /\ net \in [Rules -> Nat]
      /\ dedupe.terminal_fired \subseteq Rules
  BY DEF ExecInv, Typed
<1>2. UNCHANGED <<tasks, dedupe, claims, time_fired>>
  BY DEF Tick, Land, Expire, Prune
<1>3. ASSUME NEW r \in Rules
      PROVE  Executed(acct[r]) \in Account /\ (acct[r].finished => Executed(acct[r]).finished)
  <2> DEFINE a == acct[r]
  <2>1. a \in Account
    BY <1>1
  <2> HIDE DEF a
  <2>2. [a EXCEPT !.finished = TRUE] \in Account /\ [a EXCEPT !.finished = TRUE].finished
    BY <2>1 DEF Account
  <2>3. advance(a, now) \in Account /\ (a.finished => advance(a, now).finished)
    <3> DEFINE n == Smaller(a.executions + 1, U32Max)
               over == \/ a.finished \/ a.cadence.kind = "Once"
                       \/ a.cadence.kind = "Repeat" /\ n >= a.cadence.total
    <3>1. n \in 0..U32Max
      BY <2>1, WidthAssumption DEF Account, Smaller
    <3>2. over \in BOOLEAN
      BY <2>1 DEF Account
    <3>0. advance(a, now) = [a EXCEPT !.executions = n, !.executed_at = now, !.finished = over]
      BY DEF advance
    <3> HIDE DEF n, over
    <3>3. advance(a, now) = [cadence |-> a.cadence, min_interval |-> a.min_interval,
                             executions |-> n, executed_at |-> now, finished |-> over]
      BY <2>1, <3>0 DEF Account
    <3>4. advance(a, now) \in Account
      BY <1>1, <2>1, <3>1, <3>2, <3>3 DEF Account
    <3>5. advance(a, now).finished = over
      BY <3>3
    <3> QED BY <3>4, <3>5 DEF over
  <2>4. Executed(a) \in Account /\ (a.finished => Executed(a).finished)
    BY <2>1, <2>2, <2>3 DEF Executed
  <2> QED BY <2>4 DEF a
<1>4. acct' \in [Rules -> Account] /\ \A r \in Rules : acct[r].finished => acct'[r].finished
  <2>1. CASE \E r \in Rules : Land(r)
    <3>1. PICK r \in Rules : Land(r)
      BY <2>1
    <3>2. acct' = [acct EXCEPT ![r] = Executed(acct[r])]
      BY <3>1 DEF Land
    <3> QED BY <1>1, <1>3, <3>2
  <2>2. CASE UNCHANGED acct
    BY <1>1, <2>2
  <2> QED BY <2>1, <2>2 DEF Tick, Expire, Prune
<1>5. net' \in [Rules -> Nat] /\ now' \in Nat /\ faults' \in Nat /\ watched' \in SUBSET Rules
  BY <1>1 DEF ExecInv, Typed, Tick, Land, Expire, Prune
<1>6. Typed'
  BY <1>2, <1>4, <1>5 DEF ExecInv, Typed
<1>7. Dead'
  BY <1>1, <1>2, <1>4 DEF ExecInv, Dead
<1>8. Exact' /\ AllQueued(tasks') /\ AllPast(claims, tasks)'
  BY <1>2 DEF ExecInv, Exact
<1> QED BY <1>2, <1>6, <1>7, <1>8, Leftover

LEMMA SendStep ==
  ASSUME ExecInv, NEW t \in Tasks, Send(t) \/ SendRejected(t) \/ SendFails(t)
  PROVE  ExecInv'
<1> DEFINE r == Head(tasks[t].queue)
<1>1. /\ tasks[t].stage \in {"send", "escalate"} /\ NextMatch(t)
      /\ UNCHANGED <<now, acct, watched, time_fired, claims>>
  BY DEF Send, SendRejected, SendFails
<1>2. /\ dedupe \in [terminal_fired : SUBSET Rules, recent_order : Seq(Rules \X Corrs),
                      in_flight : SUBSET Rules]
      /\ net \in [Rules -> Nat] /\ faults \in Nat
      /\ t \in DOMAIN tasks
  BY DEF ExecInv, Typed, Tasks
<1>3. r \in Rules
  <2>1. tasks \in Seq(TaskRec) /\ tasks[t].queue # <<>>
    BY <1>1, <1>2, ExecutorAssumption DEF ExecInv, Typed, AllQueued, Queued
  <2>2. tasks[t].queue \in Seq(Rules)
    BY <1>2, <2>1, TaskDomain DEF TaskRec
  <2> QED BY <2>1, <2>2
<1> HIDE DEF r
<1>4. /\ dedupe'.in_flight = dedupe.in_flight \ {r}
      /\ dedupe'.recent_order = dedupe.recent_order
      /\ \/ dedupe'.terminal_fired = dedupe.terminal_fired
         \/ /\ dedupe'.terminal_fired = dedupe.terminal_fired \cup {r}
            /\ acct[r].finished
      /\ dedupe' = [terminal_fired |-> dedupe'.terminal_fired, in_flight |-> dedupe'.in_flight,
                    recent_order |-> dedupe'.recent_order]
  <2>1. CASE Send(t)
    <3>1. dedupe' = [dedupe EXCEPT !.in_flight = @ \ {r}]
      BY <2>1 DEF Send, release_success, r
    <3> QED BY <1>2, <3>1
  <2>2. CASE SendRejected(t)
    <3>1. dedupe' = release_failure(r, acct[r].finished)
      BY <2>2 DEF SendRejected, r
    <3> QED BY <1>2, <3>1 DEF release_failure
  <2>3. CASE SendFails(t)
    <3>1. dedupe' = release_failure(r, FALSE)
      BY <2>3 DEF SendFails, r
    <3> QED BY <1>2, <3>1 DEF release_failure
  <2> QED BY <2>1, <2>2, <2>3
<1>5. /\ tasks' \in Seq(TaskRec) /\ AllQueued(tasks') /\ Exact'
      /\ AllPast(claims, tasks)'
  BY <1>1, <1>2, <1>4, Released DEF r
<1>6. net' \in [Rules -> Nat] /\ faults' \in Nat
  <2>1. CASE Send(t)
    <3>1. net' = [net EXCEPT ![r] = @ + 1] /\ faults' = faults
      BY <2>1 DEF Send, r
    <3> QED BY <1>2, <1>3, <3>1
  <2>2. CASE SendRejected(t)
    BY <1>2, <2>2 DEF SendRejected
  <2>3. CASE SendFails(t)
    BY <1>2, <2>3 DEF SendFails
  <2> QED BY <2>1, <2>2, <2>3
<1>7. Typed'
  BY <1>1, <1>2, <1>3, <1>4, <1>5, <1>6 DEF ExecInv, Typed
<1>8. Dead'
  BY <1>1, <1>4 DEF ExecInv, Dead
<1> QED BY <1>1, <1>4, <1>5, <1>7, <1>8, Leftover

(* The second attempt with a fresh blockhash keeps the claim.                 *)
LEMMA EscalateStep ==
  ASSUME ExecInv, NEW t \in Tasks, SendExpired(t)
  PROVE  ExecInv'
<1>1. /\ tasks[t].stage = "send" /\ Attempt(t, "escalate") /\ faults' = faults + 1
      /\ UNCHANGED <<now, acct, watched, time_fired, dedupe, net, claims>>
  BY DEF SendExpired
<1>2. tasks \in Seq(TaskRec) /\ AllQueued(tasks) /\ t \in DOMAIN tasks /\ faults \in Nat
  BY DEF ExecInv, Typed, Tasks
<1>3. tasks[t].stage # Idle /\ tasks[t].queue # <<>>
  BY <1>1, <1>2, ExecutorAssumption DEF AllQueued, Queued
<1>4. /\ tasks' \in Seq(TaskRec) /\ AllQueued(tasks')
      /\ DOMAIN tasks' = DOMAIN tasks
      /\ \A u \in DOMAIN tasks : tasks'[u].queue = tasks[u].queue
      /\ \A u \in DOMAIN tasks \ {t} : tasks'[u].stage = tasks[u].stage
      /\ tasks'[t].stage # Idle
  BY <1>1, <1>2, <1>3, Attempted
<1>5. Busy(tasks') = Busy(tasks) /\ Busy(tasks) \subseteq DOMAIN tasks
  BY <1>2, <1>3, <1>4 DEF Busy
<1>6. Exact'
  <2>1. Sending(tasks') = Sending(tasks)
    BY <1>4, <1>5 DEF Sending
  <2>2. \A v, u \in Busy(tasks') : Head(tasks'[v].queue) = Head(tasks'[u].queue) => v = u
    BY <1>4, <1>5 DEF ExecInv, Exact
  <2> QED BY <1>1, <2>1, <2>2 DEF ExecInv, Exact
<1>7. AllPast(claims, tasks)'
  <2> SUFFICES ASSUME NEW i \in DOMAIN claims PROVE Past(claims[i], tasks')
    BY <1>1 DEF AllPast
  <2>1. Past(claims[i], tasks)
    BY DEF ExecInv, AllPast
  <2>2. CASE claims[i].task = t
    BY <1>3, <1>4, <2>1, <2>2 DEF Past
  <2>3. CASE claims[i].task # t
    BY <1>4, <2>1, <2>3 DEF Past
  <2> QED BY <2>2, <2>3
<1>8. Typed' /\ Dead'
  BY <1>1, <1>2, <1>4 DEF ExecInv, Typed, Dead
<1> QED BY <1>1, <1>4, <1>6, <1>7, <1>8, Leftover

LEMMA ExecNext == ExecInv /\ [Next]_vars => ExecInv'
<1> SUFFICES ASSUME ExecInv, [Next]_vars PROVE ExecInv'
  OBVIOUS
<1>1. CASE Cross \/ ScanTime
  BY <1>1, EventStep
<1>2. CASE \E t \in Tasks : TaskStep(t)
  BY <1>2, ClaimStep, SendStep, EscalateStep DEF TaskStep
<1>3. CASE Tick \/ \E r \in Rules : Land(r) \/ Expire(r) \/ Prune(r)
  BY <1>3, ChainStep
<1>4. CASE UNCHANGED vars
  <2>1. Typed' /\ Exact' /\ Dead' /\ AllQueued(tasks') /\ AllPast(claims, tasks)'
    BY <1>4 DEF vars, ExecInv, Typed, Exact, Dead
  <2> QED BY <1>4, <2>1, Leftover DEF vars
<1> QED BY <1>1, <1>2, <1>3, <1>4 DEF Next

LEMMA ExecInvariant == Spec => []ExecInv
  BY ExecInit, ExecNext, PTL DEF Spec

LEMMA InvExact == ExecInv => InFlightExact
<1> SUFFICES ASSUME ExecInv PROVE InFlightExact
  OBVIOUS
<1>1. Exact /\ Dead
  BY DEF ExecInv
<1>2. {t \in Tasks : tasks[t].stage # Idle} = Busy(tasks)
  BY DEF Tasks, Busy
<1> QED BY <1>1, <1>2 DEF InFlightExact, Exact, Dead, Sending

LEMMA InvWindow == ExecInv => ReplayWindow
  BY DEF ExecInv, ReplayWindow, Apart, Ordered

(* For any number of rules and of concurrent events, and however sends fail,  *)
(* in_flight is the set of rules being sent, each by one task, and only dead  *)
(* rules are given up (try_claim, release_success, release_failure).          *)
THEOREM ClaimsAreExact == Spec => []InFlightExact
  BY ExecInvariant, InvExact, PTL

(* For a cache of any size no trigger claims a rule again within that many    *)
(* claims, and the rules of an event are claimed oldest first (try_claim,     *)
(* sort_matches_for_queue).                                                   *)
THEOREM ReplaysAreRefused == Spec => []ReplayWindow
  BY ExecInvariant, InvWindow, PTL

-----------------------------------------------------------------------------
(* The bounds of the state: no event sends for a rule twice.                  *)

(* The tasks that have not done with a rule.                                  *)
Waiting(r, ts) == {t \in DOMAIN ts : \E q \in 1..Len(ts[t].queue) : ts[t].queue[q] = r}

(* A rule's transactions under way and the tasks that may still send one are  *)
(* together no more than the events.                                          *)
OncePerEvent(ts, n) ==
  /\ Len(ts) <= MaxEvents
  /\ \A r \in Rules : n[r] + Cardinality(Waiting(r, ts)) <= Len(ts)

Bounded ==
  /\ now \in 1..MaxTime /\ faults \in 0..MaxFaults
  /\ OncePerEvent(tasks, net)

LEMMA ExecBounds ==
  /\ MaxEvents \in Nat /\ MaxFaults \in Nat /\ MaxTime \in Nat \ {0}
  /\ Idle \notin {"send", "escalate"}
  BY ExecutorAssumption

LEMMA WaitingFinite ==
  ASSUME NEW ts \in Seq(TaskRec), NEW r
  PROVE  IsFiniteSet(Waiting(r, ts)) /\ Cardinality(Waiting(r, ts)) \in Nat
<1>1. Len(ts) \in Nat /\ DOMAIN ts = 1..Len(ts)
  OBVIOUS
<1>2. IsFiniteSet(1..Len(ts))
  BY <1>1, FS_Interval
<1>3. Waiting(r, ts) \subseteq 1..Len(ts)
  BY <1>1 DEF Waiting
<1>4. IsFiniteSet(Waiting(r, ts))
  BY <1>2, <1>3, FS_Subset
<1> QED BY <1>4, FS_CardinalityType

(* Tasks move on, and what is under way becomes no more.                      *)
LEMMA FewerWaiting ==
  ASSUME NEW ts \in Seq(TaskRec), NEW us \in Seq(TaskRec), Len(us) = Len(ts),
         NEW n \in [Rules -> Nat], NEW m \in [Rules -> Nat], OncePerEvent(ts, n),
         \A r \in Rules : m[r] <= n[r] /\ Waiting(r, us) \subseteq Waiting(r, ts)
  PROVE  OncePerEvent(us, m)
<1>1. ASSUME NEW r \in Rules
      PROVE  m[r] + Cardinality(Waiting(r, us)) <= Len(us)
  <2>1. Cardinality(Waiting(r, us)) <= Cardinality(Waiting(r, ts))
    BY WaitingFinite, FS_Subset
  <2>2. Cardinality(Waiting(r, us)) \in Nat /\ Cardinality(Waiting(r, ts)) \in Nat
    BY WaitingFinite
  <2>3. n[r] + Cardinality(Waiting(r, ts)) <= Len(ts) /\ Len(ts) \in Nat
        /\ m[r] <= n[r] /\ m[r] \in Nat /\ n[r] \in Nat
    BY DEF OncePerEvent
  <2> QED BY <2>1, <2>2, <2>3
<1> QED BY <1>1 DEF OncePerEvent

(* A new event may send each of its rules once.                               *)
LEMMA SpawnCounts ==
  ASSUME ExecInv, Bounded, NEW ms \in SUBSET Rules, NEW corr \in Corrs, Spawn(ms, corr),
         UNCHANGED net
  PROVE  OncePerEvent(tasks, net)'
<1>1. /\ tasks \in Seq(TaskRec) /\ AllQueued(tasks) /\ net \in [Rules -> Nat]
      /\ OncePerEvent(tasks, net)
  BY DEF ExecInv, Typed, Bounded
<1>2. /\ tasks' \in Seq(TaskRec) /\ \A t \in DOMAIN tasks : tasks'[t] = tasks[t]
  BY <1>1, Spawned
<1>3. PICK k : tasks' = Append(tasks, k) /\ Len(tasks) < MaxEvents
  BY DEF Spawn
<1>4. /\ Len(tasks') = Len(tasks) + 1 /\ Len(tasks) \in Nat
      /\ DOMAIN tasks' = DOMAIN tasks \cup {Len(tasks) + 1}
  <2>1. tasks \in Seq(TaskRec \cup {k}) /\ k \in TaskRec \cup {k}
    BY <1>1
  <2>2. Len(tasks') = Len(tasks) + 1
    BY <1>3, <2>1
  <2>3. DOMAIN tasks = 1..Len(tasks) /\ DOMAIN tasks' = 1..Len(tasks') /\ Len(tasks) \in Nat
    BY <1>1, <1>2
  <2> QED BY <2>2, <2>3
<1>5. ASSUME NEW r \in Rules
      PROVE  net[r] + Cardinality(Waiting(r, tasks')) <= Len(tasks')
  <2>1. Waiting(r, tasks') \subseteq Waiting(r, tasks) \cup {Len(tasks) + 1}
    BY <1>2, <1>4 DEF Waiting
  <2>2. IsFiniteSet(Waiting(r, tasks)) /\ Cardinality(Waiting(r, tasks)) \in Nat
        /\ Cardinality(Waiting(r, tasks')) \in Nat
    BY <1>1, <1>2, WaitingFinite
  <2>3. PICK more : more = Waiting(r, tasks) \cup {Len(tasks) + 1}
    OBVIOUS
  <2>4. /\ IsFiniteSet(more) /\ Cardinality(more) \in Nat
        /\ Cardinality(more) <= Cardinality(Waiting(r, tasks)) + 1
    <3>1. IsFiniteSet(more) /\ Cardinality(more) \in
            {Cardinality(Waiting(r, tasks)), Cardinality(Waiting(r, tasks)) + 1}
      BY <2>2, <2>3, FS_AddElement
    <3> QED BY <2>2, <3>1
  <2>5. Cardinality(Waiting(r, tasks')) <= Cardinality(more)
    BY <2>1, <2>3, <2>4, FS_Subset
  <2>6. net[r] + Cardinality(Waiting(r, tasks)) <= Len(tasks) /\ net[r] \in Nat
    BY <1>1 DEF OncePerEvent
  <2> QED BY <1>4, <2>2, <2>4, <2>5, <2>6
<1>6. Len(tasks') <= MaxEvents
  BY <1>3, <1>4, ExecBounds
<1> QED BY <1>5, <1>6 DEF OncePerEvent

LEMMA EventBounds ==
  ASSUME ExecInv, Bounded, Cross \/ ScanTime
  PROVE  Bounded'
<1>1. watched \in SUBSET Rules /\ now \in Nat
  BY DEF ExecInv, Typed
<1>2. UNCHANGED <<now, net, faults>>
  BY DEF Cross, ScanTime
<1>3. CASE UNCHANGED tasks
  BY <1>2, <1>3 DEF Bounded
<1>4. ASSUME NEW ms \in SUBSET Rules, NEW corr \in Corrs, Spawn(ms, corr)
      PROVE  Bounded'
  BY <1>2, <1>4, SpawnCounts DEF Bounded
<1>5. CASE Cross
  <2>1. PICK ms \in SUBSET (watched \ TimeRules) \ {{}}, corr \in Correlations : Spawn(ms, corr)
    BY <1>5 DEF Cross
  <2>2. ms \in SUBSET Rules /\ corr \in Corrs
    BY <1>1 DEF Corrs
  <2> QED BY <1>4, <2>1, <2>2
<1>6. CASE ScanTime
  <2>1. PICK due \in SUBSET watched : UNCHANGED tasks \/ Spawn(due, <<"time", now>>)
    BY <1>6 DEF ScanTime
  <2>2. due \in SUBSET Rules /\ <<"time", now>> \in Corrs
    BY <1>1 DEF Corrs
  <2> QED BY <1>3, <1>4, <2>1, <2>2
<1> QED BY <1>5, <1>6

(* A task that tries, or tries again, is still where it was.                  *)
LEMMA AttemptCounts ==
  ASSUME ExecInv, Bounded, NEW t \in Tasks, NEW stage \in {"send", "escalate"},
         tasks[t].queue # <<>>, Attempt(t, stage), UNCHANGED net
  PROVE  OncePerEvent(tasks, net)'
<1>1. /\ tasks \in Seq(TaskRec) /\ AllQueued(tasks) /\ net \in [Rules -> Nat]
      /\ OncePerEvent(tasks, net) /\ t \in DOMAIN tasks
  BY DEF ExecInv, Typed, Bounded, Tasks
<1>2. /\ tasks' \in Seq(TaskRec) /\ DOMAIN tasks' = DOMAIN tasks
      /\ \A u \in DOMAIN tasks : tasks'[u].queue = tasks[u].queue
  BY <1>1, Attempted
<1>3. Len(tasks') = Len(tasks)
  BY <1>1, <1>2
<1>4. \A r \in Rules : net[r] <= net[r] /\ Waiting(r, tasks') \subseteq Waiting(r, tasks)
  BY <1>1, <1>2 DEF Waiting
<1>5. OncePerEvent(tasks', net)
  BY <1>1, <1>2, <1>3, <1>4, FewerWaiting
<1> QED BY <1>5

(* A task that is done with a rule waits for it no more; nobody else starts.  *)
LEMMA MoveCounts ==
  ASSUME ExecInv, Bounded, NEW t \in Tasks, tasks[t].queue # <<>>, NextMatch(t)
  PROVE  /\ tasks' \in Seq(TaskRec) /\ Len(tasks') = Len(tasks)
         /\ \A r \in Rules : Waiting(r, tasks') \subseteq Waiting(r, tasks)
         /\ t \in Waiting(Head(tasks[t].queue), tasks)
         /\ t \notin Waiting(Head(tasks[t].queue), tasks')
<1>1. /\ tasks \in Seq(TaskRec) /\ AllQueued(tasks) /\ t \in DOMAIN tasks
      /\ tasks[t].queue \in Seq(Rules) /\ Queued(tasks[t])
  BY TaskDomain DEF ExecInv, Typed, Tasks, AllQueued, TaskRec
<1>2. /\ tasks' \in Seq(TaskRec) /\ DOMAIN tasks' = DOMAIN tasks
      /\ \A u \in DOMAIN tasks \ {t} : tasks'[u] = tasks[u]
      /\ tasks'[t].queue \in Seq(Rules)
      /\ Len(tasks'[t].queue) = Len(tasks[t].queue) - 1
      /\ \A q \in 1..Len(tasks'[t].queue) : tasks'[t].queue[q] = tasks[t].queue[q + 1]
  BY <1>1, Moved
<1>3. Len(tasks') = Len(tasks)
  BY <1>1, <1>2
<1>4. /\ Len(tasks[t].queue) \in Nat /\ Len(tasks[t].queue) # 0
      /\ Head(tasks[t].queue) = tasks[t].queue[1]
      /\ \A q \in 1..Len(tasks'[t].queue) : q + 1 \in 1..Len(tasks[t].queue) /\ 1 < q + 1
  BY <1>1, <1>2
<1>5. \A r \in Rules : Waiting(r, tasks') \subseteq Waiting(r, tasks)
  <2> SUFFICES ASSUME NEW r \in Rules, NEW u \in Waiting(r, tasks')
               PROVE  u \in Waiting(r, tasks)
    OBVIOUS
  <2>1. CASE u = t
    <3>1. PICK q \in 1..Len(tasks'[t].queue) : tasks'[t].queue[q] = r
      BY <2>1 DEF Waiting
    <3> QED BY <1>1, <1>2, <1>4, <2>1, <3>1 DEF Waiting
  <2>2. CASE u # t
    BY <1>2, <2>2 DEF Waiting
  <2> QED BY <2>1, <2>2
<1>6. t \in Waiting(Head(tasks[t].queue), tasks)
  BY <1>1, <1>4 DEF Waiting
<1>7. t \notin Waiting(Head(tasks[t].queue), tasks')
  <2> SUFFICES ASSUME NEW q \in 1..Len(tasks'[t].queue),
                      tasks'[t].queue[q] = Head(tasks[t].queue)
               PROVE  FALSE
    BY DEF Waiting
  <2>1. tasks[t].queue[q + 1] = tasks[t].queue[1] /\ q + 1 \in 1..Len(tasks[t].queue)
    BY <1>2, <1>4
  <2>2. 1 \in 1..Len(tasks[t].queue) /\ tasks[t].queue[1] < tasks[t].queue[q + 1]
    BY <1>1, <1>4, <2>1 DEF Queued
  <2>3. tasks[t].queue[1] \in Nat
    <3>1. tasks[t].queue[1] \in Rules
      BY <1>1, <2>2
    <3> QED BY <3>1, ExecutorAssumption
  <2> QED BY <2>1, <2>2, <2>3
<1> QED BY <1>2, <1>3, <1>5, <1>6, <1>7

(* The transaction that is sent takes the place of its task.                  *)
LEMMA SendCounts ==
  ASSUME ExecInv, Bounded, NEW t \in Tasks, tasks[t].queue # <<>>, NextMatch(t),
         net' = [net EXCEPT ![Head(tasks[t].queue)] = @ + 1]
  PROVE  OncePerEvent(tasks, net)'
<1>1. /\ tasks \in Seq(TaskRec) /\ net \in [Rules -> Nat] /\ OncePerEvent(tasks, net)
      /\ tasks[t].queue \in Seq(Rules)
  BY TaskDomain DEF ExecInv, Typed, Bounded, Tasks, TaskRec
<1>2. /\ tasks' \in Seq(TaskRec) /\ Len(tasks') = Len(tasks)
      /\ \A r \in Rules : Waiting(r, tasks') \subseteq Waiting(r, tasks)
      /\ t \in Waiting(Head(tasks[t].queue), tasks)
      /\ t \notin Waiting(Head(tasks[t].queue), tasks')
  BY MoveCounts
<1>3. PICK s \in Rules : s = Head(tasks[t].queue)
  BY <1>1
<1>4. ASSUME NEW r \in Rules
      PROVE  net'[r] + Cardinality(Waiting(r, tasks')) <= Len(tasks')
  <2>1. /\ IsFiniteSet(Waiting(r, tasks)) /\ Cardinality(Waiting(r, tasks)) \in Nat
        /\ IsFiniteSet(Waiting(r, tasks')) /\ Cardinality(Waiting(r, tasks')) \in Nat
    BY <1>1, <1>2, WaitingFinite
  <2>2. net[r] + Cardinality(Waiting(r, tasks)) <= Len(tasks) /\ net[r] \in Nat
        /\ Len(tasks) \in Nat
    BY <1>1 DEF OncePerEvent
  <2>3. CASE r = s
    <3>1. net'[r] = net[r] + 1
      BY <1>1, <1>3, <2>3
    <3>2. PICK less : less = Waiting(r, tasks) \ {t}
      OBVIOUS
    <3>3. /\ IsFiniteSet(less) /\ Cardinality(less) = Cardinality(Waiting(r, tasks)) - 1
      BY <1>2, <1>3, <2>1, <2>3, <3>2, FS_RemoveElement
    <3>4. Waiting(r, tasks') \subseteq less
      BY <1>2, <1>3, <2>3, <3>2
    <3>5. Cardinality(Waiting(r, tasks')) <= Cardinality(less)
      BY <3>3, <3>4, FS_Subset
    <3> QED BY <1>2, <2>1, <2>2, <3>1, <3>3, <3>5
  <2>4. CASE r # s
    <3>1. net'[r] = net[r]
      BY <1>1, <1>3, <2>4
    <3>2. Cardinality(Waiting(r, tasks')) <= Cardinality(Waiting(r, tasks))
      BY <1>2, <2>1, FS_Subset
    <3> QED BY <1>2, <2>1, <2>2, <3>1, <3>2
  <2> QED BY <2>3, <2>4
<1> QED BY <1>1, <1>2, <1>4 DEF OncePerEvent

LEMMA TaskBounds ==
  ASSUME ExecInv, Bounded, NEW t \in Tasks, TaskStep(t)
  PROVE  Bounded'
<1>1. /\ tasks \in Seq(TaskRec) /\ net \in [Rules -> Nat] /\ OncePerEvent(tasks, net)
      /\ Queued(tasks[t]) /\ now \in 1..MaxTime /\ faults \in 0..MaxFaults
  BY DEF ExecInv, Typed, Bounded, Tasks, AllQueued
<1>2. tasks[t].queue # <<>>
  <2>1. tasks[t].stage # Idle \/ tasks[t].queue # <<>>
    BY ExecBounds DEF TaskStep, Claim, Send, SendRejected, SendExpired, SendFails
  <2> QED BY <1>1, <2>1 DEF Queued
<1>3. now' = now
  BY DEF TaskStep, Claim, Send, SendRejected, SendExpired, SendFails
<1>4. faults' \in 0..MaxFaults
  <2>1. CASE Claim(t) \/ Send(t) \/ SendRejected(t)
    <3>1. faults' = faults
      BY <2>1 DEF Claim, Send, SendRejected
    <3> QED BY <1>1, <3>1
  <2>2. CASE SendExpired(t) \/ SendFails(t)
    <3>1. faults < MaxFaults /\ faults' = faults + 1
      BY <2>2 DEF SendExpired, SendFails
    <3> QED BY <1>1, <3>1, ExecBounds
  <2> QED BY <2>1, <2>2 DEF TaskStep
<1>5. CASE NextMatch(t) /\ UNCHANGED net
  <2>1. /\ tasks' \in Seq(TaskRec) /\ Len(tasks') = Len(tasks)
        /\ \A r \in Rules : Waiting(r, tasks') \subseteq Waiting(r, tasks)
    BY <1>2, <1>5, MoveCounts
  <2>2. \A r \in Rules : net[r] <= net[r] /\ Waiting(r, tasks') \subseteq Waiting(r, tasks)
    BY <1>1, <2>1
  <2>3. OncePerEvent(tasks', net)
    BY <1>1, <2>1, <2>2, FewerWaiting
  <2>4. OncePerEvent(tasks, net)'
    BY <1>5, <2>3
  <2> QED BY <1>1, <1>3, <1>4, <2>4 DEF Bounded
<1>6. ASSUME NEW stage \in {"send", "escalate"}, Attempt(t, stage), UNCHANGED net
      PROVE  Bounded'
  BY <1>1, <1>2, <1>3, <1>4, <1>6, AttemptCounts DEF Bounded
<1>7. CASE Claim(t)
  BY <1>5, <1>6, <1>7 DEF Claim
<1>8. CASE Send(t)
  <2>1. NextMatch(t) /\ net' = [net EXCEPT ![Head(tasks[t].queue)] = @ + 1]
    BY <1>8 DEF Send
  <2> QED BY <1>1, <1>2, <1>3, <1>4, <2>1, SendCounts DEF Bounded
<1>9. CASE SendRejected(t)
  BY <1>5, <1>9 DEF SendRejected
<1>10. CASE SendExpired(t)
  BY <1>6, <1>10 DEF SendExpired
<1>11. CASE SendFails(t)
  BY <1>5, <1>11 DEF SendFails
<1> QED BY <1>7, <1>8, <1>9, <1>10, <1>11 DEF TaskStep

LEMMA ChainBounds ==
  ASSUME ExecInv, Bounded, Tick \/ \E r \in Rules : Land(r) \/ Expire(r) \/ Prune(r)
  PROVE  Bounded'
<1>1. /\ tasks \in Seq(TaskRec) /\ net \in [Rules -> Nat] /\ OncePerEvent(tasks, net)
      /\ now \in 1..MaxTime /\ faults \in 0..MaxFaults /\ UNCHANGED tasks
  BY DEF ExecInv, Typed, Bounded, Tick, Land, Expire, Prune
<1>2. now' \in 1..MaxTime /\ faults' \in 0..MaxFaults
  BY <1>1, ExecBounds DEF Tick, Land, Expire, Prune
<1>3. net' \in [Rules -> Nat] /\ \A r \in Rules : net'[r] <= net[r]
  <2>1. CASE UNCHANGED net
    BY <1>1, <2>1
  <2>2. ASSUME NEW r \in Rules, net[r] > 0, net' = [net EXCEPT ![r] = @ - 1]
        PROVE  net' \in [Rules -> Nat] /\ \A s \in Rules : net'[s] <= net[s]
    BY <1>1, <2>2
  <2> QED BY <2>1, <2>2 DEF Tick, Land, Expire, Prune
<1>4. \A r \in Rules : net'[r] <= net[r] /\ Waiting(r, tasks) \subseteq Waiting(r, tasks)
  BY <1>3
<1>5. OncePerEvent(tasks, net')
  BY <1>1, <1>3, <1>4, FewerWaiting
<1> QED BY <1>1, <1>2, <1>5 DEF Bounded

LEMMA InvTypes == ExecInv /\ Bounded => TypeOK
<1> SUFFICES ASSUME ExecInv, Bounded PROVE TypeOK
  OBVIOUS
<1>1. \A t \in Tasks : tasks[t].stage \in {Idle, "send", "escalate"}
  BY TaskDomain DEF ExecInv, Typed, Tasks, TaskRec
<1>2. Len(dedupe.recent_order) <= CacheSize
  <2>1. CacheSize \in Nat /\ Len(claims) \in Nat
    BY ExecutorAssumption DEF ExecInv, Typed
  <2> QED BY <2>1 DEF ExecInv, Recent
<1>3. net \in [Rules -> 0..MaxEvents]
  <2>1. net \in [Rules -> Nat] /\ tasks \in Seq(TaskRec) /\ Len(tasks) \in Nat
    BY DEF ExecInv, Typed
  <2>2. \A r \in Rules : net[r] <= MaxEvents
    <3> TAKE r \in Rules
    <3>1. Cardinality(Waiting(r, tasks)) \in Nat
      BY <2>1, WaitingFinite
    <3>2. net[r] + Cardinality(Waiting(r, tasks)) <= Len(tasks) /\ Len(tasks) <= MaxEvents
      BY DEF Bounded, OncePerEvent
    <3> QED BY <2>1, <3>1, <3>2, ExecBounds
  <2> QED BY <2>1, <2>2, ExecBounds
<1> QED BY <1>1, <1>2, <1>3 DEF ExecInv, Typed, Bounded, TypeOK

(* TypeOK (KeeperExecutor): for any number of events, correlations and        *)
(* faults, the cache keeps within its size, only rules are claimed or given   *)
(* up, and no event sends a rule's transaction twice (process_event,          *)
(* try_claim).                                                                *)
THEOREM OneSendPerEvent == Spec => []TypeOK
<1>1. Init => Bounded
  <2> SUFFICES ASSUME Init PROVE Bounded
    OBVIOUS
  <2>1. tasks = <<>> /\ net = [r \in Rules |-> 0] /\ now = 1 /\ faults = 0
    BY DEF Init
  <2>2. DOMAIN tasks = {} /\ Len(tasks) = 0
    BY <2>1
  <2>3. \A r \in Rules : Waiting(r, tasks) = {}
    BY <2>2 DEF Waiting
  <2>4. Cardinality({}) = 0
    BY FS_EmptySet
  <2>5. \A r \in Rules : net[r] + Cardinality(Waiting(r, tasks)) <= Len(tasks)
    <3> TAKE r \in Rules
    <3>1. net[r] = 0 /\ Cardinality(Waiting(r, tasks)) = 0
      BY <2>1, <2>3, <2>4
    <3> QED BY <2>2, <3>1
  <2>6. OncePerEvent(tasks, net)
    BY <2>2, <2>5, ExecBounds DEF OncePerEvent
  <2> QED BY <2>1, <2>6, ExecBounds DEF Bounded
<1>2. ExecInv /\ Bounded /\ [Next]_vars => Bounded'
  <2> SUFFICES ASSUME ExecInv, Bounded, [Next]_vars PROVE Bounded'
    OBVIOUS
  <2>1. CASE UNCHANGED vars
    BY <2>1 DEF vars, Bounded
  <2>2. CASE Next
    BY <2>2, EventBounds, TaskBounds, ChainBounds DEF Next
  <2> QED BY <2>1, <2>2
<1> QED BY <1>1, <1>2, ExecInvariant, InvTypes, PTL DEF Spec

=============================================================================
