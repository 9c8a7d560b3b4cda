---------------------------- MODULE BotQuotes_proofs ----------------------------
(***************************************************************************)
(* Theorems about the bot.  QuoteFlow: how old a price may be when a       *)
(* signal is made of it, and how many requests a bucket admits, for any    *)
(* number of endpoints and routes, any limits, and whatever is delayed,    *)
(* lost or asked for twice.  BotFeeds: that the stream follows the pairs,  *)
(* for any table, feeds and endpoints.                                     *)
(***************************************************************************)
EXTENDS QuoteFlow, BotFeeds, FiniteSetTheorems, WellFoundedInduction, TLAPS

(* Clock and queues, with no bound of the model. *)
Clocked ==
  /\ now \in Nat /\ latest \in Nat
  /\ wire \in [Endpoints -> Seq([born: Nat, sent: Nat])]
  /\ probes \in Seq(Nat)

(* The lag a request carries is not less than what its price was late. *)
Honest(q) ==
  /\ {q.born, q.stamp, q.lag} \subseteq Nat
  /\ q.stamp - q.born <= q.lag

FlowInv ==
  /\ Clocked
  /\ \A q \in work : Honest(q)
  /\ SignalsFresh

LEMMA Limits == {MaxLag, MaxBasisAge, MaxLatency} \subseteq Nat /\ MaxProbes \in Nat
  BY FlowAssumption DEF FlowAssumption

LEMMA QueueGrows ==
  ASSUME NEW S, NEW s \in Seq(S), NEW x \in S
  PROVE  Append(s, x) \in Seq(S)
  OBVIOUS

LEMMA QueueHead ==
  ASSUME NEW S, NEW s \in Seq(S), s # <<>>
  PROVE  Head(s) \in S
  OBVIOUS

(* What a tick asks for carries the lag that processPythTick computed. *)
LEMMA TicksAreHonest ==
  ASSUME NEW born \in Nat, NEW stamp \in Nat, NEW source,
         \A q \in work : Honest(q),
         ProcessTick(born, stamp, source)
  PROVE  \A q \in work' : Honest(q)
  <1> DEFINE lag == IF stamp > born THEN stamp - born ELSE 0
             stale == lag > MaxLag
  <1>1. lag \in Nat /\ stamp - born <= lag
    OBVIOUS
  <1>2. UNCHANGED quoteVars \/ QuotePair(born, stamp, lag, ~ stale)
    BY DEF ProcessTick
  <1>3. CASE UNCHANGED quoteVars
    BY <1>3 DEF quoteVars
  <1>4. CASE QuotePair(born, stamp, lag, ~ stale)
    <2>1. work' = work \union
            {[side |-> r, born |-> born, stamp |-> stamp, lag |-> lag,
              allow |-> ~ stale, asked |-> now] :
             r \in Admitted}
      BY <1>4 DEF QuotePair
    <2> HIDE DEF lag, stale
    <2>2. \A r : Honest([side |-> r, born |-> born, stamp |-> stamp, lag |-> lag,
                         allow |-> ~ stale, asked |-> now])
      BY <1>1 DEF Honest
    <2> QED BY <2>1, <2>2
  <1> QED BY <1>2, <1>3, <1>4

(* Taking a snapshot off the list leaves a list of times. *)
LEMMA ProbesLeft ==
  ASSUME NEW i \in 1..MaxProbes, i <= Len(probes), probes \in Seq(Nat), ProbeDone(i)
  PROVE  probes' \in Seq(Nat)
  <1>1. i \in 1..Len(probes) /\ Len(probes) \in Nat
    BY Limits
  <1>2. \A k \in 1..Len(probes) - 1 : probes[IF k < i THEN k ELSE k + 1] \in Nat
    <2>1. TAKE k \in 1..Len(probes) - 1
    <2>2. (IF k < i THEN k ELSE k + 1) \in 1..Len(probes)
      BY <1>1
    <2> QED BY <2>2
  <1>3. probes' \in [1..Len(probes) - 1 -> Nat]
    BY <1>2 DEF ProbeDone
  <1>4. Len(probes) - 1 \in Nat
    BY <1>1
  <1> QED BY <1>3, <1>4

(* An observation comes of a basis within its age and of a price within its *)
(* lag.                                                                     *)
LEMMA AnswersAreFresh ==
  ASSUME FlowInv, NEW q \in work, Answer(q)
  PROVE  SignalsFresh'
  <1>1. \A o \in storing : o.observed - o.born <= MaxLag + MaxBasisAge
    BY DEF FlowInv, SignalsFresh
  <1> DEFINE o == [side |-> q.side, born |-> q.born, observed |-> now]
  <1>2. \/ storing' = storing
        \/ Eligible(q) /\ storing' = storing \union {o}
    BY DEF Answer
  <1>3. CASE storing' = storing
    BY <1>1, <1>3 DEF SignalsFresh
  <1>4. CASE Eligible(q) /\ storing' = storing \union {o}
    <2>1. now \in Nat /\ q.born \in Nat /\ q.stamp \in Nat /\ q.lag \in Nat
      BY DEF FlowInv, Clocked, Honest
    <2>2. q.stamp - q.born <= q.lag
      BY DEF FlowInv, Honest
    <2>3. q.lag <= MaxLag /\ now - q.stamp <= MaxBasisAge
      BY <1>4 DEF Eligible
    <2>4. now - q.born <= MaxLag + MaxBasisAge
      BY <2>1, <2>2, <2>3, Limits
    <2>5. o.observed - o.born <= MaxLag + MaxBasisAge
      BY <2>4
    <2> HIDE DEF o
    <2> QED BY <1>1, <1>4, <2>5 DEF SignalsFresh
  <1> QED BY <1>2, <1>3, <1>4

LEMMA FlowStarts == Init => FlowInv
  BY Limits DEF Init, FlowInv, Clocked, SignalsFresh

LEMMA FlowSteps == FlowInv /\ [Next]_vars => FlowInv'
  <1> SUFFICES ASSUME FlowInv, [Next]_vars PROVE FlowInv'
    OBVIOUS
  <1> USE DEF FlowInv
  <1>0. SignalsFresh /\ storing' \subseteq storing => SignalsFresh'
    BY DEF SignalsFresh
  <1>00. ((\A q \in work : Honest(q)) /\ UNCHANGED work) => (\A q \in work : Honest(q))'
    BY DEF Honest
  <1>1. CASE Publish
    BY <1>0, <1>00, <1>1 DEF Publish, quoteVars, probeVars, Clocked
  <1>2. CASE Stream
    <2>1. wire' \in [Endpoints -> Seq([born: Nat, sent: Nat])]
      <3>1. PICK es \in SUBSET Endpoints :
              wire' = [e \in Endpoints |->
                         IF e \in es
                           THEN Append(wire[e], [born |-> latest, sent |-> now])
                           ELSE wire[e]]
        BY <1>2 DEF Stream
      <3>2. [born |-> latest, sent |-> now] \in [born: Nat, sent: Nat]
        BY DEF Clocked
      <3>3. \A e \in Endpoints : Append(wire[e], [born |-> latest, sent |-> now])
                                  \in Seq([born: Nat, sent: Nat])
        <4>1. TAKE e \in Endpoints
        <4>2. wire[e] \in Seq([born: Nat, sent: Nat])
          BY DEF Clocked
        <4> QED BY <3>2, <4>2, QueueGrows
      <3>4. \A e \in Endpoints : wire[e] \in Seq([born: Nat, sent: Nat])
        BY DEF Clocked
      <3> QED BY <3>1, <3>3, <3>4
    <2> QED BY <1>0, <1>00, <1>2, <2>1 DEF Stream, quoteVars, probeVars, Clocked
  <1>3. CASE Tick
    BY <1>0, <1>00, <1>3, Limits DEF Tick, feedVars, probeVars, Clocked
  <1>4. CASE IndexPair
    <2>1. probes' \in Seq(Nat)
      BY <1>4 DEF IndexPair, StartProbe, probeVars, Clocked
    <2> QED BY <1>0, <1>00, <1>4, <2>1 DEF IndexPair, feedVars, quoteVars, Clocked
  <1>5. CASE UnindexPair
    BY <1>0, <1>00, <1>5 DEF UnindexPair, feedVars, Clocked
  <1>6. CASE Probe
    <2>1. probes' \in Seq(Nat)
      BY <1>6 DEF Probe, StartProbe, Clocked
    <2> QED BY <1>0, <1>00, <1>6, <2>1 DEF Probe, feedVars, quoteVars, Clocked
  <1>7. ASSUME NEW e \in Endpoints, Arrive(e) PROVE FlowInv'
    <2>1. Head(wire[e]) \in [born: Nat, sent: Nat]
      <3>1. wire[e] \in Seq([born: Nat, sent: Nat]) /\ wire[e] # <<>>
        BY <1>7 DEF Arrive, Clocked
      <3> QED BY <3>1, QueueHead
    <2>2. wire' \in [Endpoints -> Seq([born: Nat, sent: Nat])]
      BY <1>7 DEF Arrive, Clocked
    <2>3. \/ UNCHANGED quoteVars
          \/ ProcessTick(Head(wire[e]).born, Head(wire[e]).sent, "stream")
      BY <1>7 DEF Arrive
    <2>4. (\A q \in work : Honest(q))'
      <3>1. CASE UNCHANGED quoteVars
        BY <1>00, <3>1 DEF quoteVars
      <3>2. CASE ProcessTick(Head(wire[e]).born, Head(wire[e]).sent, "stream")
        <4>1. Head(wire[e]).born \in Nat /\ Head(wire[e]).sent \in Nat
          BY <2>1
        <4>2. \A q \in work' : Honest(q)
          BY <3>2, <4>1, TicksAreHonest
        <4> QED BY <4>2 DEF Honest
      <3> QED BY <2>3, <3>1, <3>2
    <2> QED BY <1>0, <1>7, <2>2, <2>4 DEF Arrive, probeVars, Clocked
  <1>8. ASSUME NEW e \in Endpoints, Lose(e) PROVE FlowInv'
    <2>1. wire' \in [Endpoints -> Seq([born: Nat, sent: Nat])]
      BY <1>8 DEF Lose, Clocked
    <2> QED BY <1>0, <1>00, <1>8, <2>1 DEF Lose, probeVars, quoteVars, Clocked
  <1>9. ASSUME NEW u \in seen, Forget(u) PROVE FlowInv'
    BY <1>0, <1>00, <1>9 DEF Forget, feedVars, probeVars, quoteVars, Clocked
  <1>10. ASSUME NEW i \in 1..MaxProbes, Snapshot(i) PROVE FlowInv'
    <2>1. probes' \in Seq(Nat)
      BY <1>10, ProbesLeft DEF Snapshot, Clocked
    <2>2. probes[i] \in Nat /\ latest \in Nat
      <3>1. i \in 1..Len(probes)
        BY <1>10, Limits DEF Snapshot, Clocked
      <3> QED BY <3>1 DEF Clocked
    <2>3. \A q \in work' : Honest(q)
      BY <1>10, <2>2, TicksAreHonest DEF Snapshot
    <2>4. (\A q \in work : Honest(q))'
      BY <2>3 DEF Honest
    <2> QED BY <1>0, <1>10, <2>1, <2>4 DEF Snapshot, feedVars, Clocked
  <1>11. ASSUME NEW i \in 1..MaxProbes, ProbeFails(i) PROVE FlowInv'
    <2>1. probes' \in Seq(Nat)
      BY <1>11, ProbesLeft DEF ProbeFails, Clocked
    <2> QED BY <1>0, <1>00, <1>11, <2>1 DEF ProbeFails, feedVars, quoteVars, Clocked
  <1>12. ASSUME NEW q \in work, Answer(q) PROVE FlowInv'
    <2>1. (\A p \in work : Honest(p))'
      BY <1>12 DEF Answer, Honest
    <2> QED BY <1>12, <2>1, AnswersAreFresh DEF Answer, feedVars, probeVars, Clocked
  <1>13. ASSUME NEW q \in work, NoQuote(q) PROVE FlowInv'
    <2>1. (\A p \in work : Honest(p))'
      BY <1>13 DEF NoQuote, Honest
    <2> QED BY <1>0, <1>13, <2>1 DEF NoQuote, feedVars, probeVars, Clocked
  <1>15. ASSUME NEW o \in storing, Observe(o) \/ StoreFails(o) PROVE FlowInv'
    BY <1>0, <1>00, <1>15 DEF Observe, StoreFails, feedVars, probeVars, quoteVars, Clocked
  <1>14. CASE UNCHANGED vars
    BY <1>0, <1>00, <1>14 DEF vars, feedVars, probeVars, quoteVars, Clocked
  <1> QED BY <1>1, <1>2, <1>3, <1>4, <1>5, <1>6, <1>7, <1>8, <1>9, <1>10, <1>11,
             <1>12, <1>13, <1>14, <1>15 DEF Next

(* Whatever the stream, the network, the snapshots and Jupiter delay, lose  *)
(* or answer out of order, the price an observation for SignalEngine comes  *)
(* of was, at the observation's own time, no older than both limits of the  *)
(* quality gate allow together (classifyQuoteQuality, processPythTick).     *)
THEOREM SignalsAreFresh == Spec => []SignalsFresh
  <1>1. Init => FlowInv
    BY FlowStarts
  <1>2. FlowInv /\ [Next]_vars => FlowInv'
    BY FlowSteps
  <1>3. FlowInv => SignalsFresh
    BY DEF FlowInv
  <1> QED BY <1>1, <1>2, <1>3, PTL DEF Spec

--------------------------------------------------------------------------------
LEMMA Bounds ==
  /\ Sides \in Seq(Routes) /\ Len(Sides) \in Nat
  /\ Capacity \in Nat /\ MaxTime \in Nat \ {0} /\ MaxUpdates \in Nat
  /\ \A i, j \in 1..Len(Sides) : Sides[i] = Sides[j] => i = j
  BY FlowAssumption DEF FlowAssumption

(* A finite set of numbers that has an element has a largest one. *)
LEMMA Greatest ==
  ASSUME NEW n \in Nat, NEW S \in SUBSET (0..n), S # {}
  PROVE  \E m \in S : \A k \in S : k <= m
  <1> DEFINE T == {j \in 0..n : n - j \in S}
  <1>1. T \in SUBSET Nat /\ T # {}
    <2>1. PICK x \in S : TRUE
      OBVIOUS
    <2>2. n - x \in 0..n /\ n - (n - x) = x
      BY <2>1
    <2>3. n - x \in T
      BY <2>1, <2>2
    <2>4. T \in SUBSET Nat
      OBVIOUS
    <2> HIDE DEF T
    <2> QED BY <2>3, <2>4
  <1>2. IsWellFoundedOn(OpToRel(<, Nat), Nat)
    BY NatLessThanWellFounded
  <1>3. \E x \in T : \A y \in T : ~ (<<y, x>> \in OpToRel(<, Nat))
    BY <1>1, <1>2, WFMin
  <1>4. \A x, y \in Nat : y < x => <<y, x>> \in OpToRel(<, Nat)
    BY DEF OpToRel
  <1>5. PICK x \in T : \A y \in T : ~ (y < x)
    BY <1>1, <1>3, <1>4
  <1>6. x \in 0..n /\ n - x \in S
    BY <1>5
  <1>7. ASSUME NEW k \in S PROVE k <= n - x
    <2>1. k \in 0..n
      OBVIOUS
    <2>2. n - k \in 0..n /\ n - (n - k) = k
      BY <2>1
    <2>3. n - k \in T
      BY <2>2
    <2> QED BY <1>5, <1>6, <2>1, <2>3
  <1> QED BY <1>6, <1>7

(* The first t of a set of places are t places at most. *)
LEMMA FirstFew ==
  ASSUME NEW n \in Nat, NEW D \in SUBSET (1..n), NEW t \in Nat,
         NEW A, \A k : k \in A <=> k \in D /\ Cardinality({j \in D : j < k}) < t
  PROVE  IsFiniteSet(A) /\ Cardinality(A) <= t
  <1>0. A \in SUBSET D
    OBVIOUS
  <1>1. IsFiniteSet(1..n)
    BY FS_Interval
  <1>2. IsFiniteSet(D)
    BY <1>1, FS_Subset
  <1>3. IsFiniteSet(A)
    BY <1>0, <1>2, FS_Subset
  <1>4. CASE A = {}
    BY <1>4, FS_EmptySet
  <1>5. CASE A # {}
    <2>1. A \in SUBSET (0..n)
      <3>1. 1..n \subseteq 0..n
        OBVIOUS
      <3> QED BY <1>0, <3>1
    <2>2. PICK m \in A : \A k \in A : k <= m
      BY <1>5, <2>1, Greatest
    <2> DEFINE B == {j \in D : j < m}
    <2>3. Cardinality(B) < t /\ m \in D
      BY <2>2
    <2>4. IsFiniteSet(B) /\ Cardinality(B) \in Nat
      <3>1. B \in SUBSET D
        OBVIOUS
      <3>2. IsFiniteSet(B)
        BY <1>2, <3>1, FS_Subset
      <3> QED BY <3>2, FS_CardinalityType
    <2>5. m \notin B
      <3>1. m \in 1..n
        BY <2>3
      <3> QED BY <3>1
    <2>6. A \in SUBSET (B \union {m})
      <3>1. ASSUME NEW k \in A PROVE k \in B \union {m}
        <4>1. k \in D /\ k <= m /\ k \in 1..n /\ m \in 1..n
          BY <2>2, <2>3
        <4> QED BY <4>1
      <3> QED BY <3>1
    <2> HIDE DEF B
    <2>7. IsFiniteSet(B \union {m}) /\ Cardinality(B \union {m}) = Cardinality(B) + 1
      BY <2>4, <2>5, FS_AddElement
    <2>8. Cardinality(A) <= Cardinality(B \union {m})
      BY <2>6, <2>7, FS_Subset
    <2>9. Cardinality(A) \in Nat
      BY <1>3, FS_CardinalityType
    <2> QED BY <1>3, <2>3, <2>4, <2>7, <2>8, <2>9
  <1> QED BY <1>3, <1>4, <1>5

(* No more routes are admitted than the bucket has tokens. *)
LEMMA AdmittedWithinTokens ==
  ASSUME tokens \in Nat
  PROVE  /\ Admitted \subseteq Routes
         /\ Cardinality(Admitted) \in Nat /\ Cardinality(Admitted) <= tokens
  <1> DEFINE A == {k \in Due : Cardinality({j \in Due : j < k}) < tokens}
             f == [i \in A |-> Sides[i]]
  <1>1. Len(Sides) \in Nat /\ Due \in SUBSET (1..Len(Sides))
    BY Bounds DEF Due
  <1>2. IsFiniteSet(A) /\ Cardinality(A) <= tokens
    <2>1. \A B : (\A k : k \in B <=> k \in Due /\ Cardinality({j \in Due : j < k}) < tokens)
                 => IsFiniteSet(B) /\ Cardinality(B) <= tokens
      BY <1>1, FirstFew
    <2> QED BY <2>1
  <1>3. Admitted = {Sides[i] : i \in A}
    BY DEF Admitted
  <1>4. f \in Surjection(A, Admitted)
    BY <1>3 DEF Surjection
  <1>5. Admitted \subseteq Routes
    BY <1>1, <1>3, Bounds DEF Routes
  <1> HIDE DEF A, f
  <1>6. IsFiniteSet(Admitted) /\ Cardinality(Admitted) <= Cardinality(A)
    BY <1>2, <1>4, FS_Surjection
  <1>7. Cardinality(Admitted) \in Nat /\ Cardinality(A) \in Nat
    BY <1>2, <1>6, FS_CardinalityType
  <1> QED BY <1>2, <1>5, <1>6, <1>7

(* What the bucket has left and what was admitted since any time are        *)
(* together what it holds and what it got back.                             *)
BudgetInv ==
  /\ now \in Times /\ tokens \in 0..Capacity
  /\ granted \in [0..MaxTime -> Nat]
  /\ \A a \in 1..now : tokens + granted[now] - granted[a - 1] <= Capacity + (now - a)
  /\ BudgetHeld

(* A tick draws from the bucket what it admits. *)
LEMMA TickDraws ==
  ASSUME NEW born, NEW stamp, NEW source, BudgetInv,
         ProcessTick(born, stamp, source)
  PROVE  \E n \in Nat : /\ n <= tokens /\ tokens' = tokens - n
                        /\ granted' = [granted EXCEPT ![now] = @ + n]
  <1>1. CASE UNCHANGED quoteVars
    <2>1. granted' = [granted EXCEPT ![now] = @ + 0] /\ tokens' = tokens - 0
      BY <1>1 DEF quoteVars, BudgetInv, Times
    <2>2. 0 \in Nat /\ 0 <= tokens
      BY DEF BudgetInv
    <2> QED BY <2>1, <2>2
  <1>2. CASE \E lag, allow : QuotePair(born, stamp, lag, allow)
    <2>1. tokens \in Nat
      BY DEF BudgetInv
    <2>2. Cardinality(Admitted) \in Nat /\ Cardinality(Admitted) <= tokens
      BY <2>1, AdmittedWithinTokens
    <2>3. tokens' = tokens - Cardinality(Admitted)
          /\ granted' = [granted EXCEPT ![now] = @ + Cardinality(Admitted)]
      BY <1>2 DEF QuotePair
    <2> QED BY <2>2, <2>3
  <1> QED BY <1>1, <1>2 DEF ProcessTick

LEMMA DrawsWithinBudget ==
  ASSUME BudgetInv, NEW n \in Nat, n <= tokens, tokens' = tokens - n,
         granted' = [granted EXCEPT ![now] = @ + n], now' = now
  PROVE  BudgetInv'
  <1>1. /\ now \in Nat /\ now >= 1 /\ now <= MaxTime /\ tokens \in Nat /\ tokens <= Capacity
        /\ MaxTime \in Nat /\ Capacity \in Nat /\ granted \in [0..MaxTime -> Nat]
    BY Bounds DEF BudgetInv, Times
  <1>2. granted' \in [0..MaxTime -> Nat] /\ tokens' \in 0..Capacity
    BY <1>1
  <1>3. granted'[now] = granted[now] + n
        /\ \A t \in 0..now - 1 : granted'[t] = granted[t]
    BY <1>1
  <1>4. ASSUME NEW a \in 1..now
        PROVE  tokens' + granted'[now] - granted'[a - 1] <= Capacity + (now - a)
    <2>1. granted[a - 1] \in Nat /\ granted[now] \in Nat /\ granted'[a - 1] = granted[a - 1]
      BY <1>1, <1>3
    <2>2. tokens + granted[now] - granted[a - 1] <= Capacity + (now - a)
      BY DEF BudgetInv
    <2> QED BY <1>1, <1>3, <2>1, <2>2
  <1>5. ASSUME NEW a \in 1..now, NEW b \in 1..now, a <= b
        PROVE  granted'[b] - granted'[a - 1] <= Capacity + (b - a)
    <2>1. granted'[a - 1] = granted[a - 1] /\ granted[a - 1] \in Nat
      BY <1>1, <1>3
    <2>2. CASE b = now
      <3>1. tokens' + granted'[now] - granted'[a - 1] <= Capacity + (now - a)
        BY <1>4
      <3>2. tokens' \in Nat /\ granted'[now] \in Nat /\ granted'[a - 1] \in Nat
        BY <1>1, <1>2, <2>1
      <3> QED BY <1>1, <2>2, <3>1, <3>2
    <2>3. CASE b # now
      <3>1. granted'[b] = granted[b]
        BY <1>1, <1>3, <2>3
      <3> QED BY <1>5, <2>1, <3>1 DEF BudgetInv, BudgetHeld
    <2> QED BY <2>2, <2>3
  <1>6. BudgetHeld'
    BY <1>5 DEF BudgetHeld
  <1>7. now' \in Times
    BY DEF BudgetInv
  <1>8. \A a \in 1..now' : tokens' + granted'[now'] - granted'[a - 1] <= Capacity + (now' - a)
    BY <1>4
  <1> QED BY <1>2, <1>6, <1>7, <1>8 DEF BudgetInv, Times

LEMMA TimeWithinBudget ==
  ASSUME BudgetInv, Tick
  PROVE  BudgetInv'
  <1>1. /\ now \in Nat /\ now >= 1 /\ now < MaxTime /\ tokens \in Nat /\ tokens <= Capacity
        /\ MaxTime \in Nat /\ Capacity \in Nat /\ granted \in [0..MaxTime -> Nat]
        /\ now' = now + 1
    BY Bounds DEF BudgetInv, Times, Tick
  <1>2. tokens' \in Nat /\ tokens' <= Capacity /\ tokens' <= tokens + 1
    BY <1>1 DEF Tick, Refill
  <1>3. granted' = [granted EXCEPT ![now + 1] = granted[now]]
    BY <1>1 DEF Tick
  <1>4. /\ granted' \in [0..MaxTime -> Nat] /\ granted'[now + 1] = granted[now]
        /\ \A t \in 0..now : granted'[t] = granted[t]
    BY <1>1, <1>3
  <1>5. ASSUME NEW a \in 1..now + 1
        PROVE  tokens' + granted'[now + 1] - granted'[a - 1] <= Capacity + (now + 1 - a)
    <2>1. granted'[a - 1] = granted[a - 1] /\ granted[a - 1] \in Nat /\ granted[now] \in Nat
      BY <1>1, <1>4
    <2>2. CASE a = now + 1
      <3>1. granted'[a - 1] = granted[now]
        BY <1>1, <2>1, <2>2
      <3> QED BY <1>1, <1>2, <1>4, <2>1, <2>2, <3>1
    <2>3. CASE a # now + 1
      <3>1. a \in 1..now
        BY <1>1, <2>3
      <3>2. tokens + granted[now] - granted[a - 1] <= Capacity + (now - a)
        BY <3>1 DEF BudgetInv
      <3> QED BY <1>1, <1>2, <1>4, <2>1, <3>1, <3>2
    <2> QED BY <2>2, <2>3
  <1>6. ASSUME NEW a \in 1..now + 1, NEW b \in 1..now + 1, a <= b
        PROVE  granted'[b] - granted'[a - 1] <= Capacity + (b - a)
    <2>1. granted'[a - 1] = granted[a - 1] /\ granted[a - 1] \in Nat
      BY <1>1, <1>4
    <2>2. CASE b = now + 1
      <3>1. tokens' + granted'[now + 1] - granted'[a - 1] <= Capacity + (now + 1 - a)
        BY <1>5
      <3>2. granted'[now + 1] \in Nat /\ granted'[a - 1] \in Nat
        BY <1>1, <1>4, <2>1
      <3> QED BY <1>1, <1>2, <2>2, <3>1, <3>2
    <2>3. CASE b # now + 1
      <3>1. granted'[b] = granted[b] /\ a \in 1..now /\ b \in 1..now
        BY <1>1, <1>4, <1>6, <2>3
      <3> QED BY <1>6, <2>1, <3>1 DEF BudgetInv, BudgetHeld
    <2> QED BY <2>2, <2>3
  <1>7. BudgetHeld'
    BY <1>1, <1>6 DEF BudgetHeld
  <1>8. now' \in Times /\ tokens' \in 0..Capacity
    BY <1>1, <1>2 DEF Times
  <1>9. \A a \in 1..now' : tokens' + granted'[now'] - granted'[a - 1] <= Capacity + (now' - a)
    BY <1>1, <1>5
  <1> QED BY <1>4, <1>7, <1>8, <1>9 DEF BudgetInv, Times

LEMMA BudgetStarts == Init => BudgetInv
  <1> SUFFICES ASSUME Init PROVE BudgetInv
    OBVIOUS
  <1>1. now = 1 /\ tokens = Capacity /\ granted = [t \in 0..MaxTime |-> 0]
    BY DEF Init
  <1>2. 0 \in 0..MaxTime /\ 1 \in 0..MaxTime
    BY Bounds
  <1>3. granted[0] = 0 /\ granted[1] = 0
    BY <1>1, <1>2
  <1>4. \A a \in 1..1 : a = 1
    OBVIOUS
  <1> QED BY <1>1, <1>3, <1>4, Bounds DEF BudgetInv, BudgetHeld, Times

LEMMA BudgetSteps == BudgetInv /\ [Next]_vars => BudgetInv'
  <1> SUFFICES ASSUME BudgetInv, [Next]_vars PROVE BudgetInv'
    OBVIOUS
  <1>1. UNCHANGED <<now, tokens, granted>> => BudgetInv'
    BY DEF BudgetInv, BudgetHeld, Times
  <1>2. ASSUME NEW born, NEW stamp, NEW source, ProcessTick(born, stamp, source), now' = now
        PROVE  BudgetInv'
    BY <1>2, TickDraws, DrawsWithinBudget
  <1>3. CASE Publish \/ Stream \/ IndexPair \/ UnindexPair \/ Probe
    BY <1>1, <1>3 DEF Publish, Stream, IndexPair, UnindexPair, Probe, quoteVars
  <1>4. CASE Tick
    BY <1>4, TimeWithinBudget
  <1>5. ASSUME NEW e \in Endpoints, Arrive(e) \/ Lose(e) PROVE BudgetInv'
    <2>1. CASE UNCHANGED quoteVars
      BY <1>1, <1>5, <2>1 DEF Arrive, Lose, quoteVars
    <2>2. CASE ~ UNCHANGED quoteVars
      BY <1>2, <1>5, <2>2 DEF Arrive, Lose
    <2> QED BY <2>1, <2>2
  <1>6. ASSUME NEW u \in seen, Forget(u) PROVE BudgetInv'
    BY <1>1, <1>6 DEF Forget, quoteVars
  <1>7. ASSUME NEW i \in 1..MaxProbes, Snapshot(i) \/ ProbeFails(i) PROVE BudgetInv'
    <2>1. CASE Snapshot(i)
      BY <1>2, <2>1 DEF Snapshot
    <2>2. CASE ProbeFails(i)
      BY <1>1, <2>2 DEF ProbeFails, quoteVars
    <2> QED BY <1>7, <2>1, <2>2
  <1>8. ASSUME NEW q \in work, Answer(q) \/ NoQuote(q) PROVE BudgetInv'
    BY <1>1, <1>8 DEF Answer, NoQuote
  <1>10. ASSUME NEW o \in storing, Observe(o) \/ StoreFails(o) PROVE BudgetInv'
    BY <1>1, <1>10 DEF Observe, StoreFails, quoteVars
  <1>9. CASE UNCHANGED vars
    BY <1>1, <1>9 DEF vars, quoteVars
  <1> QED BY <1>3, <1>4, <1>5, <1>6, <1>7, <1>8, <1>9, <1>10 DEF Next

(* In no span of time are more requests admitted than the bucket holds and  *)
(* gets back in it, however many routes there are, whatever the stream and  *)
(* the snapshots report, and when pairs are removed and come back           *)
(* (QuoteScheduler.onPriceTick, TokenBucket).                               *)
THEOREM RequestsWithinBudget == Spec => []BudgetHeld
  <1>1. Init => BudgetInv
    BY BudgetStarts
  <1>2. BudgetInv /\ [Next]_vars => BudgetInv'
    BY BudgetSteps
  <1>3. BudgetInv => BudgetHeld
    BY DEF BudgetInv
  <1> QED BY <1>1, <1>2, <1>3, PTL DEF Spec

--------------------------------------------------------------------------------
(* Nothing that is under way was published later than now. *)
Past ==
  /\ latest <= now
  /\ \A e \in Endpoints : wire[e] \in Seq([born: 1..now, sent: Times])
  /\ \A q \in work : q.born <= now

TypeInv == TypeOK /\ Past

LEMMA SeqWider ==
  ASSUME NEW S, NEW T, S \subseteq T, NEW s \in Seq(S)
  PROVE  s \in Seq(T)
  OBVIOUS

LEMMA TailShorter ==
  ASSUME NEW S, NEW s \in Seq(S), s # <<>>
  PROVE  Tail(s) \in Seq(S) /\ Len(Tail(s)) = Len(s) - 1 /\ Len(s) \in Nat
  OBVIOUS

LEMMA Timely ==
  ASSUME TypeInv
  PROVE  /\ now \in Nat /\ now >= 1 /\ now <= MaxTime /\ now \in Times
         /\ MaxTime \in Nat /\ latest \in 1..now /\ 1..now \subseteq Times
         /\ tokens \in Nat
  BY Bounds DEF TypeInv, TypeOK, Past, Times

QuoteTypes ==
  /\ lastQuoteAt \in [Routes -> 0..MaxTime]
  /\ tokens \in 0..Capacity
  /\ work \subseteq [side: Routes, born: Times, stamp: Times, lag: 0..MaxTime,
                     allow: BOOLEAN, asked: Times]
  /\ granted \in [0..MaxTime -> Nat]
  /\ \A q \in work : q.born <= now

LEMMA TickTypes ==
  ASSUME TypeInv, NEW born \in 1..now, NEW stamp \in Times, NEW source,
         ProcessTick(born, stamp, source), now' = now
  PROVE  QuoteTypes'
  <1> DEFINE lag == IF stamp > born THEN stamp - born ELSE 0
             stale == lag > MaxLag
             asked(r) == [side |-> r, born |-> born, stamp |-> stamp, lag |-> lag,
                          allow |-> ~ stale, asked |-> now]
  <1>1. UNCHANGED quoteVars \/ QuotePair(born, stamp, lag, ~ stale)
    BY DEF ProcessTick
  <1>2. CASE UNCHANGED quoteVars
    BY <1>2 DEF TypeInv, TypeOK, Past, QuoteTypes, quoteVars, Times
  <1>3. CASE QuotePair(born, stamp, lag, ~ stale)
    <2>1. /\ Admitted \subseteq Routes
          /\ Cardinality(Admitted) \in Nat /\ Cardinality(Admitted) <= tokens
      BY Timely, AdmittedWithinTokens
    <2>2. tokens' \in 0..Capacity
      <3>1. tokens' = tokens - Cardinality(Admitted)
        BY <1>3 DEF QuotePair
      <3>2. tokens \in 0..Capacity /\ Capacity \in Nat
        BY Bounds DEF TypeInv, TypeOK
      <3> QED BY <2>1, <3>1, <3>2
    <2>3. granted' \in [0..MaxTime -> Nat]
      <3>1. granted' = [granted EXCEPT ![now] = @ + Cardinality(Admitted)]
        BY <1>3 DEF QuotePair
      <3>2. granted \in [0..MaxTime -> Nat] /\ now \in 0..MaxTime
        BY Timely DEF TypeInv, TypeOK
      <3> QED BY <2>1, <3>1, <3>2
    <2>4. lastQuoteAt' \in [Routes -> 0..MaxTime]
      <3>1. lastQuoteAt' = [r \in Routes |-> IF r \in Admitted THEN now ELSE lastQuoteAt[r]]
        BY <1>3 DEF QuotePair
      <3>2. lastQuoteAt \in [Routes -> 0..MaxTime] /\ now \in 0..MaxTime
        BY Timely DEF TypeInv, TypeOK
      <3> QED BY <3>1, <3>2
    <2>5. lag \in 0..MaxTime /\ born \in Times /\ born <= now
      BY Timely DEF Times
    <2>6. work' = work \union {asked(r) : r \in Admitted}
      BY <1>3 DEF QuotePair
    <2>7. \A r \in Routes :
            /\ asked(r) \in [side: Routes, born: Times, stamp: Times, lag: 0..MaxTime,
                             allow: BOOLEAN, asked: Times]
            /\ asked(r).born <= now
      <3>1. (~ stale) \in BOOLEAN
        OBVIOUS
      <3> HIDE DEF lag, stale
      <3> QED BY <2>5, <3>1, Timely
    <2> HIDE DEF asked, lag, stale
    <2>8. /\ work' \subseteq [side: Routes, born: Times, stamp: Times, lag: 0..MaxTime,
                              allow: BOOLEAN, asked: Times]
          /\ \A q \in work' : q.born <= now
      <3>1. /\ work \subseteq [side: Routes, born: Times, stamp: Times, lag: 0..MaxTime,
                               allow: BOOLEAN, asked: Times]
            /\ \A q \in work : q.born <= now
        BY DEF TypeInv, TypeOK, Past
      <3> QED BY <2>1, <2>6, <2>7, <3>1
    <2> QED BY <2>2, <2>3, <2>4, <2>8 DEF QuoteTypes, Times
  <1> QED BY <1>1, <1>2, <1>3

(* What the type invariant says of the feeds and of what the stream saw. *)
FeedTypes ==
  /\ now \in Times /\ latest \in Times /\ latest <= now
  /\ wire \in [Endpoints -> Seq(Updates)]
  /\ \A e \in Endpoints : Len(wire[e]) <= MaxUpdates
  /\ \A e \in Endpoints : wire[e] \in Seq([born: 1..now, sent: Times])
  /\ seen \subseteq Updates

PairTypes ==
  /\ lastStream \in 0..MaxTime /\ indexed \in BOOLEAN
  /\ probing \in BOOLEAN /\ probes \in Seq(Times) /\ Len(probes) <= MaxProbes
  /\ symbols \in {"none", "loaded", "failed"}
  /\ storing \subseteq Observations

LEMMA Parts == TypeInv <=> FeedTypes /\ PairTypes /\ QuoteTypes
  BY DEF TypeInv, TypeOK, Past, FeedTypes, PairTypes, QuoteTypes

LEMMA PartsNext == (FeedTypes /\ PairTypes /\ QuoteTypes)' => TypeInv'
  BY DEF TypeInv, TypeOK, Past, FeedTypes, PairTypes, QuoteTypes, Times, Updates, Observations

LEMMA SameFeeds ==
  (FeedTypes /\ UNCHANGED <<now, feedVars, seen>>) => FeedTypes'
  BY DEF FeedTypes, feedVars, Times, Updates
LEMMA SamePair ==
  (PairTypes /\ UNCHANGED <<pairVars, probeVars, storing>>) => PairTypes'
  BY DEF PairTypes, pairVars, probeVars, Times, Observations
LEMMA SameQuotes ==
  (QuoteTypes /\ UNCHANGED <<now, quoteVars>>) => QuoteTypes'
  BY DEF QuoteTypes, quoteVars, Times

LEMMA TypeStarts == Init => TypeInv
  <1> SUFFICES ASSUME Init PROVE TypeInv
    OBVIOUS
  <1>1. 1 \in Times /\ 0 \in 0..MaxTime /\ MaxProbes \in Nat
    BY Bounds, Limits DEF Times
  <1>2. FeedTypes
    <2>1. \A S : <<>> \in Seq(S) /\ Len(<<>>) = 0
      OBVIOUS
    <2>2. \A e \in Endpoints : wire[e] = <<>>
      BY DEF Init
    <2>3. wire \in [Endpoints -> Seq(Updates)]
      BY <2>1 DEF Init
    <2> QED BY <1>1, <2>1, <2>2, <2>3, Bounds DEF Init, FeedTypes
  <1>3. PairTypes
    <2>1. <<>> \in Seq(Times) /\ Len(<<>>) = 0
      OBVIOUS
    <2>2. /\ lastStream = 0 /\ indexed = FALSE /\ probing = FALSE /\ probes = <<>>
          /\ symbols = "none" /\ storing = {}
      BY DEF Init
    <2>3. probes \in Seq(Times) /\ Len(probes) <= MaxProbes
      BY <1>1, <2>1, <2>2
    <2> QED BY <1>1, <2>2, <2>3 DEF PairTypes
  <1>4. QuoteTypes
    BY <1>1, Bounds DEF Init, QuoteTypes
  <1> QED BY <1>2, <1>3, <1>4, Parts

LEMMA StreamTypes ==
  ASSUME TypeInv, Stream
  PROVE  FeedTypes'
  <1> DEFINE u == [born |-> latest, sent |-> now]
  <1>1. PICK es \in SUBSET Endpoints :
          /\ \A e \in es : Len(wire[e]) < MaxUpdates
          /\ wire' = [e \in Endpoints |-> IF e \in es THEN Append(wire[e], u) ELSE wire[e]]
    BY DEF Stream
  <1>2. u \in [born: 1..now, sent: Times] /\ u \in Updates
    BY Timely DEF Updates
  <1>3. \A e \in Endpoints : wire[e] \in Seq(Updates) /\ Len(wire[e]) <= MaxUpdates
                             /\ wire[e] \in Seq([born: 1..now, sent: Times])
    BY DEF TypeInv, TypeOK, Past
  <1> HIDE DEF u
  <1>4. ASSUME NEW e \in Endpoints
        PROVE  /\ wire'[e] \in Seq(Updates) /\ Len(wire'[e]) <= MaxUpdates
               /\ wire'[e] \in Seq([born: 1..now, sent: Times])
    <2>1. CASE e \in es
      <3>1. wire'[e] = Append(wire[e], u) /\ Len(wire[e]) < MaxUpdates
        BY <1>1, <2>1
      <3>2. wire[e] \in Seq(Updates) /\ wire[e] \in Seq([born: 1..now, sent: Times])
        BY <1>3
      <3>3. Append(wire[e], u) \in Seq(Updates)
            /\ Append(wire[e], u) \in Seq([born: 1..now, sent: Times])
        BY <1>2, <3>2, QueueGrows
      <3>4. Len(Append(wire[e], u)) = Len(wire[e]) + 1 /\ Len(wire[e]) \in Nat
        BY <3>2
      <3> QED BY <3>1, <3>3, <3>4, Bounds
    <2>2. CASE e \notin es
      BY <1>1, <1>3, <2>2
    <2> QED BY <2>1, <2>2
  <1>5. wire' \in [Endpoints -> Seq(Updates)]
    BY <1>1, <1>4
  <1>6. now' = now /\ latest' = latest /\ seen' = seen
    BY DEF Stream
  <1>7. now \in Times /\ latest \in Times /\ latest <= now /\ seen \subseteq Updates
    BY DEF TypeInv, TypeOK, Past
  <1> QED BY <1>4, <1>5, <1>6, <1>7 DEF FeedTypes, Times, Updates

LEMMA TakenTypes ==
  ASSUME TypeInv, NEW e \in Endpoints, NEW s, s = Tail(wire[e]) \/ s = <<>>,
         wire[e] # <<>>, wire' = [wire EXCEPT ![e] = s],
         UNCHANGED <<now, latest>>, seen' \subseteq Updates
  PROVE  FeedTypes'
  <1>1. wire[e] \in Seq(Updates) /\ wire[e] \in Seq([born: 1..now, sent: Times])
        /\ Len(wire[e]) <= MaxUpdates
    BY DEF TypeInv, TypeOK, Past
  <1>2. s \in Seq(Updates) /\ s \in Seq([born: 1..now, sent: Times]) /\ Len(s) <= MaxUpdates
    <2>1. CASE s = <<>>
      BY <2>1, Bounds
    <2>2. CASE s = Tail(wire[e])
      <3>1. s \in Seq(Updates) /\ Len(s) = Len(wire[e]) - 1 /\ Len(wire[e]) \in Nat
        BY <1>1, <2>2, TailShorter
      <3>2. s \in Seq([born: 1..now, sent: Times])
        BY <1>1, <2>2, TailShorter
      <3> QED BY <1>1, <3>1, <3>2, Bounds
    <2> QED BY <2>1, <2>2
  <1>3. wire \in [Endpoints -> Seq(Updates)]
        /\ \A d \in Endpoints : Len(wire[d]) <= MaxUpdates
                                /\ wire[d] \in Seq([born: 1..now, sent: Times])
    BY DEF TypeInv, TypeOK, Past
  <1>4. wire' \in [Endpoints -> Seq(Updates)]
    BY <1>2, <1>3
  <1>5. \A d \in Endpoints : wire'[d] = IF d = e THEN s ELSE wire[d]
    BY <1>3
  <1>6. \A d \in Endpoints : Len(wire'[d]) <= MaxUpdates
                             /\ wire'[d] \in Seq([born: 1..now, sent: Times])
    BY <1>2, <1>3, <1>5
  <1>7. now \in Times /\ latest \in Times /\ latest <= now
    BY DEF TypeInv, TypeOK, Past
  <1> QED BY <1>4, <1>6, <1>7 DEF FeedTypes, Times, Updates

LEMMA ProbeTypes ==
  ASSUME TypeInv, StartProbe
  PROVE  probes' \in Seq(Times) /\ Len(probes') <= MaxProbes /\ probing' \in BOOLEAN
         /\ symbols' \in {"none", "loaded", "failed"}
  <1>1. probes \in Seq(Times) /\ now \in Times /\ Len(probes) \in Nat
        /\ symbols \in {"none", "loaded", "failed"}
    BY DEF TypeInv, TypeOK
  <1>2. Append(probes, now) \in Seq(Times) /\ Len(Append(probes, now)) = Len(probes) + 1
    BY <1>1
  <1> QED BY <1>1, <1>2, Limits DEF StartProbe

LEMMA ProbeDoneTypes ==
  ASSUME TypeInv, NEW i \in 1..MaxProbes, i <= Len(probes), ProbeDone(i)
  PROVE  probes' \in Seq(Times) /\ Len(probes') <= MaxProbes /\ probing' \in BOOLEAN
  <1>1. probes \in Seq(Times) /\ Len(probes) <= MaxProbes /\ Len(probes) \in Nat
    BY DEF TypeInv, TypeOK
  <1>2. i \in 1..Len(probes)
    BY <1>1, Limits
  <1>3. \A k \in 1..Len(probes) - 1 : (IF k < i THEN k ELSE k + 1) \in 1..Len(probes)
    BY <1>1, <1>2
  <1>4. \A k \in 1..Len(probes) - 1 : probes[IF k < i THEN k ELSE k + 1] \in Times
    <2>1. TAKE k \in 1..Len(probes) - 1
    <2>2. (IF k < i THEN k ELSE k + 1) \in 1..Len(probes)
      BY <1>3
    <2> QED BY <1>1, <2>2
  <1>5. probes' \in [1..Len(probes) - 1 -> Times] /\ Len(probes) - 1 \in Nat
    BY <1>1, <1>2, <1>4 DEF ProbeDone
  <1>6. probes' \in Seq(Times) /\ Len(probes') = Len(probes) - 1
    BY <1>5
  <1>7. probing' \in BOOLEAN
    BY DEF ProbeDone
  <1> QED BY <1>1, <1>6, <1>7, Limits

LEMMA TypeSteps == TypeInv /\ [Next]_vars => TypeInv'
  <1> SUFFICES ASSUME TypeInv, [Next]_vars PROVE TypeInv'
    OBVIOUS
  <1>0. FeedTypes /\ PairTypes /\ QuoteTypes
    BY Parts
  <1>1. CASE Publish
    <2>1. now \in Times /\ now <= now
      BY Timely
    <2>2. FeedTypes'
      BY <1>0, <1>1, <2>1 DEF Publish, FeedTypes, Times, Updates
    <2> QED BY <1>0, <1>1, <2>2, SamePair, SameQuotes, PartsNext DEF Publish
  <1>2. CASE Stream
    BY <1>0, <1>2, StreamTypes, SamePair, SameQuotes, PartsNext DEF Stream
  <1>3. CASE Tick
    <2>1. now' = now + 1 /\ now' \in Times /\ now \in Nat
          /\ 1..now \subseteq 1..now' /\ MaxTime \in Nat /\ now < MaxTime
      BY <1>3, Timely DEF Tick, Times
    <2>2. FeedTypes'
      <3>1. [born: 1..now, sent: Times] \subseteq [born: 1..now', sent: Times]
        BY <2>1
      <3>2. \A e \in Endpoints : wire[e] \in Seq([born: 1..now', sent: Times])
        <4>1. TAKE e \in Endpoints
        <4>2. wire[e] \in Seq([born: 1..now, sent: Times])
          BY <1>0 DEF FeedTypes
        <4> QED BY <3>1, <4>2, SeqWider
      <3>3. latest <= now'
        BY <2>1, Timely DEF Tick
      <3> QED BY <1>0, <1>3, <2>1, <3>2, <3>3 DEF Tick, FeedTypes, feedVars, Times, Updates
    <2>3. PairTypes'
      BY <1>0, <1>3, SamePair DEF Tick
    <2>4. QuoteTypes'
      <3>1. tokens' \in 0..Capacity
        BY <1>0, <1>3, Bounds DEF Tick, Refill, QuoteTypes
      <3>2. granted' \in [0..MaxTime -> Nat]
        <4>1. granted \in [0..MaxTime -> Nat] /\ now \in 0..MaxTime
          BY <1>0, <2>1 DEF QuoteTypes
        <4>2. granted' = [granted EXCEPT ![now'] = granted[now]]
          BY <1>3 DEF Tick
        <4> QED BY <4>1, <4>2
      <3>3. \A q \in work : q.born <= now'
        <4>1. TAKE q \in work
        <4>2. q.born \in Times /\ q.born <= now
          BY <1>0 DEF QuoteTypes
        <4> QED BY <2>1, <4>2 DEF Times
      <3> QED BY <1>0, <1>3, <3>1, <3>2, <3>3 DEF Tick, QuoteTypes, Times
    <2> QED BY <2>2, <2>3, <2>4, PartsNext
  <1>4. CASE IndexPair
    <2>1. PairTypes'
      <3>1. CASE StartProbe
        BY <1>0, <1>4, <3>1, ProbeTypes DEF IndexPair, PairTypes, Times, Observations
      <3>2. CASE UNCHANGED probeVars
        BY <1>0, <1>4, <3>2 DEF IndexPair, PairTypes, probeVars, Times, Observations
      <3> QED BY <1>4, <3>1, <3>2 DEF IndexPair
    <2> QED BY <1>0, <1>4, <2>1, SameFeeds, SameQuotes, PartsNext DEF IndexPair
  <1>5. CASE UnindexPair
    <2>1. 0 \in 0..MaxTime
      BY Bounds
    <2>2. PairTypes' /\ QuoteTypes'
      BY <1>0, <1>5, <2>1 DEF UnindexPair, PairTypes, QuoteTypes, Times, Observations
    <2> QED BY <1>0, <1>5, <2>2, SameFeeds, PartsNext DEF UnindexPair
  <1>6. CASE Probe
    <2>1. PairTypes'
      BY <1>0, <1>6, ProbeTypes DEF Probe, PairTypes, pairVars, Times, Observations
    <2> QED BY <1>0, <1>6, <2>1, SameFeeds, SameQuotes, PartsNext DEF Probe
  <1>7. ASSUME NEW e \in Endpoints, Arrive(e) PROVE TypeInv'
    <2>1. wire[e] \in Seq(Updates) /\ wire[e] # <<>>
          /\ wire[e] \in Seq([born: 1..now, sent: Times])
      BY <1>0, <1>7 DEF Arrive, FeedTypes
    <2>2. Head(wire[e]) \in Updates /\ Head(wire[e]).born \in 1..now
          /\ Head(wire[e]).sent \in Times
      <3>1. Head(wire[e]) \in Updates
        BY <2>1, QueueHead
      <3>2. Head(wire[e]) \in [born: 1..now, sent: Times]
        BY <2>1, QueueHead
      <3> QED BY <3>1, <3>2
    <2>3. seen' \subseteq Updates
      BY <1>0, <1>7, <2>2 DEF Arrive, FeedTypes
    <2>4. FeedTypes'
      BY <1>7, <2>1, <2>3, TakenTypes DEF Arrive
    <2>5. lastStream' \in 0..MaxTime
      <3>1. lastStream \in 0..MaxTime /\ now \in 0..MaxTime
        BY <1>0, Timely DEF PairTypes
      <3> QED BY <1>7, <3>1 DEF Arrive
    <2>6. PairTypes'
      BY <1>0, <1>7, <2>5 DEF Arrive, PairTypes, probeVars, Times, Observations
    <2>7. QuoteTypes'
      <3>1. CASE UNCHANGED quoteVars
        BY <1>0, <1>7, <3>1, SameQuotes DEF Arrive
      <3>2. CASE ProcessTick(Head(wire[e]).born, Head(wire[e]).sent, "stream")
        BY <1>7, <2>2, <3>2, TickTypes DEF Arrive
      <3> QED BY <1>7, <3>1, <3>2 DEF Arrive
    <2> QED BY <2>4, <2>6, <2>7, PartsNext
  <1>8. ASSUME NEW e \in Endpoints, Lose(e) PROVE TypeInv'
    <2>1. seen' \subseteq Updates
      BY <1>0, <1>8 DEF Lose, FeedTypes
    <2>2. FeedTypes'
      BY <1>8, <2>1, TakenTypes DEF Lose
    <2> QED BY <1>0, <1>8, <2>2, SamePair, SameQuotes, PartsNext DEF Lose
  <1>9. ASSUME NEW u \in seen, Forget(u) PROVE TypeInv'
    <2>1. FeedTypes'
      BY <1>0, <1>9 DEF Forget, FeedTypes, feedVars, Times, Updates
    <2> QED BY <1>0, <1>9, <2>1, SamePair, SameQuotes, PartsNext DEF Forget
  <1>10. ASSUME NEW i \in 1..MaxProbes, Snapshot(i) PROVE TypeInv'
    <2>1. i <= Len(probes) /\ ProbeDone(i) /\ ProcessTick(latest, probes[i], "snapshot")
      BY <1>10 DEF Snapshot
    <2>2. probes[i] \in Times
      <3>1. probes \in Seq(Times) /\ Len(probes) \in Nat
        BY <1>0 DEF PairTypes
      <3>2. i \in 1..Len(probes)
        BY <2>1, <3>1, Limits
      <3> QED BY <3>1, <3>2
    <2>3. latest \in 1..now /\ now' = now
      BY <1>10, Timely DEF Snapshot
    <2>4. QuoteTypes'
      BY <2>1, <2>2, <2>3, TickTypes
    <2>5. probes' \in Seq(Times) /\ Len(probes') <= MaxProbes /\ probing' \in BOOLEAN
      BY <2>1, ProbeDoneTypes
    <2>6. PairTypes'
      BY <1>0, <1>10, <2>5 DEF Snapshot, PairTypes, pairVars, Times, Observations
    <2> QED BY <1>0, <1>10, <2>4, <2>6, SameFeeds, PartsNext DEF Snapshot
  <1>11. ASSUME NEW i \in 1..MaxProbes, ProbeFails(i) PROVE TypeInv'
    <2>1. probes' \in Seq(Times) /\ Len(probes') <= MaxProbes /\ probing' \in BOOLEAN
      BY <1>11, ProbeDoneTypes DEF ProbeFails
    <2>2. PairTypes'
      BY <1>0, <1>11, <2>1 DEF ProbeFails, PairTypes, pairVars, Times, Observations
    <2> QED BY <1>0, <1>11, <2>2, SameFeeds, SameQuotes, PartsNext DEF ProbeFails
  <1>12. ASSUME NEW q \in work, Answer(q) PROVE TypeInv'
    <2>1. [side |-> q.side, born |-> q.born, observed |-> now] \in Observations
      BY <1>0 DEF QuoteTypes, FeedTypes, Observations
    <2>2. storing' \subseteq Observations
      <3>1. storing \subseteq Observations
        BY <1>0 DEF PairTypes
      <3> QED BY <1>12, <2>1, <3>1 DEF Answer
    <2>3. PairTypes'
      BY <1>0, <1>12, <2>2 DEF Answer, PairTypes, pairVars, probeVars, Times, Observations
    <2>4. QuoteTypes'
      BY <1>0, <1>12 DEF Answer, QuoteTypes, Times
    <2> QED BY <1>0, <1>12, <2>3, <2>4, SameFeeds, PartsNext DEF Answer
  <1>13. ASSUME NEW q \in work, NoQuote(q) PROVE TypeInv'
    <2>1. QuoteTypes'
      BY <1>0, <1>13 DEF NoQuote, QuoteTypes, Times
    <2> QED BY <1>0, <1>13, <2>1, SameFeeds, SamePair, PartsNext DEF NoQuote
  <1>15. ASSUME NEW o \in storing, Observe(o) \/ StoreFails(o) PROVE TypeInv'
    <2>1. PairTypes'
      <3>1. storing' \subseteq storing
        BY <1>15 DEF Observe, StoreFails
      <3> QED BY <1>0, <1>15, <3>1
          DEF Observe, StoreFails, PairTypes, pairVars, probeVars, Times, Observations
    <2> QED BY <1>0, <1>15, <2>1, SameFeeds, SameQuotes, PartsNext DEF Observe, StoreFails
  <1>14. CASE UNCHANGED vars
    BY <1>0, <1>14, SameFeeds, SamePair, SameQuotes, PartsNext DEF vars
  <1> QED BY <1>1, <1>2, <1>3, <1>4, <1>5, <1>6, <1>7, <1>8, <1>9, <1>10, <1>11,
             <1>12, <1>13, <1>14, <1>15 DEF Next

(* Queues, snapshots, requests and observations under way stay what the     *)
(* code can hold, and the bucket never holds less than nothing (PythStream, *)
(* QuoteScheduler, TokenBucket, processPythTick).                           *)
THEOREM FlowTypes == Spec => []TypeOK
  <1>1. Init => TypeInv
    BY TypeStarts
  <1>2. TypeInv /\ [Next]_vars => TypeInv'
    BY TypeSteps
  <1>3. TypeInv => TypeOK
    BY DEF TypeInv
  <1> QED BY <1>1, <1>2, <1>3, PTL DEF Spec

-----------------------------------------------------------------------------
(* BotFeeds: what the bot listens to. *)

(* A set of numbers that is not empty has a least one. *)
LEMMA Least ==
  ASSUME NEW S \in SUBSET Nat, S # {}
  PROVE  \E m \in S : \A k \in S : ~ (k < m)
  <1>1. IsWellFoundedOn(OpToRel(<, Nat), Nat)
    BY NatLessThanWellFounded
  <1>2. \E x \in S : \A y \in S : ~ (<<y, x>> \in OpToRel(<, Nat))
    BY <1>1, WFMin
  <1>3. \A x, y \in Nat : y < x => <<y, x>> \in OpToRel(<, Nat)
    BY DEF OpToRel
  <1> QED BY <1>2, <1>3

(* The state after the first k rows of a report. *)
Steps(next, base, n, done) ==
  done = [k \in 0..n |->
            IF k = 0 THEN base ELSE Reported(done[k - 1], Order[k], next[Order[k]])]

LEMMA StepsExist ==
  ASSUME NEW next, NEW base, NEW n \in Nat
  PROVE  \E done : Steps(next, base, n, done)
  <1> DEFINE T == {m \in Nat : ~ \E done : Steps(next, base, m, done)}
  <1>1. SUFFICES ASSUME T # {} PROVE FALSE
    OBVIOUS
  <1>2. PICK m \in T : \A k \in T : ~ (k < m)
    <2>1. T \in SUBSET Nat
      OBVIOUS
    <2> HIDE DEF T
    <2> QED BY <1>1, <2>1, Least
  <1>3. m \in Nat /\ ~ \E done : Steps(next, base, m, done)
    OBVIOUS
  <1>4. CASE m = 0
    <2>1. PICK done : done = [k \in 0..0 |-> base]
      OBVIOUS
    <2>2. \A k \in 0..0 : k = 0
      OBVIOUS
    <2>3. Steps(next, base, 0, done)
      BY <2>1, <2>2 DEF Steps
    <2> QED BY <1>3, <1>4, <2>3
  <1>5. CASE m # 0
    <2>1. m - 1 \in Nat /\ m - 1 < m
      BY <1>3, <1>5
    <2>2. \E done : Steps(next, base, m - 1, done)
      BY <1>2, <2>1
    <2>3. PICK before : Steps(next, base, m - 1, before)
      BY <2>2
    <2>4. PICK done : done = [k \in 0..m |->
                         IF k = m THEN Reported(before[m - 1], Order[m], next[Order[m]])
                         ELSE before[k]]
      OBVIOUS
    <2>5. \A k \in 0..m - 1 : done[k] = before[k]
      BY <1>3, <2>4
    <2>6. ASSUME NEW k \in 0..m
          PROVE  done[k] = IF k = 0 THEN base ELSE Reported(done[k - 1], Order[k], next[Order[k]])
      <3>1. CASE k = m
        BY <1>3, <1>5, <2>4, <2>5, <3>1
      <3>2. CASE k # m
        <4>1. k \in 0..m - 1 /\ (k # 0 => k - 1 \in 0..m - 1)
          BY <1>3, <3>2
        <4>2. before[k] = IF k = 0 THEN base
                          ELSE Reported(before[k - 1], Order[k], next[Order[k]])
          BY <2>3, <4>1 DEF Steps
        <4> QED BY <2>5, <4>1, <4>2
      <3> QED BY <3>1, <3>2
    <2>7. Steps(next, base, m, done)
      BY <2>4, <2>6 DEF Steps
    <2> QED BY <1>3, <2>7
  <1> QED BY <1>4, <1>5

LEMMA RefreshedBySteps ==
  ASSUME NEW next, Len(Order) \in Nat
  PROVE  \E done :
           /\ Steps(next, Removed({p \in Pairs : current[p] # None /\ next[p] = None}),
                    Len(Order), done)
           /\ Refreshed(next) = done[Len(Order)]
  <1> DEFINE gone == {p \in Pairs : current[p] # None /\ next[p] = None}
  <1>1. \E done : Steps(next, Removed(gone), Len(Order), done)
    BY StepsExist
  <1>2. PICK done : done = CHOOSE f : Steps(next, Removed(gone), Len(Order), f)
    OBVIOUS
  <1>3. Steps(next, Removed(gone), Len(Order), done)
    BY <1>1, <1>2
  <1>4. Refreshed(next) = done[Len(Order)]
    BY <1>2 DEF Refreshed, Steps
  <1> QED BY <1>3, <1>4

LEMMA FeedsConstants ==
  /\ Order \in Seq(Pairs) /\ Len(Order) \in Nat
  /\ \A i \in 1..Len(Order) : Order[i] \in Pairs
  /\ \A row \in Rows : row.feed \in Feeds
  /\ None \notin Rows /\ Bad \notin Entries /\ None # Bad
  /\ MaxEdits \in Nat /\ MaxFaults \in Nat /\ MaxReads \in Nat \ {0}
  BY FeedsAssumption DEF FeedsAssumption, Entries, Pairs

(* The maps of index.ts, well typed and naming the same pairs. *)
Maps == [configs: [Pairs -> Entries], byFeed: [Feeds -> SUBSET Pairs],
         scheduled: SUBSET Pairs]
Known(ix) == {p \in Pairs : ix.configs[p] # None}
SamePairs(ix) ==
  /\ ix.scheduled = Known(ix)
  /\ \A f \in Feeds : ix.byFeed[f] = {p \in Known(ix) : ix.configs[p].feed = f}

FeedsOf(ix) == {f \in Feeds : ix.byFeed[f] # {}}

(* A state a report goes through, while the stream listens to ids. *)
Sound(st, ids) ==
  /\ st \in [index: Maps, rejected: SUBSET Pairs, due: BOOLEAN]
  /\ SamePairs(st.index)
  /\ ~ st.due => ids = FeedsOf(st.index)

(* indexPair: a pair is refused, or it is filed under its feed alone. *)
LEMMA WithPairIs ==
  ASSUME NEW st, NEW ids, Sound(st, ids), NEW p \in Pairs, NEW row \in Rows
  PROVE  /\ WithPair(st, p, row) \in [index: Maps, rejected: SUBSET Pairs, due: BOOLEAN]
         /\ WithPair(st, p, row).due = st.due
         /\ SamePairs(WithPair(st, p, row).index)
         /\ st.index.configs[p] # None /\ st.index.configs[p].feed = row.feed
              => FeedsOf(WithPair(st, p, row).index) = FeedsOf(st.index)
  <1>1. PICK ix : ix = st.index
    OBVIOUS
  <1>2. PICK candidate : candidate = [ix.configs EXCEPT ![p] = row]
    OBVIOUS
  <1>3. PICK filed : filed = [f \in Feeds |-> IF f = row.feed THEN ix.byFeed[f] \union {p}
                                              ELSE ix.byFeed[f] \ {p}]
    OBVIOUS
  <1>4. /\ ix \in Maps /\ SamePairs(ix)
        /\ st \in [index: Maps, rejected: SUBSET Pairs, due: BOOLEAN]
    BY <1>1 DEF Sound
  <1>5. CASE ~ WithinBudget(candidate)
    <2>1. WithPair(st, p, row) = [st EXCEPT !.rejected = @ \union {p}]
      BY <1>1, <1>2, <1>5 DEF WithPair
    <2>2. PICK new : new = WithPair(st, p, row)
      OBVIOUS
    <2>3. /\ new \in [index: Maps, rejected: SUBSET Pairs, due: BOOLEAN]
          /\ new.index = ix /\ new.due = st.due
      BY <1>1, <1>4, <2>1, <2>2
    <2> QED BY <1>1, <1>4, <2>2, <2>3
  <1>6. CASE WithinBudget(candidate)
    <2>1. PICK jx : jx = [configs |-> candidate, byFeed |-> filed,
                          scheduled |-> ix.scheduled \union {p}]
      OBVIOUS
    <2>2. WithPair(st, p, row) =
            [index |-> jx, rejected |-> st.rejected \ {p}, due |-> st.due]
      BY <1>1, <1>2, <1>3, <1>6, <2>1 DEF WithPair
    <2>3. /\ candidate \in [Pairs -> Entries] /\ row.feed \in Feeds /\ row # None
          /\ \A q \in Pairs : candidate[q] = IF q = p THEN row ELSE ix.configs[q]
      BY <1>2, <1>4, FeedsConstants DEF Maps, Entries
    <2>4. /\ filed \in [Feeds -> SUBSET Pairs]
          /\ \A f \in Feeds : filed[f] = IF f = row.feed THEN ix.byFeed[f] \union {p}
                                         ELSE ix.byFeed[f] \ {p}
      BY <1>3, <1>4 DEF Maps
    <2>5. jx \in Maps /\ jx.configs = candidate /\ jx.byFeed = filed
          /\ jx.scheduled = ix.scheduled \union {p}
      BY <1>4, <2>1, <2>3, <2>4 DEF Maps
    <2>6. Known(jx) = Known(ix) \union {p}
      BY <2>3, <2>5 DEF Known
    <2>7. \A f \in Feeds : jx.byFeed[f] = {q \in Known(jx) : jx.configs[q].feed = f}
      <3>1. TAKE f \in Feeds
      <3>2. ix.byFeed[f] = {q \in Known(ix) : ix.configs[q].feed = f}
        BY <1>4 DEF SamePairs
      <3>3. \A q \in Known(jx) : q # p => q \in Known(ix) /\ jx.configs[q] = ix.configs[q]
        BY <2>3, <2>5, <2>6 DEF Known
      <3>4. p \in Known(jx) /\ jx.configs[p] = row
        BY <2>3, <2>5, <2>6
      <3>5. jx.byFeed[f] = IF f = row.feed THEN ix.byFeed[f] \union {p} ELSE ix.byFeed[f] \ {p}
        BY <2>4, <2>5
      <3>6. \A q \in Known(ix) : q # p => q \in Known(jx) /\ jx.configs[q] = ix.configs[q]
        BY <2>3, <2>5, <2>6 DEF Known
      <3> QED BY <3>2, <3>3, <3>4, <3>5, <3>6
    <2>8. SamePairs(jx)
      BY <1>4, <2>5, <2>6, <2>7 DEF SamePairs
    <2>9. ix.configs[p] # None /\ ix.configs[p].feed = row.feed => FeedsOf(jx) = FeedsOf(ix)
      <3>1. SUFFICES ASSUME ix.configs[p] # None, ix.configs[p].feed = row.feed
                     PROVE  FeedsOf(jx) = FeedsOf(ix)
        OBVIOUS
      <3>2. \A f \in Feeds : p \in ix.byFeed[f] <=> f = row.feed
        BY <1>4, <3>1 DEF SamePairs, Known
      <3>3. \A f \in Feeds : jx.byFeed[f] = ix.byFeed[f]
        <4>1. TAKE f \in Feeds
        <4>2. CASE f = row.feed
          <5>1. p \in ix.byFeed[f] /\ jx.byFeed[f] = ix.byFeed[f] \union {p}
            BY <2>4, <2>5, <3>2, <4>2
          <5> QED BY <5>1
        <4>3. CASE f # row.feed
          <5>1. p \notin ix.byFeed[f] /\ jx.byFeed[f] = ix.byFeed[f] \ {p}
            BY <2>4, <2>5, <3>2, <4>3
          <5> QED BY <5>1
        <4> QED BY <4>2, <4>3
      <3> QED BY <3>3 DEF FeedsOf
    <2>10. PICK new : new = WithPair(st, p, row)
      OBVIOUS
    <2>11. /\ new \in [index: Maps, rejected: SUBSET Pairs, due: BOOLEAN]
           /\ new.index = jx /\ new.due = st.due
      BY <1>4, <2>2, <2>5, <2>10
    <2> QED BY <1>1, <2>8, <2>9, <2>10, <2>11
  <1> QED BY <1>5, <1>6

(* A row leaves the maps as they must be, whatever it reports. *)
LEMMA ReportIsSound ==
  ASSUME NEW st, NEW ids, Sound(st, ids), NEW p \in Pairs, NEW row \in Entries
  PROVE  Sound(Reported(st, p, row), ids)
  <1>1. CASE row \in {None, current[p]}
    BY <1>1 DEF Reported
  <1>2. CASE row \notin {None, current[p]} /\ current[p] = None
    <2>1. row \in Rows
      BY <1>2 DEF Entries
    <2>2. PICK new : new = WithPair(st, p, row)
      OBVIOUS
    <2>3. new \in [index: Maps, rejected: SUBSET Pairs, due: BOOLEAN] /\ SamePairs(new.index)
      BY <2>1, <2>2, WithPairIs
    <2>4. Reported(st, p, row) = [new EXCEPT !.due = TRUE]
      BY <1>2, <2>2 DEF Reported, Added
    <2>5. PICK next : next = [new EXCEPT !.due = TRUE]
      OBVIOUS
    <2>6. next \in [index: Maps, rejected: SUBSET Pairs, due: BOOLEAN]
          /\ next.index = new.index /\ next.due
      BY <2>3, <2>5
    <2> QED BY <2>3, <2>4, <2>5, <2>6 DEF Sound
  <1>3. CASE row \notin {None, current[p]} /\ current[p] # None
    <2>1. row \in Rows
      BY <1>3 DEF Entries
    <2>2. PICK new : new = WithPair(st, p, row)
      OBVIOUS
    <2>3. /\ new \in [index: Maps, rejected: SUBSET Pairs, due: BOOLEAN]
          /\ SamePairs(new.index) /\ new.due = st.due
          /\ st.index.configs[p] # None /\ st.index.configs[p].feed = row.feed
               => FeedsOf(new.index) = FeedsOf(st.index)
      BY <2>1, <2>2, WithPairIs
    <2>4. PICK other \in BOOLEAN :
            other <=> st.index.configs[p] = None \/ st.index.configs[p].feed # row.feed
      OBVIOUS
    <2>5. Reported(st, p, row) = [new EXCEPT !.due = new.due \/ other]
      BY <1>3, <2>2, <2>4 DEF Reported, Updated
    <2>6. PICK next : next = [new EXCEPT !.due = new.due \/ other]
      OBVIOUS
    <2>7. /\ next \in [index: Maps, rejected: SUBSET Pairs, due: BOOLEAN]
          /\ next.index = new.index /\ (next.due <=> new.due \/ other)
      BY <2>3, <2>6
    <2>8. ~ next.due => ids = FeedsOf(next.index)
      BY <2>3, <2>4, <2>7 DEF Sound
    <2> QED BY <2>3, <2>5, <2>6, <2>7, <2>8 DEF Sound
  <1> QED BY <1>1, <1>2, <1>3

ReadRows == [Pairs -> Entries \union {Bad}]
Sockets == [ws: {"none", "connecting", "open", "closed"}, sub: SUBSET Feeds, timer: BOOLEAN]

(* SubscribedToIndexed, of one socket. *)
Tuned(s) ==
  /\ s.ws = "open" => s.sub = feedIds
  /\ ~ stopped /\ feedIds # {} => (s.timer <=> s.ws \in {"none", "closed"})
  /\ stopped => s = NoSocket

LEMMA SubscribedIs ==
  SubscribedToIndexed <=>
    /\ SamePairs(index) /\ (~ due => feedIds = FeedsOf(index))
    /\ \A e \in Servers : Tuned(sock[e])
  BY DEF SubscribedToIndexed, SamePairs, Known, Indexed, FeedsOf, Tuned

LoaderInv ==
  /\ reads \in Seq(ReadRows) /\ Len(reads) <= MaxReads
  /\ current \in [Pairs -> Entries]
  /\ index \in Maps /\ rejected \subseteq Pairs /\ due \in BOOLEAN
  /\ SamePairs(index)

StreamInv ==
  /\ feedIds \subseteq Feeds /\ stopped \in BOOLEAN
  /\ sock \in [Servers -> Sockets]
  /\ \A e \in Servers : Tuned(sock[e])
  /\ ~ due => feedIds = FeedsOf(index)

TableInv ==
  /\ table \in ReadRows
  /\ edits \in 0..MaxEdits /\ faults \in 0..MaxFaults

BotInv == LoaderInv /\ StreamInv /\ TableInv

LEMMA BotInvImplies == BotInv => FeedsTypeOK /\ SubscribedToIndexed
  <1> SUFFICES ASSUME BotInv PROVE FeedsTypeOK /\ SubscribedToIndexed
    OBVIOUS
  <1>1. FeedsTypeOK
    BY DEF BotInv, LoaderInv, StreamInv, TableInv, FeedsTypeOK, ReadRows, Sockets, Maps
  <1>2. SubscribedToIndexed
    BY SubscribedIs DEF BotInv, LoaderInv, StreamInv
  <1> QED BY <1>1, <1>2

(* A whole report leaves the maps as they must be. *)
LEMMA RefreshIsSound ==
  ASSUME BotInv, NEW next \in [Pairs -> Entries]
  PROVE  Sound(Refreshed(next), feedIds)
  <1>1. PICK gone \in SUBSET Pairs :
          gone = {p \in Pairs : current[p] # None /\ next[p] = None}
    OBVIOUS
  <1>2. Sound(Removed(gone), feedIds)
    <2>1. PICK ix : ix = [configs   |-> [p \in Pairs |-> IF p \in gone THEN None
                                                         ELSE index.configs[p]],
                          byFeed    |-> [f \in Feeds |-> index.byFeed[f] \ gone],
                          scheduled |-> index.scheduled \ gone]
      OBVIOUS
    <2>2. Removed(gone) = [index |-> ix, rejected |-> rejected \ gone,
                           due |-> due \/ gone # {}]
      BY <2>1 DEF Removed
    <2>3. index \in Maps /\ SamePairs(index) /\ rejected \subseteq Pairs /\ due \in BOOLEAN
      BY DEF BotInv, LoaderInv
    <2>4. /\ ix \in Maps /\ ix.scheduled = index.scheduled \ gone
          /\ \A p \in Pairs : ix.configs[p] = IF p \in gone THEN None ELSE index.configs[p]
          /\ \A f \in Feeds : ix.byFeed[f] = index.byFeed[f] \ gone
      BY <2>1, <2>3 DEF Maps, Entries
    <2>5. SamePairs(ix)
      BY <2>3, <2>4 DEF SamePairs, Known
    <2>6. PICK owed \in BOOLEAN : owed = (due \/ gone # {})
      OBVIOUS
    <2>7. ~ (due \/ gone # {}) => feedIds = FeedsOf(ix)
      <3>1. SUFFICES ASSUME ~ due, gone = {} PROVE feedIds = FeedsOf(ix)
        OBVIOUS
      <3>2. feedIds = FeedsOf(index)
        BY <3>1 DEF BotInv, StreamInv
      <3>3. \A f \in Feeds : ix.byFeed[f] = index.byFeed[f]
        BY <2>4, <3>1
      <3> QED BY <3>2, <3>3 DEF FeedsOf
    <2>8. PICK st : st = [index |-> ix, rejected |-> rejected \ gone, due |-> owed]
      OBVIOUS
    <2>9. /\ st \in [index: Maps, rejected: SUBSET Pairs, due: BOOLEAN]
          /\ st.index = ix /\ st.due = owed
      BY <2>3, <2>4, <2>6, <2>8
    <2>10. Removed(gone) = st
      BY <2>2, <2>6, <2>8
    <2> QED BY <2>5, <2>6, <2>7, <2>9, <2>10 DEF Sound
  <1>3. PICK done : Steps(next, Removed(gone), Len(Order), done)
                    /\ Refreshed(next) = done[Len(Order)]
    <2>1. Len(Order) \in Nat
      BY FeedsConstants
    <2> QED BY <1>1, <2>1, RefreshedBySteps
  <1> DEFINE T == {k \in 0..Len(Order) : ~ Sound(done[k], feedIds)}
  <1>4. T = {}
    <2>1. SUFFICES ASSUME T # {} PROVE FALSE
      OBVIOUS
    <2>2. T \in SUBSET Nat
      OBVIOUS
    <2>3. PICK m \in T : \A k \in T : ~ (k < m)
      <3> HIDE DEF T
      <3> QED BY <2>1, <2>2, Least
    <2>4. m \in 0..Len(Order) /\ ~ Sound(done[m], feedIds) /\ Len(Order) \in Nat
      BY FeedsConstants
    <2>5. done[m] = IF m = 0 THEN Removed(gone)
                    ELSE Reported(done[m - 1], Order[m], next[Order[m]])
      BY <1>3, <2>4 DEF Steps
    <2>6. m # 0
      BY <1>2, <2>4, <2>5
    <2>7. m - 1 \in 0..Len(Order) /\ m - 1 < m /\ m \in 1..Len(Order)
      BY <2>4, <2>6
    <2>8. Sound(done[m - 1], feedIds)
      BY <2>3, <2>7
    <2>9. Order[m] \in Pairs /\ next[Order[m]] \in Entries
      BY <2>7, FeedsConstants
    <2>10. Sound(Reported(done[m - 1], Order[m], next[Order[m]]), feedIds)
      BY <2>8, <2>9, ReportIsSound
    <2> QED BY <2>4, <2>5, <2>6, <2>10
  <1>5. Len(Order) \in 0..Len(Order)
    BY FeedsConstants
  <1> QED BY <1>3, <1>4, <1>5

LEMMA SomeReads ==
  ASSUME NEW i \in 1..MaxReads, LoaderInv, i <= Len(reads)
  PROVE  reads[i] \in ReadRows /\ Without(i) \in Seq(ReadRows) /\ Len(Without(i)) <= MaxReads
  <1>1. reads \in Seq(ReadRows) /\ Len(reads) \in Nat /\ Len(reads) <= MaxReads
        /\ MaxReads \in Nat
    BY FeedsConstants DEF LoaderInv
  <1>2. i \in 1..Len(reads)
    BY <1>1
  <1>3. \A k \in 1..Len(reads) - 1 : reads[IF k < i THEN k ELSE k + 1] \in ReadRows
    <2>1. TAKE k \in 1..Len(reads) - 1
    <2>2. (IF k < i THEN k ELSE k + 1) \in 1..Len(reads)
      BY <1>1, <1>2
    <2> QED BY <1>1, <2>2
  <1>4. Without(i) \in [1..Len(reads) - 1 -> ReadRows] /\ Len(reads) - 1 \in Nat
    BY <1>1, <1>2, <1>3 DEF Without
  <1>5. Without(i) \in Seq(ReadRows) /\ Len(Without(i)) = Len(reads) - 1
    <2>1. PICK s : s = Without(i)
      OBVIOUS
    <2>2. s \in Seq(ReadRows) /\ Len(s) = Len(reads) - 1
      BY <1>4, <2>1
    <2> QED BY <2>1, <2>2
  <1> QED BY <1>1, <1>2, <1>5

(* Nothing is known, watched or listened to when the bot starts. *)
LEMMA BotInit == FeedsInit => BotInv
  <1> SUFFICES ASSUME FeedsInit PROVE BotInv
    OBVIOUS
  <1>1. TableInv
    BY FeedsConstants DEF FeedsInit, TableInv, ReadRows
  <1>2. /\ index.configs = [p \in Pairs |-> None] /\ index.byFeed = [f \in Feeds |-> {}]
        /\ index.scheduled = {} /\ index \in Maps
    <2>1. [p \in Pairs |-> None] \in [Pairs -> Entries]
          /\ [f \in Feeds |-> {}] \in [Feeds -> SUBSET Pairs]
      BY DEF Entries
    <2> QED BY <2>1 DEF FeedsInit, Maps
  <1>3. SamePairs(index) /\ FeedsOf(index) = {}
    <2>1. \A p \in Pairs : index.configs[p] = None
      BY <1>2
    <2>2. \A f \in Feeds : index.byFeed[f] = {}
      BY <1>2
    <2>3. Known(index) = {}
      BY <2>1 DEF Known
    <2> QED BY <1>2, <2>2, <2>3 DEF SamePairs, FeedsOf
  <1>4. <<>> \in Seq(ReadRows) /\ Len(<<>>) = 0
    OBVIOUS
  <1>5. LoaderInv
    <2>1. reads \in Seq(ReadRows) /\ Len(reads) <= MaxReads
      BY <1>4, FeedsConstants DEF FeedsInit
    <2>2. current \in [Pairs -> Entries] /\ rejected \subseteq Pairs /\ due \in BOOLEAN
      BY DEF FeedsInit, Entries
    <2> QED BY <1>2, <1>3, <2>1, <2>2 DEF LoaderInv
  <1>6. NoSocket \in Sockets /\ NoSocket.ws = "none"
    BY DEF NoSocket, Sockets
  <1>7. StreamInv
    <2>1. feedIds = {} /\ stopped = FALSE /\ sock = [e \in Servers |-> NoSocket]
      BY DEF FeedsInit
    <2>2. sock \in [Servers -> Sockets] /\ \A e \in Servers : sock[e] = NoSocket
      BY <1>6, <2>1
    <2>3. \A e \in Servers : Tuned(sock[e])
      BY <1>6, <2>1, <2>2 DEF Tuned
    <2> QED BY <1>3, <2>1, <2>2, <2>3 DEF StreamInv
  <1> QED BY <1>1, <1>5, <1>7 DEF BotInv

LEMMA StreamKept ==
  ASSUME StreamInv, UNCHANGED <<feedIds, stopped, sock>>,
         ~ due' => feedIds = FeedsOf(index')
  PROVE  StreamInv'
  BY DEF StreamInv, Tuned

LEMMA EditTableKeeps ==
  ASSUME BotInv, NEW p \in Pairs, NEW row \in Entries \union {Bad}, EditTable(p, row)
  PROVE  BotInv'
  <1>1. LoaderInv'
    BY DEF BotInv, LoaderInv, EditTable, loaderVars
  <1>2. StreamInv'
    BY StreamKept DEF BotInv, StreamInv, EditTable, loaderVars, streamVars
  <1>3. TableInv'
    <2>1. table' \in ReadRows
      BY DEF BotInv, TableInv, EditTable, ReadRows
    <2>2. edits' \in 0..MaxEdits /\ faults' = faults
      BY FeedsConstants DEF BotInv, TableInv, EditTable
    <2> QED BY <2>1, <2>2 DEF BotInv, TableInv
  <1> QED BY <1>1, <1>2, <1>3 DEF BotInv

LEMMA ReadsKeep ==
  ASSUME BotInv, reads' \in Seq(ReadRows), Len(reads') <= MaxReads,
         faults' \in 0..MaxFaults,
         UNCHANGED <<tableVars, current, index, rejected, due, streamVars, stopped>>
  PROVE  BotInv'
  <1>1. LoaderInv'
    BY DEF BotInv, LoaderInv
  <1>2. StreamInv'
    BY StreamKept DEF BotInv, StreamInv, streamVars
  <1>3. TableInv'
    BY DEF BotInv, TableInv, tableVars
  <1> QED BY <1>1, <1>2, <1>3 DEF BotInv

LEMMA QueryKeeps == BotInv /\ Query => BotInv'
  <1> SUFFICES ASSUME BotInv, Query PROVE BotInv'
    OBVIOUS
  <1>1. /\ reads \in Seq(ReadRows) /\ table \in ReadRows /\ Len(reads) < MaxReads
        /\ MaxReads \in Nat /\ faults \in 0..MaxFaults
    BY FeedsConstants DEF BotInv, LoaderInv, TableInv, Query
  <1>2. reads' = Append(reads, table)
    BY DEF Query
  <1>3. reads' \in Seq(ReadRows) /\ Len(reads') = Len(reads) + 1
    BY <1>1, <1>2
  <1>4. Len(reads') <= MaxReads
    BY <1>1, <1>3
  <1> QED BY <1>1, <1>3, <1>4, ReadsKeep DEF Query

LEMMA RefreshKeeps ==
  ASSUME BotInv, NEW i \in 1..MaxReads, Refresh(i)
  PROVE  BotInv'
  <1>1. /\ reads[i] \in ReadRows /\ Without(i) \in Seq(ReadRows)
        /\ Len(Without(i)) <= MaxReads
    BY SomeReads DEF BotInv, Refresh
  <1>2. reads[i] \in [Pairs -> Entries]
    <2>1. \A p \in Pairs : reads[i][p] # Bad
      BY DEF Refresh
    <2> QED BY <1>1, <2>1 DEF ReadRows
  <1>3. PICK st : st = Refreshed(reads[i])
    OBVIOUS
  <1>4. Sound(st, feedIds)
    BY <1>2, <1>3, RefreshIsSound
  <1>5. /\ index' = st.index /\ rejected' = st.rejected /\ due' = st.due
        /\ current' = reads[i] /\ reads' = Without(i)
        /\ UNCHANGED <<tableVars, streamVars, stopped, faults>>
    BY <1>3 DEF Refresh
  <1>6. LoaderInv'
    BY <1>1, <1>2, <1>4, <1>5 DEF LoaderInv, Sound
  <1>7. StreamInv'
    BY <1>4, <1>5, StreamKept DEF BotInv, Sound, streamVars
  <1>8. TableInv'
    BY <1>5 DEF BotInv, TableInv, tableVars
  <1> QED BY <1>6, <1>7, <1>8 DEF BotInv

LEMMA RefuseRowKeeps ==
  ASSUME BotInv, NEW i \in 1..MaxReads, RefuseRow(i)
  PROVE  BotInv'
  <1>1. Without(i) \in Seq(ReadRows) /\ Len(Without(i)) <= MaxReads
    BY SomeReads DEF BotInv, RefuseRow
  <1> QED BY <1>1, ReadsKeep DEF BotInv, TableInv, RefuseRow

LEMMA QueryFailsKeeps ==
  ASSUME BotInv, NEW i \in 1..MaxReads, QueryFails(i)
  PROVE  BotInv'
  <1>1. Without(i) \in Seq(ReadRows) /\ Len(Without(i)) <= MaxReads
    BY SomeReads DEF BotInv, QueryFails
  <1>2. faults' \in 0..MaxFaults
    BY FeedsConstants DEF BotInv, TableInv, QueryFails
  <1> QED BY <1>1, <1>2, ReadsKeep DEF QueryFails

(* Every socket is dropped, with a reconnect to come unless the process stops. *)
LEMMA AllClosed ==
  ASSUME NEW down \in BOOLEAN
  PROVE  /\ ClosedAll(down) \in [Servers -> Sockets]
         /\ \A e \in Servers : /\ ClosedAll(down)[e].ws = "none"
                               /\ ClosedAll(down)[e].timer = ~ down
                               /\ down => ClosedAll(down)[e] = NoSocket
  <1>1. PICK s : s = [ws |-> "none", sub |-> {}, timer |-> ~ down]
    OBVIOUS
  <1>2. ClosedAll(down) = [e \in Servers |-> s]
    BY <1>1 DEF ClosedAll, NoSocket
  <1>3. /\ s.ws = "none" /\ s.timer = ~ down /\ s \in Sockets
        /\ down => s = NoSocket
    <2>1. PICK t \in BOOLEAN : t = ~ down
      OBVIOUS
    <2>2. s = [ws |-> "none", sub |-> {}, timer |-> t]
      BY <1>1, <2>1
    <2>3. s.ws = "none" /\ s.timer = t /\ s \in Sockets
      BY <2>2 DEF Sockets
    <2>4. down => t = FALSE
      BY <2>1
    <2> QED BY <2>1, <2>2, <2>3, <2>4 DEF NoSocket
  <1> QED BY <1>2, <1>3

LEMMA SetFeedIdsKeeps == BotInv /\ SetFeedIds => BotInv'
  <1> SUFFICES ASSUME BotInv, SetFeedIds PROVE BotInv'
    OBVIOUS
  <1>1. LoaderInv'
    BY DEF BotInv, LoaderInv, SetFeedIds
  <1>2. TableInv'
    BY DEF BotInv, TableInv, SetFeedIds, tableVars
  <1>3. /\ feedIds' = FeedsOf(index) /\ index' = index /\ stopped' = stopped
        /\ stopped \in BOOLEAN /\ feedIds' \subseteq Feeds
    BY DEF BotInv, StreamInv, SetFeedIds, FeedsOf
  <1>4. CASE sock' = ClosedAll(stopped)
    <2>1. /\ sock' \in [Servers -> Sockets]
          /\ \A e \in Servers : /\ sock'[e].ws = "none" /\ sock'[e].timer = ~ stopped
                                /\ stopped => sock'[e] = NoSocket
      BY <1>3, <1>4, AllClosed
    <2>2. \A e \in Servers : Tuned(sock[e])'
      BY <1>3, <2>1 DEF Tuned
    <2> QED BY <1>1, <1>2, <1>3, <2>1, <2>2 DEF BotInv, StreamInv
  <1>5. CASE feedIds' = feedIds /\ sock' = sock
    BY <1>1, <1>2, <1>3, <1>5 DEF BotInv, StreamInv, Tuned
  <1> QED BY <1>4, <1>5 DEF SetFeedIds

(* One socket changes, to one that listens as it must. *)
LEMMA SocketKeeps ==
  ASSUME BotInv, NEW e \in Servers, NEW s \in Sockets, Tuned(s),
         sock' = [sock EXCEPT ![e] = s], faults' \in 0..MaxFaults,
         UNCHANGED <<tableVars, loaderVars, feedIds, stopped>>
  PROVE  BotInv'
  <1>1. LoaderInv'
    BY DEF BotInv, LoaderInv, loaderVars
  <1>2. TableInv'
    BY DEF BotInv, TableInv, tableVars
  <1>3. /\ sock' \in [Servers -> Sockets]
        /\ \A d \in Servers : sock'[d] = IF d = e THEN s ELSE sock[d]
    BY DEF BotInv, StreamInv
  <1>4. \A d \in Servers : Tuned(sock[d])'
    BY <1>3 DEF BotInv, StreamInv, Tuned
  <1> QED BY <1>1, <1>2, <1>3, <1>4 DEF BotInv, StreamInv, loaderVars

LEMMA ConnectKeeps ==
  ASSUME BotInv, NEW e \in Servers, Connect(e)
  PROVE  BotInv'
  <1>1. PICK s : s = [ws |-> "connecting", sub |-> {}, timer |-> FALSE]
    OBVIOUS
  <1>2. s \in Sockets /\ Tuned(s)
    BY <1>1 DEF Sockets, Tuned, Connect
  <1> QED BY <1>1, <1>2, SocketKeeps DEF BotInv, TableInv, Connect

LEMMA OpenKeeps ==
  ASSUME BotInv, NEW e \in Servers, Open(e)
  PROVE  BotInv'
  <1>1. sock[e] \in Sockets /\ Tuned(sock[e]) /\ feedIds \subseteq Feeds
        /\ sock[e].ws = "connecting"
    BY DEF BotInv, StreamInv, Open
  <1>2. ~ stopped
    BY <1>1 DEF Tuned, NoSocket
  <1>3. PICK s : s = [ws |-> "open", sub |-> feedIds, timer |-> sock[e].timer]
    OBVIOUS
  <1>4. s \in Sockets /\ s.ws = "open" /\ s.sub = feedIds /\ s.timer = sock[e].timer
    BY <1>1, <1>3 DEF Sockets
  <1>5. Tuned(s)
    BY <1>1, <1>2, <1>4 DEF Tuned
  <1>6. sock' = [sock EXCEPT ![e] = s]
    <2>1. sock' = [sock EXCEPT ![e].ws = "open", ![e].sub = feedIds]
      BY DEF Open
    <2>2. sock \in [Servers -> Sockets]
      BY DEF BotInv, StreamInv
    <2>3. PICK half : half = [ws |-> "open", sub |-> sock[e].sub, timer |-> sock[e].timer]
      OBVIOUS
    <2>4. [sock[e] EXCEPT !.ws = "open"] = half
      BY <1>1, <2>3 DEF Sockets
    <2>5. [half EXCEPT !.sub = feedIds] = s
      BY <1>3, <2>3
    <2>6. PICK part : part = [sock EXCEPT ![e] = half]
      OBVIOUS
    <2>7. part \in [Servers -> {sock[d] : d \in Servers} \union {half}] /\ part[e] = half
      BY <2>2, <2>6
    <2>8. sock' = [part EXCEPT ![e] = [part[e] EXCEPT !.sub = feedIds]]
      BY <2>1, <2>4, <2>6
    <2> QED BY <2>2, <2>5, <2>6, <2>7, <2>8
  <1> QED BY <1>4, <1>5, <1>6, SocketKeeps DEF BotInv, TableInv, Open

LEMMA CloseKeeps ==
  ASSUME BotInv, NEW e \in Servers, Close(e)
  PROVE  BotInv'
  <1>1. sock[e].ws \in {"connecting", "open"} /\ Tuned(sock[e])
    BY DEF BotInv, StreamInv, Close
  <1>2. ~ stopped
    BY <1>1 DEF Tuned, NoSocket
  <1>3. PICK s : s = [ws |-> "closed", sub |-> {}, timer |-> TRUE]
    OBVIOUS
  <1>4. s \in Sockets /\ Tuned(s)
    BY <1>2, <1>3 DEF Sockets, Tuned
  <1>5. faults' \in 0..MaxFaults
    BY FeedsConstants DEF BotInv, TableInv, Close
  <1> QED BY <1>3, <1>4, <1>5, SocketKeeps DEF Close

LEMMA ShutdownKeeps == BotInv /\ Shutdown => BotInv'
  <1> SUFFICES ASSUME BotInv, Shutdown PROVE BotInv'
    OBVIOUS
  <1>1. LoaderInv'
    BY DEF BotInv, LoaderInv, Shutdown, loaderVars
  <1>2. TableInv'
    BY DEF BotInv, TableInv, Shutdown, tableVars
  <1>3. /\ sock' \in [Servers -> Sockets]
        /\ \A e \in Servers : sock'[e].ws = "none" /\ sock'[e] = NoSocket
    BY AllClosed DEF Shutdown
  <1>4. stopped' = TRUE /\ UNCHANGED <<loaderVars, feedIds>>
    BY DEF Shutdown
  <1>5. \A e \in Servers : Tuned(sock[e])'
    BY <1>3, <1>4 DEF Tuned
  <1> QED BY <1>1, <1>2, <1>3, <1>4, <1>5 DEF BotInv, StreamInv, loaderVars

LEMMA BotSteps == BotInv /\ [FeedsNext]_botVars => BotInv'
  <1> SUFFICES ASSUME BotInv, [FeedsNext]_botVars PROVE BotInv'
    OBVIOUS
  <1>1. ASSUME NEW p \in Pairs, NEW row \in Entries \union {Bad}, EditTable(p, row)
        PROVE  BotInv'
    BY <1>1, EditTableKeeps
  <1>2. CASE Query
    BY <1>2, QueryKeeps
  <1>3. CASE SetFeedIds
    BY <1>3, SetFeedIdsKeeps
  <1>4. CASE Shutdown
    BY <1>4, ShutdownKeeps
  <1>5. ASSUME NEW i \in 1..MaxReads, Refresh(i) PROVE BotInv'
    BY <1>5, RefreshKeeps
  <1>6. ASSUME NEW i \in 1..MaxReads, RefuseRow(i) PROVE BotInv'
    BY <1>6, RefuseRowKeeps
  <1>7. ASSUME NEW i \in 1..MaxReads, QueryFails(i) PROVE BotInv'
    BY <1>7, QueryFailsKeeps
  <1>8. ASSUME NEW e \in Servers, Connect(e) PROVE BotInv'
    BY <1>8, ConnectKeeps
  <1>9. ASSUME NEW e \in Servers, Open(e) PROVE BotInv'
    BY <1>9, OpenKeeps
  <1>10. ASSUME NEW e \in Servers, Close(e) PROVE BotInv'
    BY <1>10, CloseKeeps
  <1>11. CASE UNCHANGED botVars
    <2>1. UNCHANGED <<tableVars, loaderVars, streamVars, stopped, faults>>
      BY <1>11 DEF botVars
    <2> QED BY <2>1, ReadsKeep DEF BotInv, LoaderInv, TableInv, loaderVars
  <1> QED BY <1>1, <1>2, <1>3, <1>4, <1>5, <1>6, <1>7, <1>8, <1>9, <1>10, <1>11
       DEF FeedsNext

LEMMA BotInvHolds == FeedsSpec => []BotInv
  <1>1. FeedsInit => BotInv
    BY BotInit
  <1>2. BotInv /\ [FeedsNext]_botVars => BotInv'
    BY BotSteps
  <1> QED BY <1>1, <1>2, PTL DEF FeedsSpec

(* FeedsTypeOK (BotFeeds): whatever the table holds, however many queries    *)
(* overtake each other and whichever fail (pair-loader.ts), the maps of      *)
(* index.ts and the sockets of pyth-stream.ts stay of their types and the    *)
(* queries under way within their bound.                                     *)
THEOREM FeedsTypes == FeedsSpec => []FeedsTypeOK
  <1>1. BotInv => FeedsTypeOK
    BY BotInvImplies
  <1> QED BY <1>1, BotInvHolds, PTL

(* SubscribedToIndexed (BotFeeds): for any pairs, feeds and endpoints, the   *)
(* three maps name the same pairs and what is subscribed to follows them,    *)
(* whatever reports, refreshes, connections and the shutdown interleave      *)
(* (index.ts, indexPair, unindexPair and refreshSubscriptions;               *)
(* pyth-stream.ts, setFeedIds and scheduleReconnect).                        *)
THEOREM StreamFollowsPairs == FeedsSpec => []SubscribedToIndexed
  <1>1. BotInv => SubscribedToIndexed
    BY BotInvImplies
  <1> QED BY <1>1, BotInvHolds, PTL
================================================================================
