--------------------------- MODULE ChainCreation_proofs ---------------------------
(***************************************************************************)
(* Proofs about ChainDraft, ChainCreation and ChainReading, for chains of  *)
(* any length, any number of attempts and any number of rules.             *)
(*                                                                         *)
(* The links of a draft are an invariant of the editing alone.  The routes *)
(* of the created rules rest on one fact: a rule of an attempt sits at the *)
(* number its card was planned at, and the draft it was planned from has   *)
(* not changed since.  That a whole chain is read back adds that the first *)
(* card of a draft that was begun watches nothing before it.               *)
(***************************************************************************)
EXTENDS ChainReading, SequenceTheorems, FiniteSetTheorems, WellFoundedInduction, TLAPS

Cards == [result: Results \union {Unfilled}, link: Links]

-----------------------------------------------------------------------------
(* What the modals remember: Cancel restores a link the draft could have,   *)
(* and the card to cut behind is not the last one.                          *)
ModalsFit ==
  LET n == Len(cards) IN
  /\ asking.card # 0 =>
       /\ asking.card = n /\ asking.link <= n
       /\ asking.link # 0 => asking.loop
       /\ cutting = 0
  /\ cutting # 0 => cutting < n

DraftInv == DraftTypeOK /\ DraftWellLinked /\ ModalsFit

(* A sequence is a function on an initial segment, and back. *)
LEMMA CardsAsFunction ==
  ASSUME NEW c \in Seq(Cards)
  PROVE  Len(c) \in Nat /\ c \in [1..Len(c) -> Cards]
  OBVIOUS

LEMMA FunctionAsCards ==
  ASSUME NEW n \in Nat, NEW c \in [1..n -> Cards]
  PROVE  c \in Seq(Cards) /\ Len(c) = n
  <1>1. c \in Seq(Cards)
    BY SeqDef
  <1>2. DOMAIN c = 1..n
    OBVIOUS
  <1> QED
    BY <1>1, <1>2, LenProperties

LEMMA DraftInitInv == ASSUME DraftInit PROVE DraftInv
  <1>1. /\ cards \in [1..1 -> Cards] /\ cards[1] = NewCard
        /\ loop = FALSE /\ asking = NotAsking /\ cutting = 0
    BY DraftAssumption DEF DraftInit, Cards, NewCard, Links
  <1>2. cards \in Seq(Cards) /\ Len(cards) = 1
    BY <1>1, FunctionAsCards
  <1>3. DraftTypeOK
    <2>1. 0 \in Links /\ Len(cards) \in 1..MaxCards
      BY <1>2, DraftAssumption DEF Links
    <2>2. asking \in [card: Links, link: Links, loop: BOOLEAN]
      BY <1>1, <2>1 DEF NotAsking
    <2>3. loop \in BOOLEAN
      BY <1>1
    <2> QED
      BY <1>1, <1>2, <2>1, <2>2, <2>3, Zenon DEF DraftTypeOK, Cards
  <1>4. DraftWellLinked
    BY <1>1, <1>2 DEF DraftWellLinked, NewCard
  <1>5. ModalsFit
    BY <1>1, <1>2 DEF ModalsFit, NotAsking
  <1> QED
    BY <1>3, <1>4, <1>5 DEF DraftInv

(* Editing keeps the draft in shape: one step for each action. *)
LEMMA EditInv ==
  ASSUME DraftInv, DraftNext
  PROVE  DraftInv'
  <1> DEFINE n == Len(cards)
  <1> USE DraftAssumption DEF Links
  <1>0. /\ n \in 1..MaxCards /\ cards \in [1..n -> Cards] /\ cards \in Seq(Cards)
        /\ asking \in [card: Links, link: Links, loop: BOOLEAN]
        /\ loop \in BOOLEAN /\ cutting \in Links
    BY CardsAsFunction DEF DraftInv, DraftTypeOK, Cards
  <1>l. \A i \in 1..n : cards[i].link \in Links /\ cards[i].result \in Results \union {Unfilled}
    BY <1>0 DEF Cards
  <1>w. /\ \A i \in 1..n - 1 : cards[i].link = i + 1
        /\ cards[n].link <= n
        /\ cards[n].link # 0 => loop
    BY DEF DraftInv, DraftWellLinked
  (* What is to be shown of a step that leaves m cards. *)
  <1> DEFINE Shape(m)  == /\ cards' \in [1..m -> Cards]
                          /\ \A k \in 1..m - 1 : cards'[k].link = k + 1
                          /\ cards'[m].link <= m
             Looped(m) == loop' \in BOOLEAN /\ (cards'[m].link # 0 => loop')
             Modals(m) == /\ asking' \in [card: Links, link: Links, loop: BOOLEAN]
                          /\ cutting' \in Links
                          /\ asking'.card # 0 =>
                               /\ asking'.card = m /\ asking'.link <= m
                               /\ asking'.link # 0 => asking'.loop
                               /\ cutting' = 0
                          /\ cutting' # 0 => cutting' < m
  <1>f. ASSUME NEW m \in 1..MaxCards, Shape(m), Looped(m), Modals(m) PROVE DraftInv'
    <2>1. cards' \in Seq(Cards) /\ Len(cards') = m
      BY <1>f, FunctionAsCards
    <2> QED
      BY <2>1, <1>f DEF DraftInv, DraftTypeOK, DraftWellLinked, ModalsFit, Cards
  <1> HIDE DEF Shape, Looped, Modals
  (* The steps that leave the modals alone, none being open. *)
  <1>m. ASSUME NoModal, UNCHANGED <<asking, cutting>>, NEW m \in Nat PROVE Modals(m)
    BY <1>0, <1>m DEF Modals, NoModal
  <1>1. ASSUME NEW i \in 1..n, NEW r \in Results \union {Unfilled}, SetResult(i, r)
        PROVE  DraftInv'
    <2>1. cards' \in [1..n -> Cards] /\ \A k \in 1..n : cards'[k].link = cards[k].link
      BY <1>0, <1>1, <1>l DEF SetResult, Cards
    <2>2. Shape(n)
      BY <1>0, <1>w, <2>1 DEF Shape
    <2>3. Looped(n)
      BY <1>0, <1>1, <1>w, <2>1 DEF Looped, SetResult
    <2>4. Modals(n)
      BY <1>0, <1>1, <1>m DEF SetResult
    <2> QED
      BY <1>0, <1>f, <2>2, <2>3, <2>4
  <1>2. ASSUME NEW i \in 1..n, RemoveCard(i) PROVE DraftInv'
    <2> DEFINE m       == n - 1
               kept(k) == cards[IF k < i THEN k ELSE k + 1]
               link(k) == IF kept(k).link = 0 THEN 0
                          ELSE IF k < m THEN k + 1
                          ELSE IF kept(k).link > m THEN 0 ELSE kept(k).link
    <2>1. m \in 1..MaxCards /\ i # 1
      BY <1>0, <1>2 DEF RemoveCard
    <2>2. cards' = [k \in 1..m |-> [kept(k) EXCEPT !.link = link(k)]]
      BY <1>2 DEF RemoveCard
    <2>3. \A k \in 1..m : kept(k) \in Cards /\ kept(k).link \in Links
      BY <1>0, <1>l, <2>1
    <2>4. \A k \in 1..m : link(k) \in Links
      BY <2>1, <2>3
    <2>5. \A k \in 1..m - 1 : link(k) = k + 1
      <3>1. \A k \in 1..m - 1 : kept(k).link # 0
        BY <1>0, <1>w, <2>1
      <3> HIDE DEF kept
      <3> QED
        BY <1>0, <3>1, <2>1
    <2>6. link(m) <= m /\ (link(m) # 0 => loop)
      <3>1. CASE i = n
        <4>1. kept(m).link = n
          BY <1>0, <1>w, <2>1, <3>1
        <4> QED
          BY <1>0, <2>1, <4>1
      <3>2. CASE i # n
        <4>0. n \in Int /\ i \in Int /\ i <= n
          BY <1>0
        <4>1. ~ (m < i) /\ m + 1 = n
          BY <3>2, <4>0
        <4>2. kept(m) = cards[n]
          BY <4>1
        <4>3. kept(m).link \in Links /\ m \in Nat
          BY <2>1, <2>3
        <4> HIDE DEF kept
        <4>4. link(m) <= m
          BY <4>3
        <4>5. link(m) # 0 => cards[n].link # 0
          BY <4>2
        <4> QED
          BY <1>w, <4>4, <4>5, Zenon
      <3> QED
        BY <3>1, <3>2
    <2> HIDE DEF kept, link
    <2>7. \A k \in 1..m : /\ [kept(k) EXCEPT !.link = link(k)] \in Cards
                          /\ [kept(k) EXCEPT !.link = link(k)].link = link(k)
      BY <2>3, <2>4 DEF Cards
    <2>8. cards' \in [1..m -> Cards] /\ \A k \in 1..m : cards'[k].link = link(k)
      BY <2>2, <2>7
    <2>9. Shape(m)
      BY <2>1, <2>5, <2>6, <2>8 DEF Shape
    <2>10. Looped(m)
      <3>1. loop' = loop
        BY <1>2 DEF RemoveCard
      <3> QED
        BY <1>0, <2>1, <2>6, <2>8, <3>1 DEF Looped
    <2>11. Modals(m)
      BY <1>2, <1>m, <2>1 DEF RemoveCard
    <2> QED
      BY <1>f, <2>1, <2>9, <2>10, <2>11
  (* The cards up to i, the last of them terminal. *)
  <1>c. ASSUME NEW i \in 1..n, CutBehind(i), loop' \in BOOLEAN PROVE Shape(i) /\ Looped(i)
    <2>1. \A k \in 1..i : /\ (IF k = i THEN [cards[k] EXCEPT !.link = 0] ELSE cards[k]) \in Cards
                          /\ [cards[k] EXCEPT !.link = 0].link = 0
      BY <1>0, <1>l DEF Cards
    <2>2. /\ cards' \in [1..i -> Cards] /\ cards'[i].link = 0
          /\ \A k \in 1..i - 1 : cards'[k] = cards[k]
      BY <1>0, <1>c, <2>1 DEF CutBehind
    <2>3. Shape(i)
      BY <1>0, <1>w, <2>2 DEF Shape
    <2>4. Looped(i)
      BY <1>c, <2>2 DEF Looped
    <2> QED
      BY <2>3, <2>4
  (* The last card gets another link. *)
  <1> DEFINE Relink(t) == cards' = [cards EXCEPT ![n].link = t]
  <1>n. ASSUME NEW t \in 0..n, Relink(t)
        PROVE  Shape(n) /\ cards'[n].link = t
    <2>1. [cards[n] EXCEPT !.link = t] \in Cards /\ [cards[n] EXCEPT !.link = t].link = t
      BY <1>0, <1>l, <1>n DEF Cards
    <2>2. /\ cards' \in [1..n -> Cards] /\ cards'[n].link = t
          /\ \A k \in 1..n - 1 : cards'[k] = cards[k]
      BY <1>0, <1>n, <2>1
    <2> QED
      BY <1>0, <1>w, <1>n, <2>2 DEF Shape
  <1> HIDE DEF Relink
  <1>3. ASSUME NEW i \in 1..n, KillLink(i) PROVE DraftInv'
    <2>0. NoModal /\ asking' = asking /\ cards[i].link # 0
      BY <1>3 DEF KillLink
    <2>1. CASE BackLink(i)
      <3>1. i = n
        <4>1. n \in Int /\ i \in Int /\ i <= n /\ cards[i].link <= i
          BY <1>0, <2>1 DEF BackLink
        <4>2. i \in 1..n - 1 => cards[i].link = i + 1
          BY <1>w
        <4> QED
          BY <4>1, <4>2
      <3>2. cards' = [cards EXCEPT ![n].link = 0] /\ loop' = FALSE /\ cutting' = cutting
        BY <1>3, <2>1, <3>1 DEF KillLink
      <3>3. Shape(n) /\ Looped(n)
        <4>1. Relink(0)
          BY <3>2 DEF Relink
        <4>2. 0 \in 0..n
          BY <1>0
        <4>3. Shape(n) /\ cards'[n].link = 0
          BY <1>n, <4>1, <4>2
        <4> QED
          BY <3>2, <4>3 DEF Looped
      <3>4. Modals(n)
        BY <1>0, <1>m, <2>0, <3>2
      <3> QED
        BY <1>0, <1>f, <3>3, <3>4
    <2>2. CASE ~ BackLink(i)
      <3>0. loop' = loop
        BY <1>3, <2>2 DEF KillLink
      <3>1. i < n
        BY <1>0, <1>w, <1>l, <2>0, <2>2 DEF BackLink
      <3>2. CASE CutBehind(i) /\ UNCHANGED cutting
        <4>1. Shape(i) /\ Looped(i)
          BY <1>0, <1>c, <3>0, <3>2
        <4>2. Modals(i)
          BY <1>m, <2>0, <3>2
        <4> QED
          BY <1>0, <1>f, <4>1, <4>2
      <3>3. CASE cutting' = i /\ UNCHANGED cards
        <4>1. Shape(n)
          BY <1>0, <1>w, <3>3 DEF Shape
        <4>2. Looped(n)
          BY <1>0, <1>w, <3>0, <3>3 DEF Looped
        <4>3. Modals(n)
          BY <1>0, <2>0, <3>1, <3>3 DEF Modals, NoModal
        <4> QED
          BY <1>0, <1>f, <4>1, <4>2, <4>3
      <3> QED
        BY <1>3, <2>2, <3>2, <3>3 DEF KillLink
    <2> QED
      BY <2>1, <2>2
  <1>4. ASSUME NEW t \in 1..n, StageBackLink(t) PROVE DraftInv'
    <2>1. /\ cards' = [cards EXCEPT ![n].link = t]
          /\ asking' = [card |-> n, link |-> cards[n].link, loop |-> loop]
          /\ loop' = TRUE /\ cutting' = 0
      BY <1>4 DEF StageBackLink, NoModal
    <2>2. Shape(n)
      <3>1. t \in 0..n /\ Relink(t)
        BY <1>0, <1>4, <2>1 DEF Relink
      <3> QED
        BY <1>n, <3>1
    <2>3. Looped(n)
      BY <2>1 DEF Looped
    <2>4. /\ asking'.card = n /\ asking'.link = cards[n].link
          /\ asking' \in [card: Links, link: Links, loop: BOOLEAN]
      BY <1>0, <1>l, <2>1
    <2>5. asking'.loop = loop
      BY <2>1
    <2>6. asking'.link # 0 => asking'.loop
      BY <1>w, <2>4, <2>5, Zenon
    <2>7. Modals(n)
      BY <1>0, <1>w, <2>1, <2>4, <2>6 DEF Modals
    <2> QED
      BY <1>0, <1>f, <2>2, <2>3, <2>7
  <1>5. ASSUME AddCard PROVE DraftInv'
    <2> DEFINE linked == [cards EXCEPT ![n].link = n + 1]
    <2>1. n < MaxCards /\ cards' = Append(linked, NewCard)
      BY <1>5 DEF AddCard
    <2>2. linked \in [1..n -> Cards] /\ NewCard \in Cards
      BY <1>0, <1>l, <2>1 DEF Cards, NewCard
    <2>3. \A k \in 1..n : linked[k].link = k + 1
      <3>1. [cards[n] EXCEPT !.link = n + 1].link = n + 1
        BY <1>0, <1>l DEF Cards
      <3> QED
        BY <1>0, <1>w, <3>1
    <2>4. linked \in Seq(Cards) /\ Len(linked) = n
      BY <1>0, <2>2, FunctionAsCards
    <2> HIDE DEF linked
    <2>5. /\ cards' \in Seq(Cards) /\ Len(cards') = n + 1
          /\ cards'[n + 1] = NewCard /\ \A k \in 1..n : cards'[k] = linked[k]
      BY <1>0, <2>1, <2>2, <2>4, AppendProperties
    <2>6. cards' \in [1..n + 1 -> Cards] /\ n + 1 \in 1..MaxCards
      <3>1. cards' \in [1..Len(cards') -> Cards]
        BY <2>5, LenProperties
      <3> QED
        BY <1>0, <2>1, <2>5, <3>1
    <2>7. cards'[n + 1].link = 0
      BY <2>5 DEF NewCard
    <2>8. Shape(n + 1)
      BY <1>0, <2>3, <2>5, <2>6, <2>7 DEF Shape
    <2>9. Looped(n + 1)
      BY <1>0, <1>5, <2>7 DEF Looped, AddCard
    <2>10. Modals(n + 1)
      BY <1>0, <1>5, <1>m DEF AddCard
    <2> QED
      BY <1>f, <2>6, <2>8, <2>9, <2>10
  <1>6. ASSUME CancelBackLink PROVE DraftInv'
    <2>1. /\ asking.card = n /\ asking.link <= n /\ cutting = 0
          /\ asking.link # 0 => asking.loop
      BY <1>6 DEF CancelBackLink, DraftInv, ModalsFit
    <2>2. /\ cards' = [cards EXCEPT ![n].link = asking.link]
          /\ asking' = NotAsking /\ cutting' = cutting
      BY <1>6, <2>1 DEF CancelBackLink
    <2>3. loop' = asking.loop
      BY <1>6 DEF CancelBackLink
    <2>4. Shape(n) /\ cards'[n].link = asking.link
      <3>1. asking.link \in 0..n /\ Relink(asking.link)
        BY <1>0, <2>1, <2>2 DEF Relink
      <3> QED
        BY <1>n, <3>1
    <2>5. loop' \in BOOLEAN
      BY <1>0, <2>3
    <2>6. Looped(n)
      BY <2>1, <2>3, <2>4, <2>5, Zenon DEF Looped
    <2>7. Modals(n)
      BY <1>0, <2>1, <2>2 DEF Modals, NotAsking
    <2> QED
      BY <1>0, <1>f, <2>4, <2>6, <2>7
  <1>7. ASSUME ApplyBackLink PROVE DraftInv'
    <2>1. cutting = 0
      BY <1>7 DEF ApplyBackLink, DraftInv, ModalsFit
    <2>2. Shape(n)
      BY <1>0, <1>w, <1>7 DEF ApplyBackLink, Shape
    <2>3. Looped(n)
      BY <1>7 DEF ApplyBackLink, Looped
    <2>4. Modals(n)
      BY <1>0, <1>7, <2>1 DEF ApplyBackLink, Modals, NotAsking
    <2> QED
      BY <1>0, <1>f, <2>2, <2>3, <2>4
  <1>8. ASSUME ClearBackLink PROVE DraftInv'
    <2>1. cards' = [cards EXCEPT ![n].link = 0] /\ loop' = FALSE
      BY <1>8 DEF ClearBackLink
    <2>2. Shape(n) /\ Looped(n)
      <3>1. 0 \in 0..n /\ Relink(0)
        BY <1>0, <2>1 DEF Relink
      <3>2. Shape(n) /\ cards'[n].link = 0
        BY <1>n, <3>1
      <3> QED
        BY <2>1, <3>2 DEF Looped
    <2>3. Modals(n)
      BY <1>0, <1>8, <1>m DEF ClearBackLink
    <2> QED
      BY <1>0, <1>f, <2>2, <2>3
  <1>9. ASSUME ConfirmCut PROVE DraftInv'
    <2>1. cutting \in 1..n - 1 /\ asking.card = 0
      BY <1>0, <1>9 DEF ConfirmCut, DraftInv, ModalsFit
    <2>2. Shape(cutting) /\ Looped(cutting)
      BY <1>0, <1>9, <1>c, <2>1 DEF ConfirmCut
    <2>3. Modals(cutting)
      BY <1>0, <1>9, <2>1 DEF ConfirmCut, Modals
    <2> QED
      BY <1>0, <1>f, <2>1, <2>2, <2>3
  <1>10. ASSUME CancelCut PROVE DraftInv'
    <2>1. Shape(n)
      BY <1>0, <1>w, <1>10 DEF CancelCut, Shape
    <2>2. Looped(n)
      BY <1>0, <1>w, <1>10 DEF CancelCut, Looped
    <2>3. asking.card = 0
      BY <1>10 DEF CancelCut, DraftInv, ModalsFit
    <2>4. Modals(n)
      BY <1>0, <1>10, <2>3 DEF CancelCut, Modals
    <2> QED
      BY <1>0, <1>f, <2>1, <2>2, <2>4
  <1> QED
    BY <1>1, <1>2, <1>3, <1>4, <1>5, <1>6, <1>7, <1>8, <1>9, <1>10 DEF DraftNext

-----------------------------------------------------------------------------
Phases  == {"idle", "setup", "send", "confirm", "report", "done", "failed"}
Outs    == [Batches -> {"none", "pending", "created", "failed"}]
Att     == [at: Phases, start: Nat, batch: Nat, out: Outs]
RuleRec == [by: {0} \union Attempts, card: Nat, dest: Int, upstream: Int,
            seed: Nat, bridge: BOOLEAN, looped: BOOLEAN]

ChainTypes == rules \in Seq(RuleRec) /\ att \in [Attempts -> Att]

(* An attempt that has not begun has handed nothing to the chain, and one   *)
(* that has was begun with a complete draft.                                *)
BegunInOrder ==
  \A a \in Attempts :
    /\ att[a].at = "idle" => \A b \in Batches : att[a].out[b] = "none"
    /\ att[a].at # "idle" => \A i \in 1..Count : cards[i].result \in Results

(* A rule of an attempt sits where its card was planned, as it was planned. *)
Placed ==
  \A p \in 1..Len(rules) :
    rules[p].by # 0 =>
      LET a == rules[p].by
          i == rules[p].card
      IN /\ a \in Attempts /\ att[a].at # "idle"
         /\ i \in 1..Count
         /\ p = Pda(a, i) /\ rules[p] = Planned(a, i)

CreationInv == DraftInv /\ ChainTypes /\ BegunInOrder /\ Placed

LEMMA InitInv == ASSUME Init PROVE CreationInv
  <1>1. DraftInv
    BY DraftInitInv DEF Init
  <1>2. rules = <<>> /\ Len(rules) = 0 /\ rules \in Seq(RuleRec)
    BY DEF Init
  <1>3. Fresh \in Att /\ Fresh.at = "idle" /\ \A b \in Batches : Fresh.out[b] = "none"
    BY DEF Fresh, Att, Phases, Outs
  <1>4. att \in [Attempts -> Att] /\ \A a \in Attempts : att[a] = Fresh
    BY <1>3 DEF Init
  <1>5. BegunInOrder
    BY <1>3, <1>4 DEF BegunInOrder
  <1> QED
    BY <1>1, <1>2, <1>4, <1>5 DEF CreationInv, ChainTypes, Placed

(* A step that leaves the draft alone and moves no started attempt back or  *)
(* elsewhere leaves the plans of the started attempts as they are.          *)
LEMMA PlansKept ==
  ASSUME UNCHANGED <<cards, loop>>, NEW a \in Attempts, att'[a].start = att[a].start
  PROVE  \A i : Planned(a, i)' = Planned(a, i) /\ Pda(a, i)' = Pda(a, i)
  BY DEF Planned, Pda, BridgeEnabled, Seed, CycleMembers, FindCycleNodes, Count,
         BridgeRequired

(* What has to be shown of a step of one attempt that creates nothing.      *)
LEMMA QuietStep ==
  ASSUME CreationInv, UNCHANGED <<cards, loop, asking, cutting, rules>>,
         NEW a \in Attempts, NEW r \in Att, att' = [att EXCEPT ![a] = r],
         att[a].at # "idle", r.at # "idle", r.start = att[a].start
  PROVE  CreationInv'
  <1>1. DraftInv'
    BY DEF CreationInv, DraftInv, DraftTypeOK, DraftWellLinked, ModalsFit
  <1>2. ChainTypes'
    BY DEF CreationInv, ChainTypes
  <1>3. \A c \in Attempts : /\ att'[c].start = att[c].start
                            /\ att'[c].at = "idle" => att'[c] = att[c]
                            /\ att[c].at # "idle" => att'[c].at # "idle"
                            /\ att'[c].at # "idle" => att[c].at # "idle"
    BY DEF CreationInv, ChainTypes
  <1>4. BegunInOrder'
    BY <1>3 DEF CreationInv, BegunInOrder, Count
  <1>5. Placed'
    <2> SUFFICES ASSUME NEW p \in 1..Len(rules), rules[p].by # 0
                 PROVE  LET c == rules[p].by
                            i == rules[p].card
                        IN /\ c \in Attempts /\ att'[c].at # "idle"
                           /\ i \in 1..Count
                           /\ p = Pda(c, i)' /\ rules[p] = Planned(c, i)'
      BY DEF Placed, Count
    <2>1. LET c == rules[p].by
              i == rules[p].card
          IN /\ c \in Attempts /\ att[c].at # "idle"
             /\ i \in 1..Count
             /\ p = Pda(c, i) /\ rules[p] = Planned(c, i)
      BY DEF CreationInv, Placed
    <2>2. /\ Planned(rules[p].by, rules[p].card)' = Planned(rules[p].by, rules[p].card)
          /\ Pda(rules[p].by, rules[p].card)' = Pda(rules[p].by, rules[p].card)
      BY <1>3, <2>1, PlansKept
    <2> QED
      BY <1>3, <2>1, <2>2
  <1> QED
    BY <1>1, <1>2, <1>4, <1>5 DEF CreationInv

(* What a planned rule looks like. *)
LEMMA PlannedType ==
  ASSUME CreationInv, NEW a \in Attempts, NEW i \in 1..Count, att[a].at # "idle"
  PROVE  /\ Planned(a, i) \in RuleRec
         /\ Planned(a, i).by = a /\ Planned(a, i).card = i
  <1>1. Count \in Nat /\ MaxCards \in Nat /\ SelfCycles \in Nat
    BY CardsAsFunction, DraftAssumption, CreationAssumption
       DEF CreationInv, DraftInv, DraftTypeOK, Cards, Count
  <1>2. cards \in [1..Count -> Cards]
    BY CardsAsFunction DEF CreationInv, DraftInv, DraftTypeOK, Cards, Count
  <1>3. cards[i].link \in Int /\ att[a].start \in Int
    BY <1>1, <1>2 DEF Cards, Links, CreationInv, ChainTypes, Att
  <1>4. Planned(a, i).dest \in Int /\ Planned(a, i).upstream \in Int
    BY <1>1, <1>3 DEF Planned, Pda
  <1>5. Planned(a, i).seed \in Nat
    BY <1>1 DEF Planned, Seed
  <1>6. Planned(a, i).bridge \in BOOLEAN
    BY DEF Planned, BridgeEnabled
  <1>7. Planned(a, i).looped \in BOOLEAN
    BY DEF Planned
  <1>8. Planned(a, i).by = a /\ Planned(a, i).card = i
    BY DEF Planned
  <1>9. Planned(a, i) = [by |-> Planned(a, i).by, card |-> Planned(a, i).card,
                         dest |-> Planned(a, i).dest, upstream |-> Planned(a, i).upstream,
                         seed |-> Planned(a, i).seed, bridge |-> Planned(a, i).bridge,
                         looped |-> Planned(a, i).looped]
    BY DEF Planned
  <1> HIDE DEF Planned
  <1> QED
    BY <1>1, <1>4, <1>5, <1>6, <1>7, <1>8, <1>9 DEF RuleRec

LEMMA CountFits ==
  ASSUME CreationInv
  PROVE  /\ Count \in Nat /\ Count <= MaxCards /\ MaxCards \in Nat
         /\ LastBatch \in Nat /\ 1..LastBatch \subseteq Batches
  <1>1. Count \in Nat /\ Count <= MaxCards /\ MaxCards \in Nat
    BY DraftAssumption, CardsAsFunction
       DEF CreationInv, DraftInv, DraftTypeOK, Cards, Count
  <1>2. LastBatch \in Nat /\ LastBatch <= (MaxCards + 1) \div 2
    BY <1>1 DEF LastBatch, BatchSize
  <1> QED
    BY <1>1, <1>2 DEF Batches, BatchSize

(* The chain takes a batch whole: its rules come to sit where they were     *)
(* planned because the counter stands at the number of the first one.       *)
LEMMA LandInv ==
  ASSUME CreationInv, NEW a \in Attempts, NEW b \in 1..LastBatch, Land(a, b)
  PROVE  CreationInv'
  <1> DEFINE created == [k \in 1..Size(b) |-> Planned(a, First(b) + k - 1)]
             len     == Len(rules)
  <1>0. /\ att[a] \in Att /\ att \in [Attempts -> Att] /\ rules \in Seq(RuleRec)
        /\ len \in Nat
    BY DEF CreationInv, ChainTypes
  <1>1. att[a].at # "idle"
    BY CountFits DEF Land, CreationInv, BegunInOrder
  <1>2. ASSUME NEW o \in {"created", "failed"}, att' = [att EXCEPT ![a].out[b] = o],
               rules' = rules
        PROVE  CreationInv'
    <2> DEFINE r == [att[a] EXCEPT !.out[b] = o]
    <2>1. r \in Att /\ r.at = att[a].at /\ r.start = att[a].start
      BY <1>0 DEF Att, Outs
    <2>2. att' = [att EXCEPT ![a] = r]
      BY <1>0, <1>2
    <2> HIDE DEF r
    <2> QED
      BY <1>1, <1>2, <2>1, <2>2, QuietStep DEF Land
  <1>3. ASSUME CanCreate(a, b), rules' = rules \o created,
               att' = [att EXCEPT ![a].out[b] = "created"]
        PROVE  CreationInv'
    <2>1. /\ First(b) \in Nat \ {0} /\ Size(b) \in Nat /\ First(b) + Size(b) - 1 <= Count
          /\ Count \in Nat
      <3>1. Count \in Nat /\ b \in Nat \ {0}
        BY CountFits
      <3>2. 2 * (b - 1) + 1 <= Count
        BY <3>1 DEF LastBatch, BatchSize
      <3> QED
        BY <3>1, <3>2 DEF First, Size, BatchSize
    <2>s. Size(b) \in Nat
      BY <2>1
    <2>2. \A k \in 1..Size(b) : First(b) + k - 1 \in 1..Count
      BY <2>1
    <2>3. \A k \in 1..Size(b) : Planned(a, First(b) + k - 1) \in RuleRec
      BY <1>1, <2>2, PlannedType
    <2>4. created \in Seq(RuleRec) /\ Len(created) = Size(b)
      <3>1. created \in [1..Size(b) -> RuleRec]
        BY <2>3
      <3>2. created \in Seq(RuleRec)
        BY <2>s, <3>1, SeqDef
      <3> QED
        BY <2>s, <3>1, <3>2
    <2>5. \A k \in 1..Size(b) : created[k] = Planned(a, First(b) + k - 1)
      OBVIOUS
    <2> HIDE DEF created
    <2>6. /\ rules' \in Seq(RuleRec) /\ Len(rules') = len + Size(b)
          /\ \A p \in 1..len : rules'[p] = rules[p]
          /\ \A p \in len + 1..len + Size(b) : rules'[p] = created[p - len]
      <3>1. /\ rules' \in Seq(RuleRec) /\ Len(rules') = len + Size(b)
            /\ \A p \in 1..len + Size(b) :
                 rules'[p] = IF p <= len THEN rules[p] ELSE created[p - len]
        BY <1>0, <1>3, <2>4, ConcatProperties
      <3> QED
        BY <1>0, <2>s, <3>1
    <2>7. /\ att' \in [Attempts -> Att]
          /\ \A c \in Attempts : att'[c].at = att[c].at /\ att'[c].start = att[c].start
          /\ \A c \in Attempts : c # a => att'[c] = att[c]
      <3> DEFINE r == [att[a] EXCEPT !.out[b] = "created"]
      <3>1. r \in Att /\ r.at = att[a].at /\ r.start = att[a].start
        BY <1>0 DEF Att, Outs
      <3>2. att' = [att EXCEPT ![a] = r]
        BY <1>0, <1>3
      <3> HIDE DEF r
      <3> QED
        BY <1>0, <3>1, <3>2
    <2>8. DraftInv'
      BY DEF Land, CreationInv, DraftInv, DraftTypeOK, DraftWellLinked, ModalsFit
    <2>9. BegunInOrder'
      BY <1>1, <2>7 DEF Land, CreationInv, BegunInOrder, Count
    <2>10. Placed'
      <3> SUFFICES ASSUME NEW p \in 1..len + Size(b), NEW c, NEW j,
                          rules'[p].by = c, rules'[p].card = j, c # 0
                   PROVE  /\ c \in Attempts /\ att'[c].at # "idle"
                          /\ j \in 1..Count
                          /\ p = Pda(c, j)' /\ rules'[p] = Planned(c, j)'
        <4> HIDE DEF created
        <4> QED
          BY <2>6 DEF Placed, Count, Land
      <3>1. CASE p <= len
        <4>1. rules'[p] = rules[p] /\ p \in 1..len
          BY <1>0, <2>6, <3>1
        <4>2. /\ c \in Attempts /\ att[c].at # "idle"
              /\ j \in 1..Count
              /\ p = Pda(c, j) /\ rules[p] = Planned(c, j)
          BY <4>1 DEF CreationInv, Placed
        <4>3. Planned(c, j)' = Planned(c, j) /\ Pda(c, j)' = Pda(c, j)
          <5>1. att'[c].start = att[c].start /\ UNCHANGED <<cards, loop>>
            BY <2>7, <4>2 DEF Land
          <5> QED
            BY <4>2, <5>1, PlansKept
        <4>4. att'[c].at # "idle"
          BY <2>7, <4>2
        <4> QED
          BY <4>1, <4>2, <4>3, <4>4
      <3>2. CASE p > len
        <4>0. PICK i \in Int : i = First(b) + (p - len) - 1
          BY <1>0, <2>1
        <4>1. p - len \in 1..Size(b) /\ p \in len + 1..len + Size(b)
          BY <1>0, <2>s, <3>2
        <4>2. i \in 1..Count /\ rules'[p] = Planned(a, i)
          BY <2>2, <2>5, <2>6, <4>0, <4>1
        <4>3. p = Pda(a, i)
          <5>1. len + 1 = att[a].start + First(b) - 1
            BY <1>3 DEF CanCreate, Pda
          <5>2. att[a].start \in Nat
            BY <1>0 DEF Att
          <5>3. p \in Int /\ len \in Int /\ First(b) \in Int
            BY <1>0, <2>1
          <5>4. Pda(a, i) = att[a].start + i - 1
            BY DEF Pda
          <5> HIDE DEF len
          <5> QED
            BY <4>0, <5>1, <5>2, <5>3, <5>4
        <4>4. Planned(a, i).by = a /\ Planned(a, i).card = i
          BY <1>1, <4>2, PlannedType
        <4>5. Planned(a, i)' = Planned(a, i) /\ Pda(a, i)' = Pda(a, i)
          <5>1. att'[a].start = att[a].start /\ UNCHANGED <<cards, loop>>
            BY <2>7 DEF Land
          <5> QED
            BY <5>1, PlansKept
        <4>6. c = a /\ j = i
          BY <4>2, <4>4
        <4>7. att'[a].at # "idle"
          BY <1>1, <2>7
        <4> QED
          BY <4>2, <4>3, <4>5, <4>6, <4>7
      <3> QED
        BY <1>0, <2>s, <3>1, <3>2
    <2> QED
      BY <2>6, <2>7, <2>8, <2>9, <2>10 DEF CreationInv, ChainTypes
  <1> QED
    BY <1>2, <1>3 DEF Land

LEMMA BeginInv ==
  ASSUME CreationInv, NEW a \in Attempts, Begin(a)
  PROVE  CreationInv'
  <1> DEFINE r == [Fresh EXCEPT !.at = "setup", !.start = Len(rules) + 1]
  <1>1. /\ att' = [att EXCEPT ![a] = r] /\ att[a].at = "idle"
        /\ UNCHANGED <<cards, loop, asking, cutting, rules>>
    BY DEF Begin
  <1>2. r \in Att /\ r.at = "setup"
    <2>1. Fresh \in Att
      BY DEF Fresh, Att, Phases, Outs
    <2>2. Len(rules) + 1 \in Nat
      BY DEF CreationInv, ChainTypes
    <2> QED
      BY <2>1, <2>2 DEF Att, Phases
  <1> HIDE DEF r
  <1>3. /\ att' \in [Attempts -> Att] /\ att'[a] = r
        /\ \A c \in Attempts : c # a => att'[c] = att[c]
    BY <1>1, <1>2 DEF CreationInv, ChainTypes
  <1>4. DraftInv' /\ ChainTypes'
    BY <1>1, <1>3 DEF CreationInv, ChainTypes, DraftInv, DraftTypeOK, DraftWellLinked,
                      ModalsFit
  <1>5. \A i \in 1..Count : cards[i].result \in Results
    <2>1. cards \in [1..Count -> Cards]
      BY CardsAsFunction DEF CreationInv, DraftInv, DraftTypeOK, Cards, Count
    <2>2. \A i \in 1..Count : cards[i].result # Unfilled
      BY DEF Begin, ChainReady, Count
    <2> QED
      BY <2>1, <2>2 DEF Cards
  <1>6. BegunInOrder'
    BY <1>1, <1>2, <1>3, <1>5 DEF CreationInv, BegunInOrder, Count
  <1>7. Placed'
    <2> SUFFICES ASSUME NEW p \in 1..Len(rules), NEW c, NEW j,
                        rules[p].by = c, rules[p].card = j, c # 0
                 PROVE  /\ c \in Attempts /\ att'[c].at # "idle"
                        /\ j \in 1..Count
                        /\ p = Pda(c, j)' /\ rules[p] = Planned(c, j)'
      BY <1>1 DEF Placed, Count
    <2>1. /\ c \in Attempts /\ att[c].at # "idle"
          /\ j \in 1..Count
          /\ p = Pda(c, j) /\ rules[p] = Planned(c, j)
      BY DEF CreationInv, Placed
    <2>2. att'[c] = att[c]
      BY <1>1, <1>3, <2>1
    <2>3. Planned(c, j)' = Planned(c, j) /\ Pda(c, j)' = Pda(c, j)
      BY <1>1, <2>1, <2>2, PlansKept
    <2> QED
      BY <2>1, <2>2, <2>3
  <1> QED
    BY <1>4, <1>6, <1>7 DEF CreationInv

(* Every other step: the builder is open only while no attempt has begun,   *)
(* and another wallet's rule is nobody's plan.                              *)
LEMMA NextInv ==
  ASSUME CreationInv, [Next]_vars
  PROVE  CreationInv'
  <1>0. /\ att \in [Attempts -> Att] /\ rules \in Seq(RuleRec)
    BY DEF CreationInv, ChainTypes
  <1>1. CASE Edit
    <2>1. \A p \in 1..Len(rules) : rules[p].by = 0
      BY <1>1 DEF Edit, CreationInv, Placed
    <2>2. DraftInv'
      BY <1>1, EditInv DEF Edit, CreationInv
    <2>3. UNCHANGED <<rules, att>> /\ \A a \in Attempts : att[a].at = "idle"
      BY <1>1 DEF Edit, creationVars
    <2> QED
      BY <2>1, <2>2, <2>3 DEF CreationInv, ChainTypes, BegunInOrder, Placed
  <1>2. CASE Foreign
    <2> DEFINE other == [by |-> 0, card |-> 0, dest |-> 0, upstream |-> 0,
                         seed |-> 0, bridge |-> FALSE, looped |-> FALSE]
    <2>1. other \in RuleRec /\ other.by = 0
      BY DEF RuleRec
    <2>2. /\ rules' = Append(rules, other)
          /\ UNCHANGED <<cards, loop, asking, cutting, att>>
      BY <1>2 DEF Foreign
    <2> HIDE DEF other
    <2>3. /\ rules' \in Seq(RuleRec) /\ Len(rules') = Len(rules) + 1
          /\ \A p \in 1..Len(rules) : rules'[p] = rules[p]
          /\ rules'[Len(rules) + 1] = other
      BY <1>0, <2>1, <2>2, AppendProperties
    <2>4. DraftInv' /\ ChainTypes' /\ BegunInOrder'
      BY <2>2, <2>3 DEF CreationInv, ChainTypes, BegunInOrder, DraftInv, DraftTypeOK,
                        DraftWellLinked, ModalsFit, Count
    <2>5. Placed'
      <3> SUFFICES ASSUME NEW p \in 1..Len(rules) + 1, NEW c, NEW j,
                          rules'[p].by = c, rules'[p].card = j, c # 0
                   PROVE  /\ c \in Attempts /\ att[c].at # "idle"
                          /\ j \in 1..Count
                          /\ p = Pda(c, j)' /\ rules'[p] = Planned(c, j)'
        BY <2>2, <2>3 DEF Placed, Count
      <3>1. p \in 1..Len(rules) /\ rules'[p] = rules[p]
        BY <1>0, <2>1, <2>3
      <3>2. /\ c \in Attempts /\ att[c].at # "idle"
            /\ j \in 1..Count
            /\ p = Pda(c, j) /\ rules[p] = Planned(c, j)
        BY <3>1 DEF CreationInv, Placed
      <3>3. Planned(c, j)' = Planned(c, j) /\ Pda(c, j)' = Pda(c, j)
        BY <2>2, <3>2, PlansKept
      <3> QED
        BY <3>1, <3>2, <3>3
    <2> QED
      BY <2>4, <2>5 DEF CreationInv
  <1>3. ASSUME NEW a \in Attempts, Begin(a) PROVE CreationInv'
    BY <1>3, BeginInv
  <1>4. ASSUME NEW a \in Attempts, NEW next \in Phases \ {"idle"}, att[a].at # "idle",
               att' = [att EXCEPT ![a].at = next],
               UNCHANGED <<cards, loop, asking, cutting, rules>>
        PROVE  CreationInv'
    <2> DEFINE r == [att[a] EXCEPT !.at = next]
    <2>1. r \in Att /\ r.at # "idle" /\ r.start = att[a].start
      BY <1>0 DEF Att, Phases
    <2>2. att' = [att EXCEPT ![a] = r]
      BY <1>0, <1>4
    <2> HIDE DEF r
    <2> QED
      BY <1>4, <2>1, <2>2, QuietStep
  <1>5. ASSUME NEW a \in Attempts, Setup(a) PROVE CreationInv'
    BY <1>4, <1>5 DEF Setup, Phases
  <1>6. ASSUME NEW a \in Attempts, Abort(a) PROVE CreationInv'
    BY <1>4, <1>6 DEF Abort, Phases
  <1>7. ASSUME NEW a \in Attempts, Report(a) PROVE CreationInv'
    BY <1>4, <1>7 DEF Report, Phases
  <1>8. ASSUME NEW a \in Attempts, Send(a) PROVE CreationInv'
    <2>1. PICK next \in {"confirm", "failed"} :
            att' = [att EXCEPT ![a].at = next, ![a].out[att[a].batch] = "pending"]
      BY <1>8 DEF Send
    <2> DEFINE r == [att[a] EXCEPT !.at = next, !.out[att[a].batch] = "pending"]
    <2>2. r \in Att /\ r.at # "idle" /\ r.start = att[a].start
      BY <1>0 DEF Att, Phases, Outs
    <2>3. att' = [att EXCEPT ![a] = r]
      BY <1>0, <2>1
    <2> HIDE DEF r
    <2> QED
      BY <1>8, <2>2, <2>3, QuietStep DEF Send
  <1>9. ASSUME NEW a \in Attempts, Confirm(a) PROVE CreationInv'
    <2> DEFINE next == IF att[a].batch = LastBatch THEN "report" ELSE "send"
               r    == [att[a] EXCEPT !.at = next, !.batch = att[a].batch + 1]
    <2>0. next \in Phases \ {"idle"} /\ att[a] \in Att /\ att[a].batch + 1 \in Nat
      BY <1>0 DEF Phases, Att
    <2>2. att' = [att EXCEPT ![a] = r]
      BY <1>0, <1>9 DEF Confirm
    <2> HIDE DEF next
    <2>1. r \in Att /\ r.at # "idle" /\ r.start = att[a].start
      BY <2>0 DEF Att
    <2> HIDE DEF r
    <2> QED
      BY <1>9, <2>1, <2>2, QuietStep DEF Confirm
  <1>10. CASE UNCHANGED vars
    <2>1. UNCHANGED <<cards, loop, asking, cutting, rules, att>>
      BY <1>10 DEF vars
    <2>2. DraftInv' /\ ChainTypes' /\ BegunInOrder'
      BY <2>1 DEF CreationInv, ChainTypes, BegunInOrder, DraftInv, DraftTypeOK,
                  DraftWellLinked, ModalsFit, Count
    <2>3. Placed'
      <3> SUFFICES ASSUME NEW p \in 1..Len(rules), NEW c, NEW j,
                          rules[p].by = c, rules[p].card = j, c # 0
                   PROVE  /\ c \in Attempts /\ att[c].at # "idle"
                          /\ j \in 1..Count
                          /\ p = Pda(c, j)' /\ rules[p] = Planned(c, j)'
        BY <2>1 DEF Placed, Count
      <3>1. /\ c \in Attempts /\ att[c].at # "idle"
            /\ j \in 1..Count
            /\ p = Pda(c, j) /\ rules[p] = Planned(c, j)
        BY DEF CreationInv, Placed
      <3>2. Planned(c, j)' = Planned(c, j) /\ Pda(c, j)' = Pda(c, j)
        BY <2>1, <3>1, PlansKept
      <3> QED
        BY <3>1, <3>2
    <2> QED
      BY <2>2, <2>3 DEF CreationInv
  <1> QED
    BY <1>1, <1>2, <1>3, <1>5, <1>6, <1>7, <1>8, <1>9, <1>10, LandInv DEF Next

LEMMA SpecInv == Spec => []CreationInv
  BY InitInv, NextInv, PTL DEF Spec

-----------------------------------------------------------------------------
(* The links of a draft stay the ones chain creation counts on through any  *)
(* sequence of edits in LinkedChainBuilder.                                 *)
THEOREM DraftsWellLinked == Spec => []DraftWellLinked
  <1>1. CreationInv => DraftWellLinked
    BY DEF CreationInv, DraftInv
  <1> QED
    BY <1>1, SpecInv, PTL

(* sendChainCreate's routes: whatever other wallets create in between and   *)
(* whichever batches land, a created rule pays into, and watches, exactly   *)
(* the created rules its card says.                                         *)
LEMMA RoutesFromPlaces == ASSUME CreationInv PROVE RoutesAsPlanned
  <1> SUFFICES ASSUME NEW p \in 1..Len(rules), NEW q \in 1..Len(rules),
                      rules[p].by # 0, rules[q].by = rules[p].by
               PROVE  LET i == rules[p].card
                          j == rules[q].card
                      IN /\ i \in 1..Count
                         /\ (rules[p].dest = q) <=> (Count > 1 /\ cards[i].link = j)
                         /\ (rules[p].upstream = q) <=>
                              (cards[i].result.relative /\ j = i - 1)
    BY DEF RoutesAsPlanned
  <1>1. PICK a, i, j : a = rules[p].by /\ i = rules[p].card /\ j = rules[q].card
    OBVIOUS
  <1>2. /\ a \in Attempts /\ att[a].at # "idle"
        /\ i \in 1..Count /\ j \in 1..Count
        /\ p = Pda(a, i) /\ rules[p] = Planned(a, i) /\ q = Pda(a, j)
    BY <1>1 DEF CreationInv, Placed
  <1>3. Count \in Nat /\ att[a].start \in Int /\ p \in Nat \ {0} /\ q \in Nat \ {0}
    BY <1>2, CountFits DEF CreationInv, ChainTypes, Att
  <1>4. cards[i].link \in Int
    <2>1. cards \in [1..Count -> Cards]
      BY CardsAsFunction DEF CreationInv, DraftInv, DraftTypeOK, Cards, Count
    <2> QED
      BY <1>2, <1>3, <2>1, CountFits DEF Cards, Links
  <1>5. cards[i].result.relative \in BOOLEAN
    BY <1>2, DraftAssumption DEF CreationInv, BegunInOrder
  <1>6. q = att[a].start + j - 1 /\ i \in Int /\ j \in Int /\ i >= 1 /\ j >= 1 /\ Count >= i
    BY <1>2, <1>3 DEF Pda
  <1>7. rules[p].dest = IF Count = 1 \/ cards[i].link = 0 THEN 0
                        ELSE att[a].start + cards[i].link - 1
    BY <1>2 DEF Planned, Pda
  <1>8. rules[p].upstream = IF cards[i].result.relative THEN att[a].start + (i - 1) - 1 ELSE 0
    BY <1>2 DEF Planned, Pda
  <1>9. (rules[p].dest = q) <=> (Count > 1 /\ cards[i].link = j)
    BY <1>3, <1>4, <1>6, <1>7
  <1>10. (rules[p].upstream = q) <=> (cards[i].result.relative /\ j = i - 1)
    <2>1. CASE cards[i].result.relative
      BY <1>3, <1>6, <1>8, <2>1
    <2>2. CASE ~ cards[i].result.relative
      BY <1>3, <1>8, <2>2
    <2> QED
      BY <2>1, <2>2
  <1> QED
    BY <1>1, <1>2, <1>9, <1>10

THEOREM RoutesStayPlanned == Spec => []RoutesAsPlanned
  BY SpecInv, RoutesFromPlaces, PTL

-----------------------------------------------------------------------------
(* Induction over 0..n, told of a set: what holds of 0 and of a number      *)
(* whose predecessor it holds of, holds of all (the least number outside    *)
(* the set would have a predecessor in it).                                 *)
LEMMA SetInduction ==
  ASSUME NEW n \in Nat, NEW S, 0 \in S, \A k \in 1..n : k - 1 \in S => k \in S
  PROVE  \A k \in 0..n : k \in S
  <1> DEFINE T == {k \in 0..n : k \notin S}
  <1>1. SUFFICES ASSUME T # {} PROVE FALSE
    OBVIOUS
  <1>2. T \in SUBSET Nat
    OBVIOUS
  <1>3. \E m \in T : \A k \in T : ~ (<<k, m>> \in OpToRel(<, Nat))
    <2> HIDE DEF T
    <2> QED BY <1>1, <1>2, NatLessThanWellFounded, WFMin
  <1>4. PICK m \in T : \A k \in T : ~ (k < m)
    <2>1. \A x, y \in Nat : y < x => <<y, x>> \in OpToRel(<, Nat)
      BY DEF OpToRel
    <2> HIDE DEF T
    <2> QED BY <1>2, <1>3, <2>1
  <1>5. m \in 1..n
    OBVIOUS
  <1>6. m - 1 \in S
    BY <1>4, <1>5
  <1> QED BY <1>5, <1>6

(* A recursive function is defined as the function that satisfies its       *)
(* equation: there is one when each step stays in the set D.                *)
Iterates(F, x, n, f) ==
  f = [k \in 0..n |-> IF k = 0 THEN x ELSE F[k][f[k - 1]]]

LEMMA IteratesExist ==
  ASSUME NEW D, NEW n \in Nat, NEW F \in [1..n -> [D -> D]], NEW x \in D
  PROVE  \E f \in [0..n -> D] : Iterates(F, x, n, f)
  <1> DEFINE S == {m \in 0..n : \E f \in [0..m -> D] : Iterates(F, x, m, f)}
  <1>1. 0 \in S
    <2>1. PICK f : f = [k \in 0..0 |-> x]
      OBVIOUS
    <2>2. \A k \in 0..0 : k = 0
      OBVIOUS
    <2>3. Iterates(F, x, 0, f) /\ f \in [0..0 -> D]
      BY <2>1, <2>2 DEF Iterates
    <2> QED BY <2>3
  <1>2. ASSUME NEW m \in 1..n, m - 1 \in S PROVE m \in S
    <2>1. PICK before \in [0..m - 1 -> D] : Iterates(F, x, m - 1, before)
      BY <1>2
    <2>2. before[m - 1] \in D
      BY <1>2, <2>1
    <2>3. PICK next : next = F[m][before[m - 1]]
      OBVIOUS
    <2>4. next \in D
      <3>1. F[m] \in [D -> D]
        BY <1>2
      <3> QED BY <2>2, <2>3, <3>1
    <2>5. PICK f : f = [k \in 0..m |-> IF k = m THEN next ELSE before[k]]
      OBVIOUS
    <2>6. f \in [0..m -> D]
      BY <2>1, <2>4, <2>5
    <2>7. ASSUME NEW k \in 0..m
          PROVE  f[k] = IF k = 0 THEN x ELSE F[k][f[k - 1]]
      <3>1. CASE k = m
        <4>1. f[k] = next /\ f[k - 1] = before[k - 1]
          BY <1>2, <2>5, <3>1
        <4> QED BY <1>2, <2>3, <3>1, <4>1
      <3>2. CASE k # m
        <4>1. k \in 0..m - 1 /\ (k # 0 => k - 1 \in 0..m - 1 /\ k - 1 \in 0..m /\ k - 1 # m)
          BY <1>2, <3>2
        <4>2. before[k] = IF k = 0 THEN x ELSE F[k][before[k - 1]]
          BY <2>1, <4>1 DEF Iterates
        <4>3. f[k] = before[k] /\ (k # 0 => f[k - 1] = before[k - 1])
          BY <2>5, <3>2, <4>1
        <4> QED BY <4>2, <4>3
      <3> QED BY <3>1, <3>2
    <2>8. Iterates(F, x, m, f)
      BY <2>5, <2>7 DEF Iterates
    <2> QED BY <2>6, <2>8
  <1>3. n \in S
    <2> HIDE DEF S
    <2>1. \A k \in 0..n : k \in S
      BY <1>1, <1>2, SetInduction
    <2> QED BY <2>1
  <1> QED BY <1>3

(* A walk over n stations, the last of which sends on to station t, or ends *)
(* it at 0.                                                                 *)
Walks(n, t, len, i, w) ==
  /\ w[0] = i
  /\ \A k \in 1..len : w[k] = IF w[k - 1] = 0 THEN 0 ELSE IF w[k - 1] = n THEN t ELSE w[k - 1] + 1

LEMMA WalkUp ==
  ASSUME NEW n \in Nat \ {0}, NEW t \in 0..n, NEW len \in Nat, NEW i \in 1..n, NEW w,
         Walks(n, t, len, i, w)
  PROVE  \A k \in 0..len : i + k <= n => w[k] = i + k
  <1> DEFINE S == {k \in Nat : i + k <= n => w[k] = i + k}
  <1>1. 0 \in S
    BY DEF Walks
  <1>2. ASSUME NEW k \in 1..len, k - 1 \in S PROVE k \in S
    BY <1>2 DEF Walks
  <1>3. \A k \in 0..len : k \in S
    <2> HIDE DEF S
    <2> QED BY <1>1, <1>2, SetInduction
  <1> QED BY <1>3

LEMMA WalkRound ==
  ASSUME NEW n \in Nat \ {0}, NEW t \in 0..n, NEW len \in Nat, NEW i \in 1..n, NEW w,
         Walks(n, t, len, i, w)
  PROVE  \A k \in 0..len : k > n - i => IF t = 0 THEN w[k] = 0 ELSE w[k] \in t..n
  <1> DEFINE S == {k \in Nat : k > n - i => IF t = 0 THEN w[k] = 0 ELSE w[k] \in t..n}
  <1>0. \A k \in 0..len : i + k <= n => w[k] = i + k
    BY WalkUp
  <1>1. 0 \in S
    OBVIOUS
  <1>2. ASSUME NEW k \in 1..len, k - 1 \in S PROVE k \in S
    <2>1. w[k] = IF w[k - 1] = 0 THEN 0 ELSE IF w[k - 1] = n THEN t ELSE w[k - 1] + 1
      BY DEF Walks
    <2>2. CASE k = n - i + 1
      <3>1. w[k - 1] = n
        BY <1>0, <2>2
      <3> QED BY <2>1, <3>1
    <2>3. CASE k > n - i + 1
      <3>1. IF t = 0 THEN w[k - 1] = 0 ELSE w[k - 1] \in t..n
        BY <1>2, <2>3
      <3> QED BY <2>1, <3>1
    <2>4. CASE ~ (k > n - i)
      BY <2>4
    <2> QED BY <2>2, <2>3, <2>4
  <1>3. \A k \in 0..len : k \in S
    <2> HIDE DEF S
    <2> QED BY <1>1, <1>2, SetInduction
  <1> QED BY <1>3

(* Once past the last station the walk goes round the ring. *)
GoesRound(n, t, len, i, w) ==
  \A j \in 0..n - t : n - i + 1 + j <= len => w[n - i + 1 + j] = t + j

LEMMA WalkRing ==
  ASSUME NEW n \in Nat \ {0}, NEW t \in 1..n, NEW len \in Nat, NEW i \in 1..n, NEW w,
         Walks(n, t, len, i, w)
  PROVE  GoesRound(n, t, len, i, w)
  <1> DEFINE S == {j \in Nat : n - i + 1 + j <= len => w[n - i + 1 + j] = t + j}
  <1>1. 0 \in S
    <2>1. n - i \in 0..len => w[n - i] = n
      BY WalkUp
    <2>2. n - i + 1 <= len => w[n - i + 1] = IF w[n - i] = 0 THEN 0
                                             ELSE IF w[n - i] = n THEN t ELSE w[n - i] + 1
      <3>1. ASSUME n - i + 1 \in 1..len
            PROVE  w[n - i + 1] = IF w[n - i] = 0 THEN 0
                                  ELSE IF w[n - i] = n THEN t ELSE w[n - i] + 1
        <4>1. PICK k \in 1..len : k = n - i + 1 /\ k - 1 = n - i
          BY <3>1
        <4> QED BY <4>1 DEF Walks
      <3> QED BY <3>1
    <2> QED BY <2>1, <2>2
  <1>2. ASSUME NEW j \in 1..n - t, j - 1 \in S PROVE j \in S
    <2>1. SUFFICES ASSUME n - i + 1 + j <= len PROVE w[n - i + 1 + j] = t + j
      OBVIOUS
    <2>2. w[n - i + j] = t + (j - 1)
      <3>1. n - i + 1 + (j - 1) <= len /\ n - i + 1 + (j - 1) = n - i + j
        BY <2>1
      <3> QED BY <1>2, <3>1
    <2>3. PICK k \in 1..len : k = n - i + 1 + j /\ k - 1 = n - i + j
      BY <2>1
    <2>4. w[k] = IF w[k - 1] = 0 THEN 0 ELSE IF w[k - 1] = n THEN t ELSE w[k - 1] + 1
      BY <2>3 DEF Walks
    <2>5. w[k - 1] = t + (j - 1) /\ t + (j - 1) # 0 /\ t + (j - 1) # n
      BY <2>2, <2>3
    <2> QED BY <2>3, <2>4, <2>5
  <1>3. \A j \in 0..n - t : j \in S
    <2>1. n - t \in Nat
      OBVIOUS
    <2> HIDE DEF S
    <2> QED BY <1>1, <1>2, <2>1, SetInduction
  <1> QED BY <1>3 DEF GoesRound

-----------------------------------------------------------------------------
LinkOf(x) == IF x \in 1..Count THEN cards[x].link ELSE 0

LEMMA LinksAre ==
  ASSUME DraftInv
  PROVE  /\ Count \in Nat \ {0} /\ Count <= MaxCards /\ MaxCards \in Nat
         /\ cards[Count].link \in 0..Count
         /\ \A x \in 1..Count : cards[x].link = IF x = Count THEN cards[Count].link ELSE x + 1
         /\ \A x \in 0..Count : LinkOf(x) \in 0..Count
  <1>1. /\ Count \in Nat \ {0} /\ Count <= MaxCards /\ MaxCards \in Nat
        /\ cards \in [1..Count -> Cards]
    <2>1. MaxCards \in Nat \ {0} /\ Len(cards) \in 1..MaxCards /\ cards \in Seq(Cards)
      BY DraftAssumption DEF DraftInv, DraftTypeOK, Cards
    <2>2. cards \in [1..Len(cards) -> Cards]
      BY <2>1, CardsAsFunction
    <2> QED BY <2>1, <2>2 DEF Count
  <1>2. cards[Count].link \in 0..Count
    <2>1. cards[Count] \in Cards
      BY <1>1
    <2>2. cards[Count].link \in 0..MaxCards
      BY <2>1 DEF Cards, Links
    <2> QED BY <1>1, <2>2 DEF DraftInv, DraftWellLinked, Count
  <1>3. \A x \in 1..Count : cards[x].link = IF x = Count THEN cards[Count].link ELSE x + 1
    <2>1. \A x \in 1..Count - 1 : cards[x].link = x + 1
      BY DEF DraftInv, DraftWellLinked, Count
    <2>2. ASSUME NEW x \in 1..Count
          PROVE  cards[x].link = IF x = Count THEN cards[Count].link ELSE x + 1
      <3>1. x = Count \/ x \in 1..Count - 1
        BY <1>1
      <3>2. x \in 1..Count - 1 => x # Count
        BY <1>1
      <3> QED BY <2>1, <3>1, <3>2
    <2> QED BY <2>2
  <1>4. \A x \in 0..Count : LinkOf(x) \in 0..Count
    BY <1>1, <1>2, <1>3 DEF LinkOf
  <1> QED BY <1>1, <1>2, <1>3, <1>4

(* The walk of findCycleNodes, all starting cards at once. *)
Walked(w) ==
  w = [k \in 0..2 * Count |->
         IF k = 0 THEN [s \in 1..Count |-> s] ELSE [s \in 1..Count |-> LinkOf(w[k - 1][s])]]

LEMMA WalkedExists == ASSUME DraftInv PROVE \E w : Walked(w)
  <1> DEFINE n == Count
             D == [1..n -> 0..n]
             x == [s \in 1..n |-> s]
             step(v) == [s \in 1..n |-> LinkOf(v[s])]
             F == [k \in 1..2 * n |-> [v \in D |-> step(v)]]
  <1>0. n \in Nat \ {0} /\ 2 * n \in Nat /\ \A y \in 0..n : LinkOf(y) \in 0..n
    BY LinksAre
  <1>1. x \in D
    BY <1>0
  <1>2. \A v \in D : step(v) \in D
    BY <1>0
  <1>3. F \in [1..2 * n -> [D -> D]]
    <2> HIDE DEF step, D
    <2> QED BY <1>2
  <1>4. \A k \in 1..2 * n, v \in D : F[k][v] = step(v)
    OBVIOUS
  <1> HIDE DEF F, D, x, step
  <1>5. PICK w \in [0..2 * n -> D] : Iterates(F, x, 2 * n, w)
    BY <1>0, <1>1, <1>3, IteratesExist
  <1>6. ASSUME NEW k \in 0..2 * n
        PROVE  w[k] = IF k = 0 THEN x ELSE step(w[k - 1])
    <2>1. w[k] = IF k = 0 THEN x ELSE F[k][w[k - 1]]
      BY <1>5 DEF Iterates
    <2>2. k # 0 => k \in 1..2 * n /\ w[k - 1] \in D
      BY <1>0, <1>5
    <2> QED BY <1>4, <2>1, <2>2
  <1>7. w = [k \in 0..2 * n |-> IF k = 0 THEN x ELSE step(w[k - 1])]
    BY <1>5, <1>6
  <1> QED BY <1>7 DEF Walked, x, step

LEMMA WalkedWalks ==
  ASSUME DraftInv, NEW w, Walked(w), NEW s \in 1..Count
  PROVE  Walks(Count, cards[Count].link, 2 * Count, s, [k \in 0..2 * Count |-> w[k][s]])
  <1> DEFINE n == Count
             t == cards[n].link
             f == [k \in 0..2 * n |-> w[k][s]]
  <1>0. n \in Nat \ {0} /\ 2 * n \in Nat /\ t \in 0..n
        /\ \A y \in 1..n : cards[y].link = IF y = n THEN t ELSE y + 1
    BY LinksAre
  <1>1. f[0] = s
    <2>1. w[0] = [y \in 1..n |-> y]
      BY <1>0 DEF Walked
    <2> QED BY <1>0, <2>1
  <1>2. \A k \in 1..2 * n : f[k] = LinkOf(f[k - 1])
    <2>1. ASSUME NEW k \in 1..2 * n PROVE f[k] = LinkOf(f[k - 1])
      <3>1. w[k] = [y \in 1..n |-> LinkOf(w[k - 1][y])]
        <4>1. k \in 0..2 * Count /\ k # 0
          BY <1>0
        <4> QED BY <4>1 DEF Walked
      <3>2. k - 1 \in 0..2 * n /\ k \in 0..2 * n
        BY <1>0
      <3>3. f[k] = w[k][s] /\ f[k - 1] = w[k - 1][s]
        BY <3>2
      <3> HIDE DEF f
      <3> QED BY <3>1, <3>3
    <2> QED BY <2>1
  <1> HIDE DEF f
  <1> DEFINE S == {k \in Nat : f[k] \in 0..n}
  <1>3. \A k \in 0..2 * n : k \in S
    <2>1. 0 \in S
      BY <1>0, <1>1
    <2>2. ASSUME NEW k \in 1..2 * n, k - 1 \in S PROVE k \in S
      BY <1>2, <2>2, LinksAre
    <2> HIDE DEF S
    <2> QED BY <1>0, <2>1, <2>2, SetInduction
  <1>4. ASSUME NEW k \in 1..2 * n
        PROVE  f[k] = IF f[k - 1] = 0 THEN 0 ELSE IF f[k - 1] = n THEN t ELSE f[k - 1] + 1
    <2>1. f[k - 1] \in 0..n
      BY <1>0, <1>3
    <2>2. f[k - 1] \in 1..n \/ f[k - 1] = 0
      BY <1>0, <2>1
    <2> QED BY <1>0, <1>2, <2>2 DEF LinkOf
  <1>5. Walks(n, t, 2 * n, s, f)
    BY <1>1, <1>4 DEF Walks
  <1> QED BY <1>5 DEF f

(* findCycleNodes of a draft whose links are in shape: the cards from the   *)
(* one the last card links back to, or none.                                *)
LEMMA CycleNodes ==
  ASSUME DraftInv
  PROVE  FindCycleNodes =
           IF cards[Count].link = 0 THEN {} ELSE cards[Count].link..Count
  <1> DEFINE n == Count
             t == cards[n].link
  <1>1. PICK walk : walk = CHOOSE w : Walked(w)
    OBVIOUS
  <1>2. Walked(walk)
    BY <1>1, WalkedExists
  <1> DEFINE endless == {s \in 1..n : walk[n][s] # 0}
             first   == CHOOSE s \in endless : \A q \in endless : s <= q
  <1>3. FindCycleNodes = IF endless = {} THEN {} ELSE {walk[k][first] : k \in n..2 * n}
    BY <1>1 DEF FindCycleNodes, Walked, LinkOf, Count
  <1>0. n \in Nat \ {0} /\ 2 * n \in Nat /\ t \in 0..n /\ n \in 0..2 * n
    BY LinksAre
  <1>4. ASSUME NEW s \in 1..n
        PROVE  /\ \A k \in 0..2 * n : k > n - s =>
                    IF t = 0 THEN walk[k][s] = 0 ELSE walk[k][s] \in t..n
               /\ t # 0 => \A j \in 0..n - t : n - s + 1 + j <= 2 * n =>
                                                 walk[n - s + 1 + j][s] = t + j
    <2> DEFINE f == [k \in 0..2 * n |-> walk[k][s]]
    <2>1. Walks(n, t, 2 * n, s, f)
      BY <1>2, WalkedWalks
    <2>2. \A k \in 0..2 * n : f[k] = walk[k][s]
      OBVIOUS
    <2> HIDE DEF f
    <2>3. \A k \in 0..2 * n : k > n - s => IF t = 0 THEN f[k] = 0 ELSE f[k] \in t..n
      BY <1>0, <2>1, WalkRound
    <2>4. t # 0 => \A j \in 0..n - t : n - s + 1 + j <= 2 * n => f[n - s + 1 + j] = t + j
      <3>1. SUFFICES ASSUME t # 0
                     PROVE  \A j \in 0..n - t : n - s + 1 + j <= 2 * n => f[n - s + 1 + j] = t + j
        OBVIOUS
      <3>2. t \in 1..n
        BY <1>0, <3>1
      <3>3. PICK m \in 1..n : m = t
        BY <3>2
      <3>4. PICK len \in Nat : len = 2 * n
        BY <1>0
      <3>5. Walks(n, m, len, s, f)
        BY <2>1, <3>3, <3>4
      <3>6. n \in Nat \ {0}
        BY <1>0
      <3> HIDE DEF t, n
      <3>7. GoesRound(n, m, len, s, f)
        BY <3>5, <3>6, WalkRing
      <3> QED BY <3>3, <3>4, <3>7 DEF GoesRound
    <2>5. \A j \in 0..n - t : n - s + 1 + j <= 2 * n => n - s + 1 + j \in 0..2 * n
      BY <1>0
    <2> QED BY <2>2, <2>3, <2>4, <2>5
  <1>5. CASE t = 0
    <2>1. endless = {}
      BY <1>0, <1>4, <1>5
    <2> QED BY <1>3, <1>5, <2>1
  <1>6. CASE t # 0
    <2>1. endless = 1..n
      BY <1>0, <1>4, <1>6
    <2>2. first = 1
      <3>1. 1 \in endless /\ \A q \in endless : 1 <= q
        BY <1>0, <2>1
      <3>2. first \in endless /\ \A q \in endless : first <= q
        <4> HIDE DEF endless
        <4> QED BY <3>1
      <3> QED BY <1>0, <2>1, <3>1, <3>2
    <2> HIDE DEF endless, first
    <2>3. FindCycleNodes = {walk[k][1] : k \in n..2 * n}
      <3>1. endless # {}
        BY <1>0, <2>1
      <3> QED BY <1>3, <2>2, <3>1
    <2>4. \A k \in n..2 * n : walk[k][1] \in t..n
      BY <1>0, <1>4, <1>6
    <2>5. \A i \in t..n : \E k \in n..2 * n : walk[k][1] = i
      <3>1. ASSUME NEW i \in t..n PROVE \E k \in n..2 * n : walk[k][1] = i
        <4>1. PICK j \in 0..n - t : j = i - t /\ t + j = i
          <5>1. i \in Int /\ t \in Int /\ n \in Int /\ t <= i /\ i <= n
            BY <1>0
          <5> HIDE DEF t, n
          <5>2. i - t \in 0..n - t /\ t + (i - t) = i
            BY <5>1
          <5> QED BY <5>2
        <4>2. n - 1 + 1 + j <= 2 * n /\ n - 1 + 1 + j \in n..2 * n
          BY <1>0, <1>6
        <4>3. 1 \in 1..n
          BY <1>0
        <4>4. walk[n - 1 + 1 + j][1] = t + j
          BY <1>4, <1>6, <4>2, <4>3
        <4> QED BY <4>1, <4>2, <4>4
      <3> QED BY <3>1
    <2> QED BY <1>6, <2>3, <2>4, <2>5
  <1> QED BY <1>5, <1>6

-----------------------------------------------------------------------------
(* The rules of a chain that was created whole sit side by side.            *)
LEMMA WholeChain ==
  ASSUME CreationInv, NEW a \in Attempts, NEW own,
         own = {p \in 1..Len(rules) : rules[p].by = a}, Cardinality(own) = Count
  PROVE  /\ att[a].start \in Nat \ {0}
         /\ own = att[a].start..att[a].start + Count - 1
         /\ \A i \in 1..Count : /\ att[a].start + i - 1 \in own
                                /\ rules[att[a].start + i - 1] = Planned(a, i)
  <1> DEFINE n == Count
             slots == att[a].start..att[a].start + n - 1
  <1>0. n \in Nat \ {0} /\ Len(rules) \in Nat /\ a # 0
    BY LinksAre, CreationAssumption DEF CreationInv, ChainTypes
  <1>1. own \subseteq 1..Len(rules) /\ IsFiniteSet(own)
    <2>1. own \subseteq 1..Len(rules)
      OBVIOUS
    <2>2. IsFiniteSet(1..Len(rules))
      BY <1>0, FS_Interval
    <2> QED BY <2>1, <2>2, FS_Subset
  <1>2. \A p \in own : /\ att[a].at # "idle" /\ rules[p].card \in 1..n
                       /\ p = Pda(a, rules[p].card) /\ rules[p] = Planned(a, rules[p].card)
    BY <1>0 DEF CreationInv, Placed
  <1>3. att[a].start \in Int
    BY DEF CreationInv, ChainTypes, Att
  <1>4. own \subseteq slots
    BY <1>0, <1>2, <1>3 DEF Pda
  <1>5. IsFiniteSet(slots) /\ Cardinality(slots) = n
    <2>1. PICK lo \in Int : lo = att[a].start
      BY <1>3
    <2>2. PICK m \in Nat \ {0} : m = n
      BY <1>0
    <2>3. PICK hi \in Int : hi = lo + m - 1
      BY <2>2
    <2>4. IsFiniteSet(lo..hi) /\ Cardinality(lo..hi) = IF lo > hi THEN 0 ELSE hi - lo + 1
      BY FS_Interval
    <2>5. ~ (lo > hi) /\ hi - lo + 1 = m
      BY <2>3
    <2>6. slots = lo..hi
      BY <2>1, <2>2, <2>3
    <2>7. IsFiniteSet(lo..hi) /\ Cardinality(lo..hi) = m
      BY <2>4, <2>5
    <2> QED BY <2>2, <2>6, <2>7
  <1>6. own = slots
    BY <1>4, <1>5, FS_Subset
  <1>7. ASSUME NEW i \in 1..n
        PROVE  /\ att[a].start + i - 1 \in own
               /\ rules[att[a].start + i - 1] = Planned(a, i)
    <2>1. att[a].start + i - 1 \in own
      <3>1. PICK lo \in Int : lo = att[a].start
        BY <1>3
      <3>2. PICK m \in Nat : m = n
        BY <1>0
      <3>3. lo + i - 1 \in lo..lo + m - 1
        BY <3>2
      <3> QED BY <1>6, <3>1, <3>2, <3>3
    <2>2. PICK p \in own : p = att[a].start + i - 1
      BY <2>1
    <2>3. p = Pda(a, rules[p].card) /\ rules[p].card \in 1..n
          /\ rules[p] = Planned(a, rules[p].card)
      BY <1>2
    <2>4. rules[p].card = i
      BY <1>0, <1>3, <2>2, <2>3 DEF Pda
    <2> QED BY <2>1, <2>2, <2>3, <2>4
  <1>8. att[a].start \in Nat \ {0}
    <2>0. 1 \in 1..n
      BY <1>0
    <2>1. att[a].start + 1 - 1 \in own
      BY <1>7, <2>0
    <2> QED BY <1>0, <1>1, <1>3, <2>1
  <1> QED BY <1>6, <1>7, <1>8

(* What Reached follows. *)
Followed(p, w) ==
  w = [k \in 0..MaxCards |->
         IF k = 0 THEN p
         ELSE IF w[k - 1] \in 1..Len(rules) THEN rules[w[k - 1]].dest ELSE 0]

LEMMA FollowedExists ==
  ASSUME CreationInv, NEW p \in Int
  PROVE  \E w \in [0..MaxCards -> Int] : Followed(p, w)
  <1> DEFINE step(q) == IF q \in 1..Len(rules) THEN rules[q].dest ELSE 0
             F == [k \in 1..MaxCards |-> [q \in Int |-> step(q)]]
  <1>0. MaxCards \in Nat
    BY DraftAssumption
  <1>1. \A q \in Int : step(q) \in Int
    <2>1. ASSUME NEW q \in 1..Len(rules) PROVE rules[q].dest \in Int
      <3>1. rules[q] \in RuleRec
        BY DEF CreationInv, ChainTypes
      <3> QED BY <3>1 DEF RuleRec
    <2> QED BY <2>1
  <1>2. F \in [1..MaxCards -> [Int -> Int]]
    <2> HIDE DEF step
    <2> QED BY <1>1
  <1>3. \A k \in 1..MaxCards, q \in Int : F[k][q] = step(q)
    OBVIOUS
  <1> HIDE DEF F, step
  <1>4. PICK w \in [0..MaxCards -> Int] : Iterates(F, p, MaxCards, w)
    BY <1>0, <1>2, IteratesExist
  <1>5. ASSUME NEW k \in 0..MaxCards
        PROVE  w[k] = IF k = 0 THEN p ELSE step(w[k - 1])
    <2>1. w[k] = IF k = 0 THEN p ELSE F[k][w[k - 1]]
      BY <1>4 DEF Iterates
    <2>2. k # 0 => k \in 1..MaxCards /\ w[k - 1] \in Int
      BY <1>0, <1>4
    <2> QED BY <1>3, <2>1, <2>2
  <1>6. w = [k \in 0..MaxCards |-> IF k = 0 THEN p ELSE step(w[k - 1])]
    BY <1>4, <1>5
  <1> QED BY <1>4, <1>6 DEF Followed, step

(* The cards of the rules that are followed. *)
CardsFollowed(w, lo) ==
  [k \in 0..MaxCards |-> IF w[k] = 0 THEN 0 ELSE w[k] - lo + 1]

(* The destinations of a whole chain follow the links of its cards.         *)
LEMMA FollowedWalks ==
  ASSUME CreationInv, NEW a \in Attempts, NEW own, Count > 1,
         own = {p \in 1..Len(rules) : rules[p].by = a}, Cardinality(own) = Count,
         NEW i \in 1..Count, NEW w, Followed(att[a].start + i - 1, w)
  PROVE  /\ \A k \in 0..MaxCards : w[k] = 0 \/ w[k] \in own
         /\ Walks(Count, cards[Count].link, MaxCards, i,
                  CardsFollowed(w, att[a].start))
  <1>1. PICK n \in Nat \ {0} : n = Count
    BY LinksAre DEF CreationInv
  <1>2. PICK t \in 0..n : t = cards[n].link
    BY <1>1, LinksAre DEF CreationInv
  <1>3. PICK lo \in Nat \ {0} : lo = att[a].start
    BY WholeChain
  <1>4. /\ own = lo..lo + n - 1 /\ own \subseteq 1..Len(rules)
        /\ \A j \in 1..n : /\ lo + j - 1 \in own
                           /\ rules[lo + j - 1] = Planned(a, j)
    BY <1>1, <1>3, WholeChain
  <1>5. ASSUME NEW j \in 1..n
        PROVE  /\ lo + j - 1 \in own
               /\ rules[lo + j - 1].dest =
                    LET l == IF j = n THEN t ELSE j + 1 IN IF l = 0 THEN 0 ELSE lo + l - 1
    <2>1. cards[j].link = IF j = n THEN t ELSE j + 1
      BY <1>1, <1>2, LinksAre DEF CreationInv
    <2>2. Planned(a, j).dest = IF cards[j].link = 0 THEN 0 ELSE lo + cards[j].link - 1
      BY <1>1, <1>3 DEF Planned, Pda
    <2> QED BY <1>4, <2>1, <2>2
  <1>6. MaxCards \in Nat
    BY DraftAssumption
  <1>7. w[0] = lo + i - 1
    BY <1>3, <1>6 DEF Followed
  <1>8. ASSUME NEW k \in 1..MaxCards
        PROVE  w[k] = IF w[k - 1] \in 1..Len(rules) THEN rules[w[k - 1]].dest ELSE 0
    BY <1>6 DEF Followed
  <1> DEFINE S == {k \in Nat : w[k] = 0 \/ w[k] \in own}
  <1>9. ASSUME NEW k \in 1..MaxCards, w[k - 1] = 0 \/ w[k - 1] \in own
        PROVE  \/ w[k - 1] = 0 /\ w[k] = 0
               \/ \E j \in 1..n : /\ w[k - 1] = lo + j - 1
                                  /\ w[k] = LET l == IF j = n THEN t ELSE j + 1
                                            IN IF l = 0 THEN 0 ELSE lo + l - 1
    <2>1. CASE w[k - 1] = 0
      BY <1>8, <2>1
    <2>2. CASE w[k - 1] \in own
      <3>1. PICK j \in 1..n : w[k - 1] = lo + j - 1
        <4>1. PICK q \in lo..lo + n - 1 : q = w[k - 1]
          BY <1>4, <2>2
        <4>2. q - lo + 1 \in 1..n /\ q = lo + (q - lo + 1) - 1
          OBVIOUS
        <4> QED BY <4>1, <4>2
      <3>2. w[k] = rules[w[k - 1]].dest
        BY <1>4, <1>8, <2>2
      <3> QED BY <1>5, <3>1, <3>2
    <2> QED BY <1>9, <2>1, <2>2
  <1>10. \A k \in 0..MaxCards : k \in S
    <2>1. 0 \in S
      BY <1>1, <1>5, <1>7
    <2>2. ASSUME NEW k \in 1..MaxCards, k - 1 \in S PROVE k \in S
      <3>1. CASE w[k] = 0
        BY <3>1
      <3>2. CASE w[k] # 0
        <4>1. PICK j \in 1..n : w[k] = LET l == IF j = n THEN t ELSE j + 1
                                       IN IF l = 0 THEN 0 ELSE lo + l - 1
          BY <1>9, <2>2, <3>2
        <4>2. PICK l \in 0..n : w[k] = IF l = 0 THEN 0 ELSE lo + l - 1
          <5>1. PICK l : l = IF j = n THEN t ELSE j + 1
            OBVIOUS
          <5>2. l \in 0..n
            BY <5>1
          <5>3. w[k] = IF l = 0 THEN 0 ELSE lo + l - 1
            BY <4>1, <5>1
          <5> QED BY <5>2, <5>3
        <4>3. l \in 1..n /\ w[k] = lo + l - 1
          BY <3>2, <4>2
        <4>4. w[k] \in own
          BY <1>5, <4>3
        <4> QED BY <4>4
      <3> QED BY <3>1, <3>2
    <2> HIDE DEF S
    <2> QED BY <1>6, <2>1, <2>2, SetInduction
  <1> DEFINE v == [k \in 0..MaxCards |-> IF w[k] = 0 THEN 0 ELSE w[k] - lo + 1]
  <1>11. Walks(n, t, MaxCards, i, v)
    <2>1. v[0] = i
      BY <1>1, <1>6, <1>7
    <2>2. ASSUME NEW k \in 1..MaxCards
          PROVE  v[k] = IF v[k - 1] = 0 THEN 0 ELSE IF v[k - 1] = n THEN t ELSE v[k - 1] + 1
      <3>1. k \in 0..MaxCards /\ k - 1 \in 0..MaxCards
        BY <1>6
      <3>2. v[k] = (IF w[k] = 0 THEN 0 ELSE w[k] - lo + 1)
            /\ v[k - 1] = IF w[k - 1] = 0 THEN 0 ELSE w[k - 1] - lo + 1
        BY <3>1
      <3> HIDE DEF v
      <3>3. CASE w[k - 1] = 0 /\ w[k] = 0
        BY <3>2, <3>3
      <3>4. ASSUME NEW j \in 1..n, w[k - 1] = lo + j - 1,
                   w[k] = LET l == IF j = n THEN t ELSE j + 1
                          IN IF l = 0 THEN 0 ELSE lo + l - 1
            PROVE  v[k] = IF v[k - 1] = 0 THEN 0 ELSE IF v[k - 1] = n THEN t ELSE v[k - 1] + 1
        <4>1. v[k - 1] = j
          <5>1. lo + j - 1 # 0 /\ (lo + j - 1) - lo + 1 = j
            OBVIOUS
          <5> QED BY <3>2, <3>4, <5>1
        <4>2. PICK l \in 0..n : l = IF j = n THEN t ELSE j + 1
          OBVIOUS
        <4>3. w[k] = IF l = 0 THEN 0 ELSE lo + l - 1
          BY <3>4, <4>2
        <4>4. v[k] = l
          <5>1. l # 0 => lo + l - 1 # 0 /\ (lo + l - 1) - lo + 1 = l
            OBVIOUS
          <5> QED BY <3>2, <4>3, <5>1
        <4> QED BY <4>1, <4>2, <4>4
      <3>5. w[k - 1] = 0 \/ w[k - 1] \in own
        BY <1>10, <3>1
      <3> QED BY <1>9, <3>3, <3>4, <3>5
    <2> HIDE DEF v
    <2> QED BY <2>1, <2>2 DEF Walks
  <1> QED BY <1>1, <1>2, <1>3, <1>10, <1>11 DEF CardsFollowed

-----------------------------------------------------------------------------
(* The destinations come back to the rule of card i exactly when the last   *)
(* card links back to it or to a card before it.                            *)
LEMMA ReachedIffRing ==
  ASSUME CreationInv, NEW a \in Attempts, NEW own, Count > 1,
         own = {p \in 1..Len(rules) : rules[p].by = a}, Cardinality(own) = Count,
         NEW i \in 1..Count
  PROVE  (att[a].start + i - 1) \in Reached(att[a].start + i - 1)
           <=> cards[Count].link # 0 /\ cards[Count].link <= i
  <1>1. PICK lo \in Nat \ {0} : lo = att[a].start
    BY WholeChain
  <1>2. PICK p \in Nat \ {0} : p = lo + i - 1 /\ p - lo + 1 = i
    <2>1. Count \in Nat
      BY LinksAre DEF CreationInv
    <2>2. i \in Nat \ {0}
      BY <2>1
    <2> QED BY <2>2
  <1>3. PICK w : w = CHOOSE f : Followed(p, f)
    OBVIOUS
  <1>4. Followed(p, w)
    BY <1>2, <1>3, FollowedExists
  <1>5. Reached(p) = {w[k] : k \in 1..MaxCards}
    BY <1>3 DEF Reached, Followed
  <1> DEFINE f == CardsFollowed(w, lo)
  <1>6. PICK n \in Nat \ {0} : n = Count
    BY LinksAre DEF CreationInv
  <1>7. PICK t \in 0..n : t = cards[Count].link
    BY <1>6, LinksAre DEF CreationInv
  <1>8. MaxCards \in Nat /\ n <= MaxCards /\ i \in 1..n
    BY <1>6, LinksAre DEF CreationInv
  <1>9. /\ \A k \in 0..MaxCards : w[k] = 0 \/ w[k] \in own
        /\ Walks(n, t, MaxCards, i, f)
    <2>1. Followed(att[a].start + i - 1, w)
      BY <1>1, <1>2, <1>4
    <2>2. /\ \A k \in 0..MaxCards : w[k] = 0 \/ w[k] \in own
          /\ Walks(Count, cards[Count].link, MaxCards, i,
                   CardsFollowed(w, att[a].start))
      BY <2>1, FollowedWalks
    <2> QED BY <1>1, <1>6, <1>7, <2>2
  <1>10. ASSUME NEW k \in 1..MaxCards
         PROVE  w[k] = p <=> f[k] = i
    <2>1. k \in 0..MaxCards
      BY <1>8
    <2>2. f[k] = IF w[k] = 0 THEN 0 ELSE w[k] - lo + 1
      BY <2>1 DEF CardsFollowed
    <2>3. w[k] \in Int
      <3>1. own \subseteq Int
        BY DEF CreationInv, ChainTypes
      <3> QED BY <1>9, <2>1, <3>1
    <2> HIDE DEF f
    <2> QED BY <1>2, <1>8, <2>2, <2>3
  <1>11. p \in Reached(p) <=> \E k \in 1..MaxCards : f[k] = i
    <2> HIDE DEF f
    <2> QED BY <1>5, <1>10
  <1> HIDE DEF f
  <1>12. \A k \in 0..MaxCards : i + k <= n => f[k] = i + k
    BY <1>8, <1>9, WalkUp
  <1>13. \A k \in 0..MaxCards : k > n - i => IF t = 0 THEN f[k] = 0 ELSE f[k] \in t..n
    BY <1>8, <1>9, WalkRound
  <1>14. ASSUME t = 0 \/ i < t, NEW k \in 1..MaxCards
         PROVE  f[k] # i
    <2>1. CASE i + k <= n
      BY <1>8, <1>12, <2>1
    <2>2. CASE ~ (i + k <= n)
      <3>1. k > n - i
        BY <1>8, <2>2
      <3> QED BY <1>8, <1>13, <1>14, <3>1
    <2> QED BY <2>1, <2>2
  <1>15. ASSUME t # 0, t <= i
         PROVE  \E k \in 1..MaxCards : f[k] = i
    <2>1. GoesRound(n, t, MaxCards, i, f)
      <3>1. t \in 1..n
        BY <1>15
      <3> QED BY <1>8, <1>9, <3>1, WalkRing
    <2>2. PICK j \in 0..n - t : j = i - t /\ t + j = i
      <3>1. i - t \in 0..n - t /\ t + (i - t) = i
        BY <1>8, <1>15
      <3> QED BY <3>1
    <2>3. n - i + 1 + j \in 1..MaxCards
      BY <1>8, <1>15, <2>2
    <2>4. f[n - i + 1 + j] = i
      <3>1. n - i + 1 + j <= MaxCards
        BY <2>3
      <3>2. f[n - i + 1 + j] = t + j
        BY <2>1, <3>1, Zenon DEF GoesRound
      <3> QED BY <2>2, <3>2
    <2> QED BY <2>3, <2>4
  <1>16. p \in Reached(p) <=> t # 0 /\ t <= i
    BY <1>8, <1>11, <1>14, <1>15
  <1> QED BY <1>1, <1>2, <1>7, <1>16

LEMMA LoopedFromRing == ASSUME CreationInv PROVE LoopedIffOnRing
  <1> SUFFICES ASSUME NEW a \in Attempts, NEW own,
                      own = {p \in 1..Len(rules) : rules[p].by = a},
                      Count > 1, Cardinality(own) = Count, NEW p \in own
               PROVE  rules[p].looped <=> p \in Reached(p)
    BY DEF LoopedIffOnRing
  <1>1. Count \in Nat \ {0} /\ att[a].start \in Nat \ {0} /\ cards[Count].link \in 0..Count
    BY WholeChain, LinksAre DEF CreationInv
  <1>2. PICK i \in 1..Count : p = att[a].start + i - 1
    <2>1. p \in att[a].start..att[a].start + Count - 1
      BY WholeChain
    <2>2. p - att[a].start + 1 \in 1..Count /\ p = att[a].start + (p - att[a].start + 1) - 1
      BY <1>1, <2>1
    <2> QED BY <2>2
  <1>3. rules[p] = Planned(a, i)
    BY <1>2, WholeChain
  <1>4. rules[p].looped = (i \in CycleMembers)
    BY <1>3 DEF Planned
  <1>5. cards[Count].link # 0 => loop
    BY DEF CreationInv, DraftInv, DraftWellLinked, Count
  <1>6. CycleMembers = IF cards[Count].link = 0 THEN {} ELSE cards[Count].link..Count
    <2>1. FindCycleNodes = IF cards[Count].link = 0 THEN {} ELSE cards[Count].link..Count
      BY CycleNodes DEF CreationInv
    <2>2. CycleMembers = IF ~ loop THEN {} ELSE FindCycleNodes
      BY <1>1 DEF CycleMembers
    <2> QED BY <1>5, <2>1, <2>2
  <1>7. i \in CycleMembers <=> cards[Count].link # 0 /\ cards[Count].link <= i
    BY <1>1, <1>6
  <1>8. p \in Reached(p) <=> cards[Count].link # 0 /\ cards[Count].link <= i
    BY <1>2, ReachedIffRing
  <1> QED BY <1>4, <1>7, <1>8

(* LoopedIffOnRing: in a chain created whole, of any length and among any   *)
(* number of foreign rules, exactly the rules that refill each other run on *)
(* the schedule of the loop (sendChainCreate's cycle set against the        *)
(* destinations it gives the rules).                                        *)
THEOREM LoopsRunOnRings == Spec => []LoopedIffOnRing
  BY SpecInv, LoopedFromRing, PTL

-----------------------------------------------------------------------------
(* Room: no address is derived beyond the last rule the program can hold,   *)
(* because Begin sees that the whole chain still fits, and an attempt stays *)
(* within the batches of its chain.                                         *)
ChainRule == [by: {0} \union Attempts, card: Links, dest: Numbers, upstream: Numbers,
              seed: Nat, bridge: BOOLEAN, looped: BOOLEAN]

Fits(r) ==
  /\ r.batch \in 1..LastBatch + 1
  /\ r.at \in {"setup", "send", "confirm"} => r.batch <= LastBatch
  /\ IF r.at = "idle" THEN r.start = 0 /\ r.batch = 1
     ELSE r.start \in Nat \ {0} /\ r.start + Count - 1 <= MaxRules

Room ==
  /\ rules \in Seq(ChainRule) /\ Len(rules) <= MaxRules
  /\ \A a \in Attempts : Fits(att[a])
  /\ atas \subseteq Numbers
  /\ saved \in [Attempts -> Seq(Numbers)]

LEMMA Sizes ==
  ASSUME CreationInv
  PROVE  /\ Count \in Nat \ {0} /\ Count <= MaxCards /\ MaxCards \in Nat /\ MaxRules \in Nat
         /\ LastBatch \in Nat \ {0} /\ LastBatch <= MaxCards /\ Len(rules) \in Nat
         /\ 0 \notin Attempts
         /\ att \in [Attempts -> Att] /\ \A a \in Attempts : att[a] \in Att
  <1>1. Count \in Nat \ {0} /\ Count <= MaxCards /\ MaxCards \in Nat
    BY LinksAre DEF CreationInv
  <1>2. LastBatch \in Nat \ {0} /\ LastBatch <= MaxCards
    BY <1>1 DEF LastBatch, BatchSize
  <1>3. Len(rules) \in Nat
    BY DEF CreationInv, ChainTypes
  <1> QED BY <1>1, <1>2, <1>3, CreationAssumption DEF CreationInv, ChainTypes

LEMMA PdaFits ==
  ASSUME CreationInv, Room, NEW a \in Attempts, att[a].at # "idle", NEW i \in 0..Count
  PROVE  Pda(a, i) \in 0..MaxRules /\ Pda(a, i) \in Numbers
  <1>1. att[a].start \in Nat \ {0} /\ att[a].start + Count - 1 <= MaxRules
    BY DEF Room, Fits
  <1>2. Pda(a, i) \in 0..MaxRules
    BY <1>1, Sizes DEF Pda
  <1> QED BY <1>2, Sizes DEF Numbers

LEMMA PlannedFits ==
  ASSUME CreationInv, Room, NEW a \in Attempts, NEW i \in 1..Count, att[a].at # "idle"
  PROVE  Planned(a, i) \in ChainRule
  <1>1. PICK r : r = Planned(a, i)
    OBVIOUS
  <1>2. r \in RuleRec /\ r.by = a /\ r.card = i
    BY <1>1, PlannedType
  <1>3. cards[i].link \in 0..Count
    <2>1. cards[i].link = IF i = Count THEN cards[Count].link ELSE i + 1
      BY LinksAre DEF CreationInv
    <2>2. cards[Count].link \in 0..Count
      BY LinksAre DEF CreationInv
    <2> QED BY <2>1, <2>2, Sizes
  <1>4. r.dest \in Numbers
    <2>1. r.dest = IF Count = 1 \/ cards[i].link = 0 THEN 0 ELSE Pda(a, cards[i].link)
      BY <1>1 DEF Planned
    <2>2. 0 \in Numbers /\ Pda(a, cards[i].link) \in Numbers
      BY <1>3, PdaFits, Sizes DEF Numbers
    <2> QED BY <2>1, <2>2
  <1>5. r.upstream \in Numbers
    <2>1. r.upstream = IF cards[i].result.relative THEN Pda(a, i - 1) ELSE 0
      BY <1>1 DEF Planned
    <2>2. i - 1 \in 0..Count
      BY Sizes
    <2>3. 0 \in Numbers /\ Pda(a, i - 1) \in Numbers
      BY <2>2, PdaFits, Sizes DEF Numbers
    <2> QED BY <2>1, <2>3
  <1>6. r.card \in Links
    BY <1>2, Sizes DEF Links
  <1>7. r \in ChainRule
    BY <1>2, <1>4, <1>5, <1>6 DEF RuleRec, ChainRule
  <1> QED BY <1>1, <1>7

(* A step of one attempt that creates no rule. *)
LEMMA RoomOfAttempt ==
  ASSUME CreationInv, Room, UNCHANGED <<cards, rules>>,
         NEW a \in Attempts, NEW r, att' = [att EXCEPT ![a] = r], Fits(r),
         atas' \subseteq Numbers, saved' \in [Attempts -> Seq(Numbers)]
  PROVE  Room'
  <1>1. Count' = Count /\ LastBatch' = LastBatch
    BY DEF Count, LastBatch
  <1>2. \A x : Fits(x)' <=> Fits(x)
    BY <1>1 DEF Fits
  <1>3. \A c \in Attempts : att'[c] = IF c = a THEN r ELSE att[c]
    BY Sizes
  <1>4. \A c \in Attempts : Fits(att'[c])
    BY <1>3 DEF Room
  <1>5. \A c \in Attempts : Fits(att[c])'
    BY <1>1, <1>4 DEF Fits
  <1> QED BY <1>5 DEF Room

(* The events of the batches, strung together. *)
Strung(a, seen, w) ==
  w = [b \in 0..LastBatch |-> IF b = 0 THEN <<>> ELSE w[b - 1] \o Events(a, b, seen[b])]

LEMMA BatchFits ==
  ASSUME CreationInv, NEW b \in 1..LastBatch
  PROVE  /\ First(b) \in Nat \ {0} /\ Size(b) \in Nat /\ First(b) + Size(b) - 1 <= Count
         /\ b \in Batches
  <1>1. Count \in Nat /\ b \in Nat \ {0}
    BY Sizes
  <1>2. 2 * (b - 1) + 1 <= Count
    BY <1>1 DEF LastBatch, BatchSize
  <1>3. First(b) \in Nat \ {0} /\ Size(b) \in Nat /\ First(b) + Size(b) - 1 <= Count
    BY <1>1, <1>2 DEF First, Size, BatchSize
  <1> QED BY <1>3, CountFits

LEMMA StrungExists ==
  ASSUME CreationInv, Room, NEW a \in Attempts, att[a].at # "idle",
         NEW seen, \A b \in 1..LastBatch : seen[b] \in Nat /\ seen[b] <= Size(b)
  PROVE  \E w \in [0..LastBatch -> Seq(Numbers)] : Strung(a, seen, w)
  <1>1. ASSUME NEW b \in 1..LastBatch PROVE Events(a, b, seen[b]) \in Seq(Numbers)
    <2>1. PICK m \in Nat : m = seen[b] /\ m <= Size(b)
      OBVIOUS
    <2>2. \A k \in 1..m : Pda(a, First(b) + k - 1) \in Numbers
      <3>1. ASSUME NEW k \in 1..m PROVE Pda(a, First(b) + k - 1) \in Numbers
        <4>1. First(b) + k - 1 \in 0..Count
          <5>1. /\ First(b) \in Nat \ {0} /\ Size(b) \in Nat
                /\ First(b) + Size(b) - 1 <= Count
            BY BatchFits
          <5>2. Count \in Nat /\ k \in Nat \ {0} /\ k <= m
            BY Sizes
          <5> QED BY <2>1, <5>1, <5>2
        <4> QED BY <4>1, PdaFits
      <3> QED BY <3>1
    <2>3. [k \in 1..m |-> Pda(a, First(b) + k - 1)] \in Seq(Numbers)
      <3>1. [k \in 1..m |-> Pda(a, First(b) + k - 1)] \in [1..m -> Numbers]
        BY <2>2
      <3> QED BY <3>1, SeqDef
    <2> QED BY <2>1, <2>3 DEF Events
  <1> DEFINE D == Seq(Numbers)
             step(b, s) == s \o Events(a, b, seen[b])
             F == [b \in 1..LastBatch |-> [s \in D |-> step(b, s)]]
  <1>2. \A b \in 1..LastBatch, s \in D : step(b, s) \in D
    BY <1>1
  <1>3. <<>> \in D /\ LastBatch \in Nat
    BY Sizes
  <1> HIDE DEF D
  <1>4. F \in [1..LastBatch -> [D -> D]]
    <2> HIDE DEF step
    <2> QED BY <1>2
  <1>5. \A b \in 1..LastBatch, s \in D : F[b][s] = step(b, s)
    OBVIOUS
  <1> HIDE DEF F, step
  <1>6. PICK w \in [0..LastBatch -> D] : Iterates(F, <<>>, LastBatch, w)
    BY <1>3, <1>4, IteratesExist
  <1>7. ASSUME NEW b \in 0..LastBatch
        PROVE  w[b] = IF b = 0 THEN <<>> ELSE step(b, w[b - 1])
    <2>1. w[b] = IF b = 0 THEN <<>> ELSE F[b][w[b - 1]]
      BY <1>6 DEF Iterates
    <2>2. b # 0 => b \in 1..LastBatch /\ w[b - 1] \in D
      BY <1>3, <1>6
    <2> QED BY <1>5, <2>1, <2>2
  <1>8. w = [b \in 0..LastBatch |-> IF b = 0 THEN <<>> ELSE step(b, w[b - 1])]
    BY <1>6, <1>7
  <1> QED BY <1>6, <1>8 DEF Strung, step, D

(* A list strung together is made of addresses, whatever was seen. *)
LEMMA StrungTyped ==
  ASSUME CreationInv, Room, NEW a \in Attempts, att[a].at # "idle",
         NEW seen, \A b \in 1..LastBatch : seen[b] \in Nat /\ seen[b] <= Size(b),
         NEW w, Strung(a, seen, w)
  PROVE  w[LastBatch] \in Seq(Numbers)
  <1>1. PICK u \in [0..LastBatch -> Seq(Numbers)] : Strung(a, seen, u)
    BY StrungExists
  <1> DEFINE S == {b \in Nat : w[b] = u[b]}
  <1>2. \A b \in 0..LastBatch : b \in S
    <2>1. LastBatch \in Nat
      BY Sizes
    <2>2. 0 \in S
      BY <1>1, <2>1 DEF Strung
    <2>3. ASSUME NEW b \in 1..LastBatch, b - 1 \in S PROVE b \in S
      <3>1. b \in 0..LastBatch /\ b # 0
        BY <2>1
      <3>2. w[b] = w[b - 1] \o Events(a, b, seen[b]) /\ u[b] = u[b - 1] \o Events(a, b, seen[b])
        BY <1>1, <3>1 DEF Strung
      <3>3. w[b - 1] = u[b - 1]
        BY <2>3
      <3>4. w[b] = u[b]
        BY <3>2, <3>3
      <3>5. b \in Nat
        BY <2>1
      <3> QED BY <3>4, <3>5
    <2> HIDE DEF S
    <2>4. \A b \in 1..LastBatch : b - 1 \in S => b \in S
      BY <2>3
    <2> QED BY <2>1, <2>2, <2>4, SetInduction
  <1>3. LastBatch \in 0..LastBatch
    BY Sizes
  <1> QED BY <1>1, <1>2, <1>3

-----------------------------------------------------------------------------
LEMMA RoomBegin ==
  ASSUME CreationInv, Room, NEW a \in Attempts, Begin(a)
  PROVE  Room'
  <1>1. PICK r : r = [Fresh EXCEPT !.at = "setup", !.start = Len(rules) + 1]
    OBVIOUS
  <1>2. r.batch = 1 /\ r.at = "setup" /\ r.start = Len(rules) + 1
    BY <1>1 DEF Fresh
  <1>3. att' = [att EXCEPT ![a] = r] /\ UNCHANGED <<cards, rules, atas, saved>>
        /\ Len(rules) + Count <= MaxRules
    BY <1>1 DEF Begin
  <1>4. Fits(r)
    BY <1>2, <1>3, Sizes DEF Fits
  <1> QED BY <1>3, <1>4, RoomOfAttempt DEF Room

(* The attempt goes on, or fails, in the batch it is in or after it. *)
LEMMA RoomMoves ==
  ASSUME CreationInv, Room, UNCHANGED <<cards, rules>>, NEW a \in Attempts,
         NEW r, att' = [att EXCEPT ![a] = r], att[a].at # "idle", r.at # "idle",
         r.start = att[a].start, r.batch = att[a].batch,
         r.at \in {"setup", "send", "confirm"} => att[a].at \in {"setup", "send", "confirm"},
         atas' \subseteq Numbers, saved' \in [Attempts -> Seq(Numbers)]
  PROVE  Room'
  <1>1. Fits(att[a])
    BY DEF Room
  <1>2. Fits(r)
    BY <1>1 DEF Fits
  <1> QED BY <1>2, RoomOfAttempt

LEMMA RoomSetup ==
  ASSUME CreationInv, Room, NEW a \in Attempts, Setup(a)
  PROVE  Room'
  <1>1. PICK next \in {"send", "failed"} : att' = [att EXCEPT ![a].at = next]
    BY DEF Setup
  <1>2. att[a].at = "setup" /\ UNCHANGED <<cards, rules, saved>>
        /\ (atas' = atas \union {Pda(a, i) : i \in 1..Count} \/ atas' = atas)
    BY DEF Setup
  <1>3. atas' \subseteq Numbers
    <2>1. \A i \in 1..Count : Pda(a, i) \in Numbers
      BY <1>2, PdaFits, Sizes
    <2> QED BY <1>2, <2>1 DEF Room
  <1>4. PICK r : r = [att[a] EXCEPT !.at = next]
    OBVIOUS
  <1>5. r.at = next /\ r.start = att[a].start /\ r.batch = att[a].batch
    BY <1>4, Sizes DEF Att
  <1>6. att' = [att EXCEPT ![a] = r]
    BY <1>1, <1>4, Sizes
  <1>7. saved' \in [Attempts -> Seq(Numbers)]
    BY <1>2 DEF Room
  <1> QED BY <1>1, <1>2, <1>3, <1>5, <1>6, <1>7, RoomMoves

LEMMA RoomSend ==
  ASSUME CreationInv, Room, NEW a \in Attempts, Send(a)
  PROVE  Room'
  <1>1. PICK next \in {"confirm", "failed"} :
          att' = [att EXCEPT ![a].at = next, ![a].out[att[a].batch] = "pending"]
    BY DEF Send
  <1>2. att[a].at = "send" /\ UNCHANGED <<cards, rules, atas, saved>>
    BY DEF Send
  <1>3. PICK o : o = [att[a].out EXCEPT ![att[a].batch] = "pending"]
    OBVIOUS
  <1>4. PICK r : r = [att[a] EXCEPT !.at = next, !.out = o]
    OBVIOUS
  <1>5. att' = [att EXCEPT ![a] = r]
    BY <1>1, <1>3, <1>4, Sizes DEF Att
  <1>6. r.at = next /\ r.start = att[a].start /\ r.batch = att[a].batch
    BY <1>4, Sizes DEF Att
  <1>7. atas' \subseteq Numbers /\ saved' \in [Attempts -> Seq(Numbers)]
    BY <1>2 DEF Room
  <1> QED BY <1>1, <1>2, <1>5, <1>6, <1>7, RoomMoves

LEMMA RoomConfirm ==
  ASSUME CreationInv, Room, NEW a \in Attempts, Confirm(a)
  PROVE  Room'
  <1>1. PICK next : next = IF att[a].batch = LastBatch THEN "report" ELSE "send"
    OBVIOUS
  <1>2. PICK r : r = [att[a] EXCEPT !.at = next, !.batch = att[a].batch + 1]
    OBVIOUS
  <1>3. att' = [att EXCEPT ![a] = r]
    BY <1>1, <1>2, Sizes DEF Confirm
  <1>4. att[a].at = "confirm" /\ UNCHANGED <<cards, rules, atas, saved>>
    BY DEF Confirm
  <1>5. r.at = next /\ r.start = att[a].start /\ r.batch = att[a].batch + 1
    BY <1>2, Sizes DEF Att
  <1>6. Fits(att[a])
    BY DEF Room
  <1>7. Fits(r)
    BY <1>1, <1>4, <1>5, <1>6, Sizes DEF Fits
  <1> QED BY <1>3, <1>4, <1>7, RoomOfAttempt DEF Room

LEMMA RoomAbort ==
  ASSUME CreationInv, Room, NEW a \in Attempts, Abort(a)
  PROVE  Room'
  <1>1. att[a].at \in {"setup", "send", "confirm", "report"}
        /\ att' = [att EXCEPT ![a].at = "failed"] /\ UNCHANGED <<cards, rules, atas, saved>>
    BY DEF Abort
  <1>2. PICK r : r = [att[a] EXCEPT !.at = "failed"]
    OBVIOUS
  <1>3. r.at = "failed" /\ r.start = att[a].start /\ r.batch = att[a].batch
    BY <1>2, Sizes DEF Att
  <1>4. att' = [att EXCEPT ![a] = r]
    BY <1>1, <1>2, Sizes
  <1>5. atas' \subseteq Numbers /\ saved' \in [Attempts -> Seq(Numbers)]
    BY <1>1 DEF Room
  <1> QED BY <1>1, <1>3, <1>4, <1>5, RoomMoves

LEMMA RoomReport ==
  ASSUME CreationInv, Room, NEW a \in Attempts, Report(a)
  PROVE  Room'
  <1>1. att[a].at = "report" /\ att' = [att EXCEPT ![a].at = "done"]
        /\ UNCHANGED <<cards, rules, atas>>
    BY DEF Report
  <1>2. PICK seen, w :
          /\ seen \in [Batches -> 0..BatchSize]
          /\ w = CHOOSE f : Strung(a, seen, f)
          /\ \A b \in Batches : seen[b] <= IF b <= LastBatch THEN Size(b) ELSE 0
          /\ saved' = [saved EXCEPT ![a] =
               [i \in 1..Count |-> IF i <= Len(w[LastBatch]) THEN w[LastBatch][i]
                                   ELSE Pda(a, i)]]
    BY DEF Report, Strung
  <1>3. \A b \in 1..LastBatch : seen[b] \in Nat /\ seen[b] <= Size(b)
    <2>1. ASSUME NEW b \in 1..LastBatch PROVE seen[b] \in Nat /\ seen[b] <= Size(b)
      <3>1. b \in Batches /\ b <= LastBatch
        BY BatchFits, Sizes
      <3>2. seen[b] \in 0..2
        BY <1>2, <3>1 DEF BatchSize
      <3> QED BY <1>2, <3>1, <3>2
    <2> QED BY <2>1
  <1>4. Strung(a, seen, w)
    BY <1>1, <1>2, <1>3, StrungExists
  <1>5. PICK all \in Seq(Numbers) : all = w[LastBatch]
    BY <1>1, <1>3, <1>4, StrungTyped
  <1>6. PICK got : got = [i \in 1..Count |-> IF i <= Len(all) THEN all[i] ELSE Pda(a, i)]
    OBVIOUS
  <1>7. got \in Seq(Numbers)
    <2>1. ASSUME NEW i \in 1..Count PROVE got[i] \in Numbers
      <3>1. i \in 0..Count /\ i \in Nat \ {0}
        BY Sizes
      <3>2. Pda(a, i) \in Numbers
        BY <1>1, <3>1, PdaFits
      <3>3. i <= Len(all) => all[i] \in Numbers
        BY <3>1
      <3> QED BY <1>6, <3>2, <3>3
    <2>2. got \in [1..Count -> Numbers]
      BY <1>6, <2>1
    <2> QED BY <2>2, Sizes, SeqDef
  <1>8. saved' \in [Attempts -> Seq(Numbers)]
    BY <1>2, <1>5, <1>6, <1>7 DEF Room
  <1>9. PICK r : r = [att[a] EXCEPT !.at = "done"]
    OBVIOUS
  <1>10. r.at = "done" /\ r.start = att[a].start /\ r.batch = att[a].batch
    BY <1>9, Sizes DEF Att
  <1>11. att' = [att EXCEPT ![a] = r]
    BY <1>1, <1>9, Sizes
  <1>12. atas' \subseteq Numbers
    BY <1>1 DEF Room
  <1> QED BY <1>1, <1>8, <1>10, <1>11, <1>12, RoomMoves

-----------------------------------------------------------------------------
LEMMA RoomEdit ==
  ASSUME CreationInv, CreationInv', Room, Edit
  PROVE  Room'
  <1>1. /\ \A a \in Attempts : att[a].at = "idle"
        /\ UNCHANGED <<rules, atas, att, saved>>
    BY DEF Edit, creationVars
  <1>2. LastBatch' \in Nat \ {0}
    <2>1. Len(cards') \in 1..MaxCards /\ MaxCards \in Nat
      BY DraftAssumption DEF CreationInv, DraftInv, DraftTypeOK
    <2> QED BY <2>1 DEF LastBatch, Count, BatchSize
  <1>3. \A a \in Attempts : Fits(att[a])'
    BY <1>1, <1>2 DEF Room, Fits
  <1> QED BY <1>1, <1>3 DEF Room

(* The chain takes a batch whole, or another wallet's rule. *)
LEMMA RoomGrows ==
  ASSUME CreationInv, Room, NEW more \in Seq(ChainRule), rules' = rules \o more,
         Len(rules) + Len(more) <= MaxRules, UNCHANGED <<cards, atas, saved>>,
         \A a \in Attempts : /\ att'[a].at = att[a].at /\ att'[a].start = att[a].start
                             /\ att'[a].batch = att[a].batch
  PROVE  Room'
  <1>1. rules' \in Seq(ChainRule) /\ Len(rules') = Len(rules) + Len(more)
    BY ConcatProperties DEF Room
  <1>2. Count' = Count /\ LastBatch' = LastBatch
    BY DEF Count, LastBatch
  <1>3. \A a \in Attempts : Fits(att[a])'
    BY <1>2 DEF Room, Fits
  <1> QED BY <1>1, <1>3 DEF Room

LEMMA RoomForeign ==
  ASSUME CreationInv, Room, Foreign
  PROVE  Room'
  <1>1. PICK other : other = [by |-> 0, card |-> 0, dest |-> 0, upstream |-> 0,
                              seed |-> 0, bridge |-> FALSE, looped |-> FALSE]
    OBVIOUS
  <1>2. other \in ChainRule
    BY <1>1, Sizes DEF ChainRule, Links, Numbers
  <1>3. rules' = rules \o <<other>>
    <2>1. rules' = Append(rules, other)
      BY <1>1 DEF Foreign
    <2> QED BY <1>2, <2>1 DEF Room
  <1>4. <<other>> \in Seq(ChainRule) /\ Len(<<other>>) = 1
    BY <1>2
  <1>5. Len(rules) + 1 <= MaxRules
    BY Sizes DEF Foreign
  <1> QED BY <1>3, <1>4, <1>5, RoomGrows DEF Foreign

LEMMA RoomLand ==
  ASSUME CreationInv, Room, NEW a \in Attempts, NEW b \in 1..LastBatch, Land(a, b)
  PROVE  Room'
  <1>1. att[a].at # "idle"
    BY BatchFits DEF Land, CreationInv, BegunInOrder
  <1>2. ASSUME NEW o, att' = [att EXCEPT ![a].out[b] = o]
        PROVE  \A c \in Attempts : /\ att'[c].at = att[c].at /\ att'[c].start = att[c].start
                                   /\ att'[c].batch = att[c].batch
    <2>1. PICK q : q = [att[a].out EXCEPT ![b] = o]
      OBVIOUS
    <2>2. PICK r : r = [att[a] EXCEPT !.out = q]
      OBVIOUS
    <2>3. r.at = att[a].at /\ r.start = att[a].start /\ r.batch = att[a].batch
      BY <2>2, Sizes DEF Att
    <2>4. att' = [att EXCEPT ![a] = r]
      BY <1>2, <2>1, <2>2, Sizes DEF Att
    <2> QED BY <2>3, <2>4, Sizes
  <1>3. CASE /\ CanCreate(a, b)
             /\ rules' = rules \o [k \in 1..Size(b) |-> Planned(a, First(b) + k - 1)]
             /\ att' = [att EXCEPT ![a].out[b] = "created"]
    <2>1. PICK more : more = [k \in 1..Size(b) |-> Planned(a, First(b) + k - 1)]
      OBVIOUS
    <2>2. ASSUME NEW k \in 1..Size(b) PROVE Planned(a, First(b) + k - 1) \in ChainRule
      <3>1. First(b) + k - 1 \in 1..Count
        BY BatchFits, Sizes
      <3> QED BY <1>1, <3>1, PlannedFits
    <2>3. more \in [1..Size(b) -> ChainRule] /\ Size(b) \in Nat
      BY <2>1, <2>2, BatchFits
    <2>4. more \in Seq(ChainRule) /\ Len(more) = Size(b)
      BY <2>3, SeqDef
    <2>5. Len(rules) + Len(more) <= MaxRules
      BY <1>3, <2>4 DEF CanCreate
    <2>6. rules' = rules \o more /\ UNCHANGED <<cards, atas, saved>>
      BY <1>3, <2>1 DEF Land
    <2> QED BY <1>2, <1>3, <2>4, <2>5, <2>6, RoomGrows
  <1>4. CASE att' = [att EXCEPT ![a].out[b] = "failed"] /\ UNCHANGED rules
    <2>1. PICK none : none = <<>>
      OBVIOUS
    <2>2. none \in Seq(ChainRule) /\ rules' = rules \o none /\ Len(none) = 0
      BY <1>4, <2>1 DEF Room
    <2>3. UNCHANGED <<cards, atas, saved>> /\ Len(rules) + Len(none) <= MaxRules
      BY <2>2, Sizes DEF Land, Room
    <2> QED BY <1>2, <1>4, <2>2, <2>3, RoomGrows
  <1> QED BY <1>3, <1>4 DEF Land

LEMMA RoomNext ==
  ASSUME CreationInv, CreationInv', Room, [Next]_vars
  PROVE  Room'
  <1>1. CASE UNCHANGED vars
    <2>1. UNCHANGED <<cards, rules, atas, att, saved>>
      BY <1>1 DEF vars
    <2>2. Count' = Count /\ LastBatch' = LastBatch
      BY <2>1 DEF Count, LastBatch
    <2>3. \A a \in Attempts : Fits(att[a])'
      BY <2>1, <2>2 DEF Room, Fits
    <2> QED BY <2>1, <2>3 DEF Room
  <1> QED BY <1>1, RoomEdit, RoomForeign, RoomBegin, RoomSetup, RoomSend, RoomConfirm,
             RoomAbort, RoomReport, RoomLand DEF Next

LEMMA RoomInit == ASSUME Init PROVE Room
  <1>1. CreationInv
    BY InitInv
  <1>2. rules = <<>> /\ atas = {} /\ \A a \in Attempts : att[a] = Fresh /\ saved[a] = <<>>
    BY DEF Init
  <1>3. rules \in Seq(ChainRule) /\ Len(rules) = 0
    BY <1>2
  <1>4. Fits(Fresh)
    BY <1>1, Sizes DEF Fits, Fresh
  <1>5. saved \in [Attempts -> Seq(Numbers)]
    BY DEF Init
  <1> QED BY <1>1, <1>2, <1>3, <1>4, <1>5, Sizes DEF Room

LEMMA TypeFromRoom == ASSUME CreationInv, Room PROVE TypeOK
  <1>1. ASSUME NEW a \in Attempts
        PROVE  att[a] \in [at: {"idle", "setup", "send", "confirm", "report", "done", "failed"},
                           start: 0..(MaxRules + 1), batch: 1..(MaxCards + 1),
                           out: [Batches -> {"none", "pending", "created", "failed"}]]
    <2>1. att[a] \in Att /\ Fits(att[a])
      BY Sizes DEF Room
    <2>2. att[a].start \in 0..(MaxRules + 1) /\ att[a].batch \in 1..(MaxCards + 1)
      BY <2>1, Sizes DEF Fits, Att
    <2> QED BY <2>1, <2>2 DEF Att, Phases, Outs
  <1>2. att \in [Attempts -> [at: {"idle", "setup", "send", "confirm", "report", "done", "failed"},
                              start: 0..(MaxRules + 1), batch: 1..(MaxCards + 1),
                              out: [Batches -> {"none", "pending", "created", "failed"}]]]
    BY <1>1, Sizes
  <1> QED BY <1>2 DEF TypeOK, Room, ChainRule, CreationInv, DraftInv

(* TypeOK (ChainCreation): every address an attempt derives, stores or is   *)
(* told of is one of a rule the program has room for, and an attempt never  *)
(* goes beyond its last batch, whatever lands in between (sendChainCreate). *)
THEOREM AddressesInRange == Spec => []TypeOK
  <1>1. Init => CreationInv /\ Room
    BY InitInv, RoomInit
  <1>2. CreationInv /\ Room /\ [Next]_vars => (CreationInv /\ Room)'
    BY NextInv, RoomNext
  <1>3. CreationInv /\ Room => TypeOK
    BY TypeFromRoom
  <1> QED BY <1>1, <1>2, <1>3, PTL DEF Spec

-----------------------------------------------------------------------------
(* A draft is begun only when no first card watches a previous one.         *)
BegunSound ==
  (\E a \in Attempts : att[a].at # "idle") =>
    \A i \in 1..Count : cards[i].result.relative => i > 1

(* Begin asks for a valid draft, and no edit happens after it. *)
LEMMA StepSound ==
  ASSUME CreationInv, BegunSound, [Next]_vars
  PROVE  BegunSound'
  <1>1. CASE \A a \in Attempts : att'[a].at # "idle" => att[a].at # "idle"
    <2>1. CASE Edit
      <3>1. UNCHANGED att /\ \A a \in Attempts : att[a].at = "idle"
        BY <2>1 DEF Edit, creationVars
      <3> QED BY <3>1 DEF BegunSound
    <2>2. CASE UNCHANGED cards
      BY <1>1, <2>2 DEF BegunSound, Count
    <2>3. UNCHANGED cards \/ Edit
      BY DEF Next, Foreign, Begin, Setup, Send, Confirm, Abort, Report, Land, vars
    <2> QED BY <2>1, <2>2, <2>3
  <1>2. CASE \E a \in Attempts : att'[a].at # "idle" /\ att[a].at = "idle"
    <2>0. att \in [Attempts -> Att]
      BY DEF CreationInv, ChainTypes
    <2>1. PICK a \in Attempts : Begin(a)
      <3>1. PICK c \in Attempts : att'[c].at # "idle" /\ att[c].at = "idle"
        BY <1>2
      <3>2. ~ UNCHANGED att
        BY <3>1
      <3>3. CASE \E a \in Attempts : Begin(a)
        BY <3>3
      <3>4. CASE \E a \in Attempts :
                   \/ Setup(a) \/ Send(a) \/ Confirm(a) \/ Abort(a) \/ Report(a)
                   \/ \E b \in 1..LastBatch : Land(a, b)
        <4>1. PICK a \in Attempts :
                   \/ Setup(a) \/ Send(a) \/ Confirm(a) \/ Abort(a) \/ Report(a)
                   \/ \E b \in 1..LastBatch : Land(a, b)
          BY <3>4
        <4>2. att[a].at = "idle" => att'[a].at = "idle"
          <5>1. ASSUME NEW b \in 1..LastBatch, Land(a, b) PROVE att'[a].at = att[a].at
            BY <2>0, <5>1 DEF Land, Att
          <5> QED BY <4>1, <5>1 DEF Setup, Send, Confirm, Abort, Report
        <4>3. \A d \in Attempts : d # a => att'[d] = att[d]
          BY <2>0, <4>1 DEF Setup, Send, Confirm, Abort, Report, Land
        <4> QED BY <3>1, <4>2, <4>3
      <3> QED BY <3>2, <3>3, <3>4 DEF Next, Edit, creationVars, Foreign, vars
    <2>2. UNCHANGED cards /\ ValidChainDraft
      BY <2>1 DEF Begin, ChainReady
    <2> QED BY <2>2 DEF BegunSound, ValidChainDraft, Count
  <1> QED BY <1>1, <1>2

(* The first card of a fresh draft watches nothing. *)
LEMMA SoundStart == ASSUME Init PROVE BegunSound
  BY DEF Init, Fresh, BegunSound

(* The least element of a set of numbers is its Min. *)
LEMMA MinIs ==
  ASSUME NEW S, NEW m \in S, S \subseteq Int, \A x \in S : m <= x
  PROVE  Min(S) = m
  <1>1. PICK c : c = Min(S)
    OBVIOUS
  <1>2. c = CHOOSE x \in S : \A y \in S : x <= y
    BY <1>1 DEF Min
  <1>3. c \in S /\ \A y \in S : c <= y
    BY <1>2
  <1>4. c <= m /\ m <= c /\ c \in Int /\ m \in Int
    BY <1>3
  <1> QED BY <1>1, <1>4

-----------------------------------------------------------------------------
(* A whole chain that begins at address lo, among rules none of which pays  *)
(* into it or watches it.                                                   *)
Alone(a, lo, own) ==
  /\ Count > 1 /\ lo = att[a].start
  /\ own = {p \in Own : rules[p].by = a} /\ Cardinality(own) = Count
  /\ \A q \in Own \ own : {rules[q].dest, rules[q].upstream} \cap own = {}

(* Its neighbourhood: the payments follow the links, and nobody else is     *)
(* next to any of its rules.                                                *)
LEMMA AloneLinks ==
  ASSUME CreationInv, BegunSound, NEW a \in Attempts, NEW lo, NEW own, Alone(a, lo, own)
  PROVE  /\ lo \in Nat \ {0} /\ own = lo..lo + Count - 1 /\ own \subseteq Own
         /\ Own \subseteq Nat \ {0} /\ IsFiniteSet(Own)
         /\ \A i \in 1..Count :
              /\ lo + i - 1 \in own /\ rules[lo + i - 1].card = i
              /\ NextOf(lo + i - 1) = IF cards[i].link = 0 THEN 0 ELSE lo + cards[i].link - 1
         /\ \A p \in own, q \in Own : Adjacent(p, q) => q \in own
         /\ \A p \in own : PayersOf(p) = {q \in own : NextOf(q) = p}
  <1>0. /\ Count \in Nat \ {0} /\ Count > 1 /\ 0 \notin Attempts /\ Len(rules) \in Nat
        /\ \A i \in 1..Count : cards[i].link \in 0..Count
    <2>1. \A i \in 1..Count : cards[i].link \in 0..Count
      <3>1. \A i \in 1..Count : LinkOf(i) = cards[i].link /\ i \in 0..Count
        BY LinksAre DEF LinkOf, CreationInv
      <3>2. \A x \in 0..Count : LinkOf(x) \in 0..Count
        BY LinksAre DEF CreationInv
      <3> QED BY <3>1, <3>2
    <2>2. Count \in Nat \ {0} /\ Count > 1
      BY LinksAre DEF CreationInv, Alone
    <2>3. Len(rules) \in Nat
      <3>1. rules \in Seq(RuleRec)
        BY DEF CreationInv, ChainTypes
      <3> QED BY <3>1
    <2> QED BY <2>1, <2>2, <2>3, CreationAssumption
  <1>1. own = {p \in 1..Len(rules) : rules[p].by = a} /\ own \subseteq Own
    <2>1. a # 0 /\ own = {p \in Own : rules[p].by = a}
      BY <1>0 DEF Alone
    <2> QED BY <2>1 DEF Own
  <1>2. /\ lo \in Nat \ {0} /\ own = lo..lo + Count - 1
        /\ \A i \in 1..Count : lo + i - 1 \in own /\ rules[lo + i - 1] = Planned(a, i)
    <2>1. Cardinality(own) = Count /\ lo = att[a].start
      BY DEF Alone
    <2> QED BY <1>1, <2>1, WholeChain
  <1>3. Own \subseteq 1..Len(rules) /\ Own \subseteq Nat \ {0} /\ IsFiniteSet(Own)
    <2>1. Own \subseteq 1..Len(rules)
      BY DEF Own
    <2>2. IsFiniteSet(1..Len(rules))
      BY <1>0, FS_Interval
    <2>3. 1..Len(rules) \subseteq Nat \ {0}
      BY <1>0
    <2> QED BY <2>1, <2>2, <2>3, FS_Subset
  <1>4. \A i \in 1..Count :
          /\ rules[lo + i - 1].card = i
          /\ rules[lo + i - 1].dest = IF cards[i].link = 0 THEN 0 ELSE lo + cards[i].link - 1
          /\ rules[lo + i - 1].upstream =
               IF cards[i].result.relative THEN lo + (i - 1) - 1 ELSE 0
    <2>1. Count # 1 /\ lo = att[a].start
      BY <1>0 DEF Alone
    <2>2. \A i \in 1..Count : rules[lo + i - 1] = Planned(a, i)
      BY <1>2
    <2>3. ASSUME NEW i \in 1..Count
          PROVE  /\ rules[lo + i - 1].card = i
                 /\ rules[lo + i - 1].dest =
                      IF cards[i].link = 0 THEN 0 ELSE lo + cards[i].link - 1
                 /\ rules[lo + i - 1].upstream =
                      IF cards[i].result.relative THEN lo + (i - 1) - 1 ELSE 0
      <3>1. PICK r : r = rules[lo + i - 1]
        OBVIOUS
      <3>2. r = Planned(a, i)
        BY <2>2, <3>1
      <3>3. r.card = i
        BY <3>2 DEF Planned
      <3>4. r.dest = IF Count = 1 \/ cards[i].link = 0 THEN 0 ELSE lo + cards[i].link - 1
        BY <2>1, <3>2 DEF Planned, Pda
      <3>5. r.upstream = IF cards[i].result.relative THEN lo + (i - 1) - 1 ELSE 0
        BY <2>1, <3>2 DEF Planned, Pda
      <3> QED BY <2>1, <3>1, <3>3, <3>4, <3>5
    <2> QED BY <2>3
  <1>5. \A i \in 1..Count :
          NextOf(lo + i - 1) = IF cards[i].link = 0 THEN 0 ELSE lo + cards[i].link - 1
    <2>1. SUFFICES ASSUME NEW i \in 1..Count
                   PROVE  NextOf(lo + i - 1) =
                            IF cards[i].link = 0 THEN 0 ELSE lo + cards[i].link - 1
      OBVIOUS
    <2>2. CASE cards[i].link = 0
      BY <1>4, <2>2 DEF NextOf
    <2>3. CASE cards[i].link # 0
      <3>1. cards[i].link \in 1..Count
        BY <1>0, <2>3
      <3>2. lo + cards[i].link - 1 \in Own
        BY <1>1, <1>2, <3>1
      <3> QED BY <1>4, <2>3, <3>2 DEF NextOf
    <2> QED BY <2>2, <2>3
  <1>6. \A p \in own : \E i \in 1..Count : p = lo + i - 1
    <2>1. ASSUME NEW p \in own PROVE p - lo + 1 \in 1..Count /\ p = lo + (p - lo + 1) - 1
      BY <1>0, <1>2
    <2> QED BY <2>1
  <1>7. \A q \in Own \ own : NextOf(q) \notin own /\ rules[q].upstream \notin own
    <2>1. 0 \notin own
      BY <1>1, <1>3
    <2> QED BY <2>1 DEF Alone, NextOf
  <1>8. ASSUME NEW p \in own, NEW q \in Own, Adjacent(p, q) PROVE q \in own
    <2>1. PICK i \in 1..Count : p = lo + i - 1
      BY <1>6
    <2>2. CASE NextOf(p) = q
      <3>1. q = IF cards[i].link = 0 THEN 0 ELSE lo + cards[i].link - 1
        BY <1>5, <2>1, <2>2
      <3>2. q # 0
        BY <1>3
      <3>3. cards[i].link \in 1..Count
        BY <1>0, <3>1, <3>2
      <3> QED BY <1>2, <3>1, <3>3
    <2>3. CASE NextOf(q) = p
      BY <1>7, <2>3
    <2>4. CASE rules[p].upstream = q
      <3>1. cards[i].result.relative /\ q = lo + (i - 1) - 1
        BY <1>3, <1>4, <2>1, <2>4
      <3>2. i > 1
        <4>1. p \in Own /\ rules[p].by = a
          BY <1>1
        <4>2. att[a].at # "idle"
          BY <1>0, <1>1, <4>1 DEF CreationInv, Placed
        <4> QED BY <3>1, <4>2 DEF BegunSound
      <3>3. i - 1 \in 1..Count
        BY <1>0, <3>2
      <3> QED BY <1>2, <3>1, <3>3
    <2>5. CASE rules[q].upstream = p
      BY <1>7, <2>5
    <2> QED BY <1>8, <2>2, <2>3, <2>4, <2>5 DEF Adjacent, Watches
  <1>9. ASSUME NEW p \in own PROVE PayersOf(p) = {q \in own : NextOf(q) = p}
    BY <1>1, <1>7 DEF PayersOf
  <1> QED BY <1>1, <1>2, <1>3, <1>4, <1>5, <1>8, <1>9

-----------------------------------------------------------------------------
(* One more ring of neighbours.                                             *)
Grown(c) == c \union {q \in Own \ c : \E r \in c : Adjacent(r, q)}

(* What the search of Component holds, step by step. *)
Found(p, f) ==
  f = [k \in 0..Cardinality(Own) |-> IF k = 0 THEN {p} ELSE Grown(f[k - 1])]

(* The search is defined: it stays among the wallet's rules. *)
LEMMA FoundExists ==
  ASSUME IsFiniteSet(Own), NEW p \in Own
  PROVE  \E f : Found(p, f)
  <1>0. PICK n \in Nat : n = Cardinality(Own)
    BY FS_CardinalityType
  <1> DEFINE D == SUBSET Own
             F == [k \in 1..n |-> [c \in D |-> Grown(c)]]
  <1>1. \A c \in D : Grown(c) \in D
    BY DEF Grown
  <1>2. F \in [1..n -> [D -> D]]
    BY <1>1
  <1>3. \A k \in 1..n, c \in D : F[k][c] = Grown(c)
    OBVIOUS
  <1>4. {p} \in D
    OBVIOUS
  <1> HIDE DEF D, F
  <1>5. PICK f \in [0..n -> D] : Iterates(F, {p}, n, f)
    BY <1>0, <1>2, <1>4, IteratesExist
  <1>6. ASSUME NEW k \in 0..n
        PROVE  f[k] = IF k = 0 THEN {p} ELSE Grown(f[k - 1])
    <2>1. f[k] = IF k = 0 THEN {p} ELSE F[k][f[k - 1]]
      BY <1>5 DEF Iterates
    <2>2. k # 0 => k \in 1..n /\ f[k - 1] \in D
      BY <1>0, <1>5
    <2> QED BY <1>3, <2>1, <2>2
  <1>7. f = [k \in 0..n |-> IF k = 0 THEN {p} ELSE Grown(f[k - 1])]
    BY <1>5, <1>6
  <1> QED BY <1>0, <1>7 DEF Found

(* Component is where the search ends. *)
LEMMA ComponentIsFound ==
  ASSUME NEW p
  PROVE  Component(p) = (CHOOSE f : Found(p, f))[Cardinality(Own)]
  BY DEF Component, Found, Grown

(* The search finds the chain, all of it and nothing else. *)
LEMMA ComponentIsChain ==
  ASSUME CreationInv, BegunSound, NEW a \in Attempts, NEW lo, NEW own, Alone(a, lo, own)
  PROVE  Component(lo) = own
  <1>1. /\ lo \in Nat \ {0} /\ own = lo..lo + Count - 1 /\ own \subseteq Own
        /\ IsFiniteSet(Own)
        /\ \A i \in 1..Count :
              NextOf(lo + i - 1) = IF cards[i].link = 0 THEN 0 ELSE lo + cards[i].link - 1
        /\ \A p \in own, q \in Own : Adjacent(p, q) => q \in own
    BY AloneLinks
  <1>2. /\ Count \in Nat \ {0} /\ Count > 1 /\ Cardinality(own) = Count
        /\ \A x \in 1..Count : x # Count => cards[x].link = x + 1
    BY LinksAre DEF CreationInv, Alone
  <1>3. PICK n \in Nat : n = Cardinality(Own) /\ Count <= n
    BY <1>1, <1>2, FS_CardinalityType, FS_Subset
  <1>4. lo \in own
    BY <1>1, <1>2
  <1>5. PICK f : f = CHOOSE g : Found(lo, g)
    OBVIOUS
  <1>6. Found(lo, f)
    BY <1>1, <1>4, <1>5, FoundExists
  <1>7. f[0] = {lo} /\ \A k \in 1..n : f[k] = Grown(f[k - 1])
    <2>1. \A k \in 0..n : f[k] = IF k = 0 THEN {lo} ELSE Grown(f[k - 1])
      BY <1>3, <1>6 DEF Found
    <2>2. 0 \in 0..n /\ \A k \in 1..n : k \in 0..n /\ k # 0
      BY <1>3
    <2> QED BY <2>1, <2>2
  <1> DEFINE S == {k \in 0..n : /\ f[k] \subseteq own
                               /\ \A p \in own : p <= lo + k => p \in f[k]}
  <1>8. 0 \in S
    <2>1. \A p \in own : p <= lo + 0 => p = lo
      BY <1>1, <1>2
    <2> QED BY <1>3, <1>4, <1>7, <2>1
  <1>9. ASSUME NEW k \in 1..n, k - 1 \in S PROVE k \in S
    <2>1. PICK c : c = f[k - 1]
      OBVIOUS
    <2>2. c \subseteq own /\ \A p \in own : p <= lo + (k - 1) => p \in c
      BY <1>9, <2>1
    <2>3. f[k] = c \union {q \in Own \ c : \E r \in c : Adjacent(r, q)}
      BY <1>7, <2>1 DEF Grown
    <2>4. f[k] \subseteq own
      BY <1>1, <2>2, <2>3
    <2>5. ASSUME NEW p \in own, p <= lo + k PROVE p \in f[k]
      <3>1. CASE p <= lo + (k - 1)
        BY <2>2, <2>3, <3>1
      <3>2. CASE ~ (p <= lo + (k - 1))
        <4>1. p = lo + k /\ k < Count /\ k \in 1..Count
          BY <1>1, <1>2, <1>3, <2>5, <3>2
        <4>2. cards[k].link = k + 1
          BY <1>2, <4>1
        <4>3. lo + k - 1 \in own
          BY <1>1, <1>2, <4>1
        <4>4. NextOf(lo + k - 1) = p
          <5>1. NextOf(lo + k - 1) = lo + (k + 1) - 1
            BY <1>1, <4>1, <4>2
          <5> QED BY <1>1, <4>1, <5>1
        <4>5. lo + k - 1 \in c
          BY <1>1, <2>2, <4>3
        <4>6. Adjacent(lo + k - 1, p)
          BY <4>4 DEF Adjacent
        <4> QED BY <1>1, <2>3, <2>5, <4>5, <4>6
      <3> QED BY <3>1, <3>2
    <2> QED BY <1>3, <2>4, <2>5
  <1>10. \A k \in 0..n : k \in S
    <2> HIDE DEF S
    <2> QED BY <1>3, <1>8, <1>9, SetInduction
  <1>11. f[n] \subseteq own /\ \A p \in own : p <= lo + n => p \in f[n]
    BY <1>3, <1>10
  <1>12. \A p \in own : p <= lo + n
    BY <1>1, <1>2, <1>3
  <1>13. Component(lo) = f[n]
    BY <1>3, <1>5, ComponentIsFound
  <1> QED BY <1>11, <1>12, <1>13

(* It is read from its first rule on. *)
LEMMA StartIsFirst ==
  ASSUME CreationInv, BegunSound, NEW a \in Attempts, NEW lo, NEW own, Alone(a, lo, own)
  PROVE  Min(own) = lo /\ Start(own) = lo
  <1>1. /\ lo \in Nat \ {0} /\ own = lo..lo + Count - 1
        /\ \A i \in 1..Count :
              NextOf(lo + i - 1) = IF cards[i].link = 0 THEN 0 ELSE lo + cards[i].link - 1
        /\ \A p \in own : PayersOf(p) = {q \in own : NextOf(q) = p}
    BY AloneLinks
  <1>2. /\ Count \in Nat \ {0} /\ Count > 1
        /\ \A x \in 1..Count : x # Count => cards[x].link = x + 1
    BY LinksAre DEF CreationInv, Alone
  <1>3. lo \in own /\ own \subseteq Int /\ \A p \in own : lo <= p
    BY <1>1, <1>2
  <1>4. Min(own) = lo
    BY <1>3, MinIs
  <1>5. ASSUME NEW p \in Heads(own) PROVE p = lo
    <2>1. p \in own /\ PayersOf(p) = {}
      BY <1>5 DEF Heads
    <2>2. SUFFICES ASSUME p # lo PROVE FALSE
      OBVIOUS
    <2>3. PICK i \in 1..Count : i = p - lo /\ i # Count
      BY <1>1, <1>2, <2>1, <2>2
    <2>4. cards[i].link = i + 1
      BY <1>2, <2>3
    <2>5. NextOf(lo + i - 1) = lo + (i + 1) - 1
      <3>1. NextOf(lo + i - 1) = IF cards[i].link = 0 THEN 0 ELSE lo + cards[i].link - 1
        BY <1>1
      <3>2. cards[i].link # 0
        BY <1>2, <2>4
      <3> QED BY <2>4, <3>1, <3>2
    <2>6. NextOf(lo + i - 1) = p /\ lo + i - 1 \in own
      BY <1>1, <1>2, <2>1, <2>3, <2>5
    <2> QED BY <1>1, <2>1, <2>6
  <1>6. CASE Heads(own) = {}
    BY <1>4, <1>6 DEF Start
  <1>7. CASE Heads(own) # {}
    <2>1. Heads(own) = {lo}
      BY <1>5, <1>7
    <2>2. lo \in Heads(own) /\ Heads(own) \subseteq Int /\ \A x \in Heads(own) : lo <= x
      BY <1>1, <2>1
    <2>3. Min(Heads(own)) = lo
      BY <2>2, MinIs
    <2> QED BY <1>4, <1>7, <2>3 DEF Start
  <1> QED BY <1>4, <1>6, <1>7

(* Following the payments from it. *)
Onward(p) == IF p = 0 THEN 0 ELSE NextOf(p)

ReadFrom(c, f) ==
  f = [k \in 0..Cardinality(c) |-> IF k = 0 THEN Start(c) ELSE Onward(f[k - 1])]

Read(c, f, p) == {k \in 0..Cardinality(c) : f[k] = p}

TheRead(c) == CHOOSE g : ReadFrom(c, g)

(* Position names the first time each rule is met. *)
LEMMA PositionIsRead ==
  ASSUME NEW c
  PROVE  Position(c) = [p \in {q \in c : Read(c, TheRead(c), q) # {}} |->
                          Min(Read(c, TheRead(c), p))]
  BY DEF Position, ReadFrom, Onward, Read, TheRead

(* Following the payments is defined: it stays among the rules, or stops. *)
LEMMA ReadExists ==
  ASSUME NEW c, Cardinality(c) \in Nat, Start(c) \in Own
  PROVE  \E f : ReadFrom(c, f)
  <1>0. PICK n \in Nat : n = Cardinality(c)
    OBVIOUS
  <1>00. PICK s \in Own : s = Start(c)
    OBVIOUS
  <1> DEFINE D == Own \union {0}
             F == [k \in 1..n |-> [p \in D |-> Onward(p)]]
  <1>1. \A p \in D : Onward(p) \in D
    BY DEF Onward, NextOf
  <1>2. F \in [1..n -> [D -> D]]
    BY <1>1
  <1>3. \A k \in 1..n, p \in D : F[k][p] = Onward(p)
    OBVIOUS
  <1>4. s \in D
    OBVIOUS
  <1> HIDE DEF D, F
  <1>5. PICK f \in [0..n -> D] : Iterates(F, s, n, f)
    BY <1>0, <1>2, <1>4, IteratesExist
  <1>6. ASSUME NEW k \in 0..n
        PROVE  f[k] = IF k = 0 THEN s ELSE Onward(f[k - 1])
    <2>1. f[k] = IF k = 0 THEN s ELSE F[k][f[k - 1]]
      BY <1>5 DEF Iterates
    <2>2. k # 0 => k \in 1..n /\ f[k - 1] \in D
      BY <1>0, <1>5
    <2> QED BY <1>3, <2>1, <2>2
  <1>7. f = [k \in 0..n |-> IF k = 0 THEN s ELSE Onward(f[k - 1])]
    BY <1>5, <1>6
  <1> QED BY <1>0, <1>00, <1>7 DEF ReadFrom

(* Every rule of the chain is met, in the order of the cards. *)
LEMMA PositionsAreCards ==
  ASSUME CreationInv, BegunSound, NEW a \in Attempts, NEW lo, NEW own, Alone(a, lo, own)
  PROVE  DOMAIN Position(own) = own /\ \A p \in own : Position(own)[p] = p - lo
  <1>1. /\ lo \in Nat \ {0} /\ own = lo..lo + Count - 1 /\ own \subseteq Own
        /\ \A i \in 1..Count :
              NextOf(lo + i - 1) = IF cards[i].link = 0 THEN 0 ELSE lo + cards[i].link - 1
    BY AloneLinks
  <1>2. /\ Count \in Nat \ {0} /\ Count > 1 /\ Cardinality(own) = Count
        /\ \A x \in 1..Count : x # Count => cards[x].link = x + 1
    BY LinksAre DEF CreationInv, Alone
  <1>3. PICK n \in Nat : n = Count /\ n > 1
    BY <1>2
  <1>4. Start(own) = lo /\ lo \in own
    BY <1>1, <1>2, StartIsFirst
  <1>5. PICK f : f = TheRead(own)
    OBVIOUS
  <1>6. ReadFrom(own, f)
    BY <1>1, <1>2, <1>4, <1>5, ReadExists DEF TheRead
  <1>7. f[0] = lo /\ \A k \in 1..n : f[k] = Onward(f[k - 1])
    <2>1. \A k \in 0..n : f[k] = IF k = 0 THEN lo ELSE Onward(f[k - 1])
      BY <1>2, <1>3, <1>4, <1>6 DEF ReadFrom
    <2>2. 0 \in 0..n /\ \A k \in 1..n : k \in 0..n /\ k # 0
      BY <1>3
    <2> QED BY <2>1, <2>2
  <1> DEFINE S == {k \in 0..n - 1 : f[k] = lo + k}
  <1>8. 0 \in S
    BY <1>1, <1>3, <1>7
  <1>9. ASSUME NEW k \in 1..n - 1, k - 1 \in S PROVE k \in S
    <2>1. f[k - 1] = lo + (k - 1) /\ k \in 1..n /\ k # Count
      BY <1>3, <1>9
    <2>2. cards[k].link = k + 1
      BY <1>2, <1>3, <2>1
    <2>3. NextOf(lo + k - 1) = lo + (k + 1) - 1
      BY <1>1, <1>3, <2>1, <2>2
    <2>4. lo + (k - 1) # 0 /\ lo + (k - 1) = lo + k - 1 /\ lo + (k + 1) - 1 = lo + k
      BY <1>1
    <2>5. f[k] = lo + k
      BY <1>7, <2>1, <2>3, <2>4 DEF Onward
    <2> QED BY <2>5
  <1>10. \A k \in 0..n - 1 : f[k] = lo + k
    <2>1. n - 1 \in Nat
      BY <1>3
    <2>2. \A k \in 0..n - 1 : k \in S
      <3> HIDE DEF S
      <3> QED BY <1>8, <1>9, <2>1, SetInduction
    <2> QED BY <2>2
  <1>11. ASSUME NEW p \in own PROVE Read(own, f, p) # {} /\ Min(Read(own, f, p)) = p - lo
    <2>1. PICK i \in 0..n - 1 : i = p - lo
      BY <1>1, <1>3
    <2>2. f[i] = p
      BY <1>1, <1>10, <2>1
    <2>3. i \in Read(own, f, p)
      BY <1>2, <1>3, <2>2 DEF Read
    <2>4. Read(own, f, p) \subseteq Int
      BY <1>2, <1>3 DEF Read
    <2>5. ASSUME NEW k \in Read(own, f, p) PROVE i <= k
      <3>1. k \in 0..n /\ f[k] = p
        BY <1>2, <1>3 DEF Read
      <3>2. SUFFICES ASSUME k < i PROVE FALSE
        BY <3>1
      <3>3. f[k] = lo + k
        BY <1>10, <3>1, <3>2
      <3> QED BY <1>1, <2>1, <3>1, <3>2, <3>3
    <2>6. Min(Read(own, f, p)) = i
      BY <2>3, <2>4, <2>5, MinIs
    <2> QED BY <2>1, <2>3, <2>6
  <1>12. Position(own) =
           [p \in {q \in own : Read(own, f, q) # {}} |-> Min(Read(own, f, p))]
    BY <1>5, PositionIsRead
  <1>13. {q \in own : Read(own, f, q) # {}} = own
    BY <1>11
  <1> QED BY <1>11, <1>12, <1>13

(* What ReadBackInOrder says of one chain: the component c that is found    *)
(* and the positions in it.                                                 *)
ReadsBack(own, c, at) ==
  /\ c = own /\ DOMAIN at = own
  /\ \A p \in own :
       LET i == rules[p].card IN
       /\ at[p] = i - 1
       /\ IF cards[i].link = 0 THEN NextOf(p) = 0
          ELSE NextOf(p) \in own /\ rules[NextOf(p)].card = cards[i].link

(* A whole chain with nothing next to it is read back as it was made. *)
LEMMA AloneReadsBack ==
  ASSUME CreationInv, BegunSound, NEW a \in Attempts, NEW lo, NEW own, Alone(a, lo, own),
         NEW c, c = Component(Min(own)), NEW at, at = Position(c)
  PROVE  ReadsBack(own, c, at)
  <1>3. /\ lo \in Nat \ {0} /\ own = lo..lo + Count - 1
        /\ \A i \in 1..Count :
              /\ lo + i - 1 \in own /\ rules[lo + i - 1].card = i
              /\ NextOf(lo + i - 1) = IF cards[i].link = 0 THEN 0 ELSE lo + cards[i].link - 1
    BY AloneLinks
  <1>4. c = own
    BY ComponentIsChain, StartIsFirst
  <1>5. DOMAIN at = own /\ \A p \in own : at[p] = p - lo
    BY <1>4, PositionsAreCards
  <1>6. ASSUME NEW p \in own
        PROVE  LET i == rules[p].card IN
               /\ at[p] = i - 1
               /\ IF cards[i].link = 0 THEN NextOf(p) = 0
                  ELSE NextOf(p) \in own /\ rules[NextOf(p)].card = cards[i].link
    <2>1. Count \in Nat \ {0} /\ \A x \in 1..Count : cards[x].link \in 0..Count
      <3>1. \A x \in 1..Count : LinkOf(x) = cards[x].link /\ x \in 0..Count
        BY LinksAre DEF LinkOf, CreationInv
      <3>2. Count \in Nat \ {0} /\ \A x \in 0..Count : LinkOf(x) \in 0..Count
        BY LinksAre DEF CreationInv
      <3> QED BY <3>1, <3>2
    <2>2. PICK i \in 1..Count : p = lo + i - 1
      <3>1. p - lo + 1 \in 1..Count /\ p = lo + (p - lo + 1) - 1
        BY <1>3, <2>1
      <3> QED BY <3>1
    <2>3. rules[p].card = i /\ at[p] = i - 1
      BY <1>3, <1>5, <2>1, <2>2
    <2>4. CASE cards[i].link = 0
      BY <1>3, <2>2, <2>3, <2>4
    <2>5. CASE cards[i].link # 0
      <3>1. PICK j \in 1..Count : j = cards[i].link
        BY <2>1, <2>5
      <3>2. NextOf(p) = lo + j - 1
        BY <1>3, <2>2, <2>5, <3>1
      <3> QED BY <1>3, <2>3, <2>5, <3>1, <3>2
    <2> QED BY <2>4, <2>5
  <1> QED BY <1>4, <1>5, <1>6 DEF ReadsBack

(* The same for every attempt: the property, in every state the two         *)
(* invariants allow.                                                        *)
LEMMA ReadBackFromPlaces == ASSUME CreationInv, BegunSound PROVE ReadBackInOrder
  <1> SUFFICES ASSUME NEW a \in Attempts
               PROVE  LET own == {p \in Own : rules[p].by = a}
                          c   == Component(Min(own))
                          at  == Position(c)
                      IN /\ Count > 1 /\ Cardinality(own) = Count
                         /\ \A q \in Own \ own : {rules[q].dest, rules[q].upstream} \cap own = {}
                         => ReadsBack(own, c, at)
    BY DEF ReadBackInOrder, ReadsBack
  <1> DEFINE own == {p \in Own : rules[p].by = a}
  <1>1. ASSUME Count > 1, Cardinality(own) = Count,
               \A q \in Own \ own : {rules[q].dest, rules[q].upstream} \cap own = {}
        PROVE  Alone(a, att[a].start, own)
    BY <1>1 DEF Alone
  <1> HIDE DEF own
  <1>2. ASSUME Alone(a, att[a].start, own)
        PROVE  ReadsBack(own, Component(Min(own)), Position(Component(Min(own))))
    BY <1>2, AloneReadsBack
  <1> USE DEF own
  <1> QED BY <1>1, <1>2

(* A chain created whole is read back whole, in the order of its cards and  *)
(* with their links, whatever else the wallet's other attempts left, as     *)
(* long as none of that pays into it or watches it: for chains of any       *)
(* length, rings and lines alike (reconstructChainLinks).                   *)
THEOREM ChainsReadBack == Spec => []ReadBackInOrder
  <1>1. CreationInv /\ BegunSound /\ [Next]_vars => BegunSound'
    BY StepSound
  <1>2. Init => BegunSound
    BY SoundStart
  <1>3. CreationInv /\ BegunSound => ReadBackInOrder
    BY ReadBackFromPlaces
  <1> QED BY <1>1, <1>2, <1>3, SpecInv, PTL DEF Spec

=============================================================================
