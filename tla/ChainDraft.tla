------------------------------- MODULE ChainDraft -------------------------------
(***************************************************************************)
(* LinkedChainBuilder.tsx: the cards of a chain of rules, the link of each *)
(* card and the loop mode, edited by the user until they are saved; and    *)
(* the checks and classifications of linked-chains.ts that read a draft.   *)
(*                                                                         *)
(* Cards are numbered from 1 (the code's index + 1); link 0 is null.  What *)
(* the rule of a card says is abstracted to the two mints of its swap,     *)
(* whether it spends what the previous card delivers and whether its       *)
(* trigger watches the previous card's fill; the loop mode to whether one  *)
(* is set.                                                                 *)
(***************************************************************************)
EXTENDS Integers, Sequences

CONSTANTS
  MaxCards,   \* MAX_CHAIN_LENGTH
  Results,    \* complete rules a card may hold
  Unfilled    \* a card whose rule is incomplete (result null)

ASSUME DraftAssumption ==
  /\ MaxCards \in Nat \ {0}
  /\ \A r \in Results : {r.swap, r.consume, r.relative} \subseteq BOOLEAN
  /\ Unfilled \notin Results

VARIABLES
  cards,    \* the cards, each with its result and its link
  loop,     \* loopMode is set
  asking,   \* pendingBackLink: the card and what Cancel restores; card 0 is null
  cutting   \* pendingKillCascade: the card to cut behind; 0 is null

draftVars == <<cards, loop, asking, cutting>>

Links     == 0..MaxCards
NotAsking == [card |-> 0, link |-> 0, loop |-> FALSE]
NewCard   == [result |-> Unfilled, link |-> 0]

DraftTypeOK ==
  /\ cards \in Seq([result: Results \union {Unfilled}, link: Links])
  /\ Len(cards) \in 1..MaxCards
  /\ loop \in BOOLEAN
  /\ asking \in [card: Links, link: Links, loop: BOOLEAN]
  /\ cutting \in Links

DraftInit ==
  /\ cards = <<NewCard>> /\ loop = FALSE
  /\ asking = NotAsking /\ cutting = 0

-----------------------------------------------------------------------------
(* A modal covers the builder while it waits for an answer. *)
NoModal == asking.card = 0 /\ cutting = 0

BackLink(i) == cards[i].link # 0 /\ cards[i].link <= i

(* The cards up to i, the last of them terminal. *)
CutBehind(i) ==
  cards' = [k \in 1..i |-> IF k = i THEN [cards[k] EXCEPT !.link = 0] ELSE cards[k]]

(* setCardResult *)
SetResult(i, r) ==
  /\ NoModal /\ cards[i].result # r
  /\ cards' = [cards EXCEPT ![i].result = r]
  /\ UNCHANGED <<loop, asking, cutting>>

(* A mutant: a chain of any length is extended. *)
AddCard_uncapped ==
  /\ NoModal
  /\ cards' = Append([cards EXCEPT ![Len(cards)].link = Len(cards) + 1], NewCard)
  /\ UNCHANGED <<loop, asking, cutting>>

(* addNewCard: the last card now links to the new one, whatever it linked   *)
(* to before; the loop mode stays.                                          *)
AddCard ==
  /\ NoModal /\ Len(cards) < MaxCards
  /\ cards' = Append([cards EXCEPT ![Len(cards)].link = Len(cards) + 1], NewCard)
  /\ UNCHANGED <<loop, asking, cutting>>

(* A mutant: the remaining cards keep their links. *)
RemoveCard_unsnapped(i) ==
  /\ NoModal /\ i # 1
  /\ cards' = [k \in 1..Len(cards) - 1 |-> cards[IF k < i THEN k ELSE k + 1]]
  /\ UNCHANGED <<loop, asking, cutting>>

(* removeCardAt: links in the middle snap to the next card; the last card   *)
(* keeps its target when there is still a card of that number.              *)
RemoveCard(i) ==
  LET n       == Len(cards) - 1
      kept(k) == cards[IF k < i THEN k ELSE k + 1]
      link(k) == IF kept(k).link = 0 THEN 0
                 ELSE IF k < n THEN k + 1
                 ELSE IF kept(k).link > n THEN 0 ELSE kept(k).link
  IN /\ NoModal /\ i # 1
     /\ cards' = [k \in 1..n |-> [kept(k) EXCEPT !.link = link(k)]]
     /\ UNCHANGED <<loop, asking, cutting>>

(* stageBackLink: the last card links back, a default loop mode is set and  *)
(* the modal asks for the mode.                                             *)
StageBackLink(t) ==
  LET i == Len(cards) IN
  /\ NoModal
  /\ asking' = [card |-> i, link |-> cards[i].link, loop |-> loop]
  /\ cards' = [cards EXCEPT ![i].link = t]
  /\ loop' = TRUE
  /\ UNCHANGED cutting

(* cancelBackLink *)
CancelBackLink ==
  /\ asking.card # 0
  /\ cards' = [cards EXCEPT ![asking.card].link = asking.link]
  /\ loop' = asking.loop /\ asking' = NotAsking
  /\ UNCHANGED cutting

(* applyBackLinkLoop *)
ApplyBackLink ==
  /\ asking.card # 0
  /\ loop' = TRUE /\ asking' = NotAsking
  /\ UNCHANGED <<cards, cutting>>

(* onClearBackLink of the last card, which has a back-link. *)
ClearBackLink ==
  LET i == Len(cards) IN
  /\ NoModal /\ BackLink(i)
  /\ cards' = [cards EXCEPT ![i].link = 0]
  /\ loop' = FALSE
  /\ UNCHANGED <<asking, cutting>>

(* killLink: a back-link goes with the loop mode; behind a forward link     *)
(* empty cards are cut off at once, filled ones after a question.           *)
KillLink(i) ==
  /\ NoModal /\ cards[i].link # 0
  /\ \/ /\ BackLink(i)
        /\ cards' = [cards EXCEPT ![i].link = 0]
        /\ loop' = FALSE
        /\ UNCHANGED cutting
     \/ /\ ~ BackLink(i)
        /\ IF \A k \in i + 1..Len(cards) : cards[k].result = Unfilled
             THEN CutBehind(i) /\ UNCHANGED cutting
             ELSE cutting' = i /\ UNCHANGED cards
        /\ UNCHANGED loop
  /\ UNCHANGED asking

(* confirmKillCascade: the loop mode goes only with a cut behind card 1. *)
ConfirmCut ==
  /\ cutting # 0
  /\ CutBehind(cutting)
  /\ loop' = (loop /\ cutting # 1) /\ cutting' = 0
  /\ UNCHANGED asking

(* cancelKillCascade *)
CancelCut ==
  /\ cutting # 0 /\ cutting' = 0
  /\ UNCHANGED <<cards, loop, asking>>

DraftNext ==
  \/ \E i \in 1..Len(cards) :
       \/ \E r \in Results \union {Unfilled} : SetResult(i, r)
       \/ RemoveCard(i) \/ KillLink(i) \/ StageBackLink(i)
  \/ AddCard \/ CancelBackLink \/ ApplyBackLink \/ ClearBackLink
  \/ ConfirmCut \/ CancelCut

-----------------------------------------------------------------------------
(* validateChainDraft finds nothing: every rule is a swap, and only a later *)
(* card that spends what the previous one delivers watches its fill.        *)
ValidChainDraft ==
  \A i \in 1..Len(cards) :
    LET r == cards[i].result IN
    r.swap /\ (r.relative => i > 1 /\ r.consume)

(* The draft can be saved as a chain (chainReady): a single card without a  *)
(* loop is saved as a plain rule instead.                                   *)
ChainReady ==
  /\ NoModal /\ (Len(cards) > 1 \/ loop)
  /\ \A i \in 1..Len(cards) : cards[i].result # Unfilled
  /\ ValidChainDraft

(* classifyChainLink of two swaps: what the first delivers is not what the  *)
(* second spends.  (An inverted pair is a case of matching mints.)          *)
BridgeRequired(up, down) == up.out # down.in

(* findCycleNodes: the first walk along the links that never ends has       *)
(* reached its cycle after as many steps as there are cards.                *)
FindCycleNodes ==
  LET n == Len(cards)
      next(i) == IF i \in 1..n THEN cards[i].link ELSE 0
      walk[k \in 0..2 * n] ==
        IF k = 0 THEN [s \in 1..n |-> s] ELSE [s \in 1..n |-> next(walk[k - 1][s])]
      endless == {s \in 1..n : walk[n][s] # 0}
      first   == CHOOSE s \in endless : \A q \in endless : s <= q
  IN IF endless = {} THEN {} ELSE {walk[k][first] : k \in n..2 * n}

-----------------------------------------------------------------------------
(* However the cards were added, cut, removed and linked, the links are the *)
(* ones chain creation counts on: every card but the last links to the next *)
(* one, the last links to no later card, and a chain that closes a cycle    *)
(* always has a loop mode (so no ring is created with the single shots of   *)
(* its cards).                                                              *)
DraftWellLinked ==
  LET n == Len(cards) IN
  /\ \A i \in 1..n - 1 : cards[i].link = i + 1
  /\ cards[n].link <= n
  /\ cards[n].link # 0 => loop

(* A saved chain of several cards with a loop mode closes a cycle           *)
(* (LinkedChainBuilder.tsx on loopMode).                                    *)
LoopClosesCycle == ChainReady /\ loop /\ Len(cards) > 1 => FindCycleNodes # {}
================================================================================
