------------------------------ MODULE RuleHistory -------------------------------
(* The execution history of one rule as the web client shows it             *)
(* (useAutomationFills.ts): a refresh walks the signatures of the rule's    *)
(* account newer than a cursor, decodes their transactions and saves        *)
(* records and cursor together in localStorage.  Remounting the page starts *)
(* a new walker beside one that is still awaiting answers, and both load    *)
(* and save the same entry.                                                 *)
(*                                                                          *)
(* The n-th execution has signature n; other transactions of the account    *)
(* are left out: they carry no record.  A transaction may be fetched and    *)
(* still give none: its logs are missing or the parser throws.  The cache holds one entry per rule, *)
(* saved together; a walker that saves another rule's entry as it was saves *)
(* an older state of it, which here is a save of an older page.             *)
EXTENDS Naturals, FiniteSets

CONSTANTS
  Walkers,   \* refreshes that may be under way together
  PageLimit, \* SIG_PAGE_LIMIT: signatures one request returns
  MaxFires,  \* bound: executions of the rule
  MaxFaults  \* bound: refreshes in which a request or a decoding fails

ASSUME RuleHistoryAssumption ==
  PageLimit \in Nat \ {0} /\ MaxFires \in Nat /\ MaxFaults \in Nat

VARIABLES
  fires,    \* executions on chain
  over,     \* the rule fires no more: finished or closed
  terminal, \* isTerminal of the row in the list: the poll has seen it over
  entry,    \* the saved entry: lastSigSeen and the recorded executions
  walker,   \* each refresh: where it is and what it has in memory
  cut,      \* history: signatures that did not fit a page any more
  mute,     \* history: signatures a cursor passed whose logs gave no record
  faults

historyVars == <<fires, over, terminal, entry, walker, cut, mute, faults>>

Sigs    == 1..MaxFires
Entries == [cursor : 0..MaxFires, seen : SUBSET Sigs]
Fresh   == [cursor |-> 0, seen |-> {}]
Asleep  == [at |-> "idle", copy |-> Fresh]

HistoryTypeOK ==
  /\ fires \in 0..MaxFires /\ over \in BOOLEAN /\ terminal \in BOOLEAN
  /\ entry \in Entries /\ entry.seen \subseteq 1..fires /\ entry.cursor <= fires
  /\ walker \in [Walkers -> [at : {"idle", "walk", "save"}, copy : Entries]]
  /\ cut \subseteq 1..fires /\ mute \subseteq 1..fires /\ faults \in 0..MaxFaults
  /\ terminal => over

HistoryInit ==
  /\ fires = 0 /\ over = FALSE /\ terminal = FALSE
  /\ entry = Fresh /\ walker = [w \in Walkers |-> Asleep]
  /\ cut = {} /\ mute = {} /\ faults = 0

-----------------------------------------------------------------------------
(* The rule fires, finishes with a fire or without one, and the poll of the *)
(* accounts (SavedRules) finds out.                                         *)
Fire ==
  /\ ~ over /\ fires < MaxFires /\ fires' = fires + 1
  /\ over' \in BOOLEAN
  /\ UNCHANGED <<terminal, entry, walker, cut, mute, faults>>

End ==
  /\ ~ over /\ over' = TRUE
  /\ UNCHANGED <<fires, terminal, entry, walker, cut, mute, faults>>

Observe ==
  /\ over /\ ~ terminal /\ terminal' = TRUE
  /\ UNCHANGED <<fires, over, entry, walker, cut, mute, faults>>

(* A refresh begins: the rows and the cache as they are now; a terminal row *)
(* with at least one recorded execution is not walked again.                *)
Start(w) ==
  /\ walker[w].at = "idle" /\ fires > 0
  /\ ~ (terminal /\ entry.seen # {})
  /\ walker' = [walker EXCEPT ![w] = [at |-> "walk", copy |-> entry]]
  /\ UNCHANGED <<fires, over, terminal, entry, cut, mute, faults>>

(* getSignaturesForAddress: the newest PageLimit signatures after the       *)
(* cursor.                                                                  *)
Page(cursor) == {s \in 1..fires : s > cursor /\ s + PageLimit > fires}

(* The cursor stays when a transaction of the page could not be fetched. *)
NextCursor(cursor, lost) == IF lost = {} THEN fires ELSE cursor

(* The transactions of the page are fetched, some of them ("lost") perhaps  *)
(* not, and decoded, some of them ("dumb") to nothing; anyFailed counts the *)
(* lost ones only.  Records whose signature is there already are not added  *)
(* twice.  An empty page, or a failed request, ends the refresh.            *)
Walk(w) ==
  LET had  == walker[w].copy
      page == Page(had.cursor)
  IN
  /\ walker[w].at = "walk"
  /\ \/ \E lost \in SUBSET page : \E dumb \in SUBSET (page \ lost) :
          LET failed == lost \union dumb
              cursor == NextCursor(had.cursor, lost)
              found  == [cursor |-> cursor, seen |-> had.seen \union (page \ failed)]
          IN
          /\ failed # {} => faults < MaxFaults
          /\ faults' = IF failed = {} THEN faults ELSE faults + 1
          /\ walker' = [walker EXCEPT ![w] =
                  IF found = had THEN Asleep ELSE [at |-> "save", copy |-> found]]
          /\ IF cursor = had.cursor THEN UNCHANGED <<cut, mute>>
             ELSE /\ cut' = cut \union {s \in 1..fires : had.cursor < s /\ s \notin page}
                  /\ mute' = mute \union dumb
     \/ /\ faults < MaxFaults /\ faults' = faults + 1
        /\ walker' = [walker EXCEPT ![w] = Asleep] /\ UNCHANGED <<cut, mute>>
  /\ UNCHANGED <<fires, over, terminal, entry>>

(* A mutant: a cursor that another walker has moved on is not set back. *)
Saved_newer(copy) ==
  [copy EXCEPT !.cursor = IF entry.cursor > copy.cursor THEN entry.cursor ELSE copy.cursor]

(* saveCache: the whole entry, whatever has been saved since it was loaded. *)
Saved(copy) == copy

Save(w) ==
  /\ walker[w].at = "save"
  /\ entry' = Saved(walker[w].copy)
  /\ walker' = [walker EXCEPT ![w] = Asleep]
  /\ UNCHANGED <<fires, over, terminal, cut, mute, faults>>

(* The tab is closed or reloaded: what is in memory is gone. *)
ReloadHistory ==
  /\ \E w \in Walkers : walker[w].at # "idle"
  /\ walker' = [w \in Walkers |-> Asleep]
  /\ UNCHANGED <<fires, over, terminal, entry, cut, mute, faults>>

HistoryNext ==
  \/ Fire \/ End \/ Observe \/ ReloadHistory
  \/ \E w \in Walkers : Start(w) \/ Walk(w) \/ Save(w)

HistorySpec == HistoryInit /\ [][HistoryNext]_historyVars

-----------------------------------------------------------------------------
(* The cursor passes no execution that is not recorded - a failed fetch,    *)
(* two walkers that save over each other, a reload between reading and      *)
(* saving lose none of them for ever - but for those beyond a full page and *)
(* those that were fetched and gave no record.                              *)
NothingSkipped ==
  \A s \in 1..entry.cursor : s \in entry.seen \/ s \in cut \/ s \in mute

(* The cursor is not advanced past what was not read: "we'd skip that sig   *)
(* forever otherwise" (useAutomationFills.ts).                              *)
EveryFetchRecorded == \A s \in 1..entry.cursor : s \in entry.seen \/ s \in cut

(* Once a rule is over and its history is not walked again, the history is  *)
(* whole (useAutomationFills.ts: the terminal ones are "exactly the history *)
(* we want to surface").                                                    *)
EveryExecutionShown ==
  terminal /\ entry.seen # {} /\ (\A w \in Walkers : walker[w] = Asleep)
    => 1..fires \subseteq entry.seen
=============================================================================
