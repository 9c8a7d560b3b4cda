------------------------------- MODULE SavedRules -------------------------------
(* The list of rules the web client shows and keeps in localStorage, one    *)
(* bucket per wallet (AutomationWorkspace.tsx, automations.ts), against the *)
(* accounts on chain: hydration when a wallet connects                      *)
(* (on-chain-automations.ts), the ten-second poll of the listed accounts    *)
(* (useOnChainAutomationSync.ts), and the creates and closes in between     *)
(* (close-automation.ts).  Every one of them awaits the network and then    *)
(* writes into whatever list is shown by then.                              *)
(*                                                                          *)
(* A row is told apart by its rule (the pubkey) and by where its id comes   *)
(* from: made by this client, or read from the chain.  Run counters, the    *)
(* pause flag (no instruction goes with it) and texts are left out, and an  *)
(* account that was just confirmed is assumed to be readable.               *)
EXTENDS Naturals, FiniteSets

CONSTANTS
  Wallets,     \* the wallets connected in turn in one browser
  NoWallet,    \* none is connected
  Chains,      \* the rules, as sets of siblings created and closed together
  OwnerOf,     \* the wallet that creates a chain
  Existing,    \* the chains that were created before the page was opened
  MaxSwitches, \* bound: wallet changes and page reloads
  MaxErrors,   \* bound: transactions that land with an error
  MaxEvents    \* bound: rules that finish, or are closed from elsewhere

Rules == UNION Chains
ChainOf(r) == CHOOSE c \in Chains : r \in c
Owner(r) == OwnerOf[ChainOf(r)]

ASSUME SavedRulesAssumption ==
  /\ NoWallet \notin Wallets
  /\ \A c, d \in Chains : c # d => c \cap d = {}
  /\ OwnerOf \in [Chains -> Wallets] /\ Existing \subseteq Chains
  /\ MaxSwitches \in Nat /\ MaxErrors \in Nat /\ MaxEvents \in Nat

Ids  == Rules \X {"made", "read"}
Rows == [done : BOOLEAN, closed : BOOLEAN]
Lists == UNION {[S -> Rows] : S \in SUBSET Ids}
Nothing == [x \in {} |-> x]
Terminal(row) == row.done \/ row.closed
Live == [done |-> FALSE, closed |-> FALSE]

VARIABLES
  chain,     \* the account of each rule: absent, open, finished or gone, or
             \* void: its create has landed with an error (bound: a retry
             \* then takes another number, another rule of the model)
  minting,   \* chains whose create transaction is on its way
  closing,   \* rules whose close transaction is on its way
  wallet,    \* the connected wallet
  owner,     \* automationsOwner: the wallet whose rows are shown
  list,      \* automations: the rows shown
  saved,     \* localStorage, one list per wallet
  hydration, \* fetchOwnedOnChainAutomations, cancelled by a wallet change
  sync,      \* the accounts a poll has read and not yet patched in
  create,    \* the deposit sheet: a create, from sending to its row
  close,     \* handleDelete or executeCascade: rows still to be closed
  misled,    \* history: rules whose failed close was taken for a success, until
             \* a hydration has corrected the last row that says so
  switches, errors, events

onChain == <<chain, minting, closing, errors, events>>
page    == <<wallet, owner, list, saved, switches>>
tasks   == <<hydration, sync, create, close>>
vars    == <<onChain, page, tasks, misled>>

Idle     == [at |-> "idle", view |-> Nothing]
NoCreate == [at |-> "idle", of |-> {}]
NoClose  == [at |-> "idle", by |-> NoWallet, todo |-> Nothing, now |-> {}]

TypeOK ==
  /\ chain \in [Rules -> {"absent", "void", "open", "finished", "gone"}]
  /\ minting \subseteq Chains /\ closing \subseteq Rules
  /\ wallet \in Wallets \union {NoWallet} /\ owner \in Wallets \union {NoWallet}
  /\ list \in Lists /\ saved \in [Wallets -> Lists]
  /\ hydration.at \in {"idle", "asked", "got"}
  /\ hydration.view \in UNION {[S -> BOOLEAN] : S \in SUBSET Rules}
  /\ sync.at \in {"idle", "got"}
  /\ sync.view \in UNION {[S -> {"open", "finished", "gone"}] : S \in SUBSET Ids}
  /\ create.at \in {"idle", "sent", "confirmed"} /\ create.of \in Chains \union {{}}
  /\ close.at \in {"idle", "next", "sent"} /\ close.by \in Wallets \union {NoWallet}
  /\ close.todo \in UNION {[S -> BOOLEAN] : S \in SUBSET Ids}
  /\ close.now \subseteq DOMAIN close.todo /\ (close.at = "sent" <=> close.now # {})
  /\ misled \subseteq Rules
  /\ switches \in 0..MaxSwitches /\ errors \in 0..MaxErrors /\ events \in 0..MaxEvents
  /\ owner = NoWallet => hydration = Idle

Init ==
  /\ chain = [r \in Rules |-> IF ChainOf(r) \in Existing THEN "open" ELSE "absent"]
  /\ minting = {} /\ closing = {} /\ errors = 0 /\ events = 0
  /\ wallet = NoWallet /\ owner = NoWallet /\ list = Nothing /\ switches = 0
  /\ saved = [w \in Wallets |->
                [i \in {i \in Ids : i[2] = "made" /\ Owner(i[1]) = w
                                    /\ ChainOf(i[1]) \in Existing} |-> Live]]
  /\ hydration = Idle /\ sync = Idle /\ create = NoCreate /\ close = NoClose
  /\ misled = {}

-----------------------------------------------------------------------------
(* A mutant: the effect saves under the connected wallet whatever is shown. *)
MaySave_always == wallet # NoWallet

(* The save effect writes only when the rows shown are the wallet's, and    *)
(* nothing without a wallet.                                                *)
MaySave == wallet # NoWallet /\ owner = wallet

(* setAutomations, with the save effect that follows it. *)
Show(rows) ==
  /\ list' = rows
  /\ saved' = IF MaySave THEN [saved EXCEPT ![wallet] = rows] ELSE saved
  /\ UNCHANGED <<wallet, owner, switches>>

Without(rows, id) == [i \in DOMAIN rows \ {id} |-> rows[i]]

-----------------------------------------------------------------------------
(* The wallet adapter connects, switches or disconnects: the page renders   *)
(* with the new wallet, and the rows and tasks of the last one are still    *)
(* there.                                                                   *)
Switch(w) ==
  /\ switches < MaxSwitches /\ w # wallet
  /\ wallet' = w /\ switches' = switches + 1
  /\ UNCHANGED <<onChain, owner, list, saved, tasks, misled>>

(* The page is reloaded: the transactions that went out are not called back *)
(* and nothing awaits their answers any more.                               *)
Reload ==
  /\ switches < MaxSwitches
  /\ wallet' = NoWallet /\ owner' = NoWallet /\ list' = Nothing
  /\ switches' = switches + 1
  /\ hydration' = Idle /\ sync' = Idle /\ create' = NoCreate /\ close' = NoClose
  /\ UNCHANGED <<onChain, saved, misled>>

(* A mutant: a disconnect does not cancel the hydration. *)
Hydrating_on(w) == IF w = NoWallet THEN hydration ELSE [at |-> "asked", view |-> Nothing]

(* The hydration under way once wallet w is the one connected. *)
Hydrating(w) == IF w = NoWallet THEN Idle ELSE [at |-> "asked", view |-> Nothing]

(* The load effect: the rows of the wallet come from localStorage, the      *)
(* hydration of the last wallet is cancelled and a new one is asked for.    *)
Load ==
  /\ owner # wallet
  /\ owner' = wallet
  /\ list' = IF wallet = NoWallet THEN Nothing ELSE saved[wallet]
  /\ hydration' = Hydrating(wallet)
  /\ UNCHANGED <<onChain, wallet, saved, switches, sync, create, close, misled>>

(* The rows automationFromOnChain makes of a wallet's accounts: executed if *)
(* the account is finished.                                                 *)
FromChain(w) ==
  LET mine == {r \in Rules : Owner(r) = w /\ chain[r] \in {"open", "finished"}}
  IN [r \in mine |-> chain[r] = "finished"]

(* The accounts of the owner, or an error that is logged. *)
HydrateRead ==
  /\ hydration.at = "asked"
  /\ hydration' \in {Idle, [at |-> "got", view |-> FromChain(owner)]}
  /\ UNCHANGED <<onChain, page, sync, create, close, misled>>

MergedId(rows, r) ==
  IF <<r, "made">> \in DOMAIN rows /\ <<r, "read">> \notin DOMAIN rows
  THEN <<r, "made">> ELSE <<r, "read">>

(* mergeOnChainAutomations: one row for each account; what the chain says   *)
(* of a rule wins, rows it does not know are kept.  Two rows of a rule the  *)
(* chain does not know are taken for a local row and its account.           *)
Merge(rows, view) ==
  LET rules == {i[1] : i \in DOMAIN rows} \union DOMAIN view IN
  [i \in {MergedId(rows, r) : r \in rules} |->
     IF i[1] \in DOMAIN view THEN [done |-> view[i[1]], closed |-> FALSE]
     ELSE IF {i[1]} \X {"made", "read"} \subseteq DOMAIN rows
          THEN [done |-> rows[<<i[1], "made">>].done, closed |-> FALSE]
          ELSE rows[i]]

(* A row shown or saved anywhere says that the rule is closed, or a delete *)
(* of it is under way.                                                     *)
Believed(r) ==
  \/ \E i \in DOMAIN list : i[1] = r /\ list[i].closed
  \/ \E w \in Wallets : \E i \in DOMAIN saved[w] : i[1] = r /\ saved[w][i].closed
  \/ \E i \in DOMAIN close.todo : i[1] = r

Hydrate ==
  /\ hydration.at = "got"
  /\ Show(Merge(list, hydration.view))
  /\ hydration' = Idle
  /\ UNCHANGED <<onChain, sync, create, close>>
  /\ misled' = misled \ {r \in DOMAIN hydration.view : ~ Believed(r)'}

-----------------------------------------------------------------------------
(* A mutant: rows that were read from the chain are taken to be up to date. *)
Polled_made(rows) == {i \in DOMAIN rows : i[2] = "made" /\ ~ Terminal(rows[i])}

(* The rows a poll asks for: funded and not terminal. *)
Polled(rows) == {i \in DOMAIN rows : ~ Terminal(rows[i])}

(* fetchMultiple answers; a missing account is a null. *)
SyncRead ==
  /\ sync.at = "idle" /\ Polled(list) # {}
  /\ sync' = [at |-> "got",
              view |-> [i \in Polled(list) |->
                IF chain[i[1]] \in {"open", "finished"} THEN chain[i[1]] ELSE "gone"]]
  /\ UNCHANGED <<onChain, page, hydration, create, close, misled>>

(* patchAutomation for each answer whose row is still shown. *)
Sync ==
  /\ sync.at = "got"
  /\ Show([i \in DOMAIN list |->
       IF i \notin DOMAIN sync.view THEN list[i]
       ELSE [done   |-> list[i].done   \/ sync.view[i] = "finished",
             closed |-> list[i].closed \/ sync.view[i] = "gone"]])
  /\ sync' = Idle
  /\ UNCHANGED <<onChain, hydration, create, close, misled>>

-----------------------------------------------------------------------------
(* The sheet is confirmed: the create transaction of a rule, or of a chain, *)
(* is sent (ChainCreation has the several transactions of a chain).         *)
Create(c) ==
  /\ create = NoCreate /\ wallet = OwnerOf[c] /\ owner = wallet
  /\ c \notin minting /\ \A r \in c : chain[r] = "absent"
  /\ create' = [at |-> "sent", of |-> c]
  /\ minting' = minting \union {c}
  /\ UNCHANGED <<chain, closing, errors, events, page, hydration, sync, close, misled>>

(* confirmTransaction returns when the transaction has landed, also with an *)
(* error; the result carries the derived address then.                      *)
CreateConfirmed ==
  /\ create.at = "sent" /\ create.of \notin minting
  /\ create' = [create EXCEPT !.at = "confirmed"]
  /\ UNCHANGED <<onChain, page, hydration, sync, close, misled>>

(* A lost connection or an expired transaction: the sheet shows an error    *)
(* and nothing is recorded.                                                 *)
CreateFails ==
  /\ create.at = "sent"
  /\ \/ minting' = minting \ {create.of}
     \/ UNCHANGED minting
  /\ create' = NoCreate
  /\ UNCHANGED <<chain, closing, errors, events, page, hydration, sync, close, misled>>

(* The sidecar call is over: the new rows go on top of the list shown now.  *)
Record ==
  /\ create.at = "confirmed"
  /\ LET made == create.of \X {"made"} IN
     Show([i \in DOMAIN list \union made |-> IF i \in made THEN Live ELSE list[i]])
  /\ create' = NoCreate
  /\ UNCHANGED <<onChain, hydration, sync, close, misled>>

-----------------------------------------------------------------------------
Siblings(id) == {i \in DOMAIN list : ChainOf(i[1]) = ChainOf(id[1]) /\ i[2] = id[2]}

(* Delete on a row, confirmed for the whole chain if it has one; what the   *)
(* rows are at this moment decides how each of them is closed later (bound: *)
(* one such cascade at a time).                                             *)
Delete(id) ==
  /\ close = NoClose
  /\ close' = [at |-> "next", by |-> wallet,
               todo |-> [i \in Siblings(id) |-> list[i].closed], now |-> {}]
  /\ UNCHANGED <<onChain, page, hydration, sync, create, misled>>

Rest(id) == LET left == Without(close.todo, id) IN
  IF DOMAIN left = {} THEN NoClose ELSE [close EXCEPT !.at = "next", !.todo = left, !.now = {}]

(* handleDelete of a row that is already closed history only removes it. *)
ToRemove(id) == close.todo[id]

(* Already closed when the button was pressed: the row goes, nothing else.  *)
Remove(id) ==
  /\ close.at = "next" /\ id \in DOMAIN close.todo /\ ToRemove(id)
  /\ Show(Without(list, id))
  /\ close' = Rest(id)
  /\ UNCHANGED <<onChain, hydration, sync, create, misled>>

(* getAccountInfo finds no account: the row is an orphan and goes. *)
Orphaned(id) ==
  /\ close.at = "next" /\ id \in DOMAIN close.todo /\ ~ ToRemove(id)
  /\ chain[id[1]] \notin {"open", "finished"}
  /\ Show(Without(list, id))
  /\ close' = Rest(id)
  /\ UNCHANGED <<onChain, hydration, sync, create, misled>>

(* The close is signed and sent; only the owner gets past the preflight.    *)
Send(id) ==
  /\ close.at = "next" /\ id \in DOMAIN close.todo /\ ~ ToRemove(id)
  /\ wallet = close.by /\ Owner(id[1]) = wallet
  /\ chain[id[1]] \in {"open", "finished"} /\ id[1] \notin closing
  /\ closing' = closing \union {id[1]}
  /\ close' = [close EXCEPT !.at = "sent", !.now = {id}]
  /\ UNCHANGED <<chain, minting, errors, events, page, hydration, sync, create, misled>>

(* The wallet refuses, the preflight or a call fails: the cascade goes on   *)
(* with the next row.                                                       *)
SendFails(id) ==
  /\ close.at = "next" /\ id \in DOMAIN close.todo /\ ~ ToRemove(id)
  /\ close' = Rest(id)
  /\ UNCHANGED <<onChain, page, hydration, sync, create, misled>>

(* confirmTransaction has returned: the row is closed history, whether the  *)
(* transaction succeeded or landed with an error.                           *)
Closed(id) ==
  /\ close.at = "sent" /\ id \in close.now /\ id[1] \notin closing
  /\ Show([i \in DOMAIN list |-> IF i = id THEN [list[i] EXCEPT !.closed = TRUE] ELSE list[i]])
  /\ misled' = IF chain[id[1]] = "gone" THEN misled ELSE misled \union {id[1]}
  /\ close' = Rest(id)
  /\ UNCHANGED <<onChain, hydration, sync, create>>

(* confirmTransaction throws: the transaction has expired, or only its      *)
(* answer is lost and it may still land.                                    *)
CloseFails(id) ==
  /\ close.at = "sent" /\ id \in close.now
  /\ \/ closing' = closing \ {id[1]}
     \/ UNCHANGED closing
  /\ close' = Rest(id)
  /\ UNCHANGED <<chain, minting, errors, events, page, hydration, sync, create, misled>>

-----------------------------------------------------------------------------
(* A create or a close lands, with an error (bounded) or without one. *)
Mint(c) ==
  /\ c \in minting /\ minting' = minting \ {c}
  /\ \/ /\ chain' = [r \in Rules |-> IF r \in c THEN "open" ELSE chain[r]]
        /\ UNCHANGED errors
     \/ /\ errors < MaxErrors /\ errors' = errors + 1
        /\ chain' = [r \in Rules |-> IF r \in c THEN "void" ELSE chain[r]]
  /\ UNCHANGED <<closing, events, page, tasks, misled>>

Refund(r) ==
  /\ r \in closing /\ closing' = closing \ {r}
  /\ \/ /\ chain' = [chain EXCEPT ![r] = "gone"]
        /\ UNCHANGED errors
     \/ /\ errors < MaxErrors \/ chain[r] = "gone"
        /\ errors' = IF chain[r] = "gone" THEN errors ELSE errors + 1
        /\ UNCHANGED chain
  /\ UNCHANGED <<minting, events, page, tasks, misled>>

(* The keeper fires a rule for the last time, or the rule expires. *)
Finish(r) ==
  /\ events < MaxEvents /\ events' = events + 1
  /\ chain[r] = "open" /\ chain' = [chain EXCEPT ![r] = "finished"]
  /\ UNCHANGED <<minting, closing, errors, page, tasks, misled>>

(* The account is closed from elsewhere: another device, the wind-down. *)
CloseElsewhere(r) ==
  /\ events < MaxEvents /\ events' = events + 1
  /\ chain[r] \in {"open", "finished"} /\ chain' = [chain EXCEPT ![r] = "gone"]
  /\ UNCHANGED <<minting, closing, errors, page, tasks, misled>>

Closing(id) ==
  \/ Remove(id) \/ Orphaned(id) \/ Send(id) \/ SendFails(id) \/ Closed(id) \/ CloseFails(id)

Next ==
  \/ \E w \in Wallets \union {NoWallet} : Switch(w)
  \/ Reload \/ Load \/ HydrateRead \/ Hydrate \/ SyncRead \/ Sync
  \/ CreateConfirmed \/ CreateFails \/ Record
  \/ \E c \in Chains : Create(c) \/ Mint(c)
  \/ \E id \in DOMAIN list : Delete(id)
  \/ \E id \in Ids : Closing(id)
  \/ \E r \in Rules : Refund(r) \/ Finish(r) \/ CloseElsewhere(r)

Spec == Init /\ [][Next]_vars

(* Effects run, timers fire and calls answer.  Nobody has to press a        *)
(* button, and nothing on chain has to happen.                              *)
FairSpec ==
  /\ Spec
  /\ WF_vars(Load) /\ WF_vars(HydrateRead) /\ WF_vars(Hydrate)
  /\ WF_vars(SyncRead) /\ WF_vars(Sync)

-----------------------------------------------------------------------------
(* A row in localStorage whose account still holds a deposit is dropped by  *)
(* no save: not by a wallet that connects while another's rows are shown,   *)
(* not by a delete decided on a row that has changed since, not by a merge  *)
(* with what the chain said earlier.  Excepted are rules whose close the    *)
(* client wrongly believes.                                                 *)
OpenRulesStaySaved ==
  [][\A w \in Wallets, r \in Rules :
       chain[r] \in {"open", "finished"} /\ r \notin misled
         /\ (\E i \in DOMAIN saved[w] : i[1] = r)
       => \E i \in DOMAIN saved'[w] : i[1] = r]_vars

(* Whatever the order in which hydrations, polls, creates and closes        *)
(* answered, in the end a row is shown as over exactly if its rule is:      *)
(* executed or without an account.                                          *)
RowsSettle ==
  <>[](\A i \in DOMAIN list : i[1] \notin misled =>
         (Terminal(list[i]) <=> chain[i[1]] # "open"))

(* A row shown as closed has nothing left on chain (AutomationWorkspace.tsx:*)
(* "On-chain close succeeded - keep the record as terminal history").       *)
ClosedRowsHoldNothing ==
  \A i \in DOMAIN list : list[i].closed => chain[i[1]] \notin {"open", "finished"}

(* A wallet's bucket has only its own rules (AutomationWorkspace.tsx: "Local*)
(* strategies are scoped per connected wallet").                            *)
SavedPerWallet == \A w \in Wallets : \A i \in DOMAIN saved[w] : Owner(i[1]) = w
=============================================================================
