--------------------------- MODULE BrowserRuntime ---------------------------
(***************************************************************************)
(* The browser side of a wallet operation: the runtimes of several tabs    *)
(* (m3-browser-runtime.ts) that read the vault for a wallet session, have  *)
(* an action reviewed and confirmed (m3-chain-action-flow.ts), hand it to  *)
(* the wallet (chain-wallet.ts), keep the hash it answers in the journal   *)
(* the tabs share (m3-submission-journal.ts), and register it with the     *)
(* backend.                                                                *)
(*                                                                         *)
(* A step is what a tab does between two awaits.  Between two steps the    *)
(* wallet may switch account or chain, tell of it or not, and every other  *)
(* read and confirmation of every tab may go on.                           *)
(***************************************************************************)
EXTENDS Naturals, FiniteSets, Sequences, SequencesExt

CONSTANTS
    Tabs,          \* the runtimes that share one storage
    Accounts,      \* what the wallet can show on the configured chain
    VaultOwner,    \* the account the vault belongs to
    Operations,    \* operation ids: every review makes a new one
    Reads,         \* slots for the reads (connect, refresh) in flight
    VaultCalls,    \* intents (target and calldata) confirmed through the flow
    Deposits,      \* those of them that need the allowances first
    PassTransfers, \* intents on the pass
    Approvals,     \* intents that approve a token: they leave no journal entry
    JournalLimit,  \* 32 entries
    WalletShows,   \* what the wallet may come to show
    None, Nobody, WrongChain

Intents == VaultCalls \cup PassTransfers \cup Approvals
Journaled == VaultCalls \cup PassTransfers

ASSUME BrowserAssumption ==
    /\ VaultOwner \in Accounts
    /\ Deposits \subseteq VaultCalls
    /\ JournalLimit \in Nat \ {0}
    /\ WalletShows \subseteq Accounts \cup {Nobody, WrongChain}
    /\ {None, Nobody, WrongChain} \cap (Accounts \cup Operations \cup Reads) = {}
    /\ None \notin Tabs \cup {Nobody, WrongChain}

VARIABLES
    wallet,   \* the account the provider answers now, or Nobody or WrongChain
    journal,  \* by owner: the operations whose hash waits for its outcome
    backend,  \* the operations the server has registered
    ended,    \* the operations whose evidence has been ready or terminal
    tab,      \* by tab: the state of its runtime and the snapshot it shows
    read,     \* by slot: a read in flight
    op        \* by operation: where its review and its submission are

vars == <<wallet, journal, backend, ended, tab, read, op>>

\* account and open are what the read is about to show.  quiet: no wallet
\* event has met it since it began to listen (kept for the properties).
Idle == [phase |-> "idle", tab |-> None, account |-> None, open |-> FALSE, queue |-> <<>>,
         watch |-> None, quiet |-> FALSE]
Unused == [stage |-> "unused", tab |-> None, owner |-> None, intent |-> None,
           changed |-> FALSE, quiet |-> FALSE]

\* initialSnapshot, and the fields of a runtime just constructed.
Fresh == [session |-> None, flow |-> None, current |-> None, pending |-> None,
          registered |-> {}, status |-> "DISCONNECTED", account |-> None,
          open |-> FALSE]

Statuses == {"DISCONNECTED", "CONNECTING", "CONNECTED", "ACCOUNT_CHANGED", "WRONG_CHAIN"}
Phases == {"idle", "connecting", "opening", "opened", "shown", "restoring", "observing",
           "reading", "asking", "ambiguous", "exit", "publishing"}
Stages == {"unused", "reviewing", "snapshot", "authorizing", "drafting", "reviewed", "confirming",
           "resimulating", "observing", "simulating", "asked", "checking", "registering",
           "kept", "unrecorded", "over"}

TabStates ==
    [session : Accounts \cup {None}, flow : Accounts \cup {None},
     current : Reads \cup {None}, pending : Operations \cup {None},
     registered : SUBSET Operations, status : Statuses,
     account : Accounts \cup {None}, open : BOOLEAN]
ReadStates ==
    [phase : Phases, tab : Tabs \cup {None}, account : Accounts \cup {None}, open : BOOLEAN,
     queue : Seq(Operations), watch : Operations \cup {None}, quiet : BOOLEAN]
OperationStates ==
    [stage : Stages, tab : Tabs \cup {None}, owner : Accounts \cup {None},
     intent : Intents \cup {None}, changed : BOOLEAN, quiet : BOOLEAN]

TypeOK ==
    /\ wallet \in Accounts \cup WalletShows
    /\ journal \in [Accounts -> Seq(Operations)]
    /\ \A a \in Accounts : Len(journal[a]) <= JournalLimit
    /\ backend \subseteq Operations /\ ended \subseteq Operations
    /\ tab \in [Tabs -> TabStates]
    /\ read \in [Reads -> ReadStates]
    /\ op \in [Operations -> OperationStates]

Init ==
    /\ wallet \in Accounts
    /\ journal = [a \in Accounts |-> <<>>]
    /\ backend = {} /\ ended = {}
    /\ tab = [t \in Tabs |-> Fresh]
    /\ read = [r \in Reads |-> Idle]
    /\ op = [o \in Operations |-> Unused]

-----------------------------------------------------------------------------
(* The journal.  read, record and remove run without an await, so each of *)
(* them is one step of the storage all tabs share.                        *)

\* The saved operations s without o, which has one entry (read refuses more).
Without(s, o) ==
    IF \E i \in DOMAIN s : s[i] = o
    THEN RemoveAt(s, CHOOSE i \in DOMAIN s : s[i] = o)
    ELSE s

Saved(a) == ToSet(journal[a])
LastSaved(a) == IF journal[a] = <<>> THEN None ELSE Last(journal[a])

\* assertWritable: no entry for the same target and calldata, and room.
Writable(a, i) ==
    /\ \A o \in Saved(a) : op[o].intent # i
    /\ Len(journal[a]) < JournalLimit

CanRecord(o) == Len(journal[op[o].owner]) < JournalLimit
Record(o) == journal' = [journal EXCEPT ![op[o].owner] = Append(@, o)]
ForgetOldest(o) == journal' = [journal EXCEPT ![op[o].owner] = IF @ = <<>> THEN @ ELSE Tail(@)]
Forget(o) == journal' = [journal EXCEPT ![op[o].owner] = Without(@, o)]

-----------------------------------------------------------------------------
(* The wallet *)

\* Another account, another chain, or locked; the tabs are not told yet.
WalletSwitch ==
    /\ wallet' \in WalletShows \ {wallet}
    /\ UNCHANGED <<journal, backend, ended, tab, read, op>>

\* invalidate: the session and the reviews are gone, nothing may be written.
Closed(s) == [s EXCEPT !.current = None, !.session = None, !.status = "DISCONNECTED",
                       !.account = None, !.open = FALSE]
Over == [Unused EXCEPT !.stage = "over"]
Voided(t, p) == IF p.tab = t /\ p.stage = "reviewed" THEN Over ELSE p
Invalidate(t) ==
    /\ tab' = [tab EXCEPT ![t] = Closed(@)]
    /\ op' = [o \in Operations |-> Voided(t, op[o])]

ListeningBeforeSend == {"authorizing", "observing", "simulating"}
\* The stages in which a submission, or an allowance read, listens.
Listening == {"authorizing", "observing", "simulating", "asked", "checking"}
Noticed(t, p) ==
    IF p.tab # t THEN p
    ELSE [p EXCEPT !.changed = @ \/ p.stage \in Listening, !.quiet = FALSE]

\* accountsChanged, chainChanged or disconnect reaches a tab: the current
\* read is invalidated, and everything that listens learns of it.
WalletEvent(t) ==
    /\ IF tab[t].current # None
       THEN /\ tab' = [tab EXCEPT ![t] = Closed(@)]
            /\ op' = [o \in Operations |-> Noticed(t, Voided(t, op[o]))]
       ELSE /\ op' = [o \in Operations |-> Noticed(t, op[o])]
            /\ UNCHANGED tab
    /\ read' = [r \in Reads |-> IF read[r].tab = t THEN [read[r] EXCEPT !.quiet = FALSE] ELSE read[r]]
    /\ UNCHANGED <<wallet, journal, backend, ended>>

-----------------------------------------------------------------------------
(* Reads: connect and refresh.  The read whose revision is readRevision is *)
(* the tab's current one; one that has been superseded publishes nothing.  *)

AnyRead(r) == read[r].phase # "idle"
IsCurrent(r) == read[r].phase # "idle" /\ tab[read[r].tab].current = r
At(r, phase) == read[r].phase = phase /\ IsCurrent(r)
Go(r, phase) == read' = [read EXCEPT ![r].phase = phase]
Stop(r) == read' = [read EXCEPT ![r] = Idle]

\* The vault's own rights are its owner's; the pass may be shown to anyone
\* once it is verified.
MayOpen(a) == IF a = VaultOwner THEN {TRUE} ELSE BOOLEAN

Begin(t, r, phase, s) ==
    /\ read[r].phase = "idle"
    /\ read' = [read EXCEPT ![r] = [Idle EXCEPT !.phase = phase, !.tab = t, !.quiet = TRUE]]
    /\ tab' = [tab EXCEPT ![t] = [s EXCEPT !.current = r]]
    /\ UNCHANGED <<wallet, journal, backend, ended, op>>

StartConnect(t, r) ==
    Begin(t, r, "connecting",
          [tab[t] EXCEPT !.session = None, !.flow = None, !.status = "CONNECTING",
                         !.account = None, !.open = FALSE])
StartRefresh(t, r) == Begin(t, r, "observing", tab[t])

\* A read that has been superseded: whatever its answer is, it ends.  A
\* registration it had sent may still have reached the backend.
DropSuperseded(r) ==
    /\ read[r].phase # "idle" /\ ~IsCurrent(r)
    /\ Stop(r)
    /\ backend' \in {backend} \cup
          (IF read[r].phase = "asking" THEN {backend \cup {Head(read[r].queue)}} ELSE {})
    /\ UNCHANGED <<wallet, journal, ended, tab, op>>

\* A read that fails closes whatever the tab still holds open.
CloseIfOpen(t, s) ==
    IF tab[t].open \/ s.status = "CONNECTING"
    THEN Invalidate(t)
    ELSE tab' = [tab EXCEPT ![t] = [s EXCEPT !.current = None]] /\ UNCHANGED op

\* The account the wallet answers; on the wrong chain it may be any.
Observed == IF wallet = WrongChain THEN Accounts ELSE {wallet} \cap Accounts

\* The wallet refuses, shows nobody or the wrong chain, or a read of connect
\* fails: the tab shows the failure, with the account it may still observe; a
\* session that was set stays set.
ConnectFails(r) ==
    LET t == read[r].tab
    IN  /\ IsCurrent(r) /\ read[r].phase \in {"connecting", "opening", "opened", "shown", "restoring"}
        /\ Stop(r)
        /\ \E a \in Observed \cup {None} :
              CloseIfOpen(t, [tab[t] EXCEPT !.status = "DISCONNECTED", !.account = a])
        /\ UNCHANGED <<wallet, journal, backend, ended>>

RefreshFails(r) ==
    /\ IsCurrent(r) /\ read[r].phase \in {"observing", "reading", "ambiguous", "publishing"}
    /\ Stop(r)
    /\ CloseIfOpen(read[r].tab, tab[read[r].tab])
    /\ UNCHANGED <<wallet, journal, backend, ended>>

\* eth_requestAccounts and eth_chainId.
ConnectAnswered(r) ==
    /\ At(r, "connecting") /\ wallet \in Accounts
    /\ read' = [read EXCEPT ![r].phase = "opening", ![r].account = wallet]
    /\ UNCHANGED <<wallet, journal, backend, ended, tab, op>>

\* The vault is read, from the index or live, with the balances beside it.
ConnectRead(r) ==
    LET t == read[r].tab
    IN  /\ At(r, "opening")
        /\ Go(r, "opened")
        /\ tab' = [tab EXCEPT ![t].session = read[r].account, ![t].flow = read[r].account]
        /\ UNCHANGED <<wallet, journal, backend, ended, op>>

MatchesUnasked(r) == TRUE
\* publish: the wallet is asked once more before a connection is shown.
Matches(r) == wallet = read[r].account
Mismatch(r) ==
    /\ IsCurrent(r) /\ read[r].phase \in {"opened", "restoring", "ambiguous", "publishing"}
    /\ ~Matches(r)
    /\ Stop(r) /\ Invalidate(read[r].tab)
    /\ UNCHANGED <<wallet, journal, backend, ended>>

Connected(s, r, open) ==
    [s EXCEPT !.status = "CONNECTED", !.account = read[r].account, !.open = open]

\* An operation of another owner is not watched: the last one saved is.
Restored(s, a) ==
    IF s.pending = None \/ op[s.pending].owner # a THEN LastSaved(a) ELSE s.pending
NewestSaved(s, a) == LastSaved(a)
\* refresh keeps the operation of another owner when nothing was saved.
Rediscovered(s, a) == IF LastSaved(a) = None THEN s.pending ELSE Restored(s, a)

PublishConnection(r) ==
    LET t == read[r].tab
    IN  /\ At(r, "opened") /\ Matches(r)
        /\ \E open \in MayOpen(read[r].account) :
              tab' = [tab EXCEPT ![t] = Connected(@, r, open)]
        /\ Go(r, "shown")
        /\ UNCHANGED <<wallet, journal, backend, ended, op>>

\* The operation to watch, and the snapshot to show it with: what the tab
\* shows by now, which a review may have changed.  Nothing is asserted
\* before; what cannot have come between is another connection.
RestoreOperation(r) ==
    LET t == read[r].tab
        p == Restored(tab[t], read[r].account)
    IN  /\ read[r].phase = "shown" /\ tab[t].session \in {None, read[r].account}
        /\ tab' = [tab EXCEPT ![t].pending = p]
        /\ read' = [read EXCEPT ![r].phase = "restoring", ![r].watch = p,
                                ![r].account = tab[t].account, ![r].open = tab[t].open]
        /\ UNCHANGED <<wallet, journal, backend, ended, op>>

\* With an operation to watch, connect goes on as a refresh.
PublishRestored(r) ==
    LET t == read[r].tab
        s == Connected(tab[t], r, read[r].open)
    IN  /\ At(r, "restoring") /\ Matches(r)
        /\ IF read[r].watch # None
           THEN Go(r, "observing") /\ tab' = [tab EXCEPT ![t] = s]
           ELSE Stop(r) /\ tab' = [tab EXCEPT ![t] = [s EXCEPT !.current = None]]
        /\ UNCHANGED <<wallet, journal, backend, ended, op>>

\* refresh asks the wallet who it is.  Nobody, another account and another
\* chain close the tab; without a session it only shows the account.
RefreshClosed(s) ==
    LET closed == [s EXCEPT !.open = FALSE]
        gone == [closed EXCEPT !.session = None]
    IN  CASE wallet = Nobody -> {[gone EXCEPT !.status = "DISCONNECTED", !.account = None]}
          [] s.session # None ->
               {[gone EXCEPT !.status = "ACCOUNT_CHANGED", !.account = a] : a \in Observed \ {s.session}}
               \cup {[closed EXCEPT !.status = "WRONG_CHAIN", !.account = a] : a \in Observed \cap {s.session}}
          [] wallet = WrongChain -> {[closed EXCEPT !.status = "WRONG_CHAIN", !.account = a] : a \in Observed}
          [] OTHER -> {[s EXCEPT !.status = "CONNECTED", !.account = wallet]}

RefreshObserved(r) ==
    LET t == read[r].tab
    IN  /\ At(r, "observing") /\ wallet = tab[t].session
        /\ read' = [read EXCEPT ![r].phase = "reading", ![r].account = wallet]
        /\ UNCHANGED <<wallet, journal, backend, ended, tab, op>>

RefreshFindsChange(r) ==
    LET t == read[r].tab
    IN  /\ At(r, "observing") /\ wallet # tab[t].session
        /\ \/ /\ \E s \in RefreshClosed(tab[t]) : tab' = [tab EXCEPT ![t] = [s EXCEPT !.current = None]]
              /\ UNCHANGED op
           \/ tab[t].session = None /\ wallet \in Accounts /\ Invalidate(t)   \* publish asks again
        /\ Stop(r)
        /\ UNCHANGED <<wallet, journal, backend, ended>>

\* What refresh will ask about: the other saved operations, then the one
\* the tab watches.
RefreshRead(r) ==
    LET t == read[r].tab
        a == read[r].account
        p == Rediscovered(tab[t], a)
        own == p # None /\ op[p].owner = a
        queue == Without(journal[a], p) \o (IF own THEN <<p>> ELSE <<>>)
    IN  /\ At(r, "reading")
        /\ tab' = [tab EXCEPT ![t].pending = p]
        /\ read' = [read EXCEPT ![r].phase = IF queue = <<>> THEN "publishing" ELSE "asking",
                                ![r].queue = queue,
                                ![r].watch = IF own THEN p ELSE None]
        /\ UNCHANGED <<wallet, journal, backend, ended, op>>

\* On to the next operation; after the last one, or once the watched one is
\* answered, the snapshot is published.
Asked(x) ==
    [x EXCEPT !.queue = Tail(@), !.phase = IF Tail(x.queue) = <<>> THEN "publishing" ELSE "asking"]

Register(r) ==
    LET t == read[r].tab
        o == Head(read[r].queue)
    IN  /\ At(r, "asking") /\ o \notin tab[t].registered
        /\ \/ /\ backend' = backend \cup {o}
              /\ tab' = [tab EXCEPT ![t].registered = @ \cup {o}]
              /\ UNCHANGED read
           \/ /\ backend' \in {backend, backend \cup {o}}
              /\ IF o = read[r].watch THEN Go(r, "ambiguous") ELSE read' = [read EXCEPT ![r] = Asked(@)]
              /\ UNCHANGED tab
        /\ UNCHANGED <<wallet, journal, ended, op>>

\* productReady, or REJECTED, REVERTED, REPLACED or DROPPED: the hint goes.
Evidence(o) ==
    \/ Forget(o) /\ ended' = ended \cup {o}
    \/ UNCHANGED <<journal, ended>>

ReadEvidence(r) ==
    LET t == read[r].tab
        o == Head(read[r].queue)
    IN  /\ At(r, "asking") /\ o \in tab[t].registered
        /\ \/ /\ o \in backend
              /\ read' = [read EXCEPT ![r] = Asked(@)]
              /\ Evidence(o)
           \/ /\ IF o = read[r].watch THEN Go(r, "exit") ELSE read' = [read EXCEPT ![r] = Asked(@)]
              /\ UNCHANGED <<journal, ended>>
        /\ UNCHANGED <<wallet, backend, tab, op>>

\* The watched operation could not be registered: that is shown first.
PublishAmbiguous(r) ==
    LET t == read[r].tab
    IN  /\ At(r, "ambiguous") /\ Matches(r)
        /\ \E open \in MayOpen(read[r].account) :
              tab' = [tab EXCEPT ![t] = Connected(@, r, open)]
        /\ Go(r, "exit")
        /\ UNCHANGED <<wallet, journal, backend, ended, op>>

\* Without evidence the vault is read live, so that its owner can leave.
ReadLiveExit(r) ==
    /\ At(r, "exit")
    /\ Go(r, "publishing")
    /\ UNCHANGED <<wallet, journal, backend, ended, tab, op>>

PublishRefresh(r) ==
    LET t == read[r].tab
    IN  /\ At(r, "publishing") /\ Matches(r)
        /\ \E open \in MayOpen(read[r].account) :
              tab' = [tab EXCEPT ![t] = [Connected(@, r, open) EXCEPT !.current = None]]
        /\ Stop(r)
        /\ UNCHANGED <<wallet, journal, backend, ended, op>>

-----------------------------------------------------------------------------
(* Reviews *)

Stage(o, stage) == op' = [op EXCEPT ![o].stage = stage]
\* The listeners are removed.
Heard(o, stage) == op' = [op EXCEPT ![o].stage = stage, ![o].changed = FALSE, ![o].quiet = FALSE]
\* An operation that no tab works on any more: without a known hash nothing
\* is left of it, with one its owner and its intent are.
End(o) == op' = [op EXCEPT ![o] = Over]
Keep(p, stage) == [p EXCEPT !.stage = stage, !.tab = None, !.changed = FALSE, !.quiet = FALSE]
EndWithHash(o, stage) == op' = [op EXCEPT ![o] = Keep(@, stage)]
NeedsAllowance(i) == i \in Deposits \cup Approvals

SessionHolds(o) == wallet = op[o].owner /\ ~op[o].changed

\* M3ChainActionFlow.review prepares the call for the session of the flow.
Draft(o) ==
    /\ tab[op[o].tab].flow # None
    /\ op' = [op EXCEPT ![o].stage = "drafting", ![o].owner = tab[op[o].tab].flow,
                        ![o].changed = FALSE, ![o].quiet = FALSE]

BeginReview(t, o, i) ==
    LET owner == tab[t].session
    IN  /\ op[o].stage = "unused" /\ owner # None
        /\ op' = [op EXCEPT ![o] = [Unused EXCEPT !.stage = "reviewing", !.tab = t,
                                                  !.owner = owner, !.intent = i]]
        /\ UNCHANGED <<wallet, journal, backend, ended, tab, read>>

\* Once the code is verified the canonical snapshot is read, which only the
\* vault's owner gets: for a deposit, with whatever session there is by now.
Session(o) == IF op[o].intent \in Deposits THEN tab[op[o].tab].session ELSE op[o].owner

ReadCanonical(o) ==
    /\ op[o].stage = "reviewing" /\ NeedsAllowance(op[o].intent)
    /\ Session(o) = VaultOwner
    /\ op' = [op EXCEPT ![o].stage = "snapshot", ![o].owner = VaultOwner]
    /\ UNCHANGED <<wallet, journal, backend, ended, tab, read>>

\* Then the allowances are, again for the session of that moment:
\* readM3VaultDepositAuthorization listens, asks the wallet first ...
ReadAllowance(o) ==
    /\ op[o].stage = "snapshot" /\ Session(o) # None /\ wallet = Session(o)
    /\ op' = [op EXCEPT ![o].stage = "authorizing", ![o].owner = Session(o), ![o].quiet = TRUE]
    /\ UNCHANGED <<wallet, journal, backend, ended, tab, read>>

\* ... and last.  Then the review shows a connection again: that of the
\* account it was begun for, or for a deposit that of the session.
ShowAllowance(o) ==
    LET t == op[o].tab
        a == Session(o)
    IN  /\ op[o].stage = "authorizing" /\ SessionHolds(o) /\ a # None
        /\ \E open \in MayOpen(a) :
              tab' = [tab EXCEPT ![t].status = "CONNECTED", ![t].account = a, ![t].open = open]
        /\ IF op[o].intent \in Deposits THEN Draft(o) ELSE Heard(o, "reviewed")
        /\ UNCHANGED <<wallet, journal, backend, ended, read>>

\* A withdrawal or a close is drafted once the code has been verified.
StartDraft(o) ==
    /\ op[o].stage = "reviewing" /\ op[o].intent \in VaultCalls \ Deposits
    /\ Draft(o)
    /\ UNCHANGED <<wallet, journal, backend, ended, tab, read>>

\* A pass transfer asks the wallet before and after its simulation.
FinishReview(o) ==
    /\ \/ op[o].stage = "drafting"
       \/ op[o].stage = "reviewing" /\ op[o].intent \in PassTransfers /\ wallet = op[o].owner
    /\ Stage(o, "reviewed")
    /\ UNCHANGED <<wallet, journal, backend, ended, tab, read>>

-----------------------------------------------------------------------------
(* Confirmation and submission *)

\* A review is taken out of the map before the first await: once.
Confirm(o) ==
    /\ op[o].stage = "reviewed"
    /\ Stage(o, "confirming")
    /\ UNCHANGED <<wallet, journal, backend, ended, tab, read>>

\* M3ChainActionFlow.confirm: still the flow's session, before a new
\* snapshot and simulation.
MatchSession(o) ==
    /\ op[o].stage = "confirming" /\ op[o].intent \in VaultCalls
    /\ tab[op[o].tab].flow = op[o].owner
    /\ Stage(o, "resimulating")
    /\ UNCHANGED <<wallet, journal, backend, ended, tab, read>>

\* Then, without an await, the journal is asked and the wallet begins to
\* listen.
CheckJournal(o) ==
    /\ op[o].stage = IF op[o].intent \in VaultCalls THEN "resimulating" ELSE "confirming"
    /\ op[o].intent \in Journaled => Writable(op[o].owner, op[o].intent)
    /\ op' = [op EXCEPT ![o].stage = "observing", ![o].changed = FALSE, ![o].quiet = TRUE]
    /\ UNCHANGED <<wallet, journal, backend, ended, tab, read>>

Simulate(o) ==
    /\ op[o].stage = "observing" /\ SessionHolds(o)
    /\ Stage(o, "simulating")
    /\ UNCHANGED <<wallet, journal, backend, ended, tab, read>>

\* The wallet is observed once more; beforeSend and eth_sendTransaction.
Send(o) ==
    /\ op[o].stage = "simulating" /\ SessionHolds(o)
    /\ Stage(o, "asked")
    /\ UNCHANGED <<wallet, journal, backend, ended, tab, read>>

\* A review, or a submission before the wallet is asked, fails.
Abandon(o) ==
    /\ op[o].stage \in {"reviewing", "snapshot", "authorizing", "drafting", "confirming", "resimulating",
                       "observing", "simulating"}
    /\ End(o)
    /\ UNCHANGED <<wallet, journal, backend, ended, tab, read>>

\* The user refuses (4001), or nobody knows what became of it; or a hash.
WalletAnswers(o) ==
    /\ op[o].stage = "asked"
    /\ End(o) \/ Stage(o, "checking")
    /\ UNCHANGED <<wallet, journal, backend, ended, tab, read>>

\* The wallet is observed a last time; the hash of an approval is only shown.
ShowApproval(o) ==
    /\ op[o].stage = "checking" /\ op[o].intent \in Approvals
    /\ End(o)
    /\ UNCHANGED <<wallet, journal, backend, ended, tab, read>>

\* #retainSubmission: any other hash is kept before what can fail.  Only an
\* outcome of an unchanged session is SUBMITTED, and registered.
Retain(o) ==
    /\ op[o].stage = "checking" /\ op[o].intent \in Journaled
    /\ tab' = [tab EXCEPT ![op[o].tab].pending = o]
    /\ \/ /\ CanRecord(o) /\ Record(o)
          /\ \/ SessionHolds(o) /\ Heard(o, "registering")
             \/ EndWithHash(o, "kept")
       \/ EndWithHash(o, "unrecorded") /\ UNCHANGED journal   \* it is full, or the storage drops it
    /\ UNCHANGED <<wallet, backend, ended, read>>

RegisterSubmission(o) ==
    /\ op[o].stage = "registering"
    /\ EndWithHash(o, "kept")
    /\ \/ /\ backend' = backend \cup {o}
          /\ tab' = [tab EXCEPT ![op[o].tab].registered = @ \cup {o}]
       \/ backend' \in {backend, backend \cup {o}} /\ UNCHANGED tab
    /\ UNCHANGED <<wallet, journal, ended, read>>

-----------------------------------------------------------------------------
(* The tab is reloaded: everything but the storage and what was already   *)
(* sent is lost.                                                          *)

Left(t, p) ==
    IF p.tab # t THEN p
    ELSE IF p.stage = "registering" THEN Keep(p, "kept") ELSE Over

Reload(t) ==
    /\ tab[t] # Fresh
    /\ tab' = [tab EXCEPT ![t] = Fresh]
    /\ read' = [r \in Reads |-> IF read[r].tab = t THEN Idle ELSE read[r]]
    /\ op' = [o \in Operations |-> Left(t, op[o])]
    /\ UNCHANGED <<wallet, journal, backend, ended>>

-----------------------------------------------------------------------------
(* The specification *)

ReadStep(r) ==
    \/ \E t \in Tabs : StartConnect(t, r) \/ StartRefresh(t, r)
    \/ ConnectAnswered(r) \/ ConnectRead(r) \/ PublishConnection(r) \/ RestoreOperation(r) \/ PublishRestored(r)
    \/ RefreshObserved(r) \/ RefreshFindsChange(r) \/ RefreshRead(r) \/ Register(r) \/ ReadEvidence(r)
    \/ PublishAmbiguous(r) \/ ReadLiveExit(r) \/ PublishRefresh(r)
    \/ ConnectFails(r) \/ RefreshFails(r) \/ Mismatch(r) \/ DropSuperseded(r)

OperationStep(o) ==
    \/ \E t \in Tabs, i \in Intents : BeginReview(t, o, i)
    \/ ReadCanonical(o) \/ ReadAllowance(o) \/ ShowAllowance(o) \/ StartDraft(o) \/ FinishReview(o)
    \/ Confirm(o) \/ MatchSession(o) \/ CheckJournal(o) \/ Simulate(o) \/ Send(o) \/ WalletAnswers(o)
    \/ ShowApproval(o) \/ Retain(o) \/ RegisterSubmission(o) \/ Abandon(o)

Next ==
    \/ WalletSwitch
    \/ \E t \in Tabs : WalletEvent(t) \/ Reload(t)
    \/ \E r \in Reads : ReadStep(r)
    \/ \E o \in Operations : OperationStep(o)

Spec == Init /\ [][Next]_vars

-----------------------------------------------------------------------------
(* Properties *)

\* A hash that a tab has written down is found again by every tab, after
\* any reload, until the evidence of its operation has been ready or
\* terminal: no other tab's record or remove takes it away.
KnownHashIsKept ==
    \A o \in Operations :
       op[o].stage \in {"registering", "kept"} => o \in Saved(op[o].owner) \cup ended

\* The operation a tab watches (for a later reorganization, too) gives way
\* to no older one: only a newer submission of the tab, another session or
\* a reload replaces it (refresh and connect, m3-browser-runtime.ts:814).
WatchedOperationStays ==
    [][\A t \in Tabs :
          LET p == tab[t].pending
          IN  p # None /\ tab'[t].pending # p =>
                 \/ tab'[t] = Fresh
                 \/ tab'[t].pending # None /\ op[tab'[t].pending].stage = "checking"
                 \/ op[p].owner # tab[t].session]_vars

\* A connection shown by a read is the wallet's own at that moment, and no
\* wallet event has reached the tab since that read began, not even one
\* that came and went while it waited for the vault.
ReadsShowTheWallet ==
    [][\A r \in Reads :
          LET t == read[r].tab
          IN  /\ read[r].phase # "idle"
              /\ read'[r] # read[r]
              /\ tab'[t].open /\ tab'[t] # tab[t]
              /\ <<tab'[t].account, tab'[t].open>> # <<tab[t].account, tab[t].open>>
              => read[r].quiet /\ tab'[t].account = wallet]_vars

\* A read that has been superseded neither overwrites nor ends a newer
\* connection: the session of a tab, and the status and the account it
\* shows, change only by its current read, by a wallet event that closes
\* them, by a review that shows its own account, or by a reload.
Shown(s) == <<s.session, s.status, s.account, s.open>>
ConnectionStands ==
    [][\A t \in Tabs : Shown(tab'[t]) # Shown(tab[t]) =>
          \/ tab'[t] = Fresh
          \/ \E r \in Reads :
                r \in {tab[t].current, tab'[t].current} /\ read'[r].phase # read[r].phase
          \/ /\ tab[t].current # None /\ tab'[t] = Closed(tab[t])
             /\ \A r \in Reads : read'[r].phase = read[r].phase
          \/ \E o \in Operations :
                op[o].tab = t /\ op[o].stage = "authorizing" /\ op'[o].stage # "authorizing"]_vars

\* An operation is SUBMITTED, never merely ambiguous, only if no wallet
\* event has come between the journal's consent and the wallet's answer:
\* an account that leaves and returns is noticed.
SubmittedInOneSession ==
    [][\A o \in Operations :
          /\ op[o].stage = "checking"
          /\ op'[o].stage = "registering"
          => op[o].quiet /\ wallet = op[o].owner]_vars

\* The wallet is never asked for an action that a known, unresolved
\* submission of the same owner has asked for already ("a known unresolved
\* deposit cannot be resent", m3-browser-runtime.test.ts:1401).
KnownIntentIsNotResent ==
    [][\A o \in Operations :
          op[o].stage = "simulating" /\ op'[o].stage = "asked" /\ op[o].intent \in Journaled
             => \A p \in Saved(op[o].owner) : op[p].intent # op[o].intent]_vars
=============================================================================
