# AlphaForge: TLA+ models, checks and proofs

This directory holds the formal models of AlphaForge: what its contracts, its
chain indexer, its server process, its browser clients and its local ledger do, step by
step, what must be true of them, small instances that TLC checks completely, and theorems that TLAPS checks for
every value of the constants.

Every definition is translated from the source of the repository (paths below are
relative to it); `PROJECT.json` names the lines each one stands for, the property
each run checks and, for every property, a plausible bug of the code that would
break it.

To check one model: `tlc -config SyncTakeover.cfg MCChainSync.tla`.  To check the
proofs: `tlapm M.tla` for each module `M` whose name ends in `Proofs`; each takes a minute or so.

## 1. Inventory of the system

AlphaForge lets the owner of a Strategy Pass put AF-USDC to work in a vault of
their own.  It has a chain side (contracts, and a backend that indexes them) and a
local side (a simulated ledger behind an HTTP server); a web client talks to both.

| Component | Source | State it keeps | Operations | What makes it hard |
|---|---|---|---|---|
| Vault and Pass locker | `contracts/src/AlphaForgeVault.sol`, `PassLocker.sol` | principal, tracked AF-USDC and positions, their count, closed; accounted Pass | deposit, withdraw, close, rescue; lock, unlock | profit and principal are told apart anew in every withdrawal; anybody may send tokens to it; after a loss it owes more than it holds |
| Settlement model of the contract tests | `contracts/test/harness/AlphaForgeVaultHarness.sol` | none of its own | profit, loss, open, settle | reaches the accounting that the production contract has but never calls |
| Operation lifecycle | `packages/chain-adapter/src/lifecycle.ts` | one operation's state and evidence | transitionOperation | a closed table of transitions with evidence per state |
| Chain store | `apps/server/src/chain-store.ts` | blocks, events, checkpoint, projections, health, target, lease, operations (SQLite) | claim, record, commit, rollback, release, mark, save | transactions of several writers; a crash between any two of them |
| Chain synchronizer | `apps/server/src/chain-sync.ts` | where it is in a pass | syncToHead, syncTo, trackOperation | awaits an RPC answer between any two transactions, while the chain reorganizes and others take its lease |
| Chain runtime | `apps/server/src/m3-chain-runtime.ts`, `m3-runtime-lifecycle.ts`, `m3-startup.ts` | a cursor over operations, the last attempt and head, a queue and a timer | bounded passes of two contracts, registering submissions, caughtUp, start and stop | one pass for both contracts; operations that never settle beside others; stopping while a pass runs; a restart forgets the cursor |
| Contract integrations | `apps/server/src/m3-vault-integration.ts`, `m3-pass-integration.ts`, `packages/chain-adapter/src/reconciliation.ts` | none | reconcile an operation with its event and the contract's state | a failed read counts as a mismatch |
| RPC client | `packages/chain-adapter/src/rpc.ts` | none that matters | block, receipt, logs, call | answers come from endpoints on different heads |
| Local ledger | `packages/domain/src/vault.ts`, `apps/server/src/store.ts`, `simulation.ts` | the accounts of a simulated vault, receipts, events, revision | fourteen commands in one transaction each | retries, stale revisions, fees and settlement arithmetic |
| Test venue and swap adapter | `contracts/src/AlphaForgeTestVenue.sol`, `AlphaForgeSwapAdapter.sol` | reserves of two pairs; what both hold | addLiquidity, swap, the adapter's swap | rounding; two pairs share one AF-USDC balance; tokens left in the adapter |
| Tokens, intent preview | `contracts/src/StrategyPass.sol`, `AlphaForgeTestAsset.sol`, `VaultIntentPreview.sol`, ... | balances | transfer; a pure digest | |
| Local client | `apps/web/src/product-client.ts`, `product-adapter.ts`, `api.ts`; the sessions and the command route of `apps/server/src/app.ts` | one pending command in local storage, a session cookie, per tab a view and flags | prepare, command, retry, load, select identity, dismiss | an answer that is lost or late, tabs that share storage and a session |
| Wallet, action flow, submission journal | `apps/web/src/chain-wallet.ts`, `m3-chain-action-flow.ts`, `m3-submission-journal.ts` | the flow's session, pending submissions in local storage | review, confirm, submit, record, remove | the wallet's account changes between check and send; tabs share a journal |
| Browser runtime | `apps/web/src/m3-browser-runtime.ts`, `m3-vault-allowance.ts` | session, revision of the current read, reviews, the operation it watches, the snapshot it shows | connect, refresh, review, confirm, recover | reads overlap and supersede each other; wallet events arrive in any await |
| Browser runtime set | `apps/web/src/m3-browser-runtime-set.ts` | the selected vault and its generation | selectVault, the runtime's calls | another vault is selected while a review waits |
| HTTP servers, manifests, ABI, UI, governance tools | `apps/server/src/*-routes.ts`, `packages/chain-adapter/src/manifest.ts`, ... | none beyond the above | validation and presentation | |

How they interact:

- the owner's wallet calls the **vault**; the vault calls its **locker**; the tokens
  know neither;
- the **synchronizer** reads the vault's chain through the **RPC client**, a call at a
  time, and writes what it read to the **store**, a transaction at a time; every
  writing transaction checks that the synchronizer still owns the lease;
- a browser reports a transaction hash to the **runtime**, which registers an
  **operation**; a completed pass of the synchronizer looks for its receipt, its
  event and the contract's state, and moves it through the **lifecycle**; a rollback
  of the store moves it back;
- the **browser runtime** reads the vault for the account its wallet shows, lets the owner
  review and confirm an action, asks the **wallet** to send it, keeps the hash in the
  **journal** that all tabs share, registers it with the backend's runtime, and asks for its
  evidence until it is ready or over;
- the **local client** sends commands with an id and a revision to the **local ledger**,
  stores each before it is sent, and sends the same command again when an answer was lost;
- traders swap at the **venue**, directly or through the **adapter**; the vault does not
  call them.

What makes each part correct:

- *vault*: the Pass it locks matches its principal, all it accounts for is held, profit
  leaves first, open positions freeze the principal, and the exit is never blocked;
- *store and synchronizer*: the canonical blocks are one chain, the projection is
  readable only when it is complete, only the owner of the lease writes, and the
  index catches up with the chain;
- *operations*: confirmed means confirmed on the indexed chain with the required depth
  and evidence, stands as long as its block does, and comes in the end;
- *browser*: what is shown is the wallet's account, an overtaken read changes nothing, a
  submission is called SUBMITTED only within one session, and a known hash is not lost;
- *server process*: what it reports as caught up can be read, no operation is starved by
  another, and once stopped it does nothing more;
- *local client*: a command it sent is forgotten only when it is applied or refused for good (or
  answered as not found, section 6), and a confirmed one is shown;
- *venue*: reserves are held, a pair's product never falls, the adapter keeps nothing and
  gives nothing away;
- *local ledger*: money adds up, status follows what is at stake, every command is
  applied once or never.

`PROJECT.json` lists the hazards of each part at the line where they bite, with the
properties that would catch them.

## 2. Modules

| Module | Models | Uses |
|---|---|---|
| `AlphaForgeVault` | vault, locker, tokens, and the settlement model of the tests | |
| `VaultDeployments` | which of the two contracts is deployed: the vault, or the tests' harness over it | `AlphaForgeVault` |
| `AlphaForgeTestVenue` | the venue's two pairs and the swap adapter | |
| `OperationLifecycle` | the transition table and the evidence transitions keep (pure) | |
| `ChainStore` | the store: its state and one operator per transaction | `OperationLifecycle` |
| `ChainSync` | the chain, any number of synchronizers on one store, browsers' reports | `ChainStore` |
| `ChainRuntime` | one server process: its queue and timer, passes over two contracts, the choice of operations | `ChainSync` |
| `VaultAccounts` | the accounts of the local ledger: one action per command | |
| `CommandHistory` | abstract: what the ledger promises about requests sent again | |
| `LocalLedger` | requests, receipts, events and revision around `VaultAccounts`; implements `CommandHistory` and `VaultAccounts` | both |
| `LocalClient` | the tabs of a browser before the ledger: one stored command, one cookie, late requests | `LocalLedger` |
| `BrowserRuntime` | tabs with their reads, reviews and submissions, the wallet, the shared journal | |
| `MC...` | small instances for TLC | the module they are named for |
| `AlphaForgeVaultProofs` | theorems about the vault and its two deployments | `VaultDeployments` |
| `ChainSyncProofs` | theorems about the store under any number of synchronizers | `ChainSync` |
| `ChainRuntimeProofs` | theorems about the process around one synchronizer | `ChainRuntime`, `ChainSyncProofs` |
| `LocalLedgerProofs` | theorems about the ledger | `LocalLedger`, `VaultAccountsProofs` |
| `LocalClientProofs` | theorems about the tabs before it | `LocalClient`, `LocalLedgerProofs` |
| `AlphaForgeTestVenueProofs`, `VaultAccountsProofs`, `BrowserRuntimeProofs` | theorems | the module they are named for |

### AlphaForgeVault and VaultDeployments

The variables are the contract's storage (`principalBasis`, `trackedUsdcBalance`,
`trackedPosition`, `openTrackedPositionCount`, `closed`, and the locker's
`lockedBalance`) and the balances of all tokens, because the properties relate
the vault's own accounting to what it holds.  A transaction of the EVM is atomic, so a
call is one action; every `require`, and every overflow of checked arithmetic, is a
conjunct of its guard, and a call that would revert is no step.

`Spec` is the production contract.  `SettlementSpec` adds the harness of the contract
tests, which books profits, losses and positions; in production nothing reaches that
accounting, and `PlainCustody` says so.  `Trade` and `SendStray` are everybody else:
tokens may arrive at the vault or at the locker at any time without it being told.
`VaultDeployments` has both in one state space, told apart by `harness`, which never
changes: the properties of the accounting are checked of the two, and
`ProductionIsPlainCustody` of the production vault.

### AlphaForgeTestVenue

`reserves` is `pairReserves`; `holdings` is what the traders, the venue and the adapter
hold of each token, since the venue's reserves are book entries beside its balances, and
both pairs keep their AF-USDC in one balance.  A swap has the guards of `_quote` and
the transfers' exactness; a call that reverts is no step.  The adapter's swap is one
transaction over both contracts, so one action with four transfers.  `SendUnasked` is a
plain transfer to either contract.  The deadline only makes late calls revert and is
left out.

### ChainStore and ChainSync

An operator of `ChainStore` is one SQLite transaction: what it requires and what it
writes.  Where the code throws, the transaction rolls back, and the operator is false.

An action of `ChainSync` is **the code between two awaits** of a synchronizer: it takes
the answer of one RPC call, as the chain stands at that moment, and then runs the store
transactions up to the next call.  Several transactions in one step are safe to merge
because all of them require the lease (`#assertSyncOwner`): nobody else can write in
between, and a takeover in between is the same as one before the step or after the
first transaction, when the rest of the step would fail as it does in the model.

- `proc[p].pc` names the answer a synchronizer awaits; `head`, `goal`, `hand`,
  `candidate`, `todo` and `tracked` are its local variables across awaits.
- One synchronization at a time runs in a synchronizer, and each takes a fresh
  random token, so the synchronizer itself stands for its current token.  A lease left
  by a crashed pass belongs to nobody who is running; the synchronizer's next pass
  claims before it writes, so the two are not told apart.
- The chain is a constant finite forest of blocks (`Parent`, `Height`, `Logs`,
  `Reverts`) and a variable head `remote`.  `Advance` extends it; `Jump` moves it
  anywhere else: a reorganization, or an answer of an endpoint that lags.  The two are
  one to a client that cannot tell them apart.
- Logs are requested by number, so `LogsAnswered` is that of whatever block the
  endpoint has there, or nothing.
- `Fault` is a failed RPC call or the death of the process (`Abort`): at any await the
  pass stops with the store as it stands.  Failures that the code handles
  (`ProjectionFails`, `ReceiptFails`, `Reconcile`) are actions of their own.
- `Submit` is a browser's report; `Decide` the backend's record of a replaced or
  dropped transaction.  `OpClaim` says whose transaction a report really names.

### ChainRuntime

One process and its one synchronizer, in the steps of `ChainSync`, inside what
`m3-startup.ts` builds around it.

- `queue` is `createM3RuntimeLifecycle`'s `tail`: whoever asked for a pass (the startup, the
  timer, another caller), in order; the first one's runs.  When it ends (`Ends`), the
  startup and the timer's own call set `timer` again unless the server is `closed`.
- A pass (`#syncToHead`) synchronizes the vault's rows (`SyncVault`: `ChainSync`'s steps), then
  the Pass contract's, and only when both have reached the head tracks operations.  The
  Pass contract's synchronizer is the same code on rows of its own, so here its whole pass
  is one step, between the vault's last one and the choice of operations (pc `"batch"`),
  with its three endings: it reaches the head (`SyncPass`), is cut short (`PassLags`) or
  fails (`PassFails`).  A vault pass that is cut short still runs it, and may fail with it.
- `Batch` is `trackableOperationIds`: at most `MaxTracked` of the trackable operations,
  those after the cursor first.  The cursor is moved when the batch is chosen rather than
  after its last operation; nothing reads it in between, and a crash forgets it either way.
- `Crash` ends the process at any await; it starts anew with a pass of its own, an empty
  cursor and no last attempt, over the rows it left.  `StopServer` is `stop`.
- `CaughtUp` is `caughtUp`, the readiness the server reports.

### BrowserRuntime

Again an action is the code between two awaits; here everything that runs concurrently
is a promise of some tab: a read (`connect`, `refresh`) or an operation (a review and the
submission it may become).

- `tab[t]` is a runtime: `session`, the flow's own session `flow`, `pending` (the operation
  it watches), `registered`, and of the snapshot it shows who is connected (`status`,
  `account`) and whether writing or a Pass transfer is offered (`open`).  `current` is the
  read whose revision is `readRevision`; a read that is not current stops at its next
  `assertCurrent` (`DropSuperseded`).
- `read[r]` is a read in flight: `phase` names what it waits for.  `connect` publishes twice:
  the connection (`PublishConnection`, then phase `"shown"`), and after that the snapshot shown by
  then, with the operation to watch (`RestoreOperation`, phase `"restoring"`, and `PublishRestored`).
  That snapshot is captured before the wallet is asked about its address, and published as
  captured: a review that has shown something else before it is kept, one after it is
  overwritten.  `Mismatch` is `publish` finding another wallet; `WalletEvent` is `invalidate`, and what tells the listeners of
  submissions and allowance reads that the session has changed.
- `op[o]` is an operation, and `stage` where it is: reviewed, confirmed, checked against
  the journal, simulated, sent, answered, kept.  A deposit's review uses the session of the moment
  at each of its awaits (the canonical snapshot, `ReadCanonical`; the allowances, `ReadAllowance`; what it
  shows, `ShowAllowance`), an approval's the one it began with (`Session`).  `Abandon` is any failure
  before the send.
- `wallet` is what the provider answers.  It may change without an event, and an event
  may come without a change.  The account and the chain, two calls in the code, are
  read in one step.
- `Reload` ends everything a tab had in memory; the journal and the backend remain.
- The journal's rows are valid ones.  A row that is refused, a full journal and a storage that
  drops a write are one outcome, `unrecorded`.

### VaultAccounts, LocalLedger and CommandHistory

`VaultAccounts` is the pure transition of `vault.ts`: one action per command with the
guard of its `ensure` calls, then `Leaves`, the status normalisation every command
ends with, and `Fits`, the range every amount is written in.  `assertInvariant`, which
the code runs on every result and which would refuse the command, is **not** a guard: it
is what `AccountsBalance` and `HistoryMatches` check, so the runs show that it never
refuses.  `ServerAccounts` uses the settlement policy of the server, `AnyPolicyAccounts`
any policy within the bounds the domain imposes on one.

`LocalLedger` adds what a request carries (an id and the revision its client had read)
and what the ledger keeps (receipts, events, revision).  `Receive` is the whole of
`store.command`, one transaction; any request may arrive at any time and any number
of times, which is how lost answers, retries, several clients and delays appear.
Refused requests change nothing and are no step; a known one is answered from its
receipt (`AnswerAgain`).  `CommandHistory` is the promise behind it: one growing
sequence of requests, each applied at the revision it names, never two with one id.
The mapping is `applied <- Applied`, the fingerprints in the order of the events.

### LocalClient

Here an action is again the code between two awaits, of some tab.

- `stored` is the one pending command in the browser's local storage, with the rejection
  recorded with it; `cookie` the browser's session; both are shared by all tabs.  `tab[t]`
  is a `ProductClient`: `pc` names the answer it awaits, `user`, `revision`, `needsRefresh` and
  `rejectionRefreshed` are its state, `as` the owner its load is for (`expectedUserId`) and
  `next` what follows the load.
- A load is two requests, the session's and the snapshot's (`ReadSession`, `ReadSnapshot`), and
  the code after them (`TakeSnapshot`), where a retry finds its command in the audit or posts
  it again, and a served command is read back before it is confirmed.
- `ServeCommand` runs the whole of `LocalLedger`'s transaction.  A tab that gives up after its
  ten seconds, or is reloaded, leaves its request in `late`, and it may arrive at any later
  moment, as often as the ledger lets it (`ArrivesLate`); an answer may be lost likewise.
- `SessionEnds` is an expired session or a restarted server; `SelectIdentity` replaces the
  session of the whole browser, and its answer, with the new cookie, comes later or never.
- `OtherClient` is everybody else who sends commands to the vault.
- `fate` is a history variable: for each command of this browser what the user was told of it.

## 3. Runs

| Run | Question | States |
|---|---|---|
| `vault_deployments` | Do principal, Pass, profit and positions stay in line through profits, losses and closes, with strangers sending every kind of token, is the exit always open, and is the production vault plain custody? | 616,248 |
| `venue_swaps` | Do swaps in both directions, through the adapter or not, ever lower a pair's product, spend what is not reserved, or pay out what others left? | 28,335 |
| `sync_takeover` | Two synchronizers take the lease from each other and track an operation while the chain forks twice: is the store one chain, complete whenever it reads healthy, and is a conclusion of an overtaken pass ever saved? | 3,046,500 |
| `operations_settle` | A server from start to stop, with a jump of the head, perhaps to a chain it cannot repair its rows for, and a crash or failed call: where it can, does the index catch up and is the genuine operation settled, and only that; is what it calls caught up readable, and does it stop for good? | 896,278 |
| `ledger_any_policy` | Under any policy with fees, do the accounts add up, does the status follow what is at stake, and does the server's own policy keep a vault without a position within its allowance? | 132,961 |
| `ledger_retries` | Is every request applied once or never, and is a rejection final? | 2,377 |
| `ledger_client` | Two tabs, one stored command, lost and late requests, sessions that change: does the browser know what became of its commands, and show what it confirms? | 632,186 |
| `session_reads` | Overlapping reads beside a submission, a wallet that goes elsewhere and returns, and tabs that share a journal: is what is shown the wallet's, does it stand, is a known hash kept, and is the operation watched the newest? | 1,326,123 |
| `missing_logs`, `fault_erased`, `shallow_ready`, `resent_intent` | the findings of section 6 | |

### Bounds, and why they are enough

- **Vault.**  `Scale = 2`, `MaxUint = 5`, supplies of at most 4 and amounts 1 to 3.
  Amounts matter only by comparison with profit, principal, balances and
  `MaxUint \div Scale`; with these values there are amounts below, at and above each of
  them, overflow of the conversion included (3 * 2 > 5).  Two position assets make the
  count of positions differ from a flag.  Every kind of token may arrive at the vault, and
  Pass at the locker too.
- **Venue.**  Supplies of 7, 4 and 2 and amounts 0 to 3: both pairs get liquidity, quotes round
  down to zero and to less than the exact price, and both pairs' AF-USDC is traded in both
  directions.  The theorems cover all other numbers.
- **Synchronization and tracking.**  `ForkBlocks` has two forks of two blocks above a common
  deployment block and a chain that shares nothing with them; one transaction, that of the
  tracked operation, succeeds on one fork and reverts on the other, and a second one
  has another log index and payload there, so the operation is confirmed, displaced,
  reverted or mined again.  With `ReorgSearchLimit = 2` the search for a common ancestor succeeds,
  or ends without one on the chain that shares nothing (the other fault, a search that runs
  out, is met by `fault_erased`); `MaxBlocksPerSync = 2` makes passes partial.  The chain starts with one whole
  fork, and `MaxJumps = 2` lets it leave that and come back, or leave twice, within one pass or across
  several.
  Hazards of ordering need one more actor than the victim, so two synchronizers; they
  are alike, hence the symmetry.  `MaxFaults = 1`, one of the two disturbances that `MaxDisturbances`
  admits, is a failed call or a dead process; one that dies under a pass and does not come back is also
  one that takes no further step while the other one goes on.
- **Server.**  A block above which there are three forks of one block, with `MaxBlocksPerSync = 1`, so a
  pass is cut short and several are needed.  Two of the forks have the same event with different payloads,
  so a jump from one to the other is a conflict, the third has none and is repaired; a fourth
  chain has no ancestor in common with the others and is lower, so the search ends without one and
  a started target is refused.  A fork deeper than the search limit does not fit in here; `fault_erased` has
  it.  There are two reports of one transaction with `MaxTracked = 1`, the one with other calldata
  first, which stays trackable for good; one jump, one fault (a crash, a failed call, a Pass
  contract that lags) and one extra call of `syncNow` at any moment.  No symmetry is used, since there
  are liveness properties.  Deadlock is not checked: a stopped server on a chain that is done really stops.
- **Ledger.**  `MaxInteger` 4 or 5 with amounts up to it reaches the refusal of
  overflow; `Allowance = 2` lies between.  Marks and proceeds range over all amounts, so
  gains, losses and total losses occur.  The server's policy is checked as one command
  from every state that any policy can reach, which is more than the server's own states.
  The history run stops at `HistoryLimit = 6`, with one id more than that, so the
  limit itself and a fresh id after it are reached; six commands are enough for a
  withdrawal requested and confirmed around another one, and for a position opened
  and settled.  Its ids are interchangeable, hence the symmetry.

- **Local client.**  Two tabs, two commands of their own and one of another client, two sessions
  (alice's and one more): enough for a retry in one tab to overlap a confirmation, a dismissal or
  another command in the other, and for an identity to change and change back.  `HistoryLimit =
  3` admits all three commands.  The tabs and their ids are interchangeable, hence the
  symmetry.
- **Browser.**  Two tabs, two reads, three operations, two accounts, another chain and a journal of
  two entries are together more than TLC can check, so `Bounds` (`MCBrowserRuntime`) lets a browser do one of
  three things, and a state outside all of them is not followed.  *One operation*: one tab, two reads
  (the least that can supersede each other) while the wallet goes to another account or chain and
  returns, and a deposit, a Pass transfer or an approval; the two reads overlap until a deposit is drafted and
  after its end, one read overlaps all of any operation.  *Shared journal*: two tabs of the owner with two
  withdrawals, two things at a time: each tab's refresh may resolve its own or the other's entry, before or after
  a reload, and an older entry may stay beside the one watched or behind one that has left the
  journal.  *Full journal*: beside an entry of the first withdrawal, two transfers that both found room
  for one more, of which one stays `unrecorded`.  Wallet changes beside a second operation, and two reads in
  different tabs at once, are left to the theorems, which have no bounds.  `resent_intent` has an
  instance of its own: two tabs, one read, and two operations of one intent.

`MaxJumps`, `MaxFaults`, `MaxDisturbances` (the two together), `MaxEvidenceBlocks`, `HistoryLimit` and the sets of amounts are
constants, so each bound is visible in a `.cfg`.  `MaxEvidenceBlocks` and `HistoryLimit` are the
code's own limits; the others bound the environment only.

### Fairness

`RuntimeSpec` assumes that the chain goes on growing (`WF(Advance)`), that a pass that has
begun or is due takes its next step (`WF(PassStep)`: an RPC call is answered or runs into
its timeout, `rpc.ts`, `AbortSignal.timeout`), and that a timer that is set fires
(`WF(TimerFires)`).  That the next pass comes is not assumed but follows from the queue and the timer as the
code sets them.  Weak fairness suffices since an enabled step stays enabled until it is
taken.  Nothing is assumed of faults, jumps, reports, decisions, callers and stopping; the first two are
bounded by `MaxFaults` and `MaxJumps`, so after the last of them the server is on its own.
Both liveness properties are about a chain that is in the end `Repairable`: the code promises nothing else.  A
reorganization deeper than `ReorgSearchLimit`, one without a common ancestor, and an event that returns with
another payload stop the synchronization until somebody repairs the database, or the chain goes back
(`docs/M3-CHAIN-ADAPTER.md:104, 106`: fails closed, manual recovery); and a head lower than a
target that a pass already asked for is refused until the chain has grown.  In the instance the
first of the four cannot occur, and each of the others does: without its part of `Repairable` TLC finds `CatchesUp`
violated.  `OperationsSettle` asks in addition that the chain includes the operation's transaction deep
enough (`DeepEnough`), since nothing else can confirm it.

`CatchesUp` and `OperationsSettle` are about one process: a claim always takes the lease, so two
of them could supersede each other forever, and the code has nothing against it (it is
listed as a hazard).

## 4. Properties

The comments in the modules state each property; the ones that carry the most:

- `ProductionIsPlainCustody`, `DustUntouched`: what strangers send never becomes profit or capacity;
- `LockMatchesPrincipal`, `PassFollowsPrincipal`: the Pass behind the principal, at rest
  and in every step; `ObligationsFunded`; `ExitNeverBlocked` and `WithdrawableIsHonest`,
  which compare a view, and the promise of an exit, with all that the call, the locker and the
  tokens require of it (`WithdrawAccepted`, `CloseAccepted`);
- `HealthyIsComplete`, `CanonicalPath`, `OnlyTheOwnerWrites`, `TargetsAreKept`: what a reader
  of the index relies on while passes fail, overtake each other and rewind;
- `ConfirmedAtDepth`, `ConfirmationStandsWithItsBlock`, `ReconciledIsProved`: when an
  operation is confirmed, how long, and whose it is;
- `CatchesUp`, `OperationsSettle`: progress of the server, through crashes, passes that are cut short and
  operations that never settle, on a chain whose reorganizations the code repairs by itself; `CaughtUpIsReadable`: its readiness is not claimed from parts of
  different passes; `StopIsFinal`: no pass and no timer outlives a stop;
- `ReservesCovered`, `ProductNeverFalls`, `AdapterPaysOnlyItsSwap`: two pairs in one balance, rounding,
  and what is left in the adapter;
- `FateIsKnown`: a command that was sent is stored, or confirmed and in the ledger, or
  refused and never in it; `ConfirmedIsShown`: the tab that confirms it shows the vault with it;
- `AccountsBalance`, `StatusMatchesExposure`, `StaysWithinAllowance`: money and risk in the simulated
  vault;
- `ReadsShowTheWallet`, `ConnectionStands`: what a read shows is the wallet's account of that
  moment, untouched since the read began, and the session, status, account and rights shown stand against
  reads that were overtaken; `SubmittedInOneSession`: an account that leaves and returns while the owner confirms is
  noticed; `KnownHashIsKept`, `WatchedOperationStays`: recovery, with other tabs and older entries in
  the same journal;
- `AppliesEachOnce`, `RejectionIsFinal`, `RunsTheAccounts`: what a client that retries may
  rely on.  The last one is also why a new withdrawal never overwrites a pending one,
  although both are kept under command ids.

## 5. Proofs

Every property that a passing run checks is also a theorem, except the two that are about
liveness.  The theorems hold for every value of the constants that satisfies the named
assumptions:

| Assumption | Says | Because |
|---|---|---|
| `DistinctAssets`, `NumericBounds` | different tokens are different, supplies fit in a word | constructor checks; ERC-20 supplies |
| `TokensAreMinted` | supplies and trade sizes are natural numbers | unsigned integers |
| `AmountsAreNatural`, `OrdersAreFinite` | amounts are natural, ids finitely many | `unsigned()` in `vault.ts` |
| `CommandsAreWellFormed`, `ClientConstants` | requests have the fields of their kind; some ids are this browser's | the route's validation; `randomUUID` |
| `ChainIsAForest`, `LogsHavePositions` | a block's parent is one lower; a log has one place in its block | hashes of headers and receipts |
| `TransactionsRunOnce` | on one chain a transaction is in one block at most | nonces of accounts |
| `PolicyIsPositive`, `OwnersAreTokens`, `OpsAreReported`, `RuntimeConstants` | limits are positive, lease tokens are no null, one server, operations are ordered | `m3-startup.ts`, the store's columns |
| `BrowserAssumption` | placeholders are no accounts, tabs or operations; the journal has room | shape of the model |

- **`AlphaForgeVaultProofs`**: types, `LockMatchesPrincipal`, `ObligationsFunded`,
  `PositionCountExact`, and the action properties `ProfitLeavesFirst`,
  `OpenPositionsFreezeCapacity`, `PassFollowsPrincipal`, `DustUntouched` for the vault with its settlement
  model, `PlainCustody` for production, and both carried over to `VaultDeployments`, whose every
  behaviour is one of the vault with the settlement model.  They rest on one inductive invariant:
  none of them is inductive alone, since a withdrawal keeps balances natural only
  because obligations are funded, pays back the right Pass only because the lock
  matches, and leaves the positions alone only because they are counted.
  `WithdrawableIsHonest` and `ExitNeverBlocked` follow from that invariant: the view's bound implies
  each further guard of `withdraw` only because the lock matches and obligations are funded.
- **`AlphaForgeTestVenueProofs`**: types, `ReservesCovered`, `ProductNeverFalls` and
  `AdapterPaysOnlyItsSwap`, for any supply and any amounts.  The invariant is the types
  together with `ReservesCovered`: a swap leaves its token's balance natural because the reserve it
  pays from is held.  `ProductNeverFalls` rests on lemmas of rounded division and its
  nonlinear arithmetic, which is proved step by step.
- **`ChainSyncProofs`**, for any forest of blocks, any bounds and any number of synchronizers.
  Every step is first reduced to its effect on the store (`Effect`: a claim, a record, a commit, a
  rollback, a mark, a release, a completion, a saved or reported operation, or none), then each
  conjunct of the invariant is followed through the effects that touch it.  `IInv` adds to the
  properties what a pass in flight knows (`PassInv`): what it has in hand is consistent with where
  it is, and as long as it owns the lease the target is its own and the block in hand is the next
  one; without it a commit of another fork's block could not be excluded.  `LeaseInv` says that
  a lease without an owner has no target either.  `EvidenceInv` says of a pass that reconciles an
  operation that the receipt's block was recorded and includes the transaction, and that the event
  it found is of a genuine claim.  On these rest types, `CanonicalPath`, `HealthyIsComplete`,
  `EventsOnCanonicalBlocks`, `ReceiptsOnCanonicalBlocks`, `ConfirmedIsReady`, `OnlyTheOwnerWrites`,
  `TargetsAreKept`, `ConfirmationStandsWithItsBlock`, `ConfirmedAtDepth`, and `BindingInv`, the part of
  `ReconciledIsProved` that any number of synchronizers keep.  Facts of chains (`ChainBelow`,
  `OneBlockPerHeight`, `ABlockAtEveryHeight`) are proved by a least counterexample.
- **`ChainRuntimeProofs`**: every step of the server is one of its synchronizer or leaves the store
  alone, so it keeps all of the above (`ServerKeepsTheStore`).  Alone on its database it has more:
  `ReconciledIsProved`, and `ServerConfirms`, `ConfirmedAtDepth` without its exception; `ServerInv` says
  that the operation a pass tracks is still as it read it.  `StopIsFinal` rests on what the queue and the
  timer hold after `closed` (`StopInv`), `CaughtUpIsReadable` on `ReportInv`: a pass reaches
  the operations only once the rows are healthy, and a report that says so stands only until the next
  pass begins to work on them.
- **`VaultAccountsProofs`**: types, `AccountsBalance` and `StatusMatchesExposure`, for any
  settlement policy, and `StaysWithinAllowance`.  The invariant joins types, fees and status:
  paying fees leaves cash natural only because fees are covered, and a stopped vault
  has nothing to fill or cancel only because its status is true to its orders.  The sums over orders and
  withdrawals are those of the community modules' `SumFunction`; that they unfold, do not
  depend on the order, and change by one entry's change is proved by induction over the subsets of
  the domain (`SubsetInduction`).  `ServerRunsTheAccounts` carries all over to the server's policy.
- **`LocalLedgerProofs`**: the ledger implements `CommandHistory` (`EachRequestOnce`) and
  `ServerAccounts` (`LedgerRunsAccounts`), its history has no gap (`HistoryIsOne`), a
  rejection is final (`RejectionStands`), and it keeps its types.  `HistoryInv` adds to `HistoryMatches` that
  the receipt of an id is that id's own request; `LedgerInv` adds that a pending
  withdrawal has the id of a command with a receipt.
- **`LocalClientProofs`**: for any number of tabs, ids and sessions, `FateIsKnown` and
  `ConfirmedIsShown`, types, and that tabs before the ledger implement the ledger (`TabsUseTheLedger`).
  `ClientInv` says of every tab, stored command and late copy that it carries the one request its
  id was given, what each answer in a tab's hand says of the ledger, and that what a tab reads to confirm
  a command is from after it.
- **`BrowserRuntimeProofs`**: for any number of tabs, reads and operations, types,
  `KnownHashIsKept`, `WatchedOperationStays`, `ReadsShowTheWallet`, `ConnectionStands` and
  `SubmittedInOneSession`.  `BrowserInv` says of a tab's current read that no wallet event has met it and its
  session is its account's; of an operation that listens, that it has noticed any event there was; and of a
  journal that it has no entry twice and only hashes written down.  An entry leaves the journal by
  `Without`, which says what `filter` does to entries that are unique.  A read in phase `"restoring"` is not
  among those that know their session's account: it carries what a review may have shown.  `WatchedInv` adds
  that a watched operation is one whose hash the wallet answered, which `WatchedOperationStays` rests on: no
  review that is just beginning can be the one watched.

The invariants were checked by TLC on the instances of the runs before they were proved.  The types, and
`HistoryMatches`, are proved, so no run repeats them.

Only model-checked: `CatchesUp` and `OperationsSettle`, liveness under fairness, which is out of the
prover's reach; and `ReconciledIsProved` in full for several synchronizers is not claimed at all.

## 6. Where code and documentation disagree

Four runs end in a counterexample, the first three to a sentence of
`docs/M3-CHAIN-ADAPTER.md`:

- `missing_logs` (`EventsComplete`): a block and its logs are read in two calls, by number.
  When the second is answered where the contract has no log at that number, the block
  is indexed as complete without its events, and never read again.  The document says
  a replay would reconstruct the canonical events.
- `fault_erased` (`FaultPersists`): the document says that an unrecoverable reorganization
  persists its fault until manual recovery; the next pass of the timer claims the
  row and replaces the fault, and completes if the chain has come back.
- `shallow_ready` (`ReadyIsDeepEnough`): the document says that CONFIRMED includes the
  soft-readiness depth; a pass that began on the lower head of a lagging endpoint and
  then meets a reorganization completes on a shorter chain, on which an operation
  below the fork is ready without that depth.
- `resent_intent` (`KnownIntentIsNotResent`): the calibration note of 2026-09-22 and a test's
  name say that an action with a known, unresolved submission is not sent again.  The journal is
  asked before the wallet's awaits and written after them, so two confirmations that
  overlap both pass, and the second is sent while the first is in the journal.

One more disagreement is visible in `LocalClient` and has no run of its own.  A comment in
`product-client.ts` (`send`) says that only a definitive rejection of the command itself releases
it.  A retry that goes out after another tab has exchanged the cookie for another identity's is
answered 404 (`VAULT_NOT_FOUND`), which counts as one, although an earlier copy of the command
may have been applied; after returning to the first identity and a refresh the user may dismiss it.  In
the model such a command ends with the outcome `"notFound"`, and `FateIsKnown` claims nothing of it.

Another one came out of the proof of `ConfirmedAtDepth`.  `docs/M3-CHAIN-ADAPTER.md` says that backend
CONFIRMED includes the configured depth on the canonical receipt.  `saveOperationAtCheckpoint`
(`chain-store.ts:1319`) takes an operation for unchanged when its value is, and `trackOperation`
counts confirmations from the receipt it fetched, not from the operation's block.  With two synchronizers
and a chain that leaves a fork and returns, an operation may be displaced and mined again on its old block
while a pass still reconciles it by a lower block of the other fork: it is then confirmed with that block's
depth, one or more too few.  TLC finds this with two forks of two blocks that have the
transaction at different heights, and `MaxJumps = 3`.  The property excepts exactly this case (another,
displaced block with the transaction, lower than the operation's own); without it, it is a theorem of
one server (`ServerConfirmsAtDepth`), which is how the product is run.

## 7. Not modelled, and why

- Encoding, hashing, ABI, manifests, response parsing, SQL, migrations, backup: pure
  functions or I/O; their results appear as members of small sets.
- Times, gas, error codes and messages: no decision of the modelled parts depends on
  them beyond success and failure.
- The rows of the Pass contract (another instance of the same synchronizer; only how its
  pass ends is modelled), several runtimes in one queue, and the check of the deployed code
  at a runtime's first pass.
- The selection among several vaults in the browser (`m3-browser-runtime-set.ts`): a set in front of
  a runtime multiplies the states of `session_reads` beyond what can be checked.
- `recordReplacement` and `recordDropped` of a second process: they read and write in one synchronous
  stretch, and nothing but tests calls them; they are one action (`Decide`).
- Claiming a vault and choosing among several in the local client; the validation of the fields of an
  answer.
- What a tab displays of a transaction and of balances.
- Administrative recovery of a database file, and tampering with it.
- The security model (`src/security-model`): a reference model that only its own tests use, pure
  validation and an in-memory set of nonces in one synchronous call each.
- The governance, dashboard, publication and CI tools (`tools/`, `docs/management`), which are most of
  the repository's lines, and the HTML prototype: not part of the running system.

## 8. Plan

Done: the vault, as deployed and with the settlement model, and the venue; the chain store, its
synchronizers and the server around one; the accounts and the history of the local ledger; the local
client's tabs; the browser's reads, submissions and journal: modelled, checked, and every safety and action
property of the runs proved.

Next:

1. An abstract specification of the operations' record (reported, included, reconciled, confirmed, taken back)
   that `ChainSync` implements, so that a reader of the API has one small module to rely on, with a proof of
   the refinement.
2. The table of `OperationLifecycle` as a theorem: no sequence of store transactions makes a transition that
   `transitionOperation` refuses.
3. The parts of `ReconciledIsProved` that survive several synchronizers, stated as a property of its own.
4. The selection among vaults in front of the browser runtime, as a module over an abstract runtime small
   enough to check.
