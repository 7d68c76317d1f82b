# Zinqq, in TLA+

Zinqq is a self-custodial Lightning wallet that runs in a browser tab. LDK
(Lightning) and BDK (on-chain) run as WASM; everything they must not forget is
kept in IndexedDB and in VSS, a remote, versioned, encrypted key-value store
that a fresh device restores from. The browser may close the tab between any
two awaits, another tab may take the wallet over, and the network fails at any
point. This directory models the parts of the wallet where that can lose money
or state, or leave the user in front of something untrue, checks them with TLC on
small instances, and proves the core with TLAPS for every instance.

Paths below are relative to the repository: `src/ldk/...` in the text is
`src/src/ldk/...` in `PROJECT.json`.

## 1. Inventory

| Component | Source | State | Operations | Interacts with | Hard part |
|---|---|---|---|---|---|
| Channel monitor persister | `src/ldk/traits/persist.ts` | `versionCache`, `monitorKeys`, `nameToKey`, per-channel write chains, manifest chain | new channel, update, archive, backfill | LDK (callbacks, `channel_monitor_updated`), VSS, IndexedDB, start-up | two stores, indefinite retries, version conflicts with its own lost writes, late writes, crashes |
| Serial persister | `src/ldk/storage/serial-persister.ts` | `inFlight`, `pendingDirty`, `mustRetry`, `cancelled` | `schedule`, `cancel` | ChannelManager and known-peers persistence, sync loop, teardown | coalescing, a dirty bit cleared before the write |
| ChannelManager persistence | `src/ldk/storage/persist-cm.ts`, `vss-write.ts` | VSS version of the key, LDK's dirty bit | scheduled persist, IndexedDB-only persist when the tab is hidden | serial persister, VSS, IndexedDB, takeover | two tabs, one conflict retry, the takeover grace |
| Multi-tab lock | `src/ldk/init.ts`, `context.tsx` | Web Lock, broadcast channel, `walletLockAcquiredAt` | acquire (steal), teardown | ChannelManager and monitor persistence | the former tab's requests are still in flight |
| Start-up and recovery | `src/ldk/init.ts`, `storage/monitor-snapshots.ts`, `pages/Restore.tsx` | IndexedDB, VSS, seeded versions | restore from VSS, roll back, seed, load, migrate | all persisters | partial failure, crash in the middle, manifest and monitors that disagree |
| Known peers | `src/ldk/storage/known-peers.ts` | IndexedDB map, VSS version | put, delete, sync | serial persister | sync reads the map after an await |
| Event handler | `src/ldk/traits/event-handler.ts` | timers, payment history, spendable outputs | one handler per LDK event | every feature | LDK replays what was not handled; durable work is asynchronous |
| Stable balance | `src/stable/*` | position, pending intent, inbox, splice state | trade, settle, receive, splice, recover | VSS, LDK payments, event gate | an intent sent or not sent when the tab dies; single owner of the backup |
| Sweeping | `src/ldk/sweep.ts`, `subsidized-sweep.ts` | stored descriptors, reserved coins | store, sweep, subsidized sweep | event handler, broadcaster, on-chain wallet | outputs added while a sweep awaits; an answer that does not say which inputs are gone |
| Outgoing transactions | `src/ldk/traits/broadcaster.ts`, `event-handler.ts` | pending broadcasts, funding transactions, channel-id map | broadcast, rebroadcast, drain at start-up, fund, discard | LDK, Esplora, IndexedDB | put, broadcast and delete run side by side |
| Close records | `src/ldk/close-records/*` | per-channel fact records in IndexedDB and VSS | merge, reconcile | event handler, chain sync | merge of records of two devices, evidence that arrives out of order |
| Force-close recovery | `src/ldk/recovery/*` | recovery state in IndexedDB and VSS | enter, confirm, clear | event handler, page banner | read, await, write |
| Chain sync | `src/ldk/sync/chain-sync.ts`, `traits/filter.ts` | watched transactions and outputs, last tip | one pass, the loop with its backoff | LDK, Esplora, persisters | reorganisations, registrations during a pass, pruning |
| JIT channels | `src/ldk/lsps2/*`, `lsp/*` | pending requests, promises | quote, buy, fail-over | peers, receive page | timeouts racing answers |
| Peers | `src/ldk/peers/*` | connections, reconnect backoff | connect, disconnect, reconnect | context | reconnect races |
| Async receive, offers | `src/ldk/async-receive/*` | cached offer, server paths | register, refresh | VSS, peers | stale registration |
| On-chain wallet | `src/onchain/*` | BDK changeset, spend lock | sync, send, max send | Esplora, sweep | two spenders of one coin |
| Pages | `src/pages/*` | send and receive state machines | user actions | context | a stale request answered late |
| Proxies | `api/*`, `proxy/*` | none | forward | Esplora, VSS, LNURL | none (stateless) |
| Crypto, keys, generated code | `src/wallet/*`, `vss-crypto.ts`, `proto/*` | none | | | opaque to a model checker |

What makes each component correct is stated by the properties of section 3. The
hazards, each at its line, with the properties that cover it, are in `PROJECT.json`.

## 2. The modules

| Module | Models | Extends / uses |
|---|---|---|
| `MonitorStore` | what the monitor persister promises LDK: a remote copy, a local copy and what LDK was told, per channel | abstract specification |
| `MonitorPersist` | `traits/persist.ts` with VSS, IndexedDB and the restart of `init.ts` | implements `MonitorStore` (`Promise`, `ImplementsMonitorStore`) |
| `MonitorPersistProofs` | its theorems | `MonitorPersist`, TLAPS |
| `SerialPersister` | `storage/serial-persister.ts`, in both of its uses | |
| `SerialPersisterProofs` | its theorems | `SerialPersister`, TLAPS |
| `CmPersist` | `storage/persist-cm.ts` and `vss-write.ts`, the hidden tab's write, the tabs of `init.ts` and `context.tsx` | |
| `CmPersistProofs` | its theorems | `CmPersist`, TLAPS |
| `StartupRecovery` | recovery, load and migration of `init.ts`, and `pages/Restore.tsx`, around a running session | what `MonitorPersist` and `CmPersist` show, in short |
| `StableStore` | what the stable balance and the splice share: one save over memory, VSS and IndexedDB, and LDK's events behind the gate of `stable/event-gate.ts` | |
| `StableClient` | `stable/client.ts`, `ldk.ts`, `runtime.ts`, with LDK and the provider around them | `StableStore` |
| `SpliceController` | `stable/splice.ts`, LDK's side of a splice, and every other spender of the coin | `StableClient` |
| `ChainSync` | `sync/chain-sync.ts`, `traits/filter.ts` | |
| `CloseRecords` | a record's facts: `close-records/close-record.ts`, `signals.ts`, `closure-reason.ts`, `reconcile.ts` | |
| `CloseStore` | a record's way to durable storage: `close-records/store.ts` | |
| `ForceCloseRecovery` | `recovery/*` and the ticks of `context.tsx` that drive it | |
| `Sweep` | `sweep.ts`, `subsidized-sweep.ts`, the SpendableOutputs event | |
| `OnchainWallet` | `onchain/*` | |
| `Outgoing` | `traits/broadcaster.ts`, the funding events of `event-handler.ts` | |
| `SendPage` | `pages/Send.tsx`, the payments of `context.tsx`, `storage/payment-history.ts` | |
| `ReceivePage` | `pages/Receive.tsx`, `lsps2/*`, the quote and the purchase of `context.tsx` | |
| `MCStable` | bounds for `SpliceController` | |
| `MCClosing` | chain, close, store, recovery, sweep: what follows a block and a closed channel | composes the five |
| `MCPages` | serial persister, on-chain wallet, outgoing transactions, both pages | composes the five |
| `StartupProofs`, `StableProofs`, `ClosingProofs`, `OnchainProofs`, `PageProofs` | the proofs of section 4 about the modules above | |

### MonitorPersist

| Code | Model |
|---|---|
| `versionCache` (monitor keys, `_monitor_keys`) | `versionCache`, `manifestCache` |
| `monitorKeys`, `nameToKey` | `monitorKeys`, `named` |
| the promise chain of `writeChains.get(key)` | `writing` (head), `waiting` (how many behind it), `pc`, `conflicts` |
| the manifest chain | `manQueue`, `manPc`, `manSnap` |
| the two deletions of `archive_persisted_channel` | `del`, `delVer` |
| VSS objects and their versions | `vssVer`, `vssData`, `manVer`, `manKeys` |
| `ldk_channel_monitors` | `idb` |
| a request whose client gave up (timeout, closed tab) | a member of `late` |

A monitor is the number of its snapshot. `persist_new_channel` and
`update_persisted_channel` are actions, and so is every outcome of each `await`
of `persistWithRetry` (accepted, accepted with the answer lost, failed, timed out
and still on its way, conflict), of the conflict branch (same content, older
content, fetch failed, cap spent), of the IndexedDB write, of the manifest's
read-merge-write and of the two deletions. `Crash` closes the tab at any point and leaves
its request in `late`; `Restart` is the start-up of a device with local state:
seed the versions (or fail to), load the monitors, hand each of them over again,
backfill the manifest. A request and its effect at the server are one step:
between the two nothing else reads the object but another request, and those
orders are all there. The keys that one channel may have had under earlier funding
outpoints (`aliases`) are abstracted to one key per channel.

### SerialPersister

`inFlight` is `loop`, with `captured` for the state `doPersist` has read;
`pendingDirty`, `mustRetry` and `cancelled` are themselves; `dirty` is LDK's bit.
Callers are named because the property is about what a caller's `await` means.
`HasPendingWork` is chosen once, in `Init`: the ChannelManager has a dirty bit and a
sync loop that ticks; the known peers have no bit, and their data is read after an
await. One run and one proof cover both.

### CmPersist

The manager is the set of changes it has been through, each named by the tab that
made it: two tabs' managers diverge, and a number would hide that. `ver` is
`cmVersionRef`, `grace` stands for `Date.now() - walletLockAcquiredAt <
TAKEOVER_GRACE_MS`. The dirty bit and `pendingDirty` are one flag, since
`SerialPersister` shows what the pair does. `AcquireWalletLock`, `Seed`, `Load`,
`Teardown` and `Close` are the life of a tab. A torn-down tab still runs what it
awaits. The history variable `overlap` records that a tab was opened while another was
alive: the managers of two such tabs diverge, and what the stores keep is then
anybody's, so `SavedIsDurable` and `CleanMeansStored` speak of wallets without it.

### StartupRecovery

One browser, used in turn by two wallets: `own`, with channels and a backup, and `other`,
the empty wallet that a browser without a mnemonic makes for itself. `vssMon`, `vssCm`,
`listed` and `hasManifest` are the backup, `idbMon`, `idbCm` and `seed` the browser's stores.
`phase` is the point that `doInitializeLdk` has reached and `page` the one that
`handleRestore` has; the two run concurrently, as they do in the tab. A manager is the
snapshot it relies on of each channel; `Readable` is LDK's rule for reading one (no
monitor missing or older). The session's writes are those of `MonitorPersist` and
`CmPersist` without versions and retries: VSS, then IndexedDB, then the acknowledgement.

Some things this code cannot come back from, and `trouble` records them as they happen:

| Trouble | What happened | What the code then does |
|---|---|---|
| `recovery failed` | a request, write or check of the recovery failed | goes on with a fresh manager that replaces the backup's, and lists only its own channels |
| `half` | the tab died, or a write or deletion failed, in the middle of a recovery, a roll back or the page's writes; or before a new wallet's manager was first stored | refuses to start, or discards the manager |
| `overwritten` | a session wrote into a browser that the page had cleared, or read what the page was writing | refuses to start, or runs with a mix |
| `open` | the page restored the wallet that was running | runs with an old state (`restored`) |
| `incomplete` | the browser was cleared while the backup lacked a manager, a listing or a snapshot | misses channels, or refuses to start |

The properties say that nothing else keeps a wallet from coming back. Dropping any of
the five makes one of them fail.

### StableStore, StableClient, SpliceController

The stable balance keeps one state (position, pending intent, inbox, first receive) and the
splice controller another. Both are saved the same way, so `Save(owner, next, outcome)` is one
operator with the four outcomes the code tells apart: stored, stored in VSS only, stored with the
answer lost (the owner is then `behind` and refused until the next start), refused. `evq`, `gate` and
`unsaved` are LDK's events: an event is delivered until its handler answers true, the
gate runs the durable work once and answers true after it, and after a crash LDK
replays what its stored manager still held (`ReplayAll`).

| Code | Model |
|---|---|
| the client's serial queue of jobs | `job`: one at a time, cut at its awaits |
| `pending` intent, keysend, its outcome event | `S.pend`; `newpay` (LDK holds it, not stored), `pays` (in flight); events `sent`, `failed` |
| inbox of provider messages, receipts | `S.inbox`, `S.pos.receipts` |
| a reviewed quote with its revision | `quote`, made stale by every save |
| `runtime.ts` not loaded yet | `sess = "recovering"` |
| splice state, reservations, spend lock | `mem["splice"]`, `reserved`, `lock` |
| LDK's side of a splice | `ls`, with the transaction it is about |
| the coin the splice contributes | `coin`: who spent it |

`CrashAll` kills the tab at any point. Dollars and sats are small integers and
a price is sats per dollar; without that a settlement could not be told from a trade.

### ChainSync

`lastTip`, `watchedTx` and `watchedOut` are the loop's memory, `syncPass` is the pass with the tip it
began with, `toldBlock` what LDK was told. Each step of `syncOnce` is an action, so blocks,
reorganisations and LDK's registrations come between any two. A block that holds one of the two
transactions has an identity, and so has the tip; a tip hash is reused only when nothing
remembers it.

### CloseRecords and CloseStore

`CloseRecords` is about what a record says. `Merge` is `mergeCloseRecords` field by field; each signal
and each step of `reconcileCloseRecords` merges into the record, a pass works on the snapshot taken
when it began, and Esplora may fail each query. `CloseStore` is about where the record is: memory,
IndexedDB, VSS under a version, and the safety net (the funding outpoint kept since ChannelPending).
There a record is a set of facts and `writeChain` is the queue of mutations; another device
writes at any time.

### ForceCloseRecovery

`askIdb` and `askVss` are the two copies of the recovery state. `enterRecovery`, the exit check and the
auto-recovery each read it, await something, and write or delete: each is two actions, with
what it read kept in between.

### Sweep

An entry is a pair of a key and outputs. The event handler's write goes on after the
event is acknowledged; a sweep reads all the entries, prunes, builds one transaction, posts it and deletes the
keys it read. `net` and `final` are the transactions the network accepted and confirmed. The broadcaster's
"already-broadcast" is given whenever an input is gone (`AlreadyBroadcast`), whoever spent it. `coin` is the
on-chain coin that pays a subsidized sweep's fee, known to be spent in memory, in the wallet's
changeset, or not (`reservedCoin`, `coinKnown`).

### OnchainWallet

`onChain`, `coins` and `shown` are the balance at Esplora, in BDK and on the page; `syncLoop` has the
loop's flags and how many timers are set (never more than one, `OnchainTypeOK`); `spend` is the send
under way with the amount reviewed (`want`) and the amount the transaction pays. `putChangeset` is a put in
`puts` that first reads and later writes. The anchor reserve and the fee are small numbers that keep their
order: a payment with change costs one more than one without.

### Outgoing

A call of `broadcastWithRetry` and the put of its record run side by side (`sendCalls`,
`pendingPuts`); a second request for a transaction in flight ends at once. `funding` is the way of
a funding transaction from FundingGenerationReady to FundingTxBroadcastSafe or DiscardFunding, with its
own store and the map from temporary to final channel ids.

### SendPage and ReceivePage

`screen` and `receive` are the pages' state machines. An awaited lookup, quote or purchase is a record
that ends at any later time, after the page has moved on if the user has; `aborted` and `current`
stand for the abort signals and the request counter with which the code tells a late answer. A payment is LDK's state of it,
whether the page has let it go, its history record and the update of that record. In
`ReceivePage` the effect that runs when the confirmed amount or the peers change is the operator
`PhaseA`, part of every action that changes them.

### The compositions MCClosing and MCPages

Their parts share no state that is modelled in two of them: what one part needs of another is a
choice in it (`Deposit` in `OnchainWallet` stands for a sweep that confirms, `output` in `CloseRecords`
for the outputs of `Sweep`). A behaviour belongs to one part, `focus`, and the
others rest, so TLC explores the sum of the state spaces; interleaving two parts
that do not touch would only multiply it. Fairness is stated for the part in focus.

## 3. What is checked

Every constant whose name starts with `Max` is a bound, but for `MaxConflictRetries` and
`MaxTimelock`, the code's own constants, which are lowered where a run is to reach them cheaply.
`Faults` names the kinds of failure a run allows and `MaxFaults` (`SyncFaults`, `StoreFaults`, ...) how many of them
in one behaviour. Deadlock is not checked: a bounded behaviour ends
when all snapshots are issued, all tabs gone, all blocks mined.

| Run | Instance | Shows |
|---|---|---|
| `monitor` | one channel, 3 snapshots, conflict cap 4, 4 faults of 8 kinds, fair | `AckedIsDurable`, `BackupNotBehind`, `NeverOlder`, `ImplementsMonitorStore`, `NoChannelHaltsForever`, `TypeOK` |
| `manifest` | 2 channels, one archivable, conflict cap 1, 2 faults of 7 kinds | `QuietManifest`, and the refinement while one of two channels is deleted |
| `tabs` | 2 tabs in turn or together, 2 changes each, 1 fault of 6 kinds, fair | `SavedIsDurable`, `CleanMeansStored`, `ChangesGetSaved` |
| `startup` | 2 channels, 2 snapshots, 2 faults of 5 kinds, 1 use of the page | `ComesBack`, `OpensAgain`, `BackupKept`, `TypeOK` |
| `stable` | 9 scopes: up to 2 faults, 2 intents, 3 provider messages, 2 splices, 2 prices | `AppliedOnce`, `InFlightRemembered`, `AckMeansDurable`, `SignedIsSaved`, `SpareSplicedCoin` |
| `closing` | chain: 3 blocks with a transaction, 1 fault. Record: 3 close reasons, finality 2, height 5. Store: 2 faults. Recovery: 2 channels, 1 fault. Sweep: 2 outputs, 1 fault. Fair | `IdleMeansBestChain`, `SpendReported`; `VerifiedMeansReceived`, `RecordEnds`; `CloseNotForgotten`; `StuckGetsAsked`, `AskGoesAway`; `NoOutputDropped`, `SweptInTheEnd` |
| `pages` | serial: 2 callers, 3 changes, 2 failures. On-chain: 4 coins, 2 saves, 4 events. Outgoing: 1 commitment, 2 requests, 2 faults. Send: 2 lookups, 2 payments, 1 fault. Receive: amounts up to 2. Fair | `CleanMeansSaved`, `AwaitMeansSaved`, `ChangesGetSaved`; `SentAsReviewed`, `DeltaKept`, `BalanceShown`; `SendableUntilSent`; `OnePaymentAtATime`, `HistorySettles`; `ReviewedAsAsked`, `BuyEnds` |
| `halted` | 1 channel, 6 faults | `NoChannelHaltsForever` violated, see below |
| `former` | 2 tabs, no fault | `WinnerNotClobbered` violated |
| `restored` | 1 channel, 2 snapshots, no fault | `NeverOldState` violated |
| `coins` | one splice and its rivals, 1 fault | `OneSpender` violated |
| `dropped` | 2 outputs, 1 fault | `PlainSweepSafe` violated |

Why the bounds are enough.

* *Monitors.* What can go wrong with a monitor needs an old
snapshot in flight or abandoned, a newer one in the stores, and one behind it:
three snapshots. An abandoned put that lands, a crash, a failed seeding and one
more failure are four faults. Two keys are needed where keys interact, which is
only in the manifest and in archiving: the chains share nothing else, which is why one
key serves `monitor`. `QuietManifest` is false under the fault kind `manifest` (a
manifest write that fails is only a warning, and the next one may never come), so
`manifest` leaves that kind out and `monitor` takes it in.
* *The manager* needs a state left by an
earlier tab and two changes (one in the write in flight, one after it); another tab's
write is a conflict at any point, so one fault besides is enough to
reach every branch.
* *Start-up.* A recovery is partial when one of two channels has
been written; a backup is stale when a second snapshot exists; a tab that
dies and a browser that is cleared afterwards are two faults.
* *Stable balance.* Applying something twice takes an intent, a save whose answer is
lost and a crash that replays: one intent and two faults. A second intent shows the first's quote and
message being mistaken for its own; three messages fill the inbox while one is applied. Two splices
in a row, under two faults, are needed for an event of the first to meet the second.
* *Closing.* A reorganisation during a pass needs a block told, its replacement and one more. A
record needs both transactions confirmed to finality 2, which height 5 leaves room for; the three reasons differ in who may
spend and who is the initiator. A recovery state is clobbered by two channels. A batch that fails as a whole
needs two outputs, and a duplicate a restart between an event and its monitor.
* *Pages.* Two lookups overtake each other, two payments are one too many, two puts of
a changeset overlap. Four coins are the least that hold a payment, its fee with change, and the anchor reserve.

What TLC does not reach in the core for a lack of faults the proofs of section 4
cover: they bound none.

**Fairness.** A request settles (fetch has a timeout, IndexedDB completes or
fails), a timer fires, a closed wallet is opened again, and the chain-sync
loop ticks for as long as the wallet is open (`chain-sync.ts` re-arms its timer
in every case). So weak fairness is put on the steps that settle a write and on
the tick, and on nothing a user or a peer does, with these additions:

* `closing` also needs the chain: blocks keep coming, locked outputs mature, an accepted
  transaction confirms. A reconcile pass may be interrupted again and again, so `StartPass` and the pass
  whose queries are answered have strong fairness: Esplora answers again and again. The exit
  check of the recovery is enabled and disabled by others, hence strong fairness too. The banner
  is dismissed in the end, as a success banner is.
* In `pages` the send and receive pages have fairness only on what ends by itself: awaited calls (all have
  timeouts), intervals, IndexedDB, the reaper. Nobody has to tap, answer or pay, and a
  purchase ends although the provider never answers.

The number of faults is finite in
every behaviour; a network that stays down keeps the promise of no liveness property.

**Violations.** Five runs show the code and its documentation apart:

* `halted`. `conflictRetries` is capped for one snapshot and never reset. One lost
  answer and five failed fetches spend the cap; from then on the
  stale version is retried with backoff and never corrected, so the channel stays
  halted until the wallet is restarted, although nothing fails any more. The design
  note says a network blip should not permanently halt a channel. With fewer
  failures (`monitor`) the property holds.
* `former`. A former tab has a ChannelManager write in flight when it loses the
  lock. The new tab writes first; the former tab's put conflicts, it fetches the new
  version, its own grace is long over, and it puts its manager over the new one.
  `cancel()` stops only later iterations. Todo 347 says this branch is closed.
* `restored`. The page downloads the backup and only then calls `shutdown()`. If the phrase is
  that of the wallet running in the same browser, that wallet goes on acknowledging channel
  states during the download; the download is then written over them, and the restored wallet
  runs with a state that its peer holds a revocation of. No failure is needed. The plan of the feature
  says that restoring over existing data works and gives the correct state.
* `coins`. `spend-lock.ts` says that one owner at a time selects and signs inputs, channel
  funding included. The subsidized sweep takes any confirmed coin, and FundingGenerationReady selects outside
  the lock: either may spend an input of a splice that is signed. The spenders that do look
  (`SpareSplicedCoin`, in `stable`) never do.
* `dropped`. The plain sweep takes "already-broadcast" for success and deletes every
  entry of the batch, although the broadcaster gives that answer also when one input was spent elsewhere: the
  other outputs are never swept. `subsidized-sweep.ts` explains why it does not trust the answer, and says that
  the plain sweep may.

The refusal of an overwrite is weaker than the comments around it say. Within its grace a new tab
refuses to overwrite the former tab's late write (`CorrectVersion` with `grace`), but it
has kept the corrected version and the scheduler has latched a retry: its next
`schedule()` puts its manager over what it refused to overwrite. `tabs` shows the other side
of it: since nothing is refused for good, no tab starves.

**Statements that do not hold.** These definitions say what one would expect of the code. TLC refutes
each on the instances above, in the state or behaviour described.

| Definition | What happens |
|---|---|
| `ReceivePage!QuoteSettles` | Confirming the amount that is already confirmed shows the quoting skeleton, but the effect depends on the amount and does not run: no quote was asked for (`Receive.tsx:425-439`, dependencies at 298). |
| `ReceivePage!InvoiceAsShown` | A purchase that ends after the user went back shows its invoice under another amount, or none. |
| `SendPage!BackToSameRecipient` | `amountStepDataRef` is of the recipient before, if the review was reached without an amount screen of its own (`Send.tsx:156`). |
| `Outgoing!PendingUntilAccepted` | A second request for a transaction in flight ends at once and deletes the record; if the first then runs out of retries, nothing is left to send again after a restart (`broadcaster.ts:60-63`, `119-131`). |
| `ChainSync!FundingReported` | Step 5 prunes a watched transaction that is not confirmed yet; its confirmation is never looked up until a restart registers it again (`chain-sync.ts:141-145`). Outputs stay, so `SpendReported` holds. |
| `CloseRecords!EveryRecordEnds` | A record whose first close transaction is our commitment, which the counterparty's then supersedes, waits for a confirmation that never comes (`reconcile.ts:250`), although the comment at line 45 says that every record ends. `RecordEnds` leaves that case out. |
| `StableClient!NothingTwice` | "Clear closed position" is refused while the channel has the position's id (`client.ts:244-255`), and a splice that locks gives the channel another id before the position is bound to it. Cleared in between, the position takes the provider's version and receipts with it, and a settlement sent again counts again. TLC needs two trades, four messages and a splice for it, more than `stable` has; `AppliedOnce` leaves out behaviours in which this happened. |
| `OnchainWallet!OneSelector` | As in `coins`: channel funding selects coins whoever holds the lock (`event-handler.ts:606-686`). |

Smaller observations met on the way, in the models as nondeterministic outcomes: a send-all with channels open sends the
amount estimated for a transaction without change, so the change output's fee comes out of the anchor
reserve (`onchain/context.tsx:385-391`); of two overlapping `putChangeset` calls the later write loses the earlier
delta, which the next full scan finds again (`DeltaKept` is stated without overlap); an on-chain broadcast
whose answer is lost is shown as an error, and "Try Again" may pay twice; a funding broadcast that fails is
never tried again (`event-handler.ts:687-693`); ChannelClosed forgets the channel-id mapping that
DiscardFunding needs to delete the funding record (`480`, `806-827`); an aborted lookup that ends
later clears the next one's "Resolving..." (`Send.tsx:278-280`); a name that resolves to an on-chain
address is parsed as a name again at "Next" and never reaches the review (`Send.tsx:374-379`, `605`). A
splice that is asked for after a SpliceFailed event is not in the manager that a crash brings back if that event
still is, so a replayed failure never meets a later splice LDK knows of (`CrashAll`, `OlderManager`); what the peer does with
signatures it was sent just before such a crash is LDK's to settle, by a force close, and outside the model.

## 4. What is proved

All for every value of the constants that satisfies the module's assumption.

| Theorem | Says |
|---|---|
| `MonitorPersistProofs!TypeCorrect`, `Invariance` | types; the inductive invariant `IInv` |
| `MonitorPersistProofs!AckedDurable` | `[]AckedIsDurable` |
| `MonitorPersistProofs!BackupFirst` | `[]BackupNotBehind` |
| `MonitorPersistProofs!NoRegression` | `NeverOlder` |
| `MonitorPersistProofs!Implementation` | `Spec => Promise!SSpec` |
| `MonitorPersistProofs!ManifestSettles` | `[]QuietManifest`, if `"manifest"` is not among the fault kinds |
| `SerialPersisterProofs!Invariance`, `NothingLost`, `AwaitIsDurable` | the persister loses no signal; an await means saved |
| `CmPersistProofs!TypeCorrect` | types |
| `CmPersistProofs!Invariance` | the inductive invariant `OwnerInv` |
| `CmPersistProofs!SavedDurable`, `CleanStored` | `[]SavedIsDurable`, `[]CleanMeansStored` |
| `StartupProofs!StartupTyped` | types of the start-up and the Restore page |
| `StartupProofs!WalletComesBack`, `WalletOpensAgain` | `[]ComesBack`, `[]OpensAgain` |
| `StartupProofs!OldOnlyAfterTrouble` | `[](trouble = {} => NeverOldState)` |
| `StartupProofs!BackupNeverBack` | `BackupKept` |
| `StableProofs!FlightRemembered`, `NothingForgotten` | `[]InFlightRemembered`, `AckMeansDurable` |
| `StableProofs!CountedOnce` | `[]AppliedOnce` |
| `StableProofs!SplicesAreSaved`, `SplicedCoinSpared` | `[]SignedIsSaved`, `[]SpareSplicedCoin` |
| `ClosingProofs!IdleBelievesBestChain` | `[]IdleMeansBestChain` |
| `ClosingProofs!CloseIsKept` | `[]CloseNotForgotten` |
| `ClosingProofs!OutputsStay` | `[]NoOutputDropped` |
| `ClosingProofs!VerifiedIsReceived` | `[]VerifiedMeansReceived` |
| `OnchainProofs!SendIsAsReviewed`, `StoredUntilSent` | `[]SentAsReviewed`, `[]SendableUntilSent` |
| `OnchainProofs!SavesAdd` | `DeltaKept` |
| `PageProofs!PaymentsOneByOne`, `ReviewAsAsked` | `[]OnePaymentAtATime`, `[]ReviewedAsAsked` |

**MonitorPersist.** `AckedIsDurable` says nothing of what is in flight, so it is not
inductive: an abandoned put could bring an old monitor back. `IInv` adds, for every channel
that is not archived,

* `ChainInv`: acknowledged <= local <= backup, and the snapshot at the head of the chain is
  newer than all that was written before or is the one the wallet loaded, and the ones
  behind it are newer still. This is what makes "overwrite whatever is
  there" in `ResolveConflict` safe: the persister never writes backwards.
* `LateInv`: an abandoned put carries a version; once the object has moved on the server
  rejects it. One that can still land is not older than the backup, or is the loaded
  monitor of a rewind.
* `Rewinding`: the one case in which the backup goes back. The tab died between the two
  writes, so the loaded monitor is behind the backup and is written over it. LDK was
  never told of the newer one.

The step lemmas (`ChainStep`, `LateStep`, `DeletionStep`) go action by action; the other
theorems follow from `IInv` and, for `NoRegression` and `Implementation`, one look at each
action. Assumptions used: the set of keys is finite, the bounds are natural numbers.

The manifest has an invariant of its own, `ManInv`: with no write waiting, the one under way lists what the
persister knows or is about to merge the server's list into it, and a second put never meets a conflict, since one
tab writes at a time. A write that changes the list while another runs is queued behind it, and a restarted wallet
that loads a monitor queues one, whatever it could fetch. The hypothesis of `ManifestSettles` is needed: a request
that fails outright is logged and not repeated.

**SerialPersister.** `Core` says that every change is saved, being written, or covered by
a flag (`Covered`); `Callers` that a waiting caller's change is covered while its promise
is in flight. `Core` is what a flag cleared too early, or not latched, breaks.

**CmPersist.** The manager's put overwrites on a conflict without comparing anything, so
durability rests on something else: only one tab is alive (`Alone`), it started from
IndexedDB, which had everything saved (`Carrying`), and an abandoned put that can still land was sent
since (`Lagging`). `Halfway` is the delicate point: between the VSS put and the IndexedDB
put no abandoned put can land, or the change would count as saved with VSS holding
something older. `Clean` adds that a clear bit means the write in flight carries the whole
manager; `Fresh` keeps a new tab's changes apart from the loaded ones. `OwnerInv` has all of
this under `~overlap`, and so have the two properties; with two tabs alive the backup can lose
a saved change, which `former` shows.

**StartupRecovery.** `TypeInv` (types, `Shape`, and no copy newer than the newest snapshot) holds always; `Good` holds
while nothing is in `trouble`, the ways in which the code loses state for good. `Good` follows the one fact that
matters through every phase: either the browser has each channel as acknowledged and as both managers rely on
(`Held`), or it is empty and the backup has and lists them (`Covered`). `Fetching` and `Restoring` say how far a
download has moved from the second to the first; `Working` what the open wallet confirms and writes; `OtherOpen`
that an empty wallet, whose page can restore, has written nothing over the backup.

**Stable balance.** Four invariants, each on top of the ones before.

* `FlightInv` follows a keysend. At most one is alive: about to be sent, held by LDK, or owed an answer (`Apart`), and
  it is the stored pending intent (`Alike`), so every outcome still queued or in the inbox is of one that is over
  (`Replies`).
* `AckInv` follows a provider's payment from LDK's queue through the inbox. Every receipt is of a payment that took effect
  (`Receipts`), what memory holds beyond VSS took effect or was refused (`Loose`), and so did what a job removes
  (`Removing`).
* `OnceInv` says where the state itself remembers each effect (`Told`): an intent by its number, the first receive by
  its stage, a version by the position's, a settlement by its receipt; a splice's conversion by its state (`Path`,
  `Allocating`). A position's memory goes with it, hence the exception in `AppliedOnce`.
* `SignInv` follows a splice. LDK's events come in order, so no failure follows the signing request of the splice under
  way (`Asked`); each job's view of the stored splice (`Working`) and the save whose answer was lost (`Followed`,
  `Stuck`) keep memory and VSS on one transaction; while it may be signed, the coin is set aside (`Ours`).

What removing a message from the inbox leaves is defined by recursion on its length. That such a function exists, and
that it keeps the other messages, is shown without an induction theorem: `Least` takes the least length at which it
would fail, from the well-foundedness of the natural numbers.

**ChainSync.** `ChainInv`: what LDK was told is right as soon as the pass for the current
tip has done its reorganisation check (`PassIsBest`), every later answer keeps it right, and
a new tip is never the one last synced. The check compares blocks of any
transaction, so it rests on a block belonging to one (`BlocksOfOne`). The name of
"no tip yet" must not be a tip's: the assumption says so.

**CloseStore.** `MemoryStored` says that a close in memory is in IndexedDB, or its write is
running or queued; `NetBehindRecord` that a queued drop of the safety net stands behind such
a write; `RecordsCarryClose` that nothing written, fetched or merged lacks the close. All
under "no IndexedDB call failed", as the property is.

**Sweep.** `Waits` is stronger than the property: until a crash takes its write, an output needs
no replay by LDK. `KeysApart` and `BatchKnown` are why deleting by key drops only what was
read; `FirstKeeps` why pruning duplicates keeps one copy; `CoinSpentOnce` why a
subsidized sweep that replaces another by its coin cannot undo what the other moved.
Assumption: any set of stored keys has a first one.

**CloseRecords.** `CloseInv`: a height the record has for a transaction is its height on the chain, and an expected
amount is the amount owed (`Truthful`); neither a pass whose tip is behind by the time it ends (`PassTrue`) nor a signal
between its queries and its merge changes that, and "verified" is decided from such facts only.

**OnchainWallet.** `LockHeld`: from the lock to the broadcast, the loop is paused and the
owner is the send; opening a channel or a sync changes neither. `SaveInv`: with one save at a time, what it read is
what the store still has when it writes.

**Outgoing.** `FundingKept` is the first half of the property; `RecordsHeld` ties every record and
every put under way to a running call that deletes the record after both.

**SendPage.** `Polling`: the only payment under way is the one the page polls for, and
while it polls no confirmation is awaited. `OnScreen` ties the screen to it.

**ReceivePage.** `AskedAsConfirmed`: a question whose answer still counts is about the
confirmed amount. Whatever changes that amount makes earlier questions stale (`Restart`).

**Only model-checked.** Every liveness property (`NoChannelHaltsForever`, `ChangesGetSaved`,
`SpendReported`, `RecordEnds`, `StuckGetsAsked`, `AskGoesAway`, `SweptInTheEnd`, `BalanceShown`, `BuyEnds`,
`HistorySettles`): liveness under fairness is out of the prover's reach. Every safety property of a run that passes
is proved, some of them under the condition that the property itself names.

## 5. Plan

Done: (1) monitor persister, (2) serial persister, (3) ChannelManager persistence and the
wallet's tabs, each with its proofs; (4) start-up, recovery and the Restore page; (5) the stable balance's
store, gate and client; (6) the splice controller; (7) sweeping and the broadcaster; (8) close records; (9)
force-close recovery; (10) chain synchronisation; (11) JIT channels, on-chain wallet, send and
receive pages; (12) the proofs for the stable balance and the close record; (13) those for the manifest, the
start-up and the changeset. Left, in order of what can lose money:

14. A takeover in `MonitorPersist`: two tabs' monitors under one set of keys.
15. Pure algorithms against reference definitions: stable arithmetic, price consensus,
   subsidy selection, `selectLatestMonitorSnapshots`.

## 6. What is not modelled

* Peer connections (`ldk/peers/*`) keep a table in memory; the modules take a connection as up or down.
* Async receive and offers: an offer is asked for until a budget of ticks is spent, and no money
  depends on it.
* The stable balance's arithmetic and its price consensus: integers without state (plan, 15).
* Rapid gossip sync, scorer and router: cached data that can be fetched again.
* The fail-over to a second JIT provider: none is configured.
* The proxies, which keep no state; presentation; cryptography, keys and generated code.
* LDK, BDK, VSS, IndexedDB, Esplora and the browser
are modelled by how the code uses them and marked external in `PROJECT.json`. Contents
(monitors, managers, peers, records) are identities; sizes, encodings and logs are left out.

`PROJECT.json` lists every component with its status.
