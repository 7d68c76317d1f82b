-------------------------- MODULE StartupRecovery --------------------------
(***************************************************************************)
(* How a wallet comes up, and comes back: doInitializeLdk (init.ts) with   *)
(* the recovery from VSS, its roll back, the load from IndexedDB and the   *)
(* migration; and the Restore page (pages/Restore.tsx), which replaces the *)
(* contents of the browser while a wallet is running in it.                *)
(*                                                                         *)
(* Two wallets share one browser in turn.  "own" has channels and a        *)
(* backup; "other" is the empty wallet a browser without a mnemonic makes  *)
(* for itself, and has neither.  A monitor is the number of its snapshot,  *)
(* a manager says which snapshot of each channel it relies on: LDK reads a *)
(* manager only with monitors at least that new, replays or closes what    *)
(* the monitors are ahead of, and goes on from the monitors.               *)
(*                                                                         *)
(* What MonitorPersist and CmPersist show is used here in short: a monitor *)
(* is written to VSS, then to IndexedDB, then acknowledged; a manager to   *)
(* VSS, then to IndexedDB; versions and retries are left out.  One tab has *)
(* the wallet open.  A start-up that stops because a request of it fails   *)
(* is one whose tab is closed there.  The bounds are MaxSnap, MaxFaults    *)
(* and MaxRestores.                                                        *)
(***************************************************************************)
EXTENDS Naturals, FiniteSets, Functions

CONSTANTS
  Channel,
  MaxSnap,      \* bound: snapshots of all channels together
  MaxFaults,    \* bound: faults in a behaviour
  Faults,       \* the fault kinds a run allows
  MaxRestores   \* bound: uses of the Restore page

FaultKind == {"fetch", "idb", "manifest", "crash", "wipe"}

ASSUME StartupAssumption ==
  /\ IsFiniteSet(Channel)
  /\ MaxSnap \in Nat /\ MaxFaults \in Nat /\ MaxRestores \in Nat
  /\ Faults \subseteq FaultKind

VARIABLES
  \* VSS, the backup of "own"
  vssMon,       \* monitor per channel, 0 if absent
  vssCm,        \* its manager
  listed, hasManifest,
  \* IndexedDB
  idbMon, idbCm,
  seed,         \* whose mnemonic it holds
  \* the session
  phase,        \* where doInitializeLdk stands; running, refused, closed
  wallet,       \* whose it is
  todo, wrote, wroteCm, \* recovery: keys to fetch, monitors and manager written
  live,         \* newest snapshot LDK holds of each channel, 0 if it has none
  conf,         \* newest one it was told is durable
  pending,      \* channels whose snapshot is being written
  monitorKeys, manDirty, \* the manifest to write, and whether a write is queued
  cmPc, cmData, \* the manager being written
  torn,         \* shutdown() was called
  \* the Restore page
  page, pageCm, pageTodo, pageMon, sawReady,
  \* history
  made, acked,  \* newest snapshot made, and acknowledged, in any session
  trouble,      \* what went wrong that no start-up can mend
  restores, faults

backup == <<vssMon, vssCm, listed, hasManifest>>
local == <<idbMon, idbCm, seed>>
recovery == <<todo, wrote, wroteCm>>
monitors == <<live, conf, pending>>
manifest == <<monitorKeys, manDirty>>
cmWrite == <<cmPc, cmData>>
pageVars == <<page, pageCm, pageTodo, pageMon, sawReady>>
history == <<made, acked, trouble>>
bounds == <<restores, faults>>
vars == <<backup, local, phase, wallet, recovery, monitors, manifest, cmWrite, torn,
          pageVars, history, bounds>>

Zero == [c \in Channel |-> 0]
NoCm == [wallet |-> "none", known |-> Zero]
Manager == [wallet : {"none", "own", "other"}, known : [Channel -> Nat]]
Present(mon) == {c \in Channel : mon[c] > 0}

Recovering == {"manifest", "fetch", "peers", "rollMon", "rollCm"}
Up == {"migrate", "running"}

Spend(kind) ==
  /\ kind \in Faults
  /\ faults < MaxFaults
  /\ faults' = faults + 1

\* The backup would not bring back every channel as it was acknowledged.
Incomplete ==
  \/ vssCm.wallet = "none" /\ Present(vssMon) # {}
  \/ \E c \in Present(acked) : c \notin listed \/ vssMon[c] < acked[c]

\* A wallet with channels S, known to this browser, to VSS, or to both; the mnemonic may
\* have survived the rest of the browser's data.
Init ==
  /\ \E S \in SUBSET Channel, here, there \in BOOLEAN :
       LET mon == [c \in Channel |-> IF c \in S THEN 1 ELSE 0]
           cm == [wallet |-> "own", known |-> mon] IN
         /\ S # {} => here \/ there
         /\ idbMon = IF here THEN mon ELSE Zero
         /\ idbCm = IF here THEN cm ELSE NoCm
         /\ seed \in IF here THEN {"own"} ELSE {"own", "none"}
         /\ vssMon = IF there THEN mon ELSE Zero
         /\ vssCm = IF there THEN cm ELSE NoCm
         /\ listed = IF there THEN S ELSE {}
         /\ hasManifest = (there /\ S # {})
         /\ made = mon /\ acked = mon
  /\ phase = "closed" /\ wallet = "other"
  /\ todo = {} /\ wrote = {} /\ wroteCm = FALSE
  /\ live = Zero /\ conf = Zero /\ pending = {}
  /\ monitorKeys = {} /\ manDirty = FALSE
  /\ cmPc = "idle" /\ cmData = NoCm
  /\ torn = FALSE
  /\ page = "idle" /\ pageCm = NoCm /\ pageTodo = {} /\ pageMon = Zero /\ sawReady = FALSE
  /\ trouble = {} /\ restores = 0 /\ faults = 0

-----------------------------------------------------------------------------
(* doInitializeLdk: recovery.                                              *)

\* A browser without a mnemonic makes one.  The recovery runs if IndexedDB holds neither
\* monitors nor a manager; otherwise the stored monitors are the ones to list.
Start ==
  /\ phase = "closed"
  /\ wallet' = IF seed = "none" THEN "other" ELSE seed
  /\ seed' = wallet'
  /\ phase' = IF idbMon = Zero /\ idbCm = NoCm /\ wallet' = "own" THEN "manifest" ELSE "load"
  /\ monitorKeys' = Present(idbMon)
  /\ UNCHANGED <<backup, idbMon, idbCm, recovery, monitors, manDirty, cmWrite, torn,
                 pageVars, history, bounds>>

\* A session that goes on reads and writes a browser that is being restored.
Ghost == IF page \in {"seed", "cm", "put"} THEN {"overwritten"} ELSE {}

Recover(from, to) ==
  /\ phase = from
  /\ phase' = to
  /\ UNCHANGED <<backup, seed, wallet, monitors, manDirty, cmWrite, torn, pageVars,
                 made, acked, restores>>

\* No manifest: nothing to recover.
RecoverManifest ==
  /\ Recover("manifest", IF hasManifest THEN "fetch" ELSE "load")
  /\ todo' = listed
  /\ UNCHANGED <<idbMon, idbCm, wrote, wroteCm, monitorKeys, trouble, faults>>

\* The next listed monitor is downloaded and stored.
RecoverMonitor(c) ==
  /\ Recover("fetch", "fetch")
  /\ c \in todo
  /\ vssMon[c] > 0
  /\ idbMon' = [idbMon EXCEPT ![c] = vssMon[c]]
  /\ todo' = todo \ {c}
  /\ wrote' = wrote \union {c}
  /\ trouble' = trouble \union Ghost
  /\ UNCHANGED <<idbCm, wroteCm, monitorKeys, faults>>

TakeManager ==
  /\ Recover("fetch", "peers")
  /\ vssCm.wallet = "own"
  /\ idbCm' = vssCm
  /\ wroteCm' = TRUE
  /\ trouble' = trouble \union Ghost
  /\ UNCHANGED <<idbMon, todo, wrote, monitorKeys, faults>>

\* A bug to catch: the manager does not wait for the monitors.
RecoverManagerEarly == TakeManager

\* The manager follows once all monitors are there.
RecoverManager == todo = {} /\ TakeManager

\* The known peers are the last to be recovered.
RecoverPeers ==
  /\ Recover("peers", "load")
  /\ monitorKeys' = listed
  /\ UNCHANGED <<idbMon, idbCm, recovery, trouble, faults>>

\* A request, a write or a check fails: what was written is rolled back, and the wallet
\* goes on with fresh state.
RecoveryFails ==
  /\ \E p \in {"manifest", "fetch", "peers"} :
       /\ Recover(p, IF wrote = {} /\ ~wroteCm THEN "load" ELSE "rollMon")
       /\ \/ Spend("fetch")
          \/ p # "manifest" /\ Spend("idb")
          \/ /\ p = "fetch"
             /\ (\E c \in todo : vssMon[c] = 0) \/ (todo = {} /\ vssCm.wallet = "none")
             /\ UNCHANGED faults
  /\ trouble' = trouble \union {"recovery failed"}
  /\ UNCHANGED <<idbMon, idbCm, recovery, monitorKeys>>

\* The two deletions of the roll back; a failure of either is ignored.
RollBackMonitors ==
  /\ Recover("rollMon", "rollCm")
  /\ \/ /\ idbMon' = [c \in Channel |-> IF c \in wrote THEN 0 ELSE idbMon[c]]
        /\ UNCHANGED <<trouble, faults>>
     \/ /\ Spend("idb")
        /\ trouble' = trouble \union {"half"}
        /\ UNCHANGED idbMon
  /\ UNCHANGED <<idbCm, recovery, monitorKeys>>

RollBackManager ==
  /\ Recover("rollCm", "load")
  /\ \/ /\ idbCm' = IF wroteCm THEN NoCm ELSE idbCm
        /\ UNCHANGED <<trouble, faults>>
     \/ /\ wroteCm /\ Spend("idb")
        /\ trouble' = trouble \union {"half"}
        /\ UNCHANGED idbCm
  /\ UNCHANGED <<idbMon, recovery, monitorKeys>>

-----------------------------------------------------------------------------
(* doInitializeLdk: load and migration.                                    *)

Loading(to) ==
  /\ phase = "load"
  /\ phase' = to
  /\ todo' = {} /\ wrote' = {} /\ wroteCm' = FALSE
  /\ trouble' = trouble \union Ghost
  /\ UNCHANGED <<backup, idbMon, seed, wallet, cmPc, torn, pageVars, made, acked, bounds>>

\* LDK reads the stored manager: it is this wallet's, and no monitor it relies on is
\* missing or older.  The monitors are read first, and must be this wallet's too.
Readable ==
  /\ idbCm.wallet = wallet
  /\ \A c \in Channel : idbCm.known[c] <= idbMon[c]
  /\ wallet = "own" \/ idbMon = Zero

\* The monitors are handed to LDK, which hands each back to be persisted and listed.
LoadStored ==
  /\ Loading("migrate")
  /\ Readable
  /\ live' = idbMon /\ conf' = idbMon
  /\ pending' = Present(idbMon)
  /\ monitorKeys' = monitorKeys \union Present(idbMon)
  /\ manDirty' = (idbMon # Zero)
  /\ cmData' = idbCm
  /\ UNCHANGED idbCm

\* No monitors and no manager, or one that cannot be read: it is discarded, and the wallet
\* starts with a fresh one.
LoadFresh ==
  /\ Loading("migrate")
  /\ ~Readable
  /\ idbMon = Zero
  /\ live' = Zero /\ conf' = Zero /\ pending' = {}
  /\ idbCm' = NoCm
  /\ UNCHANGED <<manDirty, monitorKeys, cmData>>

\* Monitors and no readable manager: the wallet refuses to start.
Refuse ==
  /\ Loading("refused")
  /\ ~Readable
  /\ idbMon # Zero
  /\ UNCHANGED <<idbCm, monitors, manifest, cmData>>

\* The end of doInitializeLdk: the wallet is up.
Ready ==
  /\ phase = "migrate"
  /\ phase' = "running"
  /\ cmData' = NoCm
  /\ UNCHANGED <<local, wallet, recovery, monitors, manifest, cmPc, torn, pageVars,
                 history, restores>>

VssEmpty == vssMon = Zero /\ vssCm = NoCm /\ ~hasManifest

\* Everything that was loaded, in one transaction.
Upload ==
  /\ vssMon' = live
  /\ vssCm' = cmData
  /\ listed' = Present(live) /\ hasManifest' = TRUE
  /\ UNCHANGED faults

\* A bug to catch: the local state is uploaded over whatever VSS holds.
MigrateAlways == Ready /\ live # Zero /\ Upload

\* Monitors here and nothing in VSS.  LDK was handed the monitors before, so that their
\* first writes may have made VSS non-empty by now: then there is no migration.
Migrate == Ready /\ live # Zero /\ VssEmpty /\ Upload

\* Nothing to migrate, or the migration failed, which is only a warning.
NoMigration ==
  /\ Ready
  /\ \/ (live = Zero \/ ~VssEmpty) /\ UNCHANGED faults
     \/ live # Zero /\ Spend("fetch")
  /\ UNCHANGED backup

-----------------------------------------------------------------------------
(* The running wallet, in short: MonitorPersist and CmPersist have it all. *)

Session == UNCHANGED <<seed, phase, wallet, recovery, torn, page, pageCm, pageTodo,
                       pageMon, sawReady, restores>>

\* LDK makes the next snapshot of a channel, the first of a new one.
Persist(c) ==
  /\ phase = "running" /\ wallet = "own" /\ ~torn
  /\ c \notin pending
  /\ FoldFunction(+, 0, made) < MaxSnap
  /\ made[c] = 0 \/ live[c] > 0
  /\ made' = [made EXCEPT ![c] = @ + 1]
  /\ live' = [live EXCEPT ![c] = made[c] + 1]
  /\ pending' = pending \union {c}
  /\ monitorKeys' = monitorKeys \union {c}
  /\ manDirty' = (manDirty \/ made[c] = 0)
  /\ Session
  /\ UNCHANGED <<backup, idbMon, idbCm, conf, cmWrite, acked, trouble, faults>>

\* A bug to catch: the snapshot is acknowledged before it is stored locally.
PutMonitorAcks(c) ==
  /\ phase \in Up
  /\ c \in pending
  /\ vssMon' = [vssMon EXCEPT ![c] = live[c]]
  /\ conf' = [conf EXCEPT ![c] = live[c]]
  /\ acked' = [acked EXCEPT ![c] = live[c]]
  /\ pending' = pending \ {c}
  /\ Session
  /\ UNCHANGED <<vssCm, listed, hasManifest, idbMon, idbCm, live, manifest, cmWrite,
                 made, trouble, faults>>

\* persistWithRetry, shutdown or not: the put to VSS, which overwrites what is there.
PutMonitor(c) ==
  /\ phase \in Up
  /\ c \in pending /\ vssMon[c] # live[c]
  /\ vssMon' = [vssMon EXCEPT ![c] = live[c]]
  /\ Session
  /\ UNCHANGED <<vssCm, listed, hasManifest, idbMon, idbCm, monitors, manifest, cmWrite,
                 made, acked, trouble, faults>>

\* The local write, and channel_monitor_updated.
StoreMonitor(c) ==
  /\ phase \in Up
  /\ c \in pending /\ vssMon[c] = live[c]
  /\ idbMon' = [idbMon EXCEPT ![c] = live[c]]
  /\ conf' = [conf EXCEPT ![c] = live[c]]
  /\ acked' = [acked EXCEPT ![c] = IF @ > live[c] THEN @ ELSE live[c]]
  /\ pending' = pending \ {c}
  /\ trouble' = trouble \union Ghost
  /\ Session
  /\ UNCHANGED <<backup, idbCm, live, manifest, cmWrite, made, faults>>

\* writeManifest, with the server's keys merged in if its version was not known; a write
\* that fails is only a warning.
WriteManifest ==
  /\ phase \in Up /\ manDirty
  /\ manDirty' = FALSE
  /\ \/ /\ \E merged \in {{}, listed} :
             /\ monitorKeys' = monitorKeys \union merged
             /\ listed' = monitorKeys \union merged
        /\ hasManifest' = TRUE
        /\ UNCHANGED faults
     \/ Spend("manifest") /\ UNCHANGED <<listed, hasManifest, monitorKeys>>
  /\ Session
  /\ UNCHANGED <<vssMon, vssCm, idbMon, idbCm, monitors, cmWrite, made, acked, trouble>>

\* The session's manager: it relies on the snapshots it was told are durable.
Mine == [wallet |-> wallet, known |-> conf]

Put(cm) ==
  /\ phase = "running" /\ ~torn
  /\ cmPc = "idle"
  /\ cmPc' = "idb" /\ cmData' = cm
  /\ vssCm' = IF wallet = "own" THEN cm ELSE vssCm
  /\ Session
  /\ UNCHANGED <<vssMon, listed, hasManifest, idbMon, idbCm, monitors, manifest, history,
                 faults>>

\* A bug to catch: the manager relies on snapshots not stored yet.
PutManagerAhead == Put([wallet |-> wallet, known |-> live])

\* persistChannelManager: the put to VSS ("other" has a store of its own).
PutManager ==
  /\ idbCm # Mine \/ (wallet = "own" /\ vssCm # Mine)
  /\ Put(Mine)

\* The local write that follows, shutdown or not.
StoreManager ==
  /\ phase = "running"
  /\ cmPc = "idb"
  /\ cmPc' = "idle" /\ cmData' = NoCm
  /\ idbCm' = cmData
  /\ trouble' = trouble \union Ghost
  /\ Session
  /\ UNCHANGED <<backup, idbMon, monitors, manifest, made, acked, faults>>

\* persistChannelManagerIdbOnly of a tab being hidden.
Hide ==
  /\ phase = "running" /\ ~torn
  /\ idbCm # Mine
  /\ idbCm' = Mine
  /\ trouble' = trouble \union Ghost
  /\ Session
  /\ UNCHANGED <<backup, idbMon, monitors, manifest, cmWrite, made, acked, faults>>

-----------------------------------------------------------------------------
(* The Restore page: it brings back "own".                                 *)

Page(from, to) ==
  /\ page = from
  /\ page' = to
  /\ UNCHANGED <<backup, recovery, monitors, manifest, cmWrite, made, acked>>

\* The user confirms, the backup has data, its manager is downloaded.  What useLdk said of
\* the node at that moment decides later whether it is shut down.
PageOpen ==
  /\ Page("idle", "manifest")
  /\ phase # "closed"
  /\ restores < MaxRestores
  /\ ~VssEmpty
  /\ restores' = restores + 1
  /\ pageCm' = vssCm
  /\ sawReady' = (phase = "running")
  /\ trouble' = trouble \union IF wallet = "own" /\ phase # "refused" THEN {"open"} ELSE {}
  /\ UNCHANGED <<local, phase, wallet, torn, pageTodo, pageMon, faults>>

PageManifest ==
  /\ Page("manifest", "monitors")
  /\ pageTodo' = listed
  /\ pageMon' = Zero
  /\ UNCHANGED <<local, phase, wallet, torn, pageCm, sawReady, trouble, bounds>>

\* A listed monitor that is missing is only a warning.
PageMonitor(c) ==
  /\ Page("monitors", "monitors")
  /\ c \in pageTodo
  /\ pageMon' = [pageMon EXCEPT ![c] = vssMon[c]]
  /\ pageTodo' = pageTodo \ {c}
  /\ UNCHANGED <<local, phase, wallet, torn, pageCm, sawReady, trouble, bounds>>

\* A download or a write fails: the page shows the error and leaves things as they are.
PageFails ==
  /\ \/ (Page("manifest", "idle") \/ Page("monitors", "idle")) /\ Spend("fetch")
        /\ UNCHANGED trouble
     \/ /\ \E p \in {"clear", "seed", "cm", "put"} : Page(p, "idle")
        /\ Spend("idb")
        /\ trouble' = trouble \union {"half"}
  /\ UNCHANGED <<local, phase, wallet, torn, pageCm, pageTodo, pageMon, sawReady, restores>>

\* shutdown(), if the node was ready when the user confirmed.
PageShutdown ==
  /\ Page("monitors", "clear")
  /\ pageTodo = {}
  /\ torn' = (torn \/ sawReady)
  /\ UNCHANGED <<local, phase, wallet, pageCm, pageTodo, pageMon, sawReady, trouble, bounds>>

\* clearAllStores.
PageClear ==
  /\ Page("clear", "seed")
  /\ idbMon' = Zero /\ idbCm' = NoCm /\ seed' = "none"
  /\ trouble' = trouble \union IF Incomplete THEN {"incomplete"} ELSE {}
  /\ UNCHANGED <<phase, wallet, torn, pageCm, pageTodo, pageMon, sawReady, bounds>>

PageSeed ==
  /\ Page("seed", "cm")
  /\ seed' = "own"
  /\ UNCHANGED <<idbMon, idbCm, phase, wallet, torn, pageCm, pageTodo, pageMon, sawReady,
                 trouble, bounds>>

\* The manager before the monitors.
PageManager ==
  /\ Page("cm", "put")
  /\ idbCm' = IF pageCm.wallet = "none" THEN idbCm ELSE pageCm
  /\ UNCHANGED <<idbMon, seed, phase, wallet, torn, pageCm, pageTodo, pageMon, sawReady,
                 trouble, bounds>>

PagePut(c) ==
  /\ Page("put", "put")
  /\ pageMon[c] > 0
  /\ idbMon' = [idbMon EXCEPT ![c] = pageMon[c]]
  /\ pageMon' = [pageMon EXCEPT ![c] = 0]
  /\ UNCHANGED <<idbCm, seed, phase, wallet, torn, pageCm, pageTodo, sawReady, trouble,
                 bounds>>

-----------------------------------------------------------------------------
(* The tab goes away.                                                      *)

\* All memory is lost.
Closed ==
  /\ phase # "closed"
  /\ phase' = "closed" /\ wallet' = "other"
  /\ todo' = {} /\ wrote' = {} /\ wroteCm' = FALSE
  /\ live' = Zero /\ conf' = Zero /\ pending' = {}
  /\ monitorKeys' = {} /\ manDirty' = FALSE
  /\ cmPc' = "idle" /\ cmData' = NoCm
  /\ torn' = FALSE
  /\ page' = "idle" /\ pageCm' = NoCm /\ pageTodo' = {} /\ pageMon' = Zero
  /\ sawReady' = FALSE
  /\ UNCHANGED <<backup, local, made, acked, restores>>

\* The page reloads the application when all is written.
PageReload ==
  /\ page = "put" /\ pageMon = Zero
  /\ Closed
  /\ UNCHANGED <<trouble, faults>>

\* Closed in the middle of a recovery, a roll back or the page's writes, the tab leaves
\* half of a wallet behind; and so does a new wallet whose first channel is stored before
\* its manager ever was: nothing but a tick, a hidden tab or a recovery writes it.
Crash ==
  /\ Closed
  /\ Spend("crash")
  /\ trouble' = trouble \union
       IF \/ phase \in {"fetch", "rollMon", "rollCm"} /\ (wrote # {} \/ wroteCm)
          \/ page = "put" /\ pageMon # Zero
          \/ phase = "running" /\ idbCm = NoCm /\ idbMon # Zero
       THEN {"half"} ELSE {}

\* The browser's data is deleted, or the user moves to another browser.
Wipe ==
  /\ phase = "closed"
  /\ Spend("wipe")
  /\ idbMon' = Zero /\ idbCm' = NoCm /\ seed' = "none"
  /\ trouble' = trouble \union IF Incomplete THEN {"incomplete"} ELSE {}
  /\ UNCHANGED <<backup, phase, wallet, recovery, monitors, manifest, cmWrite, torn,
                 pageVars, made, acked, restores>>

-----------------------------------------------------------------------------

Next ==
  \/ Start
  \/ RecoverManifest \/ RecoverManager \/ RecoverPeers \/ RecoveryFails
  \/ RollBackMonitors \/ RollBackManager
  \/ LoadStored \/ LoadFresh \/ Refuse \/ Migrate \/ NoMigration
  \/ WriteManifest \/ PutManager \/ StoreManager \/ Hide
  \/ \E c \in Channel :
       RecoverMonitor(c) \/ Persist(c) \/ PutMonitor(c) \/ StoreMonitor(c)
       \/ PageMonitor(c) \/ PagePut(c)
  \/ PageOpen \/ PageManifest \/ PageFails \/ PageShutdown \/ PageClear \/ PageSeed
  \/ PageManager \/ PageReload
  \/ Crash \/ Wipe

Spec == Init /\ [][Next]_vars

-----------------------------------------------------------------------------
(* Properties.                                                             *)

TypeOK ==
  /\ vssMon \in [Channel -> Nat] /\ vssCm \in Manager
  /\ listed \in SUBSET Channel /\ hasManifest \in BOOLEAN
  /\ idbMon \in [Channel -> Nat] /\ idbCm \in Manager
  /\ seed \in {"none", "own", "other"}
  /\ phase \in Recovering \union Up \union {"closed", "load", "refused"}
  /\ wallet \in {"own", "other"}
  /\ todo \in SUBSET Channel /\ wrote \in SUBSET (Channel \ todo) /\ wroteCm \in BOOLEAN
  /\ wroteCm => todo = {}
  /\ live \in [Channel -> Nat] /\ conf \in [Channel -> Nat]
  /\ pending \in SUBSET Channel
  /\ monitorKeys \in SUBSET Channel /\ manDirty \in BOOLEAN
  /\ cmPc \in {"idle", "idb"} /\ cmData \in Manager
  /\ torn \in BOOLEAN
  /\ page \in {"idle", "manifest", "monitors", "clear", "seed", "cm", "put"}
  /\ pageCm \in Manager /\ pageTodo \in SUBSET Channel /\ pageMon \in [Channel -> Nat]
  /\ sawReady \in BOOLEAN
  /\ made \in [Channel -> Nat] /\ acked \in [Channel -> Nat]
  /\ trouble \in SUBSET {"recovery failed", "half", "overwritten", "open", "incomplete"}
  /\ restores \in Nat /\ faults \in Nat

\* A wallet that comes up without trouble has every channel it ever acknowledged, in the
\* state it acknowledged or a later one.
ComesBack ==
  phase \in Up /\ wallet = "own" /\ trouble = {} => \A c \in Channel : acked[c] <= live[c]

\* A start is refused only after trouble: a tab that is closed while it runs can always be
\* opened again.
OpensAgain == phase = "refused" => trouble # {}

\* The backup's manager never goes back, on a channel it knows, without trouble.
BackupKept ==
  [][trouble' # {} \/ \A c \in Channel : vssCm'.known[c] >= vssCm.known[c]]_vars

\* No session has a channel in a state older than one it acknowledged: an old state is
\* a revoked one.
NeverOldState == \A c \in Channel : live[c] > 0 => live[c] >= acked[c]
=============================================================================
