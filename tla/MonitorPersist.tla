--------------------------- MODULE MonitorPersist ---------------------------
(***************************************************************************)
(* The channel-monitor persister of src/src/ldk/traits/persist.ts, with    *)
(* the two stores it writes: VSS, the remote versioned key-value store,    *)
(* and IndexedDB, the browser's database.                                  *)
(*                                                                         *)
(* LDK hands over a full monitor on every new channel and every update.    *)
(* The persister writes it to VSS, then to IndexedDB, and only then calls  *)
(* channel_monitor_updated; until it does, LDK holds the channel still.    *)
(* Writes of one channel are chained.  A second chain writes the manifest, *)
(* the list of monitor keys a fresh device needs to restore.               *)
(*                                                                         *)
(* Abstractions.  A monitor is the number of its snapshot: the n-th        *)
(* monitor LDK made for that channel, in whatever session; a restarted     *)
(* wallet hands the monitor it loaded over once more, under its number, so *)
(* two snapshots have equal bytes just when they have equal numbers.  A    *)
(* request and its effect at the server are one step; a request that       *)
(* outlives its client (timeout, closed tab) waits in `late` and may still *)
(* land.  Every channel has one storage key.  The bounds are MaxSnap       *)
(* (snapshots per channel) and MaxFaults (faults of the kinds in Faults,   *)
(* spent one by one), so every behaviour has finitely many failures.       *)
(***************************************************************************)
EXTENDS Naturals, FiniteSets

CONSTANTS
  Key,                 \* storage keys, one per channel
  MaxSnap,             \* bound: snapshots LDK issues per channel
  MaxConflictRetries,  \* MAX_CONFLICT_RETRIES, 5 in the code
  MaxFaults,           \* bound: faults in a behaviour
  Faults,              \* the fault kinds a run allows
  Archivable           \* channels LDK may archive

FaultKind == {"put", "lost", "late", "fetch", "idb", "manifest", "manifestLost",
              "delete", "seed", "crash"}

ASSUME PersistAssumption ==
  /\ IsFiniteSet(Key)
  /\ MaxSnap \in Nat
  /\ MaxConflictRetries \in Nat
  /\ MaxFaults \in Nat
  /\ Faults \subseteq FaultKind
  /\ Archivable \subseteq Key

VARIABLES
  \* VSS: version 0 means the object is absent.
  vssVer, vssData,     \* per monitor key
  manVer, manKeys,     \* the manifest object
  late,                \* abandoned puts the server may still process
  \* IndexedDB
  idb,
  \* the session's memory
  running,
  versionCache,        \* versionCache, the monitor keys
  manifestCache,       \* versionCache, the manifest key
  monitorKeys,         \* the keys the next manifest write will list
  named,               \* keys nameToKey knows: the monitors LDK has loaded
  issued,              \* newest snapshot LDK made (history: it outlives the session)
  writing,             \* snapshot at the head of the channel's chain, or the last one
  waiting,             \* snapshots behind it: the newest ones LDK made
  pc,                  \* where persistWithRetry stands for that snapshot
  conflicts,           \* its conflictRetries
  manQueue, manPc, manSnap, \* manifest chain: writes waiting, phase, keys being sent
  del, delVer,         \* archive: phase of the deletions, version captured
  \* history
  acked,               \* newest snapshot reported by channel_monitor_updated
  opened, closed,      \* channels ever opened, ever archived
  faults               \* faults so far

vss == <<vssVer, vssData>>
man == <<manVer, manKeys>>
chain == <<issued, writing, waiting, pc, conflicts>>
manChain == <<manQueue, manPc, manSnap>>
dels == <<del, delVer>>
known == <<monitorKeys, named, opened, closed>>
vars == <<vss, man, late, idb, running, versionCache, manifestCache, known, chain,
          manChain, dels, acked, faults>>

PC == {"idle", "put", "get", "idb", "idbSame", "ack", "backoff"}
LatePut == [key : Key, data : Nat, ver : Nat]

Spend(kind) ==
  /\ kind \in Faults
  /\ faults < MaxFaults
  /\ faults' = faults + 1

Init ==
  /\ vssVer = [k \in Key |-> 0] /\ vssData = [k \in Key |-> 0]
  /\ manVer = 0 /\ manKeys = {}
  /\ late = {}
  /\ idb = [k \in Key |-> 0]
  /\ running = TRUE
  /\ versionCache = [k \in Key |-> 0] /\ manifestCache = 0
  /\ monitorKeys = {} /\ named = {}
  /\ issued = [k \in Key |-> 0] /\ writing = [k \in Key |-> 0]
  /\ waiting = [k \in Key |-> 0]
  /\ pc = [k \in Key |-> "idle"] /\ conflicts = [k \in Key |-> 0]
  /\ manQueue = 0 /\ manPc = "idle" /\ manSnap = {}
  /\ del = [k \in Key |-> "none"] /\ delVer = [k \in Key |-> 0]
  /\ acked = [k \in Key |-> 0]
  /\ opened = {} /\ closed = {}
  /\ faults = 0

-----------------------------------------------------------------------------
(* LDK's callbacks.                                                        *)

\* handlePersist: append the snapshot to the channel's chain.
HandlePersist(k) ==
  /\ issued' = [issued EXCEPT ![k] = @ + 1]
  /\ IF pc[k] = "idle"
     THEN /\ writing' = [writing EXCEPT ![k] = issued[k] + 1]
          /\ pc' = [pc EXCEPT ![k] = "put"]
          /\ conflicts' = [conflicts EXCEPT ![k] = 0]
          /\ UNCHANGED waiting
     ELSE /\ waiting' = [waiting EXCEPT ![k] = @ + 1]
          /\ UNCHANGED <<writing, pc, conflicts>>

\* persist_new_channel: list the key, queue a manifest write, persist.
PersistNewChannel(k) ==
  /\ running
  /\ k \notin opened
  /\ MaxSnap > 0
  /\ opened' = opened \union {k}
  /\ named' = named \union {k}
  /\ monitorKeys' = monitorKeys \union {k}
  /\ manQueue' = manQueue + 1
  /\ HandlePersist(k)
  /\ UNCHANGED <<vss, man, late, idb, running, versionCache, manifestCache, closed,
                 manPc, manSnap, dels, acked, faults>>

\* update_persisted_channel: LDK may hand over the next snapshot before the
\* previous one is acknowledged (a preimage, a block).
UpdatePersistedChannel(k) ==
  /\ running
  /\ k \in named
  /\ issued[k] < MaxSnap
  /\ HandlePersist(k)
  /\ UNCHANGED <<vss, man, late, idb, running, versionCache, manifestCache, known,
                 manChain, dels, acked, faults>>

-----------------------------------------------------------------------------
(* persistWithRetry, one chain per channel.                                *)

\* The server's compare-and-set on the object's version.
Accepts(k, ver) == vssVer[k] = ver

Store(k, data) ==
  /\ vssVer' = [vssVer EXCEPT ![k] = @ + 1]
  /\ vssData' = [vssData EXCEPT ![k] = data]

\* The request on its way for k, once its client no longer waits for it.
Abandoned(k) == [key |-> k, data |-> writing[k], ver |-> versionCache[k]]

\* The chain of k moves from phase p to phase q.
Step(k, p, q) ==
  /\ running
  /\ pc[k] = p
  /\ pc' = [pc EXCEPT ![k] = q]
  /\ UNCHANGED <<man, running, manifestCache, known, issued, manChain, dels>>

\* putObject accepted: cache the new version, go on to IndexedDB.
PutOk(k) ==
  /\ Step(k, "put", "idb")
  /\ Accepts(k, versionCache[k])
  /\ Store(k, writing[k])
  /\ versionCache' = [versionCache EXCEPT ![k] = @ + 1]
  /\ UNCHANGED <<late, idb, writing, waiting, conflicts, acked, faults>>

\* putObject accepted, answer lost: back off with the old version cached.
PutLost(k) ==
  /\ Step(k, "put", "backoff")
  /\ Accepts(k, versionCache[k])
  /\ Spend("lost")
  /\ Store(k, writing[k])
  /\ UNCHANGED <<late, idb, versionCache, writing, waiting, conflicts, acked>>

\* A bug to catch: a failed backup is skipped and the local write goes ahead.
PutFailsLocalOnly(k) ==
  /\ Step(k, "put", "idb")
  /\ Spend("put")
  /\ UNCHANGED <<vss, late, idb, versionCache, writing, waiting, conflicts, acked>>

\* putObject never reached the server.
PutFails(k) ==
  /\ Step(k, "put", "backoff")
  /\ Spend("put")
  /\ UNCHANGED <<vss, late, idb, versionCache, writing, waiting, conflicts, acked>>

\* putObject timed out on the client and is still on its way.
PutTimesOut(k) ==
  /\ Step(k, "put", "backoff")
  /\ Spend("late")
  /\ late' = late \union {Abandoned(k)}
  /\ UNCHANGED <<vss, idb, versionCache, writing, waiting, conflicts, acked>>

\* Version conflict, at most MaxConflictRetries times per snapshot: fetch the
\* server's object.
PutConflict(k) ==
  /\ Step(k, "put", "get")
  /\ ~Accepts(k, versionCache[k])
  /\ conflicts[k] < MaxConflictRetries
  /\ conflicts' = [conflicts EXCEPT ![k] = @ + 1]
  /\ UNCHANGED <<vss, late, idb, versionCache, writing, waiting, acked, faults>>

\* Any further conflict goes straight to the backoff, the stale version kept.
PutConflictExhausted(k) ==
  /\ Step(k, "put", "backoff")
  /\ ~Accepts(k, versionCache[k])
  /\ conflicts[k] >= MaxConflictRetries
  /\ UNCHANGED <<vss, late, idb, versionCache, writing, waiting, conflicts, acked, faults>>

\* A bug to catch: whatever the server holds is taken for this snapshot.
ResolveBlindly(k) ==
  /\ Step(k, "get", IF vssVer[k] # 0 THEN "idbSame" ELSE "put")
  /\ versionCache' = [versionCache EXCEPT ![k] = vssVer[k]]
  /\ UNCHANGED <<vss, late, idb, writing, waiting, conflicts, acked, faults>>

\* A bug to catch: the version the server reports is not kept.
ResolveKeepsVersion(k) ==
  /\ Step(k, "get", IF vssVer[k] # 0 /\ vssData[k] = writing[k] THEN "idbSame" ELSE "put")
  /\ UNCHANGED <<vss, late, idb, versionCache, writing, waiting, conflicts, acked, faults>>

\* getObject: take the server's version (0 if deleted).  If the server already has
\* this very snapshot only the local write is left, otherwise put again at once.
ResolveConflict(k) ==
  /\ Step(k, "get", IF vssVer[k] # 0 /\ vssData[k] = writing[k] THEN "idbSame" ELSE "put")
  /\ versionCache' = [versionCache EXCEPT ![k] = vssVer[k]]
  /\ UNCHANGED <<vss, late, idb, writing, waiting, conflicts, acked, faults>>

\* getObject failed: put again at once with the stale version.
ResolveFails(k) ==
  /\ Step(k, "get", "put")
  /\ Spend("fetch")
  /\ UNCHANGED <<vss, late, idb, versionCache, writing, waiting, conflicts, acked>>

\* idbPut of the snapshot.
IdbOk(k) ==
  /\ Step(k, "idb", "ack") \/ Step(k, "idbSame", "ack")
  /\ idb' = [idb EXCEPT ![k] = writing[k]]
  /\ UNCHANGED <<vss, late, versionCache, writing, waiting, conflicts, acked, faults>>

\* idbPut failed: the loop backs off and starts over with VSS; the catch around the
\* conflict resolution starts over at once.
IdbFails(k) ==
  /\ Step(k, "idb", "backoff") \/ Step(k, "idbSame", "put")
  /\ Spend("idb")
  /\ UNCHANGED <<vss, late, idb, versionCache, writing, waiting, conflicts, acked>>

\* A bug to catch: every snapshot handed over so far is reported durable.
AckEverythingIssued(k) ==
  /\ Step(k, "ack", "idle")
  /\ acked' = [acked EXCEPT ![k] = issued[k]]
  /\ writing' = [writing EXCEPT ![k] = issued[k]]
  /\ waiting' = [waiting EXCEPT ![k] = 0]
  /\ conflicts' = [conflicts EXCEPT ![k] = 0]
  /\ UNCHANGED <<vss, late, idb, versionCache, faults>>

\* A bug to catch: the snapshots waiting are written newest first.
AckNewestFirst(k) ==
  /\ Step(k, "ack", IF waiting[k] > 0 THEN "put" ELSE "idle")
  /\ acked' = [acked EXCEPT ![k] = writing[k]]
  /\ IF waiting[k] > 0
     THEN /\ writing' = [writing EXCEPT ![k] = IF @ > issued[k] - waiting[k]
                                              THEN @ - 1 ELSE issued[k]]
          /\ waiting' = [waiting EXCEPT ![k] = @ - 1]
     ELSE UNCHANGED <<writing, waiting>>
  /\ conflicts' = [conflicts EXCEPT ![k] = 0]
  /\ UNCHANGED <<vss, late, idb, versionCache, faults>>

\* The write promise resolves: channel_monitor_updated, and the chain moves on to
\* the next snapshot if one is waiting.
Ack(k) ==
  /\ Step(k, "ack", IF waiting[k] > 0 THEN "put" ELSE "idle")
  /\ acked' = [acked EXCEPT ![k] = writing[k]]
  /\ IF waiting[k] > 0
     THEN /\ writing' = [writing EXCEPT ![k] = issued[k] - waiting[k] + 1]
          /\ waiting' = [waiting EXCEPT ![k] = @ - 1]
     ELSE UNCHANGED <<writing, waiting>>
  /\ conflicts' = [conflicts EXCEPT ![k] = 0]
  /\ UNCHANGED <<vss, late, idb, versionCache, faults>>

\* The backoff timer fires.
Retry(k) ==
  /\ Step(k, "backoff", "put")
  /\ UNCHANGED <<vss, late, idb, versionCache, writing, waiting, conflicts, acked, faults>>

-----------------------------------------------------------------------------
(* The server processes, or never sees, a put its client gave up on.       *)

LatePutLands(r) ==
  /\ Accepts(r.key, r.ver)
  /\ Store(r.key, r.data)
  /\ late' = late \ {r}
  /\ UNCHANGED <<man, idb, running, versionCache, manifestCache, known, chain,
                 manChain, dels, acked, faults>>

LatePutDropped(r) ==
  /\ late' = late \ {r}
  /\ UNCHANGED <<vss, man, idb, running, versionCache, manifestCache, known, chain,
                 manChain, dels, acked, faults>>

-----------------------------------------------------------------------------
(* writeManifest: one write at a time, listing the keys known when it runs. *)

ManStep(p, q) ==
  /\ running
  /\ manPc = p
  /\ manPc' = q
  /\ UNCHANGED <<vss, late, idb, running, versionCache, named, opened, closed, chain,
                 dels, acked>>

\* A bug to catch: writes start that nobody queued.
ManStartUnqueued ==
  /\ ManStep("idle", "put")
  /\ manQueue' = manQueue - 1
  /\ manSnap' = monitorKeys
  /\ UNCHANGED <<man, manifestCache, monitorKeys, faults>>

ManStart ==
  /\ ManStep("idle", "put")
  /\ manQueue > 0
  /\ manQueue' = manQueue - 1
  /\ manSnap' = monitorKeys
  /\ UNCHANGED <<man, manifestCache, monitorKeys, faults>>

\* The first put or the one after a resolved conflict is accepted.
ManPutOk ==
  /\ ManStep("put", "idle") \/ ManStep("reput", "idle")
  /\ manifestCache = manVer
  /\ manVer' = manVer + 1
  /\ manKeys' = manSnap
  /\ manifestCache' = manVer + 1
  /\ UNCHANGED <<monitorKeys, manQueue, manSnap, faults>>

\* Accepted, answer lost: a warning, nothing is retried.
ManPutLost ==
  /\ ManStep("put", "idle") \/ ManStep("reput", "idle")
  /\ manifestCache = manVer
  /\ Spend("manifestLost")
  /\ manVer' = manVer + 1
  /\ manKeys' = manSnap
  /\ UNCHANGED <<manifestCache, monitorKeys, manQueue, manSnap>>

\* A put or the fetch fails: a warning, nothing is retried.
ManFails ==
  /\ ManStep("put", "idle") \/ ManStep("get", "idle") \/ ManStep("reput", "idle")
  /\ Spend("manifest")
  /\ UNCHANGED <<man, manifestCache, monitorKeys, manQueue, manSnap>>

\* A conflict on the first put is resolved once.
ManConflict ==
  /\ ManStep("put", "get")
  /\ manifestCache # manVer
  /\ UNCHANGED <<man, manifestCache, monitorKeys, manQueue, manSnap, faults>>

\* A bug to catch: the fetched version is kept for the next write, this one ends.
ManFetchOnly ==
  /\ ManStep("get", "idle")
  /\ manifestCache' = manVer
  /\ monitorKeys' = monitorKeys \union manKeys
  /\ UNCHANGED <<man, manQueue, manSnap, faults>>

\* The server's keys join the known ones and the union is put once more.
ManMerge ==
  /\ ManStep("get", "reput")
  /\ manifestCache' = manVer
  /\ monitorKeys' = monitorKeys \union manKeys
  /\ manSnap' = monitorKeys \union manKeys
  /\ UNCHANGED <<man, manQueue, faults>>

-----------------------------------------------------------------------------
(* archive_persisted_channel: unlist, then delete from VSS, then locally.  *)

Archive(k) ==
  /\ running
  /\ k \in named \intersect Archivable
  /\ named' = named \ {k}
  /\ monitorKeys' = monitorKeys \ {k}
  /\ closed' = closed \union {k}
  /\ manQueue' = manQueue + 1
  /\ del' = [del EXCEPT ![k] = "vss"]
  /\ delVer' = [delVer EXCEPT ![k] = versionCache[k]]
  /\ UNCHANGED <<vss, man, late, idb, running, versionCache, manifestCache, opened,
                 chain, manPc, manSnap, acked, faults>>

DelStep(k, p, q) ==
  /\ running
  /\ del[k] = p
  /\ del' = [del EXCEPT ![k] = q]
  /\ UNCHANGED <<man, late, running, manifestCache, known, chain, manChain, delVer, acked>>

DeleteVssOk(k) ==
  /\ DelStep(k, "vss", "idb")
  /\ vssVer[k] \in {0, delVer[k]}
  /\ vssVer' = [vssVer EXCEPT ![k] = 0]
  /\ vssData' = [vssData EXCEPT ![k] = 0]
  /\ versionCache' = [versionCache EXCEPT ![k] = 0]
  /\ UNCHANGED <<idb, faults>>

\* A conflict or a network error is logged and the local delete follows all the same.
DeleteVssFails(k) ==
  /\ DelStep(k, "vss", "idb")
  /\ \/ vssVer[k] \notin {0, delVer[k]} /\ UNCHANGED faults
     \/ Spend("delete")
  /\ UNCHANGED <<vss, versionCache, idb>>

DeleteIdb(k) ==
  /\ DelStep(k, "idb", "none")
  /\ \/ idb' = [idb EXCEPT ![k] = 0] /\ UNCHANGED faults
     \/ Spend("delete") /\ UNCHANGED idb
  /\ UNCHANGED <<vss, versionCache>>

-----------------------------------------------------------------------------
(* The tab goes away and the wallet is opened again.                       *)

\* Everything in memory is lost; a put on its way may still reach the server.
Crash ==
  /\ running
  /\ Spend("crash")
  /\ running' = FALSE
  /\ \E S \in SUBSET {k \in Key : pc[k] = "put"} :
       late' = late \union {Abandoned(k) : k \in S}
  /\ UNCHANGED <<vss, man, idb, versionCache, manifestCache, known, chain, manChain,
                 dels, acked>>

\* doInitializeLdk on a device that has local state: load the monitors IndexedDB
\* holds and fetch the VSS versions of their keys (all or none).  watch_channel hands
\* each of them back through persist_new_channel, which queues a manifest write, and
\* backfillManifest adds one if no version of the manifest is known.
Restart ==
  /\ ~running
  /\ running' = TRUE
  /\ LET loaded == {k \in Key : idb[k] > 0} IN
       /\ monitorKeys' = loaded
       /\ named' = loaded
       /\ pc' = [k \in Key |-> IF k \in loaded THEN "put" ELSE "idle"]
       /\ \/ /\ versionCache' = [k \in Key |-> IF k \in loaded THEN vssVer[k] ELSE 0]
             /\ manifestCache' = manVer
             /\ UNCHANGED faults
          \/ /\ versionCache' = [k \in Key |-> 0]
             /\ manifestCache' = 0
             /\ Spend("seed")
       /\ manQueue' = Cardinality(loaded)
                      + IF loaded # {} /\ manifestCache' = 0 THEN 1 ELSE 0
  /\ writing' = idb
  /\ waiting' = [k \in Key |-> 0]
  /\ conflicts' = [k \in Key |-> 0]
  /\ manPc' = "idle" /\ manSnap' = {}
  /\ del' = [k \in Key |-> "none"] /\ delVer' = [k \in Key |-> 0]
  /\ UNCHANGED <<vss, man, late, idb, issued, opened, closed, acked>>

-----------------------------------------------------------------------------

Write(k) ==
  \/ PutOk(k) \/ PutLost(k) \/ PutFails(k) \/ PutTimesOut(k)
  \/ PutConflict(k) \/ PutConflictExhausted(k)
  \/ ResolveConflict(k) \/ ResolveFails(k)
  \/ IdbOk(k) \/ IdbFails(k)
  \/ Ack(k) \/ Retry(k)

WriteManifest == ManStart \/ ManPutOk \/ ManPutLost \/ ManFails \/ ManConflict \/ ManMerge

Delete(k) == DeleteVssOk(k) \/ DeleteVssFails(k) \/ DeleteIdb(k)

Next ==
  \/ \E k \in Key :
       \/ PersistNewChannel(k) \/ UpdatePersistedChannel(k)
       \/ Write(k)
       \/ Archive(k) \/ Delete(k)
  \/ \E r \in late : LatePutLands(r) \/ LatePutDropped(r)
  \/ WriteManifest
  \/ Crash \/ Restart

Spec == Init /\ [][Next]_vars

\* The event loop keeps running: a write that was started settles, a timer fires, a
\* closed wallet is opened again.  Failures are bounded by MaxFaults, which is the
\* assumption that the network and the database are up in the end.
Fairness ==
  /\ \A k \in Key : WF_vars(Write(k)) /\ WF_vars(Delete(k))
  /\ WF_vars(WriteManifest)
  /\ WF_vars(Restart)

FairSpec == Spec /\ Fairness

-----------------------------------------------------------------------------
(* Properties.                                                             *)

\* Every variable has its type; no more snapshots wait than were made.
TypeOK ==
  /\ vssVer \in [Key -> Nat] /\ vssData \in [Key -> Nat]
  /\ manVer \in Nat /\ manKeys \in SUBSET Key
  /\ late \in SUBSET LatePut
  /\ idb \in [Key -> Nat]
  /\ running \in BOOLEAN
  /\ versionCache \in [Key -> Nat] /\ manifestCache \in Nat
  /\ monitorKeys \in SUBSET Key /\ named \in SUBSET Key
  /\ issued \in [Key -> Nat] /\ writing \in [Key -> Nat] /\ waiting \in [Key -> Nat]
  /\ \A k \in Key : waiting[k] <= issued[k]
  /\ pc \in [Key -> PC] /\ conflicts \in [Key -> Nat]
  /\ manQueue \in Nat /\ manPc \in {"idle", "put", "get", "reput"}
  /\ manSnap \in SUBSET Key
  /\ del \in [Key -> {"none", "vss", "idb"}] /\ delVer \in [Key -> Nat]
  /\ acked \in [Key -> Nat]
  /\ opened \in SUBSET Key /\ closed \in SUBSET Key
  /\ faults \in Nat

\* A snapshot LDK was told is durable is in both stores, or a newer one is, whatever
\* failed, timed out, landed late or crashed since: persistWithRetry and the chain in
\* handlePersist.  Only an archived channel is exempt.
AckedIsDurable ==
  \A k \in Key \ closed : acked[k] <= idb[k] /\ acked[k] <= vssData[k]

\* The backup is never behind the browser's database: VSS first, then IndexedDB.
BackupNotBehind == \A k \in Key \ closed : idb[k] <= vssData[k]

\* Neither store ever goes back to an older monitor of a channel, although every retry
\* overwrites what it finds and an abandoned put may land at any time; only a backup
\* that was ahead when the tab died goes back to the local copy, which is loaded and
\* written again.
NeverOlder ==
  [][\A k \in Key \ closed' :
       /\ idb'[k] >= idb[k]
       /\ vssData'[k] >= vssData[k] \/ vssData'[k] = idb[k]]_vars

\* When no manifest write is waiting or running, the backup lists exactly the keys the
\* persister knows, even if the tab died before a write or an answer was lost: the chain in
\* writeManifest loses no update, and a restarted wallet heals the list.  Only a wallet
\* that loads no monitor does not write it.
QuietManifest ==
  running /\ manQueue = 0 /\ manPc = "idle" /\ monitorKeys # {} => manKeys = monitorKeys

\* Every channel's chain drains again and again: no channel is halted for good by a
\* finite number of failures, since the retries are indefinite.
NoChannelHaltsForever == \A k \in Key : []<>(pc[k] = "idle")

\* The persister implements what it promises.
Promise == INSTANCE MonitorStore WITH
             remote <- vssData, local <- idb, acked <- acked, retired <- closed
ImplementsMonitorStore == Promise!SSpec
=============================================================================
