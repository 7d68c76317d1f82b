----------------------------- MODULE CmPersist -----------------------------
(***************************************************************************)
(* How the ChannelManager is saved: persistChannelManager (persist-cm.ts)  *)
(* with the conflict retry of vss-write.ts, run by a serial persister,     *)
(* next to the IndexedDB-only write of a tab being hidden, by the tabs     *)
(* that own the wallet one after the other (init.ts, context.tsx).         *)
(*                                                                         *)
(* Unlike a monitor the manager is not numbered: a tab takes it over from  *)
(* IndexedDB and goes its own way.  So a manager is the set of changes it  *)
(* has been through, a change being named by the tab that made it.         *)
(*                                                                         *)
(* The wallet is an established one: both stores hold its manager.  The    *)
(* serial persister is modelled in SerialPersister; here LDK's dirty bit   *)
(* and its pendingDirty are one flag.  A request and its effect are one    *)
(* step; one that outlives its client waits in `late`.  IndexedDB runs its *)
(* transactions in the order they are submitted; a write of the persister  *)
(* still counts as pending here while a later one of a hidden tab passes.  *)
(***************************************************************************)
EXTENDS Naturals, FiniteSets

CONSTANTS
  MaxTabs,            \* bound: tabs opened one after the other
  MaxChanges,         \* bound: changes a tab makes
  MaxFaults,          \* bound: faults in a behaviour
  Faults              \* the fault kinds a run allows

FaultKind == {"put", "lost", "late", "get", "idb", "seed"}

ASSUME CmAssumption ==
  /\ MaxTabs \in Nat \ {0}
  /\ MaxChanges \in Nat
  /\ MaxFaults \in Nat
  /\ Faults \subseteq FaultKind

Tab == 1..MaxTabs
Manager == SUBSET (Tab \X (1..MaxChanges))

VARIABLES
  \* the stores, key channel_manager
  vssVer, vssData,
  late,               \* abandoned puts the server may still process
  idb,
  \* each tab
  life,               \* unopened, seeding, loading, live, torn down, gone
  mem,                \* its ChannelManager
  dirty,              \* needs_persistence, or pendingDirty
  mustRetry,
  phase, data,        \* the write in flight: where it stands, what it carries
  ver,                \* cmVersionRef
  grace,              \* the wallet lock was acquired less than a second ago
  \* history
  overlap,            \* a tab was opened while another one was alive
  saved,              \* changes a completed write has carried
  faults

stores == <<vssVer, vssData, late, idb>>
tabs == <<life, mem, ver, grace>>
flags == <<dirty, mustRetry>>
history == <<overlap, saved>>
vars == <<stores, tabs, flags, phase, data, history, faults>>

Spend(kind) ==
  /\ kind \in Faults
  /\ faults < MaxFaults
  /\ faults' = faults + 1

Init ==
  /\ vssVer = 1 /\ vssData = {} /\ late = {} /\ idb = {}
  /\ life = [t \in Tab |-> IF t = 1 THEN "live" ELSE "unopened"]
  /\ mem = [t \in Tab |-> {}]
  /\ dirty = [t \in Tab |-> FALSE] /\ mustRetry = [t \in Tab |-> FALSE]
  /\ phase = [t \in Tab |-> "idle"] /\ data = [t \in Tab |-> {}]
  /\ ver = [t \in Tab |-> 1]
  /\ grace = [t \in Tab |-> FALSE]
  /\ overlap = FALSE /\ saved = {}
  /\ faults = 0

Own(t) == {c \in mem[t] : c[1] = t}
Running(t) == life[t] \in {"live", "torn"}

-----------------------------------------------------------------------------
(* The life of a tab.                                                      *)

\* acquireWalletLock: tell the other tab to shut down, then steal the lock.
AcquireWalletLock(t) ==
  /\ life[t] = "unopened"
  /\ \A s \in 1..(t - 1) : life[s] \in {"live", "torn", "gone"}
  /\ life' = [life EXCEPT ![t] = "seeding"]
  /\ grace' = [grace EXCEPT ![t] = TRUE]
  /\ overlap' = (overlap \/ \E s \in 1..(t - 1) : life[s] # "gone")
  /\ UNCHANGED <<stores, mem, ver, flags, phase, data, saved, faults>>

\* The version the server holds; 0 if it cannot be had.
Seed(t) ==
  /\ life[t] = "seeding"
  /\ life' = [life EXCEPT ![t] = "loading"]
  /\ \/ ver' = [ver EXCEPT ![t] = vssVer] /\ UNCHANGED faults
     \/ ver' = [ver EXCEPT ![t] = 0] /\ Spend("seed")
  /\ UNCHANGED <<stores, mem, grace, flags, phase, data, history>>

\* A bug to catch: a tab that could not fetch its versions starts with a fresh manager.
LoadUnseeded(t) ==
  /\ life[t] = "loading"
  /\ life' = [life EXCEPT ![t] = "live"]
  /\ mem' = [mem EXCEPT ![t] = IF ver[t] = 0 THEN {} ELSE idb]
  /\ UNCHANGED <<stores, ver, grace, flags, phase, data, history, faults>>

\* The manager of IndexedDB is read and the wallet is up.
Load(t) ==
  /\ life[t] = "loading"
  /\ life' = [life EXCEPT ![t] = "live"]
  /\ mem' = [mem EXCEPT ![t] = idb]
  /\ UNCHANGED <<stores, ver, grace, flags, phase, data, history, faults>>

\* TAKEOVER_GRACE_MS have passed.
GraceEnds(t) ==
  /\ grace[t] /\ Running(t)
  /\ grace' = [grace EXCEPT ![t] = FALSE]
  /\ UNCHANGED <<stores, life, mem, ver, flags, phase, data, history, faults>>

\* The takeover message arrives: cancel the persister, stop whatever changes the
\* manager.  A write in flight goes on.
Teardown(t) ==
  /\ life[t] = "live"
  /\ \E s \in (t + 1)..MaxTabs : life[s] # "unopened"
  /\ life' = [life EXCEPT ![t] = "torn"]
  /\ UNCHANGED <<stores, mem, ver, grace, flags, phase, data, history, faults>>

\* The request on its way for t, once its client no longer waits for it.
Abandoned(t) == [data |-> data[t], ver |-> ver[t]]

\* The browser closes the tab: its memory is gone, and a request on its way may still
\* reach the server.
Close(t) ==
  /\ life[t] \in {"live", "torn"}
  /\ t < MaxTabs
  /\ life' = [life EXCEPT ![t] = "gone"]
  /\ \/ UNCHANGED late
     \/ phase[t] \in {"put", "reput"} /\ late' = late \union {Abandoned(t)}
  /\ mem' = [mem EXCEPT ![t] = {}] /\ data' = [data EXCEPT ![t] = {}]
  /\ dirty' = [dirty EXCEPT ![t] = FALSE] /\ mustRetry' = [mustRetry EXCEPT ![t] = FALSE]
  /\ phase' = [phase EXCEPT ![t] = "idle"]
  /\ ver' = [ver EXCEPT ![t] = 0] /\ grace' = [grace EXCEPT ![t] = FALSE]
  /\ UNCHANGED <<vssVer, vssData, idb, history, faults>>

\* LDK changes the manager and sets its dirty bit.
Change(t) ==
  /\ life[t] = "live"
  /\ Cardinality(Own(t)) < MaxChanges
  /\ mem' = [mem EXCEPT ![t] = @ \union {<<t, Cardinality(Own(t)) + 1>>}]
  /\ dirty' = [dirty EXCEPT ![t] = TRUE]
  /\ UNCHANGED <<stores, life, ver, grace, mustRetry, phase, data, history, faults>>

\* The tab is hidden: persistChannelManagerIdbOnly, whatever the persister is doing.
Hide(t) ==
  /\ life[t] = "live"
  /\ idb' = mem[t]
  /\ UNCHANGED <<vssVer, vssData, late, tabs, flags, phase, data, history, faults>>

-----------------------------------------------------------------------------
(* persistChannelManager, under its serial persister.                      *)

\* The flags are consumed and the manager is serialised.
Begin(t) ==
  /\ dirty' = [dirty EXCEPT ![t] = FALSE]
  /\ mustRetry' = [mustRetry EXCEPT ![t] = FALSE]
  /\ data' = [data EXCEPT ![t] = mem[t]]
  /\ phase' = [phase EXCEPT ![t] = "put"]

\* schedule() by an event or the sync loop finds work and nothing in flight.
Schedule(t) ==
  /\ life[t] = "live"
  /\ phase[t] = "idle"
  /\ dirty[t] \/ mustRetry[t]
  /\ Begin(t)
  /\ UNCHANGED <<stores, tabs, history, faults>>

\* The write in flight goes from one of the phases p to q.
Step(t, p, q) ==
  /\ Running(t)
  /\ phase[t] \in p
  /\ phase' = [phase EXCEPT ![t] = q]
  /\ UNCHANGED <<life, mem, grace, dirty, data>>

\* A bug to catch: the failure is reported and nothing is latched.
FailForgotten(t, p) ==
  /\ Step(t, p, "idle")
  /\ UNCHANGED <<mustRetry, overlap, saved>>

\* The write is given up: mustRetry, for the next schedule().
Fail(t, p) ==
  /\ Step(t, p, "idle")
  /\ mustRetry' = [mustRetry EXCEPT ![t] = TRUE]
  /\ UNCHANGED <<overlap, saved>>

\* The server's compare-and-set.
Accepts(v) == v = vssVer

Store(d) ==
  /\ vssVer' = vssVer + 1
  /\ vssData' = d

\* putObject accepted, the first time or with the corrected version.
PutOk(t) ==
  /\ Step(t, {"put", "reput"}, "idb")
  /\ Accepts(ver[t])
  /\ Store(data[t])
  /\ ver' = [ver EXCEPT ![t] = vssVer + 1]
  /\ UNCHANGED <<late, idb, mustRetry, overlap, saved, faults>>

\* Accepted, the answer lost.
PutLost(t) ==
  /\ Fail(t, {"put", "reput"})
  /\ Accepts(ver[t])
  /\ Spend("lost")
  /\ Store(data[t])
  /\ UNCHANGED <<late, idb, ver>>

\* Never reached the server, or a second conflict.
PutFails(t) ==
  /\ \/ Fail(t, {"put", "reput"}) /\ Spend("put")
     \/ Fail(t, {"reput"}) /\ ~Accepts(ver[t]) /\ UNCHANGED faults
  /\ UNCHANGED <<stores, ver>>

\* Timed out on the client and still on its way.
PutTimesOut(t) ==
  /\ Fail(t, {"put", "reput"})
  /\ Spend("late")
  /\ late' = late \union {Abandoned(t)}
  /\ UNCHANGED <<vssVer, vssData, idb, ver>>

PutConflict(t) ==
  /\ Step(t, {"put"}, "get")
  /\ ~Accepts(ver[t])
  /\ UNCHANGED <<stores, ver, mustRetry, history, faults>>

\* A bug to catch: the server's version is only used for the retry.
CorrectVersionForgotten(t) ==
  /\ Fail(t, {"get"})
  /\ UNCHANGED <<stores, ver, faults>>

\* getObject: keep the server's version; put again, unless the wallet lock has just
\* been acquired.
CorrectVersion(t) ==
  /\ ver' = [ver EXCEPT ![t] = vssVer]
  /\ IF grace[t]
     THEN Fail(t, {"get"})
     ELSE Step(t, {"get"}, "reput") /\ UNCHANGED <<mustRetry, overlap, saved>>
  /\ UNCHANGED <<stores, faults>>

GetFails(t) ==
  /\ Fail(t, {"get"})
  /\ Spend("get")
  /\ UNCHANGED <<stores, ver>>

\* idbPut succeeds and the loop looks again: torn down, more to save, or done.
IdbOk(t) ==
  /\ Running(t)
  /\ phase[t] = "idb"
  /\ idb' = data[t]
  /\ saved' = saved \union data[t]
  /\ IF life[t] = "live" /\ dirty[t]
     THEN Begin(t)
     ELSE /\ phase' = [phase EXCEPT ![t] = "idle"]
          /\ UNCHANGED <<flags, data>>
  /\ UNCHANGED <<vssVer, vssData, late, tabs, overlap, faults>>

IdbFails(t) ==
  /\ Fail(t, {"idb"})
  /\ Spend("idb")
  /\ UNCHANGED <<stores, ver>>

\* The server processes, or never sees, a put its client gave up on.
LatePutLands(r) ==
  /\ Accepts(r.ver)
  /\ Store(r.data)
  /\ late' = late \ {r}
  /\ UNCHANGED <<idb, tabs, flags, phase, data, overlap, saved, faults>>

LatePutDropped(r) ==
  /\ late' = late \ {r}
  /\ UNCHANGED <<vssVer, vssData, idb, tabs, flags, phase, data, history, faults>>

-----------------------------------------------------------------------------

Write(t) ==
  \/ PutOk(t) \/ PutLost(t) \/ PutFails(t) \/ PutTimesOut(t)
  \/ PutConflict(t) \/ CorrectVersion(t) \/ GetFails(t)
  \/ IdbOk(t) \/ IdbFails(t)

Next ==
  \/ \E t \in Tab :
       \/ AcquireWalletLock(t) \/ Seed(t) \/ Load(t) \/ GraceEnds(t)
       \/ Teardown(t) \/ Close(t)
       \/ Change(t) \/ Hide(t)
       \/ Schedule(t) \/ Write(t)
  \/ \E r \in late : LatePutLands(r) \/ LatePutDropped(r)

Spec == Init /\ [][Next]_vars

\* A request that was sent settles, and the sync loop calls schedule() again and again
\* while the tab is alive.  Failures are bounded: the network and the database are up in
\* the end.
Fairness == \A t \in Tab : WF_vars(Schedule(t) \/ Write(t))

FairSpec == Spec /\ Fairness

-----------------------------------------------------------------------------
(* Properties.                                                             *)

\* Every variable has its type.
TypeOK ==
  /\ vssVer \in Nat /\ vssData \in Manager /\ idb \in Manager
  /\ late \in SUBSET [data : Manager, ver : Nat]
  /\ life \in [Tab -> {"unopened", "seeding", "loading", "live", "torn", "gone"}]
  /\ mem \in [Tab -> Manager] /\ data \in [Tab -> Manager]
  /\ dirty \in [Tab -> BOOLEAN] /\ mustRetry \in [Tab -> BOOLEAN]
  /\ phase \in [Tab -> {"idle", "put", "get", "reput", "idb"}]
  /\ ver \in [Tab -> Nat] /\ grace \in [Tab -> BOOLEAN]
  /\ overlap \in BOOLEAN /\ saved \in Manager
  /\ faults \in Nat

\* As long as one tab at a time has had the wallet open, a change carried by a write that
\* went through is in both stores from then on, although every retry overwrites what it
\* finds, an abandoned put may land at any time, a hidden tab writes past the persister,
\* and tabs are closed and opened.
SavedIsDurable == ~overlap => saved \subseteq idb /\ saved \subseteq vssData

\* Likewise, once a tab has changed the manager, being idle with nothing flagged means that
\* both stores hold exactly its manager: the write of a hidden tab that an older one of the
\* persister undoes is made up for.
CleanMeansStored ==
  ~overlap =>
    \A t \in Tab :
      life[t] = "live" /\ phase[t] = "idle" /\ ~dirty[t] /\ ~mustRetry[t] /\ Own(t) # {} =>
        vssData = mem[t] /\ idb = mem[t]

\* Again and again, all that a tab has changed is carried by a write that went through, as
\* long as it stays open: conflicts with the tab's own lost writes and the refusals of its
\* first second are resolved, and two tabs that answer each other's conflicts do not starve
\* one another.
ChangesGetSaved == \A t \in Tab : []<>(Own(t) \subseteq saved \/ life[t] # "live")

\* Once every former tab was told to shut down, no write takes a change of the tab that
\* owns the wallet out of the backup.
WinnerNotClobbered ==
  [][\A c \in vssData \ vssData' :
       ~ /\ life[c[1]] = "live"
         /\ \A s \in Tab \ {c[1]} : life[s] \in {"unopened", "torn", "gone"}]_vars
=============================================================================
