----------------------------- MODULE StableStore -----------------------------
(***************************************************************************)
(* What the stable balance and the splice controller share: a snapshot     *)
(* kept in memory, in VSS under a version and in IndexedDB (StableStore    *)
(* and SpliceController.save), and LDK's event queue behind the replay     *)
(* gate of stable/event-gate.ts.                                           *)
(*                                                                         *)
(* The wallet runs with VSS, so load() always ends with the VSS object:    *)
(* the IndexedDB record is read only by loadSpliceReservations and         *)
(* assertNoPendingSplice.  Versions are abstracted to "the client's        *)
(* version is the server's" (~behind): no other owner writes these keys    *)
(* while the wallet lock is held.                                          *)
(***************************************************************************)
EXTENDS Integers, Sequences

CONSTANT Scopes          \* the bounds to explore, one chosen per behaviour
ASSUME ScopesAssumption ==
  \A s \in Scopes : /\ {s.faults, s.intents, s.msgs, s.splices} \subseteq Nat
                     /\ s.prices \subseteq Nat \ {0}

VARIABLES
  mem, rem, disk,        \* the state in memory, in VSS, in IndexedDB, by owner
  behind,                \* owners whose cached version is older than the server's
  unflushed,             \* StableStore.pendingLocal is set
  faults,                \* failed writes and crashes so far
  scope,                 \* faults, intents, msgs, splices: how many at most;
                         \* prices: sats per dollar; env: what else may happen
  sess,                  \* "off", "recovering" (runtime not loaded), "up"
  evq,                   \* LDK's pending events, the head is delivered first
  gate,                  \* the gate's entry for the head event
  unsaved                \* acknowledged events the stored ChannelManager still holds

Owners == {"stable", "splice"}
storeVars == <<mem, rem, disk, behind, unflushed>>
queueVars == <<evq, gate, unsaved>>

Fault == faults < scope.faults /\ faults' = faults + 1

(* The outcomes of one save: written everywhere; accepted by VSS with the   *)
(* local write failing; accepted with the answer lost; refused.  A client   *)
(* whose version is behind is refused every time.                          *)
Saves == {"ok", "local", "lost", "refused"}

Save(o, next, out) ==
  /\ out \in Saves
  /\ o \in behind => out = "refused"
  /\ IF out = "ok" \/ o \in behind THEN UNCHANGED faults ELSE Fault
  /\ rem' = IF out = "refused" THEN rem ELSE [rem EXCEPT ![o] = next]
  /\ mem' = IF out \in {"ok", "local"} THEN [mem EXCEPT ![o] = next] ELSE mem
  /\ disk' = IF out = "ok" THEN [disk EXCEPT ![o] = next] ELSE disk
  /\ behind' = IF out = "lost" THEN behind \cup {o} ELSE behind
  /\ unflushed' = (unflushed \/ (out = "local" /\ o = "stable"))

(* flush() before a job or a save: a failing one throws and changes nothing *)
Flush ==
  /\ sess = "up" /\ unflushed
  /\ unflushed' = FALSE
  /\ disk' = [disk EXCEPT !["stable"] = mem["stable"]]
  /\ UNCHANGED <<mem, rem, behind>>

(* load() of both owners: the VSS object replaces the local record *)
Load ==
  /\ mem' = rem /\ disk' = rem
  /\ behind' = {} /\ unflushed' = FALSE
  /\ UNCHANGED rem

Head1 == evq[1]

Emit(e) == evq' = Append(evq, e)

(* The gate answered true: LDK drops the event, the stored manager later *)
Acknowledge ==
  /\ evq' = Tail(evq)
  /\ unsaved' = Append(unsaved, Head1)
  /\ gate' = "none"

(* Mutant: a rejected handler is taken for done, the event is acknowledged *)
GateSettlesAlways(done) ==
  /\ gate' = "done"
  /\ UNCHANGED <<evq, unsaved>>

(* Work started by the gate ends: resolved, or rejected and forgotten *)
GateSettles(done) ==
  /\ gate' = IF done THEN "done" ELSE "none"
  /\ UNCHANGED <<evq, unsaved>>

(* After a crash LDK starts from the stored manager and replays *)
ReplayAll ==
  /\ evq' = unsaved \o evq
  /\ unsaved' = <<>>
  /\ gate' = "none"
=============================================================================
