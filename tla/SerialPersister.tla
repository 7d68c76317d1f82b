-------------------------- MODULE SerialPersister --------------------------
(***************************************************************************)
(* createSerialPersister of src/src/ldk/storage/serial-persister.ts: one   *)
(* write at a time, bursts of calls coalesced, a failed write retried on   *)
(* the next call.  It writes the ChannelManager (persist-cm.ts), whose     *)
(* dirty bit is its hasPendingWork, and the known peers (known-peers.ts),  *)
(* which have no dirty bit: there every call is work.                      *)
(*                                                                         *)
(* The state to be saved is the number of changes made to it, and what     *)
(* doPersist does is abstracted to saving the state it captured, or        *)
(* failing with or without having saved it.  A caller changes the state,   *)
(* calls schedule() and awaits it; a periodic caller (the chain-sync tick) *)
(* calls it with no change of its own.                                     *)
(*                                                                         *)
(* No microtask but the loop's own runs between its last check and the     *)
(* `finally` that clears inFlight (each is resumed by the settling of one  *)
(* request), so leaving the loop and clearing inFlight are one step.       *)
(***************************************************************************)
EXTENDS Naturals

CONSTANTS
  Caller,             \* those who change the state and await schedule()
  MaxChanges,         \* bound: changes of the state
  MaxFailures         \* bound: failing writes

ASSUME PersisterAssumption ==
  /\ MaxChanges \in Nat
  /\ MaxFailures \in Nat

VARIABLES
  HasPendingWork,     \* whether hasPendingWork is given: which of the two uses it is
  now,                \* changes made so far
  dirty,              \* LDK's needs-persistence bit
  loop,               \* inFlight: none, about to capture, or writing
  captured,           \* what the current write carries
  pendingDirty, mustRetry, cancelled,
  saved,              \* what the store holds
  told,               \* newest change a call that was not suppressed knew of
  call, want,         \* what each caller awaits, and the state it stands for
  failures

flags == <<pendingDirty, mustRetry, cancelled>>
calls == <<call, want>>
vars == <<HasPendingWork, now, dirty, loop, captured, flags, saved, told, calls, failures>>

Init ==
  /\ HasPendingWork \in BOOLEAN
  /\ now = 0 /\ dirty = FALSE
  /\ loop = "none" /\ captured = 0
  /\ pendingDirty = FALSE /\ mustRetry = FALSE /\ cancelled = FALSE
  /\ saved = 0 /\ told = 0
  /\ call = [c \in Caller |-> "none"] /\ want = [c \in Caller |-> 0]
  /\ failures = 0

-----------------------------------------------------------------------------

\* The state changes: LDK sets its bit, a peer is stored.
Change ==
  /\ now < MaxChanges
  /\ now' = now + 1
  /\ dirty' = HasPendingWork
  /\ UNCHANGED <<HasPendingWork, loop, captured, flags, saved, told, calls, failures>>

\* A bug to catch: dirtiness is not recorded while a write is in flight.
ConsumeDirtyWhenIdle ==
  /\ pendingDirty' = (pendingDirty \/ (loop = "none" /\ (~HasPendingWork \/ dirty)))
  /\ dirty' = FALSE

\* consumeDirty: read and clear the dirty bit; without one every call is work.
ConsumeDirty ==
  /\ pendingDirty' = (pendingDirty \/ ~HasPendingWork \/ dirty)
  /\ dirty' = FALSE

\* The head of the loop, entered with work to do: doPersist starts and captures the
\* ChannelManager at once, the peers only once IndexedDB has answered.
Begin ==
  /\ pendingDirty' = FALSE /\ mustRetry' = FALSE
  /\ loop' = IF HasPendingWork THEN "write" ELSE "capture"
  /\ captured' = IF HasPendingWork THEN now ELSE captured

\* schedule() by a caller that was not cancelled, as seen by the persister.
Schedule ==
  /\ ~cancelled
  /\ told' = now
  /\ \/ /\ loop = "none"
        /\ pendingDirty \/ mustRetry \/ ~HasPendingWork \/ dirty
        /\ Begin
        /\ dirty' = FALSE
     \/ /\ loop # "none" \/ ~(pendingDirty \/ mustRetry \/ ~HasPendingWork \/ dirty)
        /\ ConsumeDirty
        /\ UNCHANGED <<loop, captured, mustRetry>>
  /\ UNCHANGED cancelled

\* A caller calls schedule() and awaits the promise: at once fulfilled if there is
\* nothing to do or the persister is cancelled, else that of the loop in flight.
Call(c) ==
  /\ call[c] # "waiting"
  /\ \/ Schedule
     \/ cancelled /\ UNCHANGED <<dirty, loop, captured, flags, told>>
  /\ call' = [call EXCEPT ![c] = IF cancelled \/ loop' = "none" THEN "resolved" ELSE "waiting"]
  /\ want' = [want EXCEPT ![c] = now]
  /\ UNCHANGED <<HasPendingWork, now, saved, failures>>

\* The chain-sync tick calls the ChannelManager's schedule() with no change of its own.
Tick ==
  /\ HasPendingWork
  /\ Schedule
  /\ UNCHANGED <<HasPendingWork, now, saved, calls, failures>>

Capture ==
  /\ loop = "capture"
  /\ loop' = "write"
  /\ captured' = now
  /\ UNCHANGED <<HasPendingWork, now, dirty, flags, saved, told, calls, failures>>

Settle(outcome) == call' = [c \in Caller |-> IF call[c] = "waiting" THEN outcome ELSE call[c]]

\* A bug to catch: the loop runs once, whatever was signalled meanwhile.
WriteOkNoTrailing ==
  /\ loop = "write"
  /\ saved' = captured
  /\ loop' = "none"
  /\ Settle("resolved")
  /\ UNCHANGED <<HasPendingWork, now, dirty, captured, flags, told, want, failures>>

\* doPersist fulfils and the loop looks again: cancelled, more to do, or done.
WriteOk ==
  /\ loop = "write"
  /\ saved' = captured
  /\ IF ~cancelled /\ (pendingDirty \/ dirty)
     THEN /\ Begin
          /\ UNCHANGED <<cancelled, call>>
     ELSE /\ loop' = "none"
          /\ Settle("resolved")
          /\ UNCHANGED <<captured, flags>>
  /\ dirty' = (cancelled /\ dirty)
  /\ UNCHANGED <<HasPendingWork, now, told, want, failures>>

\* A bug to catch: a failed write leaves nothing to retry.
WriteFailsForgotten ==
  /\ loop \in {"capture", "write"}
  /\ failures < MaxFailures
  /\ failures' = failures + 1
  /\ saved' \in {saved, IF loop = "write" THEN captured ELSE saved}
  /\ loop' = "none"
  /\ Settle("rejected")
  /\ UNCHANGED <<HasPendingWork, now, dirty, captured, flags, told, want>>

\* doPersist rejects, its effect made or not: latch the retry and leave the loop.
WriteFails ==
  /\ loop \in {"capture", "write"}
  /\ failures < MaxFailures
  /\ failures' = failures + 1
  /\ saved' \in {saved, IF loop = "write" THEN captured ELSE saved}
  /\ loop' = "none"
  /\ mustRetry' = TRUE
  /\ Settle("rejected")
  /\ UNCHANGED <<HasPendingWork, now, dirty, captured, pendingDirty, cancelled, told, want>>

\* Teardown.
Cancel ==
  /\ ~cancelled
  /\ cancelled' = TRUE
  /\ UNCHANGED <<HasPendingWork, now, dirty, loop, captured, pendingDirty, mustRetry, saved,
                 told, calls, failures>>

Next ==
  \/ Change \/ Tick \/ Capture \/ WriteOk \/ WriteFails \/ Cancel
  \/ \E c \in Caller : Call(c)

Spec == Init /\ [][Next]_vars

\* Every write settles, and the sync loop ticks while the wallet is open.
Fairness == WF_vars(Tick) /\ WF_vars(Capture) /\ WF_vars(WriteOk)
FairSpec == Spec /\ Fairness

-----------------------------------------------------------------------------

\* Flags are Booleans.
FlagsOK ==
  /\ HasPendingWork \in BOOLEAN
  /\ dirty \in BOOLEAN /\ pendingDirty \in BOOLEAN
  /\ mustRetry \in BOOLEAN /\ cancelled \in BOOLEAN

\* Every variable has its type.
TypeOK ==
  /\ FlagsOK
  /\ now \in Nat /\ captured \in Nat /\ saved \in Nat /\ told \in Nat
  /\ loop \in {"none", "capture", "write"}
  /\ call \in [Caller -> {"none", "waiting", "resolved", "rejected"}]
  /\ want \in [Caller -> Nat]
  /\ failures \in Nat

\* Idle with nothing latched, the persister has saved every change it was told of, and
\* every change at all if LDK's bit is clear: no signal is lost between the clearing of
\* a flag and the end of a write.
CleanMeansSaved ==
  loop = "none" /\ ~pendingDirty /\ ~mustRetry =>
    /\ told <= saved
    /\ HasPendingWork /\ ~dirty => saved = now

\* `await schedule()` resolves only once the caller's change is saved, although
\* coalesced callers share one promise, until cancel() turns schedule() into a no-op.
AwaitMeansSaved ==
  ~cancelled => \A c \in Caller : call[c] = "resolved" => want[c] <= saved

\* With the sync loop ticking, every change is saved in the end unless the persister is
\* cancelled: a failure is retried even when no new change signals it.
ChangesGetSaved ==
  \A n \in 1..MaxChanges : HasPendingWork /\ now >= n ~> saved >= n \/ cancelled
=============================================================================
