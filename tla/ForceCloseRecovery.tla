-------------------------- MODULE ForceCloseRecovery --------------------------
(***************************************************************************)
(* The deposit ask of a force close that cannot pay its fees               *)
(* (ldk/recovery): enterRecovery from the bump events, the state in        *)
(* IndexedDB and on VSS, the exit reconcile and the auto-recovery of the   *)
(* chain-sync tick (ldk/context.tsx), the user's dismissal.                *)
(*                                                                         *)
(* A recovery state is its status and the channels it lists; NoAsk is the  *)
(* absence of one.  Each of the asynchronous paths reads the state, waits, *)
(* and writes or deletes it, with no lock between them.                    *)
(***************************************************************************)
EXTENDS Integers, FiniteSets

CONSTANTS StuckChannels, \* channels that are force-closed without CPFP funds
          MaxSweeps,     \* bound: sweeps that succeed
          RecoveryFaults \* restarts and failed VSS calls
ASSUME RecoveryAssumption ==
  IsFiniteSet(StuckChannels) /\ MaxSweeps \in Nat /\ RecoveryFaults \in Nat

VARIABLES
  close,                 \* per channel: "open", "stuck", "confirmed", "completed"
  scanned,               \* the initial wallet scan has landed
  askIdb, askVss,        \* the recovery state
  entering,              \* enterRecovery calls: channel and the state they read
  clearing, recovering,  \* the exit reconcile and the auto-recovery
  sweeps, recoveryFaults

recoveryVars == <<close, scanned, askIdb, askVss, entering, clearing, recovering, sweeps,
                  recoveryFaults>>

NoAsk == [status |-> "none", channels |-> {}]
NoTask == [pc |-> "idle", seen |-> NoAsk]
RecoveryFault == recoveryFaults < RecoveryFaults /\ recoveryFaults' = recoveryFaults + 1

RecoveryInit ==
  /\ close = [c \in StuckChannels |-> "open"] /\ scanned \in BOOLEAN
  /\ askIdb = NoAsk /\ askVss = NoAsk /\ entering = {}
  /\ clearing = NoTask /\ recovering = NoTask /\ sweeps = 0 /\ recoveryFaults = 0

(* writeRecoveryState: IndexedDB, and VSS unless the call fails *)
WriteAsk(ask) ==
  /\ askIdb' = ask
  /\ \/ askVss' = ask /\ UNCHANGED recoveryFaults
     \/ RecoveryFault /\ UNCHANGED askVss

-----------------------------------------------------------------------------
(* LDK force-closes; the close confirms, and completes, in the record *)
CloseAdvances ==
  /\ \E c \in StuckChannels :
       close' = [close EXCEPT ![c] =
                   CASE @ = "open" -> "stuck" [] @ = "stuck" -> "confirmed"
                      [] OTHER -> "completed"]
  /\ UNCHANGED <<scanned, askIdb, askVss, entering, clearing, recovering, sweeps,
                 recoveryFaults>>

ScanLands ==
  /\ ~scanned /\ scanned' = TRUE
  /\ UNCHANGED <<close, askIdb, askVss, entering, clearing, recovering, sweeps,
                 recoveryFaults>>

(* BumpTransaction without a confirmed coin, again at every block until the *)
(* close confirms: enterRecovery reads the state and asks for a fee rate    *)
EnterRecovery(c) ==
  /\ close[c] = "stuck" /\ scanned /\ \A e \in entering : e[1] # c
  /\ entering' = entering \cup {<<c, askIdb>>}
  /\ UNCHANGED <<close, scanned, askIdb, askVss, clearing, recovering, sweeps,
                 recoveryFaults>>

(* ... and adds its channel to the state it read, or opens one *)
AggregateNot(ask, c) == ask
Aggregate(ask, c) == [ask EXCEPT !.channels = @ \cup {c}]

WriteRecovery(c) ==
  \E e \in entering :
    /\ e[1] = c /\ entering' = entering \ {e}
    /\ IF e[2] = NoAsk THEN WriteAsk([status |-> "needs_recovery", channels |-> {c}])
       ELSE IF c \notin e[2].channels THEN WriteAsk(Aggregate(e[2], c))
       ELSE UNCHANGED <<askIdb, askVss, recoveryFaults>>
    /\ UNCHANGED <<close, scanned, clearing, recovering, sweeps>>

-----------------------------------------------------------------------------
(* closeConfirmedForAllChannels *)
ResolvedOnceCompleted(channels) == channels # {} /\ \A c \in channels : close[c] = "completed"
Resolved(channels) ==
  channels # {} /\ \A c \in channels : close[c] \in {"confirmed", "completed"}

(* clearRecoveryState: IndexedDB first; a VSS delete that fails is a warning *)
ClearAsk ==
  /\ askIdb' = NoAsk
  /\ \/ askVss' = NoAsk /\ UNCHANGED recoveryFaults
     \/ RecoveryFault /\ UNCHANGED askVss

(* maybeClearResolvedRecovery, every tick *)
ReadForExit ==
  /\ clearing.pc = "idle" /\ askIdb.status = "needs_recovery"
  /\ clearing' = [pc |-> "check", seen |-> askIdb]
  /\ UNCHANGED <<close, scanned, askIdb, askVss, entering, recovering, sweeps, recoveryFaults>>
ExitRecovery ==
  /\ clearing.pc = "check" /\ clearing' = NoTask
  /\ IF Resolved(clearing.seen.channels) THEN ClearAsk
     ELSE UNCHANGED <<askIdb, askVss, recoveryFaults>>
  /\ UNCHANGED <<close, scanned, entering, recovering, sweeps>>

(* maybeAutoRecover: a sweep that succeeds turns the state it read into     *)
(* "sweep_confirmed"                                                        *)
ReadForSweep ==
  /\ recovering.pc = "idle" /\ askIdb.status = "needs_recovery" /\ sweeps < MaxSweeps
  /\ recovering' = [pc |-> "sweep", seen |-> askIdb]
  /\ UNCHANGED <<close, scanned, askIdb, askVss, entering, clearing, sweeps, recoveryFaults>>
AutoRecover ==
  /\ recovering.pc = "sweep" /\ recovering' = NoTask
  /\ \/ /\ sweeps' = sweeps + 1
        /\ WriteAsk([recovering.seen EXCEPT !.status = "sweep_confirmed"])
     \/ UNCHANGED <<askIdb, askVss, sweeps, recoveryFaults>>
  /\ UNCHANGED <<close, scanned, entering, clearing>>

(* The user dismisses the success banner *)
Dismiss ==
  /\ askIdb.status = "sweep_confirmed" /\ ClearAsk
  /\ UNCHANGED <<close, scanned, entering, clearing, recovering, sweeps>>

(* A restart: seedRecoveryVssVersion takes the VSS state if none is local *)
RestartRecovery ==
  /\ RecoveryFault /\ entering' = {} /\ clearing' = NoTask /\ recovering' = NoTask
  /\ askIdb' = IF askIdb = NoAsk THEN askVss ELSE askIdb
  /\ UNCHANGED <<close, scanned, askVss, sweeps>>

RecoveryNext ==
  \/ CloseAdvances \/ ScanLands \/ ReadForExit \/ ExitRecovery \/ ReadForSweep \/ AutoRecover
  \/ Dismiss \/ RestartRecovery
  \/ \E c \in StuckChannels : EnterRecovery(c) \/ WriteRecovery(c)

RecoverySpec == RecoveryInit /\ [][RecoveryNext]_recoveryVars

-----------------------------------------------------------------------------
RecoveryTypeOK ==
  /\ close \in [StuckChannels -> {"open", "stuck", "confirmed", "completed"}]
  /\ \A ask \in {askIdb, askVss} : ask.channels \subseteq StuckChannels

Asked(c) == askIdb.status = "needs_recovery" /\ c \in askIdb.channels

(* Again and again every channel that is stuck is asked for: neither two    *)
(* force closes at once, nor a clear or an auto-recovery that read an older *)
(* state hides one for good.                                                *)
StuckGetsAsked ==
  []<>(\A c \in StuckChannels : close[c] = "stuck" => Asked(c))

(* An ask nobody needs goes away: when every listed close is confirmed, it  *)
(* is cleared, and a failed VSS delete that a restart seeds from is cleared *)
(* again.                                                                   *)
AskGoesAway ==
  (askIdb.status = "needs_recovery"
     /\ \A c \in StuckChannels : close[c] \in {"confirmed", "completed"})
     ~> (askIdb.status # "needs_recovery")
=============================================================================
