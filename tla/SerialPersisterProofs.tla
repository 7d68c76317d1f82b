----------------------- MODULE SerialPersisterProofs -----------------------
(***************************************************************************)
(* Proofs about SerialPersister: for any set of callers and any number of  *)
(* changes and failures, with or without a dirty bit.                      *)
(***************************************************************************)
EXTENDS SerialPersister, TLAPS

\* What the flags and the write in flight leave uncovered is already saved: Covered(n)
\* says that the state after change n will be in the store if nothing more is signalled.
Covered(n) ==
  \/ pendingDirty \/ mustRetry
  \/ loop = "capture"
  \/ loop = "write" /\ n <= captured
  \/ n <= saved

\* What is known of the persister itself...
Core ==
  /\ saved <= now /\ captured <= now /\ told <= now
  /\ dirty => HasPendingWork
  /\ loop = "capture" => ~HasPendingWork
  /\ loop = "write" => saved <= captured
  /\ loop # "none" => ~mustRetry
  /\ Covered(told)
  /\ HasPendingWork /\ ~dirty => Covered(now)

\* ... and of those who wait for it.
Callers ==
  \A c \in Caller :
    /\ call[c] = "waiting" => loop # "none" /\ want[c] <= told
    /\ call[c] = "resolved" /\ ~cancelled => want[c] <= saved

IInv == TypeOK /\ Core /\ Callers

\* The flags stay flags.
LEMMA FlagsStep == FlagsOK /\ [Next]_vars => FlagsOK'
<1> SUFFICES ASSUME FlagsOK, [Next]_vars PROVE FlagsOK'
  OBVIOUS
<1> USE PersisterAssumption DEF FlagsOK, flags
<1>1. CASE Change
  BY <1>1, Zenon DEF Change
<1>2. ASSUME Schedule, UNCHANGED HasPendingWork PROVE FlagsOK'
  BY <1>2 DEF Schedule, Begin, ConsumeDirty
<1>3. CASE Tick
  BY <1>2, <1>3 DEF Tick
<1>4. CASE Capture
  BY <1>4 DEF Capture
<1>5. CASE WriteOk
  BY <1>5 DEF WriteOk, Begin
<1>6. CASE WriteFails
  BY <1>6 DEF WriteFails
<1>7. CASE Cancel
  BY <1>7 DEF Cancel
<1>8. ASSUME NEW c \in Caller, Call(c) PROVE FlagsOK'
  BY <1>2, <1>8 DEF Call
<1>9. CASE UNCHANGED vars
  BY <1>9 DEF vars
<1> QED
  BY <1>1, <1>3, <1>4, <1>5, <1>6, <1>7, <1>8, <1>9 DEF Next

\* A call that is not suppressed keeps what is known of the persister, tells it of the
\* present state, and starts or joins no write only if that state is saved.
LEMMA ScheduleStep ==
  ASSUME TypeOK, Core, Schedule, UNCHANGED <<HasPendingWork, now, saved>>
  PROVE  /\ Core'
         /\ told' = now /\ captured' \in Nat
         /\ loop' \in {"none", "capture", "write"}
         /\ loop # "none" => loop' # "none"
         /\ loop' = "none" => now <= saved
<1> USE PersisterAssumption DEF TypeOK, FlagsOK, Core, Covered
<1>1. CASE loop = "none" /\ (pendingDirty \/ mustRetry \/ ~HasPendingWork \/ dirty)
  <2>1. Begin /\ dirty' = FALSE /\ told' = now
    BY <1>1 DEF Schedule
  <2>2. CASE HasPendingWork
    BY <1>1, <2>1, <2>2 DEF Begin
  <2>3. CASE ~HasPendingWork
    BY <1>1, <2>1, <2>3 DEF Begin
  <2> QED BY <2>2, <2>3
<1>2. CASE ~(loop = "none" /\ (pendingDirty \/ mustRetry \/ ~HasPendingWork \/ dirty))
  <2>1. ConsumeDirty /\ UNCHANGED <<loop, captured, mustRetry>> /\ told' = now
    BY <1>2 DEF Schedule
  <2>2. CASE loop = "none"
    BY <1>2, <2>1, <2>2 DEF ConsumeDirty
  <2>3. CASE loop # "none" /\ ~(pendingDirty \/ ~HasPendingWork \/ dirty)
    <3>1. ~pendingDirty' /\ ~dirty'
      BY <2>1, <2>3 DEF ConsumeDirty
    <3> QED BY <2>1, <2>3, <3>1
  <2>4. CASE loop # "none" /\ (pendingDirty \/ ~HasPendingWork \/ dirty)
    <3>1. pendingDirty' /\ ~dirty'
      BY <2>1, <2>4 DEF ConsumeDirty
    <3> QED BY <2>1, <2>4, <3>1
  <2> QED BY <2>2, <2>3, <2>4
<1> QED BY <1>1, <1>2

\* The invariant is inductive.
LEMMA InvStep == IInv /\ [Next]_vars => IInv'
<1> SUFFICES ASSUME IInv, [Next]_vars PROVE IInv'
  OBVIOUS
<1> DEFINE Rest == /\ now \in Nat /\ captured \in Nat /\ saved \in Nat /\ told \in Nat
                   /\ loop \in {"none", "capture", "write"}
                   /\ call \in [Caller -> {"none", "waiting", "resolved", "rejected"}]
                   /\ want \in [Caller -> Nat]
                   /\ failures \in Nat
                   /\ Core
                   /\ Callers
<1> SUFFICES Rest'
  BY FlagsStep DEF IInv, TypeOK
<1>a. HasPendingWork' = HasPendingWork
  BY DEF Next, Change, Tick, Capture, WriteOk, WriteFails, Cancel, Call, vars
<1> USE <1>a, PersisterAssumption DEF IInv, TypeOK
<1>1. CASE Change
  BY <1>1 DEF Change, FlagsOK, Core, Callers, Covered, flags, calls
<1>2. CASE Tick
  <2>1. Schedule /\ UNCHANGED <<now, saved, call, want, failures>>
    BY <1>2 DEF Tick, calls
  <2>2. Core' /\ told' = now /\ captured' \in Nat /\ loop' \in {"none", "capture", "write"}
        /\ (loop # "none" => loop' # "none") /\ cancelled' = cancelled
    BY <2>1, ScheduleStep DEF Schedule
  <2>3. Callers'
    BY <2>1, <2>2 DEF Callers, Core
  <2> QED BY <2>1, <2>2, <2>3
<1>3. CASE Capture
  BY <1>3 DEF Capture, FlagsOK, Core, Callers, Covered, flags, calls
<1>4. CASE WriteOk
  <2>1. CASE ~cancelled /\ (pendingDirty \/ dirty)
    <3>1. /\ Begin /\ saved' = captured /\ loop = "write"
          /\ dirty' = FALSE /\ UNCHANGED <<now, told, want, failures, cancelled, call>>
      BY <1>4, <2>1 DEF WriteOk, FlagsOK
    <3>2. CASE HasPendingWork
      BY <2>1, <3>1, <3>2 DEF Begin, FlagsOK, Core, Callers, Covered
    <3>3. CASE ~HasPendingWork
      BY <2>1, <3>1, <3>3 DEF Begin, FlagsOK, Core, Callers, Covered
    <3> QED BY <3>2, <3>3
  <2>2. CASE ~(~cancelled /\ (pendingDirty \/ dirty))
    <3>1. /\ loop = "write" /\ loop' = "none" /\ saved' = captured /\ Settle("resolved")
          /\ dirty' = (cancelled /\ dirty)
          /\ UNCHANGED <<now, told, want, failures, captured, pendingDirty, mustRetry, cancelled>>
      BY <1>4, <2>2 DEF WriteOk, flags
    <3>2. Core'
      BY <2>2, <3>1 DEF FlagsOK, Core, Covered
    <3>3. call' \in [Caller -> {"none", "waiting", "resolved", "rejected"}]
      BY <3>1 DEF Settle
    <3>4. Callers'
      BY <2>2, <3>1 DEF FlagsOK, Core, Callers, Covered, Settle
    <3> QED BY <3>1, <3>2, <3>3, <3>4
  <2> QED BY <2>1, <2>2
<1>5. CASE WriteFails
  BY <1>5 DEF WriteFails, Settle, FlagsOK, Core, Callers, Covered, flags
<1>6. CASE Cancel
  BY <1>6 DEF Cancel, FlagsOK, Core, Callers, Covered, calls
<1>7. ASSUME NEW c \in Caller, Call(c) PROVE Rest'
  <2>1. /\ call' = [call EXCEPT ![c] = IF cancelled \/ loop' = "none" THEN "resolved" ELSE "waiting"]
        /\ want' = [want EXCEPT ![c] = now]
        /\ UNCHANGED <<now, saved, failures>>
    BY <1>7 DEF Call
  <2>2. CASE Schedule
    <3>1. Core' /\ told' = now /\ captured' \in Nat /\ loop' \in {"none", "capture", "write"}
          /\ (loop # "none" => loop' # "none") /\ (loop' = "none" => now <= saved)
          /\ cancelled' = cancelled /\ ~cancelled
      BY <2>1, <2>2, ScheduleStep DEF Schedule
    <3>2. Callers'
      BY <2>1, <3>1 DEF Callers, Core
    <3> QED BY <2>1, <3>1, <3>2
  <2>3. CASE cancelled /\ UNCHANGED <<dirty, loop, captured, flags, told>>
    BY <2>1, <2>3 DEF FlagsOK, Core, Callers, Covered, flags
  <2> QED BY <1>7, <2>2, <2>3 DEF Call
<1>8. CASE UNCHANGED vars
  BY <1>8 DEF vars, FlagsOK, Core, Callers, Covered, flags, calls
<1> QED
  BY <1>1, <1>2, <1>3, <1>4, <1>5, <1>6, <1>7, <1>8 DEF Next

\* The invariant holds in every reachable state.
THEOREM Invariance == Spec => []IInv
<1>1. Init => IInv
  <2> SUFFICES ASSUME Init PROVE IInv
    OBVIOUS
  <2>1. FlagsOK
    BY DEF Init, FlagsOK
  <2>2. Core
    BY DEF Init, Core, Covered
  <2>3. Callers
    BY DEF Init, Callers
  <2> QED
    BY <2>1, <2>2, <2>3 DEF Init, IInv, TypeOK
<1> QED
  BY <1>1, InvStep, PTL DEF Spec

\* The persister loses no signal: idle and clean, it has saved all it was told of.
THEOREM NothingLost == Spec => []CleanMeansSaved
<1>1. IInv => CleanMeansSaved
  <2> SUFFICES ASSUME IInv, loop = "none", ~pendingDirty, ~mustRetry
               PROVE  told <= saved /\ (HasPendingWork /\ ~dirty => saved = now)
    BY DEF CleanMeansSaved
  <2>1. told <= saved /\ (HasPendingWork /\ ~dirty => now <= saved)
    BY DEF IInv, Core, Covered
  <2> QED BY <2>1 DEF IInv, Core, TypeOK
<1> QED
  BY <1>1, Invariance, PTL

\* Until it is cancelled, what a caller awaited is saved, however calls coalesce and
\* writes fail.
THEOREM AwaitIsDurable == Spec => []AwaitMeansSaved
<1>1. IInv => AwaitMeansSaved
  BY DEF IInv, Callers, AwaitMeansSaved
<1> QED
  BY <1>1, Invariance, PTL
=============================================================================
