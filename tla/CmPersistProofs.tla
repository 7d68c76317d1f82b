-------------------------- MODULE CmPersistProofs --------------------------
(***************************************************************************)
(* Proofs about CmPersist.  As long as one tab at a time has had the       *)
(* wallet open (~overlap), what a completed write carried stays in both    *)
(* stores, and a tab with nothing flagged has stored exactly its manager.  *)
(* Once two tabs were alive at once both fail; the run former shows how.   *)
(***************************************************************************)
EXTENDS CmPersist, FiniteSetTheorems, TLAPS

\* Only the last tab opened is not gone.
Alone == \A s \in Tab : life[s] # "unopened" => \A t \in 1..(s - 1) : life[t] = "gone"

\* Nothing holds a change of a tab that is not up yet.
Fresh ==
  \A t \in Tab : life[t] \in {"unopened", "seeding", "loading"} =>
    /\ phase[t] = "idle"
    /\ \A c \in idb : c[1] # t
    /\ \A s \in Tab : \A c \in mem[s] \union data[s] : c[1] # t

\* A tab that writes has everything saved in its manager, and in what it is writing.
Carrying ==
  \A t \in Tab :
    /\ Running(t) => saved \subseteq mem[t]
    /\ phase[t] # "idle" => /\ Running(t)
                            /\ saved \subseteq data[t]
                            /\ data[t] \subseteq mem[t]

\* No tab and no abandoned put is ahead of the server; a put that can still land has
\* everything saved in it.
Lagging ==
  /\ \A t \in Tab : ver[t] <= vssVer
  /\ \A r \in late : r.ver <= vssVer /\ (r.ver = vssVer => saved \subseteq r.data)

\* Between the two writes VSS holds what is being written, and no abandoned put can land.
Halfway ==
  \A t \in Tab : phase[t] = "idb" =>
    vssData = data[t] /\ \A r \in late : r.ver < vssVer

\* A clean tab that is writing is writing its manager; one that has written has stored it
\* for good.
Clean ==
  \A t \in Tab : life[t] = "live" /\ ~dirty[t] /\ Own(t) # {} =>
    /\ phase[t] # "idle" => data[t] = mem[t]
    /\ phase[t] = "idle" /\ ~mustRetry[t] =>
         /\ vssData = mem[t] /\ idb = mem[t]
         /\ \A r \in late : r.ver < vssVer

\* What a completed write carried is in both stores.
Durable == saved \subseteq idb /\ saved \subseteq vssData

\* What one tab at a time can rely on, and the inductive invariant.
Owner == Alone /\ Fresh /\ Carrying /\ Lagging /\ Halfway /\ Clean /\ Durable
OwnerInv == TypeOK /\ (~overlap => Owner)

-----------------------------------------------------------------------------
(* Types.                                                                  *)

\* The changes a tab has made are finitely many, and there is room for one more.
LEMMA OwnCounted ==
  ASSUME TypeOK, NEW t \in Tab
  PROVE  Cardinality(Own(t)) \in Nat
<1>1. IsFiniteSet(Tab) /\ IsFiniteSet(1..MaxChanges)
  BY CmAssumption, FS_Interval DEF Tab
<1>2. IsFiniteSet(Tab \X (1..MaxChanges))
  BY <1>1, FS_Product
<1>3. Own(t) \subseteq Tab \X (1..MaxChanges)
  BY DEF TypeOK, Own, Manager
<1>4. IsFiniteSet(Own(t))
  BY <1>2, <1>3, FS_Subset
<1> QED
  BY <1>4, FS_CardinalityType

\* A change is one of the tab's own, numbered within the bound.
LEMMA ChangeTyped ==
  ASSUME TypeOK, NEW t \in Tab, Change(t)
  PROVE  mem' \in [Tab -> Manager]
<1>1. Cardinality(Own(t)) + 1 \in 1..MaxChanges
  BY OwnCounted, CmAssumption DEF Change
<1>2. <<t, Cardinality(Own(t)) + 1>> \in Tab \X (1..MaxChanges)
  BY <1>1
<1>3. mem[t] \union {<<t, Cardinality(Own(t)) + 1>>} \in Manager
  BY <1>2 DEF TypeOK, Manager
<1> QED
  BY <1>3 DEF TypeOK, Change

\* A write that is given up leaves its tab's variables well typed.
LEMMA FailTyped ==
  ASSUME TypeOK, NEW t \in Tab, NEW p, Fail(t, p)
  PROVE  /\ life' = life /\ mem' = mem /\ grace' = grace /\ dirty' = dirty /\ data' = data
         /\ overlap' = overlap /\ saved' = saved
         /\ mustRetry' \in [Tab -> BOOLEAN]
         /\ phase' \in [Tab -> {"idle", "put", "get", "reput", "idb"}]
<1>1. mustRetry' \in [Tab -> BOOLEAN]
  BY DEF TypeOK, Fail
<1>2. phase' \in [Tab -> {"idle", "put", "get", "reput", "idb"}]
  BY DEF TypeOK, Fail, Step
<1> QED
  BY <1>1, <1>2 DEF Fail, Step

\* Every action keeps the types.
LEMMA TypeStep ==
  ASSUME TypeOK, [Next]_vars
  PROVE  TypeOK'
<1> USE CmAssumption DEF TypeOK, Spend
<1>1. ASSUME NEW t \in Tab, AcquireWalletLock(t) PROVE TypeOK'
  BY <1>1 DEF AcquireWalletLock, stores, flags
<1>2. ASSUME NEW t \in Tab, Seed(t) PROVE TypeOK'
  BY <1>2 DEF Seed, stores, flags, history
<1>3. ASSUME NEW t \in Tab, Load(t) PROVE TypeOK'
  BY <1>3 DEF Load, stores, flags, history
<1>4. ASSUME NEW t \in Tab, GraceEnds(t) PROVE TypeOK'
  BY <1>4 DEF GraceEnds, stores, flags, history
<1>5. ASSUME NEW t \in Tab, Teardown(t) PROVE TypeOK'
  BY <1>5 DEF Teardown, stores, flags, history
<1>6. ASSUME NEW t \in Tab, Close(t) PROVE TypeOK'
  BY <1>6 DEF Close, Abandoned, history, Manager
<1>7. ASSUME NEW t \in Tab, Change(t) PROVE TypeOK'
  BY <1>7, ChangeTyped DEF Change, stores, history
<1>8. ASSUME NEW t \in Tab, Hide(t) PROVE TypeOK'
  BY <1>8 DEF Hide, tabs, flags, history
<1>9. ASSUME NEW t \in Tab, Schedule(t) PROVE TypeOK'
  BY <1>9 DEF Schedule, Begin, stores, tabs, history
<1>10. ASSUME NEW t \in Tab, PutOk(t) PROVE TypeOK'
  BY <1>10 DEF PutOk, Step, Store
<1>11. ASSUME NEW t \in Tab, PutLost(t) PROVE TypeOK'
  BY <1>11, FailTyped DEF PutLost, Store
<1>12. ASSUME NEW t \in Tab, PutFails(t) PROVE TypeOK'
  BY <1>12, FailTyped DEF PutFails, stores
<1>13. ASSUME NEW t \in Tab, PutTimesOut(t) PROVE TypeOK'
  BY <1>13 DEF PutTimesOut, Fail, Step, Abandoned
<1>14. ASSUME NEW t \in Tab, PutConflict(t) PROVE TypeOK'
  BY <1>14 DEF PutConflict, Step, stores, history
<1>15. ASSUME NEW t \in Tab, CorrectVersion(t) PROVE TypeOK'
  <2>1. CASE grace[t]
    BY <1>15, <2>1, FailTyped DEF CorrectVersion, stores
  <2>2. CASE ~grace[t]
    BY <1>15, <2>2 DEF CorrectVersion, Step, stores
  <2> QED
    BY <2>1, <2>2
<1>16. ASSUME NEW t \in Tab, GetFails(t) PROVE TypeOK'
  BY <1>16 DEF GetFails, Fail, Step, stores
<1>17. ASSUME NEW t \in Tab, IdbOk(t) PROVE TypeOK'
  <2>1. CASE life[t] = "live" /\ dirty[t]
    BY <1>17, <2>1 DEF IdbOk, Begin, tabs, Manager
  <2>2. CASE ~(life[t] = "live" /\ dirty[t])
    BY <1>17, <2>2 DEF IdbOk, flags, tabs, Manager
  <2> QED
    BY <2>1, <2>2
<1>18. ASSUME NEW t \in Tab, IdbFails(t) PROVE TypeOK'
  BY <1>18 DEF IdbFails, Fail, Step, stores
<1>19. ASSUME NEW r \in late, LatePutLands(r) PROVE TypeOK'
  BY <1>19 DEF LatePutLands, Store, tabs, flags
<1>20. ASSUME NEW r \in late, LatePutDropped(r) PROVE TypeOK'
  BY <1>20 DEF LatePutDropped, tabs, flags, history
<1>21. CASE UNCHANGED vars
  BY <1>21 DEF vars, stores, tabs, flags, history
<1> QED
  BY <1>1, <1>2, <1>3, <1>4, <1>5, <1>6, <1>7, <1>8, <1>9, <1>10, <1>11, <1>12, <1>13, <1>14,
     <1>15, <1>16, <1>17, <1>18, <1>19, <1>20, <1>21 DEF Next, Write

\* Type correctness, with or without a takeover.
THEOREM TypeCorrect == Spec => []TypeOK
<1>1. ASSUME Init PROVE TypeOK
  <2>1. overlap \in BOOLEAN
    BY <1>1, Zenon DEF Init
  <2> QED
    BY <1>1, <2>1, CmAssumption DEF Init, TypeOK, Tab, Manager
<1> QED
  BY <1>1, TypeStep, PTL DEF Spec

-----------------------------------------------------------------------------
(* One tab at a time.                                                      *)

\* Next to a tab that is alive every other one is gone or not opened yet.
LEMMA OneAlive ==
  ASSUME TypeOK, Alone, NEW s \in Tab, NEW t \in Tab, s # t,
         life[s] \notin {"unopened", "gone"}
  PROVE  life[t] \in {"unopened", "gone"}
<1>1. s < t \/ t < s
  BY DEF Tab
<1>2. CASE s < t
  BY <1>2, s \in 1..(t - 1) DEF Alone, TypeOK, Tab
<1>3. CASE t < s
  BY <1>3, t \in 1..(s - 1) DEF Alone, TypeOK, Tab
<1> QED
  BY <1>1, <1>2, <1>3

\* No tab is told to shut down.
LEMMA NoTeardown ==
  ASSUME TypeOK, Alone, NEW t \in Tab, Teardown(t)
  PROVE  FALSE
<1>1. PICK s \in (t + 1)..MaxTabs : life[s] # "unopened"
  BY DEF Teardown
<1>2. s \in Tab /\ t \in 1..(s - 1)
  BY CmAssumption DEF Tab
<1> QED
  BY <1>1, <1>2 DEF Teardown, Alone

-----------------------------------------------------------------------------
(* What one tab at a time can rely on, part by part.                       *)

\* Only the last tab opened is alive: the next one is opened when it is gone.
LEMMA AloneStep ==
  ASSUME TypeOK, Owner, Next, ~overlap'
  PROVE  Alone'
<1> USE DEF Owner, TypeOK, Alone, Tab
<1>1. ASSUME NEW t \in Tab, AcquireWalletLock(t) PROVE Alone'
  <2>1. /\ life' = [life EXCEPT ![t] = "seeding"] /\ life[t] = "unopened"
        /\ \A s \in 1..(t - 1) : life[s] = "gone"
    BY <1>1 DEF AcquireWalletLock
  <2> QED
    BY <2>1
<1>2. ASSUME NEW t \in Tab, Seed(t) PROVE Alone'
  BY <1>2 DEF Seed, stores, flags, history
<1>3. ASSUME NEW t \in Tab, Load(t) PROVE Alone'
  BY <1>3 DEF Load, stores, flags, history
<1>4. ASSUME NEW t \in Tab, Close(t) PROVE Alone'
  BY <1>4 DEF Close, Abandoned, history
<1>5. ASSUME NEW t \in Tab,
                 \/ GraceEnds(t) \/ Change(t) \/ Hide(t) \/ Schedule(t) \/ PutOk(t) \/ PutLost(t)
                 \/ PutFails(t) \/ PutTimesOut(t) \/ PutConflict(t) \/ CorrectVersion(t)
                 \/ GetFails(t) \/ IdbOk(t) \/ IdbFails(t)
     PROVE  Alone'
  BY <1>5 DEF GraceEnds, stores, flags, history, Change, Hide, tabs, Schedule, Begin,
     PutOk, Step,
       Store, PutLost, Fail, PutFails, PutTimesOut, Abandoned, PutConflict, CorrectVersion,
       GetFails, IdbOk, IdbFails
<1>6. ASSUME NEW r \in late, LatePutLands(r) PROVE Alone'
  BY <1>6 DEF LatePutLands, Store, tabs, flags
<1>7. ASSUME NEW r \in late, LatePutDropped(r) PROVE Alone'
  BY <1>7 DEF LatePutDropped, tabs, flags, history
<1> QED
  BY NoTeardown, <1>1, <1>2, <1>3, <1>4, <1>5, <1>6, <1>7 DEF Next, Write

\* A change is named by the tab that makes it, which is up by then.
LEMMA FreshStep ==
  ASSUME TypeOK, Owner, Next, ~overlap'
  PROVE  Fresh'
<1> USE DEF Owner, TypeOK, Fresh
<1>1. ASSUME NEW t \in Tab, AcquireWalletLock(t) PROVE Fresh'
  BY <1>1 DEF AcquireWalletLock, stores, flags
<1>2. ASSUME NEW t \in Tab, Seed(t) PROVE Fresh'
  BY <1>2 DEF Seed, stores, flags, history
<1>3. ASSUME NEW t \in Tab, Load(t) PROVE Fresh'
  BY <1>3 DEF Load, stores, flags, history
<1>4. ASSUME NEW t \in Tab, Close(t) PROVE Fresh'
  BY <1>4 DEF Close, Abandoned, history
<1>5. ASSUME NEW t \in Tab, Change(t) PROVE Fresh'
  BY <1>5 DEF Change, stores, history
<1>6. ASSUME NEW t \in Tab, Hide(t) PROVE Fresh'
  BY <1>6 DEF Hide, tabs, flags, history
<1>7. ASSUME NEW t \in Tab, Schedule(t) PROVE Fresh'
  BY <1>7 DEF Schedule, Begin, stores, tabs, history
<1>8. ASSUME NEW t \in Tab, PutOk(t) PROVE Fresh'
  BY <1>8 DEF PutOk, Step, Store
<1>9. ASSUME NEW t \in Tab, PutLost(t) PROVE Fresh'
  BY <1>9 DEF PutLost, Fail, Step, Store
<1>10. ASSUME NEW t \in Tab, PutFails(t) PROVE Fresh'
  BY <1>10 DEF PutFails, Fail, Step, stores
<1>11. ASSUME NEW t \in Tab, PutTimesOut(t) PROVE Fresh'
  BY <1>11 DEF PutTimesOut, Fail, Step, Abandoned
<1>12. ASSUME NEW t \in Tab, PutConflict(t) PROVE Fresh'
  BY <1>12 DEF PutConflict, Step, stores, history
<1>13. ASSUME NEW t \in Tab, CorrectVersion(t) PROVE Fresh'
  BY <1>13 DEF CorrectVersion, Fail, Step, stores
<1>14. ASSUME NEW t \in Tab, GetFails(t) PROVE Fresh'
  BY <1>14 DEF GetFails, Fail, Step, stores
<1>15. ASSUME NEW t \in Tab, IdbOk(t) PROVE Fresh'
  BY <1>15 DEF IdbOk, Begin, flags, tabs
<1>16. ASSUME NEW t \in Tab, IdbFails(t) PROVE Fresh'
  BY <1>16 DEF IdbFails, Fail, Step, stores
<1>17. ASSUME NEW t \in Tab,
                 GraceEnds(t)
     PROVE  Fresh'
  BY <1>17 DEF GraceEnds, stores, flags, history
<1>18. ASSUME NEW r \in late, LatePutLands(r) PROVE Fresh'
  BY <1>18 DEF LatePutLands, Store, tabs, flags
<1>19. ASSUME NEW r \in late, LatePutDropped(r) PROVE Fresh'
  BY <1>19 DEF LatePutDropped, tabs, flags, history
<1> QED
  BY NoTeardown, <1>1, <1>2, <1>3, <1>4, <1>5, <1>6, <1>7, <1>8, <1>9, <1>10, <1>11, <1>12,
     <1>13, <1>14, <1>15, <1>16, <1>17, <1>18, <1>19 DEF Next, Write

\* A tab starts from IndexedDB, which has everything saved, and what it writes it has
\* serialised since; no other tab saves anything meanwhile.
LEMMA CarryingStep ==
  ASSUME TypeOK, Owner, Next, ~overlap'
  PROVE  Carrying'
<1> USE OneAlive DEF Owner, TypeOK, Carrying, Durable, Running
<1>1. ASSUME NEW t \in Tab, AcquireWalletLock(t) PROVE Carrying'
  BY <1>1 DEF AcquireWalletLock, stores, flags
<1>2. ASSUME NEW t \in Tab, Seed(t) PROVE Carrying'
  BY <1>2 DEF Seed, stores, flags, history
<1>3. ASSUME NEW t \in Tab, Load(t) PROVE Carrying'
  BY <1>3 DEF Load, stores, flags, history
<1>4. ASSUME NEW t \in Tab, Close(t) PROVE Carrying'
  BY <1>4 DEF Close, Abandoned, history
<1>5. ASSUME NEW t \in Tab, Change(t) PROVE Carrying'
  BY <1>5 DEF Change, stores, history
<1>6. ASSUME NEW t \in Tab, Schedule(t) PROVE Carrying'
  BY <1>6 DEF Schedule, Begin, stores, tabs, history
<1>7. ASSUME NEW t \in Tab, PutOk(t) PROVE Carrying'
  BY <1>7 DEF PutOk, Step, Store
<1>8. ASSUME NEW t \in Tab, PutLost(t) PROVE Carrying'
  BY <1>8 DEF PutLost, Fail, Step, Store
<1>9. ASSUME NEW t \in Tab, PutFails(t) PROVE Carrying'
  BY <1>9 DEF PutFails, Fail, Step, stores
<1>10. ASSUME NEW t \in Tab, PutTimesOut(t) PROVE Carrying'
  BY <1>10 DEF PutTimesOut, Fail, Step, Abandoned
<1>11. ASSUME NEW t \in Tab, PutConflict(t) PROVE Carrying'
  BY <1>11 DEF PutConflict, Step, stores, history
<1>12. ASSUME NEW t \in Tab, CorrectVersion(t) PROVE Carrying'
  BY <1>12 DEF CorrectVersion, Fail, Step, stores
<1>13. ASSUME NEW t \in Tab, GetFails(t) PROVE Carrying'
  BY <1>13 DEF GetFails, Fail, Step, stores
<1>14. ASSUME NEW t \in Tab, IdbOk(t) PROVE Carrying'
  BY <1>14 DEF IdbOk, Begin, flags, tabs
<1>15. ASSUME NEW t \in Tab, IdbFails(t) PROVE Carrying'
  BY <1>15 DEF IdbFails, Fail, Step, stores
<1>16. ASSUME NEW t \in Tab,
                 GraceEnds(t) \/ Hide(t)
     PROVE  Carrying'
  BY <1>16 DEF GraceEnds, stores, flags, history, Hide, tabs
<1>17. ASSUME NEW r \in late, LatePutLands(r) PROVE Carrying'
  BY <1>17 DEF LatePutLands, Store, tabs, flags
<1>18. ASSUME NEW r \in late, LatePutDropped(r) PROVE Carrying'
  BY <1>18 DEF LatePutDropped, tabs, flags, history
<1> QED
  BY NoTeardown, <1>1, <1>2, <1>3, <1>4, <1>5, <1>6, <1>7, <1>8, <1>9, <1>10, <1>11, <1>12,
     <1>13, <1>14, <1>15, <1>16, <1>17, <1>18 DEF Next, Write

\* Versions come from the server; what is abandoned was being carried.
LEMMA LaggingStep ==
  ASSUME TypeOK, Owner, Next, ~overlap'
  PROVE  Lagging'
<1> USE DEF Owner, TypeOK, Carrying, Lagging, Halfway
<1>1. ASSUME NEW t \in Tab, Seed(t) PROVE Lagging'
  BY <1>1 DEF Seed, stores, flags, history
<1>2. ASSUME NEW t \in Tab, Close(t) PROVE Lagging'
  BY <1>2 DEF Close, Abandoned, history
<1>3. ASSUME NEW t \in Tab, PutOk(t) PROVE Lagging'
  BY <1>3 DEF PutOk, Step, Store
<1>4. ASSUME NEW t \in Tab, PutLost(t) PROVE Lagging'
  BY <1>4 DEF PutLost, Fail, Step, Store
<1>5. ASSUME NEW t \in Tab, PutTimesOut(t) PROVE Lagging'
  BY <1>5 DEF PutTimesOut, Fail, Step, Abandoned
<1>6. ASSUME NEW t \in Tab, CorrectVersion(t) PROVE Lagging'
  BY <1>6 DEF CorrectVersion, Fail, Step, stores
<1>7. ASSUME NEW t \in Tab, IdbOk(t) PROVE Lagging'
  BY <1>7 DEF IdbOk, Begin, flags, tabs
<1>8. ASSUME NEW r \in late, LatePutLands(r) PROVE Lagging'
  BY <1>8 DEF LatePutLands, Store, tabs, flags
<1>9. ASSUME NEW r \in late, LatePutDropped(r) PROVE Lagging'
  BY <1>9 DEF LatePutDropped, tabs, flags, history
<1>10. ASSUME NEW t \in Tab,
                 \/ AcquireWalletLock(t) \/ Load(t) \/ GraceEnds(t) \/ Change(t) \/ Hide(t)
                 \/ Schedule(t) \/ PutFails(t) \/ PutConflict(t) \/ GetFails(t) \/ IdbFails(t)
     PROVE  Lagging'
  BY <1>10 DEF AcquireWalletLock, stores, flags, Load, history, GraceEnds, Change, Hide,
     tabs, Schedule,
       Begin, PutFails, Fail, Step, PutConflict, GetFails, IdbFails
<1> QED
  BY NoTeardown, <1>1, <1>2, <1>3, <1>4, <1>5, <1>6, <1>7, <1>8, <1>9, <1>10 DEF Next, Write

\* The put in flight has moved the version on, so no abandoned put can land any more.
LEMMA HalfwayStep ==
  ASSUME TypeOK, Owner, Next, ~overlap'
  PROVE  Halfway'
<1> USE OneAlive DEF Owner, TypeOK, Carrying, Lagging, Halfway, Running, Accepts
<1>1. ASSUME NEW t \in Tab, Close(t) PROVE Halfway'
  BY <1>1 DEF Close, Abandoned, history
<1>2. ASSUME NEW t \in Tab, Schedule(t) PROVE Halfway'
  BY <1>2 DEF Schedule, Begin, stores, tabs, history
<1>3. ASSUME NEW t \in Tab, PutOk(t) PROVE Halfway'
  BY <1>3 DEF PutOk, Step, Store
<1>4. ASSUME NEW t \in Tab, PutLost(t) PROVE Halfway'
  BY <1>4 DEF PutLost, Fail, Step, Store
<1>5. ASSUME NEW t \in Tab, PutFails(t) PROVE Halfway'
  BY <1>5 DEF PutFails, Fail, Step, stores
<1>6. ASSUME NEW t \in Tab, PutTimesOut(t) PROVE Halfway'
  BY <1>6 DEF PutTimesOut, Fail, Step, Abandoned
<1>7. ASSUME NEW t \in Tab, PutConflict(t) PROVE Halfway'
  BY <1>7 DEF PutConflict, Step, stores, history
<1>8. ASSUME NEW t \in Tab, CorrectVersion(t) PROVE Halfway'
  BY <1>8 DEF CorrectVersion, Fail, Step, stores
<1>9. ASSUME NEW t \in Tab, GetFails(t) PROVE Halfway'
  BY <1>9 DEF GetFails, Fail, Step, stores
<1>10. ASSUME NEW t \in Tab, IdbOk(t) PROVE Halfway'
  BY <1>10 DEF IdbOk, Begin, flags, tabs
<1>11. ASSUME NEW t \in Tab, IdbFails(t) PROVE Halfway'
  BY <1>11 DEF IdbFails, Fail, Step, stores
<1>12. ASSUME NEW r \in late, LatePutLands(r) PROVE Halfway'
  BY <1>12 DEF LatePutLands, Store, tabs, flags
<1>13. ASSUME NEW r \in late, LatePutDropped(r) PROVE Halfway'
  BY <1>13 DEF LatePutDropped, tabs, flags, history
<1>14. ASSUME NEW t \in Tab,
                 \/ AcquireWalletLock(t) \/ Seed(t) \/ Load(t) \/ GraceEnds(t) \/ Change(t)
                 \/ Hide(t)
     PROVE  Halfway'
  BY <1>14 DEF AcquireWalletLock, stores, flags, Seed, history, Load, GraceEnds, Change,
     Hide, tabs
<1> QED
  BY NoTeardown, <1>1, <1>2, <1>3, <1>4, <1>5, <1>6, <1>7, <1>8, <1>9, <1>10, <1>11, <1>12,
     <1>13, <1>14 DEF Next, Write

\* The dirty bit is cleared only when the manager is serialised, and a write that fails
\* latches the retry.
LEMMA CleanStep ==
  ASSUME TypeOK, Owner, Next, ~overlap'
  PROVE  Clean'
<1> USE OneAlive DEF Owner, TypeOK, Fresh, Halfway, Clean, Running, Accepts, Own
<1>1. ASSUME NEW t \in Tab, AcquireWalletLock(t) PROVE Clean'
  BY <1>1 DEF AcquireWalletLock, stores, flags
<1>2. ASSUME NEW t \in Tab, Seed(t) PROVE Clean'
  BY <1>2 DEF Seed, stores, flags, history
<1>3. ASSUME NEW t \in Tab, Load(t) PROVE Clean'
  BY <1>3 DEF Load, stores, flags, history
<1>4. ASSUME NEW t \in Tab, Close(t) PROVE Clean'
  BY <1>4 DEF Close, Abandoned, history
<1>5. ASSUME NEW t \in Tab, Change(t) PROVE Clean'
  BY <1>5 DEF Change, stores, history
<1>6. ASSUME NEW t \in Tab, Hide(t) PROVE Clean'
  BY <1>6 DEF Hide, tabs, flags, history
<1>7. ASSUME NEW t \in Tab, Schedule(t) PROVE Clean'
  BY <1>7 DEF Schedule, Begin, stores, tabs, history
<1>8. ASSUME NEW t \in Tab, PutOk(t) PROVE Clean'
  BY <1>8 DEF PutOk, Step, Store
<1>9. ASSUME NEW t \in Tab, PutLost(t) PROVE Clean'
  BY <1>9 DEF PutLost, Fail, Step, Store
<1>10. ASSUME NEW t \in Tab, PutFails(t) PROVE Clean'
  BY <1>10 DEF PutFails, Fail, Step, stores
<1>11. ASSUME NEW t \in Tab, PutTimesOut(t) PROVE Clean'
  BY <1>11 DEF PutTimesOut, Fail, Step, Abandoned
<1>12. ASSUME NEW t \in Tab, PutConflict(t) PROVE Clean'
  BY <1>12 DEF PutConflict, Step, stores, history
<1>13. ASSUME NEW t \in Tab, CorrectVersion(t) PROVE Clean'
  BY <1>13 DEF CorrectVersion, Fail, Step, stores
<1>14. ASSUME NEW t \in Tab, GetFails(t) PROVE Clean'
  BY <1>14 DEF GetFails, Fail, Step, stores
<1>15. ASSUME NEW t \in Tab, IdbOk(t) PROVE Clean'
  BY <1>15 DEF IdbOk, Begin, flags, tabs
<1>16. ASSUME NEW t \in Tab, IdbFails(t) PROVE Clean'
  BY <1>16 DEF IdbFails, Fail, Step, stores
<1>17. ASSUME NEW r \in late, LatePutLands(r) PROVE Clean'
  BY <1>17 DEF LatePutLands, Store, tabs, flags
<1>18. ASSUME NEW r \in late, LatePutDropped(r) PROVE Clean'
  BY <1>18 DEF LatePutDropped, tabs, flags, history
<1>19. ASSUME NEW t \in Tab,
                 GraceEnds(t)
     PROVE  Clean'
  BY <1>19 DEF GraceEnds, stores, flags, history
<1> QED
  BY NoTeardown, <1>1, <1>2, <1>3, <1>4, <1>5, <1>6, <1>7, <1>8, <1>9, <1>10, <1>11, <1>12,
     <1>13, <1>14, <1>15, <1>16, <1>17, <1>18, <1>19 DEF Next, Write

\* Whatever replaces the content of a store has everything saved in it.
LEMMA DurableStep ==
  ASSUME TypeOK, Owner, Next, ~overlap'
  PROVE  Durable'
<1> USE DEF Owner, TypeOK, Carrying, Lagging, Halfway, Durable, Running, Accepts
<1>1. ASSUME NEW t \in Tab, Hide(t) PROVE Durable'
  BY <1>1 DEF Hide, tabs, flags, history
<1>2. ASSUME NEW t \in Tab, PutOk(t) PROVE Durable'
  BY <1>2 DEF PutOk, Step, Store
<1>3. ASSUME NEW t \in Tab, PutLost(t) PROVE Durable'
  BY <1>3 DEF PutLost, Fail, Step, Store
<1>4. ASSUME NEW t \in Tab, IdbOk(t) PROVE Durable'
  BY <1>4 DEF IdbOk, Begin, flags, tabs
<1>5. ASSUME NEW r \in late, LatePutLands(r) PROVE Durable'
  BY <1>5 DEF LatePutLands, Store, tabs, flags
<1>6. ASSUME NEW t \in Tab,
                 \/ AcquireWalletLock(t) \/ Seed(t) \/ Load(t) \/ GraceEnds(t) \/ Close(t)
                 \/ Change(t) \/ Schedule(t) \/ PutFails(t) \/ PutTimesOut(t) \/ PutConflict(t)
                 \/ CorrectVersion(t) \/ GetFails(t) \/ IdbFails(t)
     PROVE  Durable'
  BY <1>6 DEF AcquireWalletLock, stores, flags, Seed, history, Load, GraceEnds, Close,
     Abandoned,
       Change, Schedule, Begin, tabs, PutFails, Fail, Step, PutTimesOut, PutConflict,
       CorrectVersion, GetFails, IdbFails
<1>7. ASSUME NEW r \in late, LatePutDropped(r) PROVE Durable'
  BY <1>7 DEF LatePutDropped, tabs, flags, history
<1> QED
  BY NoTeardown, <1>1, <1>2, <1>3, <1>4, <1>5, <1>6, <1>7 DEF Next, Write

LEMMA InitOwner == Init => OwnerInv
<1> SUFFICES ASSUME Init PROVE OwnerInv
  OBVIOUS
<1> USE CmAssumption DEF Init, Tab
<1>1. TypeOK
  BY DEF TypeOK, Manager
<1>2. Alone
  BY DEF Alone
<1>3. Fresh
  BY DEF Fresh
<1>4. Carrying /\ Lagging /\ Halfway /\ Durable
  BY DEF Carrying, Lagging, Halfway, Durable
<1>5. Clean
  BY DEF Clean, Own
<1> QED
  BY <1>1, <1>2, <1>3, <1>4, <1>5 DEF OwnerInv, Owner

\* An overlap is remembered.
LEMMA OverlapStays ==
  ASSUME TypeOK, [Next]_vars, overlap
  PROVE  overlap'
<1>1. ASSUME NEW t \in Tab, Write(t) PROVE overlap'
  BY <1>1 DEF Write, PutOk, PutLost, PutFails, PutTimesOut, PutConflict, CorrectVersion,
              GetFails, IdbOk, IdbFails, Fail, history
<1>2. CASE UNCHANGED vars
  BY <1>2 DEF vars, history
<1> QED
  BY <1>1, <1>2 DEF Next, AcquireWalletLock, Seed, Load, GraceEnds, Teardown, Close, Change,
                    Hide, Schedule, LatePutLands, LatePutDropped, history

\* The invariant is inductive.
LEMMA OwnerStep ==
  ASSUME OwnerInv, [Next]_vars
  PROVE  OwnerInv'
<1>1. TypeOK'
  BY TypeStep DEF OwnerInv
<1>2. ASSUME ~overlap' PROVE Owner'
  <2>1. TypeOK /\ Owner
    BY <1>2, OverlapStays DEF OwnerInv
  <2>2. CASE Next
    BY <1>2, <2>1, <2>2, AloneStep, FreshStep, CarryingStep, LaggingStep, HalfwayStep,
       CleanStep, DurableStep DEF Owner
  <2>3. CASE UNCHANGED vars
    BY <2>1, <2>3 DEF vars, stores, tabs, flags, history, Owner, Alone, Fresh, Carrying,
                      Lagging, Halfway, Clean, Durable, Running, Own
  <2> QED
    BY <2>2, <2>3
<1> QED
  BY <1>1, <1>2 DEF OwnerInv

\* The invariant holds in every reachable state.
THEOREM Invariance == Spec => []OwnerInv
  BY InitOwner, OwnerStep, PTL DEF Spec

\* persistChannelManager: what a completed write carried is in both stores for good, as
\* long as one tab at a time has had the wallet open.
THEOREM SavedDurable == Spec => []SavedIsDurable
<1>1. OwnerInv => SavedIsDurable
  BY DEF OwnerInv, Owner, Durable, SavedIsDurable
<1> QED
  BY Invariance, <1>1, PTL

\* The scheduler: a tab with nothing flagged and nothing in flight has stored exactly its
\* manager in both stores, as long as one tab at a time has had the wallet open.
THEOREM CleanStored == Spec => []CleanMeansStored
<1>1. OwnerInv => CleanMeansStored
  BY DEF OwnerInv, Owner, Clean, CleanMeansStored
<1> QED
  BY Invariance, <1>1, PTL
=============================================================================
