------------------------ MODULE MonitorPersistProofs ------------------------
(***************************************************************************)
(* Proofs about MonitorPersist: for any set of channels, any number of     *)
(* snapshots, conflict retries and faults of every kind, the persister     *)
(* keeps what it promises LDK.                                             *)
(***************************************************************************)
EXTENDS MonitorPersist, FiniteSetTheorems, TLAPS

\* The chain of a channel that is not archived: whatever is in flight, LDK knows of
\* nothing the local store lacks and the local store of nothing the backup lacks; what
\* is written is the monitor the wallet loaded or newer than all that was ever written;
\* what waits is newer still.
ChainInv(k) ==
  /\ acked[k] <= idb[k]
  /\ idb[k] <= vssData[k]
  /\ idb[k] <= writing[k]
  /\ vssData[k] <= issued[k] /\ writing[k] <= issued[k]
  /\ versionCache[k] <= vssVer[k]
  /\ running =>
       /\ vssData[k] + waiting[k] <= issued[k]
       /\ writing[k] + waiting[k] <= issued[k]
       /\ vssData[k] <= writing[k] \/ writing[k] = idb[k]
       /\ pc[k] = "idle" => waiting[k] = 0
       /\ pc[k] # "idle" => writing[k] > 0
       /\ pc[k] = "ack" => writing[k] = idb[k]
       /\ pc[k] \in {"idb", "idbSame"} => writing[k] <= vssData[k]

\* The loaded monitor is being written over a backup that is ahead of it.
Rewinding(k) ==
  /\ idb[k] < vssData[k]
  /\ running => pc[k] \in {"put", "get", "backoff"} /\ writing[k] = idb[k]

\* An abandoned put is void once the object has moved on.  Until then it brings nothing
\* older than the backup, or the local copy to a backup that is being rewound to it.
LateInv(r) ==
  /\ r.ver <= vssVer[r.key]
  /\ r.data > 0 /\ r.data <= issued[r.key]
  /\ running => /\ r.data + waiting[r.key] <= issued[r.key]
                /\ r.data <= writing[r.key] \/ writing[r.key] = idb[r.key]
  /\ r.ver = vssVer[r.key] /\ r.data < vssData[r.key] =>
       r.data = idb[r.key] /\ Rewinding(r.key)

IInv ==
  /\ TypeOK
  /\ \A k \in Key : del[k] # "none" => k \in closed
  /\ \A k \in Key \ closed : ChainInv(k)
  /\ \A r \in late : r.key \notin closed => LateInv(r)

-----------------------------------------------------------------------------

\* A crash touches only the session and what is left of its requests.
LEMMA CrashFrame ==
  ASSUME Crash
  PROVE  /\ running' = FALSE /\ faults' = faults + 1
         /\ UNCHANGED <<vss, man, idb, versionCache, manifestCache, known, chain, manChain,
                        dels, acked>>
  BY Zenon DEF Crash, Spend

\* Every value keeps its type: counters are numbers, phases are phases, and an
\* abandoned put names a channel, a snapshot and a version.
LEMMA TypeStep == TypeOK /\ [Next]_vars => TypeOK'
<1> SUFFICES ASSUME TypeOK, [Next]_vars PROVE TypeOK'
  OBVIOUS
<1> USE PersistAssumption DEF TypeOK, PC, LatePut, Spend, vss, man, chain, manChain, dels, known
<1>1. ASSUME NEW k \in Key, PersistNewChannel(k) PROVE TypeOK'
  BY <1>1 DEF PersistNewChannel, HandlePersist
<1>2. ASSUME NEW k \in Key, UpdatePersistedChannel(k) PROVE TypeOK'
  BY <1>2 DEF UpdatePersistedChannel, HandlePersist
<1>3. ASSUME NEW k \in Key, Write(k) PROVE TypeOK'
  <2> USE DEF Step, Store
  <2>1. CASE PutOk(k)                 BY <2>1 DEF PutOk
  <2>2. CASE PutLost(k)               BY <2>2 DEF PutLost
  <2>3. CASE PutFails(k)              BY <2>3 DEF PutFails
  <2>4. CASE PutTimesOut(k)           BY <2>4 DEF PutTimesOut, Abandoned
  <2>5. CASE PutConflict(k)           BY <2>5 DEF PutConflict
  <2>6. CASE PutConflictExhausted(k)  BY <2>6 DEF PutConflictExhausted
  <2>7. CASE ResolveConflict(k)       BY <2>7 DEF ResolveConflict
  <2>8. CASE ResolveFails(k)          BY <2>8 DEF ResolveFails
  <2>9. CASE IdbOk(k)                 BY <2>9 DEF IdbOk
  <2>10. CASE IdbFails(k)             BY <2>10 DEF IdbFails
  <2>11. CASE Ack(k)                  BY <2>11 DEF Ack
  <2>12. CASE Retry(k)                BY <2>12 DEF Retry
  <2> QED BY <1>3, <2>1, <2>2, <2>3, <2>4, <2>5, <2>6, <2>7, <2>8, <2>9, <2>10, <2>11,
             <2>12 DEF Write
<1>4. ASSUME NEW k \in Key, Archive(k) PROVE TypeOK'
  BY <1>4 DEF Archive
<1>5. ASSUME NEW k \in Key, Delete(k) PROVE TypeOK'
  <2> USE DEF DelStep
  <2>1. CASE DeleteVssOk(k)     BY <2>1 DEF DeleteVssOk
  <2>2. CASE DeleteVssFails(k)  BY <2>2 DEF DeleteVssFails
  <2>3. CASE DeleteIdb(k)       BY <2>3 DEF DeleteIdb
  <2> QED BY <1>5, <2>1, <2>2, <2>3 DEF Delete
<1>6. ASSUME NEW r \in late, LatePutLands(r) PROVE TypeOK'
  BY <1>6 DEF LatePutLands, Store
<1>7. ASSUME NEW r \in late, LatePutDropped(r) PROVE TypeOK'
  BY <1>7 DEF LatePutDropped
<1>8. ASSUME WriteManifest PROVE TypeOK'
  <2> USE DEF ManStep
  <2>1. CASE ManStart     BY <2>1 DEF ManStart
  <2>2. CASE ManPutOk     BY <2>2 DEF ManPutOk
  <2>3. CASE ManPutLost   BY <2>3 DEF ManPutLost
  <2>4. CASE ManFails     BY <2>4 DEF ManFails
  <2>5. CASE ManConflict  BY <2>5 DEF ManConflict
  <2>6. CASE ManMerge     BY <2>6 DEF ManMerge
  <2> QED BY <1>8, <2>1, <2>2, <2>3, <2>4, <2>5, <2>6 DEF WriteManifest
<1>9. ASSUME Crash PROVE TypeOK'
  <2>1. PICK S \in SUBSET {k \in Key : pc[k] = "put"} :
          late' = late \union {Abandoned(k) : k \in S}
    BY <1>9 DEF Crash
  <2>2. \A k \in S : Abandoned(k) \in LatePut
    BY DEF Abandoned
  <2>3. late' \subseteq LatePut
    BY <2>1, <2>2
  <2> QED
    BY <1>9, <2>3, CrashFrame
<1>10. ASSUME Restart PROVE TypeOK'
  <2> DEFINE loaded == {k \in Key : idb[k] > 0}
  <2>1. Cardinality(loaded) \in Nat
    BY FS_Subset, FS_CardinalityType
  <2>2. manQueue' = Cardinality(loaded) + IF loaded # {} /\ manifestCache' = 0 THEN 1 ELSE 0
    BY <1>10 DEF Restart
  <2>3. manQueue' \in Nat
    BY <2>1, <2>2
  <2> HIDE DEF loaded
  <2> QED
    BY <1>10, <2>3 DEF Restart
<1>11. CASE UNCHANGED vars
  BY <1>11 DEF vars
<1> QED
  BY <1>1, <1>2, <1>3, <1>4, <1>5, <1>6, <1>7, <1>8, <1>9, <1>10, <1>11 DEF Next

THEOREM TypeCorrect == Spec => []TypeOK
<1>1. Init => TypeOK
  BY PersistAssumption DEF Init, TypeOK, PC, LatePut
<1> QED
  BY <1>1, TypeStep, PTL DEF Spec

-----------------------------------------------------------------------------

\* Only an archived channel has deletions under way, and channels stay archived.
LEMMA DeletionStep ==
  IInv /\ [Next]_vars => /\ (\A k \in Key : del[k] # "none" => k \in closed)'
                         /\ closed \subseteq closed'
<1> SUFFICES ASSUME IInv, [Next]_vars
             PROVE  /\ (\A k \in Key : del[k] # "none" => k \in closed)'
                    /\ closed \subseteq closed'
  OBVIOUS
<1> USE DEF IInv, TypeOK, dels, known
<1>1. ASSUME NEW k \in Key, Archive(k)
      PROVE  /\ (\A j \in Key : del[j] # "none" => j \in closed)'
             /\ closed \subseteq closed'
  BY <1>1 DEF Archive
<1>2. ASSUME NEW k \in Key, Delete(k)
      PROVE  /\ (\A j \in Key : del[j] # "none" => j \in closed)'
             /\ closed \subseteq closed'
  BY <1>2 DEF Delete, DeleteVssOk, DeleteVssFails, DeleteIdb, DelStep
<1>3. CASE Restart
  BY <1>3 DEF Restart
<1>4. CASE UNCHANGED <<del, closed>>
  BY <1>4
<1>5. ASSUME NEW k \in Key, Write(k) PROVE UNCHANGED <<del, closed>>
  BY <1>5 DEF Write, PutOk, PutLost, PutFails, PutTimesOut, PutConflict,
     PutConflictExhausted, ResolveConflict, ResolveFails, IdbOk, IdbFails, Ack, Retry, Step
<1>6. WriteManifest => UNCHANGED <<del, closed>>
  BY DEF WriteManifest, ManStart, ManPutOk, ManPutLost, ManFails, ManConflict, ManMerge,
     ManStep
<1>7. ASSUME NEW k \in Key, PersistNewChannel(k) \/ UpdatePersistedChannel(k)
      PROVE  UNCHANGED <<del, closed>>
  BY <1>7 DEF PersistNewChannel, UpdatePersistedChannel
<1>8. ASSUME NEW r \in late, LatePutLands(r) \/ LatePutDropped(r)
      PROVE  UNCHANGED <<del, closed>>
  BY <1>8 DEF LatePutLands, LatePutDropped
<1>9. Crash \/ UNCHANGED vars => UNCHANGED <<del, closed>>
  BY DEF Crash, vars
<1> QED
  BY <1>1, <1>2, <1>3, <1>4, <1>5, <1>6, <1>7, <1>8, <1>9 DEF Next

\* The chain of a channel that stays open keeps its two stores in step.
LEMMA ChainStep ==
  ASSUME IInv, [Next]_vars, NEW k \in Key \ closed, k \notin closed'
  PROVE  ChainInv(k)'
<1> USE DEF IInv, TypeOK, ChainInv, PC
<1>1. ASSUME NEW j \in Key, PersistNewChannel(j) \/ UpdatePersistedChannel(j)
      PROVE  ChainInv(k)'
  BY <1>1 DEF PersistNewChannel, UpdatePersistedChannel, HandlePersist, vss
<1>2. ASSUME NEW j \in Key, Write(j), j # k PROVE ChainInv(k)'
  BY <1>2 DEF Write, PutOk, PutLost, PutFails, PutTimesOut, PutConflict,
     PutConflictExhausted, ResolveConflict, ResolveFails, IdbOk, IdbFails, Ack, Retry, Step,
     Store, vss, known
<1>3. ASSUME Write(k) PROVE ChainInv(k)'
  <2> USE DEF Step, Store, vss, known
  <2>1. CASE PutOk(k)                 BY <2>1 DEF PutOk, Accepts
  <2>2. CASE PutLost(k)               BY <2>2 DEF PutLost, Accepts
  <2>3. CASE PutFails(k)              BY <2>3 DEF PutFails
  <2>4. CASE PutTimesOut(k)           BY <2>4 DEF PutTimesOut
  <2>5. CASE PutConflict(k)           BY <2>5 DEF PutConflict
  <2>6. CASE PutConflictExhausted(k)  BY <2>6 DEF PutConflictExhausted
  <2>7. CASE ResolveConflict(k)       BY <2>7 DEF ResolveConflict
  <2>8. CASE ResolveFails(k)          BY <2>8 DEF ResolveFails
  <2>9. CASE IdbOk(k)                 BY <2>9 DEF IdbOk
  <2>10. CASE IdbFails(k)             BY <2>10 DEF IdbFails
  <2>11. CASE Ack(k)                  BY <2>11 DEF Ack
  <2>12. CASE Retry(k)                BY <2>12 DEF Retry
  <2> QED BY <1>3, <2>1, <2>2, <2>3, <2>4, <2>5, <2>6, <2>7, <2>8, <2>9, <2>10, <2>11,
             <2>12 DEF Write
<1>4. ASSUME NEW j \in Key, Archive(j) PROVE ChainInv(k)'
  BY <1>4 DEF Archive, vss, chain
<1>5. ASSUME NEW j \in Key, Delete(j) PROVE ChainInv(k)'
  <2>1. j # k
    BY <1>5 DEF Delete, DeleteVssOk, DeleteVssFails, DeleteIdb, DelStep
  <2> QED
    BY <1>5, <2>1 DEF Delete, DeleteVssOk, DeleteVssFails, DeleteIdb, DelStep, vss, chain
<1>6. ASSUME NEW r \in late, LatePutLands(r) PROVE ChainInv(k)'
  <2>1. r \in LatePut
    OBVIOUS
  <2>2. CASE r.key # k
    BY <1>6, <2>1, <2>2 DEF LatePutLands, Store, chain, LatePut
  <2>3. CASE r.key = k
    <3>1. LateInv(r) /\ r.ver = vssVer[k] /\ r.data \in Nat
      BY <1>6, <2>1, <2>3 DEF LatePutLands, Accepts, LatePut
    <3>2. vssVer'[k] = vssVer[k] + 1 /\ vssData'[k] = r.data
          /\ UNCHANGED <<idb, running, chain, versionCache, acked>>
      BY <1>6, <2>3 DEF LatePutLands, Store
    <3>3. r.data >= vssData[k] \/ (r.data = idb[k] /\ Rewinding(k))
      BY <2>3, <3>1 DEF LateInv
    <3> QED
      BY <2>3, <3>1, <3>2, <3>3 DEF LateInv, Rewinding, chain
  <2> QED BY <2>2, <2>3
<1>7. ASSUME NEW r \in late, LatePutDropped(r) PROVE ChainInv(k)'
  BY <1>7 DEF LatePutDropped, vss, chain
<1>8. ASSUME WriteManifest PROVE ChainInv(k)'
  BY <1>8 DEF WriteManifest, ManStart, ManPutOk, ManPutLost, ManFails, ManConflict, ManMerge,
     ManStep, vss, chain
<1>9. ASSUME Crash PROVE ChainInv(k)'
  BY <1>9 DEF Crash, vss, chain
<1>10. ASSUME Restart PROVE ChainInv(k)'
  BY <1>10 DEF Restart, vss
<1>11. CASE UNCHANGED vars
  BY <1>11 DEF vars, vss, chain
<1> QED
  BY <1>1, <1>2, <1>3, <1>4, <1>5, <1>6, <1>7, <1>8, <1>9, <1>10, <1>11 DEF Next
-----------------------------------------------------------------------------

\* A step that moves no counter of the channel leaves an abandoned put as harmless as it
\* was, if it replaces the object or does not end the rewinding of it.
LEMMA LateFrame ==
  ASSUME IInv, TypeOK', NEW r \in late, LateInv(r),
         UNCHANGED <<issued[r.key], waiting[r.key], writing[r.key], idb[r.key]>>,
         running' => running,
         \/ vssVer'[r.key] > vssVer[r.key]
         \/ /\ UNCHANGED <<vssVer[r.key], vssData[r.key]>>
            /\ \/ UNCHANGED pc[r.key]
               \/ pc[r.key] \notin {"put", "get", "backoff"}
               \/ pc'[r.key] \in {"put", "get", "backoff"}
               \/ ~running'
  PROVE  LateInv(r)'
<1> USE DEF IInv, TypeOK, LatePut
<1>1. /\ r.key \in Key /\ r.data \in Nat /\ r.ver \in Nat
      /\ vssVer[r.key] \in Nat /\ vssVer'[r.key] \in Nat
      /\ vssData[r.key] \in Nat /\ vssData'[r.key] \in Nat
  OBVIOUS
<1>2. CASE vssVer'[r.key] > vssVer[r.key]
  BY <1>1, <1>2 DEF LateInv
<1>3. CASE UNCHANGED <<vssVer[r.key], vssData[r.key]>> /\ ~running
  BY <1>1, <1>3 DEF LateInv, Rewinding
<1>4. CASE UNCHANGED <<vssVer[r.key], vssData[r.key]>> /\ running
  BY <1>1, <1>4 DEF LateInv, Rewinding
<1> QED BY <1>2, <1>3, <1>4

\* An abandoned put of a channel that stays open can do no harm: the version it names
\* is no newer than the object's, and if it still is the object's, the put brings
\* nothing older, or what is being written anyway.
LEMMA LateStep ==
  ASSUME IInv, [Next]_vars, NEW r \in late', r.key \notin closed'
  PROVE  LateInv(r)'
<1> USE DEF IInv, TypeOK, LatePut
<1>0. r.key \in Key /\ r.data \in Nat /\ r.ver \in Nat /\ TypeOK'
  BY TypeStep
<1>1. r.key \notin closed
  BY DeletionStep
<1>2. ChainInv(r.key)
  BY <1>0, <1>1
<1>3. r \in late => LateInv(r)
  BY <1>1
<1>4. ASSUME NEW j \in Key, PersistNewChannel(j) \/ UpdatePersistedChannel(j)
      PROVE  LateInv(r)'
  <2>1. late' = late /\ vssVer' = vssVer /\ vssData' = vssData /\ idb' = idb
        /\ running /\ running' = running /\ HandlePersist(j)
    BY <1>4 DEF PersistNewChannel, UpdatePersistedChannel, vss
  <2>2. CASE j # r.key
    <3>1. UNCHANGED <<issued[r.key], waiting[r.key], writing[r.key], idb[r.key], pc[r.key]>>
      BY <1>0, <2>1, <2>2 DEF HandlePersist
    <3> QED BY <1>0, <1>3, <2>1, <3>1, LateFrame
  <2>3. CASE j = r.key /\ pc[j] = "idle"
    <3>1. /\ issued'[j] = issued[j] + 1 /\ writing'[j] = issued[j] + 1
          /\ waiting'[j] = waiting[j]
      BY <2>1, <2>3 DEF HandlePersist
    <3>2. ~Rewinding(j)
      BY <2>1, <2>3 DEF Rewinding
    <3> QED BY <1>0, <1>2, <1>3, <2>1, <2>3, <3>1, <3>2 DEF LateInv, ChainInv
  <2>4. CASE j = r.key /\ pc[j] # "idle"
    <3>1. /\ issued'[j] = issued[j] + 1 /\ waiting'[j] = waiting[j] + 1
          /\ UNCHANGED <<writing, pc>>
      BY <2>1, <2>4 DEF HandlePersist
    <3> QED BY <1>0, <1>3, <2>1, <2>4, <3>1 DEF LateInv, Rewinding
  <2> QED BY <2>2, <2>3, <2>4
<1>5. ASSUME NEW j \in Key, Write(j) PROVE LateInv(r)'
  <2> USE DEF Step, vss
  <2>1. CASE j # r.key
    <3>1. r \in late
      BY <1>0, <1>5, <2>1 DEF Write, PutOk, PutLost, PutFails, PutTimesOut, PutConflict,
         PutConflictExhausted, ResolveConflict, ResolveFails, IdbOk, IdbFails, Ack, Retry,
         Abandoned
    <3>2. UNCHANGED <<issued[r.key], waiting[r.key], writing[r.key], idb[r.key], pc[r.key],
                      vssVer[r.key], vssData[r.key], running>>
      BY <1>0, <1>5, <2>1 DEF Write, PutOk, PutLost, PutFails, PutTimesOut, PutConflict,
         PutConflictExhausted, ResolveConflict, ResolveFails, IdbOk, IdbFails, Ack, Retry,
         Store
    <3> QED BY <1>0, <1>3, <3>1, <3>2, LateFrame
  <2>2. CASE j = r.key /\ (PutOk(j) \/ PutLost(j))
    <3>1. late' = late /\ vssVer' = [vssVer EXCEPT ![j] = @ + 1]
          /\ UNCHANGED <<issued, waiting, writing, idb, running>>
      BY <2>2 DEF PutOk, PutLost, Store
    <3>2. vssVer'[r.key] > vssVer[r.key]
      BY <1>0, <2>2, <3>1
    <3> QED BY <1>0, <1>3, <3>1, <3>2, LateFrame
  <2>3. CASE j = r.key /\ PutTimesOut(j)
    <3>1. late' = late \union {Abandoned(j)} /\ pc[j] = "put" /\ pc'[j] = "backoff" /\ running
          /\ UNCHANGED <<vssVer, vssData, issued, waiting, writing, idb, running>>
      BY <2>3 DEF PutTimesOut
    <3>2. CASE r \in late
      BY <1>0, <1>3, <2>3, <3>1, <3>2, LateFrame
    <3>3. CASE r = Abandoned(j)
      BY <1>0, <1>2, <2>3, <3>1, <3>3 DEF Abandoned, ChainInv, LateInv, Rewinding
    <3> QED BY <3>1, <3>2, <3>3
  <2>4. CASE j = r.key /\ IdbOk(j)
    <3>1. late' = late /\ running /\ pc[j] \in {"idb", "idbSame"} /\ idb'[j] = writing[j]
          /\ UNCHANGED <<vssVer, vssData, issued, waiting, writing, running>>
      BY <2>4 DEF IdbOk
    <3>2. ~Rewinding(j)
      BY <3>1 DEF Rewinding
    <3> QED BY <1>0, <1>3, <2>4, <3>1, <3>2 DEF LateInv
  <2>5. CASE j = r.key /\ Ack(j)
    <3>1. late' = late /\ running /\ pc[j] = "ack"
          /\ UNCHANGED <<vssVer, vssData, issued, idb, running>>
      BY <2>5 DEF Ack
    <3>2. ~Rewinding(j)
      BY <3>1 DEF Rewinding
    <3>3. \/ UNCHANGED <<waiting, writing>>
          \/ /\ waiting[j] > 0 /\ waiting'[j] = waiting[j] - 1
             /\ writing'[j] = issued[j] - waiting[j] + 1
      BY <2>5 DEF Ack
    <3> QED BY <1>0, <1>3, <2>5, <3>1, <3>2, <3>3 DEF LateInv
  <2>6. CASE j = r.key /\ (PutFails(j) \/ PutConflict(j) \/ PutConflictExhausted(j)
                           \/ ResolveFails(j) \/ IdbFails(j) \/ Retry(j))
    <3>1. late' = late /\ pc'[j] \in {"put", "get", "backoff"}
          /\ UNCHANGED <<vssVer, vssData, issued, waiting, writing, idb, running>>
      BY <2>6 DEF PutFails, PutConflict, PutConflictExhausted, ResolveFails, IdbFails, Retry
    <3> QED BY <1>0, <1>3, <2>6, <3>1, LateFrame
  <2>7. CASE j = r.key /\ ResolveConflict(j)
    <3>1. late' = late /\ (pc'[j] = "put" \/ (pc'[j] = "idbSame" /\ vssData[j] = writing[j]))
          /\ UNCHANGED <<vssVer, vssData, issued, waiting, writing, idb, running>>
          /\ running
      BY <2>7 DEF ResolveConflict
    <3>2. CASE pc'[j] = "put"
      BY <1>0, <1>3, <2>7, <3>1, <3>2, LateFrame
    <3>3. CASE vssData[j] = writing[j]
      <4>1. ~Rewinding(j)
        BY <2>7, <3>1, <3>3 DEF Rewinding
      <4> QED BY <1>0, <1>3, <2>7, <3>1, <4>1 DEF LateInv
    <3> QED BY <3>1, <3>2, <3>3
  <2> QED BY <1>5, <2>1, <2>2, <2>3, <2>4, <2>5, <2>6, <2>7 DEF Write
<1>6. ASSUME NEW j \in Key, Archive(j) PROVE LateInv(r)'
  <2>1. UNCHANGED <<vss, late, idb, running, chain>>
    BY <1>6 DEF Archive
  <2> QED BY <1>0, <1>3, <2>1, LateFrame DEF vss, chain
<1>7. ASSUME NEW j \in Key, Delete(j) PROVE LateInv(r)'
  <2>1. j # r.key
    BY <1>1, <1>7 DEF Delete, DeleteVssOk, DeleteVssFails, DeleteIdb, DelStep
  <2>2. UNCHANGED <<late, running, chain, vssVer[r.key], vssData[r.key], idb[r.key]>>
    BY <1>0, <1>7, <2>1 DEF Delete, DeleteVssOk, DeleteVssFails, DeleteIdb, DelStep, vss
  <2> QED
    BY <1>0, <1>3, <2>2, LateFrame DEF chain
<1>8. ASSUME NEW q \in late, LatePutLands(q) PROVE LateInv(r)'
  <2>1. q.key \in Key /\ r \in late /\ UNCHANGED <<idb, running, chain>>
        /\ vssVer' = [vssVer EXCEPT ![q.key] = @ + 1]
        /\ vssData' = [vssData EXCEPT ![q.key] = q.data]
    BY <1>8 DEF LatePutLands, Store
  <2>2. CASE q.key = r.key
    <3>1. vssVer'[r.key] > vssVer[r.key]
      BY <1>0, <2>1, <2>2
    <3> QED BY <1>0, <1>3, <2>1, <3>1, LateFrame DEF chain
  <2>3. CASE q.key # r.key
    <3>1. UNCHANGED <<vssVer[r.key], vssData[r.key]>>
      BY <1>0, <2>1, <2>3
    <3> QED BY <1>0, <1>3, <2>1, <3>1, LateFrame DEF chain
  <2> QED BY <2>2, <2>3
<1>9. ASSUME NEW q \in late, LatePutDropped(q) PROVE LateInv(r)'
  <2>1. r \in late /\ UNCHANGED <<vss, idb, running, chain>>
    BY <1>9 DEF LatePutDropped
  <2> QED BY <1>0, <1>3, <2>1, LateFrame DEF vss, chain
<1>10. ASSUME WriteManifest PROVE LateInv(r)'
  <2>1. UNCHANGED <<vss, late, idb, running, chain>>
    BY <1>10 DEF WriteManifest, ManStart, ManPutOk, ManPutLost, ManFails, ManConflict,
       ManMerge, ManStep
  <2> QED
    BY <1>0, <1>3, <2>1, LateFrame DEF vss, chain
<1>11. ASSUME Crash PROVE LateInv(r)'
  <2>1. running /\ running' = FALSE
        /\ UNCHANGED <<vssVer, vssData, issued, writing, waiting, pc, idb>>
    BY <1>11, CrashFrame DEF Crash, vss, chain
  <2>2. PICK S \in SUBSET {k \in Key : pc[k] = "put"} :
          late' = late \union {Abandoned(k) : k \in S}
    BY <1>11 DEF Crash
  <2>3. CASE r \in late
    BY <1>0, <1>3, <2>1, <2>3, LateFrame
  <2>4. ASSUME NEW k \in S, r = Abandoned(k) PROVE LateInv(r)'
    <3>1. k \in Key /\ pc[k] = "put" /\ r.key = k /\ r.data = writing[k]
          /\ r.ver = versionCache[k]
      BY <2>4 DEF Abandoned
    <3> QED
      BY <1>0, <1>2, <2>1, <3>1 DEF ChainInv, LateInv, Rewinding
  <2> QED BY <2>2, <2>3, <2>4
<1>12. ASSUME Restart PROVE LateInv(r)'
  <2>1. r \in late /\ ~running /\ UNCHANGED <<vssVer, vssData, idb, issued>>
        /\ writing' = idb /\ waiting'[r.key] = 0
    BY <1>0, <1>12 DEF Restart, vss
  <2>2. idb[r.key] > 0 => pc'[r.key] = "put"
    BY <1>0, <1>12 DEF Restart
  <2> QED BY <1>0, <1>2, <1>3, <2>1, <2>2 DEF LateInv, Rewinding
<1>13. CASE UNCHANGED vars
  BY <1>0, <1>3, <1>13, LateFrame DEF vars, vss, chain
<1> QED
  BY <1>4, <1>5, <1>6, <1>7, <1>8, <1>9, <1>10, <1>11, <1>12, <1>13 DEF Next

\* The invariant is inductive.
LEMMA InvStep == IInv /\ [Next]_vars => IInv'
<1> SUFFICES ASSUME IInv, [Next]_vars PROVE IInv'
  OBVIOUS
<1>1. TypeOK'
  BY TypeStep DEF IInv
<1>2. /\ (\A k \in Key : del[k] # "none" => k \in closed)'
      /\ closed \subseteq closed'
  BY DeletionStep
<1>3. \A k \in Key \ closed' : ChainInv(k)'
  BY <1>2, ChainStep
<1>4. \A r \in late' : r.key \notin closed' => LateInv(r)'
  BY LateStep
<1> QED
  BY <1>1, <1>2, <1>3, <1>4 DEF IInv

\* In every reachable state the two stores of every channel are in step.
THEOREM Invariance == Spec => []IInv
<1>1. Init => IInv
  BY PersistAssumption DEF Init, IInv, TypeOK, PC, LatePut, ChainInv
<1> QED
  BY <1>1, InvStep, PTL DEF Spec

\* What channel_monitor_updated reported durable is in both stores, whatever requests
\* failed, timed out, landed late, and however often the wallet was closed and opened.
THEOREM AckedDurable == Spec => []AckedIsDurable
<1>1. IInv => AckedIsDurable
  <2> SUFFICES ASSUME IInv, NEW k \in Key \ closed
               PROVE  acked[k] <= idb[k] /\ acked[k] <= vssData[k]
    BY DEF AckedIsDurable
  <2>1. acked[k] <= idb[k] /\ idb[k] <= vssData[k]
    BY DEF IInv, ChainInv
  <2>2. acked[k] \in Nat /\ idb[k] \in Nat /\ vssData[k] \in Nat
    BY DEF IInv, TypeOK
  <2> QED
    BY <2>1, <2>2
<1> QED
  BY <1>1, Invariance, PTL

\* The backup is never behind the browser's database.
THEOREM BackupFirst == Spec => []BackupNotBehind
<1>1. IInv => BackupNotBehind
  BY DEF IInv, ChainInv, BackupNotBehind
<1> QED
  BY <1>1, Invariance, PTL
-----------------------------------------------------------------------------
(* The persister implements MonitorStore.                                  *)

\* Storing data of an open channel in the backup is a step of the promise, or none,
\* when the data is no older than what is there, or the local copy.
LEMMA BackupMaps ==
  ASSUME TypeOK, NEW k \in Key, NEW d \in Nat,
         vssData' = [vssData EXCEPT ![k] = d],
         UNCHANGED <<idb, acked, closed>>,
         k \notin closed => d >= vssData[k] \/ d = idb[k]
  PROVE  [Promise!SNext]_(Promise!svars)
<1> USE DEF TypeOK
<1>1. CASE k \in closed
  BY <1>1 DEF Promise!SNext, Promise!Discard
<1>2. CASE k \notin closed /\ (d > vssData[k] \/ d = idb[k])
  BY <1>2 DEF Promise!SNext, Promise!Backup
<1>3. CASE k \notin closed /\ d = vssData[k]
  BY <1>3 DEF Promise!svars
<1> QED BY <1>1, <1>2, <1>3

\* Every step of the persister is a step of the promise or leaves it alone.
LEMMA StepMaps ==
  ASSUME IInv, [Next]_vars
  PROVE  [Promise!SNext]_(Promise!svars)
<1> USE DEF IInv, TypeOK, PC, LatePut
<1> DEFINE Still == UNCHANGED <<vssData, idb, acked, closed>>
<1>0. Still => [Promise!SNext]_(Promise!svars)
  BY DEF Promise!svars
<1>1. ASSUME NEW k \in Key, PersistNewChannel(k) \/ UpdatePersistedChannel(k) PROVE Still
  BY <1>1 DEF PersistNewChannel, UpdatePersistedChannel, vss, known
<1>2. ASSUME NEW k \in Key, Write(k) PROVE [Promise!SNext]_(Promise!svars)
  <2>1. k \notin closed => ChainInv(k)
    OBVIOUS
  <2>2. CASE PutOk(k) \/ PutLost(k)
    <3>1. vssData' = [vssData EXCEPT ![k] = writing[k]] /\ UNCHANGED <<idb, acked, closed>>
      BY <2>2 DEF PutOk, PutLost, Store, Step, known
    <3>2. writing[k] \in Nat /\ (k \notin closed => writing[k] >= vssData[k] \/ writing[k] = idb[k])
      BY <2>1, <2>2 DEF ChainInv, PutOk, PutLost, Step
    <3> QED BY <3>1, <3>2, BackupMaps
  <2>3. CASE IdbOk(k)
    <3>1. idb' = [idb EXCEPT ![k] = writing[k]] /\ UNCHANGED <<vssData, acked, closed>>
          /\ running /\ pc[k] \in {"idb", "idbSame"}
      BY <2>3 DEF IdbOk, Step, vss, known
    <3>2. CASE k \in closed
      BY <3>1, <3>2 DEF Promise!SNext, Promise!Discard
    <3>3. CASE k \notin closed
      <4>1. writing[k] <= vssData[k] /\ idb[k] <= writing[k]
        BY <2>1, <3>1, <3>3 DEF ChainInv
      <4>2. idb'[k] = writing[k] /\ idb' = [idb EXCEPT ![k] = idb'[k]]
        BY <3>1
      <4>3. CASE idb[k] = writing[k]
        BY <1>0, <3>1, <4>3
      <4>4. CASE idb[k] < writing[k]
        BY <3>1, <3>3, <4>1, <4>2, <4>4 DEF Promise!StoreLocally, Promise!SNext
      <4> QED BY <4>1, <4>3, <4>4
    <3> QED BY <3>2, <3>3
  <2>4. CASE Ack(k)
    <3>1. acked' = [acked EXCEPT ![k] = writing[k]] /\ UNCHANGED <<vssData, idb, closed>>
          /\ running /\ pc[k] = "ack"
      BY <2>4 DEF Ack, Step, vss, known
    <3>2. CASE k \in closed
      BY <3>1, <3>2 DEF Promise!SNext, Promise!Discard
    <3>3. CASE k \notin closed
      <4>1. writing[k] = idb[k] /\ acked[k] <= idb[k]
        BY <2>1, <3>1, <3>3 DEF ChainInv
      <4>2. acked'[k] = writing[k] /\ acked' = [acked EXCEPT ![k] = acked'[k]]
        BY <3>1
      <4>3. CASE acked[k] = idb[k]
        BY <1>0, <3>1, <4>1, <4>3
      <4>4. CASE acked[k] < idb[k]
        <5>1. acked'[k] > acked[k] /\ acked'[k] <= idb[k]
          BY <4>1, <4>2, <4>4
        <5>2. Promise!Acknowledge(k)
          BY <3>1, <4>2, <5>1 DEF Promise!Acknowledge
        <5> QED BY <5>2 DEF Promise!SNext
      <4>5. acked[k] = idb[k] \/ acked[k] < idb[k]
        BY <4>1
      <4> QED BY <4>3, <4>4, <4>5
    <3> QED BY <3>2, <3>3
  <2>5. CASE ~(PutOk(k) \/ PutLost(k) \/ IdbOk(k) \/ Ack(k))
    <3>1. Still
      BY <1>2, <2>5 DEF Write, PutFails, PutTimesOut, PutConflict, PutConflictExhausted,
         ResolveConflict, ResolveFails, IdbFails, Retry, Step, vss, known
    <3> QED BY <1>0, <3>1
  <2> QED BY <2>2, <2>3, <2>4, <2>5
<1>3. ASSUME NEW k \in Key, Archive(k) PROVE [Promise!SNext]_(Promise!svars)
  BY <1>3 DEF Archive, vss, Promise!SNext, Promise!Retire
<1>4. ASSUME NEW k \in Key, Delete(k) PROVE [Promise!SNext]_(Promise!svars)
  <2>1. k \in closed /\ UNCHANGED <<acked, closed>>
        /\ vssData' = [vssData EXCEPT ![k] = vssData'[k]]
        /\ idb' = [idb EXCEPT ![k] = idb'[k]]
    BY <1>4 DEF Delete, DeleteVssOk, DeleteVssFails, DeleteIdb, DelStep, vss, known
  <2> QED BY <2>1 DEF Promise!SNext, Promise!Discard
<1>5. ASSUME NEW r \in late, LatePutLands(r) PROVE [Promise!SNext]_(Promise!svars)
  <2>1. r.key \in Key /\ r.data \in Nat /\ r.ver = vssVer[r.key]
        /\ vssData' = [vssData EXCEPT ![r.key] = r.data] /\ UNCHANGED <<idb, acked, closed>>
    BY <1>5 DEF LatePutLands, Accepts, Store, known
  <2>2. r.key \notin closed => r.data >= vssData[r.key] \/ r.data = idb[r.key]
    BY <2>1 DEF LateInv
  <2> QED BY <2>1, <2>2, BackupMaps
<1>6. ASSUME NEW r \in late, LatePutDropped(r) PROVE Still
  BY <1>6 DEF LatePutDropped, vss, known
<1>7. WriteManifest => Still
  BY DEF WriteManifest, ManStart, ManPutOk, ManPutLost, ManFails, ManConflict, ManMerge,
     ManStep, vss
<1>8. Crash => Still
  BY CrashFrame DEF vss, known
<1>9. Restart => Still
  BY DEF Restart, vss
<1>10. UNCHANGED vars => Still
  BY DEF vars, vss, known
<1> QED
  BY <1>0, <1>1, <1>2, <1>3, <1>4, <1>5, <1>6, <1>7, <1>8, <1>9, <1>10 DEF Next

\* The persister implements the promise made to LDK, for every number of channels,
\* snapshots, retries and failures.
THEOREM Implementation == Spec => ImplementsMonitorStore
<1>1. Init => Promise!SInit
  BY DEF Init, Promise!SInit
<1>2. IInv /\ [Next]_vars => [Promise!SNext]_(Promise!svars)
  BY StepMaps
<1> QED
  BY <1>1, <1>2, Invariance, PTL DEF Spec, ImplementsMonitorStore, Promise!SSpec

\* Neither store of an open channel ever goes back to an older monitor, but for a backup
\* that is brought back to the local copy.
THEOREM NoRegression == Spec => NeverOlder
<1> DEFINE Newer == \A k \in Key \ closed' :
                      /\ idb'[k] >= idb[k]
                      /\ vssData'[k] >= vssData[k] \/ vssData'[k] = idb[k]
<1>1. ASSUME IInv, [Next]_vars PROVE Newer
  <2>1. [Promise!SNext]_(Promise!svars)
    BY <1>1, StepMaps
  <2>2. /\ vssData \in [Key -> Nat] /\ idb \in [Key -> Nat]
        /\ vssData' \in [Key -> Nat] /\ idb' \in [Key -> Nat]
        /\ closed \subseteq closed'
    BY <1>1, TypeStep, DeletionStep DEF IInv, TypeOK
  <2>3. CASE UNCHANGED <<vssData, idb, acked, closed>>
    BY <2>2, <2>3
  <2>4. ASSUME NEW k \in Key,
               \/ Promise!Backup(k) \/ Promise!StoreLocally(k) \/ Promise!Acknowledge(k)
               \/ Promise!Retire(k) \/ Promise!Discard(k)
        PROVE  Newer
    <3>1. CASE Promise!Backup(k)       BY <2>2, <3>1 DEF Promise!Backup
    <3>2. CASE Promise!StoreLocally(k) BY <2>2, <3>2 DEF Promise!StoreLocally
    <3>3. CASE Promise!Acknowledge(k)  BY <2>2, <3>3 DEF Promise!Acknowledge
    <3>4. CASE Promise!Retire(k)       BY <2>2, <3>4 DEF Promise!Retire
    <3>5. CASE Promise!Discard(k)      BY <2>2, <3>5 DEF Promise!Discard
    <3> QED BY <2>4, <3>1, <3>2, <3>3, <3>4, <3>5
  <2> QED
    BY <2>1, <2>3, <2>4 DEF Promise!SNext, Promise!svars
<1>2. IInv /\ [Next]_vars => [Newer]_vars
  BY <1>1
<1> QED
  BY <1>2, Invariance, PTL DEF Spec, NeverOlder
-----------------------------------------------------------------------------
(* The manifest.                                                           *)

\* Where the chain of manifest writes stands: a second put never meets a conflict, for
\* nobody else writes the manifest; and with no write waiting, the one under way lists
\* what the persister knows, or is about to merge the two lists, or there is none and
\* the backup lists it already.
ManInv ==
  /\ manPc = "reput" => manifestCache = manVer
  /\ running /\ manQueue = 0 /\ monitorKeys # {} =>
       /\ manPc \in {"put", "reput"} => manSnap = monitorKeys
       /\ manPc = "idle" => manKeys = monitorKeys

\* A step of the channels' chains, of the server or of the deletions leaves the
\* manifest's chain alone.
LEMMA ManFrame ==
  ASSUME ManInv, UNCHANGED <<man, manifestCache, monitorKeys, manChain>>, running' => running
  PROVE  ManInv'
  BY DEF ManInv, man, manChain

\* No write of the manifest is lost, and a restarted wallet queues one.
LEMMA ManStepKeeps ==
  ASSUME "manifest" \notin Faults, TypeOK, ManInv, [Next]_vars
  PROVE  ManInv'
<1> USE DEF known
<1>1. ASSUME NEW k \in Key, PersistNewChannel(k) \/ Archive(k) PROVE ManInv'
  <2>1. manQueue' = manQueue + 1 /\ UNCHANGED <<man, manifestCache, manPc, manSnap>>
    BY <1>1 DEF PersistNewChannel, Archive
  <2> QED BY <2>1 DEF ManInv, TypeOK, man
<1>2. ASSUME NEW k \in Key, UpdatePersistedChannel(k) \/ Write(k) \/ Delete(k) PROVE ManInv'
  BY <1>2, ManFrame DEF UpdatePersistedChannel, Write, PutOk, PutLost, PutFails, PutTimesOut,
     PutConflict, PutConflictExhausted, ResolveConflict, ResolveFails, IdbOk, IdbFails, Ack,
     Retry, Step, Delete, DeleteVssOk, DeleteVssFails, DeleteIdb, DelStep
<1>3. ASSUME NEW r \in late, LatePutLands(r) \/ LatePutDropped(r) PROVE ManInv'
  BY <1>3, ManFrame DEF LatePutLands, LatePutDropped
<1>4. ASSUME WriteManifest PROVE ManInv'
  <2> USE DEF ManInv, ManStep, man
  <2>1. CASE ManStart     BY <2>1 DEF ManStart, TypeOK
  <2>2. CASE ManPutOk     BY <2>2 DEF ManPutOk
  <2>3. CASE ManPutLost   BY <2>3 DEF ManPutLost
  <2>4. ~ManFails         BY DEF ManFails, Spend
  <2>5. CASE ManConflict  BY <2>5 DEF ManConflict
  <2>6. CASE ManMerge     BY <2>6 DEF ManMerge
  <2> QED BY <1>4, <2>1, <2>2, <2>3, <2>4, <2>5, <2>6 DEF WriteManifest
<1>5. ASSUME Crash PROVE ManInv'
  BY <1>5, CrashFrame, ManFrame
<1>6. ASSUME Restart PROVE ManInv'
  <2> DEFINE loaded == {k \in Key : idb[k] > 0}
  <2>1. manPc' = "idle" /\ monitorKeys' = loaded
    BY <1>6 DEF Restart
  <2>2. manQueue' = Cardinality(loaded) + IF loaded # {} /\ manifestCache' = 0 THEN 1 ELSE 0
    BY <1>6 DEF Restart
  <2>3. IsFiniteSet(loaded)
    BY PersistAssumption, FS_Subset
  <2>4. Cardinality(loaded) \in Nat /\ (loaded # {} => Cardinality(loaded) # 0)
    BY <2>3, FS_CardinalityType, FS_EmptySet
  <2> HIDE DEF loaded
  <2>5. monitorKeys' # {} => manQueue' # 0
    BY <2>1, <2>2, <2>4
  <2> QED BY <2>1, <2>5 DEF ManInv
<1>7. CASE UNCHANGED vars
  BY <1>7, ManFrame DEF vars
<1> QED
  BY <1>1, <1>2, <1>3, <1>4, <1>5, <1>6, <1>7 DEF Next

\* Unless a manifest request fails outright, the backup lists exactly the keys the
\* persister knows whenever no manifest write waits or runs, however often an answer was
\* lost or the wallet died and came back.  The hypothesis is needed: a failed request is
\* logged and not repeated.
THEOREM ManifestSettles ==
  ASSUME "manifest" \notin Faults
  PROVE  Spec => []QuietManifest
<1>1. Init => ManInv
  BY DEF Init, ManInv
<1>2. TypeOK /\ ManInv /\ [Next]_vars => ManInv'
  BY ManStepKeeps
<1>3. ManInv => QuietManifest
  BY DEF ManInv, QuietManifest
<1> QED
  BY <1>1, <1>2, <1>3, TypeCorrect, PTL DEF Spec
=============================================================================
