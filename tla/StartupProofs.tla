----------------------------- MODULE StartupProofs -----------------------------
(***************************************************************************)
(* Proofs about the wallet's start-up, recovery and restore                *)
(* (StartupRecovery), for any number of channels, snapshots and faults.    *)
(***************************************************************************)
EXTENDS StartupRecovery, TLAPS

-----------------------------------------------------------------------------
(* The inductive invariant.                                                *)

\* What holds of a session whatever went wrong.
Idle ==
  live = Zero /\ conf = Zero /\ pending = {} /\ ~manDirty /\ cmPc = "idle" /\ cmData = NoCm
Shape ==
  /\ phase \notin {"fetch", "peers", "rollMon", "rollCm", "load"} =>
       todo = {} /\ wrote = {} /\ ~wroteCm
  /\ phase = "fetch" => ~wroteCm
  /\ phase \notin Up => Idle
  /\ phase = "migrate" => cmPc = "idle"
  /\ phase = "closed" => wallet = "other" /\ page = "idle"
  /\ phase \in Recovering => wallet = "own"
  /\ listed # {} => hasManifest

\* No copy of a monitor is newer than the newest snapshot.
Upto(mon) == \A c \in Channel : mon[c] <= made[c]
Numbers == Upto(vssMon) /\ Upto(idbMon) /\ Upto(live) /\ Upto(pageMon)

\* The browser has every channel as acknowledged, and as either manager relies on; what it
\* has beyond that, the backup has too.
Held ==
  \A c \in Channel :
    /\ acked[c] <= idbMon[c] /\ idbCm.known[c] <= idbMon[c] /\ vssCm.known[c] <= idbMon[c]
    /\ idbMon[c] <= vssMon[c] \/ idbMon[c] <= acked[c]
    /\ idbMon[c] > 0 => c \in listed \/ acked[c] > 0
Managed == idbMon # Zero => idbCm.wallet = "own"

\* The backup has them, and lists them.
Covered ==
  \A c \in Channel :
    /\ acked[c] <= vssMon[c] /\ vssCm.known[c] <= vssMon[c]
    /\ acked[c] > 0 \/ vssCm.known[c] > 0 => c \in listed
Empty == idbMon = Zero /\ idbCm = NoCm
Full(c) == IF c \in listed THEN vssMon[c] ELSE 0

AtRest ==
  phase = "closed" =>
    /\ seed = "own" => (Held /\ Managed) \/ (Empty /\ Covered)
    /\ seed = "none" => Empty /\ Covered
    /\ seed = "other" => idbMon = Zero /\ Covered

Fetching ==
  /\ Covered /\ idbCm = NoCm /\ wrote = listed \ todo /\ todo \subseteq listed
  /\ \A c \in Channel : idbMon[c] = IF c \in wrote THEN vssMon[c] ELSE 0

Working ==
  /\ Held /\ conf = idbMon
  /\ Present(idbMon) \union pending \subseteq monitorKeys
  /\ \A c \in Channel : idbMon[c] <= live[c] /\ cmData.known[c] <= idbMon[c]
  /\ cmPc = "idb" => cmData.wallet = "own"
  /\ phase = "migrate" =>
       /\ Managed /\ (live # Zero => cmData.wallet = "own")
       /\ \A c \in pending : idbMon[c] > 0
  /\ idbCm = NoCm \/ idbCm.wallet = "own"

\* The wallet with the channels is open.
OwnOpen ==
  phase # "closed" /\ wallet = "own" =>
    /\ page = "idle" /\ seed = "own"
    /\ phase = "manifest" => Empty /\ Covered
    /\ phase = "fetch" => Fetching
    /\ phase \in {"peers", "load"} => Held /\ Managed
    /\ phase \in Up => Working

\* What the Restore page has downloaded and written.
Restoring ==
  /\ page # "idle" => pageCm = vssCm
  /\ page \in {"idle", "manifest", "monitors", "clear"} => seed = "other" /\ idbMon = Zero
  /\ page = "monitors" =>
       /\ pageTodo \subseteq listed
       /\ \A c \in Channel : pageMon[c] = IF c \in pageTodo THEN 0 ELSE Full(c)
  /\ page \in {"clear", "seed", "cm"} => \A c \in Channel : pageMon[c] = Full(c)
  /\ page \in {"seed", "cm"} => Empty
  /\ page \in {"seed", "cm", "put"} => (vssMon # Zero => vssCm.wallet # "none")
  /\ page = "seed" => seed = "none"
  /\ page \in {"cm", "put"} => seed = "own"
  /\ page = "put" =>
       /\ idbCm = vssCm \/ (idbCm = NoCm /\ vssCm.wallet = "none")
       /\ \A c \in Channel : \/ pageMon[c] = Full(c) /\ idbMon[c] = 0
                             \/ pageMon[c] = 0 /\ idbMon[c] = Full(c)

\* The empty wallet is open, where the page can be used.
OtherOpen ==
  phase # "closed" /\ wallet = "other" =>
    /\ Covered /\ live = Zero /\ conf = Zero /\ pending = {} /\ ~manDirty
    /\ Restoring

\* A wallet nothing went wrong with.
Ruled == phase \notin {"rollMon", "rollCm", "refused"} /\ vssCm.wallet # "other"
Good == Ruled /\ AtRest /\ OwnOpen /\ OtherOpen

TypeInv == TypeOK /\ Shape /\ Numbers
StartupInv == TypeInv /\ (trouble = {} => Good)

-----------------------------------------------------------------------------
(* Types and shape, unconditionally.                                       *)

\* The wallet before it holds anything.
LEMMA ZeroIs ==
  /\ Zero \in [Channel -> Nat] /\ NoCm \in Manager
  /\ \A c \in Channel : Zero[c] = 0 /\ NoCm.known[c] = 0
  /\ NoCm.wallet = "none"
  /\ \A f \in [Channel -> Nat] : (\A c \in Channel : f[c] = 0) => f = Zero
  /\ \A f \in [Channel -> Nat] : f # Zero => \E c \in Channel : f[c] > 0
BY DEF Zero, NoCm, Manager

LEMMA InitTyped == Init => TypeInv
<1> SUFFICES ASSUME Init PROVE TypeInv
  OBVIOUS
<1>1. PICK S \in SUBSET Channel, here \in BOOLEAN, there \in BOOLEAN :
        LET mon == [c \in Channel |-> IF c \in S THEN 1 ELSE 0]
            cm == [wallet |-> "own", known |-> mon] IN
          /\ S # {} => here \/ there
          /\ idbMon = IF here THEN mon ELSE Zero
          /\ idbCm = IF here THEN cm ELSE NoCm
          /\ seed \in IF here THEN {"own"} ELSE {"own", "none"}
          /\ vssMon = IF there THEN mon ELSE Zero
          /\ vssCm = IF there THEN cm ELSE NoCm
          /\ listed = IF there THEN S ELSE {}
          /\ hasManifest = (there /\ S # {})
          /\ made = mon /\ acked = mon
  BY DEF Init
<1> DEFINE mon == [c \in Channel |-> IF c \in S THEN 1 ELSE 0]
<1> DEFINE cm == [wallet |-> "own", known |-> mon]
<1>2. mon \in [Channel -> Nat] /\ cm \in Manager
  BY DEF Manager
<1>3. /\ vssMon \in [Channel -> Nat] /\ vssCm \in Manager
      /\ idbMon \in [Channel -> Nat] /\ idbCm \in Manager
      /\ made \in [Channel -> Nat] /\ acked \in [Channel -> Nat]
      /\ seed \in {"none", "own", "other"} /\ listed \in SUBSET Channel
      /\ hasManifest \in BOOLEAN
  <2> HIDE DEF mon, cm
  <2> QED BY <1>1, <1>2, ZeroIs DEF mon, cm
<1>4. TypeOK
  BY <1>3, ZeroIs DEF Init, TypeOK, Recovering, Up
<1>5. Shape
  BY <1>1 DEF Init, Shape, Idle, Recovering, Up
<1>6. Upto(vssMon) /\ Upto(idbMon)
  <2> HIDE DEF mon, cm
  <2>1. \A c \in Channel : Zero[c] <= mon[c] /\ mon[c] <= mon[c]
    BY <1>2, ZeroIs
  <2> QED BY <1>1, <2>1 DEF mon, Upto
<1>7. Upto(live) /\ Upto(pageMon)
  BY <1>3, ZeroIs DEF Init, Upto
<1> QED BY <1>4, <1>5, <1>6, <1>7 DEF TypeInv, Numbers

\* TypeOK, by the kind of value.
Flags == {hasManifest, wroteCm, manDirty, torn, sawReady} \subseteq {TRUE, FALSE}
Stores ==
  /\ vssMon \in [Channel -> Nat] /\ vssCm \in Manager
  /\ idbMon \in [Channel -> Nat] /\ idbCm \in Manager
  /\ live \in [Channel -> Nat] /\ conf \in [Channel -> Nat] /\ cmData \in Manager
  /\ pageCm \in Manager /\ pageMon \in [Channel -> Nat]
  /\ made \in [Channel -> Nat] /\ acked \in [Channel -> Nat]
Names ==
  /\ seed \in {"none", "own", "other"}
  /\ phase \in Recovering \union Up \union {"closed", "load", "refused"}
  /\ wallet \in {"own", "other"}
  /\ cmPc \in {"idle", "idb"}
  /\ page \in {"idle", "manifest", "monitors", "clear", "seed", "cm", "put"}
Sets ==
  /\ listed \in SUBSET Channel
  /\ todo \in SUBSET Channel /\ wrote \in SUBSET (Channel \ todo)
  /\ wroteCm => todo = {}
  /\ pending \in SUBSET Channel
  /\ monitorKeys \in SUBSET Channel
  /\ pageTodo \in SUBSET Channel
Counts ==
  /\ trouble \in SUBSET {"recovery failed", "half", "overwritten", "open", "incomplete"}
  /\ restores \in Nat /\ faults \in Nat

LEMMA TypeParts ==
  /\ TypeOK <=> Flags /\ Stores /\ Names /\ Sets /\ Counts
  /\ TypeOK' <=> Flags' /\ Stores' /\ Names' /\ Sets' /\ Counts'
<1>1. Flags <=> /\ hasManifest \in BOOLEAN /\ wroteCm \in BOOLEAN /\ manDirty \in BOOLEAN
                /\ torn \in BOOLEAN /\ sawReady \in BOOLEAN
  BY Zenon DEF Flags
<1>2. Flags' <=> /\ hasManifest' \in BOOLEAN /\ wroteCm' \in BOOLEAN /\ manDirty' \in BOOLEAN
                 /\ torn' \in BOOLEAN /\ sawReady' \in BOOLEAN
  BY Zenon DEF Flags
<1> QED BY <1>1, <1>2, Zenon DEF TypeOK, Stores, Names, Sets, Counts

\* A fault is counted, and so is a use of the page.
LEMMA CountedOn ==
  ASSUME Counts
  PROVE  restores + 1 \in Nat /\ \A k : Spend(k) => faults' \in Nat
<1>1. restores \in Nat /\ faults \in Nat
  BY DEF Counts
<1>2. restores + 1 \in Nat /\ faults + 1 \in Nat
  BY <1>1
<1>3. \A k : Spend(k) => faults' = faults + 1
  BY Zenon DEF Spend
<1> QED BY <1>2, <1>3

\* A failed recovery goes on to the roll back, or to the load with nothing to roll back.
LEMMA RecoveryFailsIs ==
  ASSUME RecoveryFails
  PROVE  /\ phase \in {"manifest", "fetch", "peers"} /\ phase' \in {"load", "rollMon"}
         /\ phase' = "load" => wrote = {} /\ ~wroteCm
         /\ trouble' = trouble \union {"recovery failed"}
         /\ UNCHANGED <<vssMon, vssCm, listed, hasManifest, idbMon, idbCm, seed, wallet, todo,
                        wrote, wroteCm, live, conf, pending, monitorKeys, manDirty, cmPc,
                        cmData, torn, page, pageCm, pageTodo, pageMon, sawReady, made, acked,
                        restores>>
  BY DEF RecoveryFails, Recover, backup, monitors, cmWrite, pageVars, recovery

LEMMA RecoveryFailsTyped ==
  ASSUME TypeInv, RecoveryFails
  PROVE  TypeInv'
<1>0. UNCHANGED <<vssMon, vssCm, listed, hasManifest, idbMon, idbCm, seed, wallet, todo,
                  wrote, wroteCm, live, conf, pending, monitorKeys, manDirty, cmPc, cmData,
                  torn, page, pageCm, pageTodo, pageMon, sawReady, made, acked, restores>>
  BY RecoveryFailsIs
<1>1. Stores'
  BY <1>0, TypeParts DEF TypeInv, Stores
<1>2. Numbers'
  BY <1>0, TypeParts DEF TypeInv, Numbers, Upto
<1>3. Sets'
  BY <1>0, TypeParts DEF TypeInv, Sets
<1>4. Flags' /\ Names'
  BY <1>0, RecoveryFailsIs, TypeParts DEF TypeInv, Flags, Names, Up, Recovering
<1>5. Shape'
  <2>1. phase \in {"manifest", "fetch", "peers"} /\ phase' \in {"load", "rollMon"}
        /\ (phase' = "load" => wrote = {} /\ ~wroteCm)
    BY RecoveryFailsIs
  <2> QED BY <1>0, <2>1, TypeParts DEF TypeInv, Shape, Idle, Names, Up, Recovering
<1>6. Counts'
  BY TypeParts, CountedOn DEF TypeInv, Counts, RecoveryFails, manifest, Recover, recovery,
     backup, monitors, cmWrite, pageVars
<1> QED BY <1>1, <1>2, <1>3, <1>4, <1>5, <1>6, TypeParts DEF TypeInv

LEMMA RecoveryTyped ==
  ASSUME TypeInv,
         \/ Start \/ RecoverManifest \/ RecoverManager
         \/ RecoverPeers \/ (\E c \in Channel : RecoverMonitor(c))
  PROVE  TypeInv'
<1>1. Flags'
  BY TypeParts DEF TypeInv, Flags, Start, manifest, Present, backup, recovery, monitors,
     cmWrite, pageVars, history, bounds, RecoverManifest, Recover, RecoverManager,
     TakeManager, Ghost, RecoverPeers, RecoverMonitor, Shape
<1>2. Stores'
  BY TypeParts, ZeroIs DEF TypeInv, Stores, Start, manifest, Present, backup, recovery,
     monitors, cmWrite, pageVars, history, bounds, RecoverManifest, Recover, RecoverManager,
     TakeManager, Ghost, RecoverPeers, RecoverMonitor, Manager
<1>3. Names'
  BY TypeParts DEF TypeInv, Names, Start, manifest, Present, backup, recovery, monitors,
     cmWrite, pageVars, history, bounds, RecoverManifest, Recover, RecoverManager,
     TakeManager, Ghost, RecoverPeers, RecoverMonitor, Up, Recovering
<1>4. Sets'
  BY TypeParts DEF TypeInv, Sets, Start, manifest, Present, backup, recovery, monitors,
     cmWrite, pageVars, history, bounds, RecoverManifest, Recover, RecoverManager,
     TakeManager, Ghost, RecoverPeers, RecoverMonitor, Shape
<1>5. Counts'
  BY TypeParts, CountedOn DEF TypeInv, Counts, Start, manifest, Present, backup, recovery,
     monitors, cmWrite, pageVars, history, bounds, RecoverManifest, Recover, RecoverManager,
     TakeManager, Ghost, RecoverPeers, RecoverMonitor
<1>6. Shape'
  BY TypeParts DEF TypeInv, Shape, Start, manifest, Present, backup, recovery, monitors,
     cmWrite, pageVars, history, bounds, RecoverManifest, Recover, RecoverManager,
     TakeManager, Ghost, RecoverPeers, RecoverMonitor, Idle, Sets, Names, Up, Recovering
<1>7. Numbers'
  BY TypeParts, ZeroIs DEF TypeInv, Numbers, Start, manifest, Present, backup, recovery,
     monitors, cmWrite, pageVars, history, bounds, RecoverManifest, Recover, RecoverManager,
     TakeManager, Ghost, RecoverPeers, RecoverMonitor, Upto, Stores
<1> QED BY <1>1, <1>2, <1>3, <1>4, <1>5, <1>6, <1>7, TypeParts DEF TypeInv

LEMMA RollBackTyped ==
  ASSUME TypeInv,
         RollBackMonitors \/ RollBackManager
  PROVE  TypeInv'
<1>1. Flags'
  BY TypeParts DEF TypeInv, Flags, RollBackMonitors, Recover, Spend, recovery, backup,
     monitors, cmWrite, pageVars, RollBackManager, Shape
<1>2. Stores'
  BY TypeParts, ZeroIs DEF TypeInv, Stores, RollBackMonitors, Recover, Spend, recovery,
     backup, monitors, cmWrite, pageVars, RollBackManager, Manager
<1>3. Names'
  BY TypeParts DEF TypeInv, Names, RollBackMonitors, Recover, Spend, recovery, backup,
     monitors, cmWrite, pageVars, RollBackManager, Up, Recovering
<1>4. Sets'
  BY TypeParts DEF TypeInv, Sets, RollBackMonitors, Recover, Spend, recovery, backup,
     monitors, cmWrite, pageVars, RollBackManager, Shape
<1>5. Counts'
  BY TypeParts, CountedOn DEF TypeInv, Counts, RollBackMonitors, Recover, recovery, backup,
     monitors, cmWrite, pageVars, RollBackManager
<1>6. Shape'
  BY TypeParts DEF TypeInv, Shape, RollBackMonitors, Recover, Spend, recovery, backup,
     monitors, cmWrite, pageVars, RollBackManager, Idle, Sets, Names, Up, Recovering
<1>7. Numbers'
  BY TypeParts, ZeroIs DEF TypeInv, Numbers, RollBackMonitors, Recover, Spend, recovery,
     backup, monitors, cmWrite, pageVars, RollBackManager, Upto, Stores
<1> QED BY <1>1, <1>2, <1>3, <1>4, <1>5, <1>6, <1>7, TypeParts DEF TypeInv

LEMMA LoadTyped ==
  ASSUME TypeInv,
         LoadStored \/ LoadFresh \/ Refuse \/ Migrate \/ NoMigration
  PROVE  TypeInv'
<1>1. Flags'
  BY TypeParts DEF TypeInv, Flags, LoadStored, Loading, Present, Ghost, backup, pageVars,
     bounds, LoadFresh, Refuse, monitors, manifest, Migrate, Ready, Upload, local, recovery,
     history, NoMigration, Spend, Shape
<1>2. Stores'
  BY TypeParts, ZeroIs DEF TypeInv, Stores, LoadStored, Loading, Present, Ghost, backup,
     pageVars, bounds, LoadFresh, Refuse, monitors, manifest, Migrate, Ready, Upload, local,
     recovery, history, NoMigration, Spend, Manager
<1>3. Names'
  BY TypeParts DEF TypeInv, Names, LoadStored, Loading, Present, Ghost, backup, pageVars,
     bounds, LoadFresh, Refuse, monitors, manifest, Migrate, Ready, Upload, local, recovery,
     history, NoMigration, Spend, Up, Recovering
<1>4. Sets'
  BY TypeParts DEF TypeInv, Sets, LoadStored, Loading, Present, Ghost, backup, pageVars,
     bounds, LoadFresh, Refuse, monitors, manifest, Migrate, Ready, Upload, local, recovery,
     history, NoMigration, Spend, Shape
<1>5. Counts'
  BY TypeParts, CountedOn DEF TypeInv, Counts, LoadStored, Loading, Present, Ghost, backup,
     pageVars, bounds, LoadFresh, Refuse, monitors, manifest, Migrate, Ready, Upload, local,
     recovery, history, NoMigration
<1>6. Shape'
  BY TypeParts DEF TypeInv, Shape, LoadStored, Loading, Present, Ghost, backup, pageVars,
     bounds, LoadFresh, Refuse, monitors, manifest, Migrate, Ready, Upload, local, recovery,
     history, NoMigration, Spend, Idle, Sets, Names, Up, Recovering
<1>7. Numbers'
  BY TypeParts, ZeroIs DEF TypeInv, Numbers, LoadStored, Loading, Present, Ghost, backup,
     pageVars, bounds, LoadFresh, Refuse, monitors, manifest, Migrate, Ready, Upload, local,
     recovery, history, NoMigration, Spend, Upto, Stores
<1> QED BY <1>1, <1>2, <1>3, <1>4, <1>5, <1>6, <1>7, TypeParts DEF TypeInv

LEMMA RunTyped ==
  ASSUME TypeInv,
         \/ WriteManifest \/ StoreManager
         \/ (\E c \in Channel : PutMonitor(c) \/ StoreMonitor(c))
  PROVE  TypeInv'
<1>1. Flags'
  BY TypeParts DEF TypeInv, Flags, WriteManifest, Up, Spend, manifest, Session, monitors,
     cmWrite, recovery, StoreManager, Ghost, backup, PutMonitor, StoreMonitor, Shape
<1>2. Stores'
  BY TypeParts, ZeroIs DEF TypeInv, Stores, WriteManifest, Up, Spend, manifest, Session,
     monitors, cmWrite, recovery, StoreManager, Ghost, backup, PutMonitor, StoreMonitor,
     Manager
<1>3. Names'
  BY TypeParts DEF TypeInv, Names, WriteManifest, Up, Spend, manifest, Session, monitors,
     cmWrite, recovery, StoreManager, Ghost, backup, PutMonitor, StoreMonitor, Recovering
<1>4. Sets'
  BY TypeParts DEF TypeInv, Sets, WriteManifest, Up, Spend, manifest, Session, monitors,
     cmWrite, recovery, StoreManager, Ghost, backup, PutMonitor, StoreMonitor, Shape
<1>5. Counts'
  BY TypeParts, CountedOn DEF TypeInv, Counts, WriteManifest, Up, manifest, Session, monitors,
     cmWrite, recovery, StoreManager, Ghost, backup, PutMonitor, StoreMonitor
<1>6. Shape'
  <2>1. CASE WriteManifest
    BY <2>1, TypeParts DEF TypeInv, Shape, WriteManifest, Up, Spend, manifest, Session,
       monitors, cmWrite, recovery, Idle, Sets, Names, Recovering
  <2>2. CASE StoreManager
    BY <2>2, TypeParts DEF TypeInv, Shape, StoreManager, Ghost, Session, backup, monitors,
       manifest, recovery, Idle, Sets, Names, Up, Recovering
  <2>3. CASE (\E c \in Channel : PutMonitor(c) \/ StoreMonitor(c))
    BY <2>3, TypeParts DEF TypeInv, Shape, PutMonitor, Up, Session, monitors, manifest,
       cmWrite, recovery, StoreMonitor, Ghost, backup, Idle, Sets, Names, Recovering
  <2> QED BY <2>1, <2>2, <2>3
<1>7. Numbers'
  BY TypeParts, ZeroIs DEF TypeInv, Numbers, WriteManifest, Up, Spend, manifest, Session,
     monitors, cmWrite, recovery, StoreManager, Ghost, backup, PutMonitor, StoreMonitor, Upto,
     Stores
<1> QED BY <1>1, <1>2, <1>3, <1>4, <1>5, <1>6, <1>7, TypeParts DEF TypeInv

\* The manager a session writes relies on what it was told is durable.
LEMMA MineTyped ==
  ASSUME TypeInv
  PROVE  Mine \in Manager /\ Mine.wallet = wallet /\ Mine.known = conf
  BY TypeParts DEF TypeInv, Names, Stores, Mine, Manager

LEMMA WriteTyped ==
  ASSUME TypeInv,
         PutManager \/ Hide
  PROVE  TypeInv'
<1>1. Flags'
  BY TypeParts DEF TypeInv, Flags, PutManager, Mine, Put, Session, monitors, manifest,
     history, recovery, Hide, Ghost, backup, cmWrite, Shape
<1>2. Stores'
  BY TypeParts, MineTyped DEF TypeInv, Stores, PutManager, Put, Session, monitors, manifest,
     history, recovery, Hide, Ghost, backup, cmWrite
<1>3. Names'
  BY TypeParts DEF TypeInv, Names, PutManager, Mine, Put, Session, monitors, manifest,
     history, recovery, Hide, Ghost, backup, cmWrite, Up, Recovering
<1>4. Sets'
  BY TypeParts DEF TypeInv, Sets, PutManager, Mine, Put, Session, monitors, manifest, history,
     recovery, Hide, Ghost, backup, cmWrite, Shape
<1>5. Counts'
  BY TypeParts, CountedOn DEF TypeInv, Counts, PutManager, Mine, Put, Session, monitors,
     manifest, history, recovery, Hide, Ghost, backup, cmWrite
<1>6. Shape'
  BY TypeParts DEF TypeInv, Shape, PutManager, Mine, Put, Session, monitors, manifest,
     history, recovery, Hide, Ghost, backup, cmWrite, Idle, Sets, Names, Up, Recovering
<1>7. Numbers'
  BY TypeParts, ZeroIs DEF TypeInv, Numbers, PutManager, Mine, Put, Session, monitors,
     manifest, history, recovery, Hide, Ghost, backup, cmWrite, Upto, Stores
<1> QED BY <1>1, <1>2, <1>3, <1>4, <1>5, <1>6, <1>7, TypeParts DEF TypeInv

\* A new snapshot is the newest.
LEMMA PersistIs ==
  ASSUME NEW c \in Channel, TypeInv, Persist(c)
  PROVE  /\ made[c] + 1 \in Nat /\ \A m \in Nat : m <= made[c] => m <= made[c] + 1
         /\ made' = [made EXCEPT ![c] = made[c] + 1]
         /\ live' = [live EXCEPT ![c] = made[c] + 1]
         /\ UNCHANGED <<vssMon, vssCm, listed, hasManifest, idbMon, idbCm, conf, cmPc, cmData,
                        phase, wallet, seed, page, pageCm, pageMon, acked, trouble, faults,
                        restores>>
<1>1. made[c] \in Nat
  BY TypeParts DEF TypeInv, Stores
<1>2. made[c] + 1 \in Nat /\ \A m \in Nat : m <= made[c] => m <= made[c] + 1
  BY <1>1
<1> QED
  BY <1>2 DEF Persist, Session, backup, cmWrite

LEMMA PersistTyped ==
  ASSUME NEW c \in Channel, TypeInv, Persist(c)
  PROVE  TypeInv'
<1> DEFINE n == made[c] + 1
<1>0. n \in Nat /\ \A m \in Nat : m <= made[c] => m <= n
  BY PersistIs
<1>1. made' = [made EXCEPT ![c] = n] /\ live' = [live EXCEPT ![c] = n]
  BY PersistIs
<1> HIDE DEF n
<1>2. Stores'
  BY <1>0, <1>1, PersistIs, TypeParts DEF TypeInv, Stores
<1>3. Numbers'
  <2>1. UNCHANGED <<vssMon, idbMon, pageMon>>
    BY PersistIs
  <2> QED BY <1>0, <1>1, <2>1, TypeParts DEF TypeInv, Numbers, Upto, Stores, n
<1>4. Flags' /\ Sets'
  BY TypeParts DEF TypeInv, Flags, Sets, Persist, Session, backup, cmWrite, recovery
<1>5. Names' /\ Counts'
  BY PersistIs, TypeParts DEF TypeInv, Names, Counts, Persist, Session, backup, cmWrite,
     recovery
<1>6. Shape'
  BY PersistIs, TypeParts DEF TypeInv, Shape, Idle, Names, Up, Recovering, Persist, Session,
     backup, cmWrite, recovery
<1> QED BY <1>2, <1>3, <1>4, <1>5, <1>6, TypeParts DEF TypeInv

LEMMA PageTyped ==
  ASSUME TypeInv,
         \/ PageOpen \/ PageManifest \/ PageFails \/ PageShutdown \/ PageClear
         \/ PageSeed \/ PageManager \/ (\E c \in Channel : PageMonitor(c) \/ PagePut(c))
  PROVE  TypeInv'
<1>1. Flags'
  BY TypeParts DEF TypeInv, Flags, PageMonitor, Page, monitors, local, bounds, backup,
     recovery, manifest, cmWrite, PagePut, PageOpen, PageManifest, PageFails, Spend,
     PageShutdown, PageClear, Present, PageSeed, PageManager, Shape
<1>2. Stores'
  BY TypeParts, ZeroIs DEF TypeInv, Stores, PageMonitor, Page, monitors, local, bounds,
     backup, recovery, manifest, cmWrite, PagePut, PageOpen, PageManifest, PageFails, Spend,
     PageShutdown, PageClear, Present, PageSeed, PageManager, Manager
<1>3. Names'
  BY TypeParts DEF TypeInv, Names, PageMonitor, Page, monitors, local, bounds, backup,
     recovery, manifest, cmWrite, PagePut, PageOpen, PageManifest, PageFails, Spend,
     PageShutdown, PageClear, Present, PageSeed, PageManager, Up, Recovering
<1>4. Sets'
  BY TypeParts DEF TypeInv, Sets, PageMonitor, Page, monitors, local, bounds, backup,
     recovery, manifest, cmWrite, PagePut, PageOpen, PageManifest, PageFails, Spend,
     PageShutdown, PageClear, Present, PageSeed, PageManager, Shape
<1>5. Counts'
  BY TypeParts, CountedOn DEF TypeInv, Counts, PageMonitor, Page, monitors, local, bounds,
     backup, recovery, manifest, cmWrite, PagePut, PageOpen, PageManifest, PageFails,
     PageShutdown, PageClear, Present, PageSeed, PageManager
<1>6. Shape'
  BY TypeParts DEF TypeInv, Shape, PageMonitor, Page, monitors, local, bounds, backup,
     recovery, manifest, cmWrite, PagePut, PageOpen, PageManifest, PageFails, Spend,
     PageShutdown, PageClear, Present, PageSeed, PageManager, Idle, Sets, Names, Up,
     Recovering
<1>7. Numbers'
  BY TypeParts, ZeroIs DEF TypeInv, Numbers, PageMonitor, Page, monitors, local, bounds,
     backup, recovery, manifest, cmWrite, PagePut, PageOpen, PageManifest, PageFails, Spend,
     PageShutdown, PageClear, Present, PageSeed, PageManager, Upto, Stores
<1> QED BY <1>1, <1>2, <1>3, <1>4, <1>5, <1>6, <1>7, TypeParts DEF TypeInv

LEMMA EndTyped ==
  ASSUME TypeInv,
         PageReload \/ Crash \/ Wipe
  PROVE  TypeInv'
<1>1. Flags'
  BY TypeParts DEF TypeInv, Flags, PageReload, Closed, backup, local, Crash, Spend, Wipe,
     recovery, monitors, manifest, cmWrite, pageVars, Present, Shape
<1>2. Stores'
  BY TypeParts, ZeroIs DEF TypeInv, Stores, PageReload, Closed, backup, local, Crash, Spend,
     Wipe, recovery, monitors, manifest, cmWrite, pageVars, Present, Manager
<1>3. Names'
  BY TypeParts DEF TypeInv, Names, PageReload, Closed, backup, local, Crash, Spend, Wipe,
     recovery, monitors, manifest, cmWrite, pageVars, Present, Up, Recovering
<1>4. Sets'
  BY TypeParts DEF TypeInv, Sets, PageReload, Closed, backup, local, Crash, Spend, Wipe,
     recovery, monitors, manifest, cmWrite, pageVars, Present, Shape
<1>5. Counts'
  BY TypeParts, CountedOn DEF TypeInv, Counts, PageReload, Closed, backup, local, Crash, Wipe,
     recovery, monitors, manifest, cmWrite, pageVars, Present
<1>6. Shape'
  BY TypeParts DEF TypeInv, Shape, PageReload, Closed, backup, local, Crash, Spend, Wipe,
     recovery, monitors, manifest, cmWrite, pageVars, Present, Idle, Sets, Names, Up,
     Recovering
<1>7. Numbers'
  BY TypeParts, ZeroIs DEF TypeInv, Numbers, PageReload, Closed, backup, local, Crash, Spend,
     Wipe, recovery, monitors, manifest, cmWrite, pageVars, Present, Upto, Stores
<1> QED BY <1>1, <1>2, <1>3, <1>4, <1>5, <1>6, <1>7, TypeParts DEF TypeInv

LEMMA StillTyped ==
  ASSUME TypeInv, UNCHANGED vars
  PROVE  TypeInv'
<1>1. UNCHANGED <<vssMon, vssCm, listed, hasManifest, idbMon, idbCm, seed, phase, wallet, todo,
                  wrote, wroteCm, live, conf, pending, monitorKeys, manDirty, cmPc, cmData,
                  torn, page, pageCm, pageTodo, pageMon, sawReady, made, acked, trouble,
                  restores, faults>>
  BY DEF vars, backup, local, recovery, monitors, manifest, cmWrite, pageVars, history, bounds
<1>2. Stores' /\ Names' /\ Sets' /\ Counts'
  BY <1>1, TypeParts DEF TypeInv, Stores, Names, Sets, Counts
<1>3. Flags'
  BY <1>1, TypeParts DEF TypeInv, Flags
<1>4. Shape' /\ Numbers'
  BY <1>1, TypeParts DEF TypeInv, Shape, Idle, Numbers, Upto
<1> QED BY <1>2, <1>3, <1>4, TypeParts DEF TypeInv

LEMMA NextTyped == TypeInv /\ [Next]_vars => TypeInv'
<1> SUFFICES ASSUME TypeInv, [Next]_vars
             PROVE  TypeInv'
  OBVIOUS
<1>1. CASE UNCHANGED vars
  BY <1>1, StillTyped
<1>2. CASE Next
  BY <1>2, RecoveryTyped, RecoveryFailsTyped, RollBackTyped, LoadTyped, RunTyped, WriteTyped,
     PersistTyped, PageTyped, EndTyped DEF Next
<1> QED
  BY <1>1, <1>2

\* Whatever fails wherever, every part of the wallet's start-up keeps to its values, and what
\* was recovered is disjoint from what is still to be (init.ts, recoverFromVss).
THEOREM StartupTyped == Spec => []TypeOK
<1>1. TypeInv => TypeOK
  BY DEF TypeInv
<1> QED
  BY <1>1, InitTyped, NextTyped, PTL DEF Spec

-----------------------------------------------------------------------------
(* A wallet nothing goes wrong with.                                       *)

LEMMA InitGood == Init => Good
<1> SUFFICES ASSUME Init PROVE Good
  OBVIOUS
<1>1. PICK S \in SUBSET Channel, here \in BOOLEAN, there \in BOOLEAN :
        LET mon == [c \in Channel |-> IF c \in S THEN 1 ELSE 0]
            cm == [wallet |-> "own", known |-> mon] IN
          /\ S # {} => here \/ there
          /\ idbMon = IF here THEN mon ELSE Zero
          /\ idbCm = IF here THEN cm ELSE NoCm
          /\ seed \in IF here THEN {"own"} ELSE {"own", "none"}
          /\ vssMon = IF there THEN mon ELSE Zero
          /\ vssCm = IF there THEN cm ELSE NoCm
          /\ listed = IF there THEN S ELSE {}
          /\ made = mon /\ acked = mon
  BY DEF Init
<1> DEFINE mon == [c \in Channel |-> IF c \in S THEN 1 ELSE 0]
<1> DEFINE cm == [wallet |-> "own", known |-> mon]
<1>2. /\ \A c \in Channel : mon[c] = IF c \in S THEN 1 ELSE 0
      /\ cm.wallet = "own" /\ cm.known = mon
  OBVIOUS
<1>3. Ruled
  <2> HIDE DEF mon, cm
  <2> QED BY <1>1, <1>2, ZeroIs DEF Init, Ruled, mon, cm
<1>4. CASE here
  <2>1. idbMon = mon /\ idbCm = cm /\ seed = "own" /\ acked = mon
    BY <1>1, <1>4
  <2>2. \A c \in Channel : vssCm.known[c] <= mon[c] /\ (mon[c] <= vssMon[c] \/ mon[c] <=
     acked[c])
                           /\ (mon[c] > 0 => acked[c] > 0)
    BY <1>1, <1>2, ZeroIs
  <2> HIDE DEF mon, cm
  <2>3. Held /\ Managed
    BY <1>2, <2>1, <2>2 DEF Held, Managed
  <2> QED BY <1>3, <2>1, <2>3 DEF Init, Good, AtRest, OwnOpen, OtherOpen
<1>5. CASE ~here
  <2>1. Empty /\ seed \in {"own", "none"}
    BY <1>1, <1>5 DEF Empty
  <2>2. Covered
    <3>1. CASE there
      BY <1>1, <1>2, <3>1 DEF Covered
    <3>2. CASE ~there
      BY <1>1, <1>2, <1>5, <3>2, ZeroIs DEF Covered
    <3> QED BY <3>1, <3>2
  <2> QED BY <1>3, <2>1, <2>2 DEF Init, Good, AtRest, OwnOpen, OtherOpen
<1> QED BY <1>4, <1>5

\* A browser that holds the channels and is empty holds none: the backup covers them.
LEMMA EmptyHeld ==
  ASSUME TypeInv, Held, idbMon = Zero
  PROVE  Covered
  BY TypeParts, ZeroIs DEF TypeInv, Stores, Manager, Held, Covered

LEMMA StartGood ==
  ASSUME TypeInv, Good, Start
  PROVE  Good'
<1>0. UNCHANGED <<vssMon, vssCm, listed, idbMon, idbCm, acked, live, conf, pending, manDirty,
                  page>>
  BY DEF Start, backup, monitors, pageVars, history
<1>1. live = Zero /\ conf = Zero /\ pending = {} /\ ~manDirty /\ page = "idle"
  BY DEF Start, TypeInv, Shape, Idle, Up
<1>2. Ruled'
  BY <1>0 DEF Start, Good, Ruled
<1>3. CASE seed = "own"
  <2>1. wallet' = "own" /\ seed' = "own"
    BY <1>3 DEF Start
  <2>2. (Held /\ Managed) \/ (Empty /\ Covered)
    BY <1>3 DEF Start, Good, AtRest
  <2>3. CASE phase' = "manifest"
    <3>1. Empty /\ Covered
      BY <2>2, <2>3, EmptyHeld DEF Start, Empty
    <3> QED BY <1>0, <1>1, <1>2, <2>1, <2>3, <3>1 DEF Good, AtRest, OwnOpen, OtherOpen, Empty,
        Covered, Up
  <2>4. CASE phase' = "load" /\ ~Empty
    <3>1. Held /\ Managed
      BY <2>2, <2>4
    <3> QED BY <1>0, <1>1, <1>2, <2>1, <2>4, <3>1 DEF Good, AtRest, OwnOpen, OtherOpen, Held,
        Managed, Up
  <2> QED BY <2>1, <2>3, <2>4 DEF Start, Empty
<1>4. CASE seed # "own"
  <2>1. wallet' = "other" /\ seed' = "other" /\ idbMon = Zero /\ Covered /\ phase' = "load"
    BY <1>4, TypeParts DEF Start, Good, AtRest, TypeInv, Names, Empty
  <2>2. Covered' /\ Restoring'
    BY <1>0, <1>1, <2>1 DEF Covered, Restoring
  <2> QED BY <1>0, <1>1, <1>2, <2>1, <2>2 DEF Good, AtRest, OwnOpen, OtherOpen
<1> QED BY <1>3, <1>4

\* Which parts a step owes, by the state it leads to.
LEMMA Owed ==
  ASSUME Ruled'
  PROVE  /\ phase' # "closed" /\ wallet' = "own" /\ OwnOpen' => Good'
         /\ phase' # "closed" /\ wallet' = "other" /\ OtherOpen' => Good'
         /\ phase' = "closed" /\ AtRest' => Good'
  BY DEF Good, OwnOpen, OtherOpen, AtRest

LEMMA RecoverManifestGood ==
  ASSUME TypeInv, Good, RecoverManifest
  PROVE  Good'
<1>1. /\ wallet' = "own" /\ page' = "idle" /\ seed' = "own" /\ Ruled'
      /\ UNCHANGED <<vssMon, vssCm, listed, idbMon, idbCm, wrote, acked>>
      /\ Empty /\ Covered /\ wrote = {} /\ todo' = listed
      /\ listed # {} => hasManifest
  BY DEF RecoverManifest, Recover, backup, pageVars, Good, Ruled, OwnOpen, TypeInv, Shape,
         Recovering
<1>2. CASE hasManifest
  <2>1. phase' = "fetch"
    BY <1>2 DEF RecoverManifest, Recover
  <2>2. Fetching'
    BY <1>1, ZeroIs DEF Fetching, Covered, Empty
  <2> QED BY <1>1, <2>1, <2>2, Owed DEF OwnOpen, Up
<1>3. CASE ~hasManifest
  <2>1. phase' = "load"
    BY <1>3 DEF RecoverManifest, Recover
  <2>2. Held' /\ Managed'
    BY <1>1, <1>3, TypeParts, ZeroIs DEF Held, Managed, Covered, Empty, TypeInv, Stores, Manager
  <2> QED BY <1>1, <2>1, <2>2, Owed DEF OwnOpen, Up
<1> QED BY <1>2, <1>3

LEMMA RecoverMonitorGood ==
  ASSUME NEW c \in Channel, TypeInv, Good, RecoverMonitor(c)
  PROVE  Good'
<1>1. /\ phase' = "fetch" /\ wallet' = "own" /\ page' = "idle" /\ seed' = "own" /\ Ruled'
      /\ UNCHANGED <<vssMon, vssCm, listed, idbCm, acked>>
      /\ Fetching /\ c \in todo
      /\ idbMon' = [idbMon EXCEPT ![c] = vssMon[c]]
      /\ todo' = todo \ {c} /\ wrote' = wrote \union {c}
  BY DEF RecoverMonitor, Recover, backup, pageVars, Good, Ruled, OwnOpen, TypeInv, Shape,
         Recovering
<1>2. Fetching'
  BY <1>1, TypeParts DEF Fetching, Covered, TypeInv, Stores
<1> QED BY <1>1, <1>2, Owed DEF OwnOpen, Up

LEMMA RecoverManagerGood ==
  ASSUME TypeInv, Good, RecoverManager
  PROVE  Good'
<1>1. /\ phase' = "peers" /\ wallet' = "own" /\ page' = "idle" /\ seed' = "own" /\ Ruled'
      /\ UNCHANGED <<vssMon, vssCm, listed, idbMon, acked>>
      /\ Fetching /\ todo = {} /\ idbCm' = vssCm /\ vssCm.wallet = "own"
  BY DEF RecoverManager, TakeManager, Recover, backup, pageVars, Good, Ruled, OwnOpen, TypeInv,
         Shape, Recovering
<1>2. Held' /\ Managed'
  BY <1>1, TypeParts DEF Fetching, Covered, Held, Managed, TypeInv, Stores, Manager
<1> QED BY <1>1, <1>2, Owed DEF OwnOpen, Up

LEMMA RecoverPeersGood ==
  ASSUME TypeInv, Good, RecoverPeers
  PROVE  Good'
<1>1. /\ phase' = "load" /\ wallet' = "own" /\ page' = "idle" /\ seed' = "own" /\ Ruled'
      /\ UNCHANGED <<vssMon, vssCm, listed, idbMon, idbCm, acked>>
      /\ Held /\ Managed
  BY DEF RecoverPeers, Recover, backup, pageVars, Good, Ruled, OwnOpen, TypeInv, Shape,
         Recovering
<1>2. Held' /\ Managed'
  BY <1>1 DEF Held, Managed
<1> QED BY <1>1, <1>2, Owed DEF OwnOpen, Up

LEMMA LoadStoredGood ==
  ASSUME TypeInv, Good, LoadStored, trouble' = {}
  PROVE  Good'
<1>1. /\ phase = "load" /\ phase' = "migrate" /\ wallet' = wallet /\ Ruled'
      /\ UNCHANGED <<vssMon, vssCm, listed, idbMon, idbCm, seed, acked, page, pageCm, pageTodo,
                     pageMon>>
      /\ idbCm.wallet = wallet /\ wallet \in {"own", "other"}
      /\ live' = idbMon /\ conf' = idbMon /\ pending' = Present(idbMon)
      /\ monitorKeys' = monitorKeys \union Present(idbMon)
      /\ manDirty' = (idbMon # Zero) /\ cmData' = idbCm
      /\ page \notin {"seed", "cm", "put"} /\ cmPc' = "idle"
  BY TypeParts DEF LoadStored, Loading, Readable, Ghost, backup, pageVars, Good, Ruled,
     TypeInv, Shape,
                   Idle, Up, Names
<1>2. CASE wallet = "own"
  <2>1. page = "idle" /\ seed = "own" /\ Held /\ Managed
    BY <1>1, <1>2 DEF Good, OwnOpen
  <2>2. Working'
    BY <1>1, <1>2, <2>1, TypeParts DEF Working, Held, Managed, Present, TypeInv, Stores
  <2> QED BY <1>1, <1>2, <2>1, <2>2, Owed DEF OwnOpen, Up
<1>3. CASE wallet = "other"
  <2>1. Covered /\ Restoring /\ idbMon = Zero
    BY <1>1, <1>3, TypeParts DEF Good, OtherOpen, Restoring, TypeInv, Names
  <2>2. Covered' /\ Restoring'
    BY <1>1, <2>1 DEF Covered, Restoring, Full, Empty
  <2>3. Present(idbMon) = {}
    BY <2>1, ZeroIs DEF Present
  <2> QED BY <1>1, <1>3, <2>1, <2>2, <2>3, Owed DEF OtherOpen
<1> QED BY <1>1, <1>2, <1>3

LEMMA LoadFreshGood ==
  ASSUME TypeInv, Good, LoadFresh, trouble' = {}
  PROVE  Good'
<1>1. /\ phase = "load" /\ phase' = "migrate" /\ wallet' = wallet /\ Ruled'
      /\ UNCHANGED <<vssMon, vssCm, listed, idbMon, seed, acked, page, pageCm, pageTodo,
                     pageMon, manDirty, cmData>>
      /\ wallet \in {"own", "other"}
      /\ live' = Zero /\ conf' = Zero /\ pending' = {} /\ idbMon = Zero /\ idbCm' = NoCm
      /\ ~manDirty /\ cmData = NoCm
      /\ page \notin {"seed", "cm", "put"} /\ cmPc' = "idle"
  BY TypeParts DEF LoadFresh, Loading, Ghost, backup, pageVars, Good, Ruled, TypeInv, Shape,
                   Idle, Up, Names
<1>2. CASE wallet = "own"
  <2>1. page = "idle" /\ seed = "own" /\ Held
    BY <1>1, <1>2 DEF Good, OwnOpen
  <2>2. Present(idbMon) = {}
    BY <1>1, ZeroIs DEF Present
  <2>3. Working'
    BY <1>1, <1>2, <2>1, <2>2, ZeroIs DEF Working, Held, Managed, Present
  <2> QED BY <1>1, <1>2, <2>1, <2>3, Owed DEF OwnOpen, Up
<1>3. CASE wallet = "other"
  <2>1. Covered /\ Restoring
    BY <1>1, <1>3, TypeParts DEF Good, OtherOpen, Restoring, TypeInv, Names
  <2>2. Covered' /\ Restoring'
    BY <1>1, <2>1 DEF Covered, Restoring, Full, Empty
  <2> QED BY <1>1, <1>3, <2>1, <2>2, Owed DEF OtherOpen
<1> QED BY <1>1, <1>2, <1>3

\* The stored monitors and manager of a wallet nothing went wrong with are never refused.
LEMMA NotRefused ==
  ASSUME TypeInv, Good, Refuse
  PROVE  trouble' # {}
<1> SUFFICES ASSUME trouble' = {} PROVE FALSE
  OBVIOUS
<1>1. phase = "load" /\ ~Readable /\ idbMon # Zero /\ page \notin {"seed", "cm", "put"}
  BY DEF Refuse, Loading, Ghost
<1>2. CASE wallet = "own"
  <2>1. Held /\ Managed
    BY <1>1, <1>2 DEF Good, OwnOpen
  <2> QED BY <1>1, <1>2, <2>1 DEF Held, Managed, Readable
<1>3. CASE wallet = "other"
  BY <1>1, <1>3, TypeParts DEF Good, OtherOpen, Restoring, TypeInv, Names
<1> QED BY <1>2, <1>3, TypeParts DEF TypeInv, Names

\* A session that is up: what both wallets' steps start from.
LEMMA UpIs ==
  ASSUME TypeInv, Good, phase \in Up
  PROVE  /\ phase # "closed" /\ phase \in {"migrate", "running"} /\ wallet \in {"own", "other"}
         /\ wallet = "own" => Working /\ page = "idle" /\ seed = "own"
         /\ wallet = "other" => /\ Covered /\ Restoring /\ live = Zero /\ conf = Zero
                                /\ pending = {} /\ ~manDirty
  BY TypeParts DEF TypeInv, Names, Up, Good, OwnOpen, OtherOpen

LEMMA MigrateGood ==
  ASSUME TypeInv, Good, Migrate
  PROVE  Good'
<1>1. /\ phase = "migrate" /\ phase' = "running" /\ live # Zero
      /\ UNCHANGED <<idbMon, idbCm, seed, wallet, live, conf, pending, monitorKeys, cmPc, page,
                     acked>>
      /\ vssMon' = live /\ vssCm' = cmData /\ listed' = Present(live) /\ cmData' = NoCm
  BY DEF Migrate, Ready, Upload, local, monitors, manifest, pageVars, history
<1>2. wallet = "own" /\ Working /\ page = "idle" /\ seed = "own" /\ cmPc = "idle"
  BY <1>1, UpIs DEF Up, TypeInv, Shape
<1>3. Ruled'
  BY <1>1, <1>2 DEF Ruled, Working
<1>4. Held'
  BY <1>1, <1>2, TypeParts DEF Working, Held, Present, TypeInv, Stores, Manager
<1>5. Working'
  BY <1>1, <1>2, <1>4, ZeroIs, TypeParts DEF Working, Present, TypeInv, Stores
<1> QED BY <1>1, <1>2, <1>3, <1>5, Owed DEF OwnOpen, Up

LEMMA NoMigrationGood ==
  ASSUME TypeInv, Good, NoMigration
  PROVE  Good'
<1>1. /\ phase = "migrate" /\ phase' = "running" /\ Ruled'
      /\ UNCHANGED <<vssMon, vssCm, listed, idbMon, idbCm, seed, wallet, live, conf, pending,
                     monitorKeys, manDirty, cmPc, page, pageCm, pageTodo, pageMon, acked>>
      /\ cmData' = NoCm
  BY DEF NoMigration, Ready, backup, local, monitors, manifest, pageVars, history, Good, Ruled
<1>2. CASE wallet = "own"
  <2>1. Working /\ page = "idle" /\ seed = "own" /\ cmPc = "idle"
    BY <1>1, <1>2, UpIs DEF Up, TypeInv, Shape
  <2>2. Working'
    BY <1>1, <2>1, ZeroIs, TypeParts DEF Working, Held, Present, TypeInv, Stores
  <2> QED BY <1>1, <1>2, <2>1, <2>2, Owed DEF OwnOpen, Up
<1>3. CASE wallet = "other"
  <2>1. Covered' /\ Restoring'
    BY <1>1, <1>3, UpIs DEF Up, Covered, Restoring, Full, Empty
  <2> QED BY <1>1, <1>3, <2>1, UpIs, Owed DEF OtherOpen, Up
<1> QED BY <1>1, <1>2, <1>3, UpIs DEF Up

\* A step of the empty wallet that leaves the backup, the browser and the page alone.
LEMMA OtherStill ==
  ASSUME TypeInv, Good, phase \in Up, wallet = "other",
         UNCHANGED <<vssMon, vssCm, listed, idbMon, seed, phase, wallet, live, conf, pending,
                     manDirty, page, pageCm, pageTodo, pageMon, acked>>,
         idbCm' = idbCm \/ page \notin {"seed", "cm", "put"}
  PROVE  Good'
<1>1. Covered' /\ Restoring'
  BY UpIs DEF Covered, Restoring, Full, Empty
<1> QED
  BY <1>1, UpIs, Owed DEF Good, Ruled, OtherOpen

LEMMA WriteManifestGood ==
  ASSUME TypeInv, Good, WriteManifest
  PROVE  Good'
<1>1. /\ phase \in Up /\ manDirty
      /\ UNCHANGED <<vssMon, vssCm, idbMon, idbCm, seed, phase, wallet, live, conf, pending,
                     cmPc, cmData, page, acked>>
      /\ \/ monitorKeys \subseteq monitorKeys' /\ listed' = monitorKeys'
         \/ UNCHANGED <<monitorKeys, listed>>
  BY DEF WriteManifest, Session, monitors, cmWrite
<1>2. wallet = "own" /\ Working /\ page = "idle" /\ seed = "own"
  BY <1>1, UpIs
<1>3. Ruled'
  BY <1>1 DEF Good, Ruled
<1>4. Held'
  BY <1>1, <1>2 DEF Working, Held, Present
<1>5. Working'
  BY <1>1, <1>2, <1>4 DEF Working, Managed, Present
<1> QED BY <1>1, <1>2, <1>3, <1>5, UpIs, Owed DEF OwnOpen

LEMMA PutManagerGood ==
  ASSUME TypeInv, Good, PutManager
  PROVE  Good'
<1>1. /\ phase = "running" /\ phase \in Up
      /\ UNCHANGED <<vssMon, listed, idbMon, idbCm, seed, phase, wallet, live, conf, pending,
                     monitorKeys, manDirty, page, pageCm, pageTodo, pageMon, acked>>
      /\ vssCm' = IF wallet = "own" THEN Mine ELSE vssCm
      /\ cmData' = Mine
  BY DEF PutManager, Put, Session, monitors, manifest, history, Up
<1>2. CASE wallet = "own"
  <2>1. Working /\ page = "idle" /\ seed = "own" /\ conf = idbMon
    BY <1>1, <1>2, UpIs DEF Working
  <2>2. vssCm' = Mine /\ Mine.wallet = "own" /\ Mine.known = idbMon
    BY <1>1, <1>2, <2>1, MineTyped
  <2>3. Ruled'
    BY <1>1, <2>2 DEF Ruled
  <2>4. Held'
    BY <1>1, <2>1, <2>2, TypeParts DEF Working, Held, TypeInv, Stores
  <2>5. Working'
    BY <1>1, <2>1, <2>2, <2>4, TypeParts DEF Working, Managed, Present, TypeInv, Stores
  <2> QED BY <1>1, <1>2, <2>1, <2>3, <2>5, Owed DEF OwnOpen
<1>3. CASE wallet = "other"
  BY <1>1, <1>3, OtherStill
<1> QED BY <1>1, <1>2, <1>3, UpIs

\* The session's manager, or the one it put to VSS, is stored.
LEMMA StoreManagerGood ==
  ASSUME TypeInv, Good, StoreManager \/ Hide, trouble' = {}
  PROVE  Good'
<1>1. /\ phase = "running" /\ phase \in Up
      /\ UNCHANGED <<vssMon, vssCm, listed, idbMon, seed, phase, wallet, live, conf, pending,
                     monitorKeys, manDirty, page, pageCm, pageTodo, pageMon, acked>>
      /\ page \notin {"seed", "cm", "put"}
      /\ \/ cmPc = "idb" /\ idbCm' = cmData /\ cmPc' = "idle" /\ cmData' = NoCm
         \/ idbCm' = Mine /\ UNCHANGED <<cmPc, cmData>>
  BY DEF StoreManager, Hide, Session, monitors, manifest, cmWrite, backup, Ghost, Up
<1>2. CASE wallet = "own"
  <2>1. Working /\ page = "idle" /\ seed = "own" /\ conf = idbMon
    BY <1>1, <1>2, UpIs DEF Working
  <2>2. idbCm'.wallet = "own" /\ \A c \in Channel : idbCm'.known[c] <= idbMon[c]
    BY <1>1, <1>2, <2>1, MineTyped, TypeParts DEF Working, TypeInv, Stores
  <2>3. Ruled'
    BY <1>1 DEF Good, Ruled
  <2>4. Held'
    BY <1>1, <2>1, <2>2 DEF Working, Held
  <2>5. Working'
    BY <1>1, <2>1, <2>2, <2>4, ZeroIs, TypeParts DEF Working, Managed, Present, TypeInv, Stores
  <2> QED BY <1>1, <1>2, <2>1, <2>3, <2>5, Owed DEF OwnOpen
<1>3. CASE wallet = "other"
  BY <1>1, <1>3, OtherStill
<1> QED BY <1>1, <1>2, <1>3, UpIs

LEMMA PersistGood ==
  ASSUME NEW c \in Channel, TypeInv, Good, Persist(c)
  PROVE  Good'
<1>1. /\ phase = "running" /\ phase \in Up /\ wallet = "own"
      /\ pending' = pending \union {c} /\ monitorKeys' = monitorKeys \union {c}
  BY DEF Persist, Up
<1>2. UNCHANGED <<vssMon, vssCm, listed, idbMon, idbCm, conf, cmPc, cmData, phase, wallet, seed,
                  page, acked>>
  BY PersistIs
<1>3. Working /\ page = "idle" /\ seed = "own"
  BY <1>1, UpIs
<1>4. Ruled'
  BY <1>2 DEF Good, Ruled
<1>5. Held'
  BY <1>2, <1>3 DEF Working, Held
<1>6. \A d \in Channel : idbMon[d] <= live'[d]
  <2>1. idbMon[c] <= made[c] /\ idbMon[c] \in Nat
    BY TypeParts DEF TypeInv, Stores, Numbers, Upto
  <2>2. idbMon[c] <= made[c] + 1 /\ live' = [live EXCEPT ![c] = made[c] + 1]
    BY <2>1, PersistIs
  <2> QED BY <1>3, <2>2, TypeParts DEF Working, TypeInv, Stores
<1>7. Working'
  BY <1>1, <1>2, <1>3, <1>5, <1>6 DEF Working, Present
<1> QED BY <1>1, <1>2, <1>3, <1>4, <1>7, Owed DEF OwnOpen

LEMMA PutMonitorGood ==
  ASSUME NEW c \in Channel, TypeInv, Good, PutMonitor(c)
  PROVE  Good'
<1>1. /\ phase \in Up /\ c \in pending /\ vssMon' = [vssMon EXCEPT ![c] = live[c]]
      /\ UNCHANGED <<vssCm, listed, idbMon, idbCm, seed, phase, wallet, live, conf, pending,
                     monitorKeys, cmPc, cmData, page, acked>>
  BY DEF PutMonitor, Session, monitors, manifest, cmWrite
<1>2. wallet = "own" /\ Working /\ page = "idle" /\ seed = "own"
  BY <1>1, UpIs
<1>3. Ruled'
  BY <1>1 DEF Good, Ruled
<1>4. Held'
  BY <1>1, <1>2, TypeParts DEF Working, Held, TypeInv, Stores
<1>5. Working'
  BY <1>1, <1>2, <1>4 DEF Working, Managed, Present
<1> QED BY <1>1, <1>2, <1>3, <1>5, UpIs, Owed DEF OwnOpen

LEMMA StoreMonitorGood ==
  ASSUME NEW c \in Channel, TypeInv, Good, StoreMonitor(c)
  PROVE  Good'
<1>1. /\ phase \in Up /\ c \in pending /\ vssMon[c] = live[c]
      /\ idbMon' = [idbMon EXCEPT ![c] = live[c]] /\ conf' = [conf EXCEPT ![c] = live[c]]
      /\ acked' = [acked EXCEPT ![c] = IF acked[c] > live[c] THEN acked[c] ELSE live[c]]
      /\ pending' = pending \ {c}
      /\ UNCHANGED <<vssMon, vssCm, listed, idbCm, seed, phase, wallet, live, monitorKeys, cmPc,
                     cmData, page>>
  BY DEF StoreMonitor, Session, backup, manifest, cmWrite
<1>2. wallet = "own" /\ Working /\ page = "idle" /\ seed = "own"
  BY <1>1, UpIs
<1>3. Ruled'
  BY <1>1 DEF Good, Ruled
<1>4. acked[c] <= idbMon[c] /\ idbMon[c] <= live[c] /\ live[c] \in Nat
  BY <1>2, TypeParts DEF Working, Held, TypeInv, Stores
<1>5. acked' = [acked EXCEPT ![c] = live[c]]
  <2>1. acked[c] \in Nat /\ idbMon[c] \in Nat
    BY TypeParts DEF TypeInv, Stores
  <2>2. ~(acked[c] > live[c])
    BY <1>4, <2>1
  <2> QED BY <1>1, <2>2
<1>6. Held'
  BY <1>1, <1>2, <1>4, <1>5, TypeParts DEF Working, Held, TypeInv, Stores, Manager
<1>7. idbMon' = conf' /\ Present(idbMon') \union pending' \subseteq monitorKeys'
  BY <1>1, <1>2, TypeParts DEF Working, Present, TypeInv, Stores
<1>8. \A d \in Channel : idbMon'[d] <= live'[d] /\ cmData'.known[d] <= idbMon'[d]
  BY <1>1, <1>2, <1>4, TypeParts DEF Working, TypeInv, Stores, Manager
<1>9. phase' = "migrate" =>
        Managed' /\ (live' # Zero => cmData'.wallet = "own") /\ \A d \in pending' : idbMon'[d]
           > 0
  <2> SUFFICES ASSUME phase = "migrate"
               PROVE  Managed' /\ (live # Zero => cmData.wallet = "own")
                      /\ \A d \in pending' : idbMon'[d] > 0
    BY <1>1
  <2>1. idbMon # Zero
    BY <1>1, <1>2, ZeroIs DEF Working
  <2> QED BY <1>1, <1>2, <2>1, TypeParts DEF Working, Managed, TypeInv, Stores, Sets
<1>10. Working'
  BY <1>1, <1>2, <1>6, <1>7, <1>8, <1>9 DEF Working
<1> QED BY <1>1, <1>2, <1>3, <1>10, UpIs, Owed DEF OwnOpen

\* The page is used in the empty wallet only, and leaves the backup alone.
LEMMA PageIs ==
  ASSUME TypeInv, Good, NEW from, NEW to, Page(from, to), from # "idle", wallet' = wallet,
         phase' = phase
  PROVE  /\ wallet = "other" /\ phase # "closed" /\ Covered /\ Restoring
         /\ live = Zero /\ conf = Zero /\ pending = {} /\ ~manDirty
         /\ UNCHANGED <<vssMon, vssCm, listed, acked, live, conf, pending, manDirty>>
         /\ page = from /\ page' = to
         /\ Ruled' /\ (Restoring' => Good')
<1>1. /\ page = from /\ page' = to
      /\ UNCHANGED <<vssMon, vssCm, listed, acked, live, conf, pending, manDirty>>
  BY DEF Page, backup, monitors, manifest
<1>2. phase # "closed" /\ wallet = "other"
  BY <1>1, TypeParts DEF TypeInv, Shape, Names, Good, OwnOpen
<1>3. Covered /\ Restoring /\ live = Zero /\ conf = Zero /\ pending = {} /\ ~manDirty
  BY <1>2 DEF Good, OtherOpen
<1>4. Ruled' /\ Covered'
  BY <1>1, <1>3 DEF Good, Ruled, Covered
<1>5. Restoring' => Good'
  BY <1>1, <1>2, <1>3, <1>4, Owed DEF OtherOpen
<1> QED BY <1>1, <1>2, <1>3, <1>4, <1>5

LEMMA PageOpenGood ==
  ASSUME TypeInv, Good, PageOpen, trouble' = {}
  PROVE  Good'
<1>1. /\ phase # "closed" /\ wallet # "own"
      /\ UNCHANGED <<vssMon, vssCm, listed, idbMon, idbCm, seed, phase, wallet, live, conf,
                     pending, manDirty, pageTodo, pageMon, acked>>
      /\ page = "idle" /\ page' = "manifest" /\ pageCm' = vssCm
  BY DEF PageOpen, Page, backup, local, monitors, manifest, Good, Ruled
<1>2. wallet = "other" /\ Covered /\ Restoring /\ live = Zero /\ conf = Zero /\ pending = {}
      /\ ~manDirty
  BY <1>1, TypeParts DEF TypeInv, Names, Good, OtherOpen
<1>3. Ruled' /\ Covered' /\ Restoring'
  BY <1>1, <1>2 DEF Good, Ruled, Covered, Restoring
<1> QED BY <1>1, <1>2, <1>3, Owed DEF OtherOpen

LEMMA PageManifestGood ==
  ASSUME TypeInv, Good, PageManifest
  PROVE  Good'
<1>1. /\ Page("manifest", "monitors") /\ pageTodo' = listed /\ pageMon' = Zero
      /\ UNCHANGED <<idbMon, idbCm, seed, phase, wallet, pageCm>>
  BY DEF PageManifest, local
<1>2. Restoring'
  BY <1>1, PageIs, ZeroIs DEF Restoring, Full
<1> QED BY <1>1, <1>2, PageIs

LEMMA PageMonitorGood ==
  ASSUME NEW c \in Channel, TypeInv, Good, PageMonitor(c)
  PROVE  Good'
<1>1. /\ Page("monitors", "monitors") /\ c \in pageTodo /\ pageTodo' = pageTodo \ {c}
      /\ pageMon' = [pageMon EXCEPT ![c] = vssMon[c]]
      /\ UNCHANGED <<idbMon, idbCm, seed, phase, wallet, pageCm>>
  BY DEF PageMonitor, local
<1>2. Restoring'
  BY <1>1, PageIs, TypeParts DEF Restoring, Full, TypeInv, Stores
<1> QED BY <1>1, <1>2, PageIs

LEMMA PageFailsGood ==
  ASSUME TypeInv, Good, PageFails, trouble' = {}
  PROVE  Good'
<1>1. PICK from \in {"manifest", "monitors"} : Page(from, "idle")
  BY DEF PageFails
<1>2. UNCHANGED <<idbMon, idbCm, seed, phase, wallet, pageCm, pageTodo, pageMon>>
  BY DEF PageFails, local
<1>3. Restoring'
  BY <1>1, <1>2, PageIs DEF Restoring
<1> QED BY <1>1, <1>2, <1>3, PageIs

LEMMA PageShutdownGood ==
  ASSUME TypeInv, Good, PageShutdown
  PROVE  Good'
<1>1. /\ Page("monitors", "clear") /\ pageTodo = {}
      /\ UNCHANGED <<idbMon, idbCm, seed, phase, wallet, pageCm, pageMon>>
  BY DEF PageShutdown, local
<1>2. Restoring'
  BY <1>1, PageIs DEF Restoring, Full
<1> QED BY <1>1, <1>2, PageIs

LEMMA PageClearGood ==
  ASSUME TypeInv, Good, PageClear, trouble' = {}
  PROVE  Good'
<1>1. /\ Page("clear", "seed") /\ idbMon' = Zero /\ idbCm' = NoCm /\ seed' = "none"
      /\ UNCHANGED <<phase, wallet, pageCm, pageMon>> /\ ~Incomplete
  BY DEF PageClear
<1>2. vssMon # Zero => vssCm.wallet # "none"
  BY <1>1, ZeroIs, TypeParts DEF Incomplete, Present, TypeInv, Stores
<1>3. Restoring'
  BY <1>1, <1>2, PageIs DEF Restoring, Full, Empty
<1> QED BY <1>1, <1>3, PageIs

LEMMA PageSeedGood ==
  ASSUME TypeInv, Good, PageSeed
  PROVE  Good'
<1>1. /\ Page("seed", "cm") /\ seed' = "own"
      /\ UNCHANGED <<idbMon, idbCm, phase, wallet, pageCm, pageMon>>
  BY DEF PageSeed
<1>2. Restoring'
  BY <1>1, PageIs DEF Restoring, Full, Empty
<1> QED BY <1>1, <1>2, PageIs

LEMMA PageManagerGood ==
  ASSUME TypeInv, Good, PageManager
  PROVE  Good'
<1>1. /\ Page("cm", "put") /\ idbCm' = IF pageCm.wallet = "none" THEN idbCm ELSE pageCm
      /\ UNCHANGED <<idbMon, seed, phase, wallet, pageCm, pageMon>>
  BY DEF PageManager
<1>2. Restoring'
  BY <1>1, PageIs, ZeroIs DEF Restoring, Full, Empty
<1> QED BY <1>1, <1>2, PageIs

LEMMA PagePutGood ==
  ASSUME NEW c \in Channel, TypeInv, Good, PagePut(c)
  PROVE  Good'
<1>1. /\ Page("put", "put") /\ pageMon[c] > 0
      /\ idbMon' = [idbMon EXCEPT ![c] = pageMon[c]]
      /\ pageMon' = [pageMon EXCEPT ![c] = 0]
      /\ UNCHANGED <<idbCm, seed, phase, wallet, pageCm>>
  BY DEF PagePut
<1>2. \A d \in Channel : \/ pageMon'[d] = Full(d) /\ idbMon'[d] = 0
                         \/ pageMon'[d] = 0 /\ idbMon'[d] = Full(d)
  BY <1>1, PageIs, TypeParts DEF Restoring, TypeInv, Stores
<1>3. Restoring'
  BY <1>1, <1>2, PageIs DEF Restoring, Full
<1> QED BY <1>1, <1>3, PageIs

\* A page that has written everything has brought the wallet back.
LEMMA PageDone ==
  ASSUME TypeInv, Good, page = "put", pageMon = Zero
  PROVE  seed = "own" /\ Held /\ Managed
<1>1. phase # "closed" /\ wallet = "other"
  BY TypeParts DEF TypeInv, Shape, Names, Good, OwnOpen
<1>2. Covered /\ Restoring
  BY <1>1 DEF Good, OtherOpen
<1>3. /\ seed = "own" /\ (vssMon # Zero => vssCm.wallet # "none")
      /\ idbCm = vssCm \/ (idbCm = NoCm /\ vssCm.wallet = "none")
      /\ \A c \in Channel : idbMon[c] = Full(c)
  BY <1>2, ZeroIs DEF Restoring
<1>4. Held
  BY <1>2, <1>3, ZeroIs, TypeParts DEF Held, Covered, Full, TypeInv, Stores, Manager
<1>5. Managed
  <2> SUFFICES ASSUME idbMon # Zero
               PROVE  idbCm.wallet = "own"
    BY DEF Managed
  <2>1. vssMon # Zero
    BY <1>3, ZeroIs, TypeParts DEF Full, TypeInv, Stores
  <2>2. vssCm.wallet = "own"
    BY <1>3, <2>1, TypeParts DEF Good, Ruled, TypeInv, Stores, Manager
  <2> QED BY <1>3, <2>2
<1> QED BY <1>3, <1>4, <1>5

\* Closing the tab changes nothing that is stored.
LEMMA ClosedIs ==
  ASSUME Closed, Ruled
  PROVE  /\ phase # "closed" /\ phase' = "closed" /\ Ruled'
         /\ UNCHANGED <<vssMon, vssCm, listed, idbMon, idbCm, seed, acked>>
         /\ (Held' <=> Held) /\ (Managed' <=> Managed)
         /\ (Covered' <=> Covered) /\ (Empty' <=> Empty)
<1>1. /\ phase # "closed" /\ phase' = "closed"
      /\ UNCHANGED <<vssMon, vssCm, listed, idbMon, idbCm, seed, acked>>
  BY DEF Closed, backup, local
<1> QED
  BY <1>1 DEF Ruled, Held, Managed, Covered, Empty

LEMMA PageReloadGood ==
  ASSUME TypeInv, Good, PageReload
  PROVE  Good'
<1>1. Closed /\ page = "put" /\ pageMon = Zero
  BY DEF PageReload
<1> QED
  BY <1>1, PageDone, ClosedIs, Owed DEF Good, AtRest

LEMMA CrashGood ==
  ASSUME TypeInv, Good, Crash, trouble' = {}
  PROVE  Good'
<1>1. /\ Closed
      /\ ~(phase = "fetch" /\ (wrote # {} \/ wroteCm))
      /\ ~(page = "put" /\ pageMon # Zero)
      /\ ~(phase = "running" /\ idbCm = NoCm /\ idbMon # Zero)
  BY DEF Crash
<1>2. /\ phase # "closed" /\ phase' = "closed" /\ Ruled' /\ seed' = seed
      /\ (Held' <=> Held) /\ (Managed' <=> Managed)
      /\ (Covered' <=> Covered) /\ (Empty' <=> Empty)
      /\ idbMon' = idbMon
  BY <1>1, ClosedIs DEF Good
<1>3. CASE wallet = "own"
  <2>1. seed = "own"
    BY <1>2, <1>3 DEF Good, OwnOpen
  <2>2. (Held /\ Managed) \/ (Empty /\ Covered)
    <3>1. CASE phase = "manifest"
      BY <1>3, <3>1 DEF Good, OwnOpen
    <3>2. CASE phase = "fetch"
      <4>1. Fetching /\ wrote = {}
        BY <1>1, <1>3, <3>2 DEF Good, OwnOpen
      <4>2. idbMon = Zero
        BY <4>1, ZeroIs, TypeParts DEF Fetching, TypeInv, Stores
      <4> QED BY <4>1, <4>2 DEF Fetching, Empty
    <3>3. CASE phase \in {"peers", "load"}
      BY <1>3, <3>3 DEF Good, OwnOpen
    <3>4. CASE phase \in Up
      <4>1. Working
        BY <1>3, <3>4, UpIs
      <4> QED BY <1>1, <3>4, <4>1 DEF Working, Managed, Up
    <3> QED BY <1>2, <3>1, <3>2, <3>3, <3>4, TypeParts DEF TypeInv, Names, Good, Ruled,
        Recovering, Up
  <2> QED BY <1>2, <2>1, <2>2, Owed DEF AtRest
<1>4. CASE wallet = "other"
  <2>1. Covered /\ Restoring
    BY <1>2, <1>4 DEF Good, OtherOpen
  <2>2. CASE page = "put"
    BY <1>1, <1>2, <2>2, PageDone, Owed DEF AtRest
  <2>3. CASE page \in {"seed", "cm"}
    BY <1>2, <2>1, <2>3, Owed DEF Restoring, AtRest
  <2>4. CASE page \in {"idle", "manifest", "monitors", "clear"}
    BY <1>2, <2>1, <2>4, Owed DEF Restoring, AtRest
  <2> QED BY <2>2, <2>3, <2>4, TypeParts DEF TypeInv, Names
<1> QED BY <1>3, <1>4, TypeParts DEF TypeInv, Names

LEMMA WipeGood ==
  ASSUME TypeInv, Good, Wipe, trouble' = {}
  PROVE  Good'
<1>1. /\ phase = "closed" /\ phase' = "closed" /\ seed' = "none" /\ idbMon' = Zero
      /\ idbCm' = NoCm /\ ~Incomplete
      /\ UNCHANGED <<vssMon, vssCm, listed, acked>>
  BY DEF Wipe, backup
<1>2. \A c \in Channel : /\ acked[c] > 0 => c \in listed
                         /\ acked[c] <= vssMon[c]
  BY <1>1, TypeParts DEF Incomplete, Present, TypeInv, Stores
<1>3. CASE Covered
  <2>1. Covered' /\ Empty' /\ Ruled'
    BY <1>1, <1>3 DEF Covered, Empty, Good, Ruled
  <2> QED BY <1>1, <2>1, Owed DEF AtRest
<1>4. CASE Held
  <2>1. Covered'
    BY <1>1, <1>2, <1>4, TypeParts DEF Held, Covered, TypeInv, Stores, Manager
  <2>2. Empty' /\ Ruled'
    BY <1>1 DEF Empty, Good, Ruled
  <2> QED BY <1>1, <2>1, <2>2, Owed DEF AtRest
<1> QED BY <1>1, <1>3, <1>4, TypeParts DEF Good, AtRest, TypeInv, Names

\* What went wrong stays known.
LEMMA TroubleStays ==
  ASSUME [Next]_vars
  PROVE  trouble \subseteq trouble'
<1>1. CASE UNCHANGED vars
  BY <1>1 DEF vars, history
<1>2. CASE Start \/ RecoverManifest \/ RecoverManager \/ RecoverPeers \/ RecoveryFails
           \/ RollBackMonitors \/ RollBackManager \/ LoadStored \/ LoadFresh \/ Refuse
           \/ Migrate \/ NoMigration
  BY <1>2 DEF Start, RecoverManifest, RecoverManager, TakeManager, RecoverPeers, RecoveryFails,
              RollBackMonitors, RollBackManager, LoadStored, LoadFresh, Refuse, Loading,
              Migrate, NoMigration, Ready, history
<1>3. CASE WriteManifest \/ PutManager \/ StoreManager \/ Hide \/ Crash \/ Wipe \/ PageReload
  BY <1>3 DEF WriteManifest, PutManager, Put, StoreManager, Hide, Crash, Wipe, PageReload,
              history
<1>4. CASE \E c \in Channel : RecoverMonitor(c) \/ Persist(c) \/ PutMonitor(c)
             \/ StoreMonitor(c) \/ PageMonitor(c) \/ PagePut(c)
  BY <1>4 DEF RecoverMonitor, Persist, PutMonitor, StoreMonitor, PageMonitor, PagePut
<1>5. CASE PageOpen \/ PageManifest \/ PageFails \/ PageShutdown \/ PageClear \/ PageSeed
           \/ PageManager
  BY <1>5 DEF PageOpen, PageManifest, PageFails, PageShutdown, PageClear, PageSeed, PageManager
<1> QED
  BY <1>1, <1>2, <1>3, <1>4, <1>5 DEF Next

LEMMA StillGood ==
  ASSUME Good, UNCHANGED vars
  PROVE  Good'
<1>1. UNCHANGED <<vssMon, vssCm, listed, idbMon, idbCm, seed, phase, wallet, todo, wrote, live,
                  conf, pending, monitorKeys, manDirty, cmPc, cmData, page, pageCm, pageTodo,
                  pageMon, acked>>
  BY DEF vars, backup, local, recovery, monitors, manifest, cmWrite, pageVars, history
<1>2. UNCHANGED <<Held, Managed, Covered, Empty>>
  BY <1>1 DEF Held, Managed, Covered, Empty
<1>3. UNCHANGED <<Fetching, Working>>
  BY <1>1, <1>2 DEF Fetching, Working, Present
<1>4. Restoring' = Restoring
  BY <1>1, <1>2 DEF Restoring, Full
<1> QED
  BY <1>1, <1>2, <1>3, <1>4 DEF Good, Ruled, AtRest, OwnOpen, OtherOpen

LEMMA NextGood ==
  ASSUME TypeInv, Good, [Next]_vars, trouble' = {}
  PROVE  Good'
<1>1. CASE UNCHANGED vars
  BY <1>1, StillGood
<1>2. CASE Start \/ RecoverManifest \/ RecoverManager \/ RecoverPeers \/ LoadStored \/ LoadFresh
           \/ Migrate \/ NoMigration
  BY <1>2, StartGood, RecoverManifestGood, RecoverManagerGood, RecoverPeersGood,
     LoadStoredGood, LoadFreshGood, MigrateGood, NoMigrationGood
<1>3. CASE RecoveryFails \/ RollBackMonitors \/ RollBackManager \/ Refuse
  <2>1. ~RecoveryFails
    BY RecoveryFailsIs
  <2>2. ~RollBackMonitors /\ ~RollBackManager
    BY DEF RollBackMonitors, RollBackManager, Recover, Good, Ruled
  <2> QED BY <1>3, <2>1, <2>2, NotRefused
<1>4. CASE WriteManifest \/ PutManager \/ StoreManager \/ Hide \/ Crash \/ Wipe \/ PageReload
  BY <1>4, WriteManifestGood, PutManagerGood, StoreManagerGood, CrashGood, WipeGood,
     PageReloadGood
<1>5. CASE \E c \in Channel : RecoverMonitor(c) \/ Persist(c) \/ PutMonitor(c)
             \/ StoreMonitor(c) \/ PageMonitor(c) \/ PagePut(c)
  BY <1>5, RecoverMonitorGood, PersistGood, PutMonitorGood, StoreMonitorGood, PageMonitorGood,
     PagePutGood
<1>6. CASE PageOpen \/ PageManifest \/ PageFails \/ PageShutdown \/ PageClear \/ PageSeed
           \/ PageManager
  BY <1>6, PageOpenGood, PageManifestGood, PageFailsGood, PageShutdownGood, PageClearGood,
     PageSeedGood, PageManagerGood
<1> QED
  BY <1>1, <1>2, <1>3, <1>4, <1>5, <1>6 DEF Next

LEMMA StartupInvariant == Spec => []StartupInv
<1>1. Init => StartupInv
  BY InitTyped, InitGood DEF StartupInv
<1>2. StartupInv /\ [Next]_vars => StartupInv'
  <2> SUFFICES ASSUME StartupInv, [Next]_vars
               PROVE  StartupInv'
    OBVIOUS
  <2>1. TypeInv'
    BY NextTyped DEF StartupInv
  <2>2. ASSUME trouble' = {}
        PROVE  Good'
    BY <2>2, TroubleStays, NextGood DEF StartupInv
  <2> QED BY <2>1, <2>2 DEF StartupInv
<1> QED
  BY <1>1, <1>2, PTL DEF Spec

\* A wallet that comes up (init.ts, doInitializeLdk), from its browser, from VSS or by the
\* Restore page, has every channel in the state it acknowledged or a later one, whatever
\* sessions, crashes, wiped browsers and restores came before, as long as nothing went wrong
\* that no start-up can mend.
THEOREM WalletComesBack == Spec => []ComesBack
<1>1. StartupInv => ComesBack
  <2> SUFFICES ASSUME StartupInv, phase \in Up, wallet = "own", trouble = {}, NEW c \in Channel
               PROVE  acked[c] <= live[c]
    BY DEF ComesBack
  <2>1. Working
    BY UpIs DEF StartupInv
  <2> QED BY <2>1, TypeParts DEF Working, Held, StartupInv, TypeInv, Stores
<1> QED
  BY <1>1, StartupInvariant, PTL

\* The start-up refuses monitors without a manager it can read (init.ts, "Refusing to start")
\* only after trouble: a tab closed while its wallet runs leaves a browser that opens.
THEOREM WalletOpensAgain == Spec => []OpensAgain
<1>1. StartupInv => OpensAgain
  BY DEF StartupInv, Good, Ruled, OpensAgain
<1> QED
  BY <1>1, StartupInvariant, PTL

\* Without trouble no session works with a channel state older than one it acknowledged, which
\* the counterparty could answer with a penalty.
THEOREM OldOnlyAfterTrouble == Spec => [](trouble = {} => NeverOldState)
<1>1. StartupInv => (trouble = {} => NeverOldState)
  <2> SUFFICES ASSUME StartupInv, trouble = {}, NEW c \in Channel, live[c] > 0
               PROVE  live[c] >= acked[c]
    BY DEF NeverOldState
  <2>1. live # Zero
    BY ZeroIs
  <2>2. phase \in Up /\ wallet = "own"
    BY <2>1, UpIs DEF StartupInv, TypeInv, Shape, Idle
  <2>3. Working
    BY <2>2, UpIs DEF StartupInv
  <2> QED BY <2>3, TypeParts DEF Working, Held, StartupInv, TypeInv, Stores
<1> QED
  BY <1>1, StartupInvariant, PTL

\* Neither a session (persistChannelManager) nor the migration (init.ts) puts a manager into
\* VSS that relies on less than the one before.
THEOREM BackupNeverBack == Spec => BackupKept
<1>1. StartupInv /\ [Next]_vars =>
        [trouble' # {} \/ \A c \in Channel : vssCm'.known[c] >= vssCm.known[c]]_vars
  <2> SUFFICES ASSUME StartupInv, [Next]_vars, trouble' = {}, NEW c \in Channel
               PROVE  vssCm'.known[c] >= vssCm.known[c]
    OBVIOUS
  <2>0. /\ vssCm.known[c] \in Nat /\ vssCm'.known[c] \in Nat
        /\ Good /\ TypeInv
    BY TroubleStays, NextTyped, TypeParts DEF StartupInv, TypeInv, Stores, Manager
  <2>1. CASE Migrate
    BY <2>0, <2>1, ZeroIs DEF Migrate, VssEmpty
  <2>2. CASE PutManager /\ wallet = "own"
    <3>1. Held /\ conf = idbMon
      BY <2>0, <2>2, UpIs DEF PutManager, Put, Up, Working
    <3>2. vssCm'.known = conf
      BY <2>0, <2>2, MineTyped DEF PutManager, Put
    <3> QED BY <2>0, <3>1, <3>2, TypeParts DEF Held, TypeInv, Stores
  <2>3. CASE UNCHANGED vssCm
    BY <2>0, <2>3
  <2>4. Migrate \/ (PutManager /\ wallet = "own") \/ UNCHANGED vssCm
    <3>1. CASE UNCHANGED vars
      BY <3>1 DEF vars, backup
    <3>2. CASE Start \/ RecoverManifest \/ RecoverManager \/ RecoverPeers \/ RecoveryFails
               \/ RollBackMonitors \/ RollBackManager \/ LoadStored \/ LoadFresh \/ Refuse
               \/ NoMigration
      BY <3>2 DEF Start, RecoverManifest, RecoverManager, TakeManager, RecoverPeers,
                  RecoveryFails, Recover, RollBackMonitors, RollBackManager, LoadStored,
                  LoadFresh, Refuse, Loading, NoMigration, backup
    <3>3. CASE WriteManifest \/ PutManager \/ StoreManager \/ Hide \/ Crash \/ Wipe
               \/ PageReload
      BY <3>3 DEF WriteManifest, PutManager, Put, StoreManager, Hide, Crash, Wipe, PageReload,
                  Closed, backup
    <3>4. CASE \E d \in Channel : RecoverMonitor(d) \/ Persist(d) \/ PutMonitor(d)
                 \/ StoreMonitor(d) \/ PageMonitor(d) \/ PagePut(d)
      BY <3>4 DEF RecoverMonitor, Recover, Persist, PutMonitor, StoreMonitor, PageMonitor,
                  PagePut, Page, backup
    <3>5. CASE PageOpen \/ PageManifest \/ PageFails \/ PageShutdown \/ PageClear \/ PageSeed
               \/ PageManager
      BY <3>5 DEF PageOpen, PageManifest, PageFails, PageShutdown, PageClear, PageSeed,
                  PageManager, Page, backup
    <3> QED BY <3>1, <3>2, <3>3, <3>4, <3>5 DEF Next
  <2> QED BY <2>1, <2>2, <2>3, <2>4
<1> QED
  BY <1>1, StartupInvariant, PTL DEF Spec, BackupKept

====
