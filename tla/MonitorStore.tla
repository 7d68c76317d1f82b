---------------------------- MODULE MonitorStore ----------------------------
(***************************************************************************)
(* What the monitor persister promises LDK, with no mention of requests,   *)
(* versions, retries or sessions.  Per channel there is a remote copy, a   *)
(* local copy and the last snapshot LDK was told is durable.  The remote   *)
(* copy is written first, the local copy never overtakes it, LDK is never  *)
(* told of a snapshot the local copy does not hold, and none of the three  *)
(* ever goes backwards until LDK archives the channel, but for a remote    *)
(* copy that was ahead of the local one and is brought back to it.         *)
(* Snapshots of one channel are numbered in the order LDK makes them.      *)
(***************************************************************************)
EXTENDS Naturals

CONSTANT Key          \* storage keys, one per channel

VARIABLES
  remote,             \* remote[k]: newest snapshot in the backup, 0 if none
  local,              \* local[k]: snapshot in the browser's database, 0 if none
  acked,              \* acked[k]: newest snapshot LDK was told is durable
  retired             \* channels LDK has archived

svars == <<remote, local, acked, retired>>

SInit ==
  /\ remote = [k \in Key |-> 0]
  /\ local = [k \in Key |-> 0]
  /\ acked = [k \in Key |-> 0]
  /\ retired = {}

\* A newer snapshot reaches the backup, or the local one does once more.
Backup(k) ==
  /\ k \notin retired
  /\ remote'[k] > remote[k] \/ remote'[k] = local[k]
  /\ remote' = [remote EXCEPT ![k] = remote'[k]]
  /\ UNCHANGED <<local, acked, retired>>

\* A backed-up snapshot newer than the local one reaches the local database.
StoreLocally(k) ==
  /\ k \notin retired
  /\ local'[k] > local[k]
  /\ local'[k] <= remote[k]
  /\ local' = [local EXCEPT ![k] = local'[k]]
  /\ UNCHANGED <<remote, acked, retired>>

\* LDK is told that a snapshot is durable.
Acknowledge(k) ==
  /\ acked'[k] > acked[k]
  /\ k \notin retired => acked'[k] <= local[k]
  /\ acked' = [acked EXCEPT ![k] = acked'[k]]
  /\ UNCHANGED <<remote, local, retired>>

\* LDK archives a resolved channel; nothing is promised about it any more.
Retire(k) ==
  /\ retired' = retired \union {k}
  /\ UNCHANGED <<remote, local, acked>>

Discard(k) ==
  /\ k \in retired
  /\ remote' = [remote EXCEPT ![k] = remote'[k]]
  /\ local' = [local EXCEPT ![k] = local'[k]]
  /\ acked' = [acked EXCEPT ![k] = acked'[k]]
  /\ UNCHANGED retired

SNext ==
  \E k \in Key : Backup(k) \/ StoreLocally(k) \/ Acknowledge(k) \/ Retire(k) \/ Discard(k)

SSpec == SInit /\ [][SNext]_svars
=============================================================================
