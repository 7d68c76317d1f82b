----------------------------- MODULE CloseRecords -----------------------------
(***************************************************************************)
(* The life of a close record (ldk/close-records): what the close signals  *)
(* put into it (signals.ts, closure-reason.ts), how it grows by merging    *)
(* (close-record.ts) and what a reconciliation pass adds from the chain    *)
(* until it completes it (reconcile.ts).                                   *)
(*                                                                         *)
(* One channel.  Its funding output is spent by a cooperative close        *)
(* ("coop"), by our commitment ("ours") or the counterparty's ("theirs"),  *)
(* and its funds come back with "sweep".  A transaction is at -1 if unknown,  *)
(* 0 if unconfirmed, else at its height.                                   *)
(***************************************************************************)
EXTENDS Integers

CONSTANTS Reasons,       \* reasons of a close that are tried
          FinalityConfs, \* FINALITY_CONFS
          Timelock,      \* to_self_delay of the channel
          MaxTimelock,   \* MAX_TIMELOCK_BLOCKS
          MaxHeight      \* bound: blocks after it are not counted
ASSUME CloseRecordsAssumption ==
  /\ FinalityConfs \in Nat \ {0} /\ Timelock \in Nat /\ MaxTimelock \in Nat
  /\ Timelock <= MaxTimelock /\ MaxHeight \in Nat

VARIABLES
  height, reason,        \* the chain; why the channel closed ("open" before)
  amount,                \* what the close owes us: 0 or 1
  spentBy, spentAt,      \* the funding spend
  output,                \* "none", "locked", "stored" (waits for a sweep), "swept"
  sweptAt,
  record, closePass

closeVars == <<height, reason, amount, spentBy, spentAt, output, sweptAt, record, closePass>>

TxIds == {"coop", "ours", "theirs", "sweep"}
NoRecord ==
  [exists |-> FALSE, funding |-> FALSE, type |-> "unknown", initiator |-> "unknown",
   txs |-> [id \in TxIds |-> -1], first |-> "none", expected |-> -1, timelock |-> FALSE,
    claimable |-> 0, done |-> "no"]
NoPass == [pc |-> "idle", seen |-> NoRecord, newTip |-> FALSE, tip |-> 0, spendable |-> FALSE]

CloseInit ==
  /\ height = 1 /\ reason = "open" /\ amount \in {0, 1} /\ spentBy = "none" /\ spentAt = 0
  /\ output = "none" /\ sweptAt = 0 /\ record = NoRecord /\ closePass = NoPass

-----------------------------------------------------------------------------
(* mergeCloseRecords *)

(* The union of the transactions; a height is written once *)
MergeTxs(txs, new) ==
  [id \in TxIds |-> IF txs[id] > 0 \/ new[id] < txs[id] THEN txs[id] ELSE new[id]]

Known(new, old) == IF new # "unknown" THEN new ELSE old
Merge(base, facts) ==
  [base EXCEPT !.exists = TRUE, !.funding = @ \/ facts.funding,
     !.type = Known(facts.type, @), !.initiator = Known(facts.initiator, @),
     !.txs = MergeTxs(@, facts.txs), !.first = IF @ = "none" THEN facts.first ELSE @,
     !.expected = IF facts.expected >= 0 THEN facts.expected ELSE @,
     !.timelock = @ \/ facts.timelock,
     !.claimable = IF facts.claimable > 0 THEN facts.claimable ELSE @,
     !.done = IF "verified" \in {@, facts.done} THEN "verified"
              ELSE IF @ = "no" THEN facts.done ELSE @]

-----------------------------------------------------------------------------
(* classifyClosureReason *)
TypeOf(why) == CASE why \in {"localCoop", "peerCoop", "legacyCoop"} -> "coop"
                 [] why \in {"localForce", "peerForce"} -> "force"
                 [] OTHER -> "unknown"
InitiatorOf(why) == CASE why \in {"localCoop", "localForce"} -> "local"
                      [] why \in {"peerCoop", "peerForce"} -> "remote"
                      [] OTHER -> "unknown"

(* A record with one transaction in it *)
WithTx(id, at) ==
  [NoRecord EXCEPT !.txs = [@ EXCEPT ![id] = at], !.first = IF id = "sweep" THEN "none" ELSE id]

(* Which transactions can end up spending the funding output *)
Spenders(why) == IF TypeOf(why) = "coop" THEN {"coop"}
                 ELSE IF why = "peerForce" THEN {"theirs"} ELSE {"ours", "theirs"}

(* ChannelClosed; the record may die with the tab, and then step 1 of a     *)
(* pass makes it again from the safety net                                  *)
ChannelClosed ==
  /\ reason = "open" /\ reason' \in Reasons
  /\ \/ UNCHANGED record
     \/ \E funding, timelock, balance \in BOOLEAN :
          record' = Merge(NoRecord,
                      [NoRecord EXCEPT !.type = TypeOf(reason'), !.funding = funding,
                         !.initiator = InitiatorOf(reason'), !.timelock = timelock,
                         !.expected = IF balance THEN amount ELSE -1])
  /\ UNCHANGED <<height, amount, spentBy, spentAt, output, sweptAt, closePass>>

(* BumpTransaction hands over our commitment of a force close *)
CommitmentBroadcast ==
  /\ reason = "localForce" /\ record.txs["ours"] < 0
  /\ record' = Merge(record, [WithTx("ours", 0) EXCEPT !.type = "force"])
  /\ UNCHANGED <<height, reason, amount, spentBy, spentAt, output, sweptAt, closePass>>

-----------------------------------------------------------------------------
(* The chain and the sweep *)

FundingSpent ==
  /\ reason # "open" /\ spentBy = "none" /\ spentBy' \in Spenders(reason)
  /\ output' = IF amount = 0 \/ spentBy' = "coop" THEN "none" ELSE "locked"
  /\ UNCHANGED <<height, reason, amount, spentAt, sweptAt, record, closePass>>

(* A block confirms the pending close; a sweep may take longer              *)
NewBlock ==
  /\ spentBy # "none" /\ height < MaxHeight
  /\ height' = height + 1
  /\ spentAt' = IF spentAt > 0 THEN spentAt ELSE height'
  /\ sweptAt' \in {sweptAt} \cup (IF output = "swept" /\ sweptAt = 0 THEN {height'} ELSE {})
  /\ UNCHANGED <<reason, amount, spentBy, output, record, closePass>>

(* LDK announces the output once it can be spent *)
OutputMatures ==
  /\ output = "locked" /\ spentAt > 0
  /\ spentBy = "ours" => height >= spentAt + Timelock
  /\ output' = "stored"
  /\ UNCHANGED <<height, reason, amount, spentBy, spentAt, sweptAt, record, closePass>>

(* recordSweepResult, unless the answer was a sentinel, the entry predates  *)
(* attribution or another device swept                                      *)
SweepBroadcast ==
  /\ output = "stored" /\ output' = "swept"
  /\ \/ record' = Merge(record, WithTx("sweep", 0))
     \/ UNCHANGED record
  /\ UNCHANGED <<height, reason, amount, spentBy, spentAt, sweptAt, closePass>>

-----------------------------------------------------------------------------
(* reconcileCloseRecords *)

Closes == TxIds \ {"sweep"}
HasConfirmedClose(r) == \E id \in Closes : r.txs[id] > 0

(* The gate, and step 1: a channel that vanished without a record gets one. *)
(* The pass works on the snapshot of this moment.                           *)
StartPass(newTip) ==
  /\ closePass.pc = "idle" /\ reason # "open" /\ record.done = "no"
  /\ newTip \/ (record.exists /\ record.funding /\ ~HasConfirmedClose(record))
  /\ record' = IF record.exists THEN record
               ELSE Merge(record, [NoRecord EXCEPT !.funding = TRUE, !.timelock = TRUE])
  /\ closePass' = [pc |-> "query", seen |-> record', newTip |-> newTip, tip |-> height,
              spendable |-> newTip /\ output = "stored"]
  /\ UNCHANGED <<height, reason, amount, spentBy, spentAt, output, sweptAt>>

(* What Esplora says of a transaction *)
TxStatus(id) == IF id = spentBy THEN spentAt ELSE IF id = "sweep" THEN sweptAt ELSE 0

(* (a) the funding spend, until a close is confirmed; (b) heights of known  *)
(* transactions, on a new tip; (b2) the height the timelock ends at, which  *)
(* only encumbers the broadcaster                                           *)
Discovered(r) ==
  IF ~HasConfirmedClose(r) /\ r.funding /\ spentBy # "none"
  THEN WithTx(spentBy, spentAt) ELSE NoRecord
Confirmed(r, asked) ==
  [NoRecord EXCEPT !.txs = [id \in TxIds |->
     IF closePass.newTip /\ id \in asked /\ r.txs[id] = 0 /\ TxStatus(id) > 0
      THEN TxStatus(id) ELSE -1]]
Claimable(r, found) ==
  LET at == {MergeTxs(r.txs, found)[id] : id \in Closes} \ {-1, 0}
  IN IF r.claimable = 0 /\ r.timelock /\ r.type # "coop" /\ r.initiator # "remote" /\ at # {}
     THEN (CHOOSE h \in at : TRUE) + Timelock ELSE 0
Facts(r, asked) ==
  LET a == IF "funding" \in asked THEN Discovered(r) ELSE NoRecord
      found == MergeTxs(a.txs, Confirmed(r, asked).txs)
  IN [a EXCEPT !.txs = found, !.claimable = Claimable(r, found)]

(* (c) completion on positive evidence: a deeply confirmed receipt of ours, *)
(* a final close that owes nothing, or a close final for so long that the   *)
(* receipt must have gone unseen                                            *)
Deep(at) == at > 0 /\ closePass.tip - at + 1 >= FinalityConfs
WalletReceivedAny(id) == id \in TxIds
WalletReceived(id) ==
  \/ id = "sweep" /\ sweptAt > 0
  \/ id = "coop" /\ spentBy = "coop" /\ amount = 1 /\ spentAt > 0
Receipt(r) == \E id \in TxIds : Deep(r.txs[id]) /\ WalletReceived(id)
CloseFinal(r) == r.first # "none" /\ Deep(r.txs[r.first])
ElapsedWithoutFallback(r) ==
  \/ r.type = "coop"
  \/ r.claimable > 0 /\ r.claimable + FinalityConfs <= closePass.tip
Elapsed(r) ==
  \/ r.type = "coop"
  \/ r.claimable > 0 /\ r.claimable + FinalityConfs <= closePass.tip
  \/ r.txs[r.first] + MaxTimelock + FinalityConfs <= closePass.tip

Completion(r, walletSynced) ==
  IF ~closePass.newTip \/ closePass.spendable THEN "no"
  ELSE IF walletSynced /\ Receipt(r) THEN "verified"
  ELSE IF r.claimable > closePass.tip \/ ~CloseFinal(r) THEN "no"
  ELSE IF r.expected = 0 THEN "verified"
  ELSE IF Elapsed(r) THEN "unverified" ELSE "no"

(* A query that fails skips the record; one over the budget of the pass     *)
(* finds nothing.  The facts go into the record as it is now.               *)
FinishPass(asked) ==
  /\ closePass.pc = "query" /\ closePass' = NoPass
  /\ \E facts \in {Facts(closePass.seen, asked)} : \E now \in {Merge(record, facts)} :
       \E walletSynced \in BOOLEAN :
         record' = [now EXCEPT !.done = Completion(now, walletSynced)]
  /\ UNCHANGED <<height, reason, amount, spentBy, spentAt, output, sweptAt>>
PassFails ==
  /\ closePass.pc = "query" /\ closePass' = NoPass
  /\ UNCHANGED <<height, reason, amount, spentBy, spentAt, output, sweptAt, record>>

Queries == TxIds \cup {"funding"}
EndPass == PassFails \/ \E asked \in {{}, {"funding"}, Queries} : FinishPass(asked)
CloseNext ==
  \/ ChannelClosed \/ CommitmentBroadcast \/ FundingSpent \/ NewBlock \/ OutputMatures
  \/ SweepBroadcast \/ (\E newTip \in BOOLEAN : StartPass(newTip)) \/ EndPass

CloseSpec == CloseInit /\ [][CloseNext]_closeVars

-----------------------------------------------------------------------------
CloseTypeOK ==
  /\ height \in 1..MaxHeight /\ {spentAt, sweptAt} \subseteq 0..height
  /\ output \in {"none", "locked", "stored", "swept"}
  /\ record.txs \in [TxIds -> -1..height] /\ record.done \in {"no", "unverified", "verified"}

(* "Complete" is never shown for money that has not come back: a verified   *)
(* record has its receipt finally in the wallet, or nothing was owed and    *)
(* the close is final.                                                      *)
Final(at) == at > 0 /\ height - at + 1 >= FinalityConfs
VerifiedMeansReceived ==
  record.done = "verified" =>
    \/ amount = 0 /\ Final(spentAt)
    \/ spentBy = "coop" /\ Final(spentAt)
    \/ Final(sweptAt)

(* A record with a funding outpoint reaches a terminal state once its close *)
(* is on the chain, whatever was swept where and whichever facts are        *)
(* missing.  The exception is a commitment of ours the counterparty's       *)
(* superseded: it is the record's first close and never confirms.           *)
Superseded == record.first \notin {"none", spentBy}
EveryRecordEnds == (record.exists /\ record.funding /\ spentAt > 0) ~> (record.done # "no")
RecordEnds ==
  (record.exists /\ record.funding /\ spentAt > 0) ~> (record.done # "no" \/ Superseded)
=============================================================================
