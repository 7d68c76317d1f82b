------------------------------- MODULE ChainSync -------------------------------
(***************************************************************************)
(* Chain synchronisation (ldk/sync/chain-sync.ts, traits/filter.ts): a     *)
(* pass asks Esplora and tells LDK, with awaits between its steps; blocks, *)
(* reorgs and LDK's own registrations come in between.                     *)
(*                                                                         *)
(* Two transactions: "funding", which LDK registers with register_tx, and  *)
(* "spend", the spend of an output it registers with register_output.      *)
(* A block that holds one of them has an identity; others only change the  *)
(* tip hash, which is never one this program still remembers.              *)
(***************************************************************************)
EXTENDS Integers, FiniteSets

CONSTANTS MaxBlocks,     \* blocks with one of the transactions
          TipHashes,     \* tip hashes, at least 4 so that one is always fresh
          SyncFaults     \* failed queries, aborted passes and restarts
ASSUME ChainSyncAssumption ==
  /\ MaxBlocks \in Nat /\ SyncFaults \in Nat
  /\ IsFiniteSet(TipHashes) /\ Cardinality(TipHashes) >= 4 /\ "none" \notin TipHashes

VARIABLES
  tip, blocks,           \* the best tip, block identities used so far
  within,                \* the best chain's block with each transaction, 0: none
  toldBlock,             \* the block LDK was told, 0: unconfirmed
  watchedTx, watchedOut, \* watchState
  registered,            \* LDK wants to know of it
  lastTip,               \* lastTipHash, "none" at start
  syncPass,              \* the pass in progress
  syncFaults

chainVars == <<tip, blocks, within, toldBlock, watchedTx, watchedOut, registered,
               lastTip, syncPass, syncFaults>>

Txs == {"funding", "spend"}
NoChainPass == [pc |-> "idle", tip |-> "none"]
SyncFault == syncFaults < SyncFaults /\ syncFaults' = syncFaults + 1

ChainInit ==
  /\ tip = (CHOOSE h \in TipHashes : TRUE) /\ blocks = 0 /\ within = [t \in Txs |-> 0]
  /\ toldBlock = within /\ watchedTx = {} /\ watchedOut = FALSE /\ registered = FALSE
  /\ lastTip = "none" /\ syncPass = NoChainPass /\ syncFaults = 0

-----------------------------------------------------------------------------
(* The chain *)
FreshTip == tip' \in TipHashes \ {tip, lastTip, syncPass.tip}

MineBlock ==
  /\ FreshTip
  /\ \/ UNCHANGED <<blocks, within>>
     \/ /\ blocks < MaxBlocks /\ blocks' = blocks + 1
        /\ \E t \in Txs : /\ within[t] = 0 /\ t = "spend" => within["funding"] # 0
                          /\ within' = [within EXCEPT ![t] = blocks']
  /\ UNCHANGED <<toldBlock, watchedTx, watchedOut, registered,
               lastTip, syncPass, syncFaults>>

(* The newest such block is replaced; its transaction is unconfirmed again  *)
(* or in the block that replaces it                                         *)
Reorg ==
  /\ FreshTip
  /\ \E t \in Txs :
       /\ within[t] # 0 /\ \A u \in Txs : within[u] <= within[t]
       /\ blocks < MaxBlocks
       /\ \/ within' = [within EXCEPT ![t] = 0] /\ UNCHANGED blocks
          \/ blocks' = blocks + 1 /\ within' = [within EXCEPT ![t] = blocks']
  /\ UNCHANGED <<toldBlock, watchedTx, watchedOut, registered,
               lastTip, syncPass, syncFaults>>

InBestChain(b) == \E t \in Txs : within[t] = b

(* The filter: LDK registers when a channel is funded, whatever a pass does *)
RegisterChannel ==
  /\ ~registered /\ registered' = TRUE
  /\ watchedTx' = watchedTx \cup {"funding"} /\ watchedOut' = TRUE
  /\ UNCHANGED <<tip, blocks, within, toldBlock, lastTip, syncPass, syncFaults>>

-----------------------------------------------------------------------------
(* syncOnce *)

(* getTipHash: an unchanged tip ends the pass at once *)
StartSync ==
  /\ syncPass.pc = "idle" /\ tip # lastTip
  /\ syncPass' = [pc |-> "reorg", tip |-> tip]
  /\ UNCHANGED <<tip, blocks, within, toldBlock, watchedTx, watchedOut, registered, lastTip,
                 syncFaults>>

(* 1. What LDK has in a block that left the best chain is unconfirmed *)
AfterReorgNot == toldBlock
AfterReorg ==
  [t \in Txs |-> IF toldBlock[t] # 0 /\ ~InBestChain(toldBlock[t]) THEN 0 ELSE toldBlock[t]]
CheckReorg ==
  /\ syncPass.pc = "reorg" /\ toldBlock' = AfterReorg
  /\ syncPass' = [syncPass EXCEPT !.pc = "txs"]
  /\ UNCHANGED <<tip, blocks, within, watchedTx, watchedOut, registered, lastTip, syncFaults>>

(* 2. and 3. The best block, then the watched transactions; 4. the watched  *)
(* output.  A check that fails is logged and the pass goes on.              *)
Confirm(t) ==
  toldBlock' = IF within[t] # 0 THEN [toldBlock EXCEPT ![t] = within[t]] ELSE toldBlock
CheckTxs ==
  /\ syncPass.pc = "txs" /\ syncPass' = [syncPass EXCEPT !.pc = "outs"]
  /\ \/ /\ IF "funding" \in watchedTx THEN Confirm("funding") ELSE UNCHANGED toldBlock
        /\ UNCHANGED syncFaults
     \/ SyncFault /\ UNCHANGED toldBlock
  /\ UNCHANGED <<tip, blocks, within, watchedTx, watchedOut, registered, lastTip>>
CheckOutputs ==
  /\ syncPass.pc = "outs" /\ syncPass' = [syncPass EXCEPT !.pc = "prune"]
  /\ \/ /\ IF watchedOut THEN Confirm("spend") ELSE UNCHANGED toldBlock
        /\ UNCHANGED syncFaults
     \/ SyncFault /\ UNCHANGED toldBlock
  /\ UNCHANGED <<tip, blocks, within, watchedTx, watchedOut, registered, lastTip>>

(* 5. Watched transactions that LDK does not list as confirmed go, and the  *)
(* tip read at the start is the last one synced; outputs stay              *)
OutputsPruned == watchedOut /\ toldBlock["spend"] # 0
OutputsKept == watchedOut
PruneWatched ==
  /\ syncPass.pc = "prune" /\ syncPass' = NoChainPass
  /\ watchedTx' = {t \in watchedTx : toldBlock[t] # 0} /\ lastTip' = syncPass.tip
  /\ watchedOut' = OutputsKept
  /\ UNCHANGED <<tip, blocks, within, toldBlock, registered, syncFaults>>

(* A step throws, or the timeout aborts the pass and forgets the last tip *)
AbortSync ==
  /\ syncPass.pc # "idle" /\ SyncFault /\ syncPass' = NoChainPass
  /\ lastTip' \in {lastTip, "none"}
  /\ UNCHANGED <<tip, blocks, within, toldBlock, watchedTx, watchedOut, registered>>

(* A restart: LDK's stored state registers everything again *)
RestartSync ==
  /\ SyncFault /\ syncPass' = NoChainPass /\ lastTip' = "none"
  /\ watchedTx' = (IF registered THEN {"funding"} ELSE {}) /\ watchedOut' = registered
  /\ UNCHANGED <<tip, blocks, within, toldBlock, registered>>

ChainNext ==
  \/ MineBlock \/ Reorg \/ RegisterChannel \/ StartSync \/ CheckReorg \/ CheckTxs
  \/ CheckOutputs \/ PruneWatched \/ AbortSync \/ RestartSync

ChainSpec == ChainInit /\ [][ChainNext]_chainVars

-----------------------------------------------------------------------------
ChainTypeOK ==
  /\ {tip, lastTip, syncPass.tip} \subseteq TipHashes \cup {"none"} /\ blocks \in 0..MaxBlocks
  /\ within \in [Txs -> 0..blocks] /\ toldBlock \in [Txs -> 0..blocks]
  /\ watchedTx \subseteq Txs /\ {watchedOut, registered} \subseteq BOOLEAN

(* Once the loop is idle on the best tip, LDK believes nothing confirmed in *)
(* a block that left the best chain, whichever reorgs came during passes.   *)
IdleMeansBestChain ==
  (syncPass.pc = "idle" /\ lastTip = tip) =>
    \A t \in Txs : toldBlock[t] # 0 => toldBlock[t] = within[t]

(* The spend of a watched output is reported in the end, although a check   *)
(* that failed is not repeated before the next block.                       *)
SpendReported ==
  (registered /\ within["spend"] # 0) ~> (toldBlock["spend"] # 0 \/ within["spend"] = 0)

(* The same of the funding transaction. *)
FundingReported ==
  (registered /\ within["funding"] # 0) ~> (toldBlock["funding"] # 0 \/ within["funding"] = 0)
=============================================================================
