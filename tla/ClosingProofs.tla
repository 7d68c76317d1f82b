---------------------------- MODULE ClosingProofs ----------------------------
(***************************************************************************)
(* Proofs about what follows a block and a closed channel: the idle sync   *)
(* loop believes no reorganised block (ChainSync), a close is not          *)
(* forgotten (CloseStore), no force-close output is dropped (Sweep), and a *)
(* record that says its money is back is right (CloseRecords).             *)
(***************************************************************************)
EXTENDS ChainSync, CloseRecords, CloseStore, Sweep, FiniteSetTheorems, TLAPS

-----------------------------------------------------------------------------
(* Chain synchronisation.  What LDK was told is in the best chain as soon  *)
(* as the pass for the current tip has done its reorganisation check, and  *)
(* every later answer of the same tip keeps it so; a new tip is never the  *)
(* last one synced.  A block stands for one transaction only.              *)

ToldIsBest == \A t \in Txs : toldBlock[t] # 0 => toldBlock[t] = within[t]
Blocks ==
  /\ blocks \in Nat /\ within \in [Txs -> 0..blocks] /\ toldBlock \in [Txs -> 0..blocks]
  /\ tip # "none"
BlocksOfOne ==
  \A t, u \in Txs : /\ toldBlock[t] # 0 /\ within[u] = toldBlock[t] => u = t
                    /\ within[t] # 0 /\ within[u] = within[t] => u = t
PassIsBest == syncPass.tip = tip /\ syncPass.pc \in {"txs", "outs", "prune"} => ToldIsBest
LoopIsBest == lastTip = tip => ToldIsBest
ChainInv == Blocks /\ BlocksOfOne /\ PassIsBest /\ LoopIsBest

LEMMA ChainMoves ==
  ASSUME ChainInv, MineBlock \/ Reorg
  PROVE  ChainInv'
<1>1. /\ UNCHANGED <<toldBlock, lastTip, syncPass>>
      /\ tip' # "none" /\ tip' # lastTip /\ tip' # syncPass.tip
  BY ChainSyncAssumption DEF MineBlock, Reorg, FreshTip
<1>2. \/ UNCHANGED <<blocks, within>>
      \/ \E t \in Txs : blocks' = blocks + 1 /\ within' = [within EXCEPT ![t] = blocks']
      \/ \E t \in Txs : blocks' = blocks /\ within' = [within EXCEPT ![t] = 0]
  BY DEF MineBlock, Reorg
<1>3. Blocks' /\ BlocksOfOne'
  <2>1. CASE UNCHANGED <<blocks, within>>
    BY <1>1, <2>1 DEF ChainInv, Blocks, BlocksOfOne
  <2>2. CASE \E t \in Txs : blocks' = blocks + 1 /\ within' = [within EXCEPT ![t] = blocks']
    BY <1>1, <2>2 DEF ChainInv, Blocks, BlocksOfOne
  <2>3. CASE \E t \in Txs : blocks' = blocks /\ within' = [within EXCEPT ![t] = 0]
    BY <1>1, <2>3 DEF ChainInv, Blocks, BlocksOfOne
  <2> QED
    BY <1>2, <2>1, <2>2, <2>3
<1> QED
  BY <1>1, <1>3 DEF ChainInv, PassIsBest, LoopIsBest

\* An answer of Esplora tells LDK of the block that holds the transaction now.
LEMMA AnswersAreBest ==
  ASSUME ChainInv, NEW t \in Txs, UNCHANGED <<tip, blocks, within>>,
         Confirm(t) \/ UNCHANGED toldBlock
  PROVE  Blocks' /\ (ToldIsBest => ToldIsBest') /\ BlocksOfOne'
<1>1. \/ toldBlock' = toldBlock
      \/ within[t] # 0 /\ toldBlock' = [toldBlock EXCEPT ![t] = within[t]]
  BY DEF Confirm
<1> QED
  BY <1>1 DEF ChainInv, Blocks, ToldIsBest, BlocksOfOne

LEMMA ChecksAreBest ==
  ASSUME ChainInv, CheckReorg \/ CheckTxs \/ CheckOutputs
  PROVE  ChainInv'
<1>1. UNCHANGED <<tip, blocks, within, lastTip>>
  BY DEF CheckReorg, CheckTxs, CheckOutputs
<1>2. CASE CheckReorg
  <2>1. toldBlock' = AfterReorg
    BY <1>2 DEF CheckReorg
  <2>2. \A t \in Txs : /\ toldBlock'[t] \in {0, toldBlock[t]}
                       /\ toldBlock'[t] # 0 => toldBlock'[t] = within[t]
    BY <2>1 DEF AfterReorg, InBestChain, ChainInv, BlocksOfOne
  <2>3. toldBlock' \in [Txs -> 0..blocks]
    BY <2>1, <2>2 DEF AfterReorg, ChainInv, Blocks
  <2> QED
    BY <1>1, <2>2, <2>3 DEF ChainInv, Blocks, BlocksOfOne, PassIsBest, LoopIsBest, ToldIsBest
<1>3. CASE CheckTxs \/ CheckOutputs
  <2>1. PICK t \in Txs : Confirm(t) \/ UNCHANGED toldBlock
    BY <1>3 DEF CheckTxs, CheckOutputs, Txs
  <2>2. Blocks' /\ (ToldIsBest => ToldIsBest') /\ BlocksOfOne'
    BY <1>1, <2>1, AnswersAreBest
  <2>3. PICK next \in {"outs", "prune"} : syncPass' = [syncPass EXCEPT !.pc = next]
    BY <1>3 DEF CheckTxs, CheckOutputs
  <2>4. syncPass.pc \in {"txs", "outs"}
    BY <1>3 DEF CheckTxs, CheckOutputs
  <2>5. syncPass'.tip = syncPass.tip
    BY <2>3
  <2> QED
    BY <1>1, <2>2, <2>4, <2>5 DEF ChainInv, PassIsBest, LoopIsBest
<1> QED
  BY <1>2, <1>3

(* Once the sync loop is idle on the best tip, LDK believes nothing         *)
(* confirmed in a block that left the best chain, however many blocks and   *)
(* reorganisations came during its passes.  (chain-sync.ts, syncOnce)       *)
THEOREM IdleBelievesBestChain == ChainSpec => []IdleMeansBestChain
<1>1. ChainInit => ChainInv
  <2> SUFFICES ASSUME ChainInit
               PROVE  ChainInv
    OBVIOUS
  <2>1. TipHashes # {}
    BY ChainSyncAssumption, FS_EmptySet
  <2>2. tip # "none"
    BY <2>1, ChainSyncAssumption DEF ChainInit
  <2>3. \A t \in Txs : toldBlock[t] = 0 /\ within[t] = 0
    BY DEF ChainInit
  <2>4. within \in [Txs -> 0..blocks] /\ toldBlock \in [Txs -> 0..blocks] /\ blocks \in Nat
    BY DEF ChainInit
  <2> QED
    BY <2>2, <2>3, <2>4
       DEF ChainInv, Blocks, BlocksOfOne, PassIsBest, LoopIsBest, ToldIsBest
<1>2. ChainInv /\ [ChainNext]_chainVars => ChainInv'
  <2> SUFFICES ASSUME ChainInv, [ChainNext]_chainVars
               PROVE  ChainInv'
    OBVIOUS
  <2> USE DEF ChainInv, Blocks, BlocksOfOne, PassIsBest, LoopIsBest, ToldIsBest
  <2>1. CASE MineBlock \/ Reorg
    BY <2>1, ChainMoves
  <2>2. CASE CheckReorg \/ CheckTxs \/ CheckOutputs
    BY <2>2, ChecksAreBest
  <2>3. CASE RegisterChannel
    BY <2>3 DEF RegisterChannel
  <2>4. CASE StartSync
    BY <2>4 DEF StartSync
  <2>5. CASE PruneWatched
    BY <2>5 DEF PruneWatched, NoChainPass
  <2>6. CASE AbortSync \/ RestartSync
    BY <2>6 DEF AbortSync, RestartSync, NoChainPass
  <2>7. CASE UNCHANGED chainVars
    BY <2>7 DEF chainVars
  <2> QED
    BY <2>1, <2>2, <2>3, <2>4, <2>5, <2>6, <2>7 DEF ChainNext
<1>3. ChainInv => IdleMeansBestChain
  BY DEF ChainInv, LoopIsBest, ToldIsBest, IdleMeansBestChain
<1> QED
  BY <1>1, <1>2, <1>3, PTL DEF ChainSpec

-----------------------------------------------------------------------------
(* Close records.  A record that exists in memory is in IndexedDB, or its   *)
(* write is under way or queued; and the safety net is dropped only behind  *)
(* that write.  InIdb says that IndexedDB has the close, which it keeps.   *)

InIdb == "closed" \in recIdb
Queued(what, k) == k \in 1..Len(writeChain) /\ writeChain[k] = what
Coming(k) == \E j \in 1..k - 1 : Queued("persist", j)

StoreTypes ==
  /\ writeChain \in Seq({"net", "drop", "persist"}) /\ netMem \in BOOLEAN /\ netIdb \in BOOLEAN
  /\ job.pc \in {"none", "netPut", "idbPut", "idbPutMerged", "put", "putMerged", "fetch"}
  /\ job = [pc |-> job.pc, data |-> job.data]
RecordsCarryClose ==
  /\ (\E k \in Nat : Queued("persist", k)) => "closed" \in recMem
  /\ job.pc \notin {"none", "netPut"} => "closed" \in job.data /\ "closed" \in recMem
  /\ job.pc \in {"put", "putMerged", "fetch", "idbPutMerged"} => InIdb
  /\ InIdb => "closed" \in recMem
  /\ "closed" \in recVss => InIdb
MemoryStored ==
  "closed" \in recMem => InIdb \/ job.pc = "idbPut" \/ \E k \in Nat : Queued("persist", k)
NetBehindRecord ==
  /\ \A k \in Nat : Queued("drop", k) => InIdb \/ job.pc = "idbPut" \/ Coming(k)
  /\ job.pc = "netPut" /\ ~netMem => InIdb
  /\ remembered => InIdb \/ netIdb
StoreInv ==
  /\ StoreTypes
  /\ ~idbFailed =>
       /\ RecordsCarryClose /\ MemoryStored
       /\ channel # "unfunded" => NetBehindRecord

\* What waits behind the current mutation after one more is queued or started.
LEMMA QueuedNext ==
  ASSUME NEW chain \in Seq({"net", "drop", "persist"})
  PROVE  /\ \A what \in {"net", "drop", "persist"} :
              LET more == chain \o <<what>>
              IN  /\ more \in Seq({"net", "drop", "persist"}) /\ Len(more) = Len(chain) + 1
                  /\ \A k \in 1..Len(chain) : more[k] = chain[k]
                  /\ more[Len(chain) + 1] = what
         /\ LET more == chain \o <<"persist", "drop">>
            IN  /\ more \in Seq({"net", "drop", "persist"}) /\ Len(more) = Len(chain) + 2
                /\ \A k \in 1..Len(chain) : more[k] = chain[k]
                /\ more[Len(chain) + 1] = "persist" /\ more[Len(chain) + 2] = "drop"
         /\ chain # <<>> =>
              /\ Tail(chain) \in Seq({"net", "drop", "persist"}) /\ Len(chain) \in Nat \ {0}
              /\ Len(Tail(chain)) = Len(chain) - 1 /\ Head(chain) = chain[1]
              /\ \A k \in 1..Len(chain) - 1 : Tail(chain)[k] = chain[k + 1]
  OBVIOUS

LEMMA OneQueued ==
  ASSUME StoreTypes, NEW what \in {"net", "drop", "persist"},
         writeChain' = writeChain \o <<what>>
  PROVE  /\ writeChain' \in Seq({"net", "drop", "persist"}) /\ Len(writeChain) \in Nat
         /\ \A x \in {"net", "drop", "persist"} : \A k \in Nat :
              Queued(x, k)' <=> Queued(x, k) \/ (x = what /\ k = Len(writeChain) + 1)
<1>1. /\ writeChain' \in Seq({"net", "drop", "persist"})
      /\ Len(writeChain) \in Nat /\ Len(writeChain') = Len(writeChain) + 1
      /\ \A k \in 1..Len(writeChain) : writeChain'[k] = writeChain[k]
      /\ writeChain'[Len(writeChain) + 1] = what
  BY QueuedNext DEF StoreTypes
<1> QED
  BY <1>1 DEF Queued

LEMMA TwoQueued ==
  ASSUME StoreTypes, writeChain' = writeChain \o <<"persist", "drop">>
  PROVE  /\ writeChain' \in Seq({"net", "drop", "persist"}) /\ Len(writeChain) \in Nat
         /\ \A x \in {"net", "drop", "persist"} : \A k \in Nat :
              Queued(x, k)' <=> \/ Queued(x, k)
                                \/ x = "persist" /\ k = Len(writeChain) + 1
                                \/ x = "drop" /\ k = Len(writeChain) + 2
<1>1. /\ writeChain' \in Seq({"net", "drop", "persist"})
      /\ Len(writeChain) \in Nat /\ Len(writeChain') = Len(writeChain) + 2
      /\ \A k \in 1..Len(writeChain) : writeChain'[k] = writeChain[k]
      /\ writeChain'[Len(writeChain) + 1] = "persist"
      /\ writeChain'[Len(writeChain) + 2] = "drop"
  BY QueuedNext DEF StoreTypes
<1> QED
  BY <1>1 DEF Queued

LEMMA OneStarted ==
  ASSUME StoreTypes, writeChain # <<>>, writeChain' = Tail(writeChain)
  PROVE  /\ writeChain' \in Seq({"net", "drop", "persist"})
         /\ Queued(Head(writeChain), 1)
         /\ \A x \in {"net", "drop", "persist"} : \A k \in Nat :
              /\ Queued(x, k)' <=> k > 0 /\ Queued(x, k + 1)
              /\ Queued(x, k) /\ k # 1 => k - 1 \in Nat /\ Queued(x, k - 1)'
<1>1. /\ writeChain' \in Seq({"net", "drop", "persist"}) /\ Len(writeChain) \in Nat \ {0}
      /\ Len(writeChain') = Len(writeChain) - 1 /\ Head(writeChain) = writeChain[1]
      /\ \A k \in 1..Len(writeChain) - 1 : writeChain'[k] = writeChain[k + 1]
  BY QueuedNext DEF StoreTypes
<1> QED
  BY <1>1 DEF Queued

LEMMA CloseStep ==
  ASSUME StoreInv, RecordFundingTxo \/ HandleChannelClosed \/ ReconcileStore
  PROVE  StoreInv'
<1> USE DEF StoreInv, RecordsCarryClose, MemoryStored, NetBehindRecord, Coming, InIdb
<1>1. UNCHANGED <<recIdb, recVss, netMem, netIdb, job, remembered, idbFailed>>
  BY DEF RecordFundingTxo, HandleChannelClosed, ReconcileStore
<1>2. CASE RecordFundingTxo
  <2>1. writeChain' = writeChain \o <<"net">> /\ recMem' = recMem
        /\ channel = "none" /\ channel' = "open"
    BY <1>2 DEF RecordFundingTxo, Enqueue
  <2>2. StoreTypes' /\ \A x \in {"net", "drop", "persist"} : \A k \in Nat :
              Queued(x, k)' <=> Queued(x, k) \/ (x = "net" /\ k = Len(writeChain) + 1)
    BY <1>1, <2>1, OneQueued DEF StoreTypes
  <2> QED
    BY <1>1, <2>1, <2>2
<1>3. CASE NewRecord /\ channel # "unfunded"
  <2>1. writeChain' = writeChain \o <<"persist", "drop">> /\ recMem' = recMem \cup {"closed"}
    BY <1>3 DEF NewRecord, Enqueue, AfterClose
  <2>2. /\ StoreTypes' /\ Len(writeChain) \in Nat
        /\ \A x \in {"net", "drop", "persist"} : \A k \in Nat :
             Queued(x, k)' <=> \/ Queued(x, k)
                               \/ x = "persist" /\ k = Len(writeChain) + 1
                               \/ x = "drop" /\ k = Len(writeChain) + 2
    BY <1>1, <2>1, TwoQueued DEF StoreTypes
  <2>3. \E k \in Nat : Queued("persist", k)'
    BY <2>2
  <2> QED
    BY <1>1, <1>3, <2>1, <2>2, <2>3
<1>4. CASE channel' = "unfunded" /\ Enqueue(<<"drop">>) /\ recMem' = recMem
  <2>1. StoreTypes' /\ \A x \in {"net", "drop", "persist"} : \A k \in Nat :
              Queued(x, k)' <=> Queued(x, k) \/ (x = "drop" /\ k = Len(writeChain) + 1)
    BY <1>1, <1>4, OneQueued DEF StoreTypes, Enqueue
  <2> QED
    BY <1>1, <1>4, <2>1
<1>5. CASE ReconcileStore /\ "closed" \in recMem /\ Enqueue(<<"drop">>) /\ recMem' = recMem
  <2>1. /\ StoreTypes' /\ Len(writeChain) \in Nat
        /\ \A x \in {"net", "drop", "persist"} : \A k \in Nat :
             Queued(x, k)' <=> Queued(x, k) \/ (x = "drop" /\ k = Len(writeChain) + 1)
    BY <1>1, <1>5, OneQueued DEF StoreTypes, Enqueue
  <2>2. \A k \in Nat : Queued("persist", k) => k < Len(writeChain) + 1 /\ k > 0
    BY <2>1 DEF Queued
  <2>3. channel' = channel
    BY <1>5 DEF ReconcileStore
  <2> QED
    BY <1>1, <1>5, <2>1, <2>2, <2>3
<1>6. CASE ReconcileStore /\ "closed" \in recMem /\ Enqueue(<<"persist">>)
           /\ recMem' = recMem \cup {"onchain"}
  <2>1. StoreTypes' /\ \A x \in {"net", "drop", "persist"} : \A k \in Nat :
              Queued(x, k)' <=> Queued(x, k) \/ (x = "persist" /\ k = Len(writeChain) + 1)
    BY <1>1, <1>6, OneQueued DEF StoreTypes, Enqueue
  <2>2. channel' = channel
    BY <1>6 DEF ReconcileStore
  <2> QED
    BY <1>1, <1>6, <2>1, <2>2
<1> QED
  BY <1>2, <1>3, <1>4, <1>5, <1>6 DEF HandleChannelClosed, ReconcileStore

\* A mutation other than a record's write leaves the queued writes where they
\* were, one place nearer.
LEMMA WritesRemain ==
  ASSUME StoreTypes, writeChain # <<>>, writeChain' = Tail(writeChain),
         Head(writeChain) # "persist"
  PROVE  /\ (\E k \in Nat : Queued("persist", k)') <=> (\E k \in Nat : Queued("persist", k))
         /\ \A k \in Nat : Queued("drop", k)' =>
              /\ k + 1 \in Nat /\ Queued("drop", k + 1)
              /\ Coming(k + 1) => Coming(k)'
<1>1. /\ \A k \in Nat : Queued("persist", k)' => Queued("persist", k + 1)
      /\ \A k \in Nat : Queued("persist", k) /\ k # 1 => k - 1 \in Nat /\ Queued("persist", k - 1)'
      /\ \A k \in Nat : Queued("drop", k)' => k > 0 /\ Queued("drop", k + 1)
  BY OneStarted
<1>2. ~Queued("persist", 1)
  BY OneStarted DEF Queued
<1>3. ASSUME NEW k \in Nat, Queued("persist", k)'
      PROVE  \E j \in Nat : Queued("persist", j)
  <2>1. k + 1 \in Nat
    OBVIOUS
  <2> QED
    BY <1>1, <1>3, <2>1
<1>4. ASSUME NEW k \in Nat, Queued("persist", k)
      PROVE  \E j \in Nat : Queued("persist", j)'
  BY <1>1, <1>2, <1>4
<1>5. ASSUME NEW k \in Nat, Coming(k + 1)
      PROVE  Coming(k)'
  <2>1. PICK j \in 1..k : Queued("persist", j)
    BY <1>5 DEF Coming
  <2>2. j \in Nat /\ j # 1 /\ j - 1 \in 1..k - 1
    BY <1>2, <2>1
  <2>3. Queued("persist", j - 1)'
    BY <1>1, <2>1, <2>2
  <2>4. Queued("persist", j - 1)' => \E i \in 1..k - 1 : Queued("persist", i)'
    BY <2>2
  <2> QED
    BY <2>3, <2>4 DEF Coming
<1> QED
  BY <1>1, <1>3, <1>4, <1>5

LEMMA StartJobStep ==
  ASSUME StoreInv, StartJob
  PROVE  StoreInv'
<1> USE DEF StoreInv, RecordsCarryClose, MemoryStored, NetBehindRecord, InIdb
<1>1. /\ UNCHANGED <<channel, recMem, recIdb, recVss, netIdb, remembered, idbFailed>>
      /\ writeChain # <<>> /\ writeChain' = Tail(writeChain) /\ job.pc = "none"
  BY DEF StartJob
<1>2. /\ writeChain' \in Seq({"net", "drop", "persist"})
      /\ Queued(Head(writeChain), 1)
      /\ \A x \in {"net", "drop", "persist"} : \A k \in Nat :
           Queued(x, k)' <=> k > 0 /\ Queued(x, k + 1)
  BY <1>1, OneStarted DEF StoreTypes
<1>3. CASE Head(writeChain) = "persist" /\ UNCHANGED netMem
           /\ job' = [pc |-> "idbPut", data |-> recMem]
  <2>1. StoreTypes' /\ job'.pc = "idbPut" /\ job'.data = recMem
    BY <1>1, <1>2, <1>3 DEF StoreTypes
  <2> QED
    BY <1>1, <1>2, <1>3, <2>1
<1>4. CASE Head(writeChain) # "persist" /\ job'.pc \in {"none", "netPut"} /\ StoreTypes'
           /\ (job'.pc = "netPut" /\ ~netMem' => Head(writeChain) = "drop")
  <2>1. /\ (\E k \in Nat : Queued("persist", k)') <=> (\E k \in Nat : Queued("persist", k))
        /\ \A k \in Nat : Queued("drop", k)' =>
             k + 1 \in Nat /\ Queued("drop", k + 1) /\ (Coming(k + 1) => Coming(k)')
    BY <1>1, <1>4, WritesRemain
  <2>2. ~idbFailed => RecordsCarryClose' /\ MemoryStored'
    BY <1>1, <1>4, <2>1
  <2>3. ~idbFailed /\ channel # "unfunded" /\ Head(writeChain) = "drop" => InIdb
    BY <1>1, <1>2 DEF Coming
  <2>4. ~idbFailed /\ channel # "unfunded" => NetBehindRecord'
    BY <1>1, <1>4, <2>1, <2>3
  <2> QED
    BY <1>1, <1>4, <2>2, <2>4
<1>5. CASE Head(writeChain) = "net" /\ netMem' = TRUE /\ job' = [NoJob EXCEPT !.pc = "netPut"]
  <2>1. StoreTypes' /\ job'.pc = "netPut"
    BY <1>1, <1>2, <1>5 DEF StoreTypes, NoJob
  <2> QED
    BY <1>4, <1>5, <2>1
<1>6. CASE Head(writeChain) = "drop" /\ netMem' = FALSE
           /\ job' = IF netMem THEN [NoJob EXCEPT !.pc = "netPut"] ELSE NoJob
  <2>1. StoreTypes' /\ job'.pc \in {"none", "netPut"}
    BY <1>1, <1>2, <1>6 DEF StoreTypes, NoJob
  <2> QED
    BY <1>4, <1>6, <2>1
<1> QED
  BY <1>3, <1>5, <1>6 DEF StartJob

LEMMA JobStep ==
  ASSUME StoreInv, NetWritten \/ RecordWritten \/ PutRecord \/ FetchRemote
  PROVE  StoreInv'
<1> USE DEF StoreInv, RecordsCarryClose, MemoryStored, NetBehindRecord, Coming, InIdb
<1>1. UNCHANGED <<channel, netMem, writeChain>> /\ \A x, k : Queued(x, k)' <=> Queued(x, k)
  BY DEF NetWritten, RecordWritten, PutRecord, FetchRemote, Queued
<1>2. CASE NetWritten
  <2>1. StoreTypes' /\ job'.pc = "none" /\ job.pc = "netPut"
    BY <1>1, <1>2 DEF NetWritten, Finish, NoJob, StoreTypes
  <2> QED
    BY <1>1, <1>2, <2>1 DEF NetWritten
<1>3. CASE RecordWritten
  <2>1. StoreTypes' /\ job'.pc \in {"none", "put"} /\ (job'.pc = "put" => job'.data = job.data)
    BY <1>1, <1>3 DEF RecordWritten, Finish, NoJob, StoreTypes
  <2> QED
    BY <1>1, <1>3, <2>1 DEF RecordWritten
<1>4. CASE PutRecord
  <2>1. /\ StoreTypes' /\ job'.pc \in {"none", "fetch", "idbPutMerged"}
        /\ job'.pc # "none" => job'.data = job.data
    BY <1>1, <1>4 DEF PutRecord, Finish, NoJob, StoreTypes
  <2> QED
    BY <1>1, <1>4, <2>1 DEF PutRecord
<1>5. CASE FetchRemote
  <2>1. /\ StoreTypes' /\ job'.pc \in {"none", "putMerged"}
        /\ job'.pc = "putMerged" => job'.data = recMem'
    BY <1>1, <1>5 DEF FetchRemote, Finish, NoJob, StoreTypes
  <2> QED
    BY <1>1, <1>5, <2>1 DEF FetchRemote, MergeRemote
<1> QED
  BY <1>2, <1>3, <1>4, <1>5

LEMMA RestartStep ==
  ASSUME StoreInv, RestartStore
  PROVE  StoreInv'
<1>1. /\ writeChain' = <<>> /\ job' = NoJob
      /\ UNCHANGED <<channel, recVss, netIdb, remembered>>
  BY DEF RestartStore
<1>2. PICK idbReads \in BOOLEAN, vssReads \in BOOLEAN :
        /\ netMem' = (idbReads /\ netIdb)
        /\ recMem' = (IF vssReads THEN (IF idbReads THEN recIdb ELSE {}) \cup recVss
                      ELSE IF idbReads THEN recIdb ELSE {})
        /\ recIdb' = (IF vssReads /\ recMem' # (IF idbReads THEN recIdb ELSE {})
                      THEN recMem' ELSE recIdb)
        /\ idbFailed' = (idbFailed \/ ~idbReads)
  BY DEF RestartStore
<1>3. StoreTypes' /\ job'.pc = "none" /\ \A x, k : ~Queued(x, k)'
  BY <1>1, <1>2 DEF StoreInv, StoreTypes, NoJob, Queued
<1>4. ~idbFailed' => ~idbFailed /\ ("closed" \in recMem' <=> InIdb) /\ (InIdb' <=> InIdb)
  BY <1>2 DEF InIdb, StoreInv, RecordsCarryClose
<1> QED
  BY <1>1, <1>3, <1>4
     DEF StoreInv, RecordsCarryClose, MemoryStored, NetBehindRecord, Coming, InIdb

(* From the first durable write on, a close is never forgotten: whenever    *)
(* the tab dies, IndexedDB or VSS has the record, or IndexedDB the safety   *)
(* net from which it is made again, however writes, conflicts with another  *)
(* device and restarts follow each other.  Only a failed IndexedDB call is  *)
(* left out.  (close-records/store.ts)                                      *)
THEOREM CloseIsKept == StoreSpec => []CloseNotForgotten
<1>1. StoreInit => StoreInv
  <2> SUFFICES ASSUME StoreInit
               PROVE  StoreInv
    OBVIOUS
  <2>1. job = [pc |-> "none", data |-> {}]
    BY DEF StoreInit, NoJob
  <2>2. job.pc = "none" /\ job = [pc |-> job.pc, data |-> job.data]
    BY <2>1
  <2>3. netMem \in BOOLEAN /\ netIdb \in BOOLEAN
    BY DEF StoreInit
  <2>6. writeChain \in Seq({"net", "drop", "persist"})
    BY DEF StoreInit
  <2>4. StoreTypes
    BY <2>2, <2>3, <2>6 DEF StoreTypes
  <2>5. \A x, k : ~Queued(x, k)
    BY DEF StoreInit, Queued
  <2> QED
    BY <2>2, <2>4, <2>5 DEF StoreInit, StoreInv, RecordsCarryClose, MemoryStored, NetBehindRecord, InIdb
<1>2. StoreInv /\ [StoreNext]_storeVars => StoreInv'
  <2> SUFFICES ASSUME StoreInv, [StoreNext]_storeVars
               PROVE  StoreInv'
    OBVIOUS
  <2> USE DEF StoreInv, StoreTypes, RecordsCarryClose, MemoryStored, NetBehindRecord, Coming,
              InIdb, Queued
  <2>1. CASE RecordFundingTxo \/ HandleChannelClosed \/ ReconcileStore
    BY <2>1, CloseStep
  <2>2. CASE StartJob
    BY <2>2, StartJobStep
  <2>3. CASE NetWritten \/ RecordWritten \/ PutRecord \/ FetchRemote
    BY <2>3, JobStep
  <2>4. CASE ForeignWrite
    BY <2>4 DEF ForeignWrite
  <2>5. CASE RestartStore
    BY <2>5, RestartStep
  <2>6. CASE UNCHANGED storeVars
    BY <2>6 DEF storeVars
  <2> QED
    BY <2>1, <2>2, <2>3, <2>4, <2>5, <2>6 DEF StoreNext
<1>3. StoreInv => CloseNotForgotten
  BY DEF StoreInv, NetBehindRecord, InIdb, CloseNotForgotten
<1> QED
  BY <1>1, <1>2, <1>3, PTL DEF StoreSpec

-----------------------------------------------------------------------------
(* Sweeping.  An output that is neither the wallet's nor moved waits in an  *)
(* event, in a write under way or in the store: LDK's promise to replay an  *)
(* event is not needed for it until a crash takes the write.  A sweep       *)
(* deletes nothing but the entries it read (their keys are no one else's),  *)
(* and only once what they hold has moved or the batch is counted stale.    *)

InStore(o) == \E e \in entries : o \in e[2]
InWrite(o) == \E w \in writing : o \in w[2]

SweepTypes ==
  /\ toHandle \subseteq Outputs /\ replayable \subseteq Outputs
  /\ entries \subseteq SweepKeys \X SUBSET Outputs /\ writing \subseteq SweepKeys \X SUBSET Outputs
  /\ sweep \in [pc : {"idle", "fee", "post", "delete"}, keys : SUBSET SweepKeys,
                outs : SUBSET Outputs, sub : {TRUE, FALSE}]
KeysApart ==
  /\ \A w, v \in writing : w[1] = v[1] => w = v
  /\ \A w \in writing : w[1] \notin sweep.keys /\ \A e \in entries : e[1] # w[1]
BatchKnown ==
  /\ \A e \in entries : e[1] \in sweep.keys => e[2] \subseteq sweep.outs
  /\ sweep.pc = "delete" => \A o \in sweep.outs : Moved(o) \/ o \in stale
\* No two subsidized sweeps spend the coin, unless a changeset was lost.
CoinSpentAlone == \A t \in net : "coin" \in t => t = {"coin"}
CoinSpentOnce ==
  \/ Outputs \subseteq stale
  \/ /\ CoinSpentAlone \/ coinKnown # "no"
     /\ sweep.pc = "fee" => ~sweep.sub
     /\ sweep.pc = "post" /\ sweep.sub => CoinSpentAlone
Waits == \A o \in Outputs \ (owned \cup stale) :
            Moved(o) \/ o \in toHandle \/ InStore(o) \/ InWrite(o)
SweepInv == SweepTypes /\ KeysApart /\ BatchKnown /\ CoinSpentOnce /\ Waits

LEMMA NoSweepOK ==
  /\ NoSweep.keys = {} /\ NoSweep.pc = "idle" /\ ~NoSweep.sub
  /\ NoSweep \in [pc : {"idle", "fee", "post", "delete"}, keys : SUBSET SweepKeys,
                  outs : SUBSET Outputs, sub : {TRUE, FALSE}]
  BY DEF NoSweep

LEMMA HandleStep ==
  ASSUME SweepInv, HandleSpendableOutputs
  PROVE  SweepInv'
<1> USE DEF SweepInv, Moved
<1>1. PICK o \in toHandle :
        /\ toHandle' = toHandle \ {o} /\ replayable' = replayable \cup {o}
        /\ \/ o \in owned /\ UNCHANGED writing
           \/ \E k \in FreshKeys : writing' = writing \cup {<<k, {o}>>}
        /\ UNCHANGED <<owned, entries, sweep, net, coinKnown, stale>>
  BY DEF HandleSpendableOutputs
<1>2. CASE o \in owned /\ UNCHANGED writing
  BY <1>1, <1>2
     DEF SweepTypes, KeysApart, BatchKnown, CoinSpentOnce, CoinSpentAlone, Waits, InStore, InWrite
<1>3. CASE \E k \in FreshKeys : writing' = writing \cup {<<k, {o}>>}
  <2>1. PICK k \in FreshKeys : writing' = writing \cup {<<k, {o}>>}
    BY <1>3
  <2>2. /\ k \in SweepKeys /\ k \notin sweep.keys
        /\ \A e \in entries \cup writing : e[1] # k
    BY DEF FreshKeys
  <2>3. PICK w : w = <<k, {o}>>
    OBVIOUS
  <2>4. w \in SweepKeys \X SUBSET Outputs /\ w[1] = k /\ w[2] = {o} /\ writing' = writing \cup {w}
    BY <2>1, <2>2, <2>3 DEF SweepTypes
  <2>5. SweepTypes'
    BY <1>1, <2>4 DEF SweepTypes
  <2>6. KeysApart'
    BY <1>1, <2>2, <2>4 DEF KeysApart
  <2>7. BatchKnown' /\ CoinSpentOnce'
    BY <1>1 DEF BatchKnown, CoinSpentOnce, CoinSpentAlone
  <2>8. Waits'
    BY <1>1, <2>4 DEF Waits, InStore, InWrite
  <2> QED
    BY <2>5, <2>6, <2>7, <2>8
<1> QED
  BY <1>1, <1>2, <1>3

LEMMA WriteStep ==
  ASSUME SweepInv, EntryWritten
  PROVE  SweepInv'
<1> USE DEF SweepInv, Moved
<1>1. PICK w \in writing :
        /\ writing' = writing \ {w} /\ entries' = entries \cup {w}
        /\ UNCHANGED <<owned, toHandle, replayable, sweep, net, coinKnown, stale>>
  BY DEF EntryWritten
<1>2. SweepTypes'
  BY <1>1 DEF SweepTypes
<1>3. KeysApart' /\ BatchKnown'
  BY <1>1 DEF KeysApart, BatchKnown
<1>4. CoinSpentOnce'
  BY <1>1 DEF CoinSpentOnce, CoinSpentAlone
<1>5. Waits'
  BY <1>1 DEF Waits, InStore, InWrite
<1> QED
  BY <1>2, <1>3, <1>4, <1>5

\* Pruning keeps an output that is not the wallet's: in the first entry that holds it.
LEMMA FirstKeeps ==
  ASSUME SweepTypes, NEW o \in Outputs \ owned, InStore(o)
  PROVE  \E e \in entries : o \in Keep(e)
<1> DEFINE K == {e[1] : e \in {f \in entries : o \in f[2]}}
<1>1. K \subseteq SweepKeys /\ K # {}
  BY DEF SweepTypes, InStore
<1> HIDE DEF K
<1>2. PICK k \in K : \A j \in K : k <= j
  BY <1>1, SweepAssumption
<1> USE DEF K
<1>3. PICK e \in entries : o \in e[2] /\ e[1] = k
  BY <1>2
<1>4. \A g \in entries : o \in g[2] => k <= g[1]
  BY <1>2
<1>5. k \in Nat /\ \A g \in entries : g[1] \in Nat
  BY <1>1, SweepAssumption DEF SweepTypes
<1>6. \A g \in entries : g[1] < e[1] => o \notin g[2]
  BY <1>3, <1>4, <1>5
<1>7. o \notin Earlier(e)
  BY <1>6 DEF Earlier
<1> QED
  BY <1>3, <1>7 DEF Keep

LEMMA StartSweepStep ==
  ASSUME SweepInv, StartSweep
  PROVE  SweepInv'
<1> USE DEF SweepInv, Moved
<1> DEFINE kept == {e \in entries : Keep(e) # {}}
<1>1. /\ UNCHANGED <<owned, toHandle, replayable, writing, net, coinKnown, stale>>
      /\ entries' = {<<e[1], Keep(e)>> : e \in kept}
      /\ sweep' = IF kept = {} THEN NoSweep
                  ELSE [pc |-> "fee", keys |-> {e[1] : e \in kept},
                        outs |-> UNION {Keep(e) : e \in kept}, sub |-> FALSE]
  BY DEF StartSweep
<1>2. \A e \in kept : e \in entries /\ e[1] \in SweepKeys /\ Keep(e) \subseteq Outputs
  BY DEF Keep, SweepTypes
<1> HIDE DEF kept
<1>3. \A e \in entries' : \E f \in kept : e[1] = f[1] /\ e[2] = Keep(f)
  BY <1>1
<1>4. entries' \subseteq SweepKeys \X SUBSET Outputs
  BY <1>1, <1>2
<1>5. /\ sweep' \in [pc : {"idle", "fee", "post", "delete"}, keys : SUBSET SweepKeys,
                     outs : SUBSET Outputs, sub : {TRUE, FALSE}]
      /\ sweep'.pc \in {"idle", "fee"} /\ sweep'.sub = FALSE
      /\ \A k \in sweep'.keys : \E e \in kept : k = e[1]
      /\ kept # {} => \A e \in kept : Keep(e) \subseteq sweep'.outs
  <2>1. CASE kept = {}
    <3>1. sweep' = NoSweep
      BY <1>1, <2>1
    <3> QED
      BY <2>1, <3>1, NoSweepOK
  <2>2. CASE kept # {}
    <3>1. sweep' = [pc |-> "fee", keys |-> {e[1] : e \in kept},
                    outs |-> UNION {Keep(e) : e \in kept}, sub |-> FALSE]
      BY <1>1, <2>2
    <3>2. /\ {e[1] : e \in kept} \in SUBSET SweepKeys
          /\ UNION {Keep(e) : e \in kept} \in SUBSET Outputs
      BY <1>2
    <3> QED
      BY <3>1, <3>2
  <2> QED
    BY <2>1, <2>2
<1>6. SweepTypes' /\ CoinSpentOnce'
  BY <1>1, <1>4, <1>5 DEF SweepTypes, CoinSpentOnce, CoinSpentAlone
<1>7. KeysApart'
  BY <1>1, <1>2, <1>3, <1>5 DEF KeysApart
<1>8. BatchKnown'
  BY <1>3, <1>5 DEF BatchKnown
<1>9. Waits'
  <2>1. ASSUME NEW o \in Outputs \ owned, InStore(o)
        PROVE  InStore(o)'
    <3>1. PICK e \in entries : o \in Keep(e)
      BY <2>1, FirstKeeps
    <3>2. <<e[1], Keep(e)>> \in entries'
      BY <1>1, <3>1 DEF kept
    <3> QED
      BY <3>1, <3>2 DEF InStore
  <2> QED
    BY <1>1, <2>1 DEF Waits, InWrite
<1> QED
  BY <1>6, <1>7, <1>8, <1>9

LEMMA BuildStep ==
  ASSUME SweepInv, SweepGivesUp \/ BuildSweep
  PROVE  SweepInv'
<1> USE DEF SweepInv, Moved
<1>1. UNCHANGED <<owned, toHandle, replayable, writing, entries, net, coinKnown, stale>>
  BY DEF SweepGivesUp, BuildSweep
<1>2. CASE sweep' = NoSweep
  BY <1>1, <1>2, NoSweepOK
     DEF SweepTypes, KeysApart, BatchKnown, CoinSpentOnce, CoinSpentAlone, Waits, InStore, InWrite
<1>3. CASE sweep.pc = "fee" /\ BuildSweep
  <2>1. PICK s \in {TRUE, FALSE} :
          /\ sweep' = [sweep EXCEPT !.pc = "post", !.sub = s] \/ sweep' = [sweep EXCEPT !.pc = "post"]
          /\ s => CoinFree
          /\ ~s => sweep' = [sweep EXCEPT !.pc = "post"]
    BY <1>3 DEF BuildSweep
  <2>2. /\ SweepTypes' /\ sweep'.pc = "post"
        /\ sweep'.keys = sweep.keys /\ sweep'.outs = sweep.outs
    BY <1>1, <2>1 DEF SweepTypes
  <2>3. sweep'.sub => sweep.sub \/ CoinFree
    BY <2>1 DEF SweepTypes
  <2>4. CoinSpentOnce'
    BY <1>1, <1>3, <2>2, <2>3 DEF CoinSpentOnce, CoinSpentAlone, CoinFree
  <2>5. KeysApart' /\ BatchKnown' /\ Waits'
    BY <1>1, <2>2 DEF KeysApart, BatchKnown, Waits, InStore, InWrite
  <2> QED
    BY <2>2, <2>4, <2>5
<1> QED
  BY <1>2, <1>3 DEF SweepGivesUp, BuildSweep

LEMMA PostStep ==
  ASSUME SweepInv, PostSweep
  PROVE  SweepInv'
<1> USE DEF SweepInv
<1>1. /\ UNCHANGED <<owned, toHandle, replayable, writing, entries>> /\ sweep.pc = "post"
      /\ \/ sweep' = [sweep EXCEPT !.pc = "delete"] /\ MarkSubsidy
         \/ sweep' = NoSweep /\ UNCHANGED <<net, coinKnown>>
      /\ \/ Accepted
         \/ UNCHANGED net /\ (sweep' = NoSweep \/ (TrustsSentinel /\ Conflicts # {}))
      /\ stale' = IF sweep'.pc = "delete"
                  THEN stale \cup UNION {t \cup sweep.outs :
                                            t \in {u \in net : u \cap sweep.outs # {}}}
                  ELSE stale
  BY DEF PostSweep, Accepted, AlreadyBroadcast
<1>2. CASE sweep' = NoSweep /\ UNCHANGED net
  <2>1. UNCHANGED <<stale, coinKnown>>
    BY <1>1, <1>2, NoSweepOK DEF Accepted, SweepTypes, MarkSubsidy
  <2> QED
    BY <1>1, <1>2, <2>1, NoSweepOK
       DEF SweepTypes, KeysApart, BatchKnown, CoinSpentOnce, CoinSpentAlone, Waits, InStore,
           InWrite, Moved
<1>3. CASE sweep' = [sweep EXCEPT !.pc = "delete"] /\ MarkSubsidy
  <2>1. /\ SweepTypes' /\ sweep'.pc = "delete"
        /\ sweep'.keys = sweep.keys /\ sweep'.outs = sweep.outs /\ sweep'.sub = sweep.sub
    BY <1>1, <1>3 DEF SweepTypes
  <2>2. stale' = stale \cup UNION {t \cup sweep.outs :
                                     t \in {u \in net : u \cap sweep.outs # {}}}
    BY <1>1, <2>1
  <2>3. \A t \in net : t \cap sweep.outs # {} => t \cup sweep.outs \subseteq stale'
    BY <2>2
  <2>4. /\ sweep.sub \in {TRUE, FALSE} /\ sweep.outs \subseteq Outputs
        /\ sweep.sub => SweepTx = sweep.outs \cup {"coin"}
        /\ ~sweep.sub => SweepTx = sweep.outs
    BY DEF SweepTx, SweepTypes
  <2>5. \/ net' = (net \ Conflicts) \cup {SweepTx}
        \/ UNCHANGED net /\ TrustsSentinel /\ Conflicts # {}
    BY <1>1, <1>3, <2>1, NoSweepOK DEF Accepted
  <2>6. sweep.sub => coinKnown' = "memory"
    BY <1>3 DEF MarkSubsidy
  <2>7. ~sweep.sub => coinKnown' = coinKnown
    BY <1>3, <2>4 DEF MarkSubsidy
  <2>8. ASSUME NEW o \in Outputs, Moved(o), o \notin stale'
        PROVE  Moved(o)'
    <3>1. PICK t \in net : o \in t
      BY <2>8 DEF Moved
    <3>2. CASE t \in net'
      BY <3>1, <3>2 DEF Moved
    <3>3. CASE t \notin net'
      <4>1. t \cap SweepTx # {}
        BY <2>5, <3>1, <3>3 DEF Conflicts
      <4>2. t \cap sweep.outs = {}
        BY <2>3, <2>8, <3>1
      <4>3. sweep.sub /\ "coin" \in t
        BY <2>4, <4>1, <4>2
      <4>4. Outputs \subseteq stale \/ t = {"coin"}
        BY <1>1, <3>1, <4>3 DEF CoinSpentOnce, CoinSpentAlone
      <4> QED
        BY <2>2, <2>8, <3>1, <4>4, SweepAssumption
    <3> QED
      BY <3>2, <3>3
  <2>9. ASSUME NEW o \in sweep.outs
        PROVE  Moved(o)' \/ o \in stale'
    <3>1. CASE SweepTx \in net'
      BY <2>4, <3>1 DEF Moved
    <3>2. CASE SweepTx \notin net'
      <4>1. UNCHANGED net /\ TrustsSentinel /\ Conflicts # {}
        BY <2>5, <3>2
      <4>2. ~sweep.sub
        BY <3>2, <4>1 DEF TrustsSentinel
      <4>3. PICK t \in net : t \cap sweep.outs # {}
        BY <2>4, <4>1, <4>2 DEF Conflicts
      <4> QED
        BY <2>3, <4>3
    <3> QED
      BY <3>1, <3>2
  <2>10. CoinSpentOnce'
    <3>1. CASE sweep.sub
      BY <2>1, <2>6, <3>1 DEF CoinSpentOnce
    <3>2. CASE ~sweep.sub /\ ~ (Outputs \subseteq stale)
      <4>1. \A t \in net' : t \in net \/ t = sweep.outs
        BY <2>4, <2>5, <3>2
      <4>2. "coin" \notin sweep.outs
        BY <2>4, SweepAssumption
      <4>3. CoinSpentAlone => CoinSpentAlone'
        BY <4>1, <4>2 DEF CoinSpentAlone
      <4> QED
        BY <2>1, <2>7, <3>2, <4>3 DEF CoinSpentOnce
    <3>3. CASE Outputs \subseteq stale
      BY <2>2, <3>3 DEF CoinSpentOnce
    <3> QED
      BY <3>1, <3>2, <3>3
  <2>11. KeysApart' /\ BatchKnown'
    BY <1>1, <2>1, <2>9 DEF KeysApart, BatchKnown
  <2>12. Waits'
    BY <1>1, <2>2, <2>8 DEF Waits, InStore, InWrite
  <2> QED
    BY <2>1, <2>10, <2>11, <2>12
<1> QED
  BY <1>1, <1>2, <1>3

LEMMA DeleteStep ==
  ASSUME SweepInv, DeleteSwept
  PROVE  SweepInv'
<1> USE DEF SweepInv, Moved
<1>1. /\ UNCHANGED <<owned, toHandle, replayable, writing, net, coinKnown, stale>>
      /\ sweep.pc = "delete" /\ sweep' = NoSweep
      /\ entries' = Remaining \/ UNCHANGED entries
  BY DEF DeleteSwept
<1>2. entries' \subseteq entries /\ \A e \in entries : e[1] \notin sweep.keys => e \in entries'
  BY <1>1 DEF Remaining
<1>3. SweepTypes' /\ KeysApart' /\ BatchKnown' /\ CoinSpentOnce'
  BY <1>1, <1>2, NoSweepOK DEF SweepTypes, KeysApart, BatchKnown, CoinSpentOnce, CoinSpentAlone
<1>4. ASSUME NEW o \in Outputs \ stale, InStore(o)
      PROVE  InStore(o)' \/ Moved(o)
  <2>1. PICK e \in entries : o \in e[2]
    BY <1>4 DEF InStore
  <2>2. CASE e[1] \in sweep.keys
    BY <1>1, <1>4, <2>1, <2>2 DEF BatchKnown
  <2>3. CASE e[1] \notin sweep.keys
    BY <1>2, <2>1, <2>3 DEF InStore
  <2> QED
    BY <2>2, <2>3
<1>5. Waits'
  BY <1>1, <1>4 DEF Waits, InWrite
<1> QED
  BY <1>3, <1>5

LEMMA AroundStep ==
  ASSUME SweepInv,
         MonitorsStored \/ ChangesetWritten \/ CoinSpentElsewhere \/ ConfirmSweep \/ CrashSweep
  PROVE  SweepInv'
<1> USE DEF SweepInv, Moved
<1>1. CASE MonitorsStored \/ ChangesetWritten \/ ConfirmSweep
  <2>1. /\ UNCHANGED <<owned, toHandle, writing, entries, sweep, net, stale>>
        /\ replayable' \in {{}, replayable} /\ coinKnown' \in {coinKnown, "durable"}
    BY <1>1 DEF MonitorsStored, ChangesetWritten, ConfirmSweep
  <2> QED
    BY <2>1 DEF SweepTypes, KeysApart, BatchKnown, CoinSpentOnce, CoinSpentAlone, Waits,
                InStore, InWrite
<1>2. CASE CoinSpentElsewhere
  <2>1. /\ UNCHANGED <<owned, toHandle, replayable, writing, entries, sweep, coinKnown, stale>>
        /\ net' = net \cup {{"coin"}}
    BY <1>2 DEF CoinSpentElsewhere
  <2> QED
    BY <2>1 DEF SweepTypes, KeysApart, BatchKnown, CoinSpentOnce, CoinSpentAlone, Waits,
                InStore, InWrite
<1>3. CASE CrashSweep
  <2>1. /\ UNCHANGED <<owned, entries, net>>
        /\ sweep' = NoSweep /\ writing' = {}
        /\ coinKnown' = IF coinKnown = "memory" THEN "no" ELSE coinKnown
        /\ toHandle' = toHandle \cup replayable /\ replayable' = {}
        /\ stale' = stale \cup ((UNION {w[2] : w \in writing}) \ replayable)
                      \cup (IF coinKnown = "memory" THEN Outputs ELSE {})
    BY <1>3 DEF CrashSweep
  <2>2. SweepTypes' /\ KeysApart' /\ BatchKnown'
    BY <2>1, NoSweepOK DEF SweepTypes, KeysApart, BatchKnown
  <2>3. CoinSpentOnce'
    BY <2>1, NoSweepOK DEF CoinSpentOnce, CoinSpentAlone
  <2>4. ASSUME NEW o, InWrite(o)
        PROVE  o \in stale' \/ o \in toHandle'
    <3>1. o \in UNION {w[2] : w \in writing}
      BY <2>4 DEF InWrite
    <3> QED
      BY <2>1, <3>1
  <2>5. Waits'
    BY <2>1, <2>4 DEF Waits, InStore
  <2> QED
    BY <2>2, <2>3, <2>5
<1> QED
  BY <1>1, <1>2, <1>3

(* An output LDK announced is the wallet's already, moved by an accepted    *)
(* transaction, or still held by LDK, a write under way or the store,       *)
(* whatever sweeps, events, conflicting broadcasts and crashes come         *)
(* together.  Left out are outputs whose write a crash cut off and plain    *)
(* sweeps built over an output that had already moved.  (sweep.ts)          *)
THEOREM OutputsStay == SweepSpec => []NoOutputDropped
<1>1. SweepInit => SweepInv
  <2> SUFFICES ASSUME SweepInit
               PROVE  SweepInv
    OBVIOUS
  <2> QED
    BY NoSweepOK DEF SweepInit, SweepInv, SweepTypes, KeysApart, BatchKnown, CoinSpentOnce,
                     CoinSpentAlone, Waits, InStore, InWrite, Moved
<1>2. SweepInv /\ [SweepNext]_sweepVars => SweepInv'
  <2> SUFFICES ASSUME SweepInv, [SweepNext]_sweepVars
               PROVE  SweepInv'
    OBVIOUS
  <2>1. CASE HandleSpendableOutputs
    BY <2>1, HandleStep
  <2>2. CASE EntryWritten
    BY <2>2, WriteStep
  <2>3. CASE StartSweep
    BY <2>3, StartSweepStep
  <2>4. CASE SweepGivesUp \/ BuildSweep
    BY <2>4, BuildStep
  <2>5. CASE PostSweep
    BY <2>5, PostStep
  <2>6. CASE DeleteSwept
    BY <2>6, DeleteStep
  <2>7. CASE MonitorsStored \/ ChangesetWritten \/ CoinSpentElsewhere \/ ConfirmSweep \/ CrashSweep
    BY <2>7, AroundStep
  <2>8. CASE UNCHANGED sweepVars
    BY <2>8 DEF sweepVars, SweepInv, SweepTypes, KeysApart, BatchKnown, CoinSpentOnce,
                CoinSpentAlone, Waits, InStore, InWrite, Moved
  <2> QED
    BY <2>1, <2>2, <2>3, <2>4, <2>5, <2>6, <2>7, <2>8 DEF SweepNext
<1>3. SweepInv => NoOutputDropped
  BY DEF SweepInv, Waits, InStore, InWrite, NoOutputDropped, Held, Stored
<1> QED
  BY <1>1, <1>2, <1>3, PTL DEF SweepSpec

-----------------------------------------------------------------------------
(* The life of a close record.  Whatever a record or the facts of a pass   *)
(* say of a transaction's height is its height on the chain, a record that *)
(* expects nothing is of a close that owes nothing, and the tip a pass     *)
(* works with is not ahead of the chain.                                   *)

RecordType ==
  [exists : {TRUE, FALSE}, funding : {TRUE, FALSE}, type : {"coop", "force", "unknown"},
   initiator : {"local", "remote", "unknown"}, txs : [TxIds -> Int],
   first : {"none", "coop", "ours", "theirs"}, expected : {-1, 0, 1},
   timelock : {TRUE, FALSE}, claimable : Int, done : {"no", "unverified", "verified"}]

\* The height of a transaction on the chain, 0 before it is confirmed.
At(id) == IF id = "sweep" THEN sweptAt ELSE IF id = spentBy THEN spentAt ELSE 0
TrueHeights(txs) == \A id \in TxIds : txs[id] = -1 \/ txs[id] = 0 \/ txs[id] = At(id)
Truthful(r) ==
  /\ r \in RecordType /\ TrueHeights(r.txs)
  /\ r.expected \in {-1, amount}

CloseChain ==
  /\ height \in Nat \ {0} /\ spentAt \in 0..height /\ sweptAt \in 0..height
  /\ amount \in {0, 1} /\ spentBy \in {"none", "coop", "ours", "theirs"}
  /\ spentBy = "none" => spentAt = 0
  /\ output \in {"none", "locked", "stored", "swept"}
PassTrue ==
  closePass.pc = "query" => closePass.seen \in RecordType /\ closePass.tip \in 0..height
CloseInv == CloseChain /\ Truthful(record) /\ PassTrue /\ VerifiedMeansReceived

LEMMA NoRecordTrue ==
  NoRecord \in RecordType /\ TrueHeights(NoRecord.txs) /\ NoRecord.expected = -1
  /\ NoRecord.done = "no"
  BY DEF NoRecord, RecordType, TrueHeights, TxIds

\* Merging two truthful lists of heights invents none.
LEMMA MergeTxsTrue ==
  ASSUME NEW a \in [TxIds -> Int], NEW b \in [TxIds -> Int], TrueHeights(a), TrueHeights(b)
  PROVE  MergeTxs(a, b) \in [TxIds -> Int] /\ TrueHeights(MergeTxs(a, b))
  BY DEF MergeTxs, TrueHeights

\* The fields of a merge.
LEMMA MergeIs ==
  ASSUME NEW base \in RecordType, NEW facts \in RecordType, facts.done = "no"
  PROVE  /\ Merge(base, facts).txs = MergeTxs(base.txs, facts.txs)
         /\ Merge(base, facts).expected = IF facts.expected >= 0 THEN facts.expected
                                          ELSE base.expected
         /\ Merge(base, facts).done = base.done
         /\ MergeTxs(base.txs, facts.txs) \in [TxIds -> Int] => Merge(base, facts) \in RecordType
<1>1. PICK m : m = Merge(base, facts)
  OBVIOUS
<1>2. m = [exists |-> TRUE, funding |-> base.funding \/ facts.funding,
           type |-> Known(facts.type, base.type),
           initiator |-> Known(facts.initiator, base.initiator),
           txs |-> MergeTxs(base.txs, facts.txs),
           first |-> IF base.first = "none" THEN facts.first ELSE base.first,
           expected |-> IF facts.expected >= 0 THEN facts.expected ELSE base.expected,
           timelock |-> base.timelock \/ facts.timelock,
           claimable |-> IF facts.claimable > 0 THEN facts.claimable ELSE base.claimable,
           done |-> IF "verified" \in {base.done, facts.done} THEN "verified"
                    ELSE IF base.done = "no" THEN facts.done ELSE base.done]
  BY <1>1 DEF Merge, RecordType
<1>3. m.done = base.done
  BY <1>2 DEF RecordType
<1>4. ASSUME MergeTxs(base.txs, facts.txs) \in [TxIds -> Int]
      PROVE  m \in RecordType
  <2>1. /\ (base.funding \/ facts.funding) \in {TRUE, FALSE}
        /\ (base.timelock \/ facts.timelock) \in {TRUE, FALSE}
    BY Zenon DEF RecordType
  <2>2. /\ Known(facts.type, base.type) \in {"coop", "force", "unknown"}
        /\ Known(facts.initiator, base.initiator) \in {"local", "remote", "unknown"}
        /\ (IF base.first = "none" THEN facts.first ELSE base.first)
             \in {"none", "coop", "ours", "theirs"}
        /\ (IF facts.expected >= 0 THEN facts.expected ELSE base.expected) \in {-1, 0, 1}
        /\ (IF facts.claimable > 0 THEN facts.claimable ELSE base.claimable) \in Int
        /\ m.done \in {"no", "unverified", "verified"}
    BY <1>3 DEF RecordType, Known
  <2> QED BY <1>2, <1>4, <2>1, <2>2 DEF RecordType
<1> QED
  BY <1>1, <1>2, <1>3, <1>4

LEMMA MergeTrue ==
  ASSUME NEW base, NEW facts, Truthful(base), Truthful(facts), facts.done = "no"
  PROVE  Truthful(Merge(base, facts)) /\ Merge(base, facts).done = base.done
<1>1. MergeTxs(base.txs, facts.txs) \in [TxIds -> Int]
      /\ TrueHeights(MergeTxs(base.txs, facts.txs))
  BY MergeTxsTrue DEF Truthful, RecordType
<1> QED
  BY <1>1, MergeIs DEF Truthful

\* A record of one transaction, and one with the fields of a first record.
LEMMA WithTxTrue ==
  ASSUME NEW id \in TxIds, NEW at \in Int, at \in {0, At(id)}
  PROVE  /\ Truthful(WithTx(id, at)) /\ WithTx(id, at).done = "no"
         /\ Truthful([WithTx(id, at) EXCEPT !.type = "force"])
         /\ [WithTx(id, at) EXCEPT !.type = "force"].done = "no"
<1> DEFINE first == IF id = "sweep" THEN "none" ELSE id
<1>1. first \in {"none", "coop", "ours", "theirs"}
  BY DEF TxIds
<1>2. [NoRecord.txs EXCEPT ![id] = at] \in [TxIds -> Int]
      /\ TrueHeights([NoRecord.txs EXCEPT ![id] = at])
  BY DEF NoRecord, TrueHeights
<1> HIDE DEF first
<1>3. PICK w : w = WithTx(id, at)
  OBVIOUS
<1>4. w = [exists |-> FALSE, funding |-> FALSE, type |-> "unknown", initiator |-> "unknown",
           txs |-> [NoRecord.txs EXCEPT ![id] = at], first |-> first, expected |-> -1,
           timelock |-> FALSE, claimable |-> 0, done |-> "no"]
  BY <1>3 DEF WithTx, NoRecord, first
<1>5. w \in RecordType
  BY <1>1, <1>2, <1>4 DEF RecordType
<1>6. [w EXCEPT !.type = "force"] \in RecordType
  BY <1>5 DEF RecordType
<1>7. /\ w.txs = [NoRecord.txs EXCEPT ![id] = at] /\ w.expected = -1 /\ w.done = "no"
      /\ [w EXCEPT !.type = "force"].txs = [NoRecord.txs EXCEPT ![id] = at]
      /\ [w EXCEPT !.type = "force"].expected = -1
      /\ [w EXCEPT !.type = "force"].done = "no"
  BY <1>4
<1>8. Truthful(w) /\ Truthful([w EXCEPT !.type = "force"])
  BY <1>2, <1>5, <1>6, <1>7 DEF Truthful
<1> QED
  BY <1>3, <1>7, <1>8

\* What a pass learns is true.
LEMMA FactsTrue ==
  ASSUME CloseInv, NEW r \in RecordType, NEW asked
  PROVE  Truthful(Facts(r, asked)) /\ Facts(r, asked).done = "no"
<1> DEFINE a == IF "funding" \in asked THEN Discovered(r) ELSE NoRecord
           c == [id \in TxIds |->
                  IF closePass.newTip /\ id \in asked /\ r.txs[id] = 0 /\ TxStatus(id) > 0
                  THEN TxStatus(id) ELSE -1]
           found == MergeTxs(a.txs, c)
<1>1. Truthful(a) /\ a.done = "no"
  <2>1. CASE a = NoRecord
    BY <2>1, NoRecordTrue DEF Truthful
  <2>2. CASE spentBy # "none" /\ a = WithTx(spentBy, spentAt)
    <3>1. spentBy \in TxIds /\ spentAt \in Int /\ spentAt = At(spentBy)
      BY <2>2 DEF CloseInv, CloseChain, TxIds, At
    <3> QED
      BY <2>2, <3>1, WithTxTrue
  <2> QED
    BY <2>1, <2>2 DEF Discovered
<1>2. c \in [TxIds -> Int] /\ TrueHeights(c)
  BY DEF CloseInv, CloseChain, TxStatus, TrueHeights, At, TxIds
<1>3. found \in [TxIds -> Int] /\ TrueHeights(found)
  BY <1>1, <1>2, MergeTxsTrue DEF Truthful, RecordType
<1>4. Confirmed(r, asked).txs = c
  BY NoRecordTrue DEF Confirmed, RecordType
<1>5. Claimable(r, found) \in Int
  <2> DEFINE at == {MergeTxs(r.txs, found)[id] : id \in Closes} \ {-1, 0}
  <2>1. MergeTxs(r.txs, found) \in [TxIds -> Int]
    BY <1>3 DEF MergeTxs, RecordType
  <2>2. at \subseteq Int
    BY <2>1 DEF Closes
  <2>3. at # {} => (CHOOSE h \in at : TRUE) \in Int
    BY <2>2
  <2>4. Timelock \in Int
    BY CloseRecordsAssumption
  <2> HIDE DEF at
  <2>5. at # {} => (CHOOSE h \in at : TRUE) + Timelock \in Int
    BY <2>3, <2>4
  <2> QED
    BY <2>5 DEF Claimable, at
<1>6. Facts(r, asked) = [a EXCEPT !.txs = found, !.claimable = Claimable(r, found)]
  BY <1>4 DEF Facts
<1> HIDE DEF a, c, found
<1>7. Facts(r, asked).txs = found /\ Facts(r, asked).expected = a.expected
      /\ Facts(r, asked).done = "no" /\ Facts(r, asked) \in RecordType
  BY <1>1, <1>3, <1>5, <1>6 DEF Truthful, RecordType
<1> QED
  BY <1>1, <1>3, <1>7 DEF Truthful

\* Heights are set once, and what is final stays final.
LEMMA TruthStays ==
  ASSUME CloseInv, CloseChain', UNCHANGED amount, height' >= height,
         spentBy # "none" => UNCHANGED spentBy,
         spentAt > 0 => UNCHANGED spentAt, sweptAt > 0 => UNCHANGED sweptAt
  PROVE  /\ \A r : Truthful(r) => Truthful(r)'
         /\ closePass' = closePass => PassTrue'
         /\ record.done = "verified" /\ record'.done = "verified" => VerifiedMeansReceived'
<1>1. \A id \in TxIds : At(id) = 0 \/ At(id)' = At(id)
  BY DEF CloseInv, CloseChain, At, TxIds
<1>2. \A txs : TrueHeights(txs) => TrueHeights(txs)'
  BY <1>1 DEF TrueHeights
<1>3. \A r : Truthful(r) => Truthful(r)'
  BY <1>2 DEF Truthful
<1>4. closePass' = closePass => PassTrue'
  BY DEF CloseInv, CloseChain, PassTrue
<1>5. /\ Final(spentAt) => Final(spentAt)' /\ (spentBy = "coop" => spentBy' = "coop")
      /\ Final(sweptAt) => Final(sweptAt)'
  <2>1. /\ height \in Int /\ height' \in Int /\ FinalityConfs \in Int
        /\ spentAt \in Nat /\ sweptAt \in Nat
    BY CloseRecordsAssumption DEF CloseInv, CloseChain
  <2>2. spentBy = "coop" => spentBy' = "coop"
    OBVIOUS
  <2>3. (Final(spentAt) => Final(spentAt)') /\ (Final(sweptAt) => Final(sweptAt)')
    BY <2>1 DEF Final
  <2> QED
    BY <2>2, <2>3
<1> QED
  BY <1>3, <1>4, <1>5 DEF CloseInv, VerifiedMeansReceived

\* The record the close event makes.
FirstFacts(type, initiator, funding, timelock, expected) ==
  [NoRecord EXCEPT !.type = type, !.funding = funding, !.initiator = initiator,
                   !.timelock = timelock, !.expected = expected]

Undecided(r) == Truthful(r) /\ r.done = "no"

LEMMA FirstRecordTrue ==
  ASSUME amount \in {0, 1},
         NEW type \in {"coop", "force", "unknown"},
         NEW initiator \in {"local", "remote", "unknown"},
         NEW funding \in {TRUE, FALSE}, NEW timelock \in {TRUE, FALSE},
         NEW expected, expected = -1 \/ expected = amount,
         NEW f, f = FirstFacts(type, initiator, funding, timelock, expected)
  PROVE  Undecided(f)
<1>1. PICK txs : txs = NoRecord.txs
  OBVIOUS
<1>2. txs \in [TxIds -> Int] /\ TrueHeights(txs)
  BY <1>1, NoRecordTrue DEF RecordType
<1>3. f = [exists |-> FALSE, funding |-> funding, type |-> type, initiator |-> initiator,
           txs |-> txs, first |-> "none", expected |-> expected,
           timelock |-> timelock, claimable |-> 0, done |-> "no"]
  BY <1>1 DEF NoRecord, FirstFacts
<1>4. f \in RecordType
  <2>1. expected \in {-1, 0, 1}
    OBVIOUS
  <2>2. [exists |-> FALSE, funding |-> funding, type |-> type, initiator |-> initiator,
         txs |-> txs, first |-> "none", expected |-> expected,
         timelock |-> timelock, claimable |-> 0, done |-> "no"] \in RecordType
    <3>1. /\ "none" \in {"none", "coop", "ours", "theirs"} /\ 0 \in Int
          /\ "no" \in {"no", "unverified", "verified"} /\ FALSE \in {TRUE, FALSE}
      OBVIOUS
    <3> QED
      BY <1>2, <2>1, <3>1, Zenon DEF RecordType
  <2> QED
    BY <1>3, <2>2
<1>5. f.txs = txs /\ f.expected = expected /\ f.done = "no"
  <2>1. PICK g : g = f
    OBVIOUS
  <2>2. g = [exists |-> FALSE, funding |-> funding, type |-> type, initiator |-> initiator,
             txs |-> txs, first |-> "none", expected |-> expected,
             timelock |-> timelock, claimable |-> 0, done |-> "no"]
    BY <1>3, <2>1
  <2>3. g.txs = txs /\ g.expected = expected /\ g.done = "no"
    BY ONLY <2>2
  <2> QED
    BY <2>1, <2>3
<1> QED
  BY <1>2, <1>4, <1>5 DEF Undecided, Truthful

LEMMA ChannelClosedTrue ==
  ASSUME CloseInv, ChannelClosed
  PROVE  CloseInv'
<1>1. UNCHANGED <<height, amount, spentBy, spentAt, output, sweptAt, closePass>>
  BY DEF ChannelClosed
<1>2. CloseChain'
  BY <1>1 DEF CloseInv, CloseChain
<1>3. Truthful(record) /\ VerifiedMeansReceived
  BY DEF CloseInv
<1>4. CASE UNCHANGED record
  BY <1>1, <1>2, <1>3, <1>4, TruthStays DEF CloseInv, CloseChain, VerifiedMeansReceived
<1>5. CASE \E funding, timelock, balance \in BOOLEAN :
             record' = Merge(NoRecord,
                         [NoRecord EXCEPT !.type = TypeOf(reason'), !.funding = funding,
                            !.initiator = InitiatorOf(reason'), !.timelock = timelock,
                            !.expected = IF balance THEN amount ELSE -1])
  <2>1. PICK funding, timelock, balance \in BOOLEAN :
          record' = Merge(NoRecord,
                      [NoRecord EXCEPT !.type = TypeOf(reason'), !.funding = funding,
                         !.initiator = InitiatorOf(reason'), !.timelock = timelock,
                         !.expected = IF balance THEN amount ELSE -1])
    BY <1>5
  <2>2. /\ TypeOf(reason') \in {"coop", "force", "unknown"}
        /\ InitiatorOf(reason') \in {"local", "remote", "unknown"}
    BY DEF TypeOf, InitiatorOf
  <2>3. funding \in {TRUE, FALSE} /\ timelock \in {TRUE, FALSE}
    BY Zenon
  <2>4. (IF balance THEN amount ELSE -1) \in {-1, amount} /\ amount \in {0, 1}
    BY DEF CloseInv, CloseChain
  <2>5. PICK f : f = [NoRecord EXCEPT !.type = TypeOf(reason'), !.funding = funding,
                         !.initiator = InitiatorOf(reason'), !.timelock = timelock,
                         !.expected = IF balance THEN amount ELSE -1]
    OBVIOUS
  <2>6. Undecided(f)
    <3> DEFINE owed == IF balance THEN amount ELSE -1
    <3>1. owed = -1 \/ owed = amount
      BY <2>4
    <3>2. PICK type \in {"coop", "force", "unknown"},
               initiator \in {"local", "remote", "unknown"} :
            type = TypeOf(reason') /\ initiator = InitiatorOf(reason')
      BY <2>2
    <3> HIDE DEF owed
    <3>3. PICK hasFunding \in {TRUE, FALSE}, locked \in {TRUE, FALSE} :
            hasFunding = funding /\ locked = timelock
      BY <2>3
    <3>4. f = FirstFacts(type, initiator, hasFunding, locked, owed)
      BY <2>5, <3>2, <3>3 DEF owed, FirstFacts
    <3> QED
      BY <2>4, <3>1, <3>4, FirstRecordTrue
  <2>7. record' = Merge(NoRecord, f)
    BY <2>1, <2>5
  <2>8. Truthful(NoRecord) /\ NoRecord.done = "no"
    BY NoRecordTrue DEF Truthful
  <2>9. Truthful(record') /\ record'.done = "no"
    BY <2>6, <2>7, <2>8, MergeTrue DEF Undecided
  <2> QED
    BY <1>1, <1>2, <2>9, TruthStays DEF CloseInv, CloseChain, VerifiedMeansReceived
<1> QED
  BY <1>4, <1>5 DEF ChannelClosed

LEMMA SignalTrue ==
  ASSUME CloseInv, CommitmentBroadcast \/ SweepBroadcast
  PROVE  CloseInv'
<1>1. UNCHANGED <<height, amount, spentBy, spentAt, sweptAt, closePass>>
  BY DEF CommitmentBroadcast, SweepBroadcast
<1>2. output' \in {output, "swept"}
  BY DEF CommitmentBroadcast, SweepBroadcast
<1>3. CloseChain'
  BY <1>1, <1>2 DEF CloseInv, CloseChain
<1>4. Truthful(record') /\ record'.done = record.done
  <2>1. 0 \in {0, At("ours")} /\ 0 \in {0, At("sweep")} /\ "ours" \in TxIds /\ "sweep" \in TxIds
    BY DEF TxIds
  <2>2. Truthful(record)
    BY DEF CloseInv
  <2>3. /\ Truthful(WithTx("sweep", 0)) /\ WithTx("sweep", 0).done = "no"
        /\ Truthful([WithTx("ours", 0) EXCEPT !.type = "force"])
        /\ [WithTx("ours", 0) EXCEPT !.type = "force"].done = "no"
    <3> DEFINE none == 0
    <3>1. none \in Int /\ none \in {0, At("ours")} /\ none \in {0, At("sweep")}
      OBVIOUS
    <3>2. none = 0
      OBVIOUS
    <3> HIDE DEF none
    <3>3. /\ Truthful(WithTx("sweep", none)) /\ WithTx("sweep", none).done = "no"
      BY <2>1, <3>1, WithTxTrue
    <3>4. /\ Truthful([WithTx("ours", none) EXCEPT !.type = "force"])
          /\ [WithTx("ours", none) EXCEPT !.type = "force"].done = "no"
      BY <2>1, <3>1, WithTxTrue
    <3> QED
      BY <3>2, <3>3, <3>4
  <2>4. PICK f, g : f = WithTx("sweep", 0) /\ g = [WithTx("ours", 0) EXCEPT !.type = "force"]
    OBVIOUS
  <2>5. /\ Truthful(Merge(record, f)) /\ Merge(record, f).done = record.done
        /\ Truthful(Merge(record, g)) /\ Merge(record, g).done = record.done
    BY <2>2, <2>3, <2>4, MergeTrue
  <2>6. record' \in {record, Merge(record, f), Merge(record, g)}
    BY <2>4 DEF CommitmentBroadcast, SweepBroadcast
  <2> QED
    BY <2>2, <2>5, <2>6
<1> QED
  BY <1>1, <1>3, <1>4, TruthStays DEF CloseInv, CloseChain, VerifiedMeansReceived

LEMMA ChainTrue ==
  ASSUME CloseInv, FundingSpent \/ NewBlock \/ OutputMatures
  PROVE  CloseInv'
<1>1. UNCHANGED <<amount, record, closePass>>
  BY DEF FundingSpent, NewBlock, OutputMatures
<1>2. /\ CloseChain' /\ height' >= height /\ (spentBy # "none" => UNCHANGED spentBy)
      /\ (spentAt > 0 => UNCHANGED spentAt) /\ (sweptAt > 0 => UNCHANGED sweptAt)
  <2>1. CASE FundingSpent
    BY <2>1 DEF FundingSpent, CloseInv, CloseChain, Spenders
  <2>2. CASE NewBlock
    BY <2>2 DEF NewBlock, CloseInv, CloseChain
  <2>3. CASE OutputMatures
    BY <2>3 DEF OutputMatures, CloseInv, CloseChain
  <2> QED
    BY <2>1, <2>2, <2>3
<1> QED
  BY <1>1, <1>2, TruthStays DEF CloseInv, VerifiedMeansReceived

LEMMA StartPassTrue ==
  ASSUME CloseInv, NEW newTip, StartPass(newTip)
  PROVE  CloseInv'
<1>1. UNCHANGED <<height, amount, spentBy, spentAt, output, sweptAt>>
  BY DEF StartPass
<1>2. CloseChain'
  BY <1>1 DEF CloseInv, CloseChain
<1>3. Truthful(record) /\ record.done = "no"
  BY DEF CloseInv, StartPass
<1>4. PICK f : f = [NoRecord EXCEPT !.funding = TRUE, !.timelock = TRUE]
  OBVIOUS
<1>5. f \in RecordType /\ f.txs = NoRecord.txs /\ f.expected = -1 /\ f.done = "no"
  BY <1>4, NoRecordTrue DEF RecordType
<1>6. Truthful(f) /\ f.done = "no"
  BY <1>5, NoRecordTrue DEF Truthful
<1>7. Truthful(record') /\ record'.done = "no"
  BY <1>3, <1>4, <1>6, MergeTrue DEF StartPass
<1>8. closePass'.seen = record' /\ closePass'.tip = height
  BY DEF StartPass
<1>9. PassTrue'
  BY <1>1, <1>7, <1>8 DEF PassTrue, CloseInv, CloseChain, Truthful
<1> QED
  BY <1>1, <1>2, <1>7, <1>9, TruthStays DEF CloseInv, CloseChain, VerifiedMeansReceived

\* The pass completes a record on evidence the chain gives.
LEMMA CompletionIsReceipt ==
  ASSUME CloseInv, closePass.pc = "query", NEW r, Truthful(r), NEW walletSynced,
         Completion(r, walletSynced) = "verified"
  PROVE  \/ amount = 0 /\ Final(spentAt)
         \/ spentBy = "coop" /\ Final(spentAt)
         \/ Final(sweptAt)
<1>1. closePass.tip \in Int /\ height \in Int /\ closePass.tip <= height
  BY DEF CloseInv, CloseChain, PassTrue
<1>2. ASSUME NEW id \in TxIds, Deep(r.txs[id])
      PROVE  r.txs[id] = At(id) /\ Final(At(id))
  <2>1. r.txs[id] = At(id) /\ r.txs[id] \in Int
    BY <1>2 DEF Deep, Truthful, TrueHeights, RecordType
  <2> QED
    BY <1>1, <1>2, <2>1, CloseRecordsAssumption DEF Deep, Final
<1>3. CASE Receipt(r)
  <2>1. PICK id \in TxIds : Deep(r.txs[id]) /\ WalletReceived(id)
    BY <1>3 DEF Receipt
  <2>2. Final(At(id))
    BY <1>2, <2>1
  <2> QED
    BY <2>1, <2>2 DEF WalletReceived, At
<1>4. CASE CloseFinal(r) /\ r.expected = 0
  <2>1. r.first \in {"coop", "ours", "theirs"} /\ amount = 0
    BY <1>4 DEF CloseFinal, Truthful, RecordType, CloseInv, CloseChain
  <2>2. r.txs[r.first] = At(r.first) /\ r.txs[r.first] > 0 /\ Final(At(r.first))
    BY <1>2, <1>4, <2>1 DEF CloseFinal, TxIds, Deep
  <2>3. At(r.first) = spentAt
    BY <2>1, <2>2 DEF At
  <2> QED
    BY <2>1, <2>2, <2>3
<1>5. Receipt(r) \/ (CloseFinal(r) /\ r.expected = 0)
  BY DEF Completion
<1> QED
  BY <1>3, <1>4, <1>5

LEMMA EndPassTrue ==
  ASSUME CloseInv, EndPass
  PROVE  CloseInv'
<1>1. /\ UNCHANGED <<height, amount, spentBy, spentAt, output, sweptAt>>
      /\ closePass.pc = "query" /\ closePass' = NoPass
  BY DEF EndPass, PassFails, FinishPass
<1>2. CloseChain' /\ PassTrue' /\ closePass.seen \in RecordType /\ Truthful(record)
  BY <1>1 DEF CloseInv, CloseChain, PassTrue, NoPass
<1>3. CASE UNCHANGED record
  BY <1>1, <1>2, <1>3, TruthStays DEF CloseInv, CloseChain, VerifiedMeansReceived
<1>4. ASSUME NEW asked, FinishPass(asked)
      PROVE  CloseInv'
  <2>1. PICK facts, now, walletSynced :
          /\ facts = Facts(closePass.seen, asked) /\ now = Merge(record, facts)
          /\ record' = [now EXCEPT !.done = Completion(now, walletSynced)]
    BY <1>4 DEF FinishPass
  <2>2. Truthful(facts) /\ facts.done = "no"
    BY <1>2, <2>1, FactsTrue
  <2>3. Truthful(now)
    BY <1>2, <2>1, <2>2, MergeTrue
  <2>4. Completion(now, walletSynced) \in {"no", "unverified", "verified"}
    BY DEF Completion
  <2> DEFINE done == Completion(now, walletSynced)
  <2>5. /\ record'.done = done /\ record'.txs = now.txs /\ record'.expected = now.expected
        /\ record' \in RecordType
    <3> HIDE DEF done
    <3> QED
      BY <2>1, <2>3, <2>4 DEF Truthful, RecordType, done
  <2>6. Truthful(record')
    BY <2>3, <2>5 DEF Truthful
  <2>7. VerifiedMeansReceived'
    <3>1. done = "verified" => \/ amount = 0 /\ Final(spentAt)
                               \/ spentBy = "coop" /\ Final(spentAt)
                               \/ Final(sweptAt)
      BY <1>1, <2>3, CompletionIsReceipt
    <3>2. /\ (Final(spentAt) => Final(spentAt)') /\ (Final(sweptAt) => Final(sweptAt)')
      BY <1>1 DEF Final
    <3> HIDE DEF done
    <3> QED
      BY <1>1, <2>5, <3>1, <3>2 DEF VerifiedMeansReceived
  <2> QED
    BY <1>1, <1>2, <2>6, <2>7, TruthStays DEF CloseInv, CloseChain
<1> QED
  BY <1>3, <1>4 DEF EndPass, PassFails

(* A record says "verified" only once its money is finally back: its        *)
(* receipt is deep in the wallet, or nothing was owed and the close itself  *)
(* is final, whatever signals, snapshots and answers of the chain come      *)
(* together, for every reason, finality depth and timelock.                 *)
(* (reconcile.ts, close-record.ts)                                          *)
THEOREM VerifiedIsReceived == CloseSpec => []VerifiedMeansReceived
<1>1. CloseInit => CloseInv
  BY NoRecordTrue
  DEF CloseInit, CloseInv, CloseChain, Truthful, PassTrue, VerifiedMeansReceived, NoPass
<1>2. CloseInv /\ [CloseNext]_closeVars => CloseInv'
  <2> SUFFICES ASSUME CloseInv, [CloseNext]_closeVars
               PROVE  CloseInv'
    OBVIOUS
  <2>1. CASE ChannelClosed
    BY <2>1, ChannelClosedTrue
  <2>2. CASE CommitmentBroadcast \/ SweepBroadcast
    BY <2>2, SignalTrue
  <2>3. CASE FundingSpent \/ NewBlock \/ OutputMatures
    BY <2>3, ChainTrue
  <2>4. CASE \E newTip \in BOOLEAN : StartPass(newTip)
    BY <2>4, StartPassTrue
  <2>5. CASE EndPass
    BY <2>5, EndPassTrue
  <2>6. CASE UNCHANGED closeVars
    BY <2>6 DEF closeVars, CloseInv, CloseChain, Truthful, TrueHeights, At, PassTrue,
                VerifiedMeansReceived, Final
  <2> QED
    BY <2>1, <2>2, <2>3, <2>4, <2>5, <2>6 DEF CloseNext
<1>3. CloseInv => VerifiedMeansReceived
  BY DEF CloseInv
<1> QED
  BY <1>1, <1>2, <1>3, PTL DEF CloseSpec
==============================================================================
