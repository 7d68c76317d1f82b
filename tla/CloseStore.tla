------------------------------ MODULE CloseStore ------------------------------
(***************************************************************************)
(* How close records are stored (ldk/close-records/store.ts): one map in   *)
(* memory, in IndexedDB and on VSS, a chain of serialized writes, a merge  *)
(* on every VSS conflict, and the funding-outpoint safety net from which a *)
(* record lost in a crash is made again.                                   *)
(*                                                                         *)
(* One channel's record is the set of facts it holds: "closed" makes it    *)
(* exist, "onchain" stands for what reconciliation learns, "foreign" for   *)
(* what another device stored.  The field-wise merge is their union.       *)
(***************************************************************************)
EXTENDS Integers, Sequences

CONSTANT StoreFaults     \* crashes, failed reads and writes, lost answers
ASSUME CloseStoreAssumption == StoreFaults \in Nat

VARIABLES
  channel,               \* "none", "open", "closed" or "unfunded"
  recMem, recIdb, recVss, \* the record's facts
  vssVersion, knownVersion, \* of the VSS object, and vssVersionRef
  netMem, netIdb,        \* the safety net holds the channel
  writeChain,            \* mutations waiting behind the current one
  job,                   \* the mutation under way
  storeFaults,
  remembered, idbFailed  \* history: something was durable; an IDB call failed

storeVars == <<channel, recMem, recIdb, recVss, vssVersion, knownVersion, netMem, netIdb,
               writeChain, job, storeFaults, remembered, idbFailed>>

NoJob == [pc |-> "none", data |-> {}]
StoreFault == storeFaults < StoreFaults /\ storeFaults' = storeFaults + 1
Enqueue(jobs) == writeChain' = writeChain \o jobs

StoreInit ==
  /\ channel = "none" /\ recMem = {} /\ recIdb = {} /\ recVss = {}
  /\ vssVersion = 0 /\ knownVersion = 0 /\ netMem = FALSE /\ netIdb = FALSE
  /\ writeChain = <<>> /\ job = NoJob /\ storeFaults = 0
  /\ remembered = FALSE /\ idbFailed = FALSE

-----------------------------------------------------------------------------
(* ChannelPending: the safety net is queued *)
RecordFundingTxo ==
  /\ channel = "none" /\ channel' = "open" /\ Enqueue(<<"net">>)
  /\ UNCHANGED <<recMem, recIdb, recVss, vssVersion, knownVersion, netMem, netIdb, job,
                 storeFaults, remembered, idbFailed>>

(* A new record: memory at once, its write before the safety net goes *)
AfterCloseSwapped == <<"drop", "persist">>
AfterClose == <<"persist", "drop">>

NewRecord == recMem' = recMem \cup {"closed"} /\ Enqueue(AfterClose)

(* ChannelClosed: without an on-chain transaction there is no record *)
HandleChannelClosed ==
  /\ channel = "open"
  /\ \/ channel' = "closed" /\ NewRecord
     \/ /\ channel' = "unfunded" /\ UNCHANGED recMem /\ Enqueue(<<"drop">>)
  /\ UNCHANGED <<recIdb, recVss, vssVersion, knownVersion, netMem, netIdb, job, storeFaults,
                 remembered, idbFailed>>

(* Reconciliation: a closed channel without a record gets one, one with a   *)
(* record leaves the safety net, and a record learns from the chain         *)
ReconcileStore ==
  /\ channel = "closed" /\ Len(writeChain) < 2
  /\ \/ netMem /\ "closed" \notin recMem /\ NewRecord
     \/ netMem /\ "closed" \in recMem /\ Enqueue(<<"drop">>) /\ UNCHANGED recMem
     \/ /\ "closed" \in recMem /\ "onchain" \notin recMem
        /\ recMem' = recMem \cup {"onchain"} /\ Enqueue(<<"persist">>)
  /\ UNCHANGED <<channel, recIdb, recVss, vssVersion, knownVersion, netMem, netIdb, job,
                 storeFaults, remembered, idbFailed>>

-----------------------------------------------------------------------------
(* enqueue: one mutation at a time; a failed one is logged, the next runs   *)
Finish == job' = NoJob
StartJob ==
  /\ job.pc = "none" /\ writeChain # <<>>
  /\ writeChain' = Tail(writeChain)
  /\ \/ Head(writeChain) = "net" /\ netMem' = TRUE /\ job' = [NoJob EXCEPT !.pc = "netPut"]
     \/ /\ Head(writeChain) = "drop" /\ netMem' = FALSE
        /\ job' = IF netMem THEN [NoJob EXCEPT !.pc = "netPut"] ELSE NoJob
     \/ /\ Head(writeChain) = "persist" /\ UNCHANGED netMem
        /\ job' = [pc |-> "idbPut", data |-> recMem]
  /\ UNCHANGED <<channel, recMem, recIdb, recVss, vssVersion, knownVersion, netIdb,
                 storeFaults, remembered, idbFailed>>

NetWritten ==
  /\ job.pc = "netPut" /\ Finish
  /\ \/ netIdb' = netMem /\ remembered' = (remembered \/ netMem)
        /\ UNCHANGED <<storeFaults, idbFailed>>
     \/ StoreFault /\ idbFailed' = TRUE /\ UNCHANGED <<netIdb, remembered>>
  /\ UNCHANGED <<channel, recMem, recIdb, recVss, vssVersion, knownVersion, netMem, writeChain>>

(* persistLocked: IndexedDB, then VSS under the known version *)
RecordWritten ==
  /\ job.pc \in {"idbPut", "idbPutMerged"}
  /\ \/ /\ recIdb' = (IF job.pc = "idbPut" THEN job.data ELSE recMem)
        /\ job' = (IF job.pc = "idbPut" THEN [job EXCEPT !.pc = "put"] ELSE NoJob)
        /\ remembered' = TRUE /\ UNCHANGED <<storeFaults, idbFailed>>
     \/ StoreFault /\ idbFailed' = TRUE /\ Finish /\ UNCHANGED <<recIdb, remembered>>
  /\ UNCHANGED <<channel, recMem, recVss, vssVersion, knownVersion, netMem, netIdb, writeChain>>

(* putObject: stored, stored with its answer lost, refused, or not sent *)
PutRecord ==
  /\ job.pc \in {"put", "putMerged"}
  /\ \/ /\ knownVersion = vssVersion
        /\ recVss' = job.data /\ vssVersion' = vssVersion + 1
        /\ \/ /\ knownVersion' = vssVersion' /\ UNCHANGED storeFaults
              /\ job' = (IF job.pc = "put" THEN NoJob ELSE [job EXCEPT !.pc = "idbPutMerged"])
           \/ StoreFault /\ Finish /\ UNCHANGED knownVersion
     \/ /\ knownVersion # vssVersion
        /\ UNCHANGED <<recVss, vssVersion, knownVersion, storeFaults>>
        /\ job' = (IF job.pc = "put" THEN [job EXCEPT !.pc = "fetch"] ELSE NoJob)
     \/ StoreFault /\ Finish /\ UNCHANGED <<recVss, vssVersion, knownVersion>>
  /\ UNCHANGED <<channel, recMem, recIdb, netMem, netIdb, writeChain, remembered, idbFailed>>

(* The conflict: another device wrote first, its facts are merged in *)
MergeRemote == recMem \cup recVss

FetchRemote ==
  /\ job.pc = "fetch"
  /\ \/ /\ knownVersion' = vssVersion /\ recMem' = MergeRemote
        /\ job' = [pc |-> "putMerged", data |-> recMem'] /\ UNCHANGED storeFaults
     \/ StoreFault /\ Finish /\ UNCHANGED <<knownVersion, recMem>>
  /\ UNCHANGED <<channel, recIdb, recVss, vssVersion, netMem, netIdb, writeChain, remembered,
                 idbFailed>>

-----------------------------------------------------------------------------
(* Another device of the wallet stores its facts *)
ForeignWrite ==
  /\ "foreign" \notin recVss \cup recMem
  /\ recVss' = recVss \cup {"foreign"} /\ vssVersion' = vssVersion + 1
  /\ UNCHANGED <<channel, recMem, recIdb, knownVersion, netMem, netIdb, writeChain, job,
                 storeFaults, remembered, idbFailed>>

(* A crash and initCloseRecords: IndexedDB, then what VSS adds.  A failed   *)
(* read leaves that part empty.                                             *)
RestartStore ==
  /\ StoreFault /\ writeChain' = <<>> /\ job' = NoJob
  /\ \E idbReads, vssReads \in BOOLEAN :
       LET local == IF idbReads THEN recIdb ELSE {}
       IN /\ netMem' = (idbReads /\ netIdb)
          /\ recMem' = (IF vssReads THEN local \cup recVss ELSE local)
          /\ knownVersion' = (IF vssReads THEN vssVersion ELSE 0)
          /\ recIdb' = (IF vssReads /\ recMem' # local THEN recMem' ELSE recIdb)
          /\ idbFailed' = (idbFailed \/ ~idbReads)
  /\ UNCHANGED <<channel, recVss, vssVersion, netIdb, remembered>>

StoreNext ==
  \/ RecordFundingTxo \/ HandleChannelClosed \/ ReconcileStore \/ StartJob \/ NetWritten
  \/ RecordWritten \/ PutRecord \/ FetchRemote \/ ForeignWrite \/ RestartStore

StoreSpec == StoreInit /\ [][StoreNext]_storeVars

-----------------------------------------------------------------------------
StoreTypeOK ==
  /\ channel \in {"none", "open", "closed", "unfunded"} /\ knownVersion \in 0..vssVersion
  /\ {netMem, netIdb, remembered, idbFailed} \subseteq BOOLEAN

(* From the first durable write on, a close is never forgotten: the record  *)
(* or the safety net is in durable storage at every moment, so a crash at   *)
(* any point of the hand-over leaves one of them.                           *)
CloseNotForgotten ==
  (channel = "closed" /\ remembered /\ ~idbFailed)
     => "closed" \in recIdb \cup recVss \/ netIdb
=============================================================================
