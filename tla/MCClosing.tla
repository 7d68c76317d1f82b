------------------------------- MODULE MCClosing -------------------------------
(***************************************************************************)
(* What follows a block and a closed channel, checked in one run: the      *)
(* chain synchronisation, the life of a close record and its store, the    *)
(* deposit ask of a stuck force close, and the sweep of what comes back.   *)
(* They share no state that is modelled in two of them, so a behaviour is  *)
(* one of the part in focus, and the others rest: the run explores the sum *)
(* of their state spaces, not the product.                                 *)
(***************************************************************************)
EXTENDS ChainSync, CloseRecords, CloseStore, ForceCloseRecovery, Sweep

VARIABLE focus

On(part) == focus = part
Rests(part, state) == focus # part => state

ClosingInit ==
  /\ focus \in {"chain", "close", "store", "recovery", "sweep"}
  /\ ChainInit
  /\ CloseInit /\ Rests("close", amount = 0)
  /\ StoreInit
  /\ RecoveryInit /\ Rests("recovery", ~scanned)
  /\ SweepInit /\ Rests("sweep", owned = {})

Others(part) ==
  /\ On(part) /\ UNCHANGED focus
  /\ part # "chain" => UNCHANGED chainVars
  /\ part # "close" => UNCHANGED closeVars
  /\ part # "store" => UNCHANGED storeVars
  /\ part # "recovery" => UNCHANGED recoveryVars
  /\ part # "sweep" => UNCHANGED sweepVars

ClosingNext ==
  \/ Others("chain") /\ ChainNext
  \/ Others("close") /\ CloseNext
  \/ Others("store") /\ StoreNext
  \/ Others("recovery") /\ RecoveryNext
  \/ Others("sweep") /\ SweepNext

closingVars == <<focus, chainVars, closeVars, storeVars, recoveryVars, sweepVars>>

(* Blocks keep coming and the loop never stops *)
ChainFairness ==
  /\ WF_chainVars(On("chain") /\ MineBlock)
  /\ WF_chainVars(On("chain") /\ StartSync)
  /\ WF_chainVars(On("chain") /\ CheckReorg)
  /\ WF_chainVars(On("chain") /\ CheckTxs)
  /\ WF_chainVars(On("chain") /\ CheckOutputs)
  /\ WF_chainVars(On("chain") /\ PruneWatched)

(* Blocks and passes go on, and Esplora answers again and again *)
CloseFairness ==
  /\ WF_closeVars(On("close") /\ FundingSpent)
  /\ WF_closeVars(On("close") /\ NewBlock)
  /\ WF_closeVars(On("close") /\ OutputMatures)
  /\ WF_closeVars(On("close") /\ SweepBroadcast)
  /\ WF_closeVars(On("close") /\ EndPass)
  /\ SF_closeVars(On("close") /\ StartPass(TRUE))
  /\ SF_closeVars(On("close") /\ closePass.newTip /\ FinishPass(Queries))

(* Blocks and ticks go on, the scan lands, the user reads the banner *)
RecoveryFairness ==
  /\ WF_recoveryVars(On("recovery") /\ ScanLands)
  /\ WF_recoveryVars(On("recovery") /\ ExitRecovery)
  /\ WF_recoveryVars(On("recovery") /\ AutoRecover)
  /\ SF_recoveryVars(On("recovery") /\ ReadForExit)
  /\ WF_recoveryVars(On("recovery") /\ Dismiss)
  /\ \A c \in StuckChannels :
       /\ WF_recoveryVars(On("recovery") /\ EnterRecovery(c))
       /\ WF_recoveryVars(On("recovery") /\ WriteRecovery(c))

(* Under fairness the retries of the timers go on: an economical sweep      *)
(* succeeds in the end                                                      *)
SweepFairness ==
  /\ WF_sweepVars(On("sweep") /\ HandleSpendableOutputs)
  /\ WF_sweepVars(On("sweep") /\ EntryWritten)
  /\ WF_sweepVars(On("sweep") /\ StartSweep)
  /\ WF_sweepVars(On("sweep") /\ BuildSweep)
  /\ WF_sweepVars(On("sweep") /\ PostSweep)
  /\ WF_sweepVars(On("sweep") /\ DeleteSwept)
  /\ WF_sweepVars(On("sweep") /\ ConfirmSweep)

ClosingSpec ==
  /\ ClosingInit /\ [][ClosingNext]_closingVars
  /\ ChainFairness /\ CloseFairness /\ RecoveryFairness /\ SweepFairness
==============================================================================
