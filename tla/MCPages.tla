------------------------------- MODULE MCPages -------------------------------
(***************************************************************************)
(* What the user sees and starts, checked in one run: the on-chain wallet, *)
(* the transactions on their way out, the send and the receive page, and   *)
(* the serial persister under the small stores the pages fill.  They share *)
(* no state that is modelled in two of them, so a behaviour is one of the  *)
(* part in focus, and the others rest: the run explores the sum of their   *)
(* state spaces, not the product.                                          *)
(***************************************************************************)
EXTENDS SerialPersister, OnchainWallet, Outgoing, ReceivePage, SendPage

VARIABLE focus

On(part) == focus = part
Rests(part, state) == focus # part => state

PagesInit ==
  /\ focus \in {"serial", "onchain", "outgoing", "receive", "send"}
  /\ Init /\ Rests("serial", ~HasPendingWork)
  /\ OnchainInit /\ Rests("onchain", onChain = 0)
  /\ OutgoingInit
  /\ ReceiveInit /\ Rests("receive", userChannel = "none" /\ reconnected)
  /\ SendInit

Others(part) ==
  /\ On(part) /\ UNCHANGED focus
  /\ part # "serial" => UNCHANGED vars
  /\ part # "onchain" => UNCHANGED onchainVars
  /\ part # "outgoing" => UNCHANGED outgoingVars
  /\ part # "receive" => UNCHANGED receiveVars
  /\ part # "send" => UNCHANGED sendVars

PagesNext ==
  \/ Others("serial") /\ Next
  \/ Others("onchain") /\ OnchainNext
  \/ Others("outgoing") /\ OutgoingNext
  \/ Others("receive") /\ ReceiveNext
  \/ Others("send") /\ SendNext

pagesVars == <<focus, vars, onchainVars, outgoingVars, receiveVars, sendVars>>

(* Every change is followed by ticks, and every write settles *)
SerialFairness ==
  /\ WF_vars(On("serial") /\ Tick)
  /\ WF_vars(On("serial") /\ Capture)
  /\ WF_vars(On("serial") /\ WriteOk)

(* Timers fire, awaited calls end (they have timeouts); the user need not act *)
OnchainFairness ==
  /\ WF_onchainVars(On("onchain") /\ FullScan)
  /\ WF_onchainVars(On("onchain") /\ TimerFires)
  /\ WF_onchainVars(On("onchain") /\ SyncEnds)
  /\ WF_onchainVars(On("onchain") /\ LockSpend)
  /\ WF_onchainVars(On("onchain") /\ BuildSpend)
  /\ WF_onchainVars(On("onchain") /\ SendBroadcast)

(* A request that fails rejects its promise, and the reaper's timer fires *)
ReceiveFairness ==
  /\ WF_receiveVars(On("receive") /\ Failures)

(* Awaited calls end, intervals fire, IndexedDB answers *)
SendFairness ==
  /\ WF_sendVars(On("send") /\ OcConfirmEnds)
  /\ WF_sendVars(On("send") /\ LnConfirmEnds)
  /\ WF_sendVars(On("send") /\ PollTick)
  /\ \A i \in 1..MaxPayments :
       WF_sendVars(On("send") /\ WriteRecord(i)) /\ WF_sendVars(On("send") /\ UpdateRecord(i))

PagesSpec ==
  /\ PagesInit /\ [][PagesNext]_pagesVars
  /\ SerialFairness /\ OnchainFairness /\ ReceiveFairness /\ SendFairness
==============================================================================
