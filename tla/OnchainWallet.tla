----------------------------- MODULE OnchainWallet -----------------------------
(***************************************************************************)
(* The on-chain wallet (onchain/context.tsx, sync.ts, init.ts,             *)
(* address-utils.ts, send-guards.ts, spend-lock.ts, storage/changeset.ts): *)
(* a BDK wallet in memory, the loop that syncs it with Esplora, the        *)
(* changesets it saves by read, merge and write, and one spend at a time.  *)
(*                                                                         *)
(* Amounts are small numbers.  A drain pays a fee of the rate, a payment   *)
(* with change one more (the change output); the anchor reserve is 2.      *)
(* A saved delta is a number: the deltas of one life of the page are       *)
(* 1, 2, 3, ... in the order take_staged gives them out.                   *)
(***************************************************************************)
EXTENDS Integers, FiniteSets

CONSTANTS MaxCoins,       \* the most the chain ever holds for this wallet
          MaxDeltas,      \* deltas, addresses and fetches that save
          WalletEvents    \* deposits, sends, foreign spends, failures and restarts
ASSUME OnchainAssumption ==
  /\ MaxCoins \in Nat \ {0} /\ MaxDeltas \in Nat /\ WalletEvents \in Nat

VARIABLES
  onChain, coins, shown,   \* balances: Esplora's, the wallet's, the page's
  open,                    \* there are Lightning channels
  syncLoop,                \* the sync loop
  owner,                   \* spend-lock.ts
  spend,                   \* the spend under way
  deltas, puts, kept,      \* given out, in flight, in IndexedDB
  overlap,                 \* two putChangeset calls were in flight at once
  promised,                \* coins in a funding transaction LDK holds, unsent
  events

onchainVars == <<onChain, coins, shown, open, syncLoop, owner, spend, deltas, puts, kept,
                 overlap, promised, events>>
chainSide == <<onChain, open, promised, events>>
saving == <<deltas, puts, kept, overlap>>

AnchorReserve == 2
Rates == {1, 2}
MaxFee == 2
Dust == 1
Retries == 3

NoSpend == [at |-> "idle", kind |-> "max", amount |-> 0, rate |-> 1, pays |-> 0, fee |-> 0,
            want |-> 0, drain |-> FALSE]
LoopOff == [on |-> FALSE, timers |-> 0, syncing |-> FALSE, paused |-> FALSE, retries |-> 0]

OnchainInit ==
  /\ onChain \in {0, 1} /\ coins = 0 /\ shown = 0 /\ open = FALSE
  /\ syncLoop = LoopOff /\ owner = "none"
  /\ spend = NoSpend /\ deltas = 0 /\ puts = {} /\ kept = {} /\ overlap = FALSE
  /\ promised = 0 /\ events = 0

WalletEvent == events < WalletEvents /\ events' = events + 1

-----------------------------------------------------------------------------
(* putChangeset: get, merge, put, with an await in between *)
SaveStaged ==
  /\ deltas < MaxDeltas /\ deltas' = deltas + 1
  /\ puts' = puts \cup {[delta |-> deltas + 1, read |-> FALSE, base |-> {}]}
  /\ overlap' = (overlap \/ puts # {}) /\ UNCHANGED kept
BeginPut == SaveStaged \/ UNCHANGED saving       \* nothing may be staged

ReadChangeset ==
  /\ \E p \in puts : /\ ~p.read
                     /\ puts' = (puts \ {p}) \cup {[p EXCEPT !.read = TRUE, !.base = kept]}
  /\ UNCHANGED <<onChain, coins, shown, open, syncLoop, owner, spend, deltas, kept, overlap,
                 promised, events>>

MergedOverwriting(p) == {p.delta}
Merged(p) == p.base \cup {p.delta}
WriteChangeset ==
  /\ \E p \in puts : /\ p.read /\ puts' = puts \ {p}
                     /\ \/ kept' = Merged(p) /\ UNCHANGED events
                        \/ WalletEvent /\ UNCHANGED kept     \* logged
  /\ UNCHANGED <<onChain, coins, shown, open, syncLoop, owner, spend, deltas,
                 overlap, promised>>

(* generateAddress, revealNextAddress, peekAddressAtIndex *)
RevealAddress ==
  /\ SaveStaged
  /\ UNCHANGED <<chainSide, coins, shown, syncLoop, owner, spend>>

-----------------------------------------------------------------------------
(* The world *)
Deposit ==
  /\ WalletEvent /\ onChain < MaxCoins /\ onChain' = onChain + 1
  /\ UNCHANGED <<coins, shown, open, syncLoop, owner, spend, saving, promised>>

(* A fee bump is offered no coins while a spend is prepared; the wallet     *)
(* learns of it with its next sync                                          *)
BumpSpends ==
  /\ WalletEvent /\ owner = "none" /\ onChain > 0 /\ onChain' = onChain - 1
  /\ UNCHANGED <<coins, shown, open, syncLoop, owner, spend, saving, promised>>

(* A splice takes the lock to prepare and sign, and gives it back *)
SpliceLock ==
  /\ \/ owner = "none" /\ owner' = "splice" /\ WalletEvent
     \/ owner = "splice" /\ owner' = "none" /\ UNCHANGED events
  /\ UNCHANGED <<onChain, open, promised, coins, shown, syncLoop, spend, saving>>

(* FundingGenerationReady: coins are chosen and signed for a channel, and   *)
(* broadcast once LDK says so                                               *)
FundChannel ==
  /\ WalletEvent /\ promised = 0 /\ coins >= 2 /\ promised' = 2 /\ BeginPut
  /\ UNCHANGED <<onChain, open, coins, shown, syncLoop, owner, spend>>
FundingSent ==
  /\ promised > 0 /\ promised' = 0
  /\ onChain' = IF onChain >= promised THEN onChain - promised ELSE onChain
  /\ UNCHANGED <<open, events, coins, shown, syncLoop, owner, spend, saving>>

ChannelsChange ==
  /\ WalletEvent /\ open' = ~open
  /\ UNCHANGED <<onChain, coins, shown, syncLoop, owner, spend, saving, promised>>

-----------------------------------------------------------------------------
(* fullScanBdkWallet, then startOnchainSyncLoop; a failed scan is logged *)
FullScan ==
  /\ ~syncLoop.on
  /\ \/ coins' = onChain /\ UNCHANGED events
     \/ WalletEvent /\ UNCHANGED coins
  /\ shown' = coins' /\ BeginPut
  /\ syncLoop' = [LoopOff EXCEPT !.on = TRUE, !.timers = 1]
  /\ UNCHANGED <<onChain, open, owner, spend, promised>>

(* scheduleNext *)
Scheduled(l) == [l EXCEPT !.timers = @ + 1, !.retries = IF @ > 0 THEN @ - 1 ELSE 0]
SyncTickStopping(l) == IF l.syncing \/ l.paused THEN l ELSE [l EXCEPT !.syncing = TRUE]
SyncTick(l) == IF l.syncing THEN l
               ELSE IF l.paused THEN Scheduled(l) ELSE [l EXCEPT !.syncing = TRUE]

TimerFires ==
  /\ syncLoop.on /\ syncLoop.timers > 0
  /\ syncLoop' = SyncTick([syncLoop EXCEPT !.timers = @ - 1])
  /\ UNCHANGED <<chainSide, coins, shown, owner, spend, saving>>

(* The update is applied, the changeset saved, the balance shown; a timeout *)
(* or a failed sync is logged.  Either way the next tick is scheduled.      *)
SyncEnds ==
  /\ syncLoop.syncing /\ syncLoop' = Scheduled([syncLoop EXCEPT !.syncing = FALSE])
  /\ \/ coins' = onChain /\ shown' = onChain /\ BeginPut /\ UNCHANGED events
     \/ WalletEvent /\ UNCHANGED <<coins, shown, saving>>
  /\ UNCHANGED <<onChain, open, owner, spend, promised>>

(* syncNow: the pending timer is cleared, if there is one *)
SyncNow(l) == SyncTick([l EXCEPT !.retries = Retries, !.timers = IF l.syncing THEN @ ELSE 0])

(* The page is reloaded: memory is gone, the balance restored is an old one *)
Reload ==
  /\ WalletEvent /\ coins' \in 0..MaxCoins /\ shown' = 0
  /\ syncLoop' = LoopOff /\ owner' = "none"
  /\ spend' = NoSpend /\ puts' = {}
  /\ UNCHANGED <<onChain, open, deltas, kept, overlap, promised>>

-----------------------------------------------------------------------------
(* Spending *)
Reserve == IF open THEN AnchorReserve ELSE 0
MaxSendable(rate) == coins - rate - Reserve
Finished(l, o, s) == syncLoop' = l /\ owner' = o /\ spend' = s

(* estimateMaxSendable or estimateFee, for the page to review; the psbt is  *)
(* thrown away                                                              *)
ReviewSend ==
  /\ syncLoop.on /\ spend.at = "idle"
  /\ \E rate \in Rates :
       \/ /\ MaxSendable(rate) >= Dust
          /\ spend' = [NoSpend EXCEPT !.at = "review", !.amount = MaxSendable(rate),
                                      !.want = MaxSendable(rate), !.rate = rate]
       \/ \E a \in 1..MaxCoins :
            /\ a + rate <= coins
            /\ spend' = [NoSpend EXCEPT !.at = "review", !.kind = "amount", !.amount = a,
                                        !.want = a, !.rate = rate]
  /\ UNCHANGED <<chainSide, coins, shown, syncLoop, owner, saving>>

(* sendMax estimates again; sendToAddress checks the reserve against a      *)
(* fresh fee, the balance being read before that fee is fetched             *)
ConfirmSend ==
  /\ spend.at = "review" /\ WalletEvent
  /\ IF spend.kind = "max"
     THEN IF ~open
          THEN spend' = [spend EXCEPT !.at = "lock", !.drain = TRUE]
          ELSE spend' = IF MaxSendable(spend.rate) < Dust THEN NoSpend
                        ELSE [spend EXCEPT !.at = "lock", !.amount = MaxSendable(spend.rate)]
     ELSE IF ~open THEN spend' = [spend EXCEPT !.at = "lock"]
          ELSE \E fresh \in Rates :
                 spend' = IF spend.amount + fresh + 1 + AnchorReserve > coins THEN NoSpend
                          ELSE [spend EXCEPT !.at = "lock"]
  /\ UNCHANGED <<onChain, open, promised, coins, shown, syncLoop, owner, saving>>

(* buildSignBroadcast: the lock, pause, and the splice check is awaited *)
LockSpend ==
  /\ spend.at = "lock"
  /\ IF owner # "none" THEN Finished(syncLoop, owner, NoSpend)
     ELSE Finished([syncLoop EXCEPT !.paused = TRUE], "send", [spend EXCEPT !.at = "splice"])
  /\ UNCHANGED <<chainSide, coins, shown, saving>>

Released(l) == [l EXCEPT !.paused = FALSE]
FailSpend == Finished(Released(syncLoop), "none", NoSpend)

RecipientGets == IF spend.drain THEN coins - spend.rate ELSE spend.amount
BuiltFee == IF spend.drain \/ spend.amount + spend.rate = coins THEN spend.rate
            ELSE spend.rate + 1
DriftsFromEstimate == spend.kind = "max" /\ spend.amount # spend.want
Drifts == spend.kind = "max" /\ RecipientGets # spend.want

(* assertNoPendingSplice may throw; then the psbt is built, checked, signed *)
BuildSpend ==
  /\ spend.at = "splice"
  /\ \/ /\ \/ RecipientGets < Dust \/ RecipientGets + BuiltFee > coins    \* finish() throws
           \/ Drifts \/ BuiltFee > MaxFee
        /\ FailSpend /\ UNCHANGED events
     \/ /\ RecipientGets >= Dust /\ RecipientGets + BuiltFee <= coins
        /\ ~Drifts /\ BuiltFee <= MaxFee
        /\ spend' = [spend EXCEPT !.at = "broadcast", !.pays = RecipientGets, !.fee = BuiltFee]
        /\ UNCHANGED <<syncLoop, owner, events>>
     \/ WalletEvent /\ FailSpend                                          \* a pending splice
  /\ UNCHANGED <<onChain, open, promised, coins, shown, saving>>

(* esplora.broadcast: accepted, refused, or accepted with the answer lost.  *)
(* A transaction on coins that are gone is refused.                         *)
Cost == spend.pays + spend.fee
SendBroadcast ==
  /\ spend.at = "broadcast"
  /\ \/ /\ Cost <= onChain /\ onChain' = onChain - Cost
        /\ \/ /\ coins' = (IF coins >= Cost THEN coins - Cost ELSE 0)
              /\ shown' = coins' /\ BeginPut /\ UNCHANGED events
              /\ Finished(Released(SyncNow(syncLoop)), "none", NoSpend)
           \/ WalletEvent /\ FailSpend /\ UNCHANGED <<coins, shown, saving>>
     \/ /\ IF Cost > onChain THEN UNCHANGED events ELSE WalletEvent
        /\ FailSpend /\ UNCHANGED <<onChain, coins, shown, saving>>
  /\ UNCHANGED <<open, promised>>

OnchainNext ==
  \/ ReadChangeset \/ WriteChangeset \/ RevealAddress \/ Deposit \/ ChannelsChange
  \/ BumpSpends \/ SpliceLock \/ FundChannel \/ FundingSent
  \/ FullScan \/ TimerFires \/ SyncEnds \/ Reload
  \/ ReviewSend \/ ConfirmSend \/ LockSpend \/ BuildSpend \/ SendBroadcast

OnchainSpec == OnchainInit /\ [][OnchainNext]_onchainVars

-----------------------------------------------------------------------------
OnchainTypeOK ==
  /\ onChain \in 0..MaxCoins /\ coins \in 0..MaxCoins /\ shown \in 0..MaxCoins
  /\ open \in BOOLEAN /\ owner \in {"none", "send", "splice"} /\ syncLoop.timers \in 0..1
  /\ kept \subseteq 1..MaxDeltas

(* Whatever is synced, opened or spent between the review and the moment a  *)
(* send-all is signed, the recipient gets exactly the amount reviewed, and  *)
(* the coins were chosen under the spend lock with the sync loop paused.    *)
SentAsReviewed ==
  spend.at = "broadcast" =>
    spend.pays = spend.want /\ owner = "send" /\ syncLoop.paused

(* A balance that stays different on the chain is shown in the end: no      *)
(* pause, syncNow, timeout or spend leaves the loop without its next tick.  *)
BalanceShown == (onChain # shown) ~> (onChain = shown)

(* As long as no two saves overlapped, a save adds to what is stored.       *)
DeltaKept == [][~overlap => kept \subseteq kept']_onchainVars

(* One owner at a time selects coins, channel funding included. *)
OneSelector == [][promised' > promised => owner = "none"]_onchainVars
=============================================================================
