---------------------------- MODULE OnchainProofs ----------------------------
(***************************************************************************)
(* Proofs about what goes on the chain: a send of the on-chain wallet pays *)
(* what was reviewed, chosen under the spend lock, and saves that do not   *)
(* overlap lose nothing (OnchainWallet); a transaction LDK counts on stays *)
(* stored until it is sent (Outgoing).                                     *)
(***************************************************************************)
EXTENDS OnchainWallet, Outgoing, TLAPS

-----------------------------------------------------------------------------
(* OnchainWallet.                                                          *)

\* Which part of a send is under way.
UnderWay == {"idle", "review", "lock", "splice", "broadcast"}
SpendType ==
  [at : UnderWay, kind : {"max", "amount"}, amount : Int, rate : Rates, pays : Int,
   fee : Int, want : Int, drain : BOOLEAN]
LoopType == [on : BOOLEAN, timers : Int, syncing : BOOLEAN, paused : BOOLEAN, retries : Int]
SpendTypeOK ==
  /\ spend \in SpendType /\ syncLoop \in LoopType
  /\ coins \in Int /\ onChain \in Int /\ promised \in Int

\* From the lock to the broadcast the loop is paused and the lock held, and a payment
\* of a given amount is for that amount.
LockHeld ==
  /\ spend.at \in {"splice", "broadcast"} => owner = "send" /\ syncLoop.paused
  /\ spend.at # "idle" => syncLoop.on
  /\ spend.kind = "amount" => spend.amount = spend.want /\ ~spend.drain
SpendInv == SpendTypeOK /\ LockHeld /\ SentAsReviewed

\* A loop stays a loop when its timers and retries, or a flag, are set.
LEMMA LoopSet ==
  ASSUME NEW l \in LoopType
  PROVE  /\ \A t, r \in Int : [l EXCEPT !.timers = t, !.retries = r] \in LoopType
         /\ \A t, r \in Int : [l EXCEPT !.retries = r, !.timers = t] \in LoopType
         /\ \A b \in BOOLEAN : [l EXCEPT !.syncing = b] \in LoopType
         /\ \A b \in BOOLEAN : [l EXCEPT !.paused = b] \in LoopType
  BY DEF LoopType

\* What the sync loop does to itself keeps it running, and paused as it is.
LEMMA ScheduledKept ==
  ASSUME NEW l \in LoopType
  PROVE  Scheduled(l) \in LoopType /\ Scheduled(l).on = l.on /\ Scheduled(l).paused = l.paused
<1>1. l.timers + 1 \in Int /\ (IF l.retries > 0 THEN l.retries - 1 ELSE 0) \in Int
  BY DEF LoopType
<1>2. Scheduled(l) \in LoopType
  BY <1>1, LoopSet DEF Scheduled
<1> QED
  BY <1>2 DEF Scheduled, LoopType

LEMMA TickKept ==
  ASSUME NEW l \in LoopType
  PROVE  SyncTick(l) \in LoopType /\ SyncTick(l).on = l.on /\ SyncTick(l).paused = l.paused
<1>1. [l EXCEPT !.syncing = TRUE] \in LoopType
  BY LoopSet
<1>2. [l EXCEPT !.syncing = TRUE].on = l.on /\ [l EXCEPT !.syncing = TRUE].paused = l.paused
  BY DEF LoopType
<1>3. CASE l.syncing
  BY <1>3 DEF SyncTick
<1>4. CASE ~l.syncing /\ l.paused
  BY <1>4, ScheduledKept DEF SyncTick
<1>5. CASE ~l.syncing /\ ~l.paused
  BY <1>5, <1>1, <1>2 DEF SyncTick
<1> QED
  BY <1>3, <1>4, <1>5

LEMMA SyncNowKept ==
  ASSUME NEW l \in LoopType
  PROVE  SyncNow(l) \in LoopType /\ SyncNow(l).on = l.on
<1> DEFINE t == IF l.syncing THEN l.timers ELSE 0
           m == [l EXCEPT !.retries = Retries, !.timers = t]
<1>1. t \in Int /\ Retries \in Int
  BY DEF LoopType, Retries
<1>2. m \in LoopType
  BY <1>1, LoopSet
<1>3. m.on = l.on
  BY DEF LoopType
<1>4. SyncNow(l) = SyncTick(m)
  BY DEF SyncNow
<1> QED
  BY <1>2, <1>3, <1>4, TickKept

LEMMA ReleasedKept ==
  ASSUME NEW l \in LoopType
  PROVE  Released(l) \in LoopType /\ Released(l).on = l.on
  BY LoopSet DEF Released, LoopType

-----------------------------------------------------------------------------
\* What does not touch a send keeps the invariant: the loop may only move its timers.
LEMMA OthersKeep ==
  ASSUME SpendInv, UNCHANGED spend, syncLoop' \in LoopType, syncLoop'.on = syncLoop.on,
         syncLoop'.paused = syncLoop.paused, owner = "send" => owner' = "send",
         coins' \in Int, onChain' \in Int, promised' \in Int
  PROVE  SpendInv'
<1>1. SpendTypeOK'
  BY DEF SpendInv, SpendTypeOK
<1>2. LockHeld'
  BY DEF SpendInv, LockHeld
<1>3. SentAsReviewed'
  BY DEF SpendInv, SentAsReviewed
<1> QED
  BY <1>1, <1>2, <1>3 DEF SpendInv

\* A send that has ended, or was never begun, asks for nothing.
LEMMA IdleKeeps ==
  ASSUME spend' = NoSpend, syncLoop' \in LoopType, coins' \in Int, onChain' \in Int,
         promised' \in Int
  PROVE  SpendInv'
<1>1. NoSpend \in SpendType /\ NoSpend.at = "idle" /\ NoSpend.kind = "max"
  BY DEF NoSpend, SpendType, UnderWay, Rates
<1>2. SpendTypeOK'
  BY <1>1 DEF SpendTypeOK
<1>3. LockHeld' /\ SentAsReviewed'
  BY <1>1 DEF LockHeld, SentAsReviewed
<1> QED
  BY <1>2, <1>3 DEF SpendInv

\* The coins, the chain and the changesets move; the send does not.
LEMMA WorldStep ==
  ASSUME SpendInv,
         \/ ReadChangeset \/ WriteChangeset \/ RevealAddress \/ Deposit \/ ChannelsChange
         \/ BumpSpends \/ SpliceLock \/ FundChannel \/ FundingSent \/ UNCHANGED onchainVars
  PROVE  SpendInv'
<1>1. UNCHANGED <<spend, syncLoop, coins>>
  BY DEF ReadChangeset, WriteChangeset, RevealAddress, Deposit, ChannelsChange, BumpSpends,
         SpliceLock, FundChannel, FundingSent, onchainVars, chainSide
<1>2. owner = "send" => owner' = "send"
  BY DEF ReadChangeset, WriteChangeset, RevealAddress, Deposit, ChannelsChange, BumpSpends,
         SpliceLock, FundChannel, FundingSent, onchainVars, chainSide
<1>3. onChain' \in Int /\ promised' \in Int
  <2>1. onChain \in Int /\ promised \in Int
    BY DEF SpendInv, SpendTypeOK
  <2>2. CASE FundingSent
    BY <2>1, <2>2 DEF FundingSent
  <2>3. CASE Deposit \/ BumpSpends \/ FundChannel
    BY <2>1, <2>3 DEF Deposit, BumpSpends, FundChannel
  <2>4. CASE ~(FundingSent \/ Deposit \/ BumpSpends \/ FundChannel)
    BY <2>1, <2>4 DEF ReadChangeset, WriteChangeset, RevealAddress, ChannelsChange, SpliceLock,
                      onchainVars, chainSide
  <2> QED BY <2>2, <2>3, <2>4
<1> QED
  BY <1>1, <1>2, <1>3, OthersKeep DEF SpendInv, SpendTypeOK

\* The loop's own steps, and a reload, which forgets the send.
LEMMA LoopStep ==
  ASSUME SpendInv, FullScan \/ TimerFires \/ SyncEnds \/ Reload
  PROVE  SpendInv'
<1>1. CASE FullScan
  <2>1. spend.at = "idle" /\ UNCHANGED spend
    BY <1>1 DEF FullScan, SpendInv, LockHeld
  <2>2. syncLoop' \in LoopType
    <3>1. [on |-> TRUE, timers |-> 1, syncing |-> FALSE, paused |-> FALSE, retries |-> 0]
            \in LoopType
      BY DEF LoopType
    <3>2. syncLoop' = [LoopOff EXCEPT !.on = TRUE, !.timers = 1]
      BY <1>1 DEF FullScan
    <3> QED BY <3>1, <3>2 DEF LoopOff
  <2>3. coins' \in Int /\ onChain' \in Int /\ promised' \in Int
    BY <1>1 DEF FullScan, SpendInv, SpendTypeOK
  <2>4. SpendTypeOK'
    BY <2>1, <2>2, <2>3 DEF SpendInv, SpendTypeOK
  <2>5. LockHeld' /\ SentAsReviewed'
    BY <2>1 DEF SpendInv, LockHeld, SentAsReviewed
  <2> QED BY <2>4, <2>5 DEF SpendInv
<1>2. CASE TimerFires
  <2> DEFINE l == [syncLoop EXCEPT !.timers = @ - 1]
  <2>1. l \in LoopType /\ l.on = syncLoop.on /\ l.paused = syncLoop.paused
    BY DEF SpendInv, SpendTypeOK, LoopType
  <2>2. syncLoop' = SyncTick(l) /\ UNCHANGED <<spend, owner, coins, onChain, promised>>
    BY <1>2 DEF TimerFires, chainSide
  <2> QED BY <2>1, <2>2, TickKept, OthersKeep DEF SpendInv, SpendTypeOK
<1>3. CASE SyncEnds
  <2> DEFINE l == [syncLoop EXCEPT !.syncing = FALSE]
  <2>1. l \in LoopType /\ l.on = syncLoop.on /\ l.paused = syncLoop.paused
    BY DEF SpendInv, SpendTypeOK, LoopType
  <2>2. syncLoop' = Scheduled(l) /\ UNCHANGED <<spend, owner, onChain, promised>>
    BY <1>3 DEF SyncEnds
  <2>3. coins' \in Int
    BY <1>3 DEF SyncEnds, SpendInv, SpendTypeOK
  <2> QED BY <2>1, <2>2, <2>3, ScheduledKept, OthersKeep DEF SpendInv, SpendTypeOK
<1>4. CASE Reload
  <2>1. LoopOff \in LoopType
    BY DEF LoopOff, LoopType
  <2>2. coins' \in Int
    BY <1>4, OnchainAssumption DEF Reload
  <2> QED BY <1>4, <2>1, <2>2, IdleKeeps DEF Reload, SpendInv, SpendTypeOK
<1> QED
  BY <1>1, <1>2, <1>3, <1>4

-----------------------------------------------------------------------------
\* A change of the send's stage, or of what it pays, is a send again.
LEMMA SpendSet ==
  ASSUME NEW s \in SpendType
  PROVE  /\ \A u \in UnderWay : [s EXCEPT !.at = u] \in SpendType
         /\ \A u \in UnderWay : \A b \in BOOLEAN : [s EXCEPT !.at = u, !.drain = b] \in SpendType
         /\ \A u \in UnderWay : \A a \in Int : [s EXCEPT !.at = u, !.amount = a] \in SpendType
         /\ \A u \in UnderWay : \A p, f \in Int :
              [s EXCEPT !.at = u, !.pays = p, !.fee = f] \in SpendType
  BY DEF SpendType

\* A send that is reviewed or confirmed keeps the invariant if it holds its amount.
LEMMA SpendMoves ==
  ASSUME SpendInv, spend' \in SpendType, spend'.at \in {"review", "lock"}, syncLoop.on,
         spend'.kind = "amount" => spend'.amount = spend'.want /\ ~spend'.drain,
         UNCHANGED <<syncLoop, coins, onChain, promised>>
  PROVE  SpendInv'
  BY DEF SpendInv, SpendTypeOK, LockHeld, SentAsReviewed

LEMMA ReviewStep ==
  ASSUME SpendInv, ReviewSend
  PROVE  SpendInv'
<1>1. UNCHANGED <<syncLoop, coins, onChain, promised>> /\ syncLoop.on
  BY DEF ReviewSend, chainSide
<1>2. PICK rate \in Rates :
        \/ spend' = [NoSpend EXCEPT !.at = "review", !.amount = MaxSendable(rate),
                                    !.want = MaxSendable(rate), !.rate = rate]
        \/ \E a \in 1..MaxCoins :
             spend' = [NoSpend EXCEPT !.at = "review", !.kind = "amount", !.amount = a,
                                      !.want = a, !.rate = rate]
  BY DEF ReviewSend
<1>3. MaxSendable(rate) \in Int
  BY DEF MaxSendable, Reserve, AnchorReserve, Rates, SpendInv, SpendTypeOK
<1>4. CASE spend' = [NoSpend EXCEPT !.at = "review", !.amount = MaxSendable(rate),
                                    !.want = MaxSendable(rate), !.rate = rate]
  <2>1. spend' = [at |-> "review", kind |-> "max", amount |-> MaxSendable(rate), rate |-> rate,
                  pays |-> 0, fee |-> 0, want |-> MaxSendable(rate), drain |-> FALSE]
    BY <1>4 DEF NoSpend
  <2>2. spend' \in SpendType /\ spend'.at = "review" /\ spend'.kind = "max"
    BY <2>1, <1>3 DEF SpendType, UnderWay
  <2> QED BY <1>1, <2>2, SpendMoves
<1>5. ASSUME NEW a \in 1..MaxCoins,
             spend' = [NoSpend EXCEPT !.at = "review", !.kind = "amount", !.amount = a,
                                      !.want = a, !.rate = rate]
      PROVE  SpendInv'
  <2>1. spend' = [at |-> "review", kind |-> "amount", amount |-> a, rate |-> rate,
                  pays |-> 0, fee |-> 0, want |-> a, drain |-> FALSE]
    BY <1>5 DEF NoSpend
  <2>2. spend' \in SpendType /\ spend'.at = "review" /\ spend'.amount = spend'.want
    BY <2>1, OnchainAssumption DEF SpendType, UnderWay
  <2>3. ~spend'.drain
    BY <2>1
  <2> QED BY <1>1, <2>2, <2>3, SpendMoves
<1> QED
  BY <1>2, <1>4, <1>5

LEMMA ConfirmStep ==
  ASSUME SpendInv, ConfirmSend
  PROVE  SpendInv'
<1>1. UNCHANGED <<syncLoop, coins, onChain, promised>> /\ spend.at = "review"
  BY DEF ConfirmSend
<1>2. spend \in SpendType /\ syncLoop.on /\ coins \in Int /\ onChain \in Int /\ promised \in Int
        /\ syncLoop \in LoopType
  BY <1>1 DEF SpendInv, SpendTypeOK, LockHeld
<1>3. MaxSendable(spend.rate) \in Int
  BY <1>2 DEF MaxSendable, Reserve, AnchorReserve, SpendType, Rates
<1>4. \/ spend' = NoSpend
      \/ spend.kind = "max" /\ spend' = [spend EXCEPT !.at = "lock", !.drain = TRUE]
      \/ /\ spend.kind = "max"
         /\ spend' = [spend EXCEPT !.at = "lock", !.amount = MaxSendable(spend.rate)]
      \/ spend.kind # "max" /\ spend' = [spend EXCEPT !.at = "lock"]
  BY DEF ConfirmSend
<1>5. CASE spend' = NoSpend
  BY <1>1, <1>2, <1>5, IdleKeeps
<1>6. CASE spend.kind = "max" /\ spend' = [spend EXCEPT !.at = "lock", !.drain = TRUE]
  <2>1. spend' \in SpendType
    BY <1>2, <1>6, SpendSet DEF UnderWay
  <2>2. spend'.at = "lock" /\ spend'.kind = "max"
    BY <1>2, <1>6 DEF SpendType
  <2> QED BY <1>1, <1>2, <2>1, <2>2, SpendMoves
<1>7. CASE /\ spend.kind = "max"
           /\ spend' = [spend EXCEPT !.at = "lock", !.amount = MaxSendable(spend.rate)]
  <2>1. spend' \in SpendType
    BY <1>2, <1>3, <1>7, SpendSet DEF UnderWay
  <2>2. spend'.at = "lock" /\ spend'.kind = "max"
    BY <1>2, <1>7 DEF SpendType
  <2> QED BY <1>1, <1>2, <2>1, <2>2, SpendMoves
<1>8. CASE spend.kind # "max" /\ spend' = [spend EXCEPT !.at = "lock"]
  <2>1. spend' \in SpendType
    BY <1>2, <1>8, SpendSet DEF UnderWay
  <2>2. /\ spend'.at = "lock" /\ spend'.amount = spend.amount /\ spend'.want = spend.want
        /\ spend'.drain = spend.drain /\ spend.kind = "amount"
    BY <1>2, <1>8 DEF SpendType
  <2>3. spend.amount = spend.want /\ ~spend.drain
    BY <2>2 DEF SpendInv, LockHeld
  <2> QED BY <1>1, <1>2, <2>1, <2>2, <2>3, SpendMoves
<1> QED
  BY <1>4, <1>5, <1>6, <1>7, <1>8

LEMMA LockStep ==
  ASSUME SpendInv, LockSpend
  PROVE  SpendInv'
<1>1. /\ spend \in SpendType /\ coins \in Int /\ onChain \in Int /\ promised \in Int
      /\ syncLoop \in LoopType /\ spend.at = "lock" /\ syncLoop.on
      /\ UNCHANGED <<coins, onChain, promised>>
  BY DEF LockSpend, chainSide, SpendInv, SpendTypeOK, LockHeld
<1>2. CASE owner # "none"
  BY <1>1, <1>2, IdleKeeps DEF LockSpend, Finished
<1>3. CASE owner = "none"
  <2>1. /\ syncLoop' = [syncLoop EXCEPT !.paused = TRUE] /\ owner' = "send"
        /\ spend' = [spend EXCEPT !.at = "splice"]
    BY <1>3 DEF LockSpend, Finished
  <2>2. syncLoop' \in LoopType
    BY <1>1, <2>1, LoopSet
  <2>3. syncLoop'.paused /\ syncLoop'.on
    BY <1>1, <2>1 DEF LoopType
  <2>4. spend' \in SpendType
    BY <1>1, <2>1, SpendSet DEF UnderWay
  <2>5. /\ spend'.at = "splice" /\ spend'.kind = spend.kind /\ spend'.want = spend.want
        /\ spend'.amount = spend.amount
    BY <1>1, <2>1 DEF SpendType
  <2>6. spend'.drain = spend.drain
    BY <1>1, <2>1 DEF SpendType
  <2>7. LockHeld'
    BY <2>1, <2>3, <2>5, <2>6 DEF SpendInv, LockHeld
  <2>8. SpendTypeOK' /\ SentAsReviewed'
    BY <1>1, <2>2, <2>4, <2>5 DEF SpendTypeOK, SentAsReviewed
  <2> QED BY <2>7, <2>8 DEF SpendInv
<1> QED
  BY <1>2, <1>3

\* The signed transaction pays the amount wanted: a send-all that drifted was refused,
\* and a given amount is what the recipient gets.
LEMMA BuildStep ==
  ASSUME SpendInv, BuildSpend
  PROVE  SpendInv'
<1>1. /\ spend \in SpendType /\ coins \in Int /\ onChain \in Int /\ promised \in Int
      /\ syncLoop \in LoopType /\ spend.at = "splice"
      /\ UNCHANGED <<coins, onChain, promised>>
  BY DEF BuildSpend, SpendInv, SpendTypeOK
<1>2. owner = "send" /\ syncLoop.paused /\ syncLoop.on
  BY <1>1 DEF SpendInv, LockHeld
<1>3. CASE FailSpend
  BY <1>1, <1>3, ReleasedKept, IdleKeeps DEF FailSpend, Finished
<1>4. CASE /\ ~Drifts
           /\ spend' = [spend EXCEPT !.at = "broadcast", !.pays = RecipientGets, !.fee = BuiltFee]
           /\ UNCHANGED <<syncLoop, owner>>
  <2>1. RecipientGets \in Int /\ BuiltFee \in Int
    BY <1>1 DEF RecipientGets, BuiltFee, SpendType, Rates
  <2>2. spend' \in SpendType
    BY <1>1, <1>4, <2>1, SpendSet DEF UnderWay
  <2>3. /\ spend'.at = "broadcast" /\ spend'.pays = RecipientGets /\ spend'.want = spend.want
        /\ spend'.kind = spend.kind /\ spend'.amount = spend.amount
    BY <1>1, <1>4 DEF SpendType
  <2>4. spend'.drain = spend.drain
    BY <1>1, <1>4 DEF SpendType
  <2>5. RecipientGets = spend.want
    <3>1. CASE spend.kind = "max"
      BY <1>4, <3>1 DEF Drifts
    <3>2. CASE spend.kind = "amount"
      BY <3>2 DEF SpendInv, LockHeld, RecipientGets
    <3> QED BY <1>1, <3>1, <3>2 DEF SpendType
  <2>6. LockHeld'
    BY <1>2, <1>4, <2>3, <2>4 DEF SpendInv, LockHeld
  <2>7. SpendTypeOK' /\ SentAsReviewed'
    BY <1>1, <1>2, <1>4, <2>2, <2>3, <2>5 DEF SpendTypeOK, SentAsReviewed
  <2> QED BY <2>6, <2>7 DEF SpendInv
<1> QED
  BY <1>3, <1>4 DEF BuildSpend

LEMMA BroadcastStep ==
  ASSUME SpendInv, SendBroadcast
  PROVE  SpendInv'
<1>1. /\ spend \in SpendType /\ coins \in Int /\ onChain \in Int /\ promised' \in Int
      /\ syncLoop \in LoopType
  BY DEF SendBroadcast, SpendInv, SpendTypeOK
<1>2. Cost \in Int
  BY <1>1 DEF Cost, SpendType
<1>3. coins' \in Int /\ onChain' \in Int
  BY <1>1, <1>2 DEF SendBroadcast
<1>4. FailSpend \/ Finished(Released(SyncNow(syncLoop)), "none", NoSpend)
  BY DEF SendBroadcast
<1>5. syncLoop' \in LoopType /\ spend' = NoSpend
  BY <1>1, <1>4, ReleasedKept, SyncNowKept DEF FailSpend, Finished
<1> QED
  BY <1>1, <1>3, <1>5, IdleKeeps

\* Whatever is synced, opened or spent between the review and the signature, a send pays
\* the amount that was reviewed, from coins chosen under the lock with the loop paused
\* (onchain/context.tsx, buildSignBroadcast).
THEOREM SendIsAsReviewed == OnchainSpec => []SentAsReviewed
<1>1. OnchainInit => SpendInv
  <2> SUFFICES ASSUME OnchainInit PROVE SpendInv
    OBVIOUS
  <2>1. spend = NoSpend /\ syncLoop = LoopOff /\ coins = 0 /\ promised = 0 /\ onChain \in {0, 1}
    BY DEF OnchainInit
  <2>2. NoSpend \in SpendType /\ NoSpend.at = "idle" /\ NoSpend.kind = "max"
    BY DEF NoSpend, SpendType, UnderWay, Rates
  <2>3. LoopOff \in LoopType
    BY DEF LoopOff, LoopType
  <2> QED BY <2>1, <2>2, <2>3 DEF SpendInv, SpendTypeOK, LockHeld, SentAsReviewed
<1>2. SpendInv /\ [OnchainNext]_onchainVars => SpendInv'
  BY WorldStep, LoopStep, ReviewStep, ConfirmStep, LockStep, BuildStep, BroadcastStep
     DEF OnchainNext
<1>3. SpendInv => SentAsReviewed
  BY DEF SpendInv
<1> QED
  BY <1>1, <1>2, <1>3, PTL DEF OnchainSpec

-----------------------------------------------------------------------------
(* Outgoing.                                                               *)

\* A running call, or a put, is about one transaction, and has an id.
CallType == [id : Nat, tx : Commitments, net : {"trying", "answered", "in-flight", "failed"}]
PutType == [id : Nat, tx : Commitments]
CallsOK ==
  /\ sendCalls \subseteq CallType /\ pendingPuts \subseteq PutType /\ requests \in Nat
  /\ unsent \subseteq Commitments

\* From the moment the funding transaction is stored until it is sent or given up it
\* stays stored.
FundingKept ==
  funding \in {"stored", "told", "safe", "sending", "stuck"} => fundingStored

\* A record, and a put under way, belong to a call that still runs, and which deletes
\* the record after both.
RecordsHeld ==
  sendFaults = 0 =>
    /\ \A t \in unsent : \E c \in sendCalls : c.tx = t
    /\ \A w \in pendingPuts : \E c \in sendCalls : c.id = w.id /\ c.tx = w.tx
    /\ \A c \in sendCalls : c.net # "failed"

OutgoingInv == CallsOK /\ FundingKept /\ RecordsHeld /\ sendFaults \in Nat

LEMMA FundingStep ==
  ASSUME OutgoingInv,
         \/ BuildFunding \/ StoreFunding \/ TellLdk \/ ChannelPending
         \/ FundingTxBroadcastSafe \/ FundingBroadcastEnds \/ DiscardFunding \/ UnmapClosed
  PROVE  OutgoingInv'
<1>1. UNCHANGED broadcasts
  BY DEF BuildFunding, StoreFunding, TellLdk, ChannelPending, FundingTxBroadcastSafe,
         FundingBroadcastEnds, DiscardFunding, UnmapClosed
<1>2. sendFaults' = sendFaults \/ sendFaults' = sendFaults + 1
  BY DEF BuildFunding, StoreFunding, TellLdk, ChannelPending, FundingTxBroadcastSafe,
         FundingBroadcastEnds, DiscardFunding, UnmapClosed, SendFault
<1>3. CallsOK' /\ RecordsHeld' /\ sendFaults' \in Nat
  <2>1. UNCHANGED <<sendCalls, pendingPuts, requests, unsent>>
    BY <1>1 DEF broadcasts
  <2>2. sendFaults' = 0 => sendFaults = 0
    BY <1>2 DEF OutgoingInv
  <2>3. CallsOK' /\ RecordsHeld'
    BY <2>1, <2>2 DEF OutgoingInv, CallsOK, RecordsHeld
  <2> QED BY <1>2, <2>3 DEF OutgoingInv
<1>4. FundingKept'
  <2>1. CASE BuildFunding
    BY <2>1 DEF BuildFunding, FundingKept
  <2>2. CASE StoreFunding
    BY <2>2 DEF StoreFunding, FundingKept, AfterBuild
  <2>3. CASE TellLdk
    BY <2>3 DEF TellLdk, FundingKept, OutgoingInv
  <2>4. CASE ChannelPending
    BY <2>4 DEF ChannelPending, FundingKept, OutgoingInv
  <2>5. CASE FundingTxBroadcastSafe
    BY <2>5 DEF FundingTxBroadcastSafe, FundingKept, OutgoingInv
  <2>6. CASE FundingBroadcastEnds
    BY <2>6 DEF FundingBroadcastEnds, FundingKept, OutgoingInv
  <2>7. CASE DiscardFunding
    BY <2>7 DEF DiscardFunding, FundingKept
  <2>8. CASE UnmapClosed
    BY <2>8 DEF UnmapClosed, FundingKept, OutgoingInv
  <2> QED
    BY <2>1, <2>2, <2>3, <2>4, <2>5, <2>6, <2>7, <2>8
<1> QED
  BY <1>3, <1>4 DEF OutgoingInv

LEMMA BroadcastRequested ==
  ASSUME OutgoingInv, NEW t \in Commitments, BroadcastTransactions(t)
  PROVE  OutgoingInv'
<1> DEFINE c == NewCall(t, requests')
           w == [id |-> requests', tx |-> t]
<1>1. /\ sendCalls' = sendCalls \cup {c} /\ pendingPuts' = pendingPuts \cup {w}
      /\ requests' = requests + 1
      /\ UNCHANGED <<unsent, funding, fundingStored, sendFaults>>
  BY DEF BroadcastTransactions, fundingSide
<1>2. c \in CallType /\ c.id = requests' /\ c.tx = t /\ c.net # "failed" /\ requests' \in Nat
  BY <1>1 DEF NewCall, CallType, OutgoingInv, CallsOK
<1>3. w \in PutType /\ w.id = requests' /\ w.tx = t
  BY <1>2 DEF PutType
<1> HIDE DEF c, w
<1>4. CallsOK'
  BY <1>1, <1>2, <1>3 DEF OutgoingInv, CallsOK
<1>5. RecordsHeld'
  BY <1>1, <1>2, <1>3 DEF OutgoingInv, RecordsHeld
<1> QED
  BY <1>1, <1>4, <1>5 DEF OutgoingInv, FundingKept

LEMMA PutEnds ==
  ASSUME OutgoingInv, NEW w \in pendingPuts, PutPending(w)
  PROVE  OutgoingInv'
<1>1. /\ pendingPuts' = pendingPuts \ {w}
      /\ UNCHANGED <<sendCalls, requests, funding, fundingStored>>
  BY DEF PutPending, fundingSide
<1>2. \/ unsent' = unsent \cup {w.tx} /\ UNCHANGED sendFaults
      \/ sendFaults' = sendFaults + 1 /\ UNCHANGED unsent
  BY DEF PutPending, SendFault
<1>3. CASE unsent' = unsent \cup {w.tx} /\ UNCHANGED sendFaults
  <2>1. sendFaults = 0 => \E c \in sendCalls : c.tx = w.tx
    BY DEF OutgoingInv, RecordsHeld
  <2>2. RecordsHeld'
    BY <1>1, <1>3, <2>1 DEF OutgoingInv, RecordsHeld
  <2>3. w.tx \in Commitments
    BY DEF OutgoingInv, CallsOK, PutType
  <2> QED BY <1>1, <1>3, <2>2, <2>3 DEF OutgoingInv, CallsOK, FundingKept
<1>4. CASE sendFaults' = sendFaults + 1 /\ UNCHANGED unsent
  <2>1. sendFaults' # 0 /\ sendFaults' \in Nat
    BY <1>4 DEF OutgoingInv
  <2> QED BY <1>1, <1>4, <2>1 DEF OutgoingInv, CallsOK, FundingKept, RecordsHeld
<1> QED
  BY <1>2, <1>3, <1>4

LEMMA CallStep ==
  ASSUME OutgoingInv, NEW c \in sendCalls, PostTx(c) \/ DeletePending(c) \/ GiveUp(c)
  PROVE  OutgoingInv'
<1>1. UNCHANGED <<pendingPuts, requests, funding, fundingStored>> /\ c \in CallType
  BY DEF PostTx, DeletePending, GiveUp, fundingSide, OutgoingInv, CallsOK
<1>2. CASE PostTx(c)
  <2>1. PICK n \in {"answered", "failed"} :
          /\ sendCalls' = (sendCalls \ {c}) \cup {[c EXCEPT !.net = n]}
          /\ UNCHANGED unsent
          /\ \/ n = "answered" /\ sendFaults' = sendFaults
             \/ sendFaults' = sendFaults + 1
    BY <1>2 DEF PostTx, SendFault
  <2> DEFINE d == [c EXCEPT !.net = n]
  <2>2. d \in CallType /\ d.id = c.id /\ d.tx = c.tx /\ d.net = n
    BY <1>1 DEF CallType
  <2> HIDE DEF d
  <2>3. sendCalls' = (sendCalls \ {c}) \cup {d}
    BY <2>1 DEF d
  <2>4. CallsOK'
    BY <1>1, <2>1, <2>2, <2>3 DEF OutgoingInv, CallsOK
  <2>5. sendFaults' \in Nat
    BY <2>1 DEF OutgoingInv
  <2>6. RecordsHeld'
    <3> SUFFICES ASSUME sendFaults' = 0
                 PROVE  RecordsHeld'
      BY DEF RecordsHeld
    <3>1. sendFaults = 0 /\ n = "answered"
      BY <2>1 DEF OutgoingInv
    <3> QED BY <1>1, <2>1, <2>2, <2>3, <3>1 DEF OutgoingInv, RecordsHeld
  <2> QED BY <1>1, <2>4, <2>5, <2>6 DEF OutgoingInv, FundingKept
<1>3. CASE DeletePending(c)
  <2>1. /\ sendCalls' = sendCalls \ {c} /\ unsent' = unsent \ {c.tx} /\ UNCHANGED sendFaults
        /\ \A w \in pendingPuts : w.id # c.id
    BY <1>3 DEF DeletePending, Settled, PutSettled
  <2>2. RecordsHeld'
    BY <1>1, <2>1 DEF OutgoingInv, RecordsHeld
  <2> QED BY <1>1, <2>1, <2>2 DEF OutgoingInv, CallsOK, FundingKept
<1>4. CASE GiveUp(c)
  <2>1. c.net = "failed" /\ sendCalls' = sendCalls \ {c} /\ UNCHANGED <<unsent, sendFaults>>
    BY <1>4 DEF GiveUp
  <2>2. sendFaults # 0
    BY <2>1 DEF OutgoingInv, RecordsHeld
  <2> QED BY <1>1, <2>1, <2>2 DEF OutgoingInv, CallsOK, FundingKept, RecordsHeld
<1> QED
  BY <1>2, <1>3, <1>4

LEMMA FaultStep ==
  ASSUME OutgoingInv,
         Reopen \/ \E t \in Commitments : Expire(t)
  PROVE  OutgoingInv'
<1>1. sendFaults' = sendFaults + 1 /\ UNCHANGED <<requests, fundingStored>>
  BY DEF Reopen, Expire, SendFault, fundingSide
<1>2. sendFaults' # 0 /\ sendFaults' \in Nat
  BY <1>1 DEF OutgoingInv
<1>3. CallsOK'
  <2>1. CASE Reopen
    <3>1. sendCalls' = {[id |-> 0, tx |-> t, net |-> "trying"] : t \in Drained}
            /\ pendingPuts' = {}
      BY <2>1 DEF Reopen
    <3>2. \A t \in Drained : [id |-> 0, tx |-> t, net |-> "trying"] \in CallType
      BY DEF Drained, CallType, OutgoingInv, CallsOK
    <3>3. sendCalls' \subseteq CallType
      BY <3>1, <3>2
    <3>4. unsent' \subseteq Commitments
      BY <2>1 DEF Reopen, Drained, OutgoingInv, CallsOK
    <3> QED BY <1>1, <3>1, <3>3, <3>4 DEF OutgoingInv, CallsOK
  <2>2. CASE \E t \in Commitments : Expire(t)
    BY <2>2 DEF Expire, OutgoingInv, CallsOK
  <2> QED BY <2>1, <2>2
<1>4. FundingKept'
  <2>1. CASE Reopen
    BY <1>1, <2>1 DEF Reopen, OutgoingInv, FundingKept
  <2>2. CASE \E t \in Commitments : Expire(t)
    BY <1>1, <2>2 DEF Expire, fundingSide, OutgoingInv, FundingKept
  <2> QED BY <2>1, <2>2
<1> QED
  BY <1>2, <1>3, <1>4 DEF OutgoingInv, RecordsHeld

\* A funding transaction LDK counts on is stored until it is sent or given up
\* (event-handler.ts, FundingGenerationReady to FundingTxBroadcastSafe), and a record of a
\* pending broadcast never outlives its broadcast (broadcaster.ts, broadcast_transactions).
THEOREM StoredUntilSent == OutgoingSpec => []SendableUntilSent
<1>1. OutgoingInit => OutgoingInv
  BY DEF OutgoingInit, OutgoingInv, CallsOK, FundingKept, RecordsHeld
<1>2. OutgoingInv /\ [OutgoingNext]_outgoingVars => OutgoingInv'
  <2> SUFFICES ASSUME OutgoingInv, [OutgoingNext]_outgoingVars
               PROVE  OutgoingInv'
    OBVIOUS
  <2>1. CASE UNCHANGED outgoingVars
    BY <2>1 DEF outgoingVars, broadcasts, fundingSide, OutgoingInv, CallsOK, FundingKept,
                RecordsHeld
  <2> QED
    BY <2>1, FundingStep, BroadcastRequested, PutEnds, CallStep, FaultStep DEF OutgoingNext
<1>3. OutgoingInv => SendableUntilSent
  BY DEF OutgoingInv, FundingKept, RecordsHeld, SendableUntilSent
<1> QED
  BY <1>1, <1>2, <1>3, PTL DEF OutgoingSpec

-----------------------------------------------------------------------------
(* Saving.  As long as no two saves overlapped there is one put at most,   *)
(* and what it read is what is stored.                                     *)

Put == [delta : Nat, read : {TRUE, FALSE}, base : SUBSET Nat]
PutTypes == deltas \in Nat /\ kept \subseteq Nat /\ puts \subseteq Put
OnePut == \A p, q \in puts : p = q
ReadIsKept == \A p \in puts : p.read => p.base = kept
SaveInv == PutTypes /\ (~overlap => OnePut /\ ReadIsKept)

SaveStep == SaveStaged \/ ReadChangeset \/ WriteChangeset
            \/ (UNCHANGED <<kept, overlap, deltas>> /\ puts' = {}) \/ UNCHANGED saving

\* What a step of the wallet does to the saves.
LEMMA WalletSaves ==
  ASSUME [OnchainNext]_onchainVars
  PROVE  SaveStep
<1>1. CASE ReadChangeset \/ WriteChangeset
  BY <1>1 DEF SaveStep
<1>2. CASE RevealAddress \/ Deposit \/ ChannelsChange \/ BumpSpends \/ SpliceLock
           \/ FundChannel \/ FundingSent
  BY <1>2 DEF SaveStep, saving, RevealAddress, Deposit, ChannelsChange, BumpSpends, SpliceLock,
              FundChannel, FundingSent, BeginPut
<1>3. CASE FullScan \/ TimerFires \/ SyncEnds \/ Reload
  BY <1>3 DEF SaveStep, saving, FullScan, TimerFires, SyncEnds, Reload, BeginPut
<1>4. CASE ReviewSend \/ ConfirmSend \/ LockSpend \/ BuildSpend
  BY <1>4 DEF SaveStep, saving, ReviewSend, ConfirmSend, LockSpend, BuildSpend
<1>5. CASE SendBroadcast
  BY <1>5 DEF SaveStep, saving, SendBroadcast, BeginPut
<1>6. CASE UNCHANGED onchainVars
  BY <1>6 DEF SaveStep, saving, onchainVars
<1> QED
  BY <1>1, <1>2, <1>3, <1>4, <1>5, <1>6 DEF OnchainNext

LEMMA SaveKept ==
  ASSUME SaveInv, SaveStep
  PROVE  SaveInv' /\ (~overlap => kept \subseteq kept')
<1>1. CASE SaveStaged
  <2>1. PICK p : p = [delta |-> deltas + 1, read |-> FALSE, base |-> {}]
    OBVIOUS
  <2>2. p \in Put /\ ~p.read
    <3>1. deltas + 1 \in Nat
      BY DEF SaveInv, PutTypes
    <3>2. {} \in SUBSET Nat /\ FALSE \in {TRUE, FALSE}
      OBVIOUS
    <3> QED
      BY <2>1, <3>1, <3>2 DEF Put
  <2>3. /\ puts' = puts \cup {p} /\ deltas' = deltas + 1 /\ kept' = kept
        /\ overlap' = (overlap \/ puts # {})
    BY <1>1, <2>1 DEF SaveStaged
  <2>4. PutTypes'
    BY <2>2, <2>3 DEF SaveInv, PutTypes
  <2>5. ~overlap' => puts' = {p} /\ kept' = kept
    BY <2>3
  <2> QED
    BY <2>2, <2>3, <2>4, <2>5 DEF SaveInv, OnePut, ReadIsKept
<1>2. CASE ReadChangeset
  <2>1. PICK p \in puts : puts' = (puts \ {p}) \cup {[p EXCEPT !.read = TRUE, !.base = kept]}
    BY <1>2 DEF ReadChangeset
  <2>2. UNCHANGED <<deltas, kept, overlap>>
    BY <1>2 DEF ReadChangeset
  <2>3. PICK q : q = [p EXCEPT !.read = TRUE, !.base = kept]
    OBVIOUS
  <2>4. q \in Put /\ q.base = kept
    BY <2>1, <2>3 DEF SaveInv, PutTypes, Put
  <2>5. PutTypes'
    BY <2>1, <2>2, <2>3, <2>4 DEF SaveInv, PutTypes
  <2>6. ~overlap => puts' = {q}
    BY <2>1, <2>3 DEF SaveInv, OnePut
  <2> QED
    BY <2>2, <2>4, <2>5, <2>6 DEF SaveInv, OnePut, ReadIsKept
<1>3. CASE WriteChangeset
  <2>1. PICK p \in puts : /\ p.read /\ puts' = puts \ {p}
                          /\ kept' = Merged(p) \/ UNCHANGED kept
    BY <1>3 DEF WriteChangeset
  <2>2. UNCHANGED <<deltas, overlap>>
    BY <1>3 DEF WriteChangeset
  <2>3. Merged(p) \subseteq Nat
    BY <2>1 DEF Merged, SaveInv, PutTypes, Put
  <2>4. PutTypes'
    BY <2>1, <2>2, <2>3 DEF SaveInv, PutTypes
  <2>5. ~overlap => puts' = {} /\ p.base = kept
    BY <2>1 DEF SaveInv, OnePut, ReadIsKept
  <2> QED
    BY <2>1, <2>2, <2>4, <2>5 DEF SaveInv, OnePut, ReadIsKept, Merged
<1>4. CASE (UNCHANGED <<kept, overlap, deltas>> /\ puts' = {}) \/ UNCHANGED saving
  BY <1>4 DEF saving, SaveInv, PutTypes, OnePut, ReadIsKept
<1> QED
  BY <1>1, <1>2, <1>3, <1>4 DEF SaveStep

(* As long as no two saves were in flight at once, nothing that was stored  *)
(* of the wallet leaves the store: each save merges into what it finds,     *)
(* and what it finds is still there when it writes.  (changeset.ts: get,    *)
(* merge and put with an await in between)                                  *)
THEOREM SavesAdd == OnchainSpec => DeltaKept
<1>1. OnchainInit => SaveInv
  BY DEF OnchainInit, SaveInv, PutTypes, OnePut, ReadIsKept
<1>2. SaveInv /\ [OnchainNext]_onchainVars => SaveInv'
  BY WalletSaves, SaveKept
<1>3. SaveInv /\ [OnchainNext]_onchainVars => [~overlap => kept \subseteq kept']_onchainVars
  BY WalletSaves, SaveKept
<1> QED
  BY <1>1, <1>2, <1>3, PTL DEF OnchainSpec, DeltaKept
==============================================================================
