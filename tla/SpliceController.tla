-------------------------- MODULE SpliceController --------------------------
(***************************************************************************)
(* Adding on-chain funds to the provider channel: SpliceController's own   *)
(* serial queue and stored state, LDK's side of the splice, and everybody  *)
(* else who may spend the coin the splice was quoted with: the on-chain    *)
(* send, a channel opening, the CPFP wallet source and the subsidized      *)
(* sweep.  One coin is enough: the question is who signs it away.          *)
(*                                                                         *)
(* The module composes with StableClient: starting a splice looks at the   *)
(* client's state, a locked splice rebinds the position and allocates the  *)
(* added balance through the client's queue.                               *)
(***************************************************************************)
EXTENDS StableClient

VARIABLES
  sjob,                  \* the running job of the controller's queue
  squote,                \* reviewedQuote: taken, and still this channel funding
  ls,                    \* LDK's splice: its stage, its transaction, its number
  submitted,             \* submittedHash, in memory
  reserved,              \* the coin is in the reservation set, in memory
  lock,                  \* owner of the wallet-spend lock
  opening,               \* LDK waits for the funding of a channel we open
  coin,                  \* "free", or who else broadcast a spend of it
  tracked                \* the wallet knows the splice spends the coin

spliceVars == <<sjob, squote, ls, submitted, reserved, lock, opening, coin, tracked>>
allVars == <<storeVars, queueVars, faults, sess, clientVars, spliceVars>>

P == mem["splice"]
Signed(p) == p.tx # 0
NoLdkSplice == [st |-> "none", tx |-> 0]
SIdle == "idle"
SignatureOut == ls.st \in {"signed", "pending"}    \* LDK has our signature

(* runtime.ts canStart; list_channels() holds a channel still being funded *)
CanStart ==
  /\ CanSend /\ S.enabled /\ ~S.paused /\ ~HasPending(S) /\ S.inbox = <<>>
  /\ ~opening /\ job = Idle

Unspent == coin = "free" /\ ~tracked

(* updateReservations: the inputs of a pending splice; the mutant reserves  *)
(* them from the signature on                                               *)
ReservesOnceSigned(p) == p.status \in {"signed", "pending"}
Reserves(p) == SplicePending(p)

PutSplice(next, out) ==
  /\ Save("splice", next, out)
  /\ reserved' = IF out \in {"ok", "local"} THEN Reserves(next) ELSE reserved

nonStore == <<queueVars, sess, clientVars>>

(* createQuote: the coin is confirmed, ours and not reserved *)
QuoteSplice ==
  /\ ls.tx < scope.splices /\ sess = "up" /\ sjob = SIdle /\ ~squote
  /\ ~SplicePending(P) /\ CanStart /\ chan.id # 0 /\ ls.st = "none"
  /\ Unspent /\ ~reserved
  /\ squote' = TRUE
  /\ UNCHANGED <<storeVars, faults, nonStore, sjob, ls, submitted, reserved, lock, opening,
                 coin, tracked>>

(* commit: the spend lock is held from here to the end *)
CommitSplice ==
  /\ sess = "up" /\ sjob = SIdle /\ squote /\ lock = "none"
  /\ ~SplicePending(P) /\ CanStart /\ chan.id # 0 /\ Unspent
  /\ lock' = "splice" /\ sjob' = "verify"
  /\ UNCHANGED <<storeVars, faults, nonStore, squote, ls, submitted, reserved, opening,
                 coin, tracked>>

EndCommit == lock' = "none" /\ sjob' = SIdle

(* esplora reports the coin spent, or cannot be reached *)
VerifyFails ==
  /\ sjob = "verify" /\ EndCommit /\ squote' = FALSE
  /\ UNCHANGED <<storeVars, faults, nonStore, ls, submitted, reserved, opening, coin, tracked>>

(* "prepared" is saved, then LDK takes or refuses the splice *)
PrepareSplice ==
  /\ sjob = "verify" /\ coin = "free" /\ squote' = FALSE
  /\ \E out \in Saves :
       /\ PutSplice([status |-> "prepared", tx |-> 0, new |-> FALSE, conv |-> "waiting"], out)
       /\ IF out = "ok"
          THEN \/ /\ ls' = [st |-> "negotiating", tx |-> ls.tx + 1]
                  /\ sjob' = "started" /\ UNCHANGED lock
               \/ sjob' = "refused" /\ UNCHANGED <<ls, lock>>
          ELSE EndCommit /\ UNCHANGED ls
  /\ UNCHANGED <<nonStore, submitted, opening, coin, tracked>>

(* the last save of commit: failed, or negotiating and then persistManager,  *)
(* which may fail without undoing anything                                   *)
FinishCommit ==
  /\ sjob \in {"started", "refused"}
  /\ \E out \in Saves :
       /\ PutSplice([P EXCEPT !.status = IF sjob = "started" THEN "negotiating" ELSE "failed"], out)
       /\ \/ UNCHANGED unsaved
          \/ out = "ok" /\ sjob = "started" /\ unsaved' = <<>>
  /\ EndCommit
  /\ UNCHANGED <<evq, gate, sess, clientVars, squote, ls, submitted, opening, coin, tracked>>

(* A splice can be cancelled until it is signed; the mutant forgets that *)
CancellableAlways == SplicePending(P)
Cancellable == SplicePending(P) /\ ~Signed(P)

(* cancelUnsigned: drop the connection, store the manager, then save *)
CancelUnsigned ==
  /\ sess = "up" /\ sjob = SIdle /\ Cancellable
  /\ IF ls.st \in {"negotiating", "signing"}
     THEN ls' = [ls EXCEPT !.st = "none"] /\ Emit([t |-> "sfail"])
     ELSE UNCHANGED <<ls, evq>>
  /\ \/ sjob' = "cancel" /\ unsaved' = <<>> /\ UNCHANGED faults
     \/ Fault /\ UNCHANGED <<sjob, unsaved>>
  /\ UNCHANGED <<gate, storeVars, sess, clientVars, squote, submitted, reserved, lock,
                 opening, coin, tracked>>

FinishCancel ==
  /\ sjob = "cancel"
  /\ \E out \in Saves : PutSplice([P EXCEPT !.status = "failed"], out)
  /\ sjob' = SIdle
  /\ UNCHANGED <<nonStore, squote, ls, submitted, lock, opening, coin, tracked>>

-----------------------------------------------------------------------------
(* handle(event), run by the gate's work for a splice event                 *)

SpliceEvents == {"sign", "spending", "sfail", "ready"}

HandleStart(t) ==
  sess = "up" /\ sjob = SIdle /\ gate = "pending" /\ evq # <<>> /\ Head1.t = t

handleFrame == <<sess, clientVars, squote, lock, opening, coin>>

(* the event is for no pending splice: ignored, except an unapproved signing *)
HandleIdle ==
  /\ \E t \in SpliceEvents : HandleStart(t)
  /\ ~SplicePending(P)
  /\ GateSettles(\/ P.status = "failed" /\ ~Signed(P)
                 \/ Head1.t # "sign"
                 \/ P.status = "complete" /\ P.tx = Head1.tx)
  /\ UNCHANGED <<storeVars, faults, handleFrame, sjob, ls, submitted, reserved, tracked>>

(* a signing request for another transaction than the one already signed, or *)
(* one whose inputs cannot be verified: the event stays with LDK             *)
HandleSignRefused ==
  /\ HandleStart("sign") /\ SplicePending(P)
  /\ Signed(P) => P.tx # Head1.tx
  /\ GateSettles(FALSE)
  /\ UNCHANGED <<storeVars, faults, handleFrame, sjob, ls, submitted, reserved, tracked>>

(* sign once, and save the signed transaction before LDK gets it *)
HandleSign ==
  /\ HandleStart("sign") /\ SplicePending(P) /\ ~Signed(P)
  /\ \E out \in Saves :
       /\ PutSplice([P EXCEPT !.status = "signed", !.tx = Head1.tx], out)
       /\ IF out = "ok" THEN sjob' = "submit" /\ UNCHANGED <<queueVars>>
          ELSE GateSettles(FALSE) /\ UNCHANGED sjob
  /\ UNCHANGED <<handleFrame, ls, submitted, tracked>>

HandleSignAgain ==
  /\ HandleStart("sign") /\ SplicePending(P) /\ P.tx = Head1.tx
  /\ sjob' = "submit"
  /\ UNCHANGED <<storeVars, queueVars, faults, handleFrame, ls, submitted, reserved, tracked>>

(* funding_transaction_signed; LDK not expecting signatures is tolerated;    *)
(* then persistManager, whose failure leaves the event with LDK              *)
SubmitSigned ==
  /\ sjob = "submit" /\ sjob' = SIdle
  /\ \/ /\ submitted # P.tx /\ ls.st = "signing" /\ ls.tx # P.tx
        /\ GateSettles(FALSE) /\ UNCHANGED <<ls, submitted, faults, tracked>>
     \/ /\ ~(submitted # P.tx /\ ls.st = "signing" /\ ls.tx # P.tx)
        /\ submitted' = P.tx
        /\ ls' = IF submitted # P.tx /\ ls.st = "signing" THEN [ls EXCEPT !.st = "signed"] ELSE ls
        /\ \/ /\ gate' = "done" /\ unsaved' = <<>> /\ UNCHANGED <<evq, faults>>
              /\ tracked' = (tracked \/ P.new)
           \/ GateSettles(FALSE) /\ Fault /\ UNCHANGED tracked
  /\ UNCHANGED <<storeVars, handleFrame, reserved>>

HandlePending ==
  /\ HandleStart("spending") /\ SplicePending(P)
  /\ \E out \in Saves :
       /\ PutSplice([P EXCEPT !.status = "pending", !.new = TRUE], out)
       /\ GateSettles(out = "ok")
       /\ tracked' = (tracked \/ (out = "ok" /\ Signed(P)))
  /\ UNCHANGED <<handleFrame, sjob, ls, submitted>>

HandleFailed ==
  /\ HandleStart("sfail") /\ SplicePending(P)
  /\ \E out \in Saves :
       PutSplice([P EXCEPT !.status = "failed"], out) /\ GateSettles(out = "ok")
  /\ UNCHANGED <<handleFrame, sjob, ls, submitted, tracked>>

(* reconcileReady, from a ready event or the tick: track, rebind through the *)
(* client's queue, then save complete                                        *)
Locked == SplicePending(P) /\ P.new /\ ls.st = "locked" /\ chan.id # 0

HandleReady ==
  /\ HandleStart("ready") /\ SplicePending(P)
  /\ IF Locked
     THEN sjob' = "rebind" /\ tracked' = (tracked \/ Signed(P)) /\ UNCHANGED queueVars
     ELSE GateSettles(TRUE) /\ UNCHANGED <<sjob, tracked>>
  /\ UNCHANGED <<storeVars, faults, handleFrame, ls, submitted, reserved>>

SpliceTick ==
  /\ sess = "up" /\ sjob = SIdle /\ Locked
  /\ sjob' = "tickrebind" /\ tracked' = (tracked \/ Signed(P))
  /\ UNCHANGED <<storeVars, queueVars, faults, handleFrame, ls, submitted, reserved>>

FromEvent == sjob \in {"rebind", "complete"}
JobThrows == IF FromEvent THEN GateSettles(FALSE) ELSE UNCHANGED queueVars

(* rebindSplicedChannel: a job of the client *)
Rebind ==
  /\ sjob \in {"rebind", "tickrebind"} /\ Start
  /\ \/ /\ HasPending(S) \/ S.inbox # <<>>
        /\ sjob' = SIdle /\ JobThrows
        /\ UNCHANGED <<storeVars, faults, quote>>
     \/ /\ ~HasPending(S) /\ S.inbox = <<>>
        /\ IF ~HasPosition(S) \/ S.pos.chan = chan.id
           THEN /\ sjob' = IF FromEvent THEN "complete" ELSE "tickcomplete"
                /\ UNCHANGED <<storeVars, faults, quote, queueVars>>
           ELSE \E out \in Saves :
                  /\ Put([S EXCEPT !.pos.chan = chan.id], out)
                  /\ IF out = "ok"
                     THEN /\ sjob' = IF FromEvent THEN "complete" ELSE "tickcomplete"
                          /\ UNCHANGED queueVars
                     ELSE sjob' = SIdle /\ JobThrows
  /\ UNCHANGED <<sess, scope, price, chan, job, newpay, pays, intents, msgs, owed, provider,
                 applied, twice, dropped, squote, ls, submitted, reserved, lock, opening,
                 coin, tracked>>

SaveComplete ==
  /\ sjob \in {"complete", "tickcomplete"} /\ sjob' = SIdle
  /\ \E out \in Saves :
       /\ PutSplice([P EXCEPT !.status = "complete"], out)
       /\ IF FromEvent THEN GateSettles(out = "ok") ELSE UNCHANGED queueVars
  /\ UNCHANGED <<handleFrame, ls, submitted, tracked>>

-----------------------------------------------------------------------------
(* tick after completion: allocateAll, a client job that first marks the     *)
(* conversion attempted and then trades                                      *)

AllocateAll ==
  /\ sjob = SIdle /\ Start
  /\ P.status = "complete" /\ P.conv = "waiting" /\ ~S.paused
  /\ intents < scope.intents /\ \E t \in 0 .. 1 : t > S.pos.target /\ Quotable(S, t)
  /\ sjob' = "alloc" /\ job' = [Idle EXCEPT !.k = "alloc", !.pc = "before"]
  /\ UNCHANGED <<storeVars, queueVars, faults, sess, scope, price, chan, quote, newpay, pays,
                 intents, msgs, owed, provider, applied, twice, dropped, squote, ls,
                 submitted, reserved, lock, opening, coin, tracked>>

AllocAttempted ==
  /\ sjob = "alloc" /\ job.pc = "before"
  /\ \E out \in Saves :
       /\ PutSplice([P EXCEPT !.conv = "attempted"], out)
       /\ IF out = "ok" THEN job' = [job EXCEPT !.pc = "quoted"] /\ UNCHANGED sjob
          ELSE job' = Idle /\ sjob' = SIdle
  /\ UNCHANGED <<queueVars, sess, scope, price, chan, quote, newpay, pays, intents, msgs,
                 owed, provider, applied, twice, dropped, squote, ls, submitted, lock,
                 opening, coin, tracked>>

AllocTrade ==
  /\ sjob = "alloc" /\ job.pc = "quoted"
  /\ IF Quotable(S, 1)
     THEN /\ SavePending("alloc", NewIntent("trade", 1, Backing(S, 1), 0), <<"splice", P.tx>>)
          /\ UNCHANGED sjob
     ELSE /\ job' = Idle /\ sjob' = SIdle
          /\ UNCHANGED <<storeVars, faults, frame, quote>>
  /\ UNCHANGED <<squote, ls, submitted, reserved, lock, opening, coin, tracked>>

AllocDone ==
  /\ sjob = "alloc" /\ job = Idle /\ sjob' = SIdle
  /\ IF \E in \in newpay \cup pays \cup owed : in.id = intents
     THEN \E out \in Saves : PutSplice([P EXCEPT !.conv = "done"], out)
     ELSE UNCHANGED <<storeVars, faults, reserved>>
  /\ UNCHANGED <<nonStore, squote, ls, submitted, lock, opening, coin, tracked>>

-----------------------------------------------------------------------------
(* LDK's side                                                                *)

DeliverSplice ==
  /\ sess # "off" /\ evq # <<>> /\ Head1.t \in SpliceEvents
  /\ \/ gate = "none" /\ sess = "up" /\ gate' = "pending" /\ UNCHANGED <<evq, unsaved>>
     \/ /\ gate = "done" \/ (gate = "none" /\ sess = "recovering" /\ Head1.t = "ready")
        /\ Acknowledge
  /\ UNCHANGED <<storeVars, faults, sess, clientVars, spliceVars>>

ldkFrame == <<storeVars, faults, sess, scope, price, job, quote, newpay, pays, intents, msgs,
              owed, provider, applied, twice, dropped, gate, unsaved, sjob, squote,
              submitted, reserved, lock, opening, coin, tracked>>

Negotiated ==
  /\ ls.st = "negotiating" /\ ls' = [ls EXCEPT !.st = "signing"]
  /\ Emit([t |-> "sign", tx |-> ls.tx])
  /\ UNCHANGED <<ldkFrame, chan>>

NegotiationFails ==
  /\ ls.st \in {"negotiating", "signing"}
  /\ ls' = [ls EXCEPT !.st = "none"] /\ Emit([t |-> "sfail"])
  /\ UNCHANGED <<ldkFrame, chan>>

SignaturesExchanged ==
  /\ ls.st = "signed" /\ ls' = [ls EXCEPT !.st = "pending"]
  /\ Emit([t |-> "spending"])
  /\ UNCHANGED <<ldkFrame, chan>>

(* the splice confirms, if nothing else spent its input *)
SpliceLocks ==
  /\ ls.st = "pending" /\ coin = "free"
  /\ ls' = [ls EXCEPT !.st = "locked"] /\ Emit([t |-> "ready"])
  /\ \E id \in {chan.id, 2} : chan.id # 0 /\ chan' = [id |-> id, bal |-> chan.bal + 1]
  /\ UNCHANGED ldkFrame

-----------------------------------------------------------------------------
(* The other spenders of the coin                                            *)

spendFrame == <<storeVars, queueVars, faults, sess, clientVars, sjob, squote, ls, submitted,
                reserved, tracked>>

(* onchain/context.tsx buildSignBroadcast: the lock, then the stored splice *)
BeginSend ==
  /\ "coins" \in scope.env /\ sess # "off" /\ lock = "none" /\ lock' = "send"
  /\ UNCHANGED <<spendFrame, opening, coin>>

FinishSend ==
  /\ lock = "send" /\ lock' = "none"
  /\ coin' = IF Unspent /\ ~SplicePending(disk["splice"]) THEN "send" ELSE coin
  /\ UNCHANGED <<spendFrame, opening>>

(* bdk-wallet-source.ts: no coin while the lock is held, none reserved *)
BumpFee ==
  /\ "coins" \in scope.env /\ sess # "off" /\ lock = "none" /\ Unspent /\ ~reserved
  /\ coin' = "bump" /\ UNCHANGED <<spendFrame, opening, lock>>

(* createChannel: with no runtime, assertNoPendingStableOperation passes *)
CreateChannel ==
  /\ "coins" \in scope.env /\ sess # "off" /\ ~opening /\ lock = "none"
  /\ sess = "up" => ~BlocksOrdinaryPayments /\ ~SplicePending(P)
  /\ opening' = TRUE /\ UNCHANGED <<spendFrame, coin, lock>>

(* FundingGenerationReady: selects and signs outside the lock *)
FundChannel ==
  /\ opening /\ sess # "off" /\ opening' = FALSE
  /\ coin' = IF Unspent THEN "open" ELSE coin
  /\ UNCHANGED <<spendFrame, lock>>

(* subsidized-sweep.ts: neither the lock nor the reservations *)
SubsidizeSweep ==
  /\ "coins" \in scope.env /\ sess # "off" /\ Unspent
  /\ coin' = "sweep" /\ UNCHANGED <<spendFrame, opening, lock>>

-----------------------------------------------------------------------------
SpliceInit ==
  /\ sjob = SIdle /\ squote = FALSE /\ ls = NoLdkSplice /\ submitted = 0
  /\ reserved = FALSE /\ lock = "none" /\ opening = FALSE /\ coin = "free" /\ tracked = FALSE

(* LDK restarts from the stored manager, which is older than a splice that   *)
(* began after a failure it still holds                                      *)
OlderManager == \E i \in DOMAIN unsaved : unsaved[i].t = "sfail"

(* What LDK had not stored of the splice is gone or back at signing *)
CrashAll ==
  /\ Crash
  /\ sjob' = SIdle /\ squote' = FALSE /\ submitted' = 0 /\ reserved' = FALSE
  /\ lock' = "none" /\ opening' = FALSE
  /\ \/ ls.st # "negotiating" /\ ~(OlderManager /\ SignatureOut) /\ UNCHANGED ls
     \/ /\ ls.st = "negotiating" \/ (OlderManager /\ ls.st # "locked")
        /\ ls' = [ls EXCEPT !.st = "none"]
     \/ /\ ls.st = "signed" /\ \E i \in DOMAIN evq : evq[i].t = "sign" /\ evq[i].tx = ls.tx
        /\ ls' = [ls EXCEPT !.st = "signing"]
  /\ UNCHANGED <<coin, tracked>>

(* init.ts: reservations come from IndexedDB before the runtime loads *)
OpenAll ==
  /\ Open /\ reserved' = SplicePending(disk["splice"])
  /\ UNCHANGED <<sjob, squote, ls, submitted, lock, opening, coin, tracked>>

StartAll ==
  /\ StartRuntime /\ reserved' = SplicePending(rem["splice"])
  /\ UNCHANGED <<sjob, squote, ls, submitted, lock, opening, coin, tracked>>

SpliceNext ==
  \/ QuoteSplice \/ CommitSplice \/ VerifyFails \/ PrepareSplice \/ FinishCommit
  \/ CancelUnsigned \/ FinishCancel
  \/ HandleIdle \/ HandleSignRefused \/ HandleSign \/ HandleSignAgain \/ SubmitSigned
  \/ HandlePending \/ HandleFailed \/ HandleReady \/ SpliceTick \/ Rebind \/ SaveComplete
  \/ AllocateAll \/ AllocAttempted \/ AllocTrade \/ AllocDone
  \/ DeliverSplice \/ Negotiated \/ NegotiationFails \/ SignaturesExchanged \/ SpliceLocks
  \/ BeginSend \/ FinishSend \/ BumpFee \/ CreateChannel \/ FundChannel \/ SubsidizeSweep

SystemNext ==
  \/ ClientNext /\ UNCHANGED spliceVars
  \/ SpliceNext
  \/ CrashAll \/ OpenAll \/ StartAll

SystemInit == StoreInit /\ ClientInit /\ SpliceInit
System == SystemInit /\ [][SystemNext]_allVars

(* Once LDK has our signature on a splice, the stored state names exactly   *)
(* that transaction and keeps its inputs: a crash, a lost answer or a       *)
(* replayed event never leaves a signed splice the wallet has forgotten.    *)
SignedIsSaved ==
  SignatureOut => rem["splice"].tx = ls.tx /\ SplicePending(rem["splice"])

(* The spenders that look at the lock and the reservations (the on-chain    *)
(* send and the CPFP wallet source) never spend an input of a splice we     *)
(* signed, through crashes and the time before the runtime is loaded.       *)
SpareSplicedCoin == SignatureOut => coin \notin {"send", "bump"}

(* What spend-lock.ts says: one owner at a time selects and signs inputs,   *)
(* channel funding included, so nobody else spends a signed splice's input. *)
OneSpender == SignatureOut => coin = "free"
=============================================================================
