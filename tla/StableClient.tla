---------------------------- MODULE StableClient ----------------------------
(***************************************************************************)
(* The stable balance: StableClient's serial queue of jobs over its stored *)
(* state, the keysend of stable/ldk.ts, the payment callback and update    *)
(* loop of stable/runtime.ts.  LDK and the provider are environment.       *)
(*                                                                         *)
(* One job runs at a time.  A job is cut at the awaits after which another *)
(* actor can see or change something: each save, and the payment-history   *)
(* write before the keysend.  Dollars and sats are small integers; "price" *)
(* is sats per dollar, 0 when no fresh consensus exists.                   *)
(***************************************************************************)
EXTENDS StableStore

CONSTANT StartSats       \* the provider channel's opening balance
ASSUME ClientBounds == StartSats \in Nat

VARIABLES
  price,                 \* the client's price, 0 = none, expired or quarantined
  chan,                  \* the provider channel: id (0 = none) and receiverSats
  job,                   \* the running job of the serial queue
  quote,                 \* the reviewed quote a page or caller holds
  newpay, pays,          \* keysends LDK holds: not yet durable, in flight
  intents,               \* intents prepared so far
  msgs,                  \* provider payments so far
  owed,                  \* trades the provider took payment for and must answer
  provider,              \* the provider's version and target
  applied, twice,        \* history: effects on the position, one seen twice
  dropped                \* history: messages in LDK's queue refused by rule

clientVars == <<scope, price, chan, job, quote, newpay, pays, intents, msgs,
                owed, provider, applied, twice, dropped>>

NoIntent == [id |-> 0, kind |-> "none", chan |-> 0, target |-> 0,
             backing |-> 0, amt |-> 0, sent |-> FALSE]
NoPosition == [chan |-> 0, target |-> 0, backing |-> 0, sync |-> 0,
               receipts |-> {}]
InitialState == [enabled |-> FALSE, paused |-> FALSE, pos |-> NoPosition,
                 pend |-> NoIntent, inbox |-> <<>>, first |-> "none"]
Idle == [k |-> "idle", pc |-> "", in |-> NoIntent]
NoQuote == [target |-> 0, backing |-> 0, ok |-> FALSE]

S == mem["stable"]
HasPosition(s) == s.pos.chan # 0
HasPending(s) == s.pend.id # 0

(* splice.ts: a splice that is neither complete nor failed *)
SplicePending(p) == p.status \in {"prepared", "negotiating", "signed", "pending"}

CanSend == newpay \cup pays = {} /\ ~SplicePending(mem["splice"])

ReadyChannel ==
  /\ S.enabled /\ chan.id # 0
  /\ HasPosition(S) => S.pos.chan = chan.id

BlocksOrdinaryPayments ==
  \/ job.pc \in {"pending", "persisted"}
  \/ HasPending(S) \/ S.first = "received" \/ S.inbox # <<>>

CanPrepareFirstReceive ==
  ~HasPosition(S) /\ ~HasPending(S) /\ ~S.paused
    /\ S.first \notin {"received", "attempted"}

-----------------------------------------------------------------------------
(* math.ts at whole sats per dollar, without the fee and the thresholds     *)

Equilibrium(target) == target * price

Backing(s, target) ==
  IF target = 0 THEN 0
  ELSE s.pos.backing + Equilibrium(target) - Equilibrium(s.pos.target)

Quotable(s, target) ==
  /\ sess = "up" /\ CanSend /\ ReadyChannel /\ price # 0
  /\ ~HasPending(s) /\ s.inbox = <<>>
  /\ target # s.pos.target
  /\ target = 0 => s.pos.backing = Equilibrium(s.pos.target)
  /\ Backing(s, target) \in (IF target = 0 THEN 0 ELSE 1) .. chan.bal

LeastOf(a, b) == IF a < b THEN a ELSE b

ReceivedBacking(pos, sats) ==
  IF pos.backing >= Equilibrium(pos.target) THEN pos.backing
  ELSE LeastOf(LeastOf(pos.backing + sats, Equilibrium(pos.target)), chan.bal)

-----------------------------------------------------------------------------
(* Jobs.  Ending a job frees the queue; a save that changes the state makes *)
(* every quote taken before it stale (its baseline revision differs).       *)

StaleQuote == quote' = [quote EXCEPT !.ok = FALSE]
Start == sess = "up" /\ ~unflushed /\ job = Idle

Put(next, out) == Save("stable", next, out) /\ StaleQuote

frame == <<scope, price, chan, newpay, pays, intents, msgs, owed, provider,
           applied, twice, dropped, sess, evq, gate, unsaved>>

(* enable, pause and prepareFirstReceive: one save *)
SettingsChange(next, guard) ==
  /\ Start /\ guard
  /\ \E out \in Saves : Put(next, out)
  /\ UNCHANGED <<frame, job>>

Enable == SettingsChange([S EXCEPT !.enabled = TRUE], ~S.enabled)
Pause == SettingsChange([S EXCEPT !.paused = ~S.paused], S.enabled /\ "pause" \in scope.env)
PrepareFirstReceive ==
  SettingsChange([S EXCEPT !.enabled = TRUE, !.first = "prepared"],
                 CanPrepareFirstReceive /\ S.first = "none" /\ "first" \in scope.env)
(* clearClosedPosition(): the version and the receipts go with the position *)
(* (history: noted if the channel lives on under another id, as it does     *)
(* between a splice and the rebind)                                         *)
ClearClosedPosition ==
  /\ Start /\ HasPosition(S) /\ chan.id # S.pos.chan
  /\ ~HasPending(S) /\ S.inbox = <<>>
  /\ \E out \in Saves :
       /\ Put([S EXCEPT !.pos = NoPosition], out)
       /\ applied' = applied \cup (IF chan.id # 0 /\ out # "refused" THEN {<<"cleared">>} ELSE {})
  /\ UNCHANGED <<scope, price, chan, newpay, pays, intents, msgs, owed, provider,
                 twice, dropped, sess, evq, gate, unsaved, job>>

(* refresh(): a new consensus, or none; a quote of the old price is stale *)
Refresh ==
  /\ Start /\ S.enabled
  /\ \E p \in scope.prices \cup {0} : p # price /\ price' = p
  /\ StaleQuote
  /\ UNCHANGED <<storeVars, queueVars, faults, sess, scope, chan, job, newpay, pays,
                 intents, msgs, owed, provider, applied, twice, dropped>>

(* quote(): read-only, taken by a page at any time *)
TakeQuote ==
  \E t \in 0 .. 1 :
    /\ Quotable(S, t) /\ ~quote.ok
    /\ quote' = [target |-> t, backing |-> Backing(S, t), ok |-> TRUE]
    /\ UNCHANGED <<storeVars, faults, frame, job>>

NewIntent(kind, target, backing, amt) ==
  [id |-> intents + 1, kind |-> kind, chan |-> chan.id, target |-> target,
   backing |-> backing, amt |-> amt, sent |-> FALSE]

(* History: effects on the position are recorded by identity: a settlement  *)
(* sent or received, a sync version accepted, a balance put up for trade.   *)

Effect(out, what) ==
  IF out \in {"ok", "local", "lost"}
  THEN /\ applied' = applied \cup {what}
       /\ twice' = (twice \/ what \in applied)
  ELSE UNCHANGED <<applied, twice>>

(* What send() does after its save; the mutant goes on after a failed one *)
AfterSaveRegardless(kind, in, out) == [k |-> kind, pc |-> "pending", in |-> in]

AfterSave(kind, in, out) ==
  IF out = "ok" THEN [k |-> kind, pc |-> "pending", in |-> in] ELSE Idle

(* send(): the intent is saved before anything leaves the wallet *)
SavePending(kind, in, what) ==
  /\ intents < scope.intents
  /\ intents' = intents + 1
  /\ LET next == [S EXCEPT !.pend = in,
                    !.first = IF in.kind = "trade" /\ @ = "received"
                              THEN "attempted" ELSE @]
     IN \E out \in Saves :
          /\ Put(next, out)
          /\ Effect(out, what)
          /\ job' = AfterSave(kind, in, out)
  /\ UNCHANGED <<scope, price, chan, newpay, pays, msgs, owed, provider, dropped,
                 sess, queueVars>>

(* commit(quote): only the quote that was reviewed *)
CommitTrade ==
  /\ Start /\ quote.ok
  /\ Quotable(S, quote.target) /\ quote.backing = Backing(S, quote.target)
  /\ SavePending("trade", NewIntent("trade", quote.target, quote.backing, 0),
                 <<"intent", intents>>)

(* autoConvertFirstReceive: allocate the first receive, once *)
AutoConvert ==
  /\ Start
  /\ S.first = "received" /\ ~HasPosition(S) /\ ~HasPending(S) /\ ~S.paused
  /\ Quotable(S, 1)
  /\ SavePending("auto", NewIntent("trade", 1, Backing(S, 1), 0), <<"first", 0>>)

(* tick(): the settlement due after its applyInbox *)
SettleTick ==
  /\ Start /\ S.inbox = <<>>
  /\ S.enabled /\ ~S.paused /\ HasPosition(S) /\ ~HasPending(S) /\ S.pos.target # 0
  /\ CanSend /\ ReadyChannel /\ price # 0
  /\ S.pos.backing <= chan.bal
  /\ S.pos.backing > Equilibrium(S.pos.target)
  /\ LET sats == S.pos.backing - Equilibrium(S.pos.target)
     IN SavePending("tick", NewIntent("settlement", S.pos.target,
                                      S.pos.backing - sats, sats),
                    <<"intent", intents>>)

(* The intent is withdrawn: nothing was sent *)
Withdraw ==
  /\ \E out \in Saves : Put([S EXCEPT !.pend = NoIntent], out)
  /\ job' = Idle
  /\ UNCHANGED frame

(* requireSend fails after the save: the tab was hidden, the chain or the   *)
(* backup became stale, or another payment is pending                       *)
SendNotReady == job.pc = "pending" /\ Withdraw

(* sendStableKeysend up to the payment-history write *)
PersistHistory ==
  /\ job.pc = "pending" /\ CanSend
  /\ chan.id = job.in.chan /\ job.in.amt <= chan.bal
  /\ job' = [job EXCEPT !.pc = "persisted"]
  /\ UNCHANGED <<storeVars, faults, frame, quote>>

CapacityChanged ==
  \/ chan.id # job.in.chan
  \/ job.in.backing + job.in.amt > chan.bal

(* The history write fails: not a StableSendRejected, the intent stays *)
HistoryFails ==
  /\ job.pc = "pending" /\ CanSend
  /\ Fault /\ job' = Idle
  /\ UNCHANGED <<storeVars, frame, quote>>

(* Wallet or channel changed across the write, or LDK refuses the payment *)
SendRejected ==
  /\ \/ job.pc = "pending" /\ (chan.id # job.in.chan \/ job.in.amt > chan.bal)
     \/ job.pc = "persisted"
  /\ Withdraw

SendKeysend ==
  /\ job.pc = "persisted" /\ CanSend /\ ~CapacityChanged
  /\ newpay' = newpay \cup {job.in}
  /\ chan' = [chan EXCEPT !.bal = @ - job.in.amt]
  /\ job' = Idle
  /\ UNCHANGED <<storeVars, queueVars, faults, quote, sess, scope, price, pays, intents,
                 msgs, owed, provider, applied, twice, dropped>>

-----------------------------------------------------------------------------
(* handles(event): evaluated by the callback and again by the job *)
Handles(e) ==
  /\ S.enabled
  /\ CASE e.t \in {"sent", "failed"} -> S.pend.id = e.id
       [] e.t = "recv" -> e.m.kind # "first" \/ S.first = "prepared"
       [] OTHER -> FALSE

Received(s, pid) ==
  \/ \E r \in s.pos.receipts : r[1] = pid
  \/ \E i \in DOMAIN s.inbox : s.inbox[i].pid = pid

eventFrame == <<scope, price, chan, newpay, pays, intents, msgs, owed, provider,
                sess>>

(* onPayment for an outcome of the pending intent *)
OnOutcome(e, out) ==
  IF ~Handles(e)
  THEN GateSettles(TRUE) /\ UNCHANGED <<storeVars, faults, quote, applied, twice>>
  ELSE LET next == IF e.t = "failed" THEN [S EXCEPT !.pend = NoIntent]
                   ELSE IF S.pend.kind = "trade" THEN [S EXCEPT !.pend.sent = TRUE]
                   ELSE [S EXCEPT !.pend = NoIntent, !.pos.backing = S.pend.backing]
       IN /\ Put(next, out)
          /\ GateSettles(out = "ok")
          /\ IF e.t = "sent" /\ S.pend.kind = "settlement"
             THEN Effect(out, <<"paid", e.id>>) ELSE UNCHANGED <<applied, twice>>

(* onPayment for a received payment: first receive, or into the inbox *)
OnReceived(e, out) ==
  LET m == e.m
      keep == IF m.kind = "first" THEN [S EXCEPT !.first = "received"]
              ELSE [S EXCEPT !.inbox = Append(@, m)]
  IN IF ~Handles(e) \/ Received(S, m.pid) \/ chan.id # m.chan
     THEN /\ GateSettles(TRUE)
          /\ dropped' = IF Received(S, m.pid) THEN dropped ELSE dropped \cup {m.pid}
          /\ UNCHANGED <<storeVars, faults, quote>>
     ELSE Put(keep, out) /\ GateSettles(out = "ok") /\ UNCHANGED dropped

EventJob ==
  /\ Start /\ gate = "pending" /\ Head1.t \in {"sent", "failed", "recv"}
  /\ \E out \in Saves :
       IF Head1.t = "recv"
       THEN OnReceived(Head1, out) /\ UNCHANGED <<applied, twice>>
       ELSE OnOutcome(Head1, out) /\ UNCHANGED dropped
  /\ UNCHANGED <<eventFrame, job>>

-----------------------------------------------------------------------------
(* applyInbox: the next entry, applied and then removed by a second save    *)

Answers(m, in) == m.kind \in {"sync", "rejected"} /\ m.corr = in.id /\ in.kind = "trade"

NextEntry(s) ==
  IF s.pend.kind = "settlement" THEN 0
  ELSE IF s.pend.kind = "trade"
       THEN LET hits == {i \in DOMAIN s.inbox : Answers(s.inbox[i], s.pend)}
            IN IF hits = {} THEN 0 ELSE CHOOSE i \in hits : \A j \in hits : i <= j
  ELSE IF s.inbox = <<>> THEN 0 ELSE 1

(* applyPayment's outcome for an inbox entry: skip, throw or a new state *)
SyncBacking(s, m) ==
  IF m.corr # 0 THEN s.pend.backing
  ELSE IF m.target = 0 THEN 0
  ELSE IF m.target < s.pos.target THEN chan.bal
  ELSE s.pos.backing

Drift(a, b) == IF a > b THEN a - b ELSE b - a

(* A settlement counts once by its own identity, whichever payment carries  *)
(* it; the mutant looks at the payment only                                 *)
SettlementSeenByPayment(s, m) == \E r \in s.pos.receipts : r[1] = m.pid
SettlementSeen(s, m) == \E r \in s.pos.receipts : r[2] = m.sid

SkipEntry(s, m) ==
  \/ \E r \in s.pos.receipts : r[1] = m.pid
  \/ chan.id # m.chan \/ (HasPosition(s) /\ s.pos.chan # chan.id)
  \/ CASE m.kind = "rejected" -> ~Answers(m, s.pend)
       [] m.kind = "sync" /\ m.corr # 0 ->
            m.ver <= s.pos.sync \/ ~Answers(m, s.pend) \/ m.target # s.pend.target
       [] m.kind = "sync" /\ m.corr = 0 ->
            \/ m.ver <= s.pos.sync \/ ~HasPosition(s) \/ HasPending(s)
            \/ m.target > s.pos.target
            \/ /\ price # 0 /\ m.target < s.pos.target
               /\ \/ chan.bal >= s.pos.backing
                  \/ Drift(IF m.target = 0 THEN 0 ELSE Backing(s, m.target), chan.bal) > 2
       [] OTHER ->
            \/ ~HasPosition(s) \/ s.pend.kind = "trade" \/ m.target # s.pos.target
            \/ SettlementSeen(s, m)

ThrowEntry(s, m) ==
  CASE m.kind = "rejected" -> FALSE
    [] m.kind = "sync" /\ m.corr # 0 -> SyncBacking(s, m) > chan.bal
    [] m.kind = "sync" /\ m.corr = 0 -> price = 0 \/ SyncBacking(s, m) > chan.bal
    [] OTHER -> price = 0 \/ chan.bal < s.pos.backing

ApplyEntry(s, m) ==
  CASE m.kind = "rejected" -> [s EXCEPT !.pend = NoIntent]
    [] m.kind = "sync" ->
         [s EXCEPT !.pend = NoIntent,
                   !.pos = [chan |-> chan.id, target |-> m.target,
                            backing |-> SyncBacking(s, m), sync |-> m.ver,
                            receipts |-> s.pos.receipts \cup {<<m.pid, 0>>}]]
    [] OTHER ->
         [s EXCEPT !.pos.backing = ReceivedBacking(s.pos, m.amt),
                   !.pos.receipts = @ \cup {<<m.pid, m.sid>>}]

EffectOf(m) == IF m.kind = "sync" THEN <<"sync", m.ver>> ELSE <<"got", m.sid>>

InboxApply ==
  /\ Start /\ S.enabled /\ NextEntry(S) # 0
  /\ LET m == S.inbox[NextEntry(S)]
         remove == [k |-> "inbox", pc |-> "remove", in |-> [NoIntent EXCEPT !.id = m.pid]]
     IN IF SkipEntry(S, m)
        THEN /\ job' = remove
             /\ dropped' = IF \E r \in S.pos.receipts : r[1] = m.pid THEN dropped
                           ELSE dropped \cup {m.pid}
             /\ UNCHANGED <<storeVars, faults, quote, applied, twice>>
        ELSE /\ ~ThrowEntry(S, m)
             /\ \E out \in Saves :
                  /\ Put(ApplyEntry(S, m), out)
                  /\ job' = IF out = "ok" THEN remove ELSE Idle
                  /\ IF m.kind = "rejected"
                     THEN /\ dropped' = IF out = "refused" THEN dropped
                                        ELSE dropped \cup {m.pid}
                          /\ UNCHANGED <<applied, twice>>
                     ELSE Effect(out, EffectOf(m)) /\ UNCHANGED dropped
  /\ UNCHANGED <<eventFrame, queueVars>>

(* inbox.filter: what is left without a payment *)
Without(inbox, pid) ==
  LET kept[n \in 0 .. Len(inbox)] ==
        IF n = 0 THEN <<>>
        ELSE IF inbox[n].pid # pid THEN Append(kept[n - 1], inbox[n]) ELSE kept[n - 1]
  IN kept[Len(inbox)]

InboxRemove ==
  /\ job.pc = "remove"
  /\ \E out \in Saves :
       /\ Put([S EXCEPT !.inbox = Without(@, job.in.id)], out)
       /\ job' = Idle
  /\ UNCHANGED frame

-----------------------------------------------------------------------------
(* LDK: deliver the head event to the handler                               *)

DeliverPayment ==
  /\ sess # "off" /\ evq # <<>> /\ Head1.t \in {"sent", "failed", "recv"}
  /\ \/ /\ gate = "none" /\ sess = "up" /\ Handles(Head1)
        /\ gate' = "pending" /\ UNCHANGED <<evq, unsaved, dropped>>
     \/ /\ \/ gate = "done"
           \/ gate = "none" /\ sess = "up" /\ ~Handles(Head1)
           \/ gate = "none" /\ sess = "recovering"
                /\ Head1.t = "recv" /\ Head1.m.kind = "first"
        /\ Acknowledge
        /\ dropped' = IF Head1.t = "recv" THEN dropped \ {Head1.m.pid} ELSE dropped
  /\ UNCHANGED <<storeVars, faults, sess, scope, price, chan, job, quote, newpay, pays,
                 intents, msgs, owed, provider, applied, twice>>

StoreManager ==
  /\ sess # "off" /\ (unsaved # <<>> \/ newpay # {})
  /\ unsaved' = <<>> /\ UNCHANGED <<evq, gate>>
  /\ pays' = pays \cup newpay /\ newpay' = {}
  /\ UNCHANGED <<storeVars, faults, sess, scope, price, chan, job, quote, intents,
                 msgs, owed, provider, applied, twice, dropped>>

envFrame == <<storeVars, faults, sess, scope, price, job, quote, newpay, intents, applied,
              twice, dropped, gate, unsaved>>

(* The provider claims or fails a keysend; LDK reports the outcome *)
PaymentEnds ==
  \E in \in pays :
    /\ pays' = pays \ {in}
    /\ \/ /\ Emit([t |-> "sent", id |-> in.id])
          /\ owed' = IF in.kind = "trade" THEN owed \cup {in} ELSE owed
          /\ UNCHANGED chan
       \/ /\ Emit([t |-> "failed", id |-> in.id])
          /\ chan' = [chan EXCEPT !.bal = @ + in.amt] /\ UNCHANGED owed
    /\ UNCHANGED <<envFrame, msgs, provider>>

Msg(kind, corr, ver, target, amt, sid) ==
  [pid |-> msgs + 1, kind |-> kind, corr |-> corr, ver |-> ver, target |-> target,
   amt |-> amt, sid |-> sid, chan |-> chan.id]

(* It pays over the channel: a closed one carries nothing *)
ProviderPays(m) ==
  chan.id # 0 /\ msgs < scope.msgs /\ msgs' = msgs + 1 /\ Emit([t |-> "recv", m |-> m])

(* The provider answers a paid trade *)
ProviderAnswers ==
  \E in \in owed :
    /\ chan.id = in.chan /\ owed' = owed \ {in}
    /\ \/ /\ provider' = [ver |-> provider.ver + 1, target |-> in.target]
          /\ ProviderPays(Msg("sync", in.id, provider.ver + 1, in.target, 0, 0))
       \/ ProviderPays(Msg("rejected", in.id, 0, 0, 0, 0)) /\ UNCHANGED provider
    /\ UNCHANGED <<envFrame, chan, pays>>

(* The provider settles one sat, perhaps again under the same identity, or  *)
(* restates its target, perhaps lowered                                     *)
ProviderInitiates ==
  /\ provider.target # 0
  /\ \/ /\ \E sid \in 1 .. msgs + 1 :
             ProviderPays(Msg("settlement", 0, 0, provider.target, 1, sid))
        /\ chan' = [chan EXCEPT !.bal = @ + 1] /\ UNCHANGED provider
     \/ \E t \in 0 .. provider.target :
          /\ provider' = [ver |-> provider.ver + 1, target |-> t]
          /\ ProviderPays(Msg("sync", 0, provider.ver + 1, t, 0, 0))
          /\ UNCHANGED chan
  /\ UNCHANGED <<envFrame, pays, owed>>

(* The payment of the first JIT invoice *)
FirstReceivePaid ==
  /\ rem["stable"].first = "prepared"
  /\ \A i \in DOMAIN evq : evq[i].t = "recv" => evq[i].m.kind # "first"
  /\ ProviderPays(Msg("first", 0, 0, 0, 0, 0))
  /\ UNCHANGED <<envFrame, chan, pays, owed, provider>>

(* An ordinary payment leaves: refused while a stable operation is pending *)
OrdinaryPayment ==
  /\ "spend" \in scope.env /\ sess = "up" /\ ~BlocksOrdinaryPayments /\ ~SplicePending(mem["splice"])
  /\ chan.id # 0 /\ chan.bal > 0
  /\ chan' = [chan EXCEPT !.bal = @ - 1]
  /\ UNCHANGED <<envFrame, pays, msgs, owed, provider, evq>>

CloseChannel ==
  /\ "close" \in scope.env /\ chan.id # 0 /\ chan' = [chan EXCEPT !.id = 0]
  /\ UNCHANGED <<envFrame, pays, msgs, owed, provider, evq>>

-----------------------------------------------------------------------------
(* Sessions.  A crash loses memory and keysends LDK had not stored; the     *)
(* next session loads, or fails to and keeps rejecting payment outcomes.    *)

Crash ==
  /\ sess # "off" /\ Fault
  /\ sess' = "off" /\ ReplayAll
  /\ newpay' = {} /\ job' = Idle /\ quote' = NoQuote /\ price' = 0
  /\ UNCHANGED <<storeVars, scope, chan, pays, intents, msgs, owed, provider,
                 applied, twice, dropped>>

Open ==
  /\ sess = "off" /\ sess' = "recovering"
  /\ UNCHANGED <<storeVars, queueVars, faults, clientVars>>

StartRuntime ==
  /\ sess = "recovering" /\ sess' = "up" /\ Load
  /\ UNCHANGED <<queueVars, faults, clientVars>>

FlushLocal ==
  /\ Flush /\ job = Idle
  /\ UNCHANGED <<queueVars, faults, sess, clientVars>>

ClientInit ==
  /\ scope \in Scopes /\ price = 0 /\ chan = [id |-> 1, bal |-> StartSats]
  /\ job = Idle /\ quote = NoQuote
  /\ newpay = {} /\ pays = {} /\ intents = 0 /\ msgs = 0 /\ owed = {}
  /\ provider = [ver |-> 0, target |-> 0]
  /\ applied = {} /\ twice = FALSE /\ dropped = {}

NoSplice == [status |-> "none", tx |-> 0, new |-> FALSE, conv |-> "waiting"]

StoreInit ==
  /\ mem = [o \in Owners |-> IF o = "stable" THEN InitialState ELSE NoSplice]
  /\ rem = mem /\ disk = mem
  /\ behind = {} /\ unflushed = FALSE /\ faults = 0
  /\ sess = "recovering" /\ evq = <<>> /\ gate = "none" /\ unsaved = <<>>

ClientNext ==
  \/ Enable \/ Pause \/ PrepareFirstReceive \/ ClearClosedPosition
  \/ Refresh \/ TakeQuote \/ CommitTrade \/ AutoConvert \/ SettleTick
  \/ SendNotReady \/ PersistHistory \/ HistoryFails \/ SendRejected \/ SendKeysend
  \/ EventJob \/ InboxApply \/ InboxRemove
  \/ DeliverPayment \/ StoreManager \/ PaymentEnds
  \/ ProviderAnswers \/ ProviderInitiates \/ FirstReceivePaid
  \/ OrdinaryPayment \/ CloseChannel
  \/ FlushLocal

-----------------------------------------------------------------------------
(***************************************************************************)
(* Properties                                                              *)
(***************************************************************************)

(* No effect on the position happens twice: a settlement paid or received,  *)
(* a provider version, the conversion of the first receive or of a splice's *)
(* added balance, however often payments, events and jobs are repeated.  A  *)
(* position has no memory of the one before it, so one that was cleared     *)
(* while the channel was in use is left out.                                *)
ClearedInUse == <<"cleared">> \in applied
AppliedOnce == ClearedInUse \/ ~twice

(* Without that exception it does not hold: a settlement the provider sends *)
(* again counts again when the position was cleared between the two.        *)
NothingTwice == ~twice

(* Where a provider's message is kept once the store accepted it *)
Durable(m) ==
  IF m.kind = "first" THEN rem["stable"].first \in {"received", "attempted"}
  ELSE Received(rem["stable"], m.pid)

(* A payment event is acknowledged to LDK only when the message is in VSS,  *)
(* already took effect, or was refused by a rule: what LDK forgets is never *)
(* only in memory.                                                          *)
AckMeansDurable ==
  [][gate = "done" /\ unsaved' # unsaved /\ Head1.t = "recv" /\ evq # evq'
       => \/ Durable(Head1.m) \/ EffectOf(Head1.m) \in applied
          \/ Head1.m.pid \in dropped]_<<storeVars, queueVars, faults, sess, clientVars>>

(* Every keysend LDK holds and every trade the provider still has to answer *)
(* is the pending intent of the stored state: after any crash the wallet    *)
(* knows what it sent, so it neither sends again nor ignores the answer.    *)
InFlightRemembered ==
  \A in \in newpay \cup pays \cup owed : rem["stable"].pend.id = in.id
=============================================================================
