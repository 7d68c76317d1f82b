----------------------------- MODULE ReceivePage -----------------------------
(***************************************************************************)
(* The receive page (pages/Receive.tsx) with the just-in-time (JIT)        *)
(* channel it asks the provider (LSP) for: the quote and the buy           *)
(* (ldk/context.tsx), their JSON-RPC requests (lsps2/client.ts,            *)
(* lsps2/message-handler.ts) and the payment that arrives                  *)
(* (traits/event-handler.ts).                                              *)
(*                                                                         *)
(* An amount is quoted, reviewed and bought; quotes and buys are awaited   *)
(* while the page moves on, and the "Phase A" effect runs again whenever   *)
(* the confirmed amount changes or the peers turn out to be reconnected.   *)
(***************************************************************************)
EXTENDS Integers

CONSTANTS MaxAmount,     \* amounts are 1..MaxAmount, 0 is none
          StaticFloor    \* MIN_JIT_RECEIVE_SATS, in those amounts
ASSUME ReceivePageAssumption == MaxAmount \in Nat /\ StaticFloor \in 0..MaxAmount

VARIABLES
  receive,               \* receiveState
  editing,               \* the numpad is open
  typed, confirmed,      \* amountDigits, confirmedAmountDigits
  invoice,               \* the invoice in the QR code (and its paymentHash)
  armed,                 \* invoiceExpiresAt is set: the expiry timer runs
  quotes, buys,          \* awaited quotes and buys
  lspLink,               \* a connection to the provider is up
  floor,                 \* the least JIT amount the numpad lets through
  userChannel,           \* the user's channel
  reconnected            \* peersReconnected

pageSide == <<receive, editing, typed, confirmed, invoice, armed>>
lspSide == <<lspLink, floor>>
nodeSide == <<userChannel, reconnected>>
receiveVars == <<pageSide, quotes, buys, lspSide, nodeSide>>

ReceiveState(step) == [step |-> step, path |-> "none", amount |-> 0]
ReadyBy(path) == [step |-> "ready", path |-> path, amount |-> 0]
ReviewOf(kind, amount) == [step |-> "review", path |-> kind, amount |-> amount]
Floors == 1..MaxAmount + 1                 \* what a fee menu may come to
NoInvoice == [amount |-> 0, path |-> "none"]

Inbound == IF userChannel = "usable" THEN 1 ELSE 0
NeedsAmount == userChannel # "usable"
NeedsJit(amount) == IF amount = 0 THEN NeedsAmount ELSE Inbound < amount
BelowJitMinimum == typed > 0 /\ NeedsJit(typed) /\ typed < floor
Waiting == ~reconnected /\ userChannel # "none"

(* What is rendered: the steps hide the numpad, but for an expired invoice *)
Screen ==
  IF Waiting THEN "spinner"
  ELSE IF editing /\ receive.step \in {"ready", "expired"} THEN "numpad"
  ELSE IF receive.step = "ready" THEN "qr" ELSE receive.step

-----------------------------------------------------------------------------
(* The Phase A effect *)

(* requestCounterRef moves on: answers awaited until now are stale *)
Stale(reqs) == {[r EXCEPT !.current = FALSE] : r \in reqs}
(* The effect's cleanup also aborts its own quote, not one of reQuote.     *)
(* (Where it has no cleanup, no quote is current.)                         *)
CleanedUp == Stale({q \in quotes : q.requote})

QuoteFor(amount, requote) ==
  [amount |-> amount, requote |-> requote, rpc |-> "connect", current |-> TRUE]

(* (Nothing is confirmed while the page waits for the peers.) *)
PhaseA(amount) ==
  /\ armed' = FALSE
  /\ IF NeedsJit(amount)'
     THEN /\ invoice' = NoInvoice
          /\ quotes' = CleanedUp \cup (IF amount = 0 THEN {} ELSE {QuoteFor(amount, FALSE)})
          /\ receive' = IF amount = 0 THEN ReadyBy("none") ELSE ReceiveState("quoting")
     ELSE /\ quotes' = CleanedUp
          /\ \/ /\ invoice' = [amount |-> amount, path |-> "standard"]
                /\ receive' = ReadyBy("standard")
             \/ invoice' = NoInvoice /\ receive' = ReadyBy("none")   \* createInvoice threw

ReceiveInit ==
  /\ userChannel \in {"none", "offline"} /\ reconnected \in BOOLEAN
  /\ floor = StaticFloor /\ lspLink = FALSE
  /\ editing = TRUE /\ typed = 0 /\ confirmed = 0
  /\ receive = ReadyBy("none") /\ invoice = NoInvoice /\ armed = FALSE
  /\ quotes = {} /\ buys = {}

-----------------------------------------------------------------------------
(* The numpad *)

TypeAmount ==
  /\ Screen = "numpad" /\ typed' \in 0..MaxAmount \ {typed}
  /\ UNCHANGED <<receive, editing, confirmed, invoice, armed, quotes, buys, lspSide, nodeSide>>

(* The effect runs only if the confirmed amount changes *)
ConfirmAmount ==
  /\ Screen = "numpad" /\ typed > 0 /\ ~BelowJitMinimum
  /\ confirmed' = typed /\ editing' = FALSE
  /\ UNCHANGED <<typed, buys, lspSide, nodeSide>>
  /\ IF typed # confirmed THEN PhaseA(typed)
     ELSE /\ receive' = IF NeedsJit(typed) THEN ReceiveState("quoting") ELSE receive
          /\ UNCHANGED <<invoice, armed, quotes>>

CancelAmount ==
  /\ Screen = "numpad" /\ (~NeedsAmount \/ confirmed > 0)
  /\ typed' = confirmed /\ editing' = FALSE
  /\ UNCHANGED <<receive, confirmed, invoice, armed, quotes, buys, lspSide, nodeSide>>

RemoveAmount ==
  /\ Screen = "numpad" /\ confirmed > 0
  /\ typed' = 0 /\ confirmed' = 0 /\ editing' = NeedsAmount
  /\ UNCHANGED <<buys, lspSide, nodeSide>>
  /\ PhaseA(0)

EditAmount ==
  /\ Screen = "qr" /\ typed' = confirmed /\ editing' = TRUE
  /\ UNCHANGED <<receive, confirmed, invoice, armed, quotes, buys, lspSide, nodeSide>>

(* The live floor, asked for once when the page opens *)
FloorFetched ==
  /\ Inbound < StaticFloor /\ floor' \in Floors
  /\ UNCHANGED <<pageSide, quotes, buys, lspLink, nodeSide>>

-----------------------------------------------------------------------------
(* Quotes *)

(* ensureLspPeerConnected, then lsps2.get_info *)
ConnectForQuote(q) ==
  /\ q.rpc = "connect"
  /\ lspLink' = TRUE /\ quotes' = (quotes \ {q}) \cup {[q EXCEPT !.rpc = "sent"]}
  /\ UNCHANGED <<pageSide, buys, floor, nodeSide>>

(* A late answer changes nothing *)
HeededAlways(r) == TRUE
Heeded(r) == r.current

(* runJitQuoteFlow with the one provider there is; its menu may have no   *)
(* entry for the amount                                                    *)
QuoteAnswered(q) ==
  /\ q.rpc = "sent" /\ lspLink /\ quotes' = quotes \ {q}
  /\ IF ~Heeded(q) THEN UNCHANGED <<receive, floor>>
     ELSE \/ receive' = ReviewOf("commit", q.amount) /\ UNCHANGED floor
          \/ /\ ~q.requote /\ receive' = ReviewOf("below-minimum", q.amount)
             /\ floor' \in {f \in Floors : q.amount < f}
          \/ q.requote /\ receive' = ReceiveState("error") /\ UNCHANGED floor
  /\ UNCHANGED <<editing, typed, confirmed, invoice, armed, buys, lspLink, nodeSide>>

(* An LSP error, a lost peer, a spent budget: on-chain only, or the error screen *)
QuoteFails(q) ==
  /\ q.rpc = "failed" /\ quotes' = quotes \ {q}
  /\ receive' = IF ~Heeded(q) THEN receive
                ELSE IF q.requote THEN ReceiveState("error") ELSE ReadyBy("none")
  /\ UNCHANGED <<editing, typed, confirmed, invoice, armed, buys, lspSide, nodeSide>>

(* handleReviewBack, on the review, the error and the expired screen *)
ReviewBackToNumpad ==
  /\ Screen \in {"review", "error", "expired"}
  /\ typed' = confirmed /\ confirmed' = 0 /\ editing' = TRUE
  /\ UNCHANGED <<buys, lspSide, nodeSide>>
  /\ IF confirmed > 0 THEN PhaseA(0)
     ELSE /\ quotes' = Stale(quotes) /\ receive' = ReadyBy("none")
          /\ UNCHANGED <<invoice, armed>>

(* handleErrorRetry clears the amount and sets it again *)
ErrorRetry ==
  /\ Screen \in {"error", "expired"} /\ confirmed > 0
  /\ UNCHANGED <<editing, typed, confirmed, buys, lspSide, nodeSide>>
  /\ PhaseA(confirmed)

-----------------------------------------------------------------------------
(* Buying *)

(* handleGenerateInvoice: a quote that went stale on the screen is asked   *)
(* for again, before anything is bought; the provider for dollars may have *)
(* changed                                                                 *)
GenerateInvoice ==
  /\ Screen = "review" /\ receive.path = "commit"
  /\ \/ /\ receive' = ReceiveState("buying")
        /\ buys' = Stale(buys)
                     \cup {[amount |-> receive.amount, rpc |-> "sent", current |-> TRUE]}
        /\ UNCHANGED quotes
     \/ /\ receive' = ReceiveState("quoting")
        /\ quotes' = Stale(quotes) \cup {QuoteFor(receive.amount, TRUE)}
        /\ buys' = Stale(buys)
     \/ receive' = ReceiveState("error") /\ buys' = Stale(buys) /\ UNCHANGED quotes
  /\ UNCHANGED <<editing, typed, confirmed, invoice, armed, lspSide, nodeSide>>

(* executeJitBuy runs to its end whatever the page does *)
BuyAnswered(b) ==
  /\ b.rpc = "sent" /\ lspLink /\ buys' = buys \ {b}
  /\ IF b.current
     THEN /\ invoice' = [amount |-> b.amount, path |-> "jit"]
          /\ armed' = TRUE /\ receive' = ReadyBy("jit")
     ELSE UNCHANGED <<invoice, armed, receive>>
  /\ UNCHANGED <<editing, typed, confirmed, quotes, lspSide, nodeSide>>

BuyFails(b) ==
  /\ b.rpc = "failed" /\ buys' = buys \ {b}
  /\ receive' = IF b.current THEN ReceiveState("error") ELSE receive
  /\ UNCHANGED <<editing, typed, confirmed, invoice, armed, quotes, lspSide, nodeSide>>

-----------------------------------------------------------------------------
(* The message handler's pending requests *)

Failed(reqs, r) == (reqs \ {r}) \cup {[r EXCEPT !.rpc = "failed"]}
(* The reaper's timer, the budget of a quote, no connection, an LSP error  *)
ReapableQuote(r) == r.rpc # "failed" /\ r \in quotes
Reapable(r) == r.rpc # "failed"
Reap(r) ==
  /\ Reapable(r)
  /\ \/ r \in quotes /\ quotes' = Failed(quotes, r) /\ UNCHANGED buys
     \/ r \in buys /\ buys' = Failed(buys, r) /\ UNCHANGED quotes
  /\ UNCHANGED <<pageSide, lspSide, nodeSide>>

(* peer_disconnected *)
Lost(reqs) == {IF r.rpc = "sent" THEN [r EXCEPT !.rpc = "failed"] ELSE r : r \in reqs}
PeerLost ==
  /\ lspLink /\ lspLink' = FALSE /\ quotes' = Lost(quotes) /\ buys' = Lost(buys)
  /\ UNCHANGED <<pageSide, floor, nodeSide>>

-----------------------------------------------------------------------------
(* The node, and the time that passes *)

ExpireInvoice ==
  /\ armed /\ armed' = FALSE
  /\ receive' = IF receive = ReadyBy("jit") THEN ReceiveState("expired") ELSE receive
  /\ UNCHANGED <<editing, typed, confirmed, invoice, quotes, buys, lspSide, nodeSide>>

(* OpenChannelRequest (0-conf, from the trusted provider), PaymentClaimable, *)
(* PaymentClaimed, and the watcher of the payment history; the record of     *)
(* the payment may fail to be stored                                         *)
PaymentArrives ==
  /\ invoice # NoInvoice /\ receive.step # "success"
  /\ invoice.path = "standard" => userChannel = "usable"
  /\ userChannel' = "usable"
  /\ receive' \in {ReceiveState("success"), receive}
  /\ UNCHANGED <<editing, typed, confirmed, invoice, armed, quotes, buys, lspSide, reconnected>>

ChannelBecomesUsable ==
  /\ userChannel = "offline" /\ userChannel' = "usable"
  /\ UNCHANGED <<pageSide, quotes, buys, lspSide, reconnected>>

(* The known peers have been tried, with or without success *)
PeersReconnected ==
  /\ ~reconnected /\ reconnected' = TRUE
  /\ UNCHANGED <<editing, typed, confirmed, buys, lspSide, userChannel>>
  /\ PhaseA(confirmed)

(* The page is left and opened again: what it awaited is not heard of *)
ReopenPage ==
  /\ reconnected /\ floor' = StaticFloor
  /\ editing' = NeedsAmount /\ typed' = 0 /\ confirmed' = 0 /\ buys' = {}
  /\ UNCHANGED <<lspLink, nodeSide>>
  /\ PhaseA(0)

Answers == \/ \E q \in quotes : ConnectForQuote(q) \/ QuoteAnswered(q)
           \/ \E b \in buys : BuyAnswered(b)
Failures == \/ \E q \in quotes : QuoteFails(q)
            \/ \E b \in buys : BuyFails(b)
            \/ \E r \in quotes \cup buys : Reap(r)

ReceiveNext ==
  \/ TypeAmount \/ ConfirmAmount \/ CancelAmount \/ RemoveAmount \/ EditAmount \/ FloorFetched
  \/ ReviewBackToNumpad \/ ErrorRetry \/ GenerateInvoice \/ Answers \/ Failures \/ PeerLost
  \/ ExpireInvoice \/ PaymentArrives \/ ChannelBecomesUsable \/ PeersReconnected \/ ReopenPage

ReceiveSpec == ReceiveInit /\ [][ReceiveNext]_receiveVars

-----------------------------------------------------------------------------
ReceiveTypeOK ==
  /\ receive.step \in {"ready", "quoting", "review", "buying", "error", "expired", "success"}
  /\ {typed, confirmed, receive.amount, invoice.amount, floor} \subseteq 0..MaxAmount + 1
  /\ {editing, armed, lspLink, reconnected} \subseteq BOOLEAN
  /\ userChannel \in {"none", "offline", "usable"}
  /\ \A r \in quotes \cup buys : r.rpc \in {"connect", "sent", "failed"} /\ r.amount > 0

(* A review that can be committed is for the amount that is confirmed:     *)
(* answers to earlier questions never replace it.  (requestCounterRef)     *)
ReviewedAsAsked ==
  receive.step = "review" => receive.amount = confirmed /\ confirmed > 0

(* "Generating payment request" is no place to stay: the provider answers, *)
(* or the request is given up.  (REQUEST_TIMEOUT_MS)                       *)
BuyEnds == receive.step = "buying" ~> receive.step # "buying"

(* The skeleton of a quote is replaced by something                        *)
QuoteSettles == receive.step = "quoting" ~> receive.step # "quoting"

(* The QR code asks over Lightning for the amount it shows                 *)
InvoiceAsShown ==
  Screen = "qr" /\ invoice # NoInvoice => invoice.amount = confirmed
===============================================================================
