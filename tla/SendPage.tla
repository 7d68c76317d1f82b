------------------------------- MODULE SendPage -------------------------------
(***************************************************************************)
(* The send page (pages/Send.tsx) with the Lightning payments it starts    *)
(* (ldk/context.tsx), their outcome (traits/event-handler.ts) and their    *)
(* history (storage/payment-history.ts).                                   *)
(*                                                                         *)
(* Recipients: "address" (on-chain), "invoice" (no amount in it), "fixed"  *)
(* (an invoice with its amount) and "name" (user@domain), which resolves   *)
(* to an offer (BIP 353) or to an LNURL endpoint that gives out invoices.  *)
(* A screen may be replaced while a lookup or a confirmation is awaited.   *)
(***************************************************************************)
EXTENDS Integers, FiniteSets

CONSTANTS MaxLookups,    \* lookups and estimates in a session
          MaxPayments,   \* Lightning payments
          PageFaults     \* restarts and failed writes
ASSUME SendPageAssumption ==
  MaxLookups \in Nat /\ MaxPayments \in Nat /\ PageFaults \in Nat

VARIABLES
  screen,                    \* sendStep
  lookups, looked,           \* awaited lookups, how many there were
  resolving, processing,     \* isResolving, processingRef
  recalled,                  \* the recipient in amountStepDataRef
  sending, confirming,       \* sendingRef, the confirmation that is awaited
  poll,                      \* the payment polled for, 0: none
  payments,                  \* LDK's, with their history and its pending update
  pageFaults

lookupSide == <<lookups, looked, resolving, processing>>
paySide == <<sending, confirming, poll, payments>>
sendVars == <<screen, lookupSide, recalled, paySide, pageFaults>>

Entry == [step |-> "recipient", to |-> "none", way |-> "none", from |-> "recipient", pay |-> 0]
AmountOf(to, way) == [Entry EXCEPT !.step = "amount", !.to = to, !.way = way]
Review(to, way, from) ==
  [Entry EXCEPT !.step = IF way = "onchain" THEN "oc-review" ELSE "ln-review",
                !.to = to, !.way = way, !.from = from]
Outcome(step, s) == [s EXCEPT !.step = step]
None == [kind |-> "none", screen |-> Entry]
NoPayment ==
  [way |-> "none", state |-> "none", letGo |-> FALSE, record |-> "none", update |-> "none"]
Nothing == [to |-> "none", way |-> "none"]

SendInit ==
  /\ screen = Entry /\ lookups = {} /\ looked = 0 /\ resolving = FALSE /\ processing = FALSE
  /\ recalled = Nothing /\ sending = FALSE /\ confirming = None /\ poll = 0
  /\ payments = [i \in 1..MaxPayments |-> NoPayment] /\ pageFaults = 0

PageFault == pageFaults < PageFaults /\ pageFaults' = pageFaults + 1

-----------------------------------------------------------------------------
(* Who and how much *)

(* resolveAddress and fetchAndRouteInvoice abort the lookup before them *)
Aborted == {[l EXCEPT !.aborted = l.aborted \/ l.kind # "estimate"] : l \in lookups}
Lookup(kind, to) ==
  /\ looked < MaxLookups /\ looked' = looked + 1
  /\ lookups' = (IF kind = "estimate" THEN lookups ELSE Aborted)
                  \cup {[id |-> looked', kind |-> kind, to |-> to, aborted |-> FALSE]}
  /\ resolving' = (resolving \/ kind # "estimate")
  /\ processing' = (processing \/ kind = "estimate")

(* processRecipientInput from the first screen (typed, pasted or scanned) *)
EnterRecipient ==
  /\ screen.step = "recipient" /\ ~resolving /\ ~processing
  /\ \/ Lookup("name", "name") /\ UNCHANGED <<screen, recalled>>
     \/ /\ recalled' = Nothing
        /\ screen' \in {AmountOf("address", "onchain"), AmountOf("invoice", "bolt11"),
                        Review("fixed", "bolt11", "recipient")}
        /\ UNCHANGED lookupSide
  /\ UNCHANGED <<paySide, pageFaults>>

(* The button that says "Resolving..." *)
StopResolving ==
  /\ screen.step = "recipient" /\ resolving /\ resolving' = FALSE /\ lookups' = Aborted
  /\ UNCHANGED <<screen, looked, processing, recalled, paySide, pageFaults>>

(* Lookups end in any order; an aborted one only clears isResolving *)
Routed(l) ==
  CASE l.kind = "name" -> {AmountOf(l.to, w) : w \in {"bolt12", "lnurl", "onchain"}}
                            \cup {Review(l.to, "bolt12", "recipient"),
                                  Review(l.to, "bolt11", "amount")}   \* a fixed amount
    [] l.kind = "invoice" -> {Review(l.to, "bolt11", "amount")}
    [] OTHER -> {Review(l.to, "onchain", "amount")}
LookupEnds(l) ==
  /\ lookups' = lookups \ {l}
  /\ IF l.kind = "estimate" THEN processing' = FALSE /\ UNCHANGED resolving
     ELSE resolving' = FALSE /\ UNCHANGED processing
  /\ \/ ~l.aborted /\ screen' \in Routed(l)
     \/ UNCHANGED screen                                   \* not found, or an error
  /\ UNCHANGED <<looked, recalled, paySide, pageFaults>>

(* handleAmountNext: an LNURL endpoint is asked for an invoice, Lightning   *)
(* goes to the review, an address to an estimate; a name with an address is *)
(* parsed, and looked up, again                                             *)
AmountNext ==
  /\ screen.step = "amount"
  /\ CASE screen.way = "lnurl" -> Lookup("invoice", screen.to) /\ UNCHANGED <<screen, recalled>>
       [] screen.way = "onchain" ->
            /\ ~processing /\ UNCHANGED screen
            /\ \/ /\ screen.to # "name" /\ Lookup("estimate", screen.to)
                  /\ recalled' = [to |-> screen.to, way |-> screen.way]
               \/ screen.to = "name" /\ Lookup("name", "name") /\ UNCHANGED recalled
       [] OTHER ->
            /\ screen' = Review(screen.to, screen.way, "amount") /\ UNCHANGED lookupSide
            /\ recalled' = [to |-> screen.to, way |-> screen.way]
  /\ UNCHANGED <<paySide, pageFaults>>

AmountBack ==
  /\ screen.step = "amount" /\ screen' = Entry
  /\ UNCHANGED <<lookupSide, recalled, paySide, pageFaults>>

BackFrom(s) == IF s.from = "amount" /\ recalled # Nothing
               THEN AmountOf(recalled.to, recalled.way) ELSE Entry
ReviewBack ==
  /\ screen.step \in {"oc-review", "ln-review"} /\ screen' = BackFrom(screen)
  /\ UNCHANGED <<lookupSide, recalled, paySide, pageFaults>>

-----------------------------------------------------------------------------
(* handleOcConfirm: estimates and sends; the review is shown again when the *)
(* amount drifted, the amount screen when a guard refuses                   *)
OcConfirm ==
  /\ screen.step = "oc-review" /\ ~sending /\ sending' = TRUE
  /\ confirming' = [kind |-> "onchain", screen |-> screen]
  /\ UNCHANGED <<screen, lookupSide, recalled, poll, payments, pageFaults>>
OcConfirmEnds ==
  /\ confirming.kind = "onchain" /\ confirming' = None /\ sending' = FALSE
  /\ screen' \in {Outcome("oc-success", confirming.screen), confirming.screen,
                  BackFrom(confirming.screen), Outcome("error", confirming.screen)}
  /\ UNCHANGED <<lookupSide, recalled, poll, payments, pageFaults>>

(* sendBolt11Payment and sendBolt12Payment: LDK takes the payment, a record *)
(* is on its way to the history, and the page polls for the result          *)
Free == {i \in 1..MaxPayments : payments[i].state = "none"}
StartPayment(s) ==
  \E i \in Free :
    /\ \A j \in Free : i <= j
    /\ payments' = [payments EXCEPT ![i] = [NoPayment EXCEPT !.way = s.way, !.state = "pending",
                                                             !.record = "writing"]]
    /\ poll' = i /\ screen' = [Outcome("ln-sending", s) EXCEPT !.pay = i]

MaySendAgain == TRUE
MaySend == ~sending
LnConfirm ==
  /\ screen.step = "ln-review" /\ MaySend
  /\ IF screen.way = "bolt12"
     THEN /\ Free # {}                                     \* the peer's connection is awaited
          /\ sending' = TRUE /\ confirming' = [kind |-> "bolt12", screen |-> screen]
          /\ UNCHANGED <<screen, poll, payments>>
     ELSE \/ sending' = TRUE /\ StartPayment(screen) /\ UNCHANGED confirming
          \/ /\ screen' = Outcome("error", screen)         \* no route, a duplicate
             /\ UNCHANGED paySide
  /\ UNCHANGED <<lookupSide, recalled, pageFaults>>
LnConfirmEnds ==
  /\ confirming.kind = "bolt12" /\ confirming' = None
  /\ \/ StartPayment(confirming.screen) /\ UNCHANGED sending
     \/ /\ screen' = Outcome("error", confirming.screen) /\ sending' = FALSE
        /\ UNCHANGED <<poll, payments>>
  /\ UNCHANGED <<lookupSide, recalled, pageFaults>>

(* Every second: a result, or the time is up; the payment is let go then    *)
PollTick ==
  /\ poll # 0 /\ poll' = 0 /\ sending' = FALSE
  /\ \/ /\ payments[poll].state = "sent" /\ UNCHANGED payments
        /\ screen' = [Outcome("ln-success", screen) EXCEPT !.pay = poll]
     \/ /\ payments[poll].state = "failed" /\ screen' = Outcome("error", screen)
        /\ UNCHANGED payments
     \/ /\ payments[poll].state = "pending" /\ screen' = Outcome("error", screen)
        /\ payments' = [payments EXCEPT ![poll].letGo = TRUE]
  /\ UNCHANGED <<lookupSide, recalled, confirming, pageFaults>>

(* handleCancelPayment; a payment already on its way may still arrive *)
CancelPayment ==
  /\ screen.step = "ln-sending" /\ screen' = Outcome("error", screen)
  /\ payments' = [payments EXCEPT ![screen.pay].letGo = TRUE]
  /\ poll' = 0 /\ sending' = FALSE
  /\ UNCHANGED <<lookupSide, recalled, confirming, pageFaults>>

(* "Try Again" shows the review again; "Done" leaves the page *)
TryAgain ==
  /\ screen.step = "error" /\ screen.way = "onchain"
  /\ screen' = Review(screen.to, screen.way, screen.from)
  /\ UNCHANGED <<lookupSide, recalled, paySide, pageFaults>>

-----------------------------------------------------------------------------
(* LDK settles a payment: PaymentSent or PaymentFailed, whose handler       *)
(* starts an update of the history and returns                             *)
SettlePayment(i) ==
  /\ payments[i].state = "pending"
  /\ \E s \in {"sent", "failed"} :
       payments' = [payments EXCEPT ![i].state = s, ![i].update = s]
  /\ UNCHANGED <<screen, lookupSide, recalled, sending, confirming, poll, pageFaults>>

WriteRecord(i) ==
  /\ payments[i].record = "writing"
  /\ \/ payments' = [payments EXCEPT ![i].record = "pending"] /\ UNCHANGED pageFaults
     \/ payments' = [payments EXCEPT ![i].record = "lost"] /\ PageFault
  /\ UNCHANGED <<screen, lookupSide, recalled, sending, confirming, poll>>

(* updatePaymentStatus, after the record's own write: nothing without one.  *)
(* The record's key is the payment id, an offer's payment hash is another.  *)
FoundByHash(p) == p.way # "bolt12"
FoundByKey(p) == p.way \in {"bolt11", "bolt12"}
UpdateRecord(i) ==
  /\ payments[i].update # "none" /\ payments[i].record # "writing"
  /\ payments' = [payments EXCEPT ![i].update = "none",
                    ![i].record = IF @ # "lost" /\ FoundByKey(payments[i])
                                  THEN payments[i].update ELSE @]
  /\ UNCHANGED <<screen, lookupSide, recalled, sending, confirming, poll, pageFaults>>

(* The page is left for good or reloaded: what was being written is lost *)
Leave ==
  /\ PageFault /\ screen' = Entry /\ recalled' = Nothing /\ sending' = FALSE
  /\ confirming' = None /\ poll' = 0 /\ lookups' = {}
  /\ resolving' = FALSE /\ processing' = FALSE
  /\ payments' = [i \in 1..MaxPayments |->
                    [payments[i] EXCEPT !.letGo = payments[i].state # "none", !.update = "none",
                       !.record = IF @ = "writing" THEN "lost" ELSE @]]
  /\ UNCHANGED looked

SendNext ==
  \/ EnterRecipient \/ StopResolving \/ AmountNext \/ AmountBack \/ ReviewBack
  \/ \E l \in lookups : LookupEnds(l)
  \/ OcConfirm \/ OcConfirmEnds \/ LnConfirm \/ LnConfirmEnds \/ PollTick
  \/ CancelPayment \/ TryAgain \/ Leave
  \/ \E i \in 1..MaxPayments : SettlePayment(i) \/ WriteRecord(i) \/ UpdateRecord(i)

SendSpec == SendInit /\ [][SendNext]_sendVars

-----------------------------------------------------------------------------
SendTypeOK ==
  /\ {resolving, processing, sending} \subseteq BOOLEAN
  /\ poll \in 0..MaxPayments /\ looked \in 0..MaxLookups

(* Taps, back navigation and late lookups never put two payments under way: *)
(* a second one starts only when the first has an outcome or was given up   *)
(* on screen, and a success on screen is a payment that LDK says was sent.  *)
OnePaymentAtATime ==
  /\ Cardinality({i \in 1..MaxPayments :
                    payments[i].state = "pending" /\ ~payments[i].letGo}) <= 1
  /\ screen.step = "ln-success" => payments[screen.pay].state = "sent"

(* The history catches up with LDK: again and again the record of every     *)
(* payment that was sent says so, unless a restart or a failed write came   *)
(* in between.                                                              *)
HistorySettles ==
  []<>(\/ pageFaults > 0
       \/ \A i \in 1..MaxPayments : payments[i].state = "sent" => payments[i].record = "sent")

(* Going back from a review leads to the amount screen of that recipient. *)
BackToSameRecipient ==
  [][(ReviewBack /\ screen'.step = "amount") => screen'.to = screen.to]_sendVars
=============================================================================
