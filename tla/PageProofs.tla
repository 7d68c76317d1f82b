------------------------------ MODULE PageProofs ------------------------------
(***************************************************************************)
(* Proofs about the pages: no two payments are under way at once           *)
(* (SendPage), and a receive review is for the amount that is confirmed    *)
(* (ReceivePage), in whichever order what they await is answered.          *)
(***************************************************************************)
EXTENDS SendPage, ReceivePage, FiniteSetTheorems, TLAPS

-----------------------------------------------------------------------------
(* SendPage.                                                               *)

Pays == 1..MaxPayments
Steps == {"recipient", "amount", "oc-review", "ln-review", "ln-sending", "oc-success",
          "ln-success", "error"}
Recipients == {"none", "address", "invoice", "fixed", "name"}
Ways == {"none", "onchain", "bolt11", "bolt12", "lnurl"}
Origins == {"recipient", "amount"}
ScreenType == [step : Steps, to : Recipients, way : Ways, from : Origins, pay : Int]
PaymentType ==
  [way : Ways, state : {"none", "pending", "sent", "failed"}, letGo : BOOLEAN,
   record : {"none", "writing", "pending", "lost", "sent", "failed"},
   update : {"none", "sent", "failed"}]
ConfirmType == [kind : {"none", "onchain", "bolt12"}, screen : ScreenType]
RecallType == [to : Recipients, way : Ways]
LookupType ==
  [id : Nat, kind : {"name", "invoice", "estimate"}, to : Recipients, aborted : BOOLEAN]
PageTypeOK ==
  /\ screen \in ScreenType /\ payments \in [Pays -> PaymentType] /\ poll \in Pays \cup {0}
  /\ confirming \in ConfirmType /\ recalled \in RecallType /\ sending \in BOOLEAN
  /\ lookups \subseteq LookupType /\ looked \in Nat

\* The screens that lead nowhere near a payment.
Plain(s) == s \in ScreenType /\ s.step \notin {"ln-sending", "ln-success"}

\* A payment that LDK still tries and that the user has not been told to give up.
UnderWayNow(i) == payments[i].state = "pending" /\ ~payments[i].letGo

\* The page polls for it, and cannot send another; a confirmation is awaited only when
\* nothing is polled for.
Polling ==
  /\ \A i \in Pays : UnderWayNow(i) => i = poll
  /\ poll # 0 => sending /\ confirming.kind = "none"
  /\ confirming.kind # "none" => sending /\ Plain(confirming.screen)

\* What the screen says of a payment.
OnScreen ==
  /\ screen.step = "ln-sending" => poll = screen.pay /\ poll # 0
  /\ screen.step = "ln-success" => screen.pay \in Pays /\ payments[screen.pay].state = "sent"

SendInv == PageTypeOK /\ Polling /\ OnScreen

LEMMA PlainScreens ==
  /\ Plain(Entry)
  /\ \A to \in Recipients, way \in Ways : Plain(AmountOf(to, way))
  /\ \A to \in Recipients, way \in Ways, from \in Origins : Plain(Review(to, way, from))
<1>1. Plain(Entry)
  BY DEF Entry, Plain, ScreenType, Steps, Recipients, Ways, Origins
<1>2. ASSUME NEW to \in Recipients, NEW way \in Ways, NEW s, s = AmountOf(to, way)
      PROVE  Plain(s)
  <2>1. s = [step |-> "amount", to |-> to, way |-> way, from |-> "recipient", pay |-> 0]
    BY <1>2 DEF AmountOf, Entry
  <2> QED BY <2>1 DEF Plain, ScreenType, Steps, Origins
<1>3. ASSUME NEW to \in Recipients, NEW way \in Ways, NEW from \in Origins,
             NEW s, s = Review(to, way, from)
      PROVE  Plain(s)
  <2>1. \/ s = [step |-> "oc-review", to |-> to, way |-> way, from |-> from, pay |-> 0]
        \/ s = [step |-> "ln-review", to |-> to, way |-> way, from |-> from, pay |-> 0]
    BY <1>3 DEF Review, Entry
  <2> QED BY <2>1 DEF Plain, ScreenType, Steps
<1> QED
  BY <1>1, <1>2, <1>3

LEMMA OutcomeScreens ==
  ASSUME NEW s \in ScreenType, NEW step \in Steps
  PROVE  /\ Outcome(step, s) \in ScreenType /\ Outcome(step, s).step = step
         /\ \A i \in Int : /\ [Outcome(step, s) EXCEPT !.pay = i] \in ScreenType
                           /\ [Outcome(step, s) EXCEPT !.pay = i].pay = i
                           /\ [Outcome(step, s) EXCEPT !.pay = i].step = step
  BY DEF Outcome, ScreenType

LEMMA BackScreens ==
  ASSUME NEW s \in ScreenType, PageTypeOK
  PROVE  Plain(BackFrom(s))
  BY PlainScreens DEF BackFrom, PageTypeOK, RecallType

LEMMA RoutedScreens ==
  ASSUME NEW l \in LookupType, NEW s \in Routed(l)
  PROVE  Plain(s)
<1>1. l.to \in Recipients
  BY DEF LookupType
<1>2. \/ \E w \in Ways : s = AmountOf(l.to, w)
      \/ \E w \in Ways, f \in Origins : s = Review(l.to, w, f)
  BY DEF Routed, Ways, Origins
<1> QED
  BY <1>1, <1>2, PlainScreens

\* A step that shows a plain screen and does not touch a payment.
LEMMA PlainKeeps ==
  ASSUME SendInv, screen' = screen \/ Plain(screen'), UNCHANGED <<payments, poll, sending, confirming>>,
         recalled' \in RecallType, lookups' \subseteq LookupType, looked' \in Nat
  PROVE  SendInv'
  BY DEF SendInv, PageTypeOK, Polling, OnScreen, Plain, UnderWayNow

-----------------------------------------------------------------------------
\* Who is paid, and how much: lookups, the amount screen, the way back.
LEMMA LookupSet ==
  ASSUME PageTypeOK, NEW kind \in {"name", "invoice", "estimate"}, NEW to \in Recipients,
         Lookup(kind, to)
  PROVE  lookups' \subseteq LookupType /\ looked' \in Nat
<1>1. looked' = looked + 1 /\ looked' \in Nat
  BY DEF Lookup, PageTypeOK
<1>2. [id |-> looked', kind |-> kind, to |-> to, aborted |-> FALSE] \in LookupType
  BY <1>1 DEF LookupType
<1>3. Aborted \subseteq LookupType
  <2>1. ASSUME NEW l \in LookupType, NEW b \in BOOLEAN
        PROVE  [l EXCEPT !.aborted = b] \in LookupType
    BY DEF LookupType
  <2>2. \A l \in lookups : (l.aborted \/ l.kind # "estimate") \in BOOLEAN
    OBVIOUS
  <2> QED BY <2>1, <2>2 DEF Aborted, PageTypeOK
<1> QED
  BY <1>1, <1>2, <1>3 DEF Lookup, PageTypeOK

LEMMA RecipientStep ==
  ASSUME SendInv, EnterRecipient \/ StopResolving \/ AmountNext \/ AmountBack \/ ReviewBack
  PROVE  SendInv'
<1>1. PageTypeOK /\ screen.to \in Recipients /\ screen.way \in Ways
  BY DEF SendInv, PageTypeOK, ScreenType
<1>2. UNCHANGED <<payments, poll, sending, confirming>>
  BY DEF EnterRecipient, StopResolving, AmountNext, AmountBack, ReviewBack, paySide
<1>3. Nothing \in RecallType
  BY DEF Nothing, RecallType, Recipients, Ways
<1>4. [to |-> screen.to, way |-> screen.way] \in RecallType
  BY <1>1 DEF RecallType
<1>5. CASE EnterRecipient
  <2>1. CASE Lookup("name", "name") /\ UNCHANGED <<screen, recalled>>
    BY <1>1, <1>2, <2>1, LookupSet, PlainKeeps DEF Recipients, PageTypeOK
  <2>2. CASE /\ recalled' = Nothing /\ UNCHANGED lookupSide
             /\ screen' \in {AmountOf("address", "onchain"), AmountOf("invoice", "bolt11"),
                             Review("fixed", "bolt11", "recipient")}
    <3>1. Plain(screen')
      BY <2>2, PlainScreens DEF Recipients, Ways, Origins
    <3> QED BY <1>1, <1>2, <1>3, <2>2, <3>1, PlainKeeps DEF lookupSide, PageTypeOK
  <2> QED BY <1>5, <2>1, <2>2 DEF EnterRecipient
<1>6. CASE StopResolving
  <2>1. UNCHANGED <<screen, recalled, looked>> /\ lookups' = Aborted
    BY <1>6 DEF StopResolving
  <2>2. ASSUME NEW l \in LookupType, NEW b \in BOOLEAN
        PROVE  [l EXCEPT !.aborted = b] \in LookupType
    BY DEF LookupType
  <2>3. \A l \in lookups : (l.aborted \/ l.kind # "estimate") \in BOOLEAN
    OBVIOUS
  <2>4. lookups' \subseteq LookupType
    BY <1>1, <2>1, <2>2, <2>3 DEF Aborted, PageTypeOK
  <2> QED BY <1>1, <1>2, <2>1, <2>4, PlainKeeps DEF PageTypeOK
<1>7. CASE AmountNext
  <2>1. CASE \/ Lookup("invoice", screen.to) /\ UNCHANGED <<screen, recalled>>
             \/ Lookup("name", "name") /\ UNCHANGED <<screen, recalled>>
             \/ /\ Lookup("estimate", screen.to) /\ UNCHANGED screen
                /\ recalled' = [to |-> screen.to, way |-> screen.way]
    BY <1>1, <1>2, <1>4, <2>1, LookupSet, PlainKeeps DEF Recipients, PageTypeOK
  <2>2. CASE /\ screen' = Review(screen.to, screen.way, "amount") /\ UNCHANGED lookupSide
             /\ recalled' = [to |-> screen.to, way |-> screen.way]
    <3>1. Plain(screen')
      BY <1>1, <2>2, PlainScreens DEF Origins
    <3> QED BY <1>1, <1>2, <1>4, <2>2, <3>1, PlainKeeps DEF lookupSide, PageTypeOK
  <2> QED BY <1>7, <2>1, <2>2 DEF AmountNext
<1>8. CASE AmountBack \/ ReviewBack
  <2>1. Plain(screen') /\ UNCHANGED <<recalled, lookups, looked>>
    BY <1>1, <1>8, PlainScreens, BackScreens DEF AmountBack, ReviewBack, lookupSide, PageTypeOK
  <2> QED BY <1>1, <1>2, <2>1, PlainKeeps DEF PageTypeOK
<1> QED
  BY <1>5, <1>6, <1>7, <1>8

LEMMA LookupStep ==
  ASSUME SendInv, NEW l \in lookups, LookupEnds(l)
  PROVE  SendInv'
<1>1. /\ UNCHANGED <<payments, poll, sending, confirming, recalled, looked>>
      /\ lookups' = lookups \ {l} /\ (screen' = screen \/ screen' \in Routed(l))
  BY DEF LookupEnds, paySide
<1>2. PageTypeOK /\ l \in LookupType
  BY DEF SendInv, PageTypeOK
<1>3. screen' = screen \/ Plain(screen')
  BY <1>1, <1>2, RoutedScreens
<1> QED
  BY <1>1, <1>2, <1>3, PlainKeeps DEF PageTypeOK

-----------------------------------------------------------------------------
\* Confirming, paying, polling and giving up.
LEMMA ConfirmSet ==
  ASSUME NEW kind \in {"onchain", "bolt12", "none"}, NEW s \in ScreenType, NEW c,
         c = [kind |-> kind, screen |-> s]
  PROVE  c \in ConfirmType /\ c.kind = kind /\ c.screen = s
  BY DEF ConfirmType

LEMMA NoneConfirmed == None \in ConfirmType /\ None.kind = "none"
  BY PlainScreens DEF None, ConfirmType, Plain

\* LDK takes a payment when nothing is under way.
LEMMA PaymentStarts ==
  ASSUME SendInv, poll = 0, NEW s \in ScreenType, StartPayment(s),
         sending' = TRUE, confirming' \in ConfirmType, confirming'.kind = "none",
         UNCHANGED <<lookups, looked, recalled>>
  PROVE  SendInv'
<1>1. PICK i \in Free :
        /\ payments' = [payments EXCEPT ![i] = [NoPayment EXCEPT !.way = s.way,
                                                  !.state = "pending", !.record = "writing"]]
        /\ poll' = i /\ screen' = [Outcome("ln-sending", s) EXCEPT !.pay = i]
  BY DEF StartPayment
<1>2. i \in Pays /\ i \in Int /\ i # 0
  BY DEF Free, Pays
<1>3. PICK p : p = [NoPayment EXCEPT !.way = s.way, !.state = "pending", !.record = "writing"]
  OBVIOUS
<1>4. p = [way |-> s.way, state |-> "pending", letGo |-> FALSE, record |-> "writing",
           update |-> "none"]
  BY <1>3 DEF NoPayment
<1>5. p \in PaymentType
  BY <1>4 DEF PaymentType, ScreenType
<1>6. payments' = [payments EXCEPT ![i] = p]
  BY <1>1, <1>3
<1>7. screen' \in ScreenType /\ screen'.pay = i /\ screen'.step = "ln-sending"
  BY <1>1, <1>2, OutcomeScreens DEF Steps
<1>8. \A j \in Pays : ~UnderWayNow(j)
  BY DEF SendInv, Polling, Pays
<1>9. PageTypeOK'
  BY <1>1, <1>2, <1>5, <1>6, <1>7 DEF SendInv, PageTypeOK
<1>10. \A j \in Pays : j # i => payments'[j] = payments[j]
  BY <1>6 DEF SendInv, PageTypeOK
<1>11. Polling'
  BY <1>1, <1>8, <1>10 DEF Polling, UnderWayNow
<1>12. OnScreen'
  BY <1>1, <1>2, <1>7 DEF OnScreen
<1> QED
  BY <1>9, <1>11, <1>12 DEF SendInv

LEMMA ConfirmingStep ==
  ASSUME SendInv, OcConfirm \/ OcConfirmEnds \/ LnConfirm \/ LnConfirmEnds
  PROVE  SendInv'
<1>1. PageTypeOK /\ screen \in ScreenType
  BY DEF SendInv, PageTypeOK
<1>2. CASE OcConfirm
  <2>1. /\ confirming' = [kind |-> "onchain", screen |-> screen] /\ sending' = TRUE
        /\ screen.step = "oc-review" /\ ~sending
        /\ UNCHANGED <<screen, payments, poll, lookups, looked, recalled>>
    BY <1>2 DEF OcConfirm, lookupSide
  <2>2. confirming' \in ConfirmType /\ confirming'.kind = "onchain" /\ confirming'.screen = screen
    BY <1>1, <2>1, ConfirmSet
  <2>3. poll = 0 /\ Plain(screen)
    BY <1>1, <2>1 DEF SendInv, Polling, Plain
  <2>4. PageTypeOK'
    BY <1>1, <2>1, <2>2 DEF PageTypeOK
  <2>5. Polling'
    BY <2>1, <2>2, <2>3 DEF SendInv, Polling, UnderWayNow, Plain
  <2>6. OnScreen'
    BY <2>1 DEF OnScreen
  <2> QED BY <2>4, <2>5, <2>6 DEF SendInv
<1>3. CASE OcConfirmEnds
  <2>1. /\ confirming.kind = "onchain" /\ confirming' = None /\ sending' = FALSE
        /\ UNCHANGED <<payments, poll, lookups, looked, recalled>>
    BY <1>3 DEF OcConfirmEnds, lookupSide
  <2>2. Plain(confirming.screen) /\ poll = 0
    BY <2>1 DEF SendInv, Polling
  <2>3. Plain(screen')
    <3>1. confirming.screen \in ScreenType
      BY <2>2 DEF Plain
    <3>2. Plain(Outcome("oc-success", confirming.screen)) /\ Plain(Outcome("error", confirming.screen))
      BY <3>1, OutcomeScreens DEF Steps, Plain
    <3> QED BY <1>1, <1>3, <2>2, <3>1, <3>2, BackScreens DEF OcConfirmEnds
  <2>4. PageTypeOK'
    BY <1>1, <2>1, <2>3, NoneConfirmed DEF PageTypeOK, Plain
  <2>5. Polling'
    BY <2>1, <2>2, NoneConfirmed DEF SendInv, Polling, UnderWayNow
  <2>6. OnScreen'
    BY <2>3 DEF OnScreen, Plain
  <2> QED BY <2>4, <2>5, <2>6 DEF SendInv
<1>4. CASE LnConfirm
  <2>0. ~sending /\ poll = 0 /\ confirming.kind = "none" /\ screen.step = "ln-review"
    BY <1>4 DEF LnConfirm, MaySend, SendInv, Polling
  <2>1. UNCHANGED <<lookups, looked, recalled>>
    BY <1>4 DEF LnConfirm, lookupSide
  <2>2. CASE sending' = TRUE /\ StartPayment(screen) /\ UNCHANGED confirming
    BY <1>1, <2>0, <2>1, <2>2, PaymentStarts DEF PageTypeOK
  <2>3. CASE screen' = Outcome("error", screen) /\ UNCHANGED paySide
    <3>1. Plain(screen')
      BY <1>1, <2>3, OutcomeScreens DEF Steps, Plain
    <3> QED BY <1>1, <2>1, <2>3, <3>1, PlainKeeps DEF paySide, PageTypeOK
  <2>4. CASE /\ sending' = TRUE /\ confirming' = [kind |-> "bolt12", screen |-> screen]
             /\ UNCHANGED <<screen, poll, payments>>
    <3>1. confirming' \in ConfirmType /\ confirming'.kind = "bolt12" /\ confirming'.screen = screen
      BY <1>1, <2>4, ConfirmSet
    <3>2. Plain(screen)
      BY <1>1, <2>0 DEF Plain
    <3>3. PageTypeOK'
      BY <1>1, <2>1, <2>4, <3>1 DEF PageTypeOK
    <3>4. Polling'
      BY <2>0, <2>4, <3>1, <3>2 DEF SendInv, Polling, UnderWayNow, Plain
    <3>5. OnScreen'
      BY <2>0, <2>4 DEF OnScreen
    <3> QED BY <3>3, <3>4, <3>5 DEF SendInv
  <2> QED BY <1>4, <2>2, <2>3, <2>4 DEF LnConfirm
<1>5. CASE LnConfirmEnds
  <2>1. /\ confirming.kind = "bolt12" /\ confirming' = None
        /\ UNCHANGED <<lookups, looked, recalled>>
    BY <1>5 DEF LnConfirmEnds, lookupSide
  <2>2. Plain(confirming.screen) /\ poll = 0 /\ sending = TRUE
    BY <2>1 DEF SendInv, Polling, PageTypeOK
  <2>3. CASE StartPayment(confirming.screen) /\ UNCHANGED sending
    <3>1. confirming.screen \in ScreenType
      BY <2>2 DEF Plain
    <3> QED BY <2>1, <2>2, <2>3, <3>1, NoneConfirmed, PaymentStarts
  <2>4. CASE /\ screen' = Outcome("error", confirming.screen) /\ sending' = FALSE
             /\ UNCHANGED <<poll, payments>>
    <3>1. Plain(screen')
      BY <2>2, <2>4, OutcomeScreens DEF Steps, Plain
    <3>2. PageTypeOK'
      BY <1>1, <2>1, <2>4, <3>1, NoneConfirmed DEF PageTypeOK, Plain
    <3>3. Polling'
      BY <2>1, <2>2, <2>4, NoneConfirmed DEF SendInv, Polling, UnderWayNow
    <3>4. OnScreen'
      BY <3>1 DEF OnScreen, Plain
    <3> QED BY <3>2, <3>3, <3>4 DEF SendInv
  <2> QED BY <1>5, <2>3, <2>4 DEF LnConfirmEnds
<1> QED
  BY <1>2, <1>3, <1>4, <1>5

\* The page lets go of the payment it polled for, whatever became of it.
LEMMA LetGo ==
  ASSUME SendInv, poll' = 0, sending' = FALSE, poll # 0,
         screen' \in ScreenType, screen'.step # "ln-sending",
         screen'.step = "ln-success" => screen'.pay = poll /\ payments[poll].state = "sent",
         \/ payments' = [payments EXCEPT ![poll].letGo = TRUE]
         \/ payments' = payments /\ payments[poll].state # "pending",
         UNCHANGED <<confirming, recalled, lookups, looked>>
  PROVE  SendInv'
<1>1. PageTypeOK /\ poll \in Pays /\ payments[poll] \in PaymentType /\ confirming.kind = "none"
  BY DEF SendInv, PageTypeOK, Polling
<1>2. \A j \in Pays : UnderWayNow(j) => j = poll
  BY DEF SendInv, Polling
<1>3. payments' \in [Pays -> PaymentType]
  <2>1. [payments[poll] EXCEPT !.letGo = TRUE] \in PaymentType
    BY <1>1 DEF PaymentType
  <2> QED BY <1>1, <2>1 DEF PageTypeOK
<1>4. \A j \in Pays : /\ j # poll => payments'[j] = payments[j]
                      /\ payments'[j].state = payments[j].state
  BY <1>1 DEF PageTypeOK, PaymentType
<1>5. payments'[poll].state = "pending" => payments'[poll].letGo
  BY <1>1 DEF PageTypeOK, PaymentType
<1>6. PageTypeOK'
  BY <1>1, <1>3 DEF PageTypeOK
<1>7. Polling'
  BY <1>1, <1>2, <1>4, <1>5 DEF Polling, UnderWayNow
<1>8. OnScreen'
  BY <1>1, <1>4 DEF OnScreen
<1> QED
  BY <1>6, <1>7, <1>8 DEF SendInv

LEMMA OutcomeStep ==
  ASSUME SendInv, PollTick \/ CancelPayment \/ TryAgain
  PROVE  SendInv'
<1>1. PageTypeOK /\ screen \in ScreenType
  BY DEF SendInv, PageTypeOK
<1>2. CASE PollTick
  <2>1. /\ poll # 0 /\ poll' = 0 /\ sending' = FALSE
        /\ UNCHANGED <<confirming, recalled, lookups, looked>>
    BY <1>2 DEF PollTick, lookupSide
  <2>2. poll \in Int
    BY <1>1 DEF PageTypeOK, Pays
  <2>3. CASE /\ payments[poll].state = "sent" /\ UNCHANGED payments
             /\ screen' = [Outcome("ln-success", screen) EXCEPT !.pay = poll]
    <3>1. screen' \in ScreenType /\ screen'.step = "ln-success" /\ screen'.pay = poll
      BY <1>1, <2>2, <2>3, OutcomeScreens DEF Steps
    <3> QED BY <2>1, <2>3, <3>1, LetGo
  <2>4. CASE /\ screen' = Outcome("error", screen)
             /\ \/ payments[poll].state = "failed" /\ UNCHANGED payments
                \/ payments' = [payments EXCEPT ![poll].letGo = TRUE]
    <3>1. screen' \in ScreenType /\ screen'.step = "error"
      BY <1>1, <2>4, OutcomeScreens DEF Steps
    <3> QED BY <2>1, <2>4, <3>1, LetGo
  <2> QED BY <1>2, <2>3, <2>4 DEF PollTick
<1>3. CASE CancelPayment
  <2>1. /\ screen.step = "ln-sending" /\ screen' = Outcome("error", screen)
        /\ payments' = [payments EXCEPT ![screen.pay].letGo = TRUE]
        /\ poll' = 0 /\ sending' = FALSE
        /\ UNCHANGED <<confirming, recalled, lookups, looked>>
    BY <1>3 DEF CancelPayment, lookupSide
  <2>2. screen.pay = poll /\ poll # 0
    BY <2>1 DEF SendInv, OnScreen
  <2>3. screen' \in ScreenType /\ screen'.step = "error"
    BY <1>1, <2>1, OutcomeScreens DEF Steps
  <2> QED BY <2>1, <2>2, <2>3, LetGo
<1>4. CASE TryAgain
  <2>1. screen.to \in Recipients /\ screen.way \in Ways /\ screen.from \in Origins
    BY <1>1 DEF ScreenType
  <2>2. Plain(screen')
    BY <1>4, <2>1, PlainScreens DEF TryAgain
  <2> QED BY <1>1, <1>4, <2>2, PlainKeeps DEF TryAgain, lookupSide, paySide, PageTypeOK
<1> QED
  BY <1>2, <1>3, <1>4

\* Neither LDK's outcome nor the history puts a payment under way.
LEMMA PaymentSet ==
  ASSUME NEW p \in PaymentType
  PROVE  /\ \A s \in {"sent", "failed"} : [p EXCEPT !.state = s, !.update = s] \in PaymentType
         /\ \A r \in {"pending", "lost"} : [p EXCEPT !.record = r] \in PaymentType
         /\ \A r \in {"none", "writing", "pending", "lost", "sent", "failed"} :
              [p EXCEPT !.update = "none", !.record = r] \in PaymentType
  BY DEF PaymentType

LEMMA HistoryKeeps ==
  ASSUME SendInv, NEW i \in Pays, NEW p \in PaymentType,
         payments' = [payments EXCEPT ![i] = p], p.letGo = payments[i].letGo,
         p.state = payments[i].state \/ (payments[i].state = "pending" /\ p.state # "pending"),
         UNCHANGED <<screen, lookups, looked, recalled, sending, confirming, poll>>
  PROVE  SendInv'
<1>1. PageTypeOK
  BY DEF SendInv
<1>2. payments' \in [Pays -> PaymentType] /\ payments'[i] = p
        /\ \A j \in Pays : j # i => payments'[j] = payments[j]
  BY <1>1 DEF PageTypeOK
<1>3. PageTypeOK'
  BY <1>1, <1>2 DEF PageTypeOK
<1>4. Polling'
  BY <1>2 DEF SendInv, Polling, UnderWayNow
<1>5. OnScreen'
  BY <1>2 DEF SendInv, OnScreen
<1> QED
  BY <1>3, <1>4, <1>5 DEF SendInv

LEMMA HistoryStep ==
  ASSUME SendInv, NEW i \in Pays, SettlePayment(i) \/ WriteRecord(i) \/ UpdateRecord(i)
  PROVE  SendInv'
<1>1. PageTypeOK /\ payments[i] \in PaymentType
  BY DEF SendInv, PageTypeOK
<1>2. UNCHANGED <<screen, lookups, looked, recalled, sending, confirming, poll>>
  BY DEF SettlePayment, WriteRecord, UpdateRecord, lookupSide
<1>3. CASE SettlePayment(i)
  <2>1. PICK s \in {"sent", "failed"} :
          payments' = [payments EXCEPT ![i].state = s, ![i].update = s]
    BY <1>3 DEF SettlePayment
  <2>2. PICK p : p = [payments[i] EXCEPT !.state = s, !.update = s]
    OBVIOUS
  <2>3. payments' = [payments EXCEPT ![i] = p]
    BY <1>1, <2>1, <2>2 DEF PageTypeOK
  <2>4. p \in PaymentType /\ p.letGo = payments[i].letGo /\ p.state # "pending"
    <3>1. p \in PaymentType
      BY <1>1, <2>2, PaymentSet
    <3>2. p.letGo = payments[i].letGo
      BY <1>1, <2>2 DEF PaymentType
    <3>3. p.state = s
      BY <1>1, <2>2 DEF PaymentType
    <3> QED BY <3>1, <3>2, <3>3
  <2>5. payments[i].state = "pending"
    BY <1>3 DEF SettlePayment
  <2> QED BY <1>2, <2>3, <2>4, <2>5, HistoryKeeps
<1>4. CASE WriteRecord(i)
  <2>1. PICK r \in {"pending", "lost"} : payments' = [payments EXCEPT ![i].record = r]
    BY <1>4 DEF WriteRecord
  <2>2. PICK p : p = [payments[i] EXCEPT !.record = r]
    OBVIOUS
  <2>3. payments' = [payments EXCEPT ![i] = p]
    BY <1>1, <2>1, <2>2 DEF PageTypeOK
  <2>4. p \in PaymentType
    BY <1>1, <2>2, PaymentSet
  <2>5. p.letGo = payments[i].letGo
    BY <1>1, <2>2 DEF PaymentType
  <2>6. p.state = payments[i].state
    BY <1>1, <2>2 DEF PaymentType
  <2> QED BY <1>2, <2>3, <2>4, <2>5, <2>6, HistoryKeeps
<1>5. CASE UpdateRecord(i)
  <2>1. PICK r \in {"none", "writing", "pending", "lost", "sent", "failed"} :
          payments' = [payments EXCEPT ![i].update = "none", ![i].record = r]
    <3> DEFINE r == IF payments[i].record # "lost" /\ FoundByKey(payments[i])
                    THEN payments[i].update ELSE payments[i].record
    <3>1. r \in {"none", "writing", "pending", "lost", "sent", "failed"}
      BY <1>1 DEF PaymentType
    <3>2. payments' = [payments EXCEPT ![i].update = "none", ![i].record = r]
      BY <1>1, <1>5 DEF UpdateRecord, PageTypeOK
    <3> QED BY <3>1, <3>2
  <2>2. PICK p : p = [payments[i] EXCEPT !.update = "none", !.record = r]
    OBVIOUS
  <2>3. payments' = [payments EXCEPT ![i] = p]
    BY <1>1, <2>1, <2>2 DEF PageTypeOK
  <2>4. p \in PaymentType
    BY <1>1, <2>2, PaymentSet
  <2>5. p.letGo = payments[i].letGo
    BY <1>1, <2>2 DEF PaymentType
  <2>6. p.state = payments[i].state
    BY <1>1, <2>2 DEF PaymentType
  <2> QED BY <1>2, <2>3, <2>4, <2>5, <2>6, HistoryKeeps
<1> QED
  BY <1>3, <1>4, <1>5

LEMMA LeaveStep ==
  ASSUME SendInv, Leave
  PROVE  SendInv'
<1>1. PageTypeOK /\ confirming' = None /\ poll' = 0 /\ sending' = FALSE /\ screen' = Entry
        /\ recalled' = Nothing /\ lookups' = {} /\ looked' = looked
  BY DEF Leave, SendInv
<1>2. ASSUME NEW i \in Pays
      PROVE  /\ payments'[i] \in PaymentType
             /\ payments'[i].state = payments[i].state
             /\ payments'[i].letGo = (payments[i].state # "none")
  <2> DEFINE r == IF payments[i].record = "writing" THEN "lost" ELSE payments[i].record
  <2>1. payments[i] \in PaymentType
    BY <1>1 DEF PageTypeOK
  <2>2. r \in {"none", "writing", "pending", "lost", "sent", "failed"}
    BY <2>1 DEF PaymentType
  <2>3. \A b \in BOOLEAN :
          /\ [payments[i] EXCEPT !.letGo = b, !.update = "none", !.record = r] \in PaymentType
          /\ [payments[i] EXCEPT !.letGo = b, !.update = "none", !.record = r].state
               = payments[i].state
          /\ [payments[i] EXCEPT !.letGo = b, !.update = "none", !.record = r].letGo = b
    <3> HIDE DEF r
    <3> QED BY <2>1, <2>2 DEF PaymentType
  <2>4. payments'[i] = [payments[i] EXCEPT !.letGo = payments[i].state # "none",
                                           !.update = "none", !.record = r]
    BY DEF Leave, Pays
  <2>5. (payments[i].state # "none") \in BOOLEAN
    OBVIOUS
  <2> HIDE DEF r
  <2> QED BY <2>3, <2>4, <2>5
<1>3. payments' \in [Pays -> PaymentType]
  <2>1. DOMAIN payments' = Pays /\ payments' = [i \in Pays |-> payments'[i]]
    BY DEF Leave, Pays
  <2> QED BY <1>2, <2>1
<1>4. Plain(screen') /\ None \in ConfirmType /\ None.kind = "none" /\ Nothing \in RecallType
  BY <1>1, PlainScreens, NoneConfirmed DEF Nothing, RecallType, Recipients, Ways
<1>5. PageTypeOK'
  BY <1>1, <1>3, <1>4 DEF PageTypeOK, Plain
<1>6. Polling'
  BY <1>1, <1>2, <1>4 DEF Polling, UnderWayNow
<1>7. OnScreen'
  BY <1>4 DEF OnScreen, Plain
<1> QED
  BY <1>5, <1>6, <1>7 DEF SendInv

\* However the user taps and goes back, and whenever lookups, LDK and the poll answer, at
\* most one payment is under way that the user was not told to give up, and a success on
\* screen is a payment LDK says was sent (Send.tsx, sendingRef and the poll).
THEOREM PaymentsOneByOne == SendSpec => []OnePaymentAtATime
<1>1. SendInit => SendInv
  <2> SUFFICES ASSUME SendInit PROVE SendInv
    OBVIOUS
  <2>1. NoPayment \in PaymentType /\ NoPayment.state = "none"
    BY DEF NoPayment, PaymentType, Ways
  <2>2. Nothing \in RecallType
    BY DEF Nothing, RecallType, Recipients, Ways
  <2>3. PageTypeOK
    BY <2>1, <2>2, NoneConfirmed, PlainScreens DEF SendInit, PageTypeOK, Pays, Plain
  <2>4. Polling
    BY <2>1, NoneConfirmed DEF SendInit, Polling, UnderWayNow, Pays
  <2>5. OnScreen
    BY PlainScreens DEF SendInit, OnScreen, Plain
  <2> QED BY <2>3, <2>4, <2>5 DEF SendInv
<1>2. SendInv /\ [SendNext]_sendVars => SendInv'
  <2> SUFFICES ASSUME SendInv, [SendNext]_sendVars PROVE SendInv'
    OBVIOUS
  <2>1. CASE UNCHANGED sendVars
    BY <2>1, PlainKeeps DEF sendVars, lookupSide, paySide, SendInv, PageTypeOK
  <2> QED
    BY <2>1, RecipientStep, LookupStep, ConfirmingStep, OutcomeStep, HistoryStep, LeaveStep
       DEF SendNext, Pays
<1>3. SendInv => OnePaymentAtATime
  <2> SUFFICES ASSUME SendInv PROVE OnePaymentAtATime
    OBVIOUS
  <2> DEFINE open == {i \in 1..MaxPayments : payments[i].state = "pending" /\ ~payments[i].letGo}
  <2>1. open \subseteq {poll}
    BY DEF SendInv, Polling, UnderWayNow, Pays
  <2>2. IsFiniteSet({poll}) /\ Cardinality({poll}) = 1
    BY FS_Singleton
  <2>3. Cardinality(open) <= 1
    BY <2>1, <2>2, FS_Subset
  <2> QED BY <2>3 DEF OnePaymentAtATime, SendInv, OnScreen
<1> QED
  BY <1>1, <1>2, <1>3, PTL DEF SendSpec

-----------------------------------------------------------------------------
(* ReceivePage.                                                            *)

QuoteType ==
  [amount : Int, requote : BOOLEAN, rpc : {"connect", "sent", "failed"}, current : BOOLEAN]
AmountsOK ==
  /\ quotes \subseteq QuoteType /\ typed \in 0..MaxAmount /\ confirmed \in 0..MaxAmount

\* A question whose answer still counts is about the confirmed amount.
AskedAsConfirmed == \A q \in quotes : q.current => q.amount = confirmed /\ confirmed > 0
ReviewInv == AmountsOK /\ AskedAsConfirmed /\ ReviewedAsAsked

\* What PhaseA comes to for the review: every earlier question is stale.
Restarted(amount) ==
  /\ \A q \in quotes' : q.current => q.amount = amount /\ amount > 0
  /\ quotes' \subseteq QuoteType /\ receive'.step # "review"

LEMMA StaleQuotes ==
  ASSUME NEW Q, Q \subseteq QuoteType
  PROVE  Stale(Q) \subseteq QuoteType /\ \A q \in Stale(Q) : ~q.current
<1>1. ASSUME NEW q \in QuoteType, NEW r, r = [q EXCEPT !.current = FALSE]
      PROVE  r \in QuoteType /\ ~r.current
  BY <1>1 DEF QuoteType
<1> QED
  BY <1>1 DEF Stale

LEMMA NewQuote ==
  ASSUME NEW amount \in Int, NEW requote \in BOOLEAN, NEW q, q = QuoteFor(amount, requote)
  PROVE  q \in QuoteType /\ q.amount = amount
  BY DEF QuoteFor, QuoteType

LEMMA Restart ==
  ASSUME AmountsOK, NEW a \in 0..MaxAmount,
         \/ quotes' = CleanedUp
         \/ quotes' = CleanedUp \cup {QuoteFor(a, FALSE)} /\ a # 0,
         receive' \in {ReadyBy("none"), ReadyBy("standard"), ReceiveState("quoting")}
  PROVE  Restarted(a)
<1>1. CleanedUp \subseteq QuoteType /\ \A q \in CleanedUp : ~q.current
  BY StaleQuotes DEF CleanedUp, AmountsOK
<1>2. receive'.step # "review"
  BY DEF ReadyBy, ReceiveState
<1>3. a \in Int /\ (a # 0 => a > 0)
  BY ReceivePageAssumption
<1>4. PICK q : q = QuoteFor(a, FALSE)
  OBVIOUS
<1>5. q \in QuoteType /\ q.amount = a
  BY <1>3, <1>4, NewQuote
<1> QED
  BY <1>1, <1>2, <1>3, <1>4, <1>5 DEF Restarted

LEMMA RestartKeeps ==
  ASSUME Restarted(confirmed'), typed' \in 0..MaxAmount, confirmed' \in 0..MaxAmount
  PROVE  ReviewInv'
  BY DEF Restarted, ReviewInv, AmountsOK, AskedAsConfirmed, ReviewedAsAsked

\* A step that asks nothing and shows no other review.
LEMMA AsksNothing ==
  ASSUME ReviewInv, UNCHANGED <<quotes, confirmed>>, typed' \in 0..MaxAmount,
         receive' = receive \/ receive'.step # "review"
  PROVE  ReviewInv'
  BY DEF ReviewInv, AmountsOK, AskedAsConfirmed, ReviewedAsAsked

LEMMA NumpadStep ==
  ASSUME ReviewInv, TypeAmount \/ CancelAmount \/ EditAmount \/ FloorFetched
  PROVE  ReviewInv'
<1>1. UNCHANGED <<quotes, confirmed, receive>>
  BY DEF TypeAmount, CancelAmount, EditAmount, FloorFetched, pageSide
<1>2. typed' \in 0..MaxAmount
  BY DEF TypeAmount, CancelAmount, EditAmount, FloorFetched, pageSide, ReviewInv, AmountsOK
<1> QED
  BY <1>1, <1>2, AsksNothing

LEMMA OnReview ==
  ASSUME Screen = "review"
  PROVE  receive.step = "review"
  BY DEF Screen

LEMMA ConfirmStep ==
  ASSUME ReviewInv, ConfirmAmount
  PROVE  ReviewInv'
<1>1. typed' \in 0..MaxAmount /\ confirmed' \in 0..MaxAmount /\ confirmed' = typed
  BY DEF ConfirmAmount, ReviewInv, AmountsOK
<1>2. CASE typed # confirmed
  <2>1. \/ quotes' = CleanedUp
        \/ quotes' = CleanedUp \cup {QuoteFor(typed, FALSE)} /\ typed # 0
    BY <1>2 DEF ConfirmAmount, PhaseA
  <2>2. receive' \in {ReadyBy("none"), ReadyBy("standard"), ReceiveState("quoting")}
    BY <1>2 DEF ConfirmAmount, PhaseA
  <2>3. Restarted(typed)
    BY <1>1, <2>1, <2>2, Restart DEF ReviewInv, AmountsOK
  <2> QED
    BY <1>1, <2>3, RestartKeeps
<1>3. CASE typed = confirmed
  <2>1. UNCHANGED <<quotes, confirmed>>
    BY <1>3 DEF ConfirmAmount
  <2>2. receive' = receive \/ receive' = ReceiveState("quoting")
    BY <1>3 DEF ConfirmAmount
  <2>3. receive' = receive \/ receive'.step # "review"
    BY <2>2 DEF ReceiveState
  <2> QED
    BY <1>1, <2>1, <2>3, AsksNothing
<1> QED
  BY <1>2, <1>3

LEMMA RestartingStep ==
  ASSUME ReviewInv, RemoveAmount \/ ErrorRetry \/ PeersReconnected \/ ReopenPage
  PROVE  ReviewInv'
<1>1. PICK a \in 0..MaxAmount : confirmed' = a /\ PhaseA(a) /\ typed' \in 0..MaxAmount
  <2>1. 0 \in 0..MaxAmount /\ confirmed \in 0..MaxAmount /\ typed \in 0..MaxAmount
    BY ReceivePageAssumption DEF ReviewInv, AmountsOK
  <2> QED
    BY <2>1 DEF RemoveAmount, ErrorRetry, PeersReconnected, ReopenPage
<1>2. \/ quotes' = CleanedUp
      \/ quotes' = CleanedUp \cup {QuoteFor(a, FALSE)} /\ a # 0
  BY <1>1 DEF PhaseA
<1>3. receive' \in {ReadyBy("none"), ReadyBy("standard"), ReceiveState("quoting")}
  BY <1>1 DEF PhaseA
<1>4. Restarted(a)
  BY <1>2, <1>3, Restart DEF ReviewInv
<1> QED
  BY <1>1, <1>4, RestartKeeps

LEMMA BackStep ==
  ASSUME ReviewInv, ReviewBackToNumpad
  PROVE  ReviewInv'
<1>1. typed' \in 0..MaxAmount /\ confirmed' = 0 /\ 0 \in 0..MaxAmount
  BY ReceivePageAssumption DEF ReviewBackToNumpad, ReviewInv, AmountsOK
<1>2. CASE confirmed > 0
  <2>1. quotes' = CleanedUp
    BY <1>2 DEF ReviewBackToNumpad, PhaseA
  <2>2. receive' \in {ReadyBy("none"), ReadyBy("standard"), ReceiveState("quoting")}
    BY <1>2 DEF ReviewBackToNumpad, PhaseA
  <2>3. Restarted(0)
    BY <1>1, <2>1, <2>2, Restart DEF ReviewInv
  <2> QED
    BY <1>1, <2>3, RestartKeeps
<1>3. CASE ~(confirmed > 0)
  <2>1. quotes' = Stale(quotes) /\ receive' = ReadyBy("none")
    BY <1>3 DEF ReviewBackToNumpad
  <2>2. receive'.step # "review"
    BY <2>1 DEF ReadyBy
  <2>3. Restarted(0)
    BY <2>1, <2>2, StaleQuotes DEF Restarted, ReviewInv, AmountsOK
  <2> QED
    BY <1>1, <2>3, RestartKeeps
<1> QED
  BY <1>2, <1>3

LEMMA GenerateStep ==
  ASSUME ReviewInv, GenerateInvoice
  PROVE  ReviewInv'
<1>1. receive.amount = confirmed /\ confirmed > 0 /\ confirmed \in 0..MaxAmount
  BY OnReview DEF GenerateInvoice, ReviewInv, ReviewedAsAsked, AmountsOK
<1>2. UNCHANGED <<typed, confirmed>>
  BY DEF GenerateInvoice
<1>3. receive'.step # "review"
  <2>1. receive' \in {ReceiveState("buying"), ReceiveState("quoting"), ReceiveState("error")}
    BY DEF GenerateInvoice
  <2> QED
    BY <2>1 DEF ReceiveState
<1>4. CASE UNCHANGED quotes
  BY <1>2, <1>3, <1>4, AsksNothing DEF ReviewInv, AmountsOK
<1>5. CASE quotes' = Stale(quotes) \cup {QuoteFor(receive.amount, TRUE)}
  <2>1. PICK q : q = QuoteFor(confirmed, TRUE)
    OBVIOUS
  <2>2. q \in QuoteType /\ q.amount = confirmed
    <3>1. confirmed \in Int /\ TRUE \in BOOLEAN
      BY <1>1, ReceivePageAssumption
    <3> QED
      BY <2>1, <3>1, NewQuote
  <2>3. Stale(quotes) \subseteq QuoteType /\ \A s \in Stale(quotes) : ~s.current
    BY StaleQuotes DEF ReviewInv, AmountsOK
  <2>4. quotes' = Stale(quotes) \cup {q}
    BY <1>1, <1>5, <2>1
  <2>5. Restarted(confirmed)
    BY <1>1, <1>3, <2>2, <2>3, <2>4 DEF Restarted
  <2> QED
    BY <1>1, <1>2, <2>5, RestartKeeps DEF ReviewInv, AmountsOK
<1> QED
  BY <1>4, <1>5 DEF GenerateInvoice

\* A request that moves on keeps what it asked for and whether it counts.
LEMMA SameQuestion ==
  ASSUME NEW q \in QuoteType, NEW how \in {"connect", "sent", "failed"},
         NEW r, r = [q EXCEPT !.rpc = how]
  PROVE  r \in QuoteType /\ r.amount = q.amount /\ r.current = q.current
  BY DEF QuoteType

\* An answer, a failure or a lost connection: what is still awaited was awaited before.
LEMMA AsksNoMore ==
  ASSUME ReviewInv, UNCHANGED <<typed, confirmed>>, quotes' \subseteq QuoteType,
         \A r \in quotes' : \E q \in quotes : r.amount = q.amount /\ r.current = q.current,
         \/ receive' = receive \/ receive'.step # "review"
         \/ receive'.amount = confirmed /\ confirmed > 0
  PROVE  ReviewInv'
  BY DEF ReviewInv, AmountsOK, AskedAsConfirmed, ReviewedAsAsked

LEMMA QuoteAnswerStep ==
  ASSUME ReviewInv, NEW q \in quotes, ConnectForQuote(q) \/ QuoteAnswered(q) \/ QuoteFails(q)
  PROVE  ReviewInv'
<1>1. q \in QuoteType /\ quotes \subseteq QuoteType
  BY DEF ReviewInv, AmountsOK
<1>2. UNCHANGED <<typed, confirmed>>
  BY DEF ConnectForQuote, QuoteAnswered, QuoteFails, pageSide
<1>3. CASE ConnectForQuote(q)
  <2>1. PICK r : r = [q EXCEPT !.rpc = "sent"]
    OBVIOUS
  <2>2. r \in QuoteType /\ r.amount = q.amount /\ r.current = q.current
    BY <1>1, <2>1, SameQuestion
  <2>3. quotes' = (quotes \ {q}) \cup {r} /\ receive' = receive
    BY <1>3, <2>1 DEF ConnectForQuote, pageSide
  <2> QED
    BY <1>1, <1>2, <2>2, <2>3, AsksNoMore
<1>4. CASE QuoteAnswered(q) \/ QuoteFails(q)
  <2>1. quotes' = quotes \ {q}
    BY <1>4 DEF QuoteAnswered, QuoteFails
  <2>2. q.current => q.amount = confirmed /\ confirmed > 0
    BY DEF ReviewInv, AskedAsConfirmed
  <2>3. \/ receive' = receive \/ receive'.step # "review"
        \/ receive'.amount = confirmed /\ confirmed > 0
    <3>1. CASE QuoteAnswered(q) /\ ~q.current
      BY <3>1 DEF QuoteAnswered, Heeded
    <3>2. CASE QuoteAnswered(q) /\ q.current
      BY <2>2, <3>2 DEF QuoteAnswered, Heeded, ReviewOf, ReceiveState
    <3>3. CASE QuoteFails(q)
      BY <3>3 DEF QuoteFails, ReceiveState, ReadyBy
    <3> QED
      BY <1>4, <3>1, <3>2, <3>3
  <2> QED
    BY <1>1, <1>2, <2>1, <2>3, AsksNoMore
<1> QED
  BY <1>3, <1>4

LEMMA RequestStep ==
  ASSUME ReviewInv, (\E r \in quotes \cup buys : Reap(r)) \/ PeerLost
  PROVE  ReviewInv'
<1>1. quotes \subseteq QuoteType
  BY DEF ReviewInv, AmountsOK
<1>2. UNCHANGED <<typed, confirmed, receive>>
  BY DEF Reap, PeerLost, pageSide
<1>3. ASSUME NEW q \in quotes, NEW r, r = [q EXCEPT !.rpc = "failed"]
      PROVE  r \in QuoteType /\ r.amount = q.amount /\ r.current = q.current
  BY <1>1, <1>3, SameQuestion
<1>4. quotes' \subseteq QuoteType
      /\ \A r \in quotes' : \E q \in quotes : r.amount = q.amount /\ r.current = q.current
  <2>1. CASE \E q \in quotes : quotes' = Failed(quotes, q)
    <3>1. PICK q \in quotes : quotes' = Failed(quotes, q)
      BY <2>1
    <3>2. PICK r : r = [q EXCEPT !.rpc = "failed"]
      OBVIOUS
    <3>3. quotes' = (quotes \ {q}) \cup {r}
      BY <3>1, <3>2 DEF Failed
    <3> QED
      BY <1>1, <1>3, <3>2, <3>3
  <2>2. CASE quotes' = Lost(quotes)
    <3>1. \A r \in quotes' : \E q \in quotes : r = q \/ r = [q EXCEPT !.rpc = "failed"]
      BY <2>2 DEF Lost
    <3> QED
      BY <1>1, <1>3, <3>1
  <2>3. CASE UNCHANGED quotes
    BY <1>1, <2>3
  <2> QED
    BY <2>1, <2>2, <2>3 DEF Reap, PeerLost
<1> QED
  BY <1>2, <1>4, AsksNoMore

LEMMA OtherStep ==
  ASSUME ReviewInv,
         \/ \E b \in buys : BuyAnswered(b) \/ BuyFails(b)
         \/ ExpireInvoice \/ PaymentArrives \/ ChannelBecomesUsable
  PROVE  ReviewInv'
<1>1. UNCHANGED <<quotes, confirmed, typed>>
  BY DEF BuyAnswered, BuyFails, ExpireInvoice, PaymentArrives, ChannelBecomesUsable, pageSide
<1>2. receive' \in {receive, ReadyBy("jit"), ReceiveState("error"), ReceiveState("expired"),
                    ReceiveState("success")}
  BY DEF BuyAnswered, BuyFails, ExpireInvoice, PaymentArrives, ChannelBecomesUsable, pageSide
<1>3. receive' = receive \/ receive'.step # "review"
  BY <1>2 DEF ReadyBy, ReceiveState
<1> QED
  BY <1>1, <1>3, AsksNothing DEF ReviewInv, AmountsOK

(* A review that can be committed is for the amount that is confirmed: an *)
(* answer to an earlier question never shows, whatever was typed, removed *)
(* or retried while it was awaited.  (Receive.tsx, requestCounterRef)     *)
THEOREM ReviewAsAsked == ReceiveSpec => []ReviewedAsAsked
<1>1. ReceiveInit => ReviewInv
  BY ReceivePageAssumption
     DEF ReceiveInit, ReviewInv, AmountsOK, AskedAsConfirmed, ReviewedAsAsked, ReadyBy
<1>2. ReviewInv /\ [ReceiveNext]_receiveVars => ReviewInv'
  <2> SUFFICES ASSUME ReviewInv, [ReceiveNext]_receiveVars
               PROVE  ReviewInv'
    OBVIOUS
  <2>1. CASE TypeAmount \/ CancelAmount \/ EditAmount \/ FloorFetched
    BY <2>1, NumpadStep
  <2>2. CASE ConfirmAmount
    BY <2>2, ConfirmStep
  <2>3. CASE RemoveAmount \/ ErrorRetry \/ PeersReconnected \/ ReopenPage
    BY <2>3, RestartingStep
  <2>4. CASE ReviewBackToNumpad
    BY <2>4, BackStep
  <2>5. CASE GenerateInvoice
    BY <2>5, GenerateStep
  <2>6. CASE Answers
    BY <2>6, QuoteAnswerStep, OtherStep DEF Answers
  <2>7. CASE Failures
    BY <2>7, QuoteAnswerStep, OtherStep, RequestStep DEF Failures
  <2>8. CASE PeerLost
    BY <2>8, RequestStep
  <2>9. CASE ExpireInvoice \/ PaymentArrives \/ ChannelBecomesUsable
    BY <2>9, OtherStep
  <2>10. CASE UNCHANGED receiveVars
    BY <2>10 DEF receiveVars, pageSide, lspSide, nodeSide, ReviewInv, AmountsOK, AskedAsConfirmed, ReviewedAsAsked
  <2> QED
    BY <2>1, <2>2, <2>3, <2>4, <2>5, <2>6, <2>7, <2>8, <2>9, <2>10 DEF ReceiveNext
<1>3. ReviewInv => ReviewedAsAsked
  BY DEF ReviewInv
<1> QED
  BY <1>1, <1>2, <1>3, PTL DEF ReceiveSpec
==============================================================================
