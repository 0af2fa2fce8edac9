--------------------------- MODULE PaymentsProofs ---------------------------
(* Proofs about Payments: what holds of the reservation core still holds when *)
(* webhooks write to it, and what the payments themselves rest on.            *)
EXTENDS Payments, BookingsProofs

\* The types of the payments' own variables.
PayTypes ==
  /\ cpc \in [Checkouts -> CheckoutPc \cup {"idle", "done"}]
  /\ creq \in [Checkouts -> CheckoutRequest \cup {NoRequest}]
  /\ canswer \in [Checkouts -> Answer]
  /\ DOMAIN sessions \subseteq Checkouts
  /\ sessions \in [DOMAIN sessions -> Session]
  /\ dpc \in [Deliveries -> DeliveryPc \cup {"idle"}]
  /\ devent \in [Deliveries -> Checkouts \cup {NoSession}]
  /\ dcode \in [Deliveries -> {"none", "200", "400", "401", "408", "500"}]
  /\ acked \subseteq Checkouts
  /\ turnedAway \subseteq Checkouts
  /\ payments \in [Checkouts -> 0..2]

LEMMA PaymentsTypeParts == PaymentsTypeOK <=> TypeOK /\ PayTypes
  BY DEF PaymentsTypeOK, PayTypes

\* A booking that is CONFIRMED has been confirmed.
ConfirmedCounted ==
  \A b \in DOMAIN bookings : bookings[b].status = "CONFIRMED" => confirms[b] > 0

\* A checkout that has found its booking still has it, and one that has not
\* created its session has none.
CheckoutsInv ==
  \A c \in Checkouts :
    /\ cpc[c] = "createSession" => creq[c].booking \in DOMAIN bookings
    /\ cpc[c] \in {"idle", "findForPay", "createSession"}
         => c \notin DOMAIN sessions

\* A session is of a booking that exists.
SessionsInv == \A c \in DOMAIN sessions : sessions[c].booking \in DOMAIN bookings

\* The session c has been paid and its booking confirmed.
Confirmed(c) == IsPaid(c) /\ confirms[sessions[c].booking] > 0

\* A webhook handler carries a paid session; past its first statement the
\* booking has been confirmed, past its second the payment is recorded.  It
\* has not been answered, unless by the interceptor.
DeliveriesInv ==
  \A d \in Deliveries : dpc[d] # "idle" =>
    /\ IsPaid(devent[d])
    /\ dpc[d] \in {"recordPayment", "acknowledge"} => Confirmed(devent[d])
    /\ dpc[d] = "acknowledge" => payments[devent[d]] > 0
    /\ dcode[d] \in {"none", "408"}

\* Stripe calls, and is turned away, for paid sessions only.
TurnedAwayInv == \A c \in turnedAway : IsPaid(c)

PayInv == /\ PayTypes /\ ConfirmedCounted /\ CheckoutsInv /\ SessionsInv
          /\ DeliveriesInv /\ TurnedAwayInv
          /\ RecordedWasConfirmed /\ AckedIsRecorded

LEMMA PayInvInit == PaymentsInit => PayInv
  BY DEF PaymentsInit, Init, PayInv, PayTypes, ConfirmedCounted, CheckoutsInv,
         SessionsInv, DeliveriesInv, TurnedAwayInv, RecordedWasConfirmed,
         AckedIsRecorded, Answer, NoRequest

----------------------------------------------------------------------------
(* Steps of the reservation core, and status writes of webhooks *)

\* Bookings stay, and the count of confirmations never falls.
LEMMA ConfirmsGrow ==
  ASSUME TypeOK, ConfirmedCounted, Creators, NEW p, Moves(p)
  PROVE  /\ DOMAIN bookings \subseteq DOMAIN bookings'
         /\ \A b \in DOMAIN bookings : confirms[b] > 0 => confirms'[b] > 0
         /\ ConfirmedCounted'
  <1>1. CASE p \in Requests /\ Alone(p) /\ Reads(p)
    BY <1>1 DEF Reads, ConfirmedCounted
  <1>2. CASE p \in Requests /\ Alone(p) /\ Inserts(p)
    <2>1. NewBooking(req[p]).status = "PENDING"
      BY DEF NewBooking
    <2>. QED  BY <1>2, <2>1 DEF Inserts, ConfirmedCounted
  <1>3. CASE Writes(p)
    <2>1. PICK b \in DOMAIN bookings, s \in Status : WriteStatus(p, b, s)
      BY <1>3 DEF Writes
    <2>2. b \in Requests /\ \A x \in Requests : confirms[x] \in Nat
      BY DEF TypeOK
    <2>3. /\ \A x \in Requests : confirms'[x] >= confirms[x]
          /\ s = "CONFIRMED" /\ bookings[b].status # "CONFIRMED"
               => confirms'[b] = confirms[b] + 1
      BY <2>1, <2>2 DEF WriteStatus, TypeOK
    <2>4. /\ DOMAIN bookings' = DOMAIN bookings
          /\ bookings'[b].status = s
          /\ \A x \in DOMAIN bookings : x # b => bookings'[x] = bookings[x]
      BY <2>1, WriteFrame
    <2>5. \A x \in DOMAIN bookings : confirms[x] > 0 => confirms'[x] > 0
      <3>. SUFFICES ASSUME NEW x \in DOMAIN bookings, confirms[x] > 0
                    PROVE  confirms'[x] > 0
        OBVIOUS
      <3>1. x \in Requests /\ confirms[x] \in Nat
        BY DEF TypeOK
      <3>2. confirms'[x] \in Nat
        BY <2>1, <3>1, WriteTyped
      <3>. QED  BY <2>3, <3>1, <3>2
    <2>6. ConfirmedCounted'
      <3>. SUFFICES ASSUME NEW x \in DOMAIN bookings,
                           bookings'[x].status = "CONFIRMED"
                    PROVE  confirms'[x] > 0
        BY <2>4 DEF ConfirmedCounted
      <3>1. CASE bookings[x].status = "CONFIRMED"
        BY <2>5, <3>1 DEF ConfirmedCounted
      <3>2. CASE bookings[x].status # "CONFIRMED"
        BY <2>2, <2>3, <2>4, <3>2
      <3>. QED  BY <3>1, <3>2
    <2>. QED  BY <2>4, <2>5, <2>6
  <1>. QED  BY <1>1, <1>2, <1>3 DEF Moves

\* Whatever moves the bookings, the payments' invariant is undisturbed.
LEMMA CoreStep ==
  ASSUME Inv, PayInv, NEW p, Moves(p), UNCHANGED payVars
  PROVE  PayInv'
  <1>. USE DEF payVars
  <1>1. /\ DOMAIN bookings \subseteq DOMAIN bookings'
        /\ \A b \in DOMAIN bookings : confirms[b] > 0 => confirms'[b] > 0
        /\ ConfirmedCounted'
    BY ConfirmsGrow DEF Inv, PayInv
  <1>2. PayTypes'
    BY DEF PayInv, PayTypes
  <1>3. CheckoutsInv' /\ SessionsInv'
    BY <1>1 DEF PayInv, CheckoutsInv, SessionsInv
  <1>4. \A c \in Checkouts : /\ IsPaid(c)' = IsPaid(c)
                             /\ Confirmed(c) => Confirmed(c)'
    BY <1>1 DEF PayInv, SessionsInv, Confirmed, IsPaid
  <1>5. DeliveriesInv'
    BY <1>4 DEF PayInv, DeliveriesInv, IsPaid, PayTypes
  <1>6. RecordedWasConfirmed' /\ AckedIsRecorded'
    BY <1>4 DEF PayInv, RecordedWasConfirmed, AckedIsRecorded, Confirmed
  <1>7. TurnedAwayInv'
    BY <1>4 DEF PayInv, PayTypes, TurnedAwayInv
  <1>. QED  BY <1>1, <1>2, <1>3, <1>5, <1>6, <1>7 DEF PayInv

\* The reservation invariant survives a webhook's write.
LEMMA WebhookWrites ==
  ASSUME Inv, NEW d, NEW b \in DOMAIN bookings,
         WriteStatus(d, b, "CONFIRMED"),
         UNCHANGED <<listings, pc, req, seen, answer, mails, raced>>
  PROVE  Moves(d) /\ Inv'
  <1>1. "CONFIRMED" \in Status
    BY DEF Status
  <1>2. Writes(d) /\ Moves(d)
    BY <1>1 DEF Writes, Moves
  <1>3. TypeOK' /\ Targets'
    BY <1>1, WriteTyped DEF Inv, TypeOK, Targets
  <1>. QED
    BY <1>2, <1>3, CreatorsStep, WindowsStep, OverlapsStep, ListingsStep,
       StaysStep DEF Inv

----------------------------------------------------------------------------
(* Steps of checkouts, of Stripe and of webhooks *)

LEMMA CheckoutPreserves ==
  ASSUME Inv, PayInv, NEW c \in Checkouts, CheckoutStep(c)
  PROVE  PayInv' /\ UNCHANGED vars
  <1>. USE DEF PayInv, CheckoutUnchanged
  <1>0. UNCHANGED <<vars, dpc, devent, dcode, acked, turnedAway, payments>>
    BY DEF CheckoutStep, ReceiveCheckout, FindForPay, CreateSession,
           RespondCheckout, CrashCheckout, TimeoutCheckout, Pay, Expire,
           SetSession, FinishCheckout
  <1>1. /\ ConfirmedCounted'
        /\ UNCHANGED <<bookings, confirms>>
    BY <1>0 DEF vars, ConfirmedCounted
  <1>2. \* what is enough of the sessions for everything else
        ASSUME PayTypes', CheckoutsInv', SessionsInv',
               \A x \in Checkouts : IsPaid(x) =>
                 IsPaid(x)' /\ sessions'[x].booking = sessions[x].booking
        PROVE  PayInv'
    <2>1. \A x \in Checkouts : Confirmed(x) => Confirmed(x)'
      BY <1>1, <1>2 DEF Confirmed
    <2>2. DeliveriesInv'
      BY <1>0, <1>2, <2>1 DEF DeliveriesInv, IsPaid, PayTypes
    <2>3. RecordedWasConfirmed' /\ AckedIsRecorded'
      BY <1>0, <2>1 DEF RecordedWasConfirmed, AckedIsRecorded, Confirmed
    <2>4. TurnedAwayInv'
      BY <1>0, <1>2 DEF TurnedAwayInv, PayTypes
    <2>. QED  BY <1>1, <1>2, <2>2, <2>3, <2>4
  <1>3. CASE UNCHANGED sessions /\ PayTypes' /\ CheckoutsInv'
    BY <1>0, <1>1, <1>2, <1>3 DEF SessionsInv, IsPaid
  <1>4. CASE ReceiveCheckout(c)
    <2>1. PICK u \in Users, b \in DOMAIN bookings \cup {c} :
            creq' = [creq EXCEPT ![c] = [user |-> u, booking |-> b]]
      BY <1>4 DEF ReceiveCheckout
    <2>2. [user |-> u, booking |-> b] \in CheckoutRequest
      BY DEF CheckoutRequest, Inv, TypeOK
    <2>3. PayTypes'
      BY <1>0, <1>4, <2>1, <2>2 DEF ReceiveCheckout, PayTypes, CheckoutPc
    <2>. QED
      BY <1>1, <1>3, <1>4, <2>3 DEF ReceiveCheckout, CheckoutsInv, PayTypes
  <1>5. CASE FindForPay(c)
    <2>1. PayTypes'
      BY <1>0, <1>5
         DEF FindForPay, FinishCheckout, PayTypes, CheckoutPc, Answer
    <2>2. CheckoutsInv'
      BY <1>1, <1>5 DEF FindForPay, FinishCheckout, CheckoutAllowed,
                        CheckoutsInv, PayTypes, CheckoutPc
    <2>3. UNCHANGED sessions
      BY <1>5 DEF FindForPay, FinishCheckout
    <2>. QED  BY <1>3, <2>1, <2>2, <2>3
  <1>6. CASE CreateSession(c)
    <2>1. creq[c].booking \in DOMAIN bookings /\ c \notin DOMAIN sessions
      BY <1>6 DEF CreateSession, CheckoutsInv
    <2>2. NewSession(creq[c].booking) \in Session
      BY <2>1 DEF NewSession, Session, Inv, TypeOK, Booking
    <2>3. DOMAIN sessions' = DOMAIN sessions \cup {c}
          /\ sessions'[c] = NewSession(creq[c].booking)
          /\ \A x \in DOMAIN sessions : sessions'[x] = sessions[x]
      BY <1>6, <2>1 DEF CreateSession
    <2>4. PayTypes'
      BY <1>0, <1>6, <2>2, <2>3 DEF CreateSession, PayTypes, CheckoutPc
    <2>5. CheckoutsInv'
      BY <1>1, <1>6, <2>3 DEF CreateSession, CheckoutsInv, PayTypes
    <2>6. SessionsInv'
      BY <1>1, <2>1, <2>3 DEF SessionsInv, NewSession
    <2>7. \A x \in Checkouts : IsPaid(x) =>
            IsPaid(x)' /\ sessions'[x].booking = sessions[x].booking
      BY <2>3 DEF IsPaid
    <2>. QED  BY <1>0, <1>2, <2>4, <2>5, <2>6, <2>7
  <1>7. CASE RespondCheckout(c) \/ CrashCheckout(c)
    <2>1. PayTypes'
      BY <1>0, <1>7 DEF RespondCheckout, CrashCheckout, FinishCheckout,
                        PayTypes, CheckoutPc, Answer
    <2>2. CheckoutsInv' /\ UNCHANGED sessions
      BY <1>1, <1>7 DEF RespondCheckout, CrashCheckout, FinishCheckout,
                        CheckoutsInv, PayTypes, CheckoutPc
    <2>. QED  BY <1>3, <2>1, <2>2
  <1>8. CASE TimeoutCheckout(c)
    <2>1. PayTypes'
      BY <1>0, <1>8 DEF TimeoutCheckout, PayTypes, Answer
    <2>2. CheckoutsInv' /\ UNCHANGED sessions
      BY <1>1, <1>8 DEF TimeoutCheckout, CheckoutsInv
    <2>. QED  BY <1>3, <2>1, <2>2
  <1>9. CASE Pay(c) \/ Expire(c)
    <2>1. PICK s \in {"paid", "expired"} : SetSession(c, s)
      BY <1>9 DEF Pay, Expire
    <2>2. c \in DOMAIN sessions /\ sessions[c] \in Session
      BY <2>1 DEF SetSession, PayTypes
    <2>3. /\ sessions' = [sessions EXCEPT ![c] = [sessions[c] EXCEPT !.state = s]]
          /\ [sessions[c] EXCEPT !.state = s] \in Session
          /\ [sessions[c] EXCEPT !.state = s].booking = sessions[c].booking
      BY <2>1, <2>2 DEF SetSession, Session
    <2>4. /\ DOMAIN sessions' = DOMAIN sessions
          /\ sessions' \in [DOMAIN sessions' -> Session]
          /\ \A x \in DOMAIN sessions :
               /\ sessions'[x].booking = sessions[x].booking
               /\ x # c => sessions'[x] = sessions[x]
      BY <2>2, <2>3 DEF PayTypes
    <2>5. PayTypes'
      BY <1>0, <2>1, <2>4 DEF SetSession, PayTypes
    <2>6. CheckoutsInv' /\ SessionsInv'
      BY <1>1, <2>1, <2>4 DEF SetSession, CheckoutsInv, SessionsInv
    <2>7. \A x \in Checkouts : IsPaid(x) =>
            IsPaid(x)' /\ sessions'[x].booking = sessions[x].booking
      BY <2>1, <2>4 DEF SetSession, IsPaid
    <2>. QED  BY <1>0, <1>2, <2>5, <2>6, <2>7
  <1>. QED
    BY <1>0, <1>4, <1>5, <1>6, <1>7, <1>8, <1>9 DEF CheckoutStep

\* What a step of delivery d leaves alone.
DeliveryAlone(d) ==
  /\ DeliveryUnchanged
  /\ \A x \in Deliveries \ {d} : /\ dpc'[x] = dpc[x] /\ devent'[x] = devent[x]
                                 /\ dcode'[x] = dcode[x]

\* The invariant after a step of delivery d that leaves the bookings alone
\* and forgets no payment, if it holds of d and of what d has recorded and
\* acknowledged.
LEMMA DeliveryFrame ==
  ASSUME PayInv, NEW d \in Deliveries, DeliveryAlone(d), UNCHANGED vars,
         PayTypes',
         \A c \in Checkouts : payments[c] > 0 => payments'[c] > 0,
         dpc'[d] # "idle" =>
           /\ IsPaid(devent'[d])
           /\ dpc'[d] \in {"recordPayment", "acknowledge"}
                => Confirmed(devent'[d])
           /\ dpc'[d] = "acknowledge" => payments'[devent'[d]] > 0
           /\ dcode'[d] \in {"none", "408"},
         \A c \in Checkouts :
           payments'[c] > 0 /\ ~(payments[c] > 0) => Confirmed(c),
         \A c \in acked' : payments'[c] > 0,
         \A c \in turnedAway' : c \in turnedAway \/ IsPaid(c)
  PROVE  PayInv'
  <1>. USE DEF PayInv, DeliveryAlone, DeliveryUnchanged, vars
  <1>1. ConfirmedCounted' /\ CheckoutsInv' /\ SessionsInv'
    BY DEF ConfirmedCounted, CheckoutsInv, SessionsInv
  <1>2. DeliveriesInv'
    BY DEF DeliveriesInv, Confirmed, IsPaid, PayTypes
  <1>3. RecordedWasConfirmed'
    BY DEF RecordedWasConfirmed, Confirmed, IsPaid
  <1>4. AckedIsRecorded'
    BY DEF AckedIsRecorded
  <1>5. TurnedAwayInv'
    BY DEF TurnedAwayInv, IsPaid
  <1>. QED  BY <1>1, <1>2, <1>3, <1>4, <1>5

LEMMA DeliveryPreserves ==
  ASSUME Inv, PayInv, NEW d \in Deliveries,
         \/ \E c \in Checkouts : Deliver(d, c)
         \/ WebhookStep(d) \/ TimeoutDelivery(d)
  PROVE  PayInv' /\ (UNCHANGED vars \/ Inv')
  <1>. USE DEF DeliveryAlone
  <1>. PayTypes /\ DeliveriesInv
    BY DEF PayInv
  <1>0. NoSession \notin DOMAIN sessions
    BY NoSessionAssumption DEF PayTypes
  <1>1. ASSUME NEW c \in Checkouts, Deliver(d, c)
        PROVE  PayInv' /\ UNCHANGED vars
    <2>. USE DEF Deliver, Admit, TurnAway
    <2>1. PayTypes'
      BY <1>1 DEF PayTypes, DeliveryUnchanged, DeliveryPc
    <2>2. /\ DeliveryAlone(d) /\ UNCHANGED <<vars, payments, acked>>
          /\ turnedAway' \subseteq turnedAway \cup {c} /\ IsPaid(c)
      BY <1>1 DEF PayTypes
    <2>3. dpc'[d] # "idle" =>
            /\ devent'[d] = c /\ IsPaid(c)
            /\ dpc'[d] = "confirmBooking" /\ dcode'[d] = "none"
      BY <1>1 DEF PayTypes
    <2>. QED
      BY <2>1, <2>2, <2>3, DeliveryFrame DEF PayInv, AckedIsRecorded
  <1>2. CASE ConfirmBooking(d)
    <2>. DEFINE c == devent[d]
                b == sessions[c].booking
    <2>1. c \in DOMAIN sessions /\ c \in Checkouts /\ b \in DOMAIN bookings
      BY <1>2 DEF ConfirmBooking, DeliveriesInv, IsPaid, PayInv, SessionsInv,
                  PayTypes
    <2>2. /\ WriteStatus(d, b, "CONFIRMED")
          /\ UNCHANGED <<listings, pc, req, seen, answer, mails, raced>>
          /\ UNCHANGED <<cpc, creq, canswer, sessions, devent, dcode, acked,
                         turnedAway, payments>>
          /\ dpc' = [dpc EXCEPT ![d] = "recordPayment"]
          /\ dpc[d] = "confirmBooking"
      BY <1>2 DEF ConfirmBooking, DeliveryUnchanged
    <2>3. Moves(d) /\ Inv'
      BY <2>1, <2>2, WebhookWrites
    <2>4. /\ DOMAIN bookings \subseteq DOMAIN bookings'
          /\ \A x \in DOMAIN bookings : confirms[x] > 0 => confirms'[x] > 0
          /\ ConfirmedCounted'
      BY <2>3, ConfirmsGrow DEF Inv, PayInv
    <2>5. bookings'[b].status = "CONFIRMED"
      BY <2>1, <2>2, WriteFrame DEF Inv, Status
    <2>6. confirms'[b] > 0
      BY <2>1, <2>4, <2>5 DEF ConfirmedCounted
    <2>7. \A x \in Checkouts : /\ IsPaid(x)' = IsPaid(x)
                               /\ Confirmed(x) => Confirmed(x)'
      BY <2>2, <2>4 DEF PayInv, SessionsInv, Confirmed, IsPaid
    <2>8. PayTypes'
      BY <2>2 DEF PayTypes, DeliveryPc
    <2>9. CheckoutsInv' /\ SessionsInv'
      BY <2>2, <2>4 DEF PayInv, CheckoutsInv, SessionsInv
    <2>10. DeliveriesInv'
      <3>1. IsPaid(c)' /\ Confirmed(c)'
        BY <2>1, <2>2, <2>6, <2>7 DEF DeliveriesInv, Confirmed
      <3>. QED  BY <2>2, <2>7, <3>1 DEF DeliveriesInv, PayTypes, IsPaid
    <2>11. RecordedWasConfirmed' /\ AckedIsRecorded'
      BY <2>2, <2>7 DEF PayInv, RecordedWasConfirmed, AckedIsRecorded,
                        Confirmed
    <2>12. TurnedAwayInv'
      BY <2>2, <2>7 DEF PayInv, PayTypes, TurnedAwayInv
    <2>. QED  BY <2>3, <2>4, <2>8, <2>9, <2>10, <2>11, <2>12 DEF PayInv
  <1>3. CASE RecordPayment(d)
    <2>. DEFINE c == devent[d]
    <2>1. c \in Checkouts /\ Confirmed(c) /\ dcode[d] \in {"none", "408"}
      BY <1>0, <1>3 DEF RecordPayment, DeliveriesInv, IsPaid, PayTypes
    <2>2. PayTypes'
      BY <1>3, <2>1 DEF RecordPayment, PayTypes, DeliveryUnchanged, DeliveryPc
    <2>3. DeliveryAlone(d) /\ UNCHANGED <<vars, devent, dcode, acked, turnedAway>>
      BY <1>3 DEF RecordPayment, PayTypes
    <2>4. /\ payments'[c] > 0
          /\ \A x \in Checkouts : x # c => payments'[x] = payments[x]
      BY <1>3, <2>1 DEF RecordPayment, PayTypes
    <2>5. dpc'[d] = "acknowledge"
      BY <1>3 DEF RecordPayment, PayTypes
    <2>6. \A x \in Checkouts : payments[x] > 0 => payments'[x] > 0
      BY <2>4
    <2>7. \A x \in acked' : payments'[x] > 0
      BY <2>3, <2>6 DEF PayInv, PayTypes, AckedIsRecorded
    <2>8. \A x \in Checkouts :
            payments'[x] > 0 /\ ~(payments[x] > 0) => Confirmed(x)
      BY <2>1, <2>4
    <2>9. IsPaid(devent'[d]) /\ Confirmed(devent'[d])
          /\ payments'[devent'[d]] > 0 /\ dcode'[d] \in {"none", "408"}
      BY <2>1, <2>3, <2>4 DEF Confirmed
    <2>. QED
      BY <2>2, <2>3, <2>5, <2>6, <2>7, <2>8, <2>9, DeliveryFrame
  <1>4. CASE Acknowledge(d) \/ CrashDelivery(d)
    <2>1. PICK code \in {"200", "500"} :
            /\ FinishDelivery(d, code)
            /\ dpc[d] # "idle"
            /\ code = "200" => dpc[d] = "acknowledge"
      BY <1>4 DEF Acknowledge, CrashDelivery, DeliveryPc
    <2>2. devent[d] \in Checkouts /\ dcode[d] \in {"none", "408"}
      BY <1>0, <2>1 DEF DeliveriesInv, IsPaid, PayTypes
    <2>3. dcode'[d] = "200" => payments[devent[d]] > 0
      BY <2>1, <2>2 DEF FinishDelivery, DeliveriesInv, PayTypes
    <2>4. PayTypes'
      BY <2>1, <2>2
         DEF FinishDelivery, PayTypes, DeliveryUnchanged
    <2>5. DeliveryAlone(d) /\ UNCHANGED <<vars, turnedAway, payments>> /\ dpc'[d] = "idle"
      BY <2>1 DEF FinishDelivery, PayTypes
    <2>6. \A c \in acked' : payments'[c] > 0
      BY <2>1, <2>3, <2>5 DEF FinishDelivery, PayInv, AckedIsRecorded
    <2>. QED  BY <2>4, <2>5, <2>6, DeliveryFrame
  <1>5. CASE TimeoutDelivery(d)
    <2>1. PayTypes'
      BY <1>5 DEF TimeoutDelivery, PayTypes, DeliveryUnchanged
    <2>2. /\ DeliveryAlone(d)
          /\ UNCHANGED <<vars, dpc, devent, acked, turnedAway, payments>>
      BY <1>5 DEF TimeoutDelivery, PayTypes
    <2>3. dcode'[d] = "408"
      BY <1>5 DEF TimeoutDelivery, PayTypes
    <2>. QED
      BY <2>1, <2>2, <2>3, DeliveryFrame
         DEF PayInv, AckedIsRecorded, DeliveriesInv
  <1>. QED  BY <1>1, <1>2, <1>3, <1>4, <1>5 DEF WebhookStep

----------------------------------------------------------------------------
(* Invariance *)

LEMMA PaymentsStep ==
  ASSUME Inv, PayInv, [PaymentsNext]_allVars
  PROVE  Inv' /\ PayInv'
  <1>1. CASE Next /\ UNCHANGED payVars
    <2>1. PICK p \in Requests : Step(p)
      BY <1>1 DEF Next
    <2>2. Inv'
      BY <1>1, InvNext
    <2>3. Moves(p)
      BY <2>1, StepKinds, StepAlone DEF Inv, Moves
    <2>. QED  BY <1>1, <2>2, <2>3, CoreStep
  <1>2. ASSUME UNCHANGED vars PROVE Inv'
    BY <1>2, InvNext
  <1>3. CASE \E c \in Checkouts : CheckoutStep(c)
    BY <1>2, <1>3, CheckoutPreserves
  <1>4. CASE \E d \in Deliveries : \/ \E c \in Checkouts : Deliver(d, c)
                                   \/ WebhookStep(d)
                                   \/ TimeoutDelivery(d)
    BY <1>2, <1>4, DeliveryPreserves
  <1>5. CASE UNCHANGED allVars
    <2>1. UNCHANGED <<vars, payVars>>
      BY <1>5 DEF allVars
    <2>2. PayInv'
      BY <2>1 DEF vars, payVars, PayInv, PayTypes, ConfirmedCounted,
                  CheckoutsInv, SessionsInv, DeliveriesInv, TurnedAwayInv,
                  Confirmed, IsPaid, RecordedWasConfirmed, AckedIsRecorded
    <2>. QED  BY <1>2, <2>1, <2>2
  <1>. QED  BY <1>1, <1>3, <1>4, <1>5 DEF PaymentsNext

LEMMA PaymentsInvariance == PaymentsSpec => [](Inv /\ PayInv)
  <1>1. PaymentsInit => Inv /\ PayInv
    BY InvInit, PayInvInit DEF PaymentsInit
  <1>. QED  BY <1>1, PaymentsStep, PTL DEF PaymentsSpec

\* Every variable of the composition keeps its type, for any number of
\* requests, checkouts and concurrent deliveries.
THEOREM PaymentsTypeCorrect == PaymentsSpec => []PaymentsTypeOK
  <1>1. Inv /\ PayInv => PaymentsTypeOK
    BY PaymentsTypeParts DEF Inv, PayInv
  <1>. QED  BY <1>1, PaymentsInvariance, PTL

\* A webhook that confirms whatever the booking has become adds no third cause
\* of double bookings: its write is a revival like a host's.
THEOREM OverlapsStayExplained == PaymentsSpec => []OverlapsExplained
  <1>1. Inv /\ PayInv => OverlapsExplained
    BY DEF Inv
  <1>. QED  BY <1>1, PaymentsInvariance, PTL

\* A recorded payment was paid, and its booking has been confirmed, for any
\* interleaving of deliveries, crashes, retries and cancellations.
THEOREM RecordedWereConfirmed == PaymentsSpec => []RecordedWasConfirmed
  <1>1. Inv /\ PayInv => RecordedWasConfirmed
    BY DEF PayInv
  <1>. QED  BY <1>1, PaymentsInvariance, PTL

\* Stripe is never told 200 of a session whose payment is not in the table.
THEOREM AckedAreRecorded == PaymentsSpec => []AckedIsRecorded
  <1>1. Inv /\ PayInv => AckedIsRecorded
    BY DEF PayInv
  <1>. QED  BY <1>1, PaymentsInvariance, PTL

----------------------------------------------------------------------------
(* Confirmation mails beside webhooks *)

\* A webhook confirms without a mail, and its write marks the bookings that a
\* handler has read and not yet written.
LEMMA PaymentsMails ==
  ASSUME Inv, PayInv, MailsInv, [PaymentsNext]_allVars
  PROVE  MailsInv'
  <1>1. CASE UNCHANGED vars
    BY <1>1 DEF vars, MailsInv, ReadsCurrent, MailsCovered, Mailers
  <1>2. CASE Next
    BY <1>2, MailsStep DEF Next, Inv
  <1>3. CASE \E c \in Checkouts : CheckoutStep(c)
    BY <1>1, <1>3, CheckoutPreserves
  <1>4. ASSUME NEW d \in Deliveries, ConfirmBooking(d)
        PROVE  MailsInv'
    <2>. DEFINE b == sessions[devent[d]].booking
    <2>1. b \in DOMAIN bookings
      BY <1>4 DEF ConfirmBooking, DeliveriesInv, IsPaid, PayInv, SessionsInv
    <2>2. /\ WriteStatus(d, b, "CONFIRMED") /\ "CONFIRMED" \in Status
          /\ UNCHANGED <<pc, req, seen, mails>>
      BY <1>4 DEF ConfirmBooking, Status
    <2>3. d \notin Requests
      BY DeliveriesAssumption
    <2>. QED  BY <2>1, <2>2, <2>3, QuietWriteMails DEF Inv
  <1>5. CASE \E d \in Deliveries : \/ \E c \in Checkouts : Deliver(d, c)
                                   \/ WebhookStep(d)
                                   \/ TimeoutDelivery(d)
    BY <1>1, <1>4, <1>5
       DEF Deliver, WebhookStep, TimeoutDelivery, RecordPayment, Acknowledge,
           CrashDelivery, FinishDelivery
  <1>6. CASE UNCHANGED allVars
    BY <1>1, <1>6 DEF allVars
  <1>. QED  BY <1>2, <1>3, <1>5, <1>6 DEF PaymentsNext

\* Webhooks confirm bookings beside the hosts, and still no guest is mailed more
\* often than the booking was confirmed unless two calls wrote it at once.
THEOREM MailsStayExplained == PaymentsSpec => []MailsExplained
  <1>1. PaymentsInit => MailsInv
    BY MailsInit DEF PaymentsInit
  <1>2. Inv /\ MailsInv => MailsExplained
    BY MailsEnough DEF Inv
  <1>. QED
    BY <1>1, <1>2, PaymentsMails, PaymentsInvariance, PTL DEF PaymentsSpec

----------------------------------------------------------------------------
(* Who may advance a booking, beside webhooks *)

\* The metadata of a session still name the parties of its booking.
SessionParties ==
  \A c \in DOMAIN sessions :
    LET row == bookings[sessions[c].booking]
    IN  sessions[c].guest = row.guest /\ sessions[c].host = row.host

\* What the checks and the metadata rest on: rows keep their parties.
PartiesInv == Authorised /\ SessionParties

\* However the bookings move, a session's metadata stay true of its row and
\* whoever was allowed to write a status still is.
LEMMA PartiesKeep ==
  ASSUME Inv, PayInv, NEW p, Moves(p)
  PROVE  /\ SessionParties /\ UNCHANGED sessions => SessionParties'
         /\ \A r : UpdateAllowed(r) => UpdateAllowed(r)'
  <1>1. \A b \in DOMAIN bookings :
          /\ b \in DOMAIN bookings'
          /\ bookings'[b].host = bookings[b].host
          /\ bookings'[b].guest = bookings[b].guest
    BY RowsKeep DEF Inv
  <1>2. SessionParties /\ UNCHANGED sessions => SessionParties'
    BY <1>1 DEF SessionParties, SessionsInv, PayInv
  <1>3. \A r : UpdateAllowed(r) => UpdateAllowed(r)'
    BY <1>1 DEF UpdateAllowed
  <1>. QED  BY <1>2, <1>3

\* A checkout takes the parties from the row as it stands when the session is
\* created, and nothing changes them afterwards.
LEMMA CheckoutParties ==
  ASSUME Inv, PayInv, SessionParties, NEW c \in Checkouts, CheckoutStep(c)
  PROVE  SessionParties'
  <1>1. UNCHANGED bookings
    BY CheckoutPreserves DEF vars
  <1>2. CASE UNCHANGED sessions
    BY <1>1, <1>2 DEF SessionParties
  <1>3. CASE CreateSession(c)
    <2>1. creq[c].booking \in DOMAIN bookings /\ c \notin DOMAIN sessions
      BY <1>3 DEF CreateSession, PayInv, CheckoutsInv
    <2>2. /\ DOMAIN sessions' = DOMAIN sessions \cup {c}
          /\ sessions'[c] = NewSession(creq[c].booking)
          /\ \A x \in DOMAIN sessions : sessions'[x] = sessions[x]
      BY <1>3, <2>1 DEF CreateSession
    <2>. QED  BY <1>1, <2>2 DEF SessionParties, NewSession
  <1>4. CASE Pay(c) \/ Expire(c)
    <2>1. PICK s \in {"paid", "expired"} : SetSession(c, s)
      BY <1>4 DEF Pay, Expire
    <2>2. \A x \in DOMAIN sessions : sessions[x] \in Session
      BY DEF PayInv, PayTypes
    <2>3. /\ DOMAIN sessions' = DOMAIN sessions
          /\ \A x \in DOMAIN sessions :
               /\ sessions'[x].booking = sessions[x].booking
               /\ sessions'[x].guest = sessions[x].guest
               /\ sessions'[x].host = sessions[x].host
      BY <2>1, <2>2 DEF SetSession, Session
    <2>. QED  BY <1>1, <2>3 DEF SessionParties
  <1>. QED
    BY <1>2, <1>3, <1>4
       DEF CheckoutStep, ReceiveCheckout, FindForPay, RespondCheckout,
           CrashCheckout, TimeoutCheckout, FinishCheckout

\* A delivery touches the bookings in one statement only, and in that one as the
\* handler of a paid session of the booking it writes.
LEMMA DeliveryWrites ==
  ASSUME Inv, PayInv, NEW d \in Deliveries,
         \/ \E c \in Checkouts : Deliver(d, c)
         \/ WebhookStep(d) \/ TimeoutDelivery(d)
  PROVE  /\ UNCHANGED sessions
         /\ \/ UNCHANGED vars
            \/ LET b == sessions[devent[d]].booking
               IN  /\ dpc[d] = "confirmBooking" /\ dpc'[d] = "recordPayment"
                   /\ IsPaid(devent[d]) /\ b \in DOMAIN bookings
                   /\ WriteStatus(d, b, "CONFIRMED")
                   /\ UNCHANGED <<listings, pc, req, seen, answer, mails, raced>>
  <1>1. CASE ConfirmBooking(d)
    BY <1>1 DEF ConfirmBooking, DeliveryUnchanged, DeliveriesInv, PayInv,
                PayTypes, SessionsInv, IsPaid
  <1>2. CASE ~ConfirmBooking(d)
    BY <1>2 DEF WebhookStep, Deliver, TimeoutDelivery, RecordPayment,
                Acknowledge, CrashDelivery, FinishDelivery, DeliveryUnchanged
  <1>. QED  BY <1>1, <1>2

LEMMA PartiesStep ==
  ASSUME Inv, PayInv, PartiesInv, [PaymentsNext]_allVars
  PROVE  PartiesInv'
  <1>. USE DEF PartiesInv
  <1>1. CASE Next /\ UNCHANGED payVars
    <2>1. PICK p \in Requests : Step(p)
      BY <1>1 DEF Next
    <2>2. Moves(p) /\ UNCHANGED sessions
      BY <1>1, <2>1, StepKinds, StepAlone DEF Inv, Moves, payVars
    <2>3. Authorised'
      BY <2>1, AuthorisedStep DEF Inv
    <2>. QED  BY <2>2, <2>3, PartiesKeep
  <1>2. ASSUME UNCHANGED <<bookings, pc, req>>
        PROVE  Authorised'
    BY <1>2 DEF Authorised, UpdateAllowed
  <1>3. CASE \E c \in Checkouts : CheckoutStep(c)
    BY <1>2, <1>3, CheckoutPreserves, CheckoutParties DEF vars
  <1>4. ASSUME NEW d \in Deliveries,
               \/ \E c \in Checkouts : Deliver(d, c)
               \/ WebhookStep(d) \/ TimeoutDelivery(d)
        PROVE  PartiesInv'
    <2>1. CASE UNCHANGED vars
      BY <1>2, <1>4, <2>1, DeliveryWrites DEF vars, SessionParties
    <2>2. CASE ~UNCHANGED vars
      <3>1. PICK b \in DOMAIN bookings :
              /\ WriteStatus(d, b, "CONFIRMED")
              /\ UNCHANGED <<listings, pc, req, seen, answer, mails, raced>>
              /\ UNCHANGED sessions
        BY <1>4, <2>2, DeliveryWrites
      <3>2. Moves(d)
        BY <3>1, WebhookWrites
      <3>3. SessionParties' /\ \A r : UpdateAllowed(r) => UpdateAllowed(r)'
        BY <3>1, <3>2, PartiesKeep
      <3>4. Authorised'
        BY <3>1, <3>3 DEF Authorised
      <3>. QED  BY <3>3, <3>4
    <2>. QED  BY <2>1, <2>2
  <1>5. CASE UNCHANGED allVars
    BY <1>2, <1>5 DEF allVars, vars, payVars, SessionParties
  <1>. QED  BY <1>1, <1>3, <1>4, <1>5 DEF PaymentsNext

\* A change of status that is no cancellation has one of the two causes.
LEMMA AdvanceStep ==
  ASSUME Inv, PayInv, PartiesInv, [PaymentsNext]_allVars,
         NEW b \in DOMAIN bookings,
         bookings'[b].status
           \notin {bookings[b].status, "CANCELLED_BY_GUEST", "CANCELLED_BY_ADMIN"}
  PROVE  HostWrites(b) \/ PaymentConfirms(b)
  <1>1. bookings' # bookings
    OBVIOUS
  <1>2. CASE Next
    <2>1. PICK p \in Requests : Step(p)
      BY <1>2 DEF Next
    <2>2. /\ pc[p] = "writeStatus" /\ pc'[p] # "writeStatus"
          /\ req[p].booking = b /\ req[p].user = bookings[b].host
      BY <2>1, StatusStep DEF Inv, PartiesInv
    <2>. QED  BY <2>2 DEF HostWrites
  <1>3. ASSUME NEW d \in Deliveries,
               \/ \E c \in Checkouts : Deliver(d, c)
               \/ WebhookStep(d) \/ TimeoutDelivery(d)
        PROVE  PaymentConfirms(b)
    <2>. DEFINE c == devent[d]
                x == sessions[c].booking
    <2>1. /\ dpc[d] = "confirmBooking" /\ dpc'[d] = "recordPayment"
          /\ IsPaid(c) /\ x \in DOMAIN bookings
          /\ WriteStatus(d, x, "CONFIRMED")
      BY <1>1, <1>3, DeliveryWrites DEF vars
    <2>2. x = b /\ bookings'[b].status = "CONFIRMED"
      BY <2>1, WriteFrame DEF Inv, Status
    <2>3. sessions[c].guest = bookings[b].guest
          /\ sessions[c].host = bookings[b].host
      BY <2>1, <2>2 DEF PartiesInv, SessionParties, IsPaid
    <2>. QED  BY <2>1, <2>2, <2>3 DEF PaymentConfirms
  <1>4. ~\E c \in Checkouts : CheckoutStep(c)
    BY <1>1, CheckoutPreserves DEF vars
  <1>5. ~UNCHANGED allVars
    BY <1>1 DEF allVars, vars
  <1>. QED  BY <1>2, <1>3, <1>4, <1>5 DEF PaymentsNext

\* A booking is advanced by its host or by a payment made for it, by its own
\* guest to its own host: for any number of requests, checkouts and deliveries,
\* whatever happened between the session, the payment and the webhook.
THEOREM OnlyHostsOrPaymentsAdvance == PaymentsSpec => OnlyHostOrPaymentAdvances
  <1>1. PaymentsInit => PartiesInv
    BY DEF PaymentsInit, Init, PartiesInv, Authorised, SessionParties
  <1>2. Inv /\ PayInv /\ PartiesInv /\ [PaymentsNext]_allVars => PartiesInv'
    BY PartiesStep
  <1>3. Inv /\ PayInv /\ PartiesInv /\ [PaymentsNext]_allVars =>
          [ \A b \in DOMAIN bookings :
              bookings'[b].status
                \notin {bookings[b].status,
                        "CANCELLED_BY_GUEST", "CANCELLED_BY_ADMIN"}
              => HostWrites(b) \/ PaymentConfirms(b) ]_allVars
    BY AdvanceStep
  <1>. QED
    BY <1>1, <1>2, <1>3, PaymentsInvariance, PTL
       DEF PaymentsSpec, OnlyHostOrPaymentAdvances

----------------------------------------------------------------------------
(* What clients are told and what is stored, beside webhooks *)

\* No booking is left without its listing while webhooks revive bookings that a
\* deletion no longer has to wait for.
THEOREM BookedListingsStay == PaymentsSpec => []BookedListingsExist
  <1>1. Inv /\ PayInv => BookedListingsExist
    BY DEF Inv
  <1>. QED  BY <1>1, PaymentsInvariance, PTL

\* A webhook changes no stored stay, so every one keeps within the limits.
THEOREM StaysStayWithinLimits == PaymentsSpec => []StayWithinLimits
  <1>1. Inv /\ PayInv => StayWithinLimits
    BY DEF Inv
  <1>. QED  BY <1>1, PaymentsInvariance, PTL

\* The status a webhook writes is the one part of a row no answer speaks of.
LEMMA PaymentsHonest ==
  ASSUME Inv, PayInv, RefusedAreDone, AnswersHonest, [PaymentsNext]_allVars
  PROVE  RefusedAreDone' /\ AnswersHonest'
  <1>1. CASE UNCHANGED vars
    BY <1>1 DEF vars, RefusedAreDone, AnswersHonest, NewBooking
  <1>2. CASE Next
    BY <1>2, HonestStep DEF Next, Inv
  <1>3. CASE \E c \in Checkouts : CheckoutStep(c)
    BY <1>1, <1>3, CheckoutPreserves
  <1>4. ASSUME NEW d \in Deliveries,
               \/ \E c \in Checkouts : Deliver(d, c)
               \/ WebhookStep(d) \/ TimeoutDelivery(d),
               ~UNCHANGED vars
        PROVE  RefusedAreDone' /\ AnswersHonest'
    <2>1. PICK b \in DOMAIN bookings :
            /\ WriteStatus(d, b, "CONFIRMED")
            /\ UNCHANGED <<listings, pc, req, seen, answer, mails, raced>>
      BY <1>4, DeliveryWrites
    <2>2. DOMAIN bookings' = DOMAIN bookings
      BY <2>1, WriteFrame DEF Inv, Status
    <2>3. \A x \in DOMAIN bookings :
            [bookings'[x] EXCEPT !.status = "PENDING"]
              = [bookings[x] EXCEPT !.status = "PENDING"]
      BY <2>1, WebhookWrites, RowsKeep DEF Inv
    <2>. QED
      BY <2>1, <2>2, <2>3 DEF RefusedAreDone, AnswersHonest, NewBooking
  <1>5. CASE UNCHANGED allVars
    BY <1>1, <1>5 DEF allVars
  <1>. QED  BY <1>1, <1>2, <1>3, <1>4, <1>5 DEF PaymentsNext

\* A refused create leaves no booking and one about to be answered 201 has the
\* booking it asked for, even if it has been paid for in between.
THEOREM AnswersStayHonest == PaymentsSpec => []AnswersHonest
  <1>1. PaymentsInit => RefusedAreDone /\ AnswersHonest
    BY DEF PaymentsInit, Init, RefusedAreDone, AnswersHonest
  <1>. QED
    BY <1>1, PaymentsHonest, PaymentsInvariance, PTL DEF PaymentsSpec

----------------------------------------------------------------------------
(* The safety half of the refinement *)

\* The state of the abstract ledger.
Book == [c \in Checkouts |-> IF payments[c] > 0 THEN "recorded"
                             ELSE IF c \in turnedAway THEN "refused"
                             ELSE IF IsPaid(c) THEN "paid" ELSE "unpaid"]

\* The moves the ledger allows one session.
Moved(from, to) ==
  \/ from = "unpaid" /\ to = "paid"
  \/ from = "paid" /\ to = "refused"
  \/ from = "refused" /\ to = "paid"
  \/ from \in {"paid", "refused"} /\ to = "recorded"

\* One session moves by one step of the ledger and the others stay.
LEMMA LedgerMoves ==
  ASSUME NEW c \in Checkouts,
         \A x \in Checkouts \ {c} : Book'[x] = Book[x],
         Book'[c] = Book[c] \/ Moved(Book[c], Book'[c])
  PROVE  [Ledger!Next]_Book
  <1>1. /\ Book = [x \in Checkouts |-> Book[x]]
        /\ Book' = [x \in Checkouts |-> Book'[x]]
    BY DEF Book
  <1>2. CASE Book'[c] = Book[c]
    <2>1. Book' = Book
      BY <1>1, <1>2
    <2>. QED  BY <2>1
  <1>3. CASE Moved(Book[c], Book'[c])
    <2>1. Book' = [Book EXCEPT ![c] = Book'[c]]
      BY <1>1
    <2>2. \/ Ledger!Move(c, {"unpaid"}, "paid")
          \/ Ledger!Move(c, {"paid"}, "refused")
          \/ Ledger!Move(c, {"refused"}, "paid")
          \/ Ledger!Move(c, {"paid", "refused"}, "recorded")
      BY <1>3, <2>1 DEF Moved, Ledger!Move, Book
    <2>. QED  BY <2>2 DEF Ledger!Next, Ledger!Pay, Ledger!Refuse, Ledger!Admit,
                          Ledger!Record
  <1>. QED  BY <1>2, <1>3

\* Nothing that is not paid is recorded or turned away.
LEMMA UnpaidBook ==
  ASSUME PayInv, NEW c \in Checkouts, ~IsPaid(c)
  PROVE  ~(payments[c] > 0) /\ c \notin turnedAway
  BY DEF PayInv, RecordedWasConfirmed, TurnedAwayInv

LEMMA LedgerStep ==
  ASSUME Inv, PayInv, [PaymentsNext]_allVars
  PROVE  [Ledger!Next]_Book
  <1>1. CASE UNCHANGED <<sessions, payments, turnedAway>>
    BY <1>1 DEF Book, IsPaid
  <1>2. ASSUME NEW c \in Checkouts, CheckoutStep(c), ~UNCHANGED sessions
        PROVE  [Ledger!Next]_Book
    <2>1. UNCHANGED <<payments, turnedAway>>
      BY <1>2 DEF CheckoutStep, ReceiveCheckout, FindForPay, CreateSession,
                  RespondCheckout, CrashCheckout, TimeoutCheckout, Pay, Expire,
                  SetSession, FinishCheckout, CheckoutUnchanged
    <2>2. CreateSession(c) \/ Pay(c) \/ Expire(c)
      BY <1>2 DEF CheckoutStep, ReceiveCheckout, FindForPay, RespondCheckout,
                  CrashCheckout, TimeoutCheckout, FinishCheckout
    <2>3. \A x \in Checkouts \ {c} : IsPaid(x)' = IsPaid(x)
      BY <2>2 DEF CreateSession, Pay, Expire, SetSession, IsPaid, PayInv,
                  PayTypes
    <2>4. ~IsPaid(c)
      BY <2>2 DEF CreateSession, Pay, Expire, SetSession, IsPaid, PayInv,
                  CheckoutsInv
    <2>5. ~(payments[c] > 0) /\ c \notin turnedAway
      BY <2>4, UnpaidBook
    <2>6. \A x \in Checkouts \ {c} : Book'[x] = Book[x]
      BY <2>1, <2>3 DEF Book
    <2>7. Book'[c] = Book[c] \/ Moved(Book[c], Book'[c])
      BY <2>1, <2>4, <2>5 DEF Book, Moved
    <2>. QED  BY <2>6, <2>7, LedgerMoves
  <1>3. ASSUME NEW d \in Deliveries, RecordPayment(d)
        PROVE  [Ledger!Next]_Book
    <2>1. IsPaid(devent[d])
      BY <1>3 DEF RecordPayment, PayInv, DeliveriesInv
    <2>2. devent[d] \in Checkouts
      BY <2>1 DEF IsPaid, PayInv, PayTypes
    <2>3. UNCHANGED <<sessions, turnedAway>>
      BY <1>3 DEF RecordPayment, DeliveryUnchanged
    <2>4. /\ payments'[devent[d]] > 0
          /\ \A x \in Checkouts \ {devent[d]} : payments'[x] = payments[x]
      BY <1>3, <2>2 DEF RecordPayment, PayInv, PayTypes
    <2>5. \A x \in Checkouts \ {devent[d]} : Book'[x] = Book[x]
      BY <2>3, <2>4 DEF Book, IsPaid
    <2>6. Book[devent[d]] \in {"paid", "refused", "recorded"}
          /\ Book'[devent[d]] = "recorded"
      BY <2>1, <2>2, <2>4 DEF Book
    <2>. QED  BY <2>2, <2>5, <2>6, LedgerMoves DEF Moved
  <1>4. ASSUME NEW d \in Deliveries, NEW c \in Checkouts, Deliver(d, c)
        PROVE  [Ledger!Next]_Book
    <2>1. /\ UNCHANGED <<sessions, payments>> /\ IsPaid(c)
          /\ \A x \in Checkouts \ {c} :
               x \in turnedAway' <=> x \in turnedAway
      BY <1>4 DEF Deliver, Admit, TurnAway, DeliveryUnchanged
    <2>2. \A x \in Checkouts \ {c} : Book'[x] = Book[x]
      BY <2>1 DEF Book, IsPaid
    <2>3. Book'[c] = Book[c] \/ Moved(Book[c], Book'[c])
      BY <2>1 DEF Book, Moved, IsPaid
    <2>. QED  BY <2>2, <2>3, LedgerMoves
  <1>5. CASE Next /\ UNCHANGED payVars
    BY <1>1, <1>5 DEF payVars
  <1>6. CASE \E d \in Deliveries : \/ \E c \in Checkouts : Deliver(d, c)
                                   \/ WebhookStep(d)
                                   \/ TimeoutDelivery(d)
    <2>1. PICK d \in Deliveries : \/ \E c \in Checkouts : Deliver(d, c)
                                  \/ WebhookStep(d)
                                  \/ TimeoutDelivery(d)
      BY <1>6
    <2>2. \/ \E c \in Checkouts : Deliver(d, c)
          \/ RecordPayment(d)
          \/ UNCHANGED <<sessions, payments, turnedAway>>
      BY <2>1 DEF WebhookStep, TimeoutDelivery, ConfirmBooking,
                  Acknowledge, CrashDelivery, FinishDelivery,
                  DeliveryUnchanged
    <2>. QED  BY <1>1, <1>3, <1>4, <2>2
  <1>7. CASE UNCHANGED allVars
    BY <1>1, <1>7 DEF allVars, payVars
  <1>8. CASE \E c \in Checkouts : CheckoutStep(c)
    <2>1. UNCHANGED <<payments, turnedAway>>
      BY <1>8 DEF CheckoutStep, ReceiveCheckout, FindForPay, CreateSession,
                  RespondCheckout, CrashCheckout, TimeoutCheckout, Pay, Expire,
                  SetSession, FinishCheckout, CheckoutUnchanged
    <2>. QED  BY <1>1, <1>2, <1>8, <2>1
  <1>. QED  BY <1>5, <1>6, <1>7, <1>8 DEF PaymentsNext

\* The payments component takes no step the ledger does not have: nothing is
\* recorded that was not paid, nothing recorded is forgotten, and Stripe is
\* turned away for paid sessions only.  (That what is paid does not stay so is for
\* the model checker.)
THEOREM ImplementsLedgerSafely ==
  PaymentsSpec => Ledger!Init /\ [][Ledger!Next]_Book
  <1>1. PaymentsInit => Ledger!Init
    BY DEF PaymentsInit, Ledger!Init, IsPaid
  <1>2. Inv /\ PayInv /\ [PaymentsNext]_allVars => [Ledger!Next]_Book
    BY LedgerStep
  <1>. QED  BY <1>1, <1>2, PaymentsInvariance, PTL DEF PaymentsSpec
=============================================================================
