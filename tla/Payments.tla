------------------------------ MODULE Payments ------------------------------
(***************************************************************************)
(* Payment of a booking (src/payments) beside the reservation core: a      *)
(* guest opens a Stripe checkout session for a pending booking, pays it at *)
(* Stripe, and Stripe calls the webhook, at least once and again until it  *)
(* is answered 2xx, which confirms the booking and records the payment in  *)
(* two statements.                                                         *)
(*                                                                         *)
(* A session is named after the checkout request that creates it.          *)
(***************************************************************************)
EXTENDS Bookings

CONSTANTS
  Checkouts,       \* requests for a checkout session
  Deliveries,      \* webhook calls that may be in progress at once
  NoSession,       \* what a delivery that is not in progress carries
  WebhookPublic    \* is POST /payments/webhook exempt from the JWT guard?

ASSUME WebhookPublicAssumption == WebhookPublic \in BOOLEAN
ASSUME NoSessionAssumption == NoSession \notin Checkouts
ASSUME CheckoutsAssumption == Checkouts \cap Requests = {}
ASSUME DeliveriesAssumption == Deliveries \cap Requests = {}

VARIABLES
  cpc,             \* the statement a checkout handler awaits next
  creq,            \* the request it is serving
  canswer,         \* what its client has been told
  sessions,        \* the sessions at Stripe, a function on the ones created
  dpc,             \* the statement a webhook handler awaits next
  devent,          \* the session whose completion it was told of
  dcode,           \* the HTTP status Stripe got in answer
  acked,           \* sessions whose completion Stripe knows delivered
  turnedAway,      \* history: sessions whose last call was answered 400 or 401
  payments         \* rows of payments for a session: 0, 1, or 2 for more

payVars == <<cpc, creq, canswer, sessions, dpc, devent, dcode, acked,
             turnedAway, payments>>
allVars == <<vars, payVars>>

----------------------------------------------------------------------------

CheckoutRequest == [user: Users, booking: Requests \cup Checkouts]
CheckoutPc == {"findForPay", "createSession", "respond"}
DeliveryPc == {"confirmBooking", "recordPayment", "acknowledge"}

\* A session carries the booking, the guest and the host in its metadata.
Session == [booking: Requests, guest: Users, host: Users,
            state: {"open", "expired", "paid"}]

PaymentsInit ==
  /\ Init
  /\ cpc = [c \in Checkouts |-> "idle"]
  /\ creq = [c \in Checkouts |-> NoRequest]
  /\ canswer = [c \in Checkouts |-> "none"]
  /\ sessions = [c \in {} |-> NoRequest]
  /\ dpc = [d \in Deliveries |-> "idle"]
  /\ devent = [d \in Deliveries |-> NoSession]
  /\ dcode = [d \in Deliveries |-> "none"]
  /\ acked = {}
  /\ turnedAway = {}
  /\ payments = [c \in Checkouts |-> 0]

----------------------------------------------------------------------------
(* createCheckoutSession *)

CheckoutUnchanged ==
  UNCHANGED <<vars, dpc, devent, dcode, acked, turnedAway, payments>>

\* The id a client names is a booking's, or no booking's (c).
ReceiveCheckout(c) ==
  /\ cpc[c] = "idle"
  /\ \E u \in Users, b \in DOMAIN bookings \cup {c} :
       creq' = [creq EXCEPT ![c] = [user |-> u, booking |-> b]]
  /\ cpc' = [cpc EXCEPT ![c] = "findForPay"]
  /\ UNCHANGED <<canswer, sessions>>
  /\ CheckoutUnchanged

FinishCheckout(c, a) ==
  /\ cpc' = [cpc EXCEPT ![c] = "done"]
  /\ creq' = [creq EXCEPT ![c] = NoRequest]
  /\ canswer' = [canswer EXCEPT ![c] = IF @ = "none" THEN a ELSE @]
  /\ UNCHANGED sessions
  /\ CheckoutUnchanged

\* Only the guest pays, and only for a booking that is still PENDING.
CheckoutAllowed(r) == /\ r.booking \in DOMAIN bookings
                      /\ bookings[r.booking].guest = r.user
                      /\ bookings[r.booking].status = "PENDING"

FindForPay(c) ==
  /\ cpc[c] = "findForPay"
  /\ \/ ~CheckoutAllowed(creq[c]) /\ FinishCheckout(c, "refused")
     \/ /\ CheckoutAllowed(creq[c])
        /\ cpc' = [cpc EXCEPT ![c] = "createSession"]
        /\ UNCHANGED <<creq, canswer, sessions>>
        /\ CheckoutUnchanged

\* Mutant of NewSession: metadata without the host.
NewSessionHostless(b) == [booking |-> b, guest |-> bookings[b].guest,
                          state |-> "open"]

NewSession(b) == [booking |-> b, guest |-> bookings[b].guest,
                  host |-> bookings[b].host, state |-> "open"]

CreateSession(c) ==
  /\ cpc[c] = "createSession"
  /\ sessions' = [x \in DOMAIN sessions \cup {c} |->
                    IF x = c THEN NewSession(creq[c].booking) ELSE sessions[x]]
  /\ cpc' = [cpc EXCEPT ![c] = "respond"]
  /\ UNCHANGED <<creq, canswer>>
  /\ CheckoutUnchanged

RespondCheckout(c) == cpc[c] = "respond" /\ FinishCheckout(c, "ok")

CrashCheckout(c) == cpc[c] \in CheckoutPc /\ FinishCheckout(c, "error")

TimeoutCheckout(c) ==
  /\ cpc[c] \in CheckoutPc
  /\ canswer[c] = "none"
  /\ canswer' = [canswer EXCEPT ![c] = "timeout"]
  /\ UNCHANGED <<cpc, creq, sessions>>
  /\ CheckoutUnchanged

----------------------------------------------------------------------------
(* Stripe, and the guest at Stripe *)

SetSession(c, s) ==
  /\ c \in DOMAIN sessions
  /\ sessions[c].state = "open"
  /\ sessions' = [sessions EXCEPT ![c].state = s]
  /\ UNCHANGED <<cpc, creq, canswer>>
  /\ CheckoutUnchanged

\* A guest can pay only where a checkoutUrl has arrived.
Pay(c)    == canswer[c] = "ok" /\ SetSession(c, "paid")
Expire(c) == SetSession(c, "expired")

----------------------------------------------------------------------------
(* handleWebhook *)

DeliveryUnchanged == UNCHANGED <<cpc, creq, canswer, sessions>>

IsPaid(c) == c \in DOMAIN sessions /\ sessions[c].state = "paid"

\* Mutant of Deliver: the type of the event is not looked at, and a session that
\* expired is taken for one that was completed.
DeliverAnyEvent(d, c) ==
  /\ dpc[d] = "idle"
  /\ c \in DOMAIN sessions /\ sessions[c].state # "open"
  /\ dpc' = [dpc EXCEPT ![d] = "confirmBooking"]
  /\ devent' = [devent EXCEPT ![d] = c]
  /\ dcode' = [dcode EXCEPT ![d] = "none"]
  /\ UNCHANGED <<vars, acked, turnedAway, payments>>
  /\ DeliveryUnchanged

\* The call is let into the handler past the check of its signature.
Admit(d, c) ==
  /\ WebhookPublic
  /\ dpc' = [dpc EXCEPT ![d] = "confirmBooking"]
  /\ devent' = [devent EXCEPT ![d] = c]
  /\ dcode' = [dcode EXCEPT ![d] = "none"]
  /\ turnedAway' = turnedAway \ {c}

\* Stripe signs its calls and sends no bearer token: a route behind the JWT guard
\* answers 401, and the handler 400 where it finds no signature, no secret or no
\* raw body, or where they do not agree.
TurnAway(d, c) ==
  /\ dcode' = [dcode EXCEPT ![d] = IF WebhookPublic THEN "400" ELSE "401"]
  /\ turnedAway' = turnedAway \cup {c}
  /\ UNCHANGED <<dpc, devent>>

Deliver(d, c) ==
  /\ dpc[d] = "idle"
  /\ IsPaid(c)
  /\ Admit(d, c) \/ TurnAway(d, c)
  /\ UNCHANGED <<vars, acked, payments>>
  /\ DeliveryUnchanged

\* Mutant of ConfirmBooking: a repeated call is told by the status of the
\* booking, and a confirmed one is acknowledged at once.
ConfirmBookingOnce(d) ==
  LET b == sessions[devent[d]].booking
  IN  /\ dpc[d] = "confirmBooking"
      /\ IF bookings[b].status = "CONFIRMED"
           THEN dpc' = [dpc EXCEPT ![d] = "acknowledge"] /\ UNCHANGED vars
           ELSE /\ WriteStatus(d, b, "CONFIRMED")
                /\ dpc' = [dpc EXCEPT ![d] = "recordPayment"]
                /\ UNCHANGED <<listings, pc, req, seen, answer, mails, raced>>
      /\ UNCHANGED <<devent, dcode, acked, turnedAway, payments>>
      /\ DeliveryUnchanged

\* The booking is confirmed whatever its status has become.
ConfirmBooking(d) ==
  /\ dpc[d] = "confirmBooking"
  /\ WriteStatus(d, sessions[devent[d]].booking, "CONFIRMED")
  /\ dpc' = [dpc EXCEPT ![d] = "recordPayment"]
  /\ UNCHANGED <<listings, pc, req, seen, answer, mails, raced>>
  /\ UNCHANGED <<devent, dcode, acked, turnedAway, payments>>
  /\ DeliveryUnchanged

\* One more row: no constraint holds processor_payment_id unique.
RecordPayment(d) ==
  /\ dpc[d] = "recordPayment"
  /\ payments' = [payments EXCEPT ![devent[d]] = IF @ = 0 THEN 1 ELSE 2]
  /\ dpc' = [dpc EXCEPT ![d] = "acknowledge"]
  /\ UNCHANGED <<vars, devent, dcode, acked, turnedAway>>
  /\ DeliveryUnchanged

FinishDelivery(d, code) ==
  /\ dpc' = [dpc EXCEPT ![d] = "idle"]
  /\ devent' = [devent EXCEPT ![d] = NoSession]
  /\ dcode' = [dcode EXCEPT ![d] = IF @ = "none" THEN code ELSE @]
  /\ acked' = IF dcode'[d] = "200" THEN acked \cup {devent[d]} ELSE acked
  /\ UNCHANGED <<vars, turnedAway, payments>>
  /\ DeliveryUnchanged

Acknowledge(d) == dpc[d] = "acknowledge" /\ FinishDelivery(d, "200")

\* Mutant of CrashDelivery: the failure is caught and answered 200.
CrashAcknowledged(d) == dpc[d] \in DeliveryPc /\ FinishDelivery(d, "200")

\* Mutant of CrashDelivery: a failure to confirm is caught and logged.
CrashGoesOn(d) ==
  /\ dpc[d] = "confirmBooking"
  /\ dpc' = [dpc EXCEPT ![d] = "recordPayment"]
  /\ UNCHANGED <<vars, devent, dcode, acked, turnedAway, payments>>
  /\ DeliveryUnchanged

CrashDelivery(d) == dpc[d] \in DeliveryPc /\ FinishDelivery(d, "500")

TimeoutDelivery(d) ==
  /\ dpc[d] \in DeliveryPc
  /\ dcode[d] = "none"
  /\ dcode' = [dcode EXCEPT ![d] = "408"]
  /\ UNCHANGED <<vars, dpc, devent, acked, turnedAway, payments>>
  /\ DeliveryUnchanged

----------------------------------------------------------------------------

CheckoutStep(c) ==
  \/ ReceiveCheckout(c) \/ FindForPay(c) \/ CreateSession(c)
  \/ RespondCheckout(c) \/ CrashCheckout(c) \/ TimeoutCheckout(c)
  \/ Pay(c) \/ Expire(c)

WebhookStep(d) == \/ ConfirmBooking(d) \/ RecordPayment(d) \/ Acknowledge(d)
                  \/ CrashDelivery(d)

PaymentsNext ==
  \/ Next /\ UNCHANGED payVars
  \/ \E c \in Checkouts : CheckoutStep(c)
  \/ \E d \in Deliveries : \/ \E c \in Checkouts : Deliver(d, c)
                           \/ WebhookStep(d)
                           \/ TimeoutDelivery(d)

PaymentsSpec == PaymentsInit /\ [][PaymentsNext]_allVars

\* The interceptor's timer always fires, Stripe repeats a call until it is
\* answered 2xx, a webhook handler ends somehow, and a statement that is
\* attempted again and again commits once.  That a call is admitted is not
\* assumed, and no other statement is sure to complete: the database, Stripe and
\* the mail server may keep a handler waiting.
PaymentsFairSpec ==
  /\ PaymentsSpec
  /\ \A p \in Requests : WF_allVars(Timeout(p) /\ UNCHANGED payVars)
  /\ \A c \in Checkouts : WF_allVars(TimeoutCheckout(c))
  /\ \A d \in Deliveries : WF_allVars(WebhookStep(d))
  /\ \A c \in Checkouts :
       /\ SF_allVars(\E d \in Deliveries : c \notin acked /\ Deliver(d, c))
       /\ SF_allVars(\E d \in Deliveries : devent[d] = c /\ ConfirmBooking(d))
       /\ SF_allVars(\E d \in Deliveries : devent[d] = c /\ RecordPayment(d))

----------------------------------------------------------------------------
(* Properties *)

\* Every variable of the composition has its type, and a handler past its
\* first read holds a booking or a session that exists.
PaymentsTypeOK ==
  /\ TypeOK
  /\ cpc \in [Checkouts -> CheckoutPc \cup {"idle", "done"}]
  /\ creq \in [Checkouts -> CheckoutRequest \cup {NoRequest}]
  /\ canswer \in [Checkouts -> Answer]
  /\ DOMAIN sessions \subseteq Checkouts
  /\ sessions \in [DOMAIN sessions -> Session]
  /\ dpc \in [Deliveries -> DeliveryPc \cup {"idle"}]
  /\ devent \in [Deliveries -> Checkouts \cup {NoSession}]
  /\ dcode \in [Deliveries -> {"none", "200", "400", "401", "408", "500"}]
  /\ acked \subseteq Checkouts
  /\ turnedAway \subseteq Checkouts
  /\ payments \in [Checkouts -> 0..2]

\* handleWebhook confirms first and records second.  A recorded payment is of
\* a booking that has been CONFIRMED, even if a crash, a retry or a
\* cancellation came between the two statements.
RecordedWasConfirmed ==
  \A c \in Checkouts :
    payments[c] > 0 => /\ IsPaid(c)
                       /\ confirms[sessions[c].booking] > 0

\* A 200 tells Stripe never to call again, so it must not be sent before the
\* payment is in the table: not by a handler that lost one of its statements,
\* and not for the call of another delivery.
AckedIsRecorded == \A c \in acked : payments[c] > 0

\* The webhook of a paid session that still names b and its parties confirms b.
PaymentConfirms(b) ==
  /\ bookings'[b].status = "CONFIRMED"
  /\ \E d \in Deliveries :
       LET s == sessions[devent[d]]
       IN  /\ dpc[d] = "confirmBooking" /\ dpc'[d] = "recordPayment"
           /\ IsPaid(devent[d])
           /\ s.booking = b
           /\ s.guest = bookings[b].guest /\ s.host = bookings[b].host

\* Beside its host, only a payment advances a booking: Stripe has been paid for
\* it, the metadata that the session took from the row still name its guest and
\* its host, however long the guest took to pay, and the status is CONFIRMED.
OnlyHostOrPaymentAdvances ==
  [][ \A b \in DOMAIN bookings :
        bookings'[b].status
          \notin {bookings[b].status, "CANCELLED_BY_GUEST", "CANCELLED_BY_ADMIN"}
        => HostWrites(b) \/ PaymentConfirms(b) ]_allVars

\* The component keeps the promise of PaymentLedger: what is paid is recorded in
\* the end, through lost answers, crashes and repeated calls, unless the webhook
\* keeps turning Stripe away.
Ledger == INSTANCE PaymentLedger WITH
  Sessions <- Checkouts,
  ledger   <- [c \in Checkouts |->
                 IF payments[c] > 0 THEN "recorded"
                 ELSE IF c \in turnedAway THEN "refused"
                 ELSE IF IsPaid(c) THEN "paid" ELSE "unpaid"]

ImplementsLedger == Ledger!Spec

\* Every request is answered, though the statement its handler awaits may
\* never complete: the TimeoutInterceptor sees to it.
EveryCallAnswered ==
  /\ \A p \in Requests : (pc[p] # "idle") ~> (answer[p] # "none")
  /\ \A c \in Checkouts : (cpc[c] # "idle") ~> (canswer[c] # "none")

\* payments.controller: "Webhooks do not use JwtAuthGuard, because they are
\* called by Stripe, not the user": Stripe is never told 401.
WebhookNotGuarded == \A d \in Deliveries : dcode[d] # "401"

\* createCheckoutSession: a booking in another status than PENDING "cannot be
\* paid for".
PaidWhilePending ==
  [][ \A c \in DOMAIN sessions :
        sessions'[c].state = "paid" /\ sessions[c].state # "paid" =>
          bookings[sessions[c].booking].status = "PENDING" ]_allVars
=============================================================================
