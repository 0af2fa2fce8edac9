\* Three requests for one stay, a checkout and a webhook call, the webhook open to
\* Stripe: creates that race, payments and hosts that revive a cancelled booking.
SPECIFICATION PaymentsSpec
CONSTANTS
  h = h
  g1 = g1
  l1 = l1
  NoSession = NoSession
  Requests = {r1, r2, r3}
  Ops = {"create", "update"}
  Checkouts = {c1}
  Deliveries = {d1}
  WebhookPublic = TRUE
  Users = {h, g1}
  Listings = {l1}
  HostOf <- MCHostOf
  MinNights <- NoLimit
  MaxNights <- NoLimit
  TicksPerDay = 2
  Stays <- OneStay
  DtoStatuses = {"CONFIRMED", "CANCELLED_BY_GUEST"}
SYMMETRY CallSymmetry
VIEW ButAnswers
INVARIANTS
  PaymentsTypeOK
  OverlapsExplained
  MailsExplained
  RecordedWasConfirmed
PROPERTY OnlyHostOrPaymentAdvances
CHECK_DEADLOCK FALSE
