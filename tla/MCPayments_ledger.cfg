\* One checkout and two webhook calls at once, the webhook open to Stripe.
\* Liveness, so without symmetry.
SPECIFICATION PaymentsFairSpec
CONSTANTS
  h = h
  g1 = g1
  l1 = l1
  NoSession = NoSession
  Requests = {r1}
  Ops = {"create", "update"}
  Checkouts = {c1}
  Deliveries = {d1, d2}
  WebhookPublic = TRUE
  Users = {h, g1}
  Listings = {l1}
  HostOf <- MCHostOf
  MinNights <- NoLimit
  MaxNights <- NoLimit
  TicksPerDay = 2
  Stays <- OneStay
  DtoStatuses = {"CANCELLED_BY_GUEST"}
INVARIANTS
  AckedIsRecorded
PROPERTIES
  ImplementsLedger
  EveryCallAnswered
CHECK_DEADLOCK FALSE
