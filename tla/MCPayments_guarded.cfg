\* One booking, one checkout, one call of Stripe to the route as registered.
SPECIFICATION PaymentsSpec
CONSTANTS
  h = h
  g1 = g1
  l1 = l1
  NoSession = NoSession
  Requests = {r1}
  Ops = {"create", "update"}
  Checkouts = {c1}
  Deliveries = {d1}
  WebhookPublic = FALSE
  Users = {h, g1}
  Listings = {l1}
  HostOf <- MCHostOf
  MinNights <- NoLimit
  MaxNights <- NoLimit
  TicksPerDay = 2
  Stays <- OneStay
  DtoStatuses = {"CONFIRMED"}
SYMMETRY CallSymmetry
INVARIANTS
  WebhookNotGuarded
CHECK_DEADLOCK FALSE
