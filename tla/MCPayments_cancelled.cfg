\* A booking that is cancelled while its session is open.
SPECIFICATION PaymentsSpec
CONSTANTS
  h = h
  g1 = g1
  l1 = l1
  NoSession = NoSession
  Requests = {r1, r2}
  Ops = {"create", "update"}
  Checkouts = {c1}
  Deliveries = {d1}
  WebhookPublic = TRUE
  Users = {h, g1}
  Listings = {l1}
  HostOf <- MCHostOf
  MinNights <- NoLimit
  MaxNights <- NoLimit
  TicksPerDay = 2
  Stays <- OneStay
  DtoStatuses = {"CANCELLED_BY_GUEST"}
PROPERTIES
  PaidWhilePending
CHECK_DEADLOCK FALSE
