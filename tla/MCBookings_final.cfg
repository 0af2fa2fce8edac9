\* A create, a cancellation and a confirmation.
SPECIFICATION Spec
CONSTANTS
  h = h
  g1 = g1
  l1 = l1
  l2 = l2
  Requests = {r1, r2, r3}
  Ops = {"create", "update", "cancel"}
  Users = {h, g1}
  Listings = {l1}
  HostOf <- MCHostOf
  MinNights <- MCMinNights
  MaxNights <- MCMaxNights
  TicksPerDay = 2
  Stays <- OneStay
  DtoStatuses = {"CONFIRMED", "CANCELLED_BY_GUEST"}
PROPERTIES
  CancelledIsFinal
CHECK_DEADLOCK FALSE
