\* Two creates for the same stay.
SPECIFICATION Spec
CONSTANTS
  h = h
  g1 = g1
  l1 = l1
  l2 = l2
  Requests = {r1, r2}
  Ops = {"create", "update"}
  Users = {h, g1}
  Listings = {l1}
  HostOf <- MCHostOf
  MinNights <- MCMinNights
  MaxNights <- MCMaxNights
  TicksPerDay = 2
  Stays <- OneStay
  DtoStatuses = {"CONFIRMED"}
SYMMETRY RequestSymmetry
INVARIANTS
  NoDoubleBooking
CHECK_DEADLOCK FALSE
