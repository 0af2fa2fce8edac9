\* Three requests by a host and a guest over two listings, with stays of every
\* odd shape.  The system stops when all requests are served.
SPECIFICATION Spec
CONSTANTS
  h = h
  g1 = g1
  l1 = l1
  l2 = l2
  Requests = {r1, r2, r3}
  Ops = {"create", "update", "cancel", "delete"}
  Users = {h, g1}
  Listings = {l1, l2}
  HostOf <- MCHostOf
  MinNights <- MCMinNights
  MaxNights <- MCMaxNights
  TicksPerDay = 2
  Stays <- OddStays
  DtoStatuses = {"CONFIRMED", "CHECKED_OUT", "CANCELLED_BY_GUEST"}
SYMMETRY RequestSymmetry
INVARIANTS
  TypeOK
  BookedListingsExist
  StayWithinLimits
  AnswersHonest
PROPERTIES
  OnlyHostAdvances
CHECK_DEADLOCK FALSE
