SPECIFICATION Spec
CONSTANTS
  r1 = r1
  r2 = r2
  r3 = r3
  r4 = r4
  guest = guest
  host = host
  b1 = b1
  b2 = b2
  b3 = b3
  b4 = b4
  l1 = l1
  l2 = l2
  Requests = {r1, r2}
  Users = {guest, host}
  Bookings = {b1, b2, b3, b4}
  Listings = {l1, l2}
  ListingOf <- MCListingOf
  GuestOf <- MCGuestOf
  HostOf <- MCHostOf
  StatusOf <- MCStatusOf
  Ended = {b1, b2, b3, b4}
INVARIANT RatingsSettle
CHECK_DEADLOCK FALSE
