----------------------------- MODULE MCReviews -----------------------------
(* Instances of Reviews for TLC: a host with two listings, two stays on the *)
(* one; on the other a stay that was never confirmed, and a cancelled one.  *)
EXTENDS Reviews, TLC

CONSTANTS r1, r2, r3, r4, guest, host, b1, b2, b3, b4, l1, l2

MCListingOf == (b1 :> l1) @@ (b2 :> l1) @@ (b3 :> l2) @@ (b4 :> l2)
MCGuestOf   == [b \in Bookings |-> guest]
MCHostOf    == [l \in Listings |-> host]
MCStatusOf  == (b1 :> "CHECKED_OUT") @@ (b2 :> "CHECKED_OUT")
                 @@ (b3 :> "PENDING") @@ (b4 :> "CANCELLED_BY_GUEST")

\* Requests are alike, and so are the two stays on l1.
RequestSymmetry == Permutations(Requests) \cup Permutations({b1, b2})
=============================================================================
