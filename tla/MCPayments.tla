----------------------------- MODULE MCPayments -----------------------------
(* Instances of Payments for TLC. *)
EXTENDS Payments, TLC

CONSTANTS h, g1,     \* a host and a guest
          l1         \* a listing of h

MCHostOf == [l \in Listings |-> h]
NoLimit  == [l \in Listings |-> 0]
OneStay  == {<<0, 2>>}

CallSymmetry == Permutations(Requests) \cup Permutations(Checkouts)
                  \cup Permutations(Deliveries)

\* What a booking request was answered decides nothing but whether it can still
\* time out, so runs about other things identify states that differ in it.
ButAnswers == <<listings, bookings, pc, req, seen, mails, history, payVars>>
=============================================================================
