----------------------------- MODULE MCBookings -----------------------------
(* Instances of Bookings for TLC. *)
EXTENDS Bookings, TLC

CONSTANTS h, g1,     \* a host and a guest
          l1, l2     \* listings of h

MCHostOf == [l \in Listings |-> h]

\* l1 takes stays of exactly two nights, the other listings any stay.
MCMinNights == [l \in Listings |-> IF l = l1 THEN 2 ELSE 0]
MCMaxNights == [l \in Listings |-> IF l = l1 THEN 2 ELSE 0]

\* Two instants a day: morning 2d and evening 2d + 1.
OneStay == {<<0, 4>>}
\* Besides the one: stays in the wrong order, of no night, too short and too
\* long for l1, and one whose hours make the source count more nights than the
\* calendar does.
OddStays == {<<0, 4>>, <<3, 2>>, <<0, 1>>, <<0, 2>>, <<0, 6>>, <<0, 3>>}

RequestSymmetry == Permutations(Requests)
=============================================================================
