----------------------------- MODULE MCListings -----------------------------
(* Listings on one listing that exists and those that the requests create.   *)
EXTENDS Listings, TLC

CONSTANTS p1, p2, p3, house, h1, h2

MCStays == {<<house, 1, 2>>}

Symmetry == Permutations(Requests) \cup Permutations(Hosts)
=============================================================================
