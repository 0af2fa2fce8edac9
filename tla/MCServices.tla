----------------------------- MODULE MCServices -----------------------------
(***************************************************************************)
(* An instance of Services.  Since its parts do not touch one another, a   *)
(* behaviour exercises one of them and leaves the others as they were at   *)
(* first: a run explores the sum of their state spaces, not the product.   *)
(***************************************************************************)
EXTENDS Services, TLC

CONSTANTS p1, p2, p3, u1, u2, u3, s1, s2, b1, house, favourites

VARIABLE component        \* the part exercised

MCUserOf == (s1 :> u1) @@ (s2 :> u1)
MCRows   == 1 .. 3
MCFiles  == {[mime |-> "image", size |-> 1], [mime |-> "image", size |-> 2],
             [mime |-> "video", size |-> 1], [mime |-> "document", size |-> 1]}

Symmetry == Permutations(Requests) \cup Permutations({s1, s2})
            \cup Permutations({u2, u3})

MCInit ==
  /\ PartsInit
  /\ component \in {"messaging", "media", "wishlists", "lists"}
  /\ component # "lists" => selected = {} /\ list = "users"
  /\ list # "sorted" => rank = [r \in selected |-> 0]
  /\ component # "wishlists" =>
       wishlists = [w \in Existing |-> [owner |-> u1, private |-> TRUE]]

MCNext ==
  /\ UNCHANGED component
  /\ \/ component = "messaging" /\ MessagingStep
     \/ /\ component = "lists" /\ ListsStep
        /\ list # "sorted" => rank' = [r \in selected' |-> 0]
     \/ component = "media" /\ MediaStep
     \/ component = "wishlists" /\ WishlistsStep

MCSpec == MCInit /\ [][MCNext]_<<component, partsVars>>
=============================================================================
