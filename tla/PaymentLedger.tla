--------------------------- MODULE PaymentLedger ----------------------------
(***************************************************************************)
(* What the payments component promises of each checkout session: nothing  *)
(* is recorded that was not paid, nothing recorded is forgotten, and what  *)
(* was paid does not stay so: it is recorded in the end, or Stripe is told *)
(* again and again that its call is refused.  How many rows record it, and *)
(* when, is left open.                                                     *)
(***************************************************************************)
CONSTANT Sessions

VARIABLE ledger     \* "unpaid", "paid", "refused" or "recorded", by session

Init == ledger = [c \in Sessions |-> "unpaid"]

Move(c, from, to) == ledger[c] \in from /\ ledger' = [ledger EXCEPT ![c] = to]

Pay(c)    == Move(c, {"unpaid"}, "paid")
Refuse(c) == Move(c, {"paid"}, "refused")
Admit(c)  == Move(c, {"refused"}, "paid")
Record(c) == Move(c, {"paid", "refused"}, "recorded")

\* What takes a session out of "paid".
Settle(c) == ledger[c] = "paid" /\ (Refuse(c) \/ Record(c))

Next == \E c \in Sessions : Pay(c) \/ Refuse(c) \/ Admit(c) \/ Record(c)

Spec == /\ Init /\ [][Next]_ledger
        /\ \A c \in Sessions : WF_ledger(Settle(c))
=============================================================================
