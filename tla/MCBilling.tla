----------------------------- MODULE MCBilling -----------------------------
(* A user, a payment and its events for checking Billing with TLC. *)
EXTENDS Billing

CONSTANTS u1, p1, bare, wrong, ended, other, d1, d2

OneUser == {u1}
OnePayment == {p1}
TwoDeliveries == {d1, d2}
OwnerOf == [p \in Payments |-> u1]
TypeOf == [e \in Events |->
              CASE e = ended -> "cancelled" [] e = other -> "unknown" [] OTHER -> "succeeded"]
SamePayment == [e \in Events |-> p1]
Named == [e \in Events |->
             IF e = wrong THEN "other" ELSE "absent"]
=============================================================================
