----------------------------- MODULE MCPayments -----------------------------
(* Instances of Payments for TLC.                                          *)
EXTENDS PaymentsProofs

CONSTANTS i1, i2, i3, u1, u2, u3, u4

\* The provider may announce the payment of the first invoice under a second ID.
FirstHasTwo ==
  [u \in Updates |-> CASE u \in {u1, u2} -> i1 [] u = u3 -> i2 [] OTHER -> i3]
=============================================================================
