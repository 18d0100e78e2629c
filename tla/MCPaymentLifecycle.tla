------------------------ MODULE MCPaymentLifecycle ------------------------
(* Small instances of PaymentLifecycle for TLC. *)
EXTENDS PaymentLifecycle, TLC

CONSTANTS t1, t2, m1, m2

MCOwner == t1 :> m1 @@ t2 :> m2
MCOwner1 == t1 :> m1
\* t1 can be refunded in full, in part, by nothing (an amount that rounds to
\* 0.00), or by too much; t2 is smaller than every positive refund but one.
MCAmount == t1 :> 2 @@ t2 :> 1
MCAmount1 == t1 :> 2

HandlerSymmetry == Permutations(Handler)
=============================================================================
