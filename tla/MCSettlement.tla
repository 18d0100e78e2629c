--------------------------- MODULE MCSettlement ---------------------------
(* Small instances of Settlement for TLC. *)
EXTENDS Settlement, TLC

CONSTANTS t1, t2, t3, m1, m2

\* Two merchants, one of them with two transactions: a snapshot can hold two
\* groups, and a group two rows.
MCOwner == t1 :> m1 @@ t2 :> m1 @@ t3 :> m2
MCAmount == t1 :> 1 @@ t2 :> 2 @@ t3 :> 4

MCOwner1 == t1 :> m1
MCAmount1 == t1 :> 1
=============================================================================
