---------------------------- MODULE ConsoleBounds ----------------------------
(***************************************************************************)
(* The bounds shared by the pages of the merchant's console.  The console  *)
(* itself bounds none of these.                                            *)
(***************************************************************************)
EXTENDS Naturals, FiniteSets

CONSTANTS
    MaxEdits,       \* bound: things a merchant asks the back end for
    MaxOpens,       \* bound: pages opened
    MaxLosses,      \* bound: requests or answers lost
    None

ASSUME BoundsAssumption == {MaxEdits, MaxOpens, MaxLosses} \subseteq Nat

=============================================================================
