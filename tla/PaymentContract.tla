------------------------- MODULE PaymentContract --------------------------
(***************************************************************************)
(* What a merchant is promised about one payment, with no handler, copy or *)
(* cache in sight: it is authorized or declined once, captured at most     *)
(* once, paid back at most once and never beyond its amount.               *)
(***************************************************************************)
EXTENDS Integers, Sequences

CONSTANTS Tx, Amount

VARIABLES
    state,      \* state[t]: where the payment stands
    paidBack    \* paidBack[t]: the refunds paid out, in order

contractVars == <<state, paidBack>>

State == {"none", "declined", "authorized", "captured", "refunded"}

Init ==
    /\ state = [t \in Tx |-> "none"]
    /\ paidBack = [t \in Tx |-> <<>>]

Move(t, from, to) ==
    /\ state[t] \in from
    /\ state' = [state EXCEPT ![t] = to]

Decline(t) == Move(t, {"none"}, "declined") /\ UNCHANGED paidBack
Authorize(t) == Move(t, {"none"}, "authorized") /\ UNCHANGED paidBack
Capture(t) == Move(t, {"authorized"}, "captured") /\ UNCHANGED paidBack

\* The merchant pays an amount back.
Refund(t, amount) ==
    /\ Move(t, {"captured"}, "refunded")
    /\ amount <= Amount[t]
    /\ paidBack' = [paidBack EXCEPT ![t] = Append(@, amount)]

\* The platform writes the payment off from any state; no refund is recorded.
WriteOff(t) ==
    /\ Move(t, {"declined", "authorized", "captured"}, "refunded")
    /\ UNCHANGED paidBack

Next ==
    \E t \in Tx :
        \/ Decline(t)
        \/ Authorize(t)
        \/ Capture(t)
        \/ \E amount \in 0..Amount[t] : Refund(t, amount)
        \/ WriteOff(t)

Spec == Init /\ [][Next]_contractVars

\* The promise in one line: a payment is paid back once, within its amount,
\* and only after which it is closed.
PaidBackOnce ==
    \A t \in Tx :
        /\ Len(paidBack[t]) <= 1
        /\ paidBack[t] # <<>> =>
              state[t] = "refunded" /\ paidBack[t][1] <= Amount[t]
=============================================================================
