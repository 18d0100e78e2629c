-------------------------- MODULE DeliveryContract --------------------------
(***************************************************************************)
(* What a merchant may expect of its webhook events, with no goroutine, no *)
(* copy and no clock in sight.  An event is posted only while it is        *)
(* pending; every attempt that is recorded counts one; it ends delivered,  *)
(* if some webhook accepted it, or failed, after exactly MaxAttempts; and  *)
(* it stays so, with its count, until the merchant asks for it again.      *)
(***************************************************************************)
EXTENDS Integers

CONSTANTS Event, MaxAttempts

VARIABLES
    state,      \* state[e]: none, pending, delivered or failed
    attempts,   \* attempts[e]: the attempts recorded since it was asked for
    accepted    \* the events some webhook accepted

contractVars == <<state, attempts, accepted>>

Init ==
    /\ state = [e \in Event |-> "none"]
    /\ attempts = [e \in Event |-> 0]
    /\ accepted = {}

Enqueue(e) ==
    /\ state[e] = "none"
    /\ state' = [state EXCEPT ![e] = "pending"]
    /\ UNCHANGED <<attempts, accepted>>

\* A webhook accepts the event.  That may be lost before it is recorded.
Accept(e) ==
    /\ state[e] = "pending"
    /\ accepted' = accepted \cup {e}
    /\ UNCHANGED <<state, attempts>>

\* An attempt is over, and with it perhaps the event.
Count(e, result) ==
    /\ state[e] = "pending"
    /\ state' = [state EXCEPT ![e] = result]
    /\ attempts' = [attempts EXCEPT ![e] = @ + 1]
    /\ UNCHANGED accepted

Delivered(e) == e \in accepted /\ Count(e, "delivered")
TryAgain(e) == attempts[e] + 1 < MaxAttempts /\ Count(e, "pending")
GiveUp(e) == attempts[e] + 1 = MaxAttempts /\ Count(e, "failed")

\* The merchant asks for the event anew, whatever has become of it.
AskAgain(e) ==
    /\ state[e] # "none"
    /\ state' = [state EXCEPT ![e] = "pending"]
    /\ attempts' = [attempts EXCEPT ![e] = 0]
    /\ UNCHANGED accepted

Next ==
    \E e \in Event :
        Enqueue(e) \/ Accept(e) \/ Delivered(e) \/ TryAgain(e) \/ GiveUp(e) \/ AskAgain(e)

Spec == Init /\ [][Next]_contractVars
=============================================================================
