--------------------------- MODULE VirtualTerminal ---------------------------
(***************************************************************************)
(* The virtual terminal of the merchant's dashboard: one press of Pay asks *)
(* for a route, makes the payment and reads it back, each in a request of  *)
(* its own.  The button is disabled while the terminal says routing or     *)
(* processing, but typing in the amount field sets it to idle whatever is  *)
(* under way, so that several runs may share the one state.                *)
(***************************************************************************)
EXTENDS ConsoleBounds

CONSTANT Runs       \* presses of Pay; bound: each is made once

ASSUME TerminalAssumption == IsFiniteSet(Runs)

VARIABLES
    term,       \* termState
    amount,     \* whether the amount field holds a positive number
    step,       \* where each run is
    edits       \* history: amounts typed while a run was under way

terminalVars == <<term, amount, step, edits>>

Spinning == {"routing", "processing"}
Asking == {"routing", "processing", "reading"}
Underway == {r \in Runs : step[r] \in Asking}

TerminalInit ==
    /\ term = "idle" /\ amount = FALSE
    /\ step = [r \in Runs |-> "unused"]
    /\ edits = 0

\* The form is on the screen unless a payment succeeded.
FormOnScreen == term # "success"
\* Mutant: the button is not disabled while a payment is under way.
PayEnabled_WhileBusy == FormOnScreen /\ amount
PayEnabled == FormOnScreen /\ term \notin Spinning /\ amount

EditAmount(filled) ==
    /\ FormOnScreen
    /\ edits < MaxEdits
    /\ amount' = filled /\ term' = "idle"
    /\ edits' = IF Underway = {} THEN edits ELSE edits + 1
    /\ UNCHANGED step

HandlePay(r) ==
    /\ PayEnabled
    /\ step[r] = "unused"
    /\ term' = "routing"
    /\ step' = [step EXCEPT ![r] = "routing"]
    /\ UNCHANGED <<amount, edits>>

\* A route or none: the payment is made either way.
RouteAnswered(r) ==
    /\ step[r] = "routing"
    /\ term' = "processing"
    /\ step' = [step EXCEPT ![r] = "processing"]
    /\ UNCHANGED <<amount, edits>>

PaymentMade(r) ==
    /\ step[r] = "processing"
    /\ step' = [step EXCEPT ![r] = "reading"]
    /\ UNCHANGED <<term, amount, edits>>

\* A refusal, an error or a lost answer, all told as a failure.
PaymentRefused(r) ==
    /\ step[r] = "processing"
    /\ term' = "failed"
    /\ step' = [step EXCEPT ![r] = "over"]
    /\ UNCHANGED <<amount, edits>>

\* Whether or not it could be read back.
TransactionRead(r) ==
    /\ step[r] = "reading"
    /\ term' = "success"
    /\ step' = [step EXCEPT ![r] = "over"]
    /\ UNCHANGED <<amount, edits>>

Reset ==
    /\ term = "success"
    /\ term' = "idle" /\ amount' = FALSE
    /\ UNCHANGED <<step, edits>>

RunStep(r) ==
    RouteAnswered(r) \/ PaymentMade(r) \/ PaymentRefused(r) \/ TransactionRead(r)

TerminalNext ==
    \/ \E filled \in BOOLEAN : EditAmount(filled)
    \/ \E r \in Runs : HandlePay(r) \/ RunStep(r)
    \/ Reset

TerminalSpec == TerminalInit /\ [][TerminalNext]_terminalVars

-----------------------------------------------------------------------------
TerminalTypeOK ==
    /\ term \in Spinning \cup {"idle", "success", "failed"}
    /\ amount \in BOOLEAN
    /\ step \in [Runs -> Asking \cup {"unused", "over"}]
    /\ edits \in 0..MaxEdits

\* The disabled button is the terminal's only guard against a payment made
\* twice.  Every payment that runs beside another was let through by an
\* amount typed while one was under way: n of those let at most n + 1 payments
\* run at once, however their answers interleave.
OverlapNeedsEdit == Cardinality(Underway) <= edits + 1

=============================================================================
