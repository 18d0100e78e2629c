-------------------------- MODULE CircuitBreaker --------------------------
(***************************************************************************)
(* The circuit breakers in front of the payment providers                  *)
(* (infrastructure/circuitbreaker/circuitbreaker.go), one per provider,    *)
(* shared by every request of the process.  Execute takes the mutex twice: *)
(* to admit the call and to record its outcome.  The call itself runs      *)
(* outside, so an outcome may meet a state that other calls have changed.  *)
(***************************************************************************)
EXTENDS Integers

CONSTANTS
    Provider,       \* the processors that have a breaker
    Caller,         \* requests that call them
    NoCall,         \* a caller between calls
    MaxFailures     \* failures that trip a closed breaker

ASSUME NoCallAssumption == NoCall \notin Provider
ASSUME MaxFailuresAssumption == MaxFailures \in Nat \ {0}

VARIABLES
    breaker,        \* breaker[p]: its state, failureCount, and whether less
                    \* than resetTimeout has passed since lastFailureTime
    call            \* call[c]: the provider c is waiting for

breakerVars == <<breaker, call>>

BreakerState == {"CLOSED", "OPEN", "HALF_OPEN"}

\* failureCount is only ever compared with maxFailures: it stops there.
Breaker == [state : BreakerState, failures : 0..MaxFailures, cooling : BOOLEAN]

BreakerTypeOK ==
    /\ breaker \in [Provider -> Breaker]
    /\ call \in [Caller -> Provider \cup {NoCall}]

NewBreaker == [state |-> "CLOSED", failures |-> 0, cooling |-> FALSE]

BreakerInit ==
    /\ breaker = [p \in Provider |-> NewBreaker]
    /\ call = [c \in Caller |-> NoCall]

---------------------------------------------------------------------------

\* Mutant of Admits: the time since the failure is compared the wrong way round.
Admits_Cooling(b) == b.state # "OPEN" \/ b.cooling

Admits(b) == b.state # "OPEN" \/ ~b.cooling

\* Admission: an open breaker that has cooled down turns half-open.
Admitted(b) == IF b.state = "OPEN" THEN [b EXCEPT !.state = "HALF_OPEN"] ELSE b

\* Mutant of Failed: the breaker trips one failure late.
Failed_Late(b) ==
    [state |-> IF b.state = "HALF_OPEN" \/ b.failures = MaxFailures THEN "OPEN" ELSE b.state,
     failures |-> IF b.failures < MaxFailures THEN b.failures + 1 ELSE MaxFailures,
     cooling |-> TRUE]

\* The operation returned an error, whatever the breaker has become meanwhile.
Failed(b) ==
    LET count == IF b.failures < MaxFailures THEN b.failures + 1 ELSE MaxFailures IN
    [state |-> IF b.state = "HALF_OPEN" \/ count = MaxFailures THEN "OPEN" ELSE b.state,
     failures |-> count,
     cooling |-> TRUE]

\* The operation succeeded: the breaker closes, even one that opened after
\* this call was admitted and has not cooled down.
Succeeded(b) == [state |-> "CLOSED", failures |-> 0, cooling |-> b.cooling]

---------------------------------------------------------------------------

Enter(c, p) ==
    /\ call[c] = NoCall
    /\ Admits(breaker[p])
    /\ breaker' = [breaker EXCEPT ![p] = Admitted(@)]
    /\ call' = [call EXCEPT ![c] = p]

\* ErrCircuitOpen: the operation is not run and nothing is recorded.
Reject(c, p) ==
    /\ call[c] = NoCall
    /\ ~Admits(breaker[p])
    /\ UNCHANGED breakerVars

\* The mutex is taken again to record that c's provider now has breaker b.
Return(c, b) ==
    /\ call[c] # NoCall
    /\ breaker' = [breaker EXCEPT ![call[c]] = b]
    /\ call' = [call EXCEPT ![c] = NoCall]

Fail(c) == Return(c, Failed(breaker[call[c]]))
Succeed(c) == Return(c, Succeeded(breaker[call[c]]))

\* The operation panics and the request dies: no outcome is recorded, and a
\* breaker this call was to probe stays half-open.
Panic(c) ==
    /\ call[c] # NoCall
    /\ call' = [call EXCEPT ![c] = NoCall]
    /\ UNCHANGED breaker

\* resetTimeout has passed since the last failure of p.
CoolDown(p) ==
    /\ breaker[p].cooling
    /\ breaker' = [breaker EXCEPT ![p].cooling = FALSE]
    /\ UNCHANGED call

BreakerNext ==
    \/ \E c \in Caller, p \in Provider : Enter(c, p) \/ Reject(c, p)
    \/ \E c \in Caller : Fail(c) \/ Succeed(c) \/ Panic(c)
    \/ \E p \in Provider : CoolDown(p)

BreakerSpec == BreakerInit /\ [][BreakerNext]_breakerVars

\* Time passes, operations return (providers are called with a timeout), and
\* requests keep asking for p.
Returns(c) == Fail(c) \/ Succeed(c) \/ Panic(c)
FairBreakerSpec ==
    /\ BreakerSpec
    /\ \A p \in Provider : WF_breakerVars(CoolDown(p))
    /\ \A c \in Caller : WF_breakerVars(Returns(c))
    /\ \A p \in Provider : SF_breakerVars(\E c \in Caller : Enter(c, p))

---------------------------------------------------------------------------

\* Closed below the threshold and only there.
ClosedBelowThreshold ==
    \A p \in Provider :
        breaker[p].state = "CLOSED" <=> breaker[p].failures < MaxFailures

\* Half-open only when resetTimeout has passed since the last failure.
HalfOpenIsCool ==
    \A p \in Provider : breaker[p].state = "HALF_OPEN" => ~breaker[p].cooling

\* The state of a breaker agrees with what it counts, however calls admitted in
\* one state report in another: it is closed exactly while fewer than
\* MaxFailures failures have come in since the last success, so that the
\* half-open test of line 82 never decides anything, and every caller a
\* half-open breaker admits comes when the last failure, late ones included, is
\* resetTimeout ago (circuitbreaker.go:52-66, 76-101).
BreakerStatesHold == ClosedBelowThreshold /\ HalfOpenIsCool

\* A breaker does not stay open for ever while requests keep asking: late
\* failures restart the cool-down but run out (circuitbreaker.go:56-66).
OpenIsProbed ==
    \A p \in Provider : breaker[p].state = "OPEN" ~> breaker[p].state # "OPEN"
=============================================================================
