----------------------------- MODULE MCProcess -----------------------------
(***************************************************************************)
(* What the requests of one process share in memory: its circuit breakers, *)
(* or its pulse hub.  The two have no state in common, so that a behaviour *)
(* of both is a mixture of behaviours of each: here one of them moves.     *)
(***************************************************************************)
EXTENDS CircuitBreaker, PulseHub

VARIABLE part       \* the one that moves

processVars == <<breakerVars, hubVars, part>>

\* The hub stays in one of its initial states while the breakers move.
ProcessInit ==
    /\ part \in {"breakers", "hub"}
    /\ BreakerInit /\ PulseInit
    /\ part = "breakers" => \A c, d \in Capture : capture[c] = capture[d]

Breakers(A) == part = "breakers" /\ A /\ UNCHANGED <<hubVars, part>>
Hub(A) == part = "hub" /\ A /\ UNCHANGED <<breakerVars, part>>

ProcessNext == Breakers(BreakerNext) \/ Hub(PulseNext)

\* The fairness of FairBreakerSpec; and the goroutine Run and the captures go on
\* when they can.  Nothing is asked of a dashboard or its Pump.
ProcessSpec ==
    /\ ProcessInit /\ [][ProcessNext]_processVars
    /\ \A p \in Provider : WF_processVars(Breakers(CoolDown(p)))
    /\ \A c \in Caller : WF_processVars(Breakers(Returns(c)))
    /\ \A p \in Provider : SF_processVars(Breakers(\E c \in Caller : Enter(c, p)))
    /\ WF_processVars(Hub(Run))
    /\ \A c \in Capture : WF_processVars(Hub(SendToHub(c)))
=============================================================================
