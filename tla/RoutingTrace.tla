----------------------------- MODULE RoutingTrace -----------------------------
(***************************************************************************)
(* The smart routing page traces the merchant's payments through its map   *)
(* of gateways.  While telemetry is on an effect polls the newest payments *)
(* and puts those it has not met on the trace, one timer each.  The effect *)
(* keeps the last id and the nodes of the render that started it: a change *)
(* of either drops its polls and starts it again.  Routes, particles, the  *)
(* velocity and the synthetic payments of the load test are only drawn.    *)
(* Payments are numbered in the order they are made.                       *)
(***************************************************************************)
EXTENDS ConsoleBounds

CONSTANTS
    MaxPayments,    \* bound: payments made
    PageLimit,      \* payments in the answer to one poll: ten
    Polls           \* bound: polls in flight

ASSUME TraceAssumption == MaxPayments \in Nat /\ PageLimit \in Nat \ {0}

VARIABLES
    paid,       \* back end: payments made so far
    map,        \* activeTraffic, testMode, nodes and lastTxId
    since,      \* the last id the running effect keeps, 0 for none
    polls,      \* its polls
    timers,     \* payments whose timer runs
    trace,      \* payments in the trace log
    origin,     \* history: the first payment traced since the reset
    skipped,    \* history: the newest payment was taken alone although some were traced
    clicks

traceVars == <<paid, map, since, polls, timers, trace, origin, skipped, clicks>>

Free == [step |-> "free", upto |-> 0]
NoPolls == [p \in Polls |-> Free]

\* The effect starts with a poll; the answers to those of the last one are dropped.
FirstPoll == [NoPolls EXCEPT ![CHOOSE p \in Polls : TRUE].step = "asked"]

TraceInit ==
    /\ paid \in 0..1
    /\ map = [on |-> FALSE, test |-> FALSE, nodes |-> "initial", last |-> 0]
    /\ since = 0
    /\ polls = NoPolls
    /\ timers = {} /\ trace = {}
    /\ origin = 0 /\ skipped = FALSE
    /\ clicks = 0

Click == clicks < MaxEdits /\ clicks' = clicks + 1

Restart(seen) ==
    /\ map' = seen
    /\ since' = seen.last
    /\ polls' = IF seen.on THEN FirstPoll ELSE NoPolls

\* A render starts the effect again when activeTraffic, nodes or lastTxId changed.
Render(seen) ==
    IF <<seen.on, seen.nodes, seen.last>> = <<map.on, map.nodes, since>>
    THEN map' = seen /\ UNCHANGED <<since, polls>>
    ELSE Restart(seen)

Shows(seen) ==
    Click /\ Render(seen) /\ UNCHANGED <<paid, timers, trace, origin, skipped>>

\* A new array of nodes, whatever is in it.
SetNodes(nodes) ==
    /\ Click /\ Restart([map EXCEPT !.nodes = nodes])
    /\ UNCHANGED <<paid, timers, trace, origin, skipped>>

ToggleTraffic == Shows([map EXCEPT !.on = ~@])
ToggleTestMode == Shows([map EXCEPT !.test = ~@, !.on = @ \/ ~map.test])

SimulateFailure ==
    map.nodes # "down" /\ SetNodes("down")

\* The select of the node panel: the status of the primary gateway, or that of
\* another node, which leaves the primary as it was.
OverrideStatus ==
    \E nodes \in {"up", "down"} : SetNodes(nodes)

\* Timers that run already still put their payments on the emptied trace.
ResetState ==
    /\ Click
    /\ Render([map EXCEPT !.nodes = "initial", !.last = 0])
    /\ trace' = {} /\ origin' = 0 /\ skipped' = FALSE
    /\ UNCHANGED <<paid, timers>>

-----------------------------------------------------------------------------
(* The poller.                                                             *)

PollAgain(p) ==
    /\ map.on /\ polls[p] = Free
    /\ polls' = [polls EXCEPT ![p].step = "asked"]
    /\ UNCHANGED <<paid, map, since, timers, trace, origin, skipped, clicks>>

ServePoll(p) ==
    /\ polls[p].step = "asked"
    /\ polls' = [polls EXCEPT ![p] = [step |-> "answered", upto |-> paid]]
    /\ UNCHANGED <<paid, map, since, timers, trace, origin, skipped, clicks>>

Tracked(upto) == since # 0 /\ since + PageLimit > upto

\* Mutant: one payment for each poll, not to flood the map.
Newer_OnlyNewest(upto) == IF since = upto \/ upto = 0 THEN {} ELSE {upto}

\* What the answer holds that is newer than the last id, or its newest alone
\* when that is not in it.
Newer(upto) ==
    IF upto = 0 THEN {} ELSE IF Tracked(upto) THEN since+1..upto ELSE {upto}

\* The new last id is rendered later, by Rerender.
PullTransactions(p) ==
    /\ polls[p].step = "answered"
    /\ LET upto == polls[p].upto
           new == Newer(upto)
       IN IF new = {}
          THEN UNCHANGED <<map, timers, origin, skipped>>
          ELSE /\ map' = [map EXCEPT !.last = upto]
               /\ timers' = timers \cup new
               /\ origin' = IF origin = 0 THEN upto ELSE origin
               /\ skipped' = (skipped \/ (origin # 0 /\ ~Tracked(upto)))
    /\ polls' = [polls EXCEPT ![p] = Free]
    /\ UNCHANGED <<paid, since, trace, clicks>>

PollFails(p) ==
    /\ polls[p] # Free
    /\ polls' = [polls EXCEPT ![p] = Free]
    /\ UNCHANGED <<paid, map, since, timers, trace, origin, skipped, clicks>>

Rerender ==
    /\ since # map.last
    /\ Render(map)
    /\ UNCHANGED <<paid, timers, trace, origin, skipped, clicks>>

Spawn(t) ==
    /\ timers' = timers \ {t} /\ trace' = trace \cup {t}
    /\ UNCHANGED <<paid, map, since, polls, origin, skipped, clicks>>

PaymentArrives ==
    /\ paid < MaxPayments
    /\ paid' = paid + 1
    /\ UNCHANGED <<map, since, polls, timers, trace, origin, skipped, clicks>>

TraceNext ==
    \/ ToggleTraffic \/ ToggleTestMode
    \/ SimulateFailure \/ OverrideStatus \/ ResetState
    \/ \E p \in Polls : PollAgain(p) \/ ServePoll(p) \/ PullTransactions(p) \/ PollFails(p)
    \/ Rerender
    \/ \E t \in timers : Spawn(t)
    \/ PaymentArrives

TraceSpec == TraceInit /\ [][TraceNext]_traceVars

-----------------------------------------------------------------------------
\* From the first payment on the trace to the last id, none is missing: each
\* is in the log or its timer runs, however polls overlap, fail or are
\* dropped by a click.  Only an answer that no longer holds the last id, or a
\* second first answer that comes before the page was rendered, may skip some.
TraceHasNoGaps ==
    ~skipped /\ origin # 0 => origin+1..map.last \subseteq trace \cup timers

=============================================================================
