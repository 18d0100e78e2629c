------------------------ MODULE PaymentCreationProofs ------------------------
(***************************************************************************)
(* Proofs about CircuitBreaker for any providers, callers and threshold,   *)
(* and about PaymentCreation, which goes through the breakers, for any     *)
(* number of requests, orders, providers and faults.                       *)
(***************************************************************************)
EXTENDS PaymentCreation, FiniteSetTheorems, TLAPS

---------------------------------------------------------------------------
(* The breakers of the providers, on their own.                            *)

BreakerInv == BreakerTypeOK /\ ClosedBelowThreshold /\ HalfOpenIsCool

\* What is true of one breaker at a time.
Sound(b) ==
    /\ b \in Breaker
    /\ b.state = "CLOSED" <=> b.failures < MaxFailures
    /\ b.state = "HALF_OPEN" => ~b.cooling

LEMMA InvIsSound ==
    BreakerInv <=> /\ breaker \in [Provider -> Breaker]
                   /\ call \in [Caller -> Provider \cup {NoCall}]
                   /\ \A p \in Provider : Sound(breaker[p])
BY DEF BreakerInv, BreakerTypeOK, ClosedBelowThreshold, HalfOpenIsCool, Sound

LEMMA FailedIsSound == ASSUME NEW b, Sound(b) PROVE Sound(Failed(b))
<1>1. /\ b.state \in BreakerState /\ b.failures \in 0..MaxFailures
      /\ b.cooling \in BOOLEAN
  BY DEF Sound, Breaker
<1>2. CASE b.failures < MaxFailures
  BY <1>1, <1>2, MaxFailuresAssumption DEF Sound, Failed, Breaker, BreakerState
<1>3. CASE b.failures = MaxFailures
  BY <1>1, <1>3, MaxFailuresAssumption DEF Sound, Failed, Breaker, BreakerState
<1> QED
  BY <1>1, <1>2, <1>3, MaxFailuresAssumption

LEMMA SucceededIsSound == ASSUME NEW b, Sound(b) PROVE Sound(Succeeded(b))
BY MaxFailuresAssumption DEF Sound, Succeeded, Breaker, BreakerState

LEMMA AdmittedIsSound ==
    ASSUME NEW b, Sound(b), Admits(b)
    PROVE  Sound(Admitted(b))
BY DEF Sound, Admitted, Admits, Breaker, BreakerState

LEMMA CooledIsSound == ASSUME NEW b, Sound(b) PROVE Sound([b EXCEPT !.cooling = FALSE])
BY DEF Sound, Breaker

\* A step replaces the breaker of one provider by a sound one.
LEMMA OneBreaker ==
    ASSUME BreakerInv, NEW p \in Provider, NEW b, Sound(b),
           breaker' = [breaker EXCEPT ![p] = b],
           call' \in [Caller -> Provider \cup {NoCall}]
    PROVE  BreakerInv'
<1>1. breaker' \in [Provider -> Breaker]
  BY InvIsSound DEF Sound
<1>2. \A q \in Provider : Sound(breaker'[q])
  BY InvIsSound
<1>3. \A q \in Provider : Sound(breaker[q])'
  BY <1>2 DEF Sound
<1> QED
  BY <1>1, <1>3 DEF BreakerInv, BreakerTypeOK, ClosedBelowThreshold, HalfOpenIsCool, Sound

LEMMA BreakerInvInit == BreakerInit => BreakerInv
BY MaxFailuresAssumption
DEF BreakerInit, NewBreaker, BreakerInv, BreakerTypeOK, ClosedBelowThreshold,
    HalfOpenIsCool, Breaker, BreakerState

LEMMA BreakerInvStep == BreakerInv /\ [BreakerNext]_breakerVars => BreakerInv'
<1> SUFFICES ASSUME BreakerInv, [BreakerNext]_breakerVars
             PROVE  BreakerInv'
  OBVIOUS
<1>1. \A p \in Provider : Sound(breaker[p])
  BY InvIsSound
<1>2. ASSUME NEW c \in Caller, NEW p \in Provider, Enter(c, p)
      PROVE  BreakerInv'
  <2>1. call' \in [Caller -> Provider \cup {NoCall}]
    BY <1>2 DEF Enter, BreakerInv, BreakerTypeOK
  <2>2. breaker' = [breaker EXCEPT ![p] = Admitted(breaker[p])]
    BY <1>2 DEF Enter
  <2> QED
    BY <1>1, <1>2, <2>1, <2>2, AdmittedIsSound, OneBreaker DEF Enter
<1>3. ASSUME NEW c \in Caller, Fail(c) \/ Succeed(c)
      PROVE  BreakerInv'
  <2>1. call[c] \in Provider
    BY <1>3 DEF Fail, Succeed, Return, BreakerInv, BreakerTypeOK
  <2>2. call' \in [Caller -> Provider \cup {NoCall}]
    BY <1>3 DEF Fail, Succeed, Return, BreakerInv, BreakerTypeOK
  <2>3. CASE Fail(c)
    <3>1. breaker' = [breaker EXCEPT ![call[c]] = Failed(breaker[call[c]])]
      BY <2>3 DEF Fail, Return
    <3> QED
      BY <1>1, <2>1, <2>2, <3>1, FailedIsSound, OneBreaker
  <2>4. CASE Succeed(c)
    <3>1. breaker' = [breaker EXCEPT ![call[c]] = Succeeded(breaker[call[c]])]
      BY <2>4 DEF Succeed, Return
    <3> QED
      BY <1>1, <2>1, <2>2, <3>1, SucceededIsSound, OneBreaker
  <2> QED
    BY <1>3, <2>3, <2>4
<1>4. ASSUME NEW p \in Provider, CoolDown(p)
      PROVE  BreakerInv'
  <2>1. breaker' = [breaker EXCEPT ![p] = [breaker[p] EXCEPT !.cooling = FALSE]]
    BY <1>4 DEF CoolDown
  <2>2. call' \in [Caller -> Provider \cup {NoCall}]
    BY <1>4 DEF CoolDown, BreakerInv, BreakerTypeOK
  <2> QED
    BY <1>1, <2>1, <2>2, CooledIsSound, OneBreaker
<1>5. ASSUME NEW c \in Caller, Panic(c)
      PROVE  BreakerInv'
  BY <1>5
  DEF Panic, BreakerInv, BreakerTypeOK, ClosedBelowThreshold, HalfOpenIsCool
<1>6. CASE UNCHANGED breakerVars
  BY <1>6 DEF breakerVars, BreakerInv, BreakerTypeOK, ClosedBelowThreshold, HalfOpenIsCool
<1> QED
  BY <1>2, <1>3, <1>4, <1>5, <1>6 DEF BreakerNext, Reject

\* Type correctness, the threshold and the half-open state, inductively
\* (circuitbreaker.go:52-104).
THEOREM BreakerInvariant == BreakerSpec => []BreakerInv
BY BreakerInvInit, BreakerInvStep, PTL DEF BreakerSpec

\* A breaker is closed exactly below its threshold, and half-open only when it
\* has cooled down (circuitbreaker.go:52-66, 76-101).
THEOREM BreakerStatesAlwaysHold == BreakerSpec => []BreakerStatesHold
<1>1. BreakerInv => BreakerStatesHold
  BY DEF BreakerInv, BreakerStatesHold
<1> QED
  BY <1>1, BreakerInvariant, PTL

\* A call that begins at a breaker that is not closed.
StartsCool ==
    \A c \in Caller, p \in Provider :
        call[c] = NoCall /\ call'[c] = p /\ breaker[p].state # "CLOSED" =>
            ~breaker[p].cooling

\* A provider whose breaker is not closed is called only when resetTimeout has
\* passed since its last failure, late failures included.
NoCallWhileCooling == [][StartsCool]_breakerVars

\* A step of the breakers admits calls to breakers that have cooled down only.
LEMMA StepStartsCool == BreakerInv /\ [BreakerNext]_breakerVars => [StartsCool]_breakerVars
<1> SUFFICES ASSUME BreakerInv, BreakerNext, NEW c \in Caller, NEW p \in Provider,
                    call[c] = NoCall, call'[c] = p, breaker[p].state # "CLOSED"
             PROVE  ~breaker[p].cooling
  BY DEF StartsCool
<1>1. ASSUME NEW d \in Caller, Fail(d) \/ Succeed(d) \/ Panic(d)
      PROVE  FALSE
  <2>1. call' = [call EXCEPT ![d] = NoCall]
    BY <1>1 DEF Fail, Succeed, Return, Panic
  <2>2. call'[c] = NoCall
    BY <2>1 DEF BreakerInv, BreakerTypeOK
  <2> QED
    BY <2>2, NoCallAssumption
<1>2. call' # call
  BY NoCallAssumption
<1>3. PICK d \in Caller, q \in Provider : Enter(d, q)
  BY <1>1, <1>2 DEF BreakerNext, Reject, CoolDown, breakerVars
<1>4. q = p /\ Admits(breaker[p])
  BY <1>3, NoCallAssumption DEF Enter, BreakerInv, BreakerTypeOK
<1>5. breaker[p].state \in {"OPEN", "HALF_OPEN"}
  BY DEF BreakerInv, BreakerTypeOK, Breaker, BreakerState
<1> QED
  BY <1>4, <1>5 DEF Admits, BreakerInv, HalfOpenIsCool

\* No call is admitted within resetTimeout of a failure unless the breaker is
\* closed (circuitbreaker.go:56-66).
THEOREM CallsAreCool == BreakerSpec => NoCallWhileCooling
<1>1. NoCallWhileCooling <=> [][StartsCool]_breakerVars
  BY DEF NoCallWhileCooling
<1> QED
  BY <1>1, StepStartsCool, BreakerInvariant, PTL DEF BreakerSpec

---------------------------------------------------------------------------
(* The creation of a payment.                                              *)

Paid(r) == {p \in Provider : <<r, p>> \in taken}

\* Steps of a request that no provider has answered with money.
Unpaid == {"new", "lookup", "try", "wait", "decline", "declined", "replayed"}

\* Before its charge is accepted, each provider that took money for a request
\* did so in a lost answer.
Counted(r) ==
    /\ IsFiniteSet(Paid(r))
    /\ Cardinality(Paid(r)) <= 1 + faults
    /\ request[r].step \in Unpaid => Cardinality(Paid(r)) <= faults
    /\ request[r].step \in {"setKey", "announce"} => r \in stored
    /\ request[r].step \in {"respond", "answered", "late", "failed"} =>
          Paid(r) = {} \/ r \in stored \/ faults > 0

MoneyCounted == \A r \in Request : Counted(r)

\* The service finds the payment of an order.
Remembered(o) == o \in keys /\ HasRow(o)
Forgotten(o) == IF Remembered(o) THEN 0 ELSE 1
Uncached(o) == IF o \in answers THEN 0 ELSE 1

\* A payment that was stored is found by the service, one that was answered
\* under a header also by the middleware: what is missing was lost by faults.
\* A request that repeats an answered one and reached the service lost one.
Recalled(r) ==
    LET job == request[r]
        o == job.order
    IN  /\ r \in stored => job.step # "new"
        /\ job.step # "new" => o \in Order
        /\ job.step \in {"announce", "respond", "answered", "late"} =>
              faults >= Forgotten(o)
        /\ job.step = "answered" /\ job.header =>
              cacheLost \/ faults >= Forgotten(o) + Uncached(o)
        /\ job.step = "lookup" /\ job.repeat =>
              cacheLost \/ faults >= Forgotten(o) + 1

OrdersRecalled == \A r \in Request : Recalled(r)

\* A request waits for the provider its call is recorded at, and only then.
Calling(r) ==
    IF request[r].step = "wait"
    THEN request[r].provider \in Provider /\ call[r] = request[r].provider
    ELSE call[r] = NoCall

CallsMatch == \A r \in Request : Calling(r)

CreationInv ==
    /\ BreakerInv
    /\ CreationTypeOK
    /\ CallsMatch
    /\ MoneyCounted
    /\ OrdersRecalled

---------------------------------------------------------------------------
(* How a step changes the requests *)

\* The job of r goes to a step, and to another provider perhaps.
Moves(r, step) ==
    /\ request' \in [Request -> Job]
    /\ request'[r].step = step
    /\ request'[r].order = request[r].order
    /\ request'[r].header = request[r].header
    /\ request'[r].repeat = request[r].repeat
    /\ \A q \in Request : q # r => request'[q] = request[q]

LEMMA GoToMoves ==
    ASSUME request \in [Request -> Job], NEW r \in Request, NEW step \in Step,
           GoTo(r, step)
    PROVE  Moves(r, step)
BY DEF GoTo, Moves, Job

LEMMA RouteMoves ==
    ASSUME request \in [Request -> Job], NEW r \in Request,
           NEW p \in Provider \cup {Unconfigured}, Route(r, p)
    PROVE  Moves(r, "try")
<1> PICK job : job = [request[r] EXCEPT !.step = "try", !.provider = p]
  OBVIOUS
<1>1. request[r] \in Job
  OBVIOUS
<1>2. /\ job \in Job /\ job.step = "try" /\ job.order = request[r].order
      /\ job.header = request[r].header /\ job.repeat = request[r].repeat
  BY <1>1 DEF Job, Step
<1>3. request' = [request EXCEPT ![r] = job]
  BY DEF Route
<1> QED
  BY <1>2, <1>3 DEF Moves

LEMMA NextProviderMoves ==
    ASSUME request \in [Request -> Job], NEW r \in Request, NextProvider(r)
    PROVE  Moves(r, "try") \/ Moves(r, "decline")
<1> DEFINE job == request[r]
           again == [job EXCEPT !.step = "try", !.second = TRUE,
                                !.provider = Secondary(job.provider)]
           over == [job EXCEPT !.step = "decline"]
<1>1. Secondary(job.provider) \in Provider /\ job \in Job
  BY ProvidersAssumption DEF Secondary
<1>2. /\ again \in Job /\ again.step = "try" /\ again.order = job.order
      /\ again.header = job.header /\ again.repeat = job.repeat
      /\ over \in Job /\ over.step = "decline" /\ over.order = job.order
      /\ over.header = job.header /\ over.repeat = job.repeat
  BY <1>1 DEF Job, Step
<1>3. request' = [request EXCEPT ![r] = IF job.second THEN over ELSE again]
  BY DEF NextProvider
<1> HIDE DEF again, over
<1> QED
  BY <1>2, <1>3 DEF Moves

LEMMA ReceivedMoves ==
    ASSUME request \in [Request -> Job], NEW r \in Request, NEW o \in Order,
           NEW h \in BOOLEAN, NEW step \in Step, Received(r, o, h, step)
    PROVE  /\ request' \in [Request -> Job]
           /\ request'[r].step = step
           /\ request'[r].order = o
           /\ request'[r].repeat => h /\ \E q \in Request : /\ At(q, "answered")
                                                            /\ request[q].header
                                                            /\ request[q].order = o
           /\ \A q \in Request : q # r => request'[q] = request[q]
<1> DEFINE again == h /\ \E q \in Request : /\ At(q, "answered")
                                            /\ request[q].header
                                            /\ request[q].order = o
           job == [request[r] EXCEPT !.step = step, !.order = o, !.header = h,
                                     !.repeat = again]
<1>1. again \in BOOLEAN
  OBVIOUS
<1>2. request' = [request EXCEPT ![r] = job]
  BY DEF Received
<1>3. job \in Job /\ job.step = step /\ job.order = o /\ job.repeat = again
  <2> HIDE DEF again
  <2> QED
    BY <1>1 DEF Job
<1> HIDE DEF job
<1>4. /\ request' \in [Request -> Job] /\ request'[r] = job
      /\ \A q \in Request : q # r => request'[q] = request[q]
  BY <1>2, <1>3
<1> QED
  BY <1>3, <1>4

---------------------------------------------------------------------------
(* The breakers of a process that may die at any time *)

LEMMA NewBreakersAreSound ==
    ASSUME breaker' = [p \in Provider |-> NewBreaker], call' = [r \in Request |-> NoCall]
    PROVE  BreakerInv'
BY MaxFailuresAssumption
DEF NewBreaker, BreakerInv, BreakerTypeOK, ClosedBelowThreshold, HalfOpenIsCool, Breaker,
    BreakerState, Request

\* Every step but a crash is a step of the breakers or leaves them alone.
LEMMA BreakersMove ==
    ASSUME CreationTypeOK, [CreationNext]_creationVars, ~Crash
    PROVE  [BreakerNext]_breakerVars
<1>1. ASSUME NEW r \in Request, Arrive(r)
      PROVE  UNCHANGED breakerVars
  BY <1>1 DEF Arrive, Replay, CallHandler, CallHandlerUnchecked, breakerVars
<1>2. ASSUME NEW r \in Request, Charge(r)
      PROVE  BreakerNext
  BY <1>2 DEF Charge, BreakerNext, Request
<1>3. ASSUME NEW r \in Request, ChargeNotTried(r)
      PROVE  UNCHANGED breakerVars
  BY <1>3 DEF ChargeNotTried, Reject, breakerVars
<1>4. ASSUME NEW r \in Request, ChargeAccepted(r) \/ ChargeRefusedByNpci(r)
      PROVE  BreakerNext
  <2>1. Succeed(r)
    BY <1>4 DEF ChargeAccepted, ChargeRefusedByNpci
  <2> QED
    BY <2>1 DEF BreakerNext, Request
<1>5. ASSUME NEW r \in Request, ChargeError(r) \/ ChargeAnswerLost(r)
      PROVE  BreakerNext
  <2>1. Fail(r)
    BY <1>5 DEF ChargeError, ChargeAnswerLost
  <2> QED
    BY <2>1 DEF BreakerNext, Request
<1>6. ASSUME NEW r \in Request, ChargePanics(r)
      PROVE  BreakerNext
  BY <1>6 DEF ChargePanics, BreakerNext, Request
<1>7. ASSUME NEW r \in Request, Proceed(r)
      PROVE  [BreakerNext]_breakerVars
  BY <1>2, <1>3, <1>4, <1>5, <1>6, <1>7
  DEF Proceed, ReturnExisting, Begin, BeginUnchecked, Decline, Store, StoreFails,
      SetKey, SetKeyFails, Announce, AnnounceFails, Respond, RespondUncached,
      RespondLate, breakerVars
<1>8. CASE TimePasses
  BY <1>8 DEF TimePasses, BreakerNext
<1>9. ASSUME NEW o \in Order, LoseKey(o) \/ LoseAnswer(o)
      PROVE  UNCHANGED breakerVars
  BY <1>9 DEF LoseKey, LoseAnswer, breakerVars
<1>10. CASE LoseCache
  BY <1>10 DEF LoseCache, breakerVars
<1>11. CASE UNCHANGED creationVars
  BY <1>11 DEF creationVars, breakerVars
<1> QED
  BY <1>1, <1>7, <1>8, <1>9, <1>10, <1>11 DEF CreationNext

LEMMA BreakersStep ==
    ASSUME CreationTypeOK, BreakerInv, [CreationNext]_creationVars
    PROVE  BreakerInv'
<1>1. CASE Crash
  BY <1>1, NewBreakersAreSound DEF Crash
<1>2. CASE ~Crash
  BY <1>2, BreakersMove, BreakerInvStep
<1> QED
  BY <1>1, <1>2

---------------------------------------------------------------------------
(* Type correctness *)

LEMMA FaultCounts ==
    ASSUME CreationTypeOK, Fault
    PROVE  faults' \in 0..MaxFaults /\ faults' = faults + 1 /\ faults' > 0
BY CreationFaultsAssumption DEF CreationTypeOK, Fault

\* A step of a request that has begun: where it goes.
LEMMA ProceedMoves ==
    ASSUME CreationTypeOK, NEW r \in Request, Proceed(r)
    PROVE  \E step \in Step : Moves(r, step)
<1> USE GoToMoves, RouteMoves, NextProviderMoves DEF CreationTypeOK, Step
<1>1. CASE ReturnExisting(r) \/ Charge(r) \/ ChargeAccepted(r) \/ ChargeRefusedByNpci(r)
           \/ ChargePanics(r) \/ Decline(r)
  BY <1>1 DEF ReturnExisting, Charge, ChargeAccepted, ChargeRefusedByNpci, ChargePanics,
              Decline
<1>2. CASE Store(r) \/ StoreFails(r) \/ SetKey(r) \/ SetKeyFails(r) \/ Announce(r)
           \/ AnnounceFails(r)
  BY <1>2 DEF Store, StoreFails, SetKey, SetKeyFails, Announce, AnnounceFails
<1>3. CASE Respond(r) \/ RespondUncached(r) \/ RespondLate(r)
  BY <1>3 DEF Respond, RespondUncached, RespondLate
<1>4. CASE ChargeNotTried(r) \/ ChargeError(r) \/ ChargeAnswerLost(r)
  BY <1>4 DEF ChargeNotTried, ChargeError, ChargeAnswerLost
<1>5. ASSUME NEW p \in Provider \cup {Unconfigured}, Begin(r, p) \/ BeginUnchecked(r, p)
      PROVE  \E step \in Step : Moves(r, step)
  BY <1>5 DEF Begin, BeginUnchecked
<1> QED
  BY <1>1, <1>2, <1>3, <1>4, <1>5 DEF Proceed

LEMMA CreationTypeInit == CreationInit => CreationTypeOK
<1> SUFFICES ASSUME CreationInit
             PROVE  CreationTypeOK
  OBVIOUS
<1>1. BreakerTypeOK
  BY BreakerInvInit DEF CreationInit, BreakerInv
<1>2. request \in [Request -> Job]
  BY DEF CreationInit, Job, Step
<1>3. /\ answers = {} /\ keys = {} /\ stored = {} /\ taken = {} /\ events = {}
      /\ cacheLost \in BOOLEAN
  BY DEF CreationInit
<1>4. faults \in 0..MaxFaults
  BY CreationFaultsAssumption DEF CreationInit
<1> QED
  BY <1>1, <1>2, <1>3, <1>4 DEF CreationTypeOK

\* What a step leaves of the caches, the rows, the money and the faults.
LEMMA ProceedTyped ==
    ASSUME CreationTypeOK, CallsMatch, NEW r \in Request, Proceed(r)
    PROVE  /\ answers' \subseteq Order \cup {request[r].order}
           /\ keys' \subseteq Order \cup {request[r].order}
           /\ stored' \subseteq Request
           /\ taken' \subseteq Request \X Provider
           /\ events' \subseteq {"transaction.created", "transaction.failed"} \X Request
           /\ cacheLost' = cacheLost
           /\ faults' \in 0..MaxFaults
<1> USE FaultCounts DEF CreationTypeOK
<1>1. CASE ReturnExisting(r) \/ Charge(r) \/ ChargeRefusedByNpci(r) \/ ChargeError(r)
           \/ ChargePanics(r) \/ Decline(r) \/ ChargeNotTried(r)
  BY <1>1 DEF ReturnExisting, Charge, ChargeRefusedByNpci, ChargeError, ChargePanics,
              Decline, ChargeNotTried
<1>2. CASE ChargeAccepted(r) \/ ChargeAnswerLost(r)
  <2>1. request[r].provider \in Provider
    BY <1>2 DEF ChargeAccepted, ChargeAnswerLost, At, CallsMatch, Calling
  <2> QED
    BY <1>2, <2>1 DEF ChargeAccepted, ChargeAnswerLost, Take
<1>3. CASE Store(r) \/ StoreFails(r) \/ SetKey(r) \/ SetKeyFails(r) \/ Announce(r)
           \/ AnnounceFails(r)
  BY <1>3 DEF Store, StoreFails, SetKey, SetKeyFails, Announce, AnnounceFails
<1>4. CASE Respond(r) \/ RespondUncached(r) \/ RespondLate(r)
  BY <1>4 DEF Respond, RespondUncached, RespondLate
<1>5. ASSUME NEW p \in Provider \cup {Unconfigured}, Begin(r, p) \/ BeginUnchecked(r, p)
      PROVE  /\ UNCHANGED <<answers, keys, stored, taken, events, cacheLost>>
             /\ faults' \in 0..MaxFaults
  BY <1>5 DEF Begin, BeginUnchecked
<1> QED
  BY <1>1, <1>2, <1>3, <1>4, <1>5 DEF Proceed

LEMMA CreationTypeStep ==
    ASSUME CreationTypeOK, BreakerTypeOK', CallsMatch, OrdersRecalled,
           [CreationNext]_creationVars
    PROVE  CreationTypeOK'
<1>1. ASSUME NEW r \in Request, Arrive(r)
      PROVE  CreationTypeOK'
  <2>1. PICK o \in Order, h \in BOOLEAN, step \in Step : Received(r, o, h, step)
    BY <1>1 DEF Arrive, Replay, CallHandler, CallHandlerUnchecked, Step
  <2>2. request' \in [Request -> Job]
    BY <2>1, ReceivedMoves DEF CreationTypeOK
  <2>3. /\ UNCHANGED <<answers, keys, stored, taken, events, cacheLost>>
        /\ faults' \in 0..MaxFaults
    BY <1>1, FaultCounts
    DEF Arrive, Replay, CallHandler, CallHandlerUnchecked, CreationTypeOK
  <2> QED
    BY <2>2, <2>3 DEF CreationTypeOK
<1>2. ASSUME NEW r \in Request, Proceed(r)
      PROVE  CreationTypeOK'
  <2>1. PICK step \in Step : Moves(r, step)
    BY <1>2, ProceedMoves
  <2>2. request[r].step # "new"
    BY <1>2
    DEF Proceed, ReturnExisting, Begin, BeginUnchecked, Charge, ChargeNotTried,
        ChargeAccepted, ChargeRefusedByNpci, ChargeError, ChargePanics,
        ChargeAnswerLost, Decline, Store, StoreFails, SetKey, SetKeyFails, Announce,
        AnnounceFails, Respond, RespondUncached, RespondLate, At
  <2>3. request[r].order \in Order
    BY <2>2 DEF OrdersRecalled, Recalled
  <2> QED
    BY <1>2, <2>1, <2>3, ProceedTyped DEF CreationTypeOK, Moves
<1>3. CASE TimePasses
  BY <1>3 DEF TimePasses, CreationTypeOK
<1>4. ASSUME NEW o \in Order, LoseKey(o) \/ LoseAnswer(o)
      PROVE  CreationTypeOK'
  BY <1>4, FaultCounts DEF LoseKey, LoseAnswer, CreationTypeOK
<1>5. CASE LoseCache
  BY <1>5, FaultCounts DEF LoseCache, CreationTypeOK
<1>6. CASE Crash
  <2>1. \A r \in Request : [request[r] EXCEPT !.step = "failed"] \in Job
    BY DEF CreationTypeOK, Job, Step
  <2>2. request' \in [Request -> Job]
    BY <1>6, <2>1 DEF Crash, CreationTypeOK
  <2> QED
    BY <1>6, <2>2, FaultCounts DEF Crash, CreationTypeOK
<1>7. CASE UNCHANGED creationVars
  BY <1>7 DEF creationVars, CreationTypeOK
<1> QED
  BY <1>1, <1>2, <1>3, <1>4, <1>5, <1>6, <1>7 DEF CreationNext

---------------------------------------------------------------------------
(* Requests and their calls *)

LEMMA CallsMatchStep ==
    ASSUME CreationTypeOK, CallsMatch, [CreationNext]_creationVars
    PROVE  CallsMatch'
<1> USE DEF At
<1>1. /\ request \in [Request -> Job]
      /\ call \in [Request -> Provider \cup {NoCall}]
  BY DEF CreationTypeOK, BreakerTypeOK, Request
<1>2. ASSUME NEW r \in Request, NEW step \in Step, Moves(r, step), call' = call,
             request[r].step # "wait", step # "wait"
      PROVE  CallsMatch'
  BY <1>2 DEF CallsMatch, Calling, Moves
<1>3. ASSUME NEW r \in Request, NEW step \in Step, Moves(r, step), step # "wait",
             call' = [call EXCEPT ![r] = NoCall]
      PROVE  CallsMatch'
  BY <1>1, <1>3 DEF CallsMatch, Calling, Moves
<1>4. ASSUME NEW r \in Request, Arrive(r)
      PROVE  CallsMatch'
  <2>1. PICK o \in Order, h \in BOOLEAN, step \in {"replayed", "lookup"} :
            Received(r, o, h, step)
    BY <1>4 DEF Arrive, Replay, CallHandler, CallHandlerUnchecked
  <2>2. call' = call /\ request[r].step = "new"
    BY <1>4 DEF Arrive, Replay, CallHandler, CallHandlerUnchecked
  <2>3. request'[r].step # "wait" /\ \A q \in Request : q # r => request'[q] = request[q]
    BY <1>1, <2>1, ReceivedMoves DEF Step
  <2> QED
    BY <2>2, <2>3 DEF CallsMatch, Calling
<1>5. ASSUME NEW r \in Request, Proceed(r)
      PROVE  CallsMatch'
  <2>1. CASE Charge(r)
    <3>1. /\ request' = [request EXCEPT ![r].step = "wait"]
          /\ call' = [call EXCEPT ![r] = request[r].provider]
          /\ request[r].provider \in Provider
      BY <2>1 DEF Charge, GoTo, Enter
    <3>2. /\ request'[r].step = "wait" /\ request'[r].provider = request[r].provider
          /\ \A q \in Request : q # r => request'[q] = request[q]
      BY <1>1, <3>1 DEF Job
    <3> QED
      BY <1>1, <3>1, <3>2 DEF CallsMatch, Calling
  <2>2. CASE ChargeAccepted(r) \/ ChargeRefusedByNpci(r) \/ ChargePanics(r)
    <3>1. call' = [call EXCEPT ![r] = NoCall]
      BY <2>2 DEF ChargeAccepted, ChargeRefusedByNpci, ChargePanics, Succeed, Return, Panic
    <3>2. Moves(r, "store") \/ Moves(r, "failed")
      BY <1>1, <2>2, GoToMoves DEF ChargeAccepted, ChargeRefusedByNpci, ChargePanics, Step
    <3> QED
      BY <1>3, <3>1, <3>2 DEF Step
  <2>3. CASE ChargeError(r) \/ ChargeAnswerLost(r)
    <3>1. call' = [call EXCEPT ![r] = NoCall]
      BY <2>3 DEF ChargeError, ChargeAnswerLost, Fail, Return
    <3>2. Moves(r, "try") \/ Moves(r, "decline")
      BY <1>1, <2>3, NextProviderMoves DEF ChargeError, ChargeAnswerLost
    <3> QED
      BY <1>3, <3>1, <3>2 DEF Step
  <2>4. CASE ChargeNotTried(r)
    <3>1. call' = call /\ request[r].step = "try"
      BY <2>4 DEF ChargeNotTried
    <3>2. Moves(r, "try") \/ Moves(r, "decline")
      BY <1>1, <2>4, NextProviderMoves DEF ChargeNotTried
    <3> QED
      BY <1>2, <3>1, <3>2 DEF Step
  <2>5. ASSUME NEW p \in Provider \cup {Unconfigured}, Begin(r, p) \/ BeginUnchecked(r, p)
        PROVE  CallsMatch'
    <3>1. call' = call /\ request[r].step = "lookup" /\ Moves(r, "try")
      BY <1>1, <2>5, RouteMoves DEF Begin, BeginUnchecked
    <3> QED
      BY <1>2, <3>1 DEF Step
  <2>6. CASE ReturnExisting(r) \/ Decline(r) \/ Store(r) \/ StoreFails(r) \/ SetKey(r)
             \/ SetKeyFails(r) \/ Announce(r) \/ AnnounceFails(r)
    <3>1. call' = call /\ request[r].step # "wait"
      BY <2>6 DEF ReturnExisting, Decline, Store, StoreFails, SetKey, SetKeyFails,
                  Announce, AnnounceFails
    <3>2. \E step \in {"respond", "declined", "setKey", "failed", "announce"} :
              Moves(r, step)
      BY <1>1, <2>6, GoToMoves
      DEF ReturnExisting, Decline, Store, StoreFails, SetKey, SetKeyFails, Announce,
          AnnounceFails, Step
    <3> QED
      BY <1>2, <3>1, <3>2 DEF Step
  <2>7. CASE Respond(r) \/ RespondUncached(r) \/ RespondLate(r)
    <3>1. call' = call /\ request[r].step # "wait"
      BY <2>7 DEF Respond, RespondUncached, RespondLate
    <3>2. Moves(r, "answered") \/ Moves(r, "late")
      BY <1>1, <2>7, GoToMoves DEF Respond, RespondUncached, RespondLate, Step
    <3> QED
      BY <1>2, <3>1, <3>2 DEF Step
  <2> QED
    BY <1>5, <2>1, <2>2, <2>3, <2>4, <2>5, <2>6, <2>7 DEF Proceed
<1>6. CASE UNCHANGED <<request, call>>
  BY <1>6 DEF CallsMatch, Calling
<1>7. CASE Crash
  <2>1. \A r \in Request : call'[r] = NoCall
    BY <1>7 DEF Crash
  <2>2. \A r \in Request : request'[r].step # "wait"
    <3> SUFFICES ASSUME NEW r \in Request
                 PROVE  request'[r].step # "wait"
      OBVIOUS
    <3>1. request[r] \in Job /\ [request[r] EXCEPT !.step = "failed"].step = "failed"
      BY <1>1 DEF Job
    <3>2. request'[r] = IF InFlight(r) THEN [request[r] EXCEPT !.step = "failed"]
                                       ELSE request[r]
      BY <1>7 DEF Crash
    <3> QED
      BY <3>1, <3>2 DEF InFlight, Answer
  <2> QED
    BY <2>1, <2>2 DEF CallsMatch, Calling
<1> QED
  BY <1>4, <1>5, <1>6, <1>7
  DEF CreationNext, TimePasses, CoolDown, LoseKey, LoseAnswer, LoseCache, creationVars

---------------------------------------------------------------------------
(* Money *)

LEMMA PaidIsCounted ==
    ASSUME CreationTypeOK, MoneyCounted, NEW r \in Request
    PROVE  /\ IsFiniteSet(Paid(r)) /\ Cardinality(Paid(r)) \in Nat
           /\ Cardinality(Paid(r)) = 0 <=> Paid(r) = {}
           /\ faults \in Nat
<1>1. IsFiniteSet(Paid(r))
  BY DEF MoneyCounted, Counted
<1> QED
  BY <1>1, FS_CardinalityType, FS_EmptySet, CreationFaultsAssumption DEF CreationTypeOK

\* Requests that a step does not concern.
LEMMA StaysCounted ==
    ASSUME CreationTypeOK, CreationTypeOK', MoneyCounted, NEW q \in Request,
           request'[q] = request[q], Paid(q)' = Paid(q),
           stored \subseteq stored', faults' = faults \/ faults' = faults + 1
    PROVE  Counted(q)'
<1>1. /\ Cardinality(Paid(q)) \in Nat /\ faults \in Nat /\ faults' \in Nat
  BY PaidIsCounted, CreationFaultsAssumption DEF CreationTypeOK
<1>2. Counted(q)
  BY DEF MoneyCounted
<1> QED
  BY <1>1, <1>2 DEF Counted

\* A step of r that takes no money.
LEMMA FreeStep ==
    ASSUME CreationTypeOK, CreationTypeOK', MoneyCounted, NEW r \in Request,
           NEW step \in Step, request'[r].step = step,
           \A q \in Request : q # r => request'[q] = request[q],
           taken' = taken,
           stored \subseteq stored', faults' = faults \/ faults' = faults + 1,
           step \in Unpaid => request[r].step \in Unpaid,
           step \in {"setKey", "announce"} => r \in stored',
           step \in {"respond", "answered", "late", "failed"} =>
               \/ request[r].step \in Unpaid
               \/ request[r].step \in {"announce", "respond", "answered", "late", "failed"}
               \/ faults' = faults + 1
    PROVE  MoneyCounted'
<1>1. \A q \in Request : Paid(q)' = Paid(q)
  BY DEF Paid
<1>2. ASSUME NEW q \in Request, q # r
      PROVE  Counted(q)'
  BY <1>1, <1>2, StaysCounted
<1>3. /\ Cardinality(Paid(r)) \in Nat /\ faults \in Nat /\ faults' \in Nat
      /\ Cardinality(Paid(r)) = 0 <=> Paid(r) = {}
  BY PaidIsCounted, CreationFaultsAssumption DEF CreationTypeOK
<1>4. Counted(r)
  BY DEF MoneyCounted
<1>5. step \in {"respond", "answered", "late", "failed"} =>
          Paid(r) = {} \/ r \in stored' \/ faults' > 0
  BY <1>3, <1>4 DEF Counted
<1>6. Counted(r)'
  BY <1>1, <1>3, <1>4, <1>5 DEF Counted
<1> QED
  BY <1>2, <1>6 DEF MoneyCounted

\* A step of r that takes money: the charge is accepted or its answer lost.
LEMMA PaidStep ==
    ASSUME CreationTypeOK, CreationTypeOK', MoneyCounted, NEW r \in Request,
           NEW step \in Step, Moves(r, step), request[r].step = "wait", Take(r),
           stored' = stored, faults' = faults \/ faults' = faults + 1,
           step = "store" \/ (step \in {"try", "decline"} /\ faults' = faults + 1)
    PROVE  MoneyCounted'
<1> DEFINE p == request[r].provider
<1>1. ASSUME NEW q \in Request, q # r
      PROVE  Counted(q)'
  <2>1. Paid(q)' = Paid(q)
    BY <1>1 DEF Paid, Take
  <2> QED
    BY <1>1, <2>1, StaysCounted DEF Moves
<1>2. /\ Cardinality(Paid(r)) \in Nat /\ IsFiniteSet(Paid(r))
      /\ faults \in Nat /\ faults' \in Nat
  BY PaidIsCounted, CreationFaultsAssumption DEF CreationTypeOK
<1>3. Counted(r) /\ request'[r].step = step
  BY DEF MoneyCounted, Moves
<1>4. Cardinality(Paid(r)) <= faults
  BY <1>3 DEF Counted, Unpaid
<1>5. Paid(r)' = Paid(r) \cup {p} \/ Paid(r)' = Paid(r)
  BY DEF Paid, Take
<1>6. /\ IsFiniteSet(Paid(r) \cup {p})
      /\ Cardinality(Paid(r) \cup {p}) \in Nat
      /\ Cardinality(Paid(r) \cup {p}) <= Cardinality(Paid(r)) + 1
  <2>1. Cardinality(Paid(r) \cup {p}) =
            IF p \in Paid(r) THEN Cardinality(Paid(r)) ELSE Cardinality(Paid(r)) + 1
    BY <1>2, FS_AddElement
  <2>2. IsFiniteSet(Paid(r) \cup {p})
    BY <1>2, FS_AddElement
  <2> QED
    BY <1>2, <2>1, <2>2
<1>7. /\ IsFiniteSet(Paid(r)') /\ Cardinality(Paid(r)') \in Nat
      /\ Cardinality(Paid(r)') <= faults + 1
  <2>1. CASE Paid(r)' = Paid(r)
    BY <1>2, <1>4, <2>1
  <2>2. CASE Paid(r)' = Paid(r) \cup {p}
    BY <1>2, <1>4, <1>6, <2>2
  <2> QED
    BY <1>5, <2>1, <2>2
<1>8. /\ Cardinality(Paid(r)') <= 1 + faults'
      /\ step # "store" => Cardinality(Paid(r)') <= faults'
  BY <1>2, <1>7
<1>9. Counted(r)'
  BY <1>3, <1>7, <1>8 DEF Counted, Unpaid
<1> QED
  BY <1>1, <1>9 DEF MoneyCounted

LEMMA MoneyInit == CreationInit => MoneyCounted
<1> SUFFICES ASSUME CreationInit, NEW r \in Request
             PROVE  Counted(r)
  BY DEF MoneyCounted
<1>1. Paid(r) = {} /\ request[r].step = "new" /\ faults = 0
  BY DEF CreationInit, Paid
<1> QED
  BY <1>1, FS_EmptySet DEF Counted

LEMMA MoneyStep ==
    ASSUME CreationTypeOK, CreationTypeOK', CallsMatch, MoneyCounted,
           [CreationNext]_creationVars
    PROVE  MoneyCounted'
<1> USE DEF At
<1>1. request \in [Request -> Job]
  BY DEF CreationTypeOK
<1>2. ASSUME NEW r \in Request, Arrive(r)
      PROVE  MoneyCounted'
  <2>1. PICK o \in Order, h \in BOOLEAN, step \in {"replayed", "lookup"} :
            Received(r, o, h, step)
    BY <1>2 DEF Arrive, Replay, CallHandler, CallHandlerUnchecked
  <2>2. /\ UNCHANGED <<taken, stored>> /\ request[r].step = "new"
        /\ faults' = faults \/ faults' = faults + 1
    BY <1>2, FaultCounts DEF Arrive, Replay, CallHandler, CallHandlerUnchecked
  <2>3. /\ step \in Step /\ step \in Unpaid
        /\ step \notin {"setKey", "announce", "respond", "answered", "late", "failed"}
    BY DEF Step, Unpaid
  <2>4. /\ request'[r].step = step
        /\ \A q \in Request : q # r => request'[q] = request[q]
    BY <1>1, <2>1, <2>3, ReceivedMoves
  <2> QED
    BY <2>2, <2>3, <2>4, FreeStep DEF Unpaid
<1>3. ASSUME NEW r \in Request, Proceed(r)
      PROVE  MoneyCounted'
  <2>0. ASSUME NEW step \in Step, Moves(r, step), UNCHANGED <<taken, stored>>,
               faults' = faults \/ faults' = faults + 1,
               request[r].step \in {"lookup", "try", "wait", "decline"},
               step \in {"respond", "try", "wait", "decline", "declined", "store", "failed"}
        PROVE  MoneyCounted'
    BY <2>0, FreeStep DEF Moves, Unpaid
  <2>1. CASE ReturnExisting(r) \/ Decline(r) \/ Charge(r)
    <3>1. Moves(r, "respond") \/ Moves(r, "declined") \/ Moves(r, "wait")
      BY <1>1, <2>1, GoToMoves DEF ReturnExisting, Decline, Charge, Step
    <3>2. /\ UNCHANGED <<taken, stored, faults>>
          /\ request[r].step \in {"lookup", "try", "decline"}
      BY <2>1 DEF ReturnExisting, Decline, Charge
    <3> QED
      BY <2>0, <3>1, <3>2 DEF Step
  <2>2. ASSUME NEW p \in Provider \cup {Unconfigured}, Begin(r, p) \/ BeginUnchecked(r, p)
        PROVE  MoneyCounted'
    <3>1. Moves(r, "try") /\ UNCHANGED <<taken, stored>> /\ request[r].step = "lookup"
      BY <1>1, <2>2, RouteMoves DEF Begin, BeginUnchecked
    <3>2. faults' = faults \/ faults' = faults + 1
      BY <2>2, FaultCounts DEF Begin, BeginUnchecked
    <3> QED
      BY <2>0, <3>1, <3>2 DEF Step
  <2>3. CASE ChargeRefusedByNpci(r) \/ ChargePanics(r)
    <3>1. Moves(r, "store") \/ Moves(r, "failed")
      BY <1>1, <2>3, GoToMoves DEF ChargeRefusedByNpci, ChargePanics, Step
    <3>2. UNCHANGED <<taken, stored, faults>> /\ request[r].step = "wait"
      BY <2>3 DEF ChargeRefusedByNpci, ChargePanics
    <3> QED
      BY <2>0, <3>1, <3>2 DEF Step
  <2>4. CASE ChargeError(r) \/ ChargeNotTried(r)
    <3>1. Moves(r, "try") \/ Moves(r, "decline")
      BY <1>1, <2>4, NextProviderMoves DEF ChargeError, ChargeNotTried
    <3>2. UNCHANGED <<taken, stored, faults>> /\ request[r].step \in {"try", "wait"}
      BY <2>4 DEF ChargeError, ChargeNotTried
    <3> QED
      BY <2>0, <3>1, <3>2 DEF Step
  <2>5. CASE ChargeAccepted(r)
    <3>1. Moves(r, "store")
      BY <1>1, <2>5, GoToMoves DEF ChargeAccepted, Step
    <3>2. Take(r) /\ UNCHANGED <<stored, faults>> /\ request[r].step = "wait"
      BY <2>5 DEF ChargeAccepted
    <3> QED
      BY <3>1, <3>2, PaidStep DEF Step
  <2>6. CASE ChargeAnswerLost(r)
    <3>1. Moves(r, "try") \/ Moves(r, "decline")
      BY <1>1, <2>6, NextProviderMoves DEF ChargeAnswerLost
    <3>2. /\ Take(r) /\ stored' = stored /\ request[r].step = "wait"
          /\ faults' = faults + 1
      BY <2>6, FaultCounts DEF ChargeAnswerLost
    <3> QED
      BY <3>1, <3>2, PaidStep DEF Step
  <2>7. CASE Store(r) \/ StoreFails(r)
    <3>1. \/ Moves(r, "setKey") /\ r \in stored' /\ faults' = faults
          \/ Moves(r, "failed") /\ faults' = faults + 1
      BY <1>1, <2>7, GoToMoves, FaultCounts DEF Store, StoreFails, Step
    <3>2. taken' = taken /\ stored \subseteq stored' /\ request[r].step = "store"
      BY <2>7 DEF Store, StoreFails
    <3> QED
      BY <3>1, <3>2, FreeStep DEF Moves, Step, Unpaid
  <2>8. CASE SetKey(r) \/ SetKeyFails(r) \/ Announce(r) \/ AnnounceFails(r)
    <3>1. \/ Moves(r, "announce") /\ request[r].step = "setKey"
          \/ Moves(r, "respond") /\ request[r].step = "announce"
      BY <1>1, <2>8, GoToMoves DEF SetKey, SetKeyFails, Announce, AnnounceFails, Step
    <3>2. /\ UNCHANGED <<taken, stored>>
          /\ faults' = faults \/ faults' = faults + 1
      BY <2>8, FaultCounts DEF SetKey, SetKeyFails, Announce, AnnounceFails
    <3>3. request[r].step = "setKey" => r \in stored
      BY DEF MoneyCounted, Counted
    <3> QED
      BY <3>1, <3>2, <3>3, FreeStep DEF Moves, Step, Unpaid
  <2>9. CASE Respond(r) \/ RespondUncached(r) \/ RespondLate(r)
    <3>1. (Moves(r, "answered") \/ Moves(r, "late")) /\ request[r].step = "respond"
      BY <1>1, <2>9, GoToMoves DEF Respond, RespondUncached, RespondLate, Step
    <3>2. /\ UNCHANGED <<taken, stored>>
          /\ faults' = faults \/ faults' = faults + 1
      BY <2>9, FaultCounts DEF Respond, RespondUncached, RespondLate
    <3> QED
      BY <3>1, <3>2, FreeStep DEF Moves, Step, Unpaid
  <2> QED
    BY <1>3, <2>1, <2>2, <2>3, <2>4, <2>5, <2>6, <2>7, <2>8, <2>9 DEF Proceed
<1>4. ASSUME UNCHANGED <<request, taken, stored>>,
             faults' = faults \/ faults' = faults + 1
      PROVE  MoneyCounted'
  <2>1. \A q \in Request : Paid(q)' = Paid(q)
    BY <1>4 DEF Paid
  <2> QED
    BY <1>4, <2>1, StaysCounted DEF MoneyCounted
<1>5. CASE TimePasses \/ (\E o \in Order : LoseKey(o) \/ LoseAnswer(o)) \/ LoseCache
  BY <1>4, <1>5, FaultCounts DEF TimePasses, LoseKey, LoseAnswer, LoseCache
<1>6. CASE Crash
  <2>1. /\ UNCHANGED <<taken, stored>> /\ faults' = faults + 1 /\ faults' > 0
        /\ faults \in Nat /\ faults' \in Nat
    BY <1>6, FaultCounts, CreationFaultsAssumption DEF Crash, CreationTypeOK
  <2>2. ASSUME NEW q \in Request
        PROVE  Counted(q)'
    <3>1. Paid(q)' = Paid(q)
      BY <2>1 DEF Paid
    <3>2. CASE request'[q] = request[q]
      BY <2>1, <3>1, <3>2, StaysCounted
    <3>3. CASE request'[q].step = "failed"
      BY <2>1, <3>1, <3>3, PaidIsCounted DEF MoneyCounted, Counted, Unpaid
    <3>4. request[q] \in Job /\ [request[q] EXCEPT !.step = "failed"].step = "failed"
      BY <1>1 DEF Job
    <3> QED
      BY <1>6, <3>2, <3>3, <3>4 DEF Crash
  <2> QED
    BY <2>2 DEF MoneyCounted
<1>7. CASE UNCHANGED creationVars
  BY <1>4, <1>7 DEF creationVars
<1> QED
  BY <1>2, <1>3, <1>5, <1>6, <1>7 DEF CreationNext

\* What the counting says of the money.
LEMMA CountedIsRecorded ==
    ASSUME CreationTypeOK, MoneyCounted
    PROVE  MoneyIsRecorded
<1> SUFFICES ASSUME NEW r \in Request
             PROVE  /\ Cardinality(Paid(r)) <= 1 + faults
                    /\ Paid(r) # {} => r \in stored \/ InFlight(r) \/ faults > 0
  BY DEF MoneyIsRecorded, Paid
<1>1. /\ Cardinality(Paid(r)) \in Nat /\ faults \in Nat
      /\ Cardinality(Paid(r)) = 0 <=> Paid(r) = {}
  BY PaidIsCounted
<1>2. Counted(r) /\ request[r].step \in Step
  BY DEF MoneyCounted, CreationTypeOK, Job
<1>3. CASE InFlight(r)
  BY <1>2, <1>3 DEF Counted
<1>4. CASE request[r].step \in Unpaid
  BY <1>1, <1>2, <1>4 DEF Counted
<1>5. CASE request[r].step \in {"answered", "late", "failed"}
  BY <1>2, <1>5 DEF Counted
<1> QED
  BY <1>2, <1>3, <1>4, <1>5 DEF InFlight, Answer, Unpaid, Step

---------------------------------------------------------------------------
(* What the caches and the rows remember *)

LEMMA MemoryTyped ==
    /\ \A o \in Order : Forgotten(o) \in {0, 1} /\ Uncached(o) \in {0, 1}
    /\ \A o \in Order : Remembered(o) => Forgotten(o) = 0
    /\ \A o \in Order : o \in answers => Uncached(o) = 0
    /\ \A o \in Order : o \notin answers => Uncached(o) = 1
BY DEF Forgotten, Uncached

\* Nothing is forgotten by a step that only adds to what is kept.
LEMMA MemoryGrows ==
    ASSUME keys \subseteq keys', answers \subseteq answers', stored \subseteq stored',
           \A q \in stored : request'[q].order = request[q].order,
           NEW o \in Order
    PROVE  Forgotten(o)' <= Forgotten(o) /\ Uncached(o)' <= Uncached(o)
<1>1. Remembered(o) => Remembered(o)'
  BY DEF Remembered, HasRow
<1> QED
  BY <1>1 DEF Forgotten, Uncached

\* Requests that a step does not concern; what it loses is paid for by a fault.
LEMMA StaysRecalled ==
    ASSUME CreationTypeOK, OrdersRecalled, NEW q \in Request,
           request'[q] = request[q], q \in stored' => q \in stored,
           faults' = faults \/ faults' = faults + 1,
           cacheLost => cacheLost',
           \A o \in Order : Forgotten(o)' <= Forgotten(o) + (faults' - faults),
           \A o \in Order :
               \/ cacheLost'
               \/ Forgotten(o)' + Uncached(o)' <=
                      Forgotten(o) + Uncached(o) + (faults' - faults)
    PROVE  Recalled(q)'
<1>0. PICK o : o = request[q].order
  OBVIOUS
<1>1. faults \in Nat /\ faults' \in Nat
  BY CreationFaultsAssumption DEF CreationTypeOK
<1>2. Recalled(q)
  BY DEF OrdersRecalled
<1>3. CASE request[q].step = "new"
  BY <1>2, <1>3 DEF Recalled
<1>4. CASE request[q].step # "new"
  <2>1. o \in Order
    BY <1>0, <1>2, <1>4 DEF Recalled
  <2>2. /\ Forgotten(o) \in {0, 1} /\ Uncached(o) \in {0, 1}
        /\ Forgotten(o)' \in {0, 1} /\ Uncached(o)' \in {0, 1}
    BY DEF Forgotten, Uncached
  <2>3. /\ Forgotten(o)' <= Forgotten(o) + (faults' - faults)
        /\ \/ cacheLost'
           \/ Forgotten(o)' + Uncached(o)' <=
                  Forgotten(o) + Uncached(o) + (faults' - faults)
    BY <2>1
  <2>4. /\ request[q].step \in {"announce", "respond", "answered", "late"} =>
               faults >= Forgotten(o)
        /\ request[q].step = "answered" /\ request[q].header =>
               cacheLost \/ faults >= Forgotten(o) + Uncached(o)
        /\ request[q].step = "lookup" /\ request[q].repeat =>
               cacheLost \/ faults >= Forgotten(o) + 1
    BY <1>0, <1>2 DEF Recalled
  <2>5. /\ faults >= Forgotten(o) => faults' >= Forgotten(o)'
        /\ cacheLost \/ faults >= Forgotten(o) + Uncached(o) =>
               cacheLost' \/ faults' >= Forgotten(o)' + Uncached(o)'
        /\ cacheLost \/ faults >= Forgotten(o) + 1 =>
               cacheLost' \/ faults' >= Forgotten(o)' + 1
    BY <1>1, <2>2, <2>3
  <2> QED
    BY <1>0, <1>2, <1>4, <2>1, <2>4, <2>5 DEF Recalled
<1> QED
  BY <1>3, <1>4

\* A step of r: the others recall what they did.
LEMMA OneRecalls ==
    ASSUME CreationTypeOK, OrdersRecalled, NEW r \in Request,
           \A q \in Request : q # r => request'[q] = request[q],
           keys \subseteq keys', answers \subseteq answers',
           stored \subseteq stored', stored' \subseteq stored \cup {r},
           r \in stored => request'[r].order = request[r].order,
           faults' = faults \/ faults' = faults + 1, cacheLost' = cacheLost,
           Recalled(r)'
    PROVE  OrdersRecalled'
<1>1. \A o \in Order : Forgotten(o)' <= Forgotten(o) /\ Uncached(o)' <= Uncached(o)
  <2>1. \A q \in stored : request'[q].order = request[q].order
    BY DEF CreationTypeOK
  <2> QED
    BY <2>1, MemoryGrows
<1>2. /\ \A o \in Order : Forgotten(o)' <= Forgotten(o) + (faults' - faults)
      /\ \A o \in Order : Forgotten(o)' + Uncached(o)' <=
                              Forgotten(o) + Uncached(o) + (faults' - faults)
  <2> SUFFICES ASSUME NEW o \in Order
               PROVE  /\ Forgotten(o)' <= Forgotten(o) + (faults' - faults)
                      /\ Forgotten(o)' + Uncached(o)' <=
                             Forgotten(o) + Uncached(o) + (faults' - faults)
    OBVIOUS
  <2>1. /\ Forgotten(o) \in Nat /\ Uncached(o) \in Nat
        /\ Forgotten(o)' \in Nat /\ Uncached(o)' \in Nat
    BY DEF Forgotten, Uncached
  <2>2. faults' - faults \in {0, 1}
    BY CreationFaultsAssumption DEF CreationTypeOK
  <2> QED
    BY <1>1, <2>1, <2>2
<1>3. ASSUME NEW q \in Request, q # r
      PROVE  Recalled(q)'
  BY <1>2, <1>3, StaysRecalled
<1> QED
  BY <1>3 DEF OrdersRecalled

\* A step of r to where it need not recall anything.
LEMMA QuietStep ==
    ASSUME CreationTypeOK, OrdersRecalled, NEW r \in Request,
           NEW step, Moves(r, step), request[r].step # "new",
           step \notin {"new", "lookup", "announce", "respond", "answered", "late"},
           UNCHANGED <<keys, answers, cacheLost>>,
           stored \subseteq stored', stored' \subseteq stored \cup {r},
           faults' = faults \/ faults' = faults + 1
    PROVE  OrdersRecalled'
<1>1. Recalled(r)'
  BY DEF OrdersRecalled, Recalled, Moves
<1> QED
  BY <1>1, OneRecalls DEF Moves

LEMMA RecallInit == CreationInit => OrdersRecalled
BY DEF CreationInit, OrdersRecalled, Recalled

\* A request that comes in under the header of an answered one is replayed,
\* unless the cached answer is gone or the cache fails.
LEMMA RecallArrive ==
    ASSUME CreationTypeOK, OrdersRecalled, NEW r \in Request, Arrive(r)
    PROVE  OrdersRecalled'
<1> USE DEF At
<1>1. request \in [Request -> Job] /\ faults \in Nat
  BY CreationFaultsAssumption DEF CreationTypeOK
<1>2. PICK o \in Order :
          \/ Replay(r, o)
          \/ \E h \in BOOLEAN : CallHandler(r, o, h)
          \/ CallHandlerUnchecked(r, o)
  BY DEF Arrive
<1>3. /\ UNCHANGED <<keys, answers, stored, cacheLost>> /\ request[r].step = "new"
      /\ faults' = faults \/ faults' = faults + 1
  BY <1>2, FaultCounts DEF Replay, CallHandler, CallHandlerUnchecked
<1>4. r \notin stored
  BY <1>3 DEF OrdersRecalled, Recalled
<1>5. ASSUME NEW h \in BOOLEAN, NEW step \in {"replayed", "lookup"},
             Received(r, o, h, step),
             step = "lookup" /\ h => Uncached(o) = 1 \/ faults' = faults + 1
      PROVE  OrdersRecalled'
  <2>1. /\ request'[r].step = step /\ request'[r].order = o
        /\ request'[r].repeat => h /\ \E q \in Request : /\ request[q].step = "answered"
                                                         /\ request[q].header
                                                         /\ request[q].order = o
        /\ \A q \in Request : q # r => request'[q] = request[q]
    BY <1>1, <1>5, ReceivedMoves DEF Step
  <2>2. ASSUME step = "lookup", request'[r].repeat
        PROVE  cacheLost' \/ faults' >= Forgotten(o)' + 1
    <3>1. cacheLost \/ faults >= Forgotten(o) + Uncached(o)
      BY <2>1, <2>2 DEF OrdersRecalled, Recalled
    <3>2. Forgotten(o) \in {0, 1} /\ Uncached(o) \in {0, 1} /\ Forgotten(o)' \in {0, 1}
      BY DEF Forgotten, Uncached
    <3>3. Forgotten(o)' <= Forgotten(o)
      BY <1>3, <1>4, <2>1, MemoryGrows DEF CreationTypeOK
    <3>4. Uncached(o) = 1 \/ faults' = faults + 1
      BY <1>5, <2>1, <2>2
    <3> QED
      BY <1>1, <1>3, <3>1, <3>2, <3>3, <3>4
  <2>3. Recalled(r)'
    BY <1>3, <1>4, <1>5, <2>1, <2>2 DEF Recalled
  <2> QED
    BY <1>3, <1>4, <2>1, <2>3, OneRecalls
<1>6. CASE Replay(r, o)
  BY <1>5, <1>6 DEF Replay
<1>7. ASSUME NEW h \in BOOLEAN, CallHandler(r, o, h)
      PROVE  OrdersRecalled'
  <2>1. h => Uncached(o) = 1
    BY <1>7 DEF CallHandler, Uncached
  <2> QED
    BY <1>5, <1>7, <2>1 DEF CallHandler
<1>8. CASE CallHandlerUnchecked(r, o)
  BY <1>5, <1>8, FaultCounts DEF CallHandlerUnchecked
<1> QED
  BY <1>2, <1>6, <1>7, <1>8

LEMMA RecallProceed ==
    ASSUME CreationTypeOK, MoneyCounted, OrdersRecalled, NEW r \in Request, Proceed(r)
    PROVE  OrdersRecalled'
<1> PICK o : o = request[r].order
  OBVIOUS
<1> USE DEF At
<1>1. request \in [Request -> Job] /\ faults \in Nat
  BY CreationFaultsAssumption DEF CreationTypeOK
<1>2. Recalled(r) /\ Forgotten(o) \in {0, 1} /\ Uncached(o) \in {0, 1}
      /\ Forgotten(o)' \in {0, 1} /\ Uncached(o)' \in {0, 1}
  BY DEF OrdersRecalled, Forgotten, Uncached
<1>3. CASE ReturnExisting(r)
  <2>1. Moves(r, "respond") /\ request[r].step = "lookup"
        /\ UNCHANGED <<keys, answers, stored, cacheLost, faults>>
    BY <1>1, <1>3, GoToMoves DEF ReturnExisting, Step
  <2>2. o \in Order /\ Remembered(o)
    BY <1>2, <1>3, <2>1 DEF ReturnExisting, Known, Remembered, Recalled
  <2>3. Forgotten(o)' <= Forgotten(o) /\ Forgotten(o) = 0
    BY <2>1, <2>2, MemoryTyped, MemoryGrows DEF Moves, CreationTypeOK
  <2>4. Recalled(r)'
    BY <1>1, <1>2, <2>1, <2>2, <2>3 DEF Recalled, Moves
  <2> QED
    BY <2>1, <2>4, OneRecalls DEF Moves
<1>4. ASSUME NEW p \in Provider \cup {Unconfigured}, Begin(r, p) \/ BeginUnchecked(r, p)
      PROVE  OrdersRecalled'
  <2>1. /\ Moves(r, "try") /\ request[r].step = "lookup"
        /\ UNCHANGED <<keys, answers, stored, cacheLost>>
        /\ faults' = faults \/ faults' = faults + 1
    BY <1>1, <1>4, RouteMoves, FaultCounts DEF Begin, BeginUnchecked
  <2> QED
    BY <2>1, QuietStep
<1>5. CASE Charge(r) \/ ChargeAccepted(r) \/ ChargeRefusedByNpci(r) \/ ChargePanics(r)
           \/ Decline(r) \/ Store(r) \/ StoreFails(r)
  <2>1. \E step \in {"wait", "store", "failed", "declined", "setKey"} : Moves(r, step)
    BY <1>1, <1>5, GoToMoves
    DEF Charge, ChargeAccepted, ChargeRefusedByNpci, ChargePanics, Decline, Store,
        StoreFails, Step
  <2>2. /\ request[r].step # "new" /\ UNCHANGED <<keys, answers, cacheLost>>
        /\ stored' = stored \/ stored' = stored \cup {r}
        /\ faults' = faults \/ faults' = faults + 1
    BY <1>5, FaultCounts
    DEF Charge, ChargeAccepted, ChargeRefusedByNpci, ChargePanics, Decline, Store,
        StoreFails
  <2> QED
    BY <2>1, <2>2, QuietStep
<1>6. CASE ChargeNotTried(r) \/ ChargeError(r) \/ ChargeAnswerLost(r)
  <2>1. Moves(r, "try") \/ Moves(r, "decline")
    BY <1>1, <1>6, NextProviderMoves DEF ChargeNotTried, ChargeError, ChargeAnswerLost
  <2>2. /\ request[r].step # "new" /\ UNCHANGED <<keys, answers, stored, cacheLost>>
        /\ faults' = faults \/ faults' = faults + 1
    BY <1>6, FaultCounts DEF ChargeNotTried, ChargeError, ChargeAnswerLost
  <2> QED
    BY <2>1, <2>2, QuietStep
<1>7. CASE SetKey(r) \/ SetKeyFails(r)
  <2>1. Moves(r, "announce") /\ request[r].step = "setKey"
        /\ UNCHANGED <<answers, stored, cacheLost>>
    BY <1>1, <1>7, GoToMoves DEF SetKey, SetKeyFails, Step
  <2>2. r \in stored /\ o \in Order
    BY <1>2, <2>1 DEF MoneyCounted, Counted, Recalled
  <2>3. \/ keys' = keys \cup {o} /\ faults' = faults
        \/ keys' = keys /\ faults' = faults + 1
    BY <1>7, FaultCounts DEF SetKey, SetKeyFails
  <2>4. faults' >= Forgotten(o)'
    <3>1. CASE keys' = keys \cup {o}
      <4>1. Remembered(o)'
        BY <2>1, <2>2, <3>1 DEF Remembered, HasRow, Moves
      <4>2. Forgotten(o)' = 0
        BY <4>1 DEF Forgotten
      <4> QED
        BY <1>1, <2>3, <4>2
    <3>2. CASE faults' = faults + 1
      BY <1>1, <1>2, <3>2
    <3> QED
      BY <2>3, <3>1, <3>2
  <2>5. Recalled(r)'
    BY <2>1, <2>2, <2>4 DEF Recalled, Moves
  <2> QED
    BY <2>1, <2>3, <2>5, OneRecalls DEF Moves
<1>8. CASE Announce(r) \/ AnnounceFails(r) \/ RespondLate(r)
  <2>1. /\ \/ Moves(r, "respond") /\ request[r].step = "announce"
           \/ Moves(r, "late") /\ request[r].step = "respond"
        /\ UNCHANGED <<keys, answers, stored, cacheLost>>
        /\ faults' = faults \/ faults' = faults + 1
    BY <1>1, <1>8, GoToMoves, FaultCounts DEF Announce, AnnounceFails, RespondLate, Step
  <2>2. o \in Order /\ faults >= Forgotten(o)
    BY <1>2, <2>1 DEF Recalled
  <2>3. Forgotten(o)' <= Forgotten(o)
    BY <2>1, <2>2, MemoryGrows DEF Moves, CreationTypeOK
  <2>4. faults' >= Forgotten(o)'
    BY <1>1, <1>2, <2>1, <2>2, <2>3
  <2>5. Recalled(r)'
    BY <2>1, <2>2, <2>4 DEF Recalled, Moves
  <2> QED
    BY <2>1, <2>5, OneRecalls DEF Moves
<1>9. CASE Respond(r) \/ RespondUncached(r)
  <2>1. Moves(r, "answered") /\ request[r].step = "respond"
        /\ UNCHANGED <<keys, stored, cacheLost>>
    BY <1>1, <1>9, GoToMoves DEF Respond, RespondUncached, Step
  <2>2. \/ answers' = (IF request[r].header THEN answers \cup {o} ELSE answers)
              /\ faults' = faults
        \/ answers' = answers /\ faults' = faults + 1
    BY <1>9, FaultCounts DEF Respond, RespondUncached
  <2>3. o \in Order /\ faults >= Forgotten(o)
    BY <1>2, <2>1 DEF Recalled
  <2>4. answers \subseteq answers'
    BY <2>2
  <2>5. Forgotten(o)' <= Forgotten(o)
    BY <2>1, <2>3, <2>4, MemoryGrows DEF Moves, CreationTypeOK
  <2>6. request[r].header => faults' = faults + 1 \/ Uncached(o)' = 0
    BY <2>2 DEF Uncached
  <2>7. /\ faults' >= Forgotten(o)'
        /\ request[r].header => faults' >= Forgotten(o)' + Uncached(o)'
    BY <1>1, <1>2, <2>2, <2>3, <2>5, <2>6
  <2>8. Recalled(r)'
    BY <2>1, <2>3, <2>7 DEF Recalled, Moves
  <2> QED
    BY <2>1, <2>2, <2>4, <2>8, OneRecalls DEF Moves
<1> QED
  BY <1>3, <1>4, <1>5, <1>6, <1>7, <1>8, <1>9 DEF Proceed

\* One entry of a cache is gone.
LEMMA RecallLoseOne ==
    ASSUME CreationTypeOK, OrdersRecalled, NEW e \in Order, LoseKey(e) \/ LoseAnswer(e)
    PROVE  OrdersRecalled'
<1>1. /\ request' = request /\ stored' = stored /\ cacheLost' = cacheLost
      /\ faults \in Nat /\ faults' = faults + 1
  BY FaultCounts, CreationFaultsAssumption DEF LoseKey, LoseAnswer, CreationTypeOK
<1>2. \A o \in Order : /\ Forgotten(o) \in {0, 1} /\ Uncached(o) \in {0, 1}
                       /\ Forgotten(o)' \in {0, 1} /\ Uncached(o)' \in {0, 1}
  BY DEF Forgotten, Uncached
<1>3. ASSUME NEW o \in Order
      PROVE  \/ Forgotten(o)' = Forgotten(o) \/ Uncached(o)' = Uncached(o)
  BY <1>1 DEF LoseKey, LoseAnswer, Forgotten, Uncached, Remembered, HasRow
<1>4. \A o \in Order : /\ Forgotten(o)' <= Forgotten(o) + (faults' - faults)
                       /\ Forgotten(o)' + Uncached(o)' <=
                              Forgotten(o) + Uncached(o) + (faults' - faults)
  BY <1>1, <1>2, <1>3
<1> QED
  BY <1>1, <1>4, StaysRecalled DEF OrdersRecalled

\* The caches are gone, or the process with what it was doing.
LEMMA RecallLoseAll ==
    ASSUME CreationTypeOK, MoneyCounted, OrdersRecalled, LoseCache \/ Crash
    PROVE  OrdersRecalled'
<1>1. /\ stored' = stored /\ faults \in Nat /\ faults' = faults + 1
      /\ \/ cacheLost'
         \/ UNCHANGED <<answers, keys, cacheLost>>
      /\ cacheLost => cacheLost'
  BY FaultCounts, CreationFaultsAssumption DEF LoseCache, Crash, CreationTypeOK
<1>2. \A q \in Request : /\ request'[q].order = request[q].order
                         /\ request'[q] = request[q] \/ request'[q].step = "failed"
                         /\ request[q].step = "new" => request'[q] = request[q]
  BY DEF LoseCache, Crash, InFlight, CreationTypeOK, Job
<1>3. \A o \in Order : /\ Forgotten(o) \in {0, 1} /\ Uncached(o) \in {0, 1}
                       /\ Forgotten(o)' \in {0, 1} /\ Uncached(o)' \in {0, 1}
  BY DEF Forgotten, Uncached
<1>4. ASSUME NEW o \in Order, UNCHANGED <<answers, keys, cacheLost>>
      PROVE  Forgotten(o)' <= Forgotten(o) /\ Uncached(o)' <= Uncached(o)
  <2>1. \A q \in stored : request'[q].order = request[q].order
    BY <1>2 DEF CreationTypeOK
  <2> QED
    BY <1>1, <1>4, <2>1, MemoryGrows
<1>5. \A o \in Order : /\ Forgotten(o)' <= Forgotten(o) + (faults' - faults)
                       /\ \/ cacheLost'
                          \/ Forgotten(o)' + Uncached(o)' <=
                                 Forgotten(o) + Uncached(o) + (faults' - faults)
  <2> SUFFICES ASSUME NEW o \in Order
               PROVE  /\ Forgotten(o)' <= Forgotten(o) + (faults' - faults)
                      /\ \/ cacheLost'
                         \/ Forgotten(o)' + Uncached(o)' <=
                                Forgotten(o) + Uncached(o) + (faults' - faults)
    OBVIOUS
  <2>1. faults' - faults = 1
    BY <1>1
  <2> QED
    BY <1>1, <1>3, <1>4, <2>1
<1>6. ASSUME NEW q \in Request
      PROVE  Recalled(q)'
  <2>1. CASE request'[q] = request[q]
    BY <1>1, <1>5, <2>1, StaysRecalled
  <2>2. CASE request'[q].step = "failed" /\ request'[q] # request[q]
    BY <1>1, <1>2, <2>2 DEF OrdersRecalled, Recalled
  <2> QED
    BY <1>2, <2>1, <2>2
<1> QED
  BY <1>6 DEF OrdersRecalled

LEMMA RecallStays ==
    ASSUME CreationTypeOK, OrdersRecalled,
           UNCHANGED <<request, answers, keys, stored, cacheLost, faults>>
    PROVE  OrdersRecalled'
<1>1. \A o \in Order : Forgotten(o)' = Forgotten(o) /\ Uncached(o)' = Uncached(o)
  BY DEF Forgotten, Uncached, Remembered, HasRow
<1>2. ASSUME NEW q \in Request
      PROVE  Recalled(q)'
  <2>1. Recalled(q)
    BY DEF OrdersRecalled
  <2>2. PICK o : o = request[q].order
    OBVIOUS
  <2>3. o \in Order => Forgotten(o)' = Forgotten(o) /\ Uncached(o)' = Uncached(o)
    BY <1>1
  <2>4. request[q].step # "new" => o \in Order
    BY <2>1, <2>2 DEF Recalled
  <2> QED
    BY <2>1, <2>2, <2>3, <2>4 DEF Recalled
<1> QED
  BY <1>2 DEF OrdersRecalled

LEMMA RecallStep ==
    ASSUME CreationTypeOK, MoneyCounted, OrdersRecalled, [CreationNext]_creationVars
    PROVE  OrdersRecalled'
<1>1. ASSUME NEW r \in Request, Arrive(r)
      PROVE  OrdersRecalled'
  BY <1>1, RecallArrive
<1>2. ASSUME NEW r \in Request, Proceed(r)
      PROVE  OrdersRecalled'
  BY <1>2, RecallProceed
<1>3. CASE TimePasses
  BY <1>3, RecallStays DEF TimePasses
<1>4. ASSUME NEW o \in Order, LoseKey(o) \/ LoseAnswer(o)
      PROVE  OrdersRecalled'
  BY <1>4, RecallLoseOne
<1>5. CASE LoseCache \/ Crash
  BY <1>5, RecallLoseAll
<1>6. CASE UNCHANGED creationVars
  BY <1>6, RecallStays DEF creationVars
<1> QED
  BY <1>1, <1>2, <1>3, <1>4, <1>5, <1>6 DEF CreationNext

LEMMA CreationInvInit == CreationInit => CreationInv
<1>1. CreationInit => CallsMatch
  BY DEF CreationInit, BreakerInit, CallsMatch, Calling, Request
<1>2. CreationInit => BreakerInv
  BY BreakerInvInit DEF CreationInit
<1> QED
  BY <1>1, <1>2, CreationTypeInit, MoneyInit, RecallInit DEF CreationInv

LEMMA CreationInvStep == CreationInv /\ [CreationNext]_creationVars => CreationInv'
<1> SUFFICES ASSUME CreationInv, [CreationNext]_creationVars
             PROVE  CreationInv'
  OBVIOUS
<1> USE DEF CreationInv
<1>1. BreakerInv'
  BY BreakersStep
<1>2. CreationTypeOK'
  BY <1>1, CreationTypeStep DEF BreakerInv
<1>3. CallsMatch'
  BY CallsMatchStep
<1>4. MoneyCounted'
  BY <1>2, MoneyStep
<1>5. OrdersRecalled'
  BY RecallStep
<1> QED
  BY <1>1, <1>2, <1>3, <1>4, <1>5

\* The types, the breakers, the money that was counted and what the caches and
\* the rows remember, for any number of requests and faults
\* (payment_service.go:75-300, idempotency.go:33-73).
THEOREM CreationInvariant == CreationSpec => []CreationInv
BY CreationInvInit, CreationInvStep, PTL DEF CreationSpec

\* Money taken is money accounted for, and a request takes it from a second
\* provider only after a lost answer (payment_service.go:186-276).
THEOREM MoneyIsAlwaysRecorded == CreationSpec => []MoneyIsRecorded
<1>1. CreationInv => MoneyIsRecorded
  BY CountedIsRecorded DEF CreationInv
<1> QED
  BY <1>1, CreationInvariant, PTL

\* A breaker shared by the payments of a process that may die at any time is
\* closed exactly below its threshold, and half-open only when it has cooled
\* down (circuitbreaker.go:52-101).
THEOREM CreationKeepsBreakers == CreationSpec => []BreakerStatesHold
<1>1. CreationInv => BreakerStatesHold
  BY DEF CreationInv, BreakerInv, BreakerStatesHold
<1> QED
  BY <1>1, CreationInvariant, PTL

\* Only a payment that the service did not find is routed.
LEMMA RoutedWasNotKnown ==
    ASSUME CreationTypeOK, CreationNext, NEW r \in Request,
           At(r, "lookup"), request'[r].step = "try"
    PROVE  \E p \in Provider \cup {Unconfigured} : Begin(r, p) \/ BeginUnchecked(r, p)
<1> USE DEF At
<1>1. request \in [Request -> Job]
  BY DEF CreationTypeOK
<1>2. ASSUME NEW q \in Request, q # r, Arrive(q) \/ Proceed(q)
      PROVE  FALSE
  <2>1. request'[r] = request[r]
    <3>1. CASE Arrive(q)
      BY <1>1, <1>2, <3>1
      DEF Arrive, Replay, CallHandler, CallHandlerUnchecked, Received
    <3>2. CASE Proceed(q)
      BY <1>2, <3>2, ProceedMoves DEF Moves
    <3> QED
      BY <1>2, <3>1, <3>2
  <2> QED
    BY <2>1
<1>3. CASE Arrive(r)
  BY <1>3 DEF Arrive, Replay, CallHandler, CallHandlerUnchecked
<1>4. CASE Proceed(r)
  <2>1. ReturnExisting(r) => request'[r].step = "respond"
    BY <1>1 DEF ReturnExisting, GoTo, Job
  <2> QED
    BY <1>4, <2>1
    DEF Proceed, Charge, ChargeNotTried, ChargeAccepted, ChargeRefusedByNpci,
        ChargeError, ChargePanics, ChargeAnswerLost, Decline, Store, StoreFails,
        SetKey, SetKeyFails, Announce, AnnounceFails, Respond, RespondUncached,
        RespondLate
<1>5. CASE TimePasses \/ (\E o \in Order : LoseKey(o) \/ LoseAnswer(o)) \/ LoseCache
  BY <1>5 DEF TimePasses, LoseKey, LoseAnswer, LoseCache
<1>6. CASE Crash
  BY <1>1, <1>6 DEF Crash, Job
<1> QED
  BY <1>2, <1>3, <1>4, <1>5, <1>6 DEF CreationNext

\* The step of RepeatIsAnswered, for one request.
PaidAgainForCause(r) ==
    At(r, "lookup") /\ request'[r].step = "try" =>
        /\ (\E q \in Request : /\ request[q].step \in {"answered", "late"}
                              /\ request[q].order = request[r].order)
           => faults' > 0
        /\ request[r].repeat => faults' > 1 \/ cacheLost

\* An order that was answered is charged again only if something failed, and a
\* repeated header only if two things failed or the cache was lost
\* (idempotency.go:43-71, payment_service.go:82-95, 298).
THEOREM RepeatsAreAnswered == CreationSpec => RepeatIsAnswered
<1>1. ASSUME CreationInv, CreationNext, NEW r \in Request
      PROVE  PaidAgainForCause(r)
  <2> SUFFICES ASSUME At(r, "lookup"), request'[r].step = "try"
               PROVE  /\ (\E q \in Request : /\ request[q].step \in {"answered", "late"}
                                             /\ request[q].order = request[r].order)
                         => faults' > 0
                      /\ request[r].repeat => faults' > 1 \/ cacheLost
    BY DEF PaidAgainForCause
  <2>1. PICK o : o = request[r].order
    OBVIOUS
  <2>2. /\ \A q \in Request : request[q].step \in {"answered", "late"}
                              /\ request[q].order = o => faults >= Forgotten(o)
        /\ request[r].repeat => cacheLost \/ faults >= Forgotten(o) + 1
    BY <1>1, <2>1 DEF CreationInv, OrdersRecalled, Recalled, At
  <2>3. faults \in Nat /\ Forgotten(o) \in {0, 1}
    BY <1>1, CreationFaultsAssumption DEF CreationInv, CreationTypeOK, Forgotten
  <2>4. \/ Forgotten(o) = 1 /\ faults' = faults
        \/ faults' = faults + 1
    <3>1. \E p \in Provider \cup {Unconfigured} : Begin(r, p) \/ BeginUnchecked(r, p)
      BY <1>1, RoutedWasNotKnown DEF CreationInv
    <3>2. CASE \E p \in Provider \cup {Unconfigured} : Begin(r, p)
      BY <2>1, <3>2 DEF Begin, Known, Forgotten, Remembered
    <3>3. CASE \E p \in Provider \cup {Unconfigured} : BeginUnchecked(r, p)
      BY <1>1, <3>3, FaultCounts DEF BeginUnchecked, CreationInv
    <3> QED
      BY <3>1, <3>2, <3>3
  <2> QED
    BY <2>1, <2>2, <2>3, <2>4
<1>2. CreationInv /\ [CreationNext]_creationVars
         => [\A r \in Request : PaidAgainForCause(r)]_creationVars
  BY <1>1
<1>3. CreationSpec => [][\A r \in Request : PaidAgainForCause(r)]_creationVars
  BY <1>2, CreationInvariant, PTL DEF CreationSpec
<1> QED
  BY <1>3 DEF RepeatIsAnswered, PaidAgainForCause

\* A process that dies takes its breakers and its calls with it.
ProcessRestarts ==
    /\ breaker' = [p \in Provider |-> NewBreaker]
    /\ call' = [c \in Caller |-> NoCall]

\* CreatePayment uses the breakers as circuitbreaker.go allows: a step of the
\* payments is a step of the breakers, a restart of their process, or leaves
\* them alone (payment_service.go:186-276).
THEOREM CreationImplementsBreakers ==
    CreationSpec => BreakerInit /\ [][BreakerNext \/ ProcessRestarts]_breakerVars
<1>1. CreationInit => BreakerInit
  BY DEF CreationInit
<1>2. CreationInv /\ [CreationNext]_creationVars
          => [BreakerNext \/ ProcessRestarts]_breakerVars
  <2>1. Crash => ProcessRestarts
    BY DEF Crash, ProcessRestarts, Request
  <2> QED
    BY <2>1, BreakersMove DEF CreationInv
<1> QED
  BY <1>1, <1>2, CreationInvariant, PTL DEF CreationSpec

\* A payment reaches a provider whose breaker is not closed only when
\* resetTimeout has passed since its last failure, restarts of the process
\* included (circuitbreaker.go:56-66, payment_service.go:186-276).
THEOREM PaymentCallsAreCool == CreationSpec => NoCallWhileCooling
<1>1. ProcessRestarts => StartsCool
  BY NoCallAssumption DEF ProcessRestarts, StartsCool
<1>2. CreationInv /\ [CreationNext]_creationVars => [StartsCool]_breakerVars
  <2>1. Crash => ProcessRestarts
    BY DEF Crash, ProcessRestarts, Request
  <2> QED
    BY <1>1, <2>1, BreakersMove, StepStartsCool DEF CreationInv
<1>3. NoCallWhileCooling <=> [][StartsCool]_breakerVars
  BY DEF NoCallWhileCooling
<1> QED
  BY <1>2, <1>3, CreationInvariant, PTL DEF CreationSpec
=============================================================================
