-------------------------- MODULE PaymentCreation --------------------------
(***************************************************************************)
(* POST /payments: the Idempotency middleware around CreatePayment of      *)
(* internal/domain/service/payment_service.go.  The cached answer, the     *)
(* idempotency key, the charge at the primary provider, the failover to a  *)
(* secondary one, the row, the key, the events and the answer.  Requests   *)
(* run concurrently and share the circuit breakers of the process.         *)
(*                                                                         *)
(* A client that sends the Idempotency-Key header sends one key for one    *)
(* order, in every attempt: the key is named by its order.                 *)
(*                                                                         *)
(* A payment the fraud score blocks is never charged; it is part of        *)
(* PaymentLifecycle, as is everything that happens to a stored row.        *)
(***************************************************************************)
EXTENDS CircuitBreaker, FiniteSets

CONSTANTS
    Order,          \* <<merchant, order_id>> pairs
    NoOrder,        \* a request that has not begun
    Razorpay, Stripe, Npci,
    Unconfigured,   \* a provider name the routing service made up
    MaxFaults       \* bound: failed calls, lost answers, crashes, evictions

ASSUME ProvidersAssumption ==
    {Razorpay, Stripe} \subseteq Provider /\ Unconfigured \notin Provider
ASSUME NoOrderAssumption == NoOrder \notin Order
ASSUME CreationFaultsAssumption == MaxFaults \in Nat

Request == Caller   \* each request is one caller of the breakers

VARIABLES
    request,    \* request[r]: where r stands, its order, whether it has the
                \* header, the provider it tries, whether it is the second;
                \* history: a request with the same header had its answer
    answers,    \* orders whose "idempotency:<header>" answer is cached
    keys,       \* orders whose "payment:<merchant>:<order>" key is cached
    stored,     \* requests whose transaction row is stored
    taken,      \* history: <<r, p>> if p took money for r
    events,     \* <<type, r>> of the webhook_events rows
    cacheLost,  \* history: the cache was lost as a whole
    faults

creationVars == <<breaker, call, request, answers, keys, stored, taken, events,
                  cacheLost, faults>>

Step == {"new", "lookup", "try", "wait", "decline", "store", "setKey", "announce",
         "respond", "replayed", "answered", "late", "declined", "failed"}
Answer == {"replayed", "answered", "late", "declined", "failed"}
Job == [step : Step, order : Order \cup {NoOrder}, header : BOOLEAN,
        repeat : BOOLEAN, provider : Provider \cup {Unconfigured}, second : BOOLEAN]

CreationTypeOK ==
    /\ BreakerTypeOK
    /\ request \in [Request -> Job]
    /\ answers \subseteq Order
    /\ keys \subseteq Order
    /\ stored \subseteq Request
    /\ taken \subseteq Request \X Provider
    /\ events \subseteq {"transaction.created", "transaction.failed"} \X Request
    /\ cacheLost \in BOOLEAN
    /\ faults \in 0..MaxFaults

CreationInit ==
    /\ BreakerInit
    /\ request = [r \in Request |-> [step |-> "new", order |-> NoOrder, header |-> FALSE,
                                     repeat |-> FALSE, provider |-> Unconfigured,
                                     second |-> FALSE]]
    /\ answers = {}
    /\ keys = {}
    /\ stored = {}
    /\ taken = {}
    /\ events = {}
    /\ cacheLost = FALSE
    /\ faults = 0

---------------------------------------------------------------------------

At(r, step) == request[r].step = step
GoTo(r, step) == request' = [request EXCEPT ![r].step = step]
InFlight(r) == request[r].step \notin Answer \cup {"new"}

Fault == faults < MaxFaults /\ faults' = faults + 1

\* transactionRepo.GetByOrderID finds a row of the order.
HasRow(o) == \E r \in stored : request[r].order = o

---------------------------------------------------------------------------
(* The middleware, before the handler *)

Received(r, o, h, step) ==
    request' = [request EXCEPT
        ![r].step = step, ![r].order = o, ![r].header = h,
        ![r].repeat = h /\ \E q \in Request : /\ At(q, "answered")
                                             /\ request[q].header
                                             /\ request[q].order = o]

\* The header is known: the cached answer is sent and the handler not called.
Replay(r, o) ==
    /\ At(r, "new")
    /\ o \in answers
    /\ Received(r, o, TRUE, "replayed")
    /\ UNCHANGED <<breaker, call, answers, keys, stored, taken, events, cacheLost, faults>>

\* No header, or nothing cached under it.
CallHandler(r, o, h) ==
    /\ At(r, "new")
    /\ ~(h /\ o \in answers)
    /\ Received(r, o, h, "lookup")
    /\ UNCHANGED <<breaker, call, answers, keys, stored, taken, events, cacheLost, faults>>

\* The cache fails: its error is dropped and the handler called.
CallHandlerUnchecked(r, o) ==
    /\ At(r, "new")
    /\ o \in answers
    /\ Fault
    /\ Received(r, o, TRUE, "lookup")
    /\ UNCHANGED <<breaker, call, answers, keys, stored, taken, events, cacheLost>>

---------------------------------------------------------------------------
(* The idempotency key of the service *)

Route(r, p) ==
    request' = [request EXCEPT ![r].step = "try", ![r].provider = p]

Known(r) == request[r].order \in keys /\ HasRow(request[r].order)

\* A known order is answered with its row.
ReturnExisting(r) ==
    /\ At(r, "lookup")
    /\ Known(r)
    /\ GoTo(r, "respond")
    /\ UNCHANGED <<breaker, call, answers, keys, stored, taken, events, cacheLost, faults>>

\* A new order is routed: UPI to NPCI, the rest where the routing service (or
\* its fallback) says.
Begin(r, p) ==
    /\ At(r, "lookup")
    /\ ~Known(r)
    /\ Route(r, p)
    /\ UNCHANGED <<breaker, call, answers, keys, stored, taken, events, cacheLost, faults>>

\* The cache or the lookup of the row fails: the payment goes on as if new.
BeginUnchecked(r, p) ==
    /\ At(r, "lookup")
    /\ Known(r)
    /\ Fault
    /\ Route(r, p)
    /\ UNCHANGED <<breaker, call, answers, keys, stored, taken, events, cacheLost>>

---------------------------------------------------------------------------
(* The charge and the failover *)

Secondary(p) == IF p = Stripe THEN Razorpay ELSE Stripe

\* Mutant of NextProvider: the second failure fails over again.
NextProvider_Again(r) ==
    LET job == request[r] IN
    request' = [request EXCEPT ![r] = [job EXCEPT
                    !.step = "try", !.provider = Secondary(job.provider)]]

\* The first error of a charge is followed by the secondary provider, the
\* second by the decline.
NextProvider(r) ==
    LET job == request[r] IN
    request' = [request EXCEPT ![r] =
        IF job.second
        THEN [job EXCEPT !.step = "decline"]
        ELSE [job EXCEPT !.step = "try", !.second = TRUE,
                         !.provider = Secondary(job.provider)]]

Charge(r) ==
    /\ At(r, "try")
    /\ request[r].provider \in Provider
    /\ Enter(r, request[r].provider)
    /\ GoTo(r, "wait")
    /\ UNCHANGED <<answers, keys, stored, taken, events, cacheLost, faults>>

\* No such processor, or its circuit is open.
ChargeNotTried(r) ==
    /\ At(r, "try")
    /\ \/ request[r].provider = Unconfigured
       \/ request[r].provider # Unconfigured /\ Reject(r, request[r].provider)
    /\ NextProvider(r)
    /\ UNCHANGED <<breaker, call, answers, keys, stored, taken, events, cacheLost, faults>>

Take(r) == taken' = taken \cup {<<r, request[r].provider>>}

\* Mutant of ChargeAccepted: the nil error is shadowed and failover follows.
ChargeAccepted_Shadowed(r) ==
    /\ At(r, "wait")
    /\ Succeed(r)
    /\ Take(r)
    /\ NextProvider(r)
    /\ UNCHANGED <<answers, keys, stored, events, cacheLost, faults>>

ChargeAccepted(r) ==
    /\ At(r, "wait")
    /\ Succeed(r)
    /\ Take(r)
    /\ GoTo(r, "store")
    /\ UNCHANGED <<answers, keys, stored, events, cacheLost, faults>>

\* NPCI refuses with a result and no error; nobody looks at its status.
ChargeRefusedByNpci(r) ==
    /\ At(r, "wait") /\ request[r].provider = Npci
    /\ Succeed(r)
    /\ GoTo(r, "store")
    /\ UNCHANGED <<answers, keys, stored, taken, events, cacheLost, faults>>

ChargeError(r) ==
    /\ At(r, "wait")
    /\ Fail(r)
    /\ NextProvider(r)
    /\ UNCHANGED <<answers, keys, stored, taken, events, cacheLost, faults>>

\* The simulated charge of Razorpay slices the first eight bytes of the order
\* id; a shorter one panics and the request dies.
ChargePanics(r) ==
    /\ At(r, "wait") /\ request[r].provider = Razorpay
    /\ Panic(r)
    /\ GoTo(r, "failed")
    /\ UNCHANGED <<answers, keys, stored, taken, events, cacheLost, faults>>

\* The provider took the money but its answer timed out.
ChargeAnswerLost(r) ==
    /\ At(r, "wait")
    /\ Fault
    /\ Fail(r)
    /\ Take(r)
    /\ NextProvider(r)
    /\ UNCHANGED <<answers, keys, stored, events, cacheLost>>

\* The insert into webhook_events fails: its transaction_id refers to a row of
\* transactions, and this payment has none.  The error is dropped.
Decline(r) ==
    /\ At(r, "decline")
    /\ events' = IF r \in stored THEN events \cup {<<"transaction.failed", r>>}
                                 ELSE events
    /\ GoTo(r, "declined")
    /\ UNCHANGED <<breaker, call, answers, keys, stored, taken, cacheLost, faults>>

---------------------------------------------------------------------------
(* The row, the key, the events *)

Store(r) ==
    /\ At(r, "store")
    /\ stored' = stored \cup {r}
    /\ GoTo(r, "setKey")
    /\ UNCHANGED <<breaker, call, answers, keys, taken, events, cacheLost, faults>>

StoreFails(r) ==
    /\ At(r, "store")
    /\ Fault
    /\ GoTo(r, "failed")
    /\ UNCHANGED <<breaker, call, answers, keys, stored, taken, events, cacheLost>>

SetKey(r) ==
    /\ At(r, "setKey")
    /\ keys' = keys \cup {request[r].order}
    /\ GoTo(r, "announce")
    /\ UNCHANGED <<breaker, call, answers, stored, taken, events, cacheLost, faults>>

SetKeyFails(r) ==
    /\ At(r, "setKey")
    /\ Fault
    /\ GoTo(r, "announce")
    /\ UNCHANGED <<breaker, call, answers, keys, stored, taken, events, cacheLost>>

Announce(r) ==
    /\ At(r, "announce")
    /\ events' = events \cup {<<"transaction.created", r>>}
    /\ GoTo(r, "respond")
    /\ UNCHANGED <<breaker, call, answers, keys, stored, taken, cacheLost, faults>>

\* The insert of the event fails; its error is dropped.
AnnounceFails(r) ==
    /\ At(r, "announce")
    /\ Fault
    /\ GoTo(r, "respond")
    /\ UNCHANGED <<breaker, call, answers, keys, stored, taken, events, cacheLost>>

---------------------------------------------------------------------------
(* The middleware, after the handler *)

\* Mutant of Respond: only status 200 is a success, a new payment is 201.
Respond_OnlyOK(r) ==
    /\ At(r, "respond")
    /\ GoTo(r, "answered")
    /\ answers' = IF request[r].header /\ r \notin stored
                  THEN answers \cup {request[r].order} ELSE answers
    /\ UNCHANGED <<breaker, call, keys, stored, taken, events, cacheLost, faults>>

\* The answer is sent; a success under a header is cached.
Respond(r) ==
    /\ At(r, "respond")
    /\ GoTo(r, "answered")
    /\ answers' = IF request[r].header THEN answers \cup {request[r].order} ELSE answers
    /\ UNCHANGED <<breaker, call, keys, stored, taken, events, cacheLost, faults>>

\* The cache fails and its error is dropped.
RespondUncached(r) ==
    /\ At(r, "respond") /\ request[r].header
    /\ Fault
    /\ GoTo(r, "answered")
    /\ UNCHANGED <<breaker, call, answers, keys, stored, taken, events, cacheLost>>

\* The context made for the cache expired, two seconds after the request came.
RespondLate(r) ==
    /\ At(r, "respond") /\ request[r].header
    /\ GoTo(r, "late")
    /\ UNCHANGED <<breaker, call, answers, keys, stored, taken, events, cacheLost, faults>>

---------------------------------------------------------------------------
(* What may happen at any time *)

\* One cached entry is gone: 24 hours, or an eviction.
LoseKey(o) ==
    /\ o \in keys
    /\ Fault
    /\ keys' = keys \ {o}
    /\ UNCHANGED <<breaker, call, request, answers, stored, taken, events, cacheLost>>

LoseAnswer(o) ==
    /\ o \in answers
    /\ Fault
    /\ answers' = answers \ {o}
    /\ UNCHANGED <<breaker, call, request, keys, stored, taken, events, cacheLost>>

\* Redis is restarted.
LoseCache ==
    /\ answers \cup keys # {}
    /\ Fault
    /\ answers' = {} /\ keys' = {} /\ cacheLost' = TRUE
    /\ UNCHANGED <<breaker, call, request, stored, taken, events>>

\* The process dies: its requests are gone and its breakers start anew.  The
\* cache goes with it where it is the map in memory.
Crash ==
    /\ \E r \in Request : InFlight(r)
    /\ Fault
    /\ request' = [r \in Request |->
                      IF InFlight(r) THEN [request[r] EXCEPT !.step = "failed"]
                                     ELSE request[r]]
    /\ breaker' = [p \in Provider |-> NewBreaker]
    /\ call' = [r \in Request |-> NoCall]
    /\ \/ UNCHANGED <<answers, keys, cacheLost>>
       \/ answers' = {} /\ keys' = {} /\ cacheLost' = TRUE
    /\ UNCHANGED <<stored, taken, events>>

Arrive(r) ==
    \E o \in Order :
        \/ Replay(r, o)
        \/ \E h \in BOOLEAN : CallHandler(r, o, h)
        \/ CallHandlerUnchecked(r, o)

Proceed(r) ==
    \/ ReturnExisting(r)
    \/ \E p \in Provider \cup {Unconfigured} : Begin(r, p) \/ BeginUnchecked(r, p)
    \/ Charge(r)
    \/ ChargeNotTried(r)
    \/ ChargeAccepted(r)
    \/ ChargeRefusedByNpci(r)
    \/ ChargeError(r)
    \/ ChargePanics(r)
    \/ ChargeAnswerLost(r)
    \/ Decline(r)
    \/ Store(r)
    \/ StoreFails(r)
    \/ SetKey(r)
    \/ SetKeyFails(r)
    \/ Announce(r)
    \/ AnnounceFails(r)
    \/ Respond(r)
    \/ RespondUncached(r)
    \/ RespondLate(r)

TimePasses ==
    /\ \E p \in Provider : CoolDown(p)
    /\ UNCHANGED <<request, answers, keys, stored, taken, events, cacheLost, faults>>

CreationNext ==
    \/ \E r \in Request : Arrive(r) \/ Proceed(r)
    \/ TimePasses
    \/ \E o \in Order : LoseKey(o) \/ LoseAnswer(o)
    \/ LoseCache
    \/ Crash

CreationSpec == CreationInit /\ [][CreationNext]_creationVars

\* Statements return and provider calls end (net/http gives them 10 seconds).
FairCreationSpec ==
    CreationSpec /\ \A r \in Request : WF_creationVars(Proceed(r))

---------------------------------------------------------------------------

\* Money taken is money accounted for: the row of the request that took it is
\* stored, or will be, unless something failed; and one request takes money
\* from a second provider only after a lost answer (payment_service.go:186-276).
MoneyIsRecorded ==
    \A r \in Request :
        LET paid == {p \in Provider : <<r, p>> \in taken} IN
        /\ Cardinality(paid) <= 1 + faults
        /\ paid # {} => r \in stored \/ InFlight(r) \/ faults > 0

\* An order that was answered is charged again only if something failed; and if
\* both requests had the header and the first answer was given in two seconds,
\* only if two things failed, or the cache was lost: the middleware and the
\* service remember the payment apart (idempotency.go:43-71, payment_service.go:
\* 82-95, 298).
RepeatIsAnswered ==
    [][\A r \in Request :
          At(r, "lookup") /\ request'[r].step = "try" =>
              /\ (\E q \in Request : /\ request[q].step \in {"answered", "late"}
                                    /\ request[q].order = request[r].order)
                 => faults' > 0
              /\ request[r].repeat => faults' > 1 \/ cacheLost]_creationVars

\* Every request is answered: two providers are tried and no more, whatever the
\* breakers do in between (payment_service.go:212-250).
EveryRequestIsAnswered ==
    \A r \in Request : InFlight(r) ~> ~InFlight(r)

\* "Validate idempotency" (payment_service.go:81): an order is charged once.
OrderChargedOnce ==
    \A o \in Order : Cardinality({t \in taken : request[t[1]].order = o}) <= 1

\* "Randomly fail 5% of the time" (npci_mock.go:32): a refused charge fails,
\* so a stored payment has been charged.
StoredWasCharged ==
    \A r \in stored : <<r, request[r].provider>> \in taken

\* "the merchant won't see it but they WILL get the webhook"
\* (payment_service.go:245): a declined payment is announced as failed.
DeclineIsAnnounced ==
    \A r \in Request : At(r, "declined") => <<"transaction.failed", r>> \in events
=============================================================================
