-------------------------- MODULE WebhookDelivery --------------------------
(***************************************************************************)
(* The delivery of webhook_events to the webhooks of one merchant.  Two    *)
(* kinds of goroutines work on the table and know nothing of each other:   *)
(* the dispatchers of webhook_service.go (one in each API process, one in  *)
(* webhook-service) and the delivery engines of webhook_worker.go (one in  *)
(* each API process, a queue and a pool of workers).  Both select pending  *)
(* events that are due, POST them and write status, attempts and           *)
(* next_retry from the copy they selected; nothing claims an event.        *)
(*                                                                         *)
(* Events are numbered in the order of created_at.  Of next_retry only     *)
(* NULL, past and future are kept.                                         *)
(***************************************************************************)
EXTENDS Integers, Sequences, FiniteSets

CONSTANTS
    Event,          \* numbers of the events, oldest first
    Hook,           \* webhooks the merchant may register
    Wants,          \* Wants[k]: the events webhook k subscribes to
    Dispatcher,     \* goroutines of RunDispatcher
    Engine,         \* webhook engines
    Slot,           \* the pool of each engine has one worker for each slot
    MaxAttempts,    \* 5, in both
    BatchSize,      \* rows a dispatcher selects: 25
    EngineLimit,    \* rows an engine selects: 1000
    QueueSize,      \* copies an engine queues: 10000
    MaxTrouble      \* bound: retries merchants ask for, failed statements and
                    \* dead processes, together

ASSUME EventAssumption == Event \subseteq Nat \ {0}
ASSUME MaxAttemptsAssumption == MaxAttempts \in Nat /\ MaxAttempts >= 2
ASSUME LimitsAssumption == {BatchSize, EngineLimit, QueueSize} \subseteq Nat \ {0}
ASSUME MaxTroubleAssumption == MaxTrouble \in Nat

Worker == Engine \X Slot

VARIABLES
    row,            \* row[e]: status, attempts and next_retry of e
    hooks,          \* the webhooks registered
    dispatcher,     \* dispatcher[d]: the copies left, and the one in hand
    todo,           \* todo[g]: the copies engine g selected and has not queued
    queue,          \* queue[g]: its jobQueue
    worker,         \* worker[w]: the copy it delivers, and how that went
    accepted,       \* history: events some webhook answered 2xx for
    recorded,       \* history: attempts recorded for e, up to MaxAttempts
    trouble         \* so far, at most MaxTrouble

vars == <<row, hooks, dispatcher, todo, queue, worker, accepted, recorded,
          trouble>>

Status == {"none", "pending", "delivered", "completed", "skipped", "failed"}
Row == [status : Status, attempts : 0..MaxAttempts, next : {"null", "due", "later"}]

\* What a select returns of a row: it was pending, so attempts are left.
Copy == [event : Event, attempts : 0..MaxAttempts - 1]

Outcome == {"posting", "accepted", "refused", "skip"}
Resting == [step |-> "rest"]

\* A dispatcher with copies left, or with one in hand and webhooks to post it to.
Batch == [step : {"next"}, left : SUBSET Copy]
Delivery == [step : {"post"}, left : SUBSET Copy, copy : Copy, hooks : SUBSET Hook,
             delivered : BOOLEAN]
Job == [step : Outcome, copy : Copy]

TypeOK ==
    /\ row \in [Event -> Row]
    /\ hooks \subseteq Hook
    /\ dispatcher \in [Dispatcher -> Batch \cup Delivery \cup {Resting}]
    /\ todo \in [Engine -> SUBSET Copy]
    /\ queue \in [Engine -> Seq(Copy)]
    /\ worker \in [Worker -> Job \cup {Resting}]
    /\ accepted \subseteq Event
    /\ recorded \in [Event -> 0..MaxAttempts]
    /\ trouble \in 0..MaxTrouble

Init ==
    /\ row = [e \in Event |-> [status |-> "none", attempts |-> 0, next |-> "null"]]
    /\ hooks = {}
    /\ dispatcher = [d \in Dispatcher |-> Resting]
    /\ todo = [g \in Engine |-> {}]
    /\ queue = [g \in Engine |-> <<>>]
    /\ worker = [w \in Worker |-> Resting]
    /\ accepted = {}
    /\ recorded = [e \in Event |-> 0]
    /\ trouble = 0

Trouble == trouble < MaxTrouble /\ trouble' = trouble + 1

---------------------------------------------------------------------------
(* The table *)

\* EnqueueTransactionEvent: next_retry is NULL.
Enqueue(e) ==
    /\ row[e].status = "none"
    /\ row' = [row EXCEPT ![e].status = "pending"]
    /\ UNCHANGED <<hooks, dispatcher, todo, queue, worker, accepted, recorded, trouble>>

\* The merchant asks for a retry, whatever the status.
ResetEvent(e) ==
    /\ row[e].status # "none"
    /\ Trouble
    /\ row' = [row EXCEPT ![e] = [status |-> "pending", attempts |-> 0, next |-> "null"]]
    /\ UNCHANGED <<hooks, dispatcher, todo, queue, worker, accepted, recorded>>

\* The merchant registers a webhook or deletes one.
ChangeHooks ==
    /\ \E k \in Hook : hooks' = IF k \in hooks THEN hooks \ {k} ELSE hooks \cup {k}
    /\ UNCHANGED <<row, dispatcher, todo, queue, worker, accepted, recorded, trouble>>

\* next_retry comes.
ComesDue(e) ==
    /\ row[e].next = "later"
    /\ row' = [row EXCEPT ![e].next = "due"]
    /\ UNCHANGED <<hooks, dispatcher, todo, queue, worker, accepted, recorded, trouble>>

Due == {e \in Event : row[e].status = "pending" /\ row[e].next # "later"}

\* ORDER BY created_at LIMIT n
Oldest(n) == {e \in Due : Cardinality({f \in Due : f < e}) < n}

Copies(events) == {[event |-> e, attempts |-> row[e].attempts] : e \in events}
IsOldest(c, copies) == c \in copies /\ \A k \in copies : c.event <= k.event

\* Mutant of GivesUp: one attempt early.
GivesUp_Early(attempts) == attempts >= MaxAttempts - 1

GivesUp(attempts) == attempts >= MaxAttempts

\* Mutant of Retry: a failed delivery is not counted.
Retry_Uncounted(c, nextOfFailed) ==
    [status |-> "pending", attempts |-> c.attempts, next |-> "later"]

\* scheduleRetry and handleFailure: back to pending with a backoff, or failed.
Retry(c, nextOfFailed) ==
    IF GivesUp(c.attempts + 1)
    THEN [status |-> "failed", attempts |-> c.attempts + 1, next |-> nextOfFailed]
    ELSE [status |-> "pending", attempts |-> c.attempts + 1, next |-> "later"]

\* UPDATE webhook_events ... WHERE id = e, whatever the row says now.
Write(e, r) ==
    /\ row' = [row EXCEPT ![e] = r]
    /\ recorded' = [recorded EXCEPT ![e] = IF @ < MaxAttempts THEN @ + 1 ELSE @]

---------------------------------------------------------------------------
(* The dispatchers *)

\* The copies that remain, or the end of dispatchOnce.
NextCopy(left) == IF left = {} THEN Resting ELSE [step |-> "next", left |-> left]

GetPendingEvents(d) ==
    /\ dispatcher[d] = Resting
    /\ Due # {}
    /\ dispatcher' = [dispatcher EXCEPT ![d] = NextCopy(Copies(Oldest(BatchSize)))]
    /\ UNCHANGED <<row, hooks, todo, queue, worker, accepted, recorded, trouble>>

\* repo.List, and the webhooks that want the event.
ListHooks(d) ==
    /\ dispatcher[d].step = "next"
    /\ \E c \in dispatcher[d].left :
          /\ IsOldest(c, dispatcher[d].left)
          /\ dispatcher' = [dispatcher EXCEPT ![d] =
                [step |-> "post", left |-> @.left \ {c}, copy |-> c,
                 hooks |-> {k \in hooks : c.event \in Wants[k]}, delivered |-> FALSE]]
    /\ UNCHANGED <<row, hooks, todo, queue, worker, accepted, recorded, trouble>>

\* One POST, to an endpoint that may have been deleted meanwhile.
Deliver(d, k) ==
    /\ dispatcher[d].step = "post"
    /\ k \in dispatcher[d].hooks
    /\ \/ /\ dispatcher' = [dispatcher EXCEPT ![d].hooks = @ \ {k}, ![d].delivered = TRUE]
          /\ accepted' = accepted \cup {dispatcher[d].copy.event}
       \/ /\ dispatcher' = [dispatcher EXCEPT ![d].hooks = @ \ {k}]
          /\ UNCHANGED accepted
    /\ UNCHANGED <<row, hooks, todo, queue, worker, recorded, trouble>>

\* Mutant of Verdict: no error means delivered.
Verdict_NoError(delivery) ==
    [status |-> "delivered", attempts |-> delivery.copy.attempts + 1, next |-> "null"]

\* One webhook that accepted is enough; none at all is a failure.
Verdict(delivery) ==
    IF delivery.delivered
    THEN [status |-> "delivered", attempts |-> delivery.copy.attempts + 1, next |-> "null"]
    ELSE Retry(delivery.copy, "null")

UpdateEventStatus(d) ==
    /\ dispatcher[d].step = "post"
    /\ dispatcher[d].hooks = {}
    /\ Write(dispatcher[d].copy.event, Verdict(dispatcher[d]))
    /\ dispatcher' = [dispatcher EXCEPT ![d] = NextCopy(@.left)]
    /\ UNCHANGED <<hooks, todo, queue, worker, accepted, trouble>>

\* repo.List fails: it counts as a failed delivery.
ListFails(d) ==
    /\ dispatcher[d].step = "next"
    /\ Trouble
    /\ \E c \in dispatcher[d].left :
          /\ IsOldest(c, dispatcher[d].left)
          /\ Write(c.event, Retry(c, "null"))
          /\ dispatcher' = [dispatcher EXCEPT ![d] = NextCopy(@.left \ {c})]
    /\ UNCHANGED <<hooks, todo, queue, worker, accepted>>

\* The UPDATE fails and its error is dropped.
UpdateFails(d) ==
    /\ dispatcher[d].step = "post"
    /\ dispatcher[d].hooks = {}
    /\ Trouble
    /\ dispatcher' = [dispatcher EXCEPT ![d] = NextCopy(@.left)]
    /\ UNCHANGED <<row, hooks, todo, queue, worker, accepted, recorded>>

DispatcherRestart(d) ==
    /\ dispatcher[d] # Resting
    /\ Trouble
    /\ dispatcher' = [dispatcher EXCEPT ![d] = Resting]
    /\ UNCHANGED <<row, hooks, todo, queue, worker, accepted, recorded>>

---------------------------------------------------------------------------
(* The engines *)

\* Mutant of Select: next_retry is scanned into a pointer.
Select_Pointer(g) ==
    /\ todo[g] = {}
    /\ Due # {}
    /\ todo' = [todo EXCEPT ![g] = Copies(Oldest(EngineLimit))]
    /\ UNCHANGED <<row, hooks, dispatcher, queue, worker, accepted, recorded, trouble>>

\* processPendingWebhooks.  A NULL next_retry cannot be scanned into its
\* time.Time: one such row among those selected fails the whole select.
Select(g) ==
    /\ todo[g] = {}
    /\ Due # {}
    /\ \A e \in Oldest(EngineLimit) : row[e].next # "null"
    /\ todo' = [todo EXCEPT ![g] = Copies(Oldest(EngineLimit))]
    /\ UNCHANGED <<row, hooks, dispatcher, queue, worker, accepted, recorded, trouble>>

\* A copy is queued, or dropped until the next tick when the queue is full.
Push(g) ==
    /\ \E c \in todo[g] :
          /\ IsOldest(c, todo[g])
          /\ todo' = [todo EXCEPT ![g] = @ \ {c}]
          /\ queue' = IF Len(queue[g]) < QueueSize
                      THEN [queue EXCEPT ![g] = Append(@, c)] ELSE queue
    /\ UNCHANGED <<row, hooks, dispatcher, worker, accepted, recorded, trouble>>

\* A worker takes a copy; with no webhook registered it will skip the event.
\* It asks for any active webhook and not for one that wants the event.
TakeJob(g, s) ==
    /\ worker[<<g, s>>] = Resting
    /\ queue[g] # <<>>
    /\ queue' = [queue EXCEPT ![g] = Tail(@)]
    /\ worker' = [worker EXCEPT ![<<g, s>>] =
          [step |-> IF hooks = {} THEN "skip" ELSE "posting", copy |-> Head(queue[g])]]
    /\ UNCHANGED <<row, hooks, dispatcher, todo, accepted, recorded, trouble>>

\* The look-up fails; every error of it reads as "no active webhook".
LookupFails(g, s) ==
    /\ worker[<<g, s>>] = Resting
    /\ queue[g] # <<>>
    /\ Trouble
    /\ queue' = [queue EXCEPT ![g] = Tail(@)]
    /\ worker' = [worker EXCEPT ![<<g, s>>] = [step |-> "skip", copy |-> Head(queue[g])]]
    /\ UNCHANGED <<row, hooks, dispatcher, todo, accepted, recorded>>

\* The POST, to the webhook that was found.
Post(w) ==
    /\ worker[w].step = "posting"
    /\ \/ /\ worker' = [worker EXCEPT ![w].step = "accepted"]
          /\ accepted' = accepted \cup {worker[w].copy.event}
       \/ /\ worker' = [worker EXCEPT ![w].step = "refused"]
          /\ UNCHANGED accepted
    /\ UNCHANGED <<row, hooks, dispatcher, todo, queue, recorded, trouble>>

\* updateWebhookStatus
Record(w) ==
    LET c == worker[w].copy IN
    /\ \/ /\ worker[w].step = "accepted"
          /\ Write(c.event, [status |-> "completed", attempts |-> c.attempts + 1, next |-> "due"])
       \/ /\ worker[w].step = "refused"
          /\ Write(c.event, Retry(c, "due"))
       \/ /\ worker[w].step = "skip"
          /\ row' = [row EXCEPT ![c.event] =
                [status |-> "skipped", attempts |-> c.attempts, next |-> "later"]]
          /\ UNCHANGED recorded
    /\ worker' = [worker EXCEPT ![w] = Resting]
    /\ UNCHANGED <<hooks, dispatcher, todo, queue, accepted, trouble>>

RecordFails(w) ==
    /\ worker[w].step \in {"accepted", "refused", "skip"}
    /\ Trouble
    /\ worker' = [worker EXCEPT ![w] = Resting]
    /\ UNCHANGED <<row, hooks, dispatcher, todo, queue, accepted, recorded>>

\* The API process dies with its queue.
EngineRestart(g) ==
    /\ Trouble
    /\ todo' = [todo EXCEPT ![g] = {}]
    /\ queue' = [queue EXCEPT ![g] = <<>>]
    /\ worker' = [w \in Worker |-> IF w[1] = g THEN Resting ELSE worker[w]]
    /\ UNCHANGED <<row, hooks, dispatcher, accepted, recorded>>
---------------------------------------------------------------------------

Dispatch(d) ==
    \/ GetPendingEvents(d)
    \/ ListHooks(d)
    \/ \E k \in Hook : Deliver(d, k)
    \/ UpdateEventStatus(d)

Work(g, s) == TakeJob(g, s) \/ Post(<<g, s>>) \/ Record(<<g, s>>)

Merchant == ChangeHooks \/ \E e \in Event : Enqueue(e) \/ ResetEvent(e)

Failure ==
    \/ \E d \in Dispatcher : ListFails(d) \/ UpdateFails(d) \/ DispatcherRestart(d)
    \/ \E g \in Engine : EngineRestart(g)
    \/ \E g \in Engine, s \in Slot : LookupFails(g, s) \/ RecordFails(<<g, s>>)

Next ==
    \/ Merchant
    \/ \E e \in Event : ComesDue(e)
    \/ \E d \in Dispatcher : Dispatch(d)
    \/ \E g \in Engine : Select(g) \/ Push(g)
    \/ \E g \in Engine, s \in Slot : Work(g, s)
    \/ Failure

Spec == Init /\ [][Next]_vars

\* Time passes, the ticker of a dispatcher fires, statements return and a POST
\* ends within its 10 seconds.  Nothing is asked of the select of an engine.
FairSpec ==
    /\ Spec
    /\ \A e \in Event : WF_vars(ComesDue(e))
    /\ \A d \in Dispatcher : WF_vars(Dispatch(d))
    /\ \A g \in Engine : WF_vars(Push(g))
    /\ \A g \in Engine, s \in Slot : WF_vars(Work(g, s))

---------------------------------------------------------------------------

\* The engine never makes the first attempt at an event, however often it is
\* reset: what the engine queues or delivers has been tried by a dispatcher
\* before, for its select cannot read a NULL next_retry
\* (webhook_worker.go:30, 84-100).
EngineNeverFirst ==
    /\ \A g \in Engine :
          /\ \A c \in todo[g] : c.attempts > 0
          /\ \A i \in DOMAIN queue[g] : queue[g][i].attempts > 0
    /\ \A w \in Worker : worker[w] = Resting \/ worker[w].copy.attempts > 0

\* An event that reads delivered or completed was accepted by some webhook, with
\* the two kinds of workers and stale copies overwriting each other
\* (webhook_service.go:229-231, webhook_worker.go:146-149).
DeliveredWasAccepted ==
    \A e \in Event : row[e].status \in {"delivered", "completed"} => e \in accepted

\* An event is given up only after MaxAttempts attempts were recorded: copies
\* that race count fewer attempts than there were and never more
\* (webhook_service.go:277-287, webhook_worker.go:155-173).
GivenUpAfterMaxAttempts ==
    \A e \in Event : row[e].status = "failed" => recorded[e] = MaxAttempts

\* Retries end: stale copies may make a delivered or failed event pending again
\* (webhook_worker.go:175-184, webhook_repository.go:177-186), but not for ever.
EventsComeToRest ==
    \A e \in Event : <>[](row[e].status # "pending")
---------------------------------------------------------------------------
(* The contract, and the columns of the table that implement it *)

Contract == INSTANCE DeliveryContract
    WITH state <- [e \in Event |-> row[e].status],
         attempts <- [e \in Event |-> row[e].attempts]

\* One dispatcher works on the table: the webhook-service while no API runs.
Alone == Engine = {} /\ \E d \in Dispatcher : Dispatcher = {d}

\* A dispatcher has a copy of the event, and will write the row from it.
Holds(d, e) ==
    \/ dispatcher[d] # Resting /\ \E c \in dispatcher[d].left : c.event = e
    \/ dispatcher[d].step = "post" /\ dispatcher[d].copy.event = e

\* Merchants ask for no event just then; ResetEvent itself has no such
\* condition (webhook_repository.go:228-233).
RetriesMeetNoCopy == [][\A e \in Event, d \in Dispatcher : ResetEvent(e) => ~Holds(d, e)]_vars

\* The promise of DeliveryContract, which a dispatcher left alone keeps whatever
\* fails: no event is posted again once it is delivered or given up, and each
\* recorded attempt counts one (webhook_service.go:188-287).
ImplementsContract == Contract!Spec
=============================================================================
