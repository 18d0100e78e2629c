---------------------- MODULE WebhookDeliveryProofs ----------------------
(***************************************************************************)
(* Proofs about WebhookDelivery for any events, webhooks, dispatchers and  *)
(* engines, any limits and any number of failures.                         *)
(***************************************************************************)
EXTENDS WebhookDelivery, TLAPS

\* A row: a pending one has attempts left and has been tried unless its
\* next_retry is NULL; the others are what their status says.
RowSound(r, count, isAccepted) ==
    /\ r \in Row
    /\ r.attempts <= count
    /\ r.status \in {"none", "pending"} =>
          r.attempts < MaxAttempts /\ (r.next = "null" \/ r.attempts > 0)
    /\ r.status \in {"delivered", "completed"} => isAccepted
    /\ r.status = "failed" => count = MaxAttempts

\* A copy, however old, counts no attempt that was not recorded.
CopySound(c, count) == c \in Copy /\ c.attempts <= count[c.event]

DispatcherSound(x, count, acc) ==
    \/ x = Resting
    \/ x \in Batch /\ \A c \in x.left : CopySound(c, count)
    \/ /\ x \in Delivery
       /\ \A c \in x.left : CopySound(c, count)
       /\ CopySound(x.copy, count)
       /\ x.delivered => x.copy.event \in acc

TodoSound(copies, count) == \A c \in copies : CopySound(c, count) /\ c.attempts > 0

QueueSound(q, count) ==
    /\ q \in Seq(Copy)
    /\ \A i \in DOMAIN q : CopySound(q[i], count) /\ q[i].attempts > 0

WorkerSound(x, count, acc) ==
    \/ x = Resting
    \/ /\ x \in Job
       /\ CopySound(x.copy, count)
       /\ x.copy.attempts > 0
       /\ x.step = "accepted" => x.copy.event \in acc

RowsSound ==
    /\ row \in [Event -> Row]
    /\ \A e \in Event : RowSound(row[e], recorded[e], e \in accepted)
DispatchersSound ==
    /\ dispatcher \in [Dispatcher -> Batch \cup Delivery \cup {Resting}]
    /\ \A d \in Dispatcher : DispatcherSound(dispatcher[d], recorded, accepted)
EnginesSound ==
    /\ todo \in [Engine -> SUBSET Copy]
    /\ queue \in [Engine -> Seq(Copy)]
    /\ \A g \in Engine : TodoSound(todo[g], recorded) /\ QueueSound(queue[g], recorded)
WorkersSound ==
    /\ worker \in [Worker -> Job \cup {Resting}]
    /\ \A w \in Worker : WorkerSound(worker[w], recorded, accepted)

\* What the merchant, the bounds and the histories may be.
OthersSound ==
    /\ hooks \subseteq Hook
    /\ accepted \subseteq Event
    /\ recorded \in [Event -> 0..MaxAttempts]
    /\ trouble \in 0..MaxTrouble

DeliveryInv == OthersSound /\ RowsSound /\ DispatchersSound /\ EnginesSound /\ WorkersSound

---------------------------------------------------------------------------
(* The histories only grow, and what is sound stays so. *)

Grows ==
    /\ accepted \subseteq accepted'
    /\ \A e \in Event : recorded[e] <= recorded'[e]
    /\ OthersSound'

LEMMA CopyKept ==
    ASSUME OthersSound, Grows, NEW c, CopySound(c, recorded)
    PROVE  CopySound(c, recorded')
<1>1. c.event \in Event /\ c.attempts \in 0..MaxAttempts - 1
  BY DEF CopySound, Copy
<1>2. /\ recorded[c.event] <= recorded'[c.event]
      /\ recorded[c.event] \in 0..MaxAttempts /\ recorded'[c.event] \in 0..MaxAttempts
  BY <1>1 DEF Grows, OthersSound
<1> QED
  BY <1>1, <1>2, MaxAttemptsAssumption DEF CopySound

LEMMA DispatcherKept ==
    ASSUME OthersSound, Grows, NEW x, DispatcherSound(x, recorded, accepted)
    PROVE  DispatcherSound(x, recorded', accepted')
BY CopyKept DEF DispatcherSound, Grows

LEMMA TodoKept ==
    ASSUME OthersSound, Grows, NEW T, TodoSound(T, recorded)
    PROVE  TodoSound(T, recorded')
BY CopyKept DEF TodoSound

LEMMA QueueKept ==
    ASSUME OthersSound, Grows, NEW q, QueueSound(q, recorded)
    PROVE  QueueSound(q, recorded')
BY CopyKept DEF QueueSound

LEMMA WorkerKept ==
    ASSUME OthersSound, Grows, NEW x, WorkerSound(x, recorded, accepted)
    PROVE  WorkerSound(x, recorded', accepted')
BY CopyKept DEF WorkerSound, Grows

LEMMA RowKept ==
    ASSUME OthersSound, Grows, NEW e \in Event, NEW r,
           RowSound(r, recorded[e], e \in accepted)
    PROVE  RowSound(r, recorded'[e], e \in accepted')
<1>1. /\ recorded[e] <= recorded'[e]
      /\ recorded[e] \in 0..MaxAttempts /\ recorded'[e] \in 0..MaxAttempts
      /\ e \in accepted => e \in accepted'
  BY DEF Grows, OthersSound
<1>2. r.attempts \in 0..MaxAttempts
  BY DEF RowSound, Row
<1> QED
  BY <1>1, <1>2, MaxAttemptsAssumption DEF RowSound

---------------------------------------------------------------------------
(* What a step leaves alone, and the one place it changes *)

LEMMA RowsKept ==
    ASSUME DeliveryInv, Grows, row' = row
    PROVE  RowsSound'
BY RowKept DEF DeliveryInv, RowsSound

LEMMA DispatchersKept ==
    ASSUME DeliveryInv, Grows, dispatcher' = dispatcher
    PROVE  DispatchersSound'
BY DispatcherKept DEF DeliveryInv, DispatchersSound

LEMMA EnginesKept ==
    ASSUME DeliveryInv, Grows, todo' = todo, queue' = queue
    PROVE  EnginesSound'
BY TodoKept, QueueKept DEF DeliveryInv, EnginesSound

LEMMA WorkersKept ==
    ASSUME DeliveryInv, Grows, worker' = worker
    PROVE  WorkersSound'
BY WorkerKept DEF DeliveryInv, WorkersSound

LEMMA OneRow ==
    ASSUME DeliveryInv, Grows, NEW e \in Event, NEW r,
           RowSound(r, recorded'[e], e \in accepted'),
           row' = [row EXCEPT ![e] = r]
    PROVE  RowsSound'
<1>1. r \in Row
  BY DEF RowSound
<1>2. row' \in [Event -> Row]
  BY <1>1 DEF DeliveryInv, RowsSound
<1>3. ASSUME NEW f \in Event PROVE RowSound(row'[f], recorded'[f], f \in accepted')
  BY <1>2, RowKept DEF DeliveryInv, RowsSound
<1> QED
  BY <1>2, <1>3 DEF RowsSound

LEMMA OneDispatcher ==
    ASSUME DeliveryInv, Grows, NEW d \in Dispatcher, NEW x,
           DispatcherSound(x, recorded', accepted'),
           dispatcher' = [dispatcher EXCEPT ![d] = x]
    PROVE  DispatchersSound'
<1>1. x \in Batch \cup Delivery \cup {Resting}
  BY DEF DispatcherSound
<1>2. dispatcher' \in [Dispatcher -> Batch \cup Delivery \cup {Resting}]
  BY <1>1 DEF DeliveryInv, DispatchersSound
<1>3. ASSUME NEW b \in Dispatcher
      PROVE  DispatcherSound(dispatcher'[b], recorded', accepted')
  BY <1>2, DispatcherKept DEF DeliveryInv, DispatchersSound
<1> QED
  BY <1>2, <1>3 DEF DispatchersSound

LEMMA OneWorker ==
    ASSUME DeliveryInv, Grows, NEW w \in Worker, NEW x,
           WorkerSound(x, recorded', accepted'),
           worker' = [worker EXCEPT ![w] = x]
    PROVE  WorkersSound'
<1>1. x \in Job \cup {Resting}
  BY DEF WorkerSound
<1>2. worker' \in [Worker -> Job \cup {Resting}]
  BY <1>1 DEF DeliveryInv, WorkersSound
<1>3. ASSUME NEW v \in Worker PROVE WorkerSound(worker'[v], recorded', accepted')
  BY <1>2, WorkerKept DEF DeliveryInv, WorkersSound
<1> QED
  BY <1>2, <1>3 DEF WorkersSound

\* The steps that write no history, and those that may be a failure.
LEMMA NothingRecorded ==
    ASSUME DeliveryInv, recorded' = recorded, accepted' = accepted,
           hooks' \subseteq Hook, trouble' = trouble \/ Trouble
    PROVE  Grows
<1>1. trouble' \in 0..MaxTrouble
  BY MaxTroubleAssumption DEF DeliveryInv, OthersSound, Trouble
<1>2. \A e \in Event : recorded[e] <= recorded'[e]
  BY MaxAttemptsAssumption DEF DeliveryInv, OthersSound
<1> QED
  BY <1>1, <1>2 DEF Grows, DeliveryInv, OthersSound

\* An attempt is recorded, and the copy it was made from counted fewer.
LEMMA AttemptRecorded ==
    ASSUME DeliveryInv, NEW c, CopySound(c, recorded), NEW r,
           Write(c.event, r), accepted' = accepted,
           hooks' = hooks, trouble' = trouble \/ Trouble
    PROVE  /\ Grows
           /\ c.event \in Event
           /\ c.attempts + 1 \in 1..MaxAttempts
           /\ c.attempts + 1 <= recorded'[c.event]
           /\ recorded'[c.event] \in 0..MaxAttempts
<1>1. c.event \in Event /\ c.attempts \in 0..MaxAttempts - 1 /\ c.attempts <= recorded[c.event]
  BY DEF CopySound, Copy
<1>2. \A e \in Event : recorded[e] \in 0..MaxAttempts
  BY DEF DeliveryInv, OthersSound
<1>3. /\ recorded' \in [Event -> 0..MaxAttempts]
      /\ \A e \in Event : recorded[e] <= recorded'[e]
      /\ c.attempts + 1 <= recorded'[c.event]
  BY <1>1, <1>2, MaxAttemptsAssumption DEF DeliveryInv, OthersSound, Write
<1>4. trouble' \in 0..MaxTrouble
  BY MaxTroubleAssumption DEF DeliveryInv, OthersSound, Trouble
<1> QED
  BY <1>1, <1>3, <1>4, MaxAttemptsAssumption DEF Grows, DeliveryInv, OthersSound

\* The row that a failed delivery leaves behind.
LEMMA RetrySound ==
    ASSUME NEW c, c.attempts + 1 \in 1..MaxAttempts, c.attempts \in Nat,
           NEW count \in 0..MaxAttempts,
           c.attempts + 1 <= count, NEW next \in {"null", "due"}, NEW acc
    PROVE  RowSound(Retry(c, next), count, acc)
BY MaxAttemptsAssumption DEF RowSound, Retry, GivesUp, Row, Status

\* What a select returns.
LEMMA CopiesSound ==
    ASSUME DeliveryInv, NEW events \in SUBSET Due, NEW c \in Copies(events)
    PROVE  /\ CopySound(c, recorded)
           /\ row[c.event].next # "null" => c.attempts > 0
<1>1. PICK e \in events : c = [event |-> e, attempts |-> row[e].attempts]
  BY DEF Copies
<1>2. e \in Event /\ row[e].status = "pending" /\ RowSound(row[e], recorded[e], e \in accepted)
  BY DEF Due, DeliveryInv, RowsSound
<1>3. row[e].attempts \in 0..MaxAttempts - 1
  BY <1>2, MaxAttemptsAssumption DEF RowSound, Row
<1> QED
  BY <1>1, <1>2, <1>3 DEF CopySound, Copy, RowSound

---------------------------------------------------------------------------
(* The steps: the table *)

LEMMA TableStep ==
    ASSUME DeliveryInv, NEW e \in Event, Enqueue(e) \/ ResetEvent(e) \/ ComesDue(e)
    PROVE  DeliveryInv'
<1>1. Grows
  BY NothingRecorded DEF Enqueue, ResetEvent, ComesDue, DeliveryInv, OthersSound
<1>2. DispatchersSound' /\ EnginesSound' /\ WorkersSound'
  BY <1>1, DispatchersKept, EnginesKept, WorkersKept DEF Enqueue, ResetEvent, ComesDue
<1>3. /\ RowSound(row[e], recorded[e], e \in accepted)
      /\ recorded[e] \in 0..MaxAttempts
      /\ recorded' = recorded /\ accepted' = accepted
  BY DEF DeliveryInv, RowsSound, OthersSound, Enqueue, ResetEvent, ComesDue
<1>4. RowsSound'
  <2>1. CASE Enqueue(e)
    <3>1. RowSound([row[e] EXCEPT !.status = "pending"], recorded'[e], e \in accepted')
      BY <2>1, <1>3 DEF Enqueue, RowSound, Row, Status
    <3> QED
      BY <2>1, <1>1, <3>1, OneRow DEF Enqueue
  <2>2. CASE ResetEvent(e)
    <3>1. RowSound([status |-> "pending", attempts |-> 0, next |-> "null"],
                   recorded'[e], e \in accepted')
      BY <1>3, MaxAttemptsAssumption DEF RowSound, Row, Status
    <3> QED
      BY <2>2, <1>1, <3>1, OneRow DEF ResetEvent
  <2>3. CASE ComesDue(e)
    <3>1. RowSound([row[e] EXCEPT !.next = "due"], recorded'[e], e \in accepted')
      BY <2>3, <1>3 DEF ComesDue, RowSound, Row
    <3> QED
      BY <2>3, <1>1, <3>1, OneRow DEF ComesDue
  <2> QED
    BY <2>1, <2>2, <2>3
<1> QED
  BY <1>1, <1>2, <1>4 DEF DeliveryInv, Grows

LEMMA HooksStep == ASSUME DeliveryInv, ChangeHooks PROVE DeliveryInv'
<1>1. Grows
  BY NothingRecorded DEF ChangeHooks, DeliveryInv, OthersSound
<1> QED
  BY <1>1, RowsKept, DispatchersKept, EnginesKept, WorkersKept
  DEF ChangeHooks, DeliveryInv, Grows

---------------------------------------------------------------------------
(* The steps: the dispatchers *)

\* What a dispatcher goes on with when it has dealt with one copy.
LEMMA NextCopySound ==
    ASSUME NEW left, left \in SUBSET Copy, NEW count, NEW acc,
           \A c \in left : CopySound(c, count)
    PROVE  DispatcherSound(NextCopy(left), count, acc)
BY DEF DispatcherSound, NextCopy, Batch

\* What a dispatcher holds at each of its steps.
LEMMA DispatcherHolds ==
    ASSUME DeliveryInv, NEW d \in Dispatcher
    PROVE  /\ dispatcher[d].step = "next" =>
                 /\ dispatcher[d].left \in SUBSET Copy
                 /\ \A c \in dispatcher[d].left : CopySound(c, recorded)
           /\ dispatcher[d].step = "post" =>
                 /\ dispatcher[d] \in Delivery
                 /\ dispatcher[d].left \in SUBSET Copy
                 /\ \A c \in dispatcher[d].left : CopySound(c, recorded)
                 /\ dispatcher[d].hooks \in SUBSET Hook
                 /\ CopySound(dispatcher[d].copy, recorded)
                 /\ dispatcher[d].delivered \in BOOLEAN
                 /\ dispatcher[d].delivered => dispatcher[d].copy.event \in accepted
<1>1. DispatcherSound(dispatcher[d], recorded, accepted)
  BY DEF DeliveryInv, DispatchersSound
<1> QED
  BY <1>1 DEF DispatcherSound, Resting, Batch, Delivery

LEMMA FetchStep ==
    ASSUME DeliveryInv, NEW d \in Dispatcher, GetPendingEvents(d)
    PROVE  DeliveryInv'
<1>1. Grows
  BY NothingRecorded DEF GetPendingEvents, DeliveryInv, OthersSound
<1>2. \A c \in Copies(Oldest(BatchSize)) : CopySound(c, recorded')
  BY CopiesSound DEF GetPendingEvents, Oldest
<1>3. Copies(Oldest(BatchSize)) \in SUBSET Copy
  BY <1>2 DEF CopySound
<1>4. DispatcherSound(NextCopy(Copies(Oldest(BatchSize))), recorded', accepted')
  BY <1>2, <1>3, NextCopySound
<1>5. DispatchersSound'
  BY <1>1, <1>4, OneDispatcher DEF GetPendingEvents
<1> QED
  BY <1>1, <1>5, RowsKept, EnginesKept, WorkersKept DEF GetPendingEvents, DeliveryInv, Grows

LEMMA ListStep ==
    ASSUME DeliveryInv, NEW d \in Dispatcher, ListHooks(d)
    PROVE  DeliveryInv'
<1>1. Grows
  BY NothingRecorded DEF ListHooks, DeliveryInv, OthersSound
<1>2. PICK c \in dispatcher[d].left :
          dispatcher' = [dispatcher EXCEPT ![d] =
             [step |-> "post", left |-> dispatcher[d].left \ {c}, copy |-> c,
              hooks |-> {k \in hooks : c.event \in Wants[k]}, delivered |-> FALSE]]
  BY DEF ListHooks
<1> DEFINE x == [step |-> "post", left |-> dispatcher[d].left \ {c}, copy |-> c,
                 hooks |-> {k \in hooks : c.event \in Wants[k]}, delivered |-> FALSE]
<1>3. /\ dispatcher[d].left \in SUBSET Copy
      /\ \A b \in dispatcher[d].left : CopySound(b, recorded')
  BY DispatcherHolds DEF ListHooks
<1>4. {k \in hooks : c.event \in Wants[k]} \in SUBSET Hook
  BY DEF DeliveryInv, OthersSound
<1>5. x \in Delivery
  BY <1>2, <1>3, <1>4 DEF Delivery
<1>6. DispatcherSound(x, recorded', accepted')
  BY <1>2, <1>3, <1>5 DEF DispatcherSound
<1>7. DispatchersSound'
  BY <1>1, <1>2, <1>6, OneDispatcher
<1> QED
  BY <1>1, <1>7, RowsKept, EnginesKept, WorkersKept DEF ListHooks, DeliveryInv, Grows

LEMMA DeliverStep ==
    ASSUME DeliveryInv, NEW d \in Dispatcher, NEW k \in Hook, Deliver(d, k)
    PROVE  DeliveryInv'
<1> DEFINE x == dispatcher[d]
<1>1. /\ x \in Delivery /\ \A c \in x.left : CopySound(c, recorded)
      /\ CopySound(x.copy, recorded)
      /\ x.delivered => x.copy.event \in accepted
  BY DispatcherHolds DEF Deliver
<1>2. x.copy.event \in Event
  BY <1>1 DEF CopySound, Copy
<1>3. /\ accepted \subseteq accepted' /\ accepted' \subseteq Event
      /\ recorded' = recorded /\ hooks' = hooks /\ trouble' = trouble
  BY <1>2 DEF Deliver, DeliveryInv, OthersSound
<1>4. Grows
  BY <1>3 DEF Grows, DeliveryInv, OthersSound
<1>5. DispatchersSound'
  <2>1. CASE /\ dispatcher' = [dispatcher EXCEPT ![d] =
                    [x EXCEPT !.hooks = @ \ {k}, !.delivered = TRUE]]
             /\ accepted' = accepted \cup {x.copy.event}
    <3> DEFINE y == [x EXCEPT !.hooks = @ \ {k}, !.delivered = TRUE]
    <3>1. y \in Delivery /\ y.left = x.left /\ y.copy = x.copy
      BY <1>1 DEF Delivery
    <3>2. DispatcherSound(y, recorded', accepted')
      BY <2>1, <3>1, <1>1, <1>3 DEF DispatcherSound
    <3> QED
      BY <2>1, <3>2, <1>4, OneDispatcher
  <2>2. CASE /\ dispatcher' = [dispatcher EXCEPT ![d] = [x EXCEPT !.hooks = @ \ {k}]]
             /\ accepted' = accepted
    <3> DEFINE y == [x EXCEPT !.hooks = @ \ {k}]
    <3>1. /\ y \in Delivery /\ y.left = x.left /\ y.copy = x.copy
          /\ y.delivered = x.delivered
      BY <1>1 DEF Delivery
    <3>2. DispatcherSound(y, recorded', accepted')
      BY <2>2, <3>1, <1>1, <1>3 DEF DispatcherSound
    <3> QED
      BY <2>2, <3>2, <1>4, OneDispatcher
  <2> QED
    BY <2>1, <2>2 DEF Deliver
<1> QED
  BY <1>4, <1>5, RowsKept, EnginesKept, WorkersKept DEF Deliver, DeliveryInv, Grows

\* A dispatcher that writes a row and goes on, in either of two ways.
LEMMA WriteAndGoOn ==
    ASSUME DeliveryInv, NEW d \in Dispatcher, NEW c, NEW r, NEW left,
           CopySound(c, recorded), left \in SUBSET Copy,
           \A b \in left : CopySound(b, recorded),
           Write(c.event, r),
           RowSound(r, recorded'[c.event], c.event \in accepted),
           dispatcher' = [dispatcher EXCEPT ![d] = NextCopy(left)],
           trouble' = trouble \/ Trouble,
           UNCHANGED <<hooks, todo, queue, worker, accepted>>
    PROVE  DeliveryInv'
<1>1. Grows /\ c.event \in Event
  BY AttemptRecorded
<1>2. RowsSound'
  BY <1>1, OneRow DEF Write
<1>3. \A b \in left : CopySound(b, recorded')
  BY <1>1, CopyKept DEF DeliveryInv
<1>4. DispatchersSound'
  BY <1>1, <1>3, NextCopySound, OneDispatcher
<1> QED
  BY <1>1, <1>2, <1>4, EnginesKept, WorkersKept DEF DeliveryInv, Grows

LEMMA UpdateStep ==
    ASSUME DeliveryInv, NEW d \in Dispatcher, UpdateEventStatus(d)
    PROVE  DeliveryInv'
<1> DEFINE x == dispatcher[d]
           c == x.copy
<1>1. /\ \A b \in x.left : CopySound(b, recorded)
      /\ x.left \in SUBSET Copy
      /\ CopySound(c, recorded)
      /\ x.delivered \in BOOLEAN
      /\ x.delivered => c.event \in accepted
  BY DispatcherHolds DEF UpdateEventStatus
<1>2. /\ Write(c.event, Verdict(x))
      /\ dispatcher' = [dispatcher EXCEPT ![d] = NextCopy(x.left)]
      /\ UNCHANGED <<hooks, todo, queue, worker, accepted, trouble>>
  BY DEF UpdateEventStatus
<1>3. /\ c.event \in Event /\ c.attempts + 1 \in 1..MaxAttempts
      /\ c.attempts + 1 <= recorded'[c.event] /\ recorded'[c.event] \in 0..MaxAttempts
  BY <1>1, <1>2, AttemptRecorded
<1>4. c.attempts \in Nat
  BY <1>1, MaxAttemptsAssumption DEF CopySound, Copy
<1>5. RowSound(Verdict(x), recorded'[c.event], c.event \in accepted)
  <2>1. CASE x.delivered
    <3>1. Verdict(x) = [status |-> "delivered", attempts |-> c.attempts + 1, next |-> "null"]
      BY <2>1 DEF Verdict
    <3> QED
      BY <2>1, <3>1, <1>1, <1>3, MaxAttemptsAssumption DEF RowSound, Row, Status
  <2>2. CASE ~x.delivered
    <3>1. Verdict(x) = Retry(c, "null")
      BY <2>2 DEF Verdict
    <3> QED
      BY <3>1, <1>3, <1>4, RetrySound
  <2> QED
    BY <2>1, <2>2
<1> HIDE DEF x, c
<1> QED
  BY <1>1, <1>2, <1>5, WriteAndGoOn

LEMMA ListFailsStep ==
    ASSUME DeliveryInv, NEW d \in Dispatcher, ListFails(d)
    PROVE  DeliveryInv'
<1>1. PICK c \in dispatcher[d].left :
          /\ Write(c.event, Retry(c, "null"))
          /\ dispatcher' = [dispatcher EXCEPT ![d] = NextCopy(dispatcher[d].left \ {c})]
  BY DEF ListFails
<1>2. /\ \A b \in dispatcher[d].left : CopySound(b, recorded)
      /\ dispatcher[d].left \in SUBSET Copy
  BY DispatcherHolds DEF ListFails
<1>3. Trouble /\ UNCHANGED <<hooks, todo, queue, worker, accepted>>
  BY DEF ListFails
<1>4. /\ c.event \in Event /\ c.attempts + 1 \in 1..MaxAttempts
      /\ c.attempts + 1 <= recorded'[c.event] /\ recorded'[c.event] \in 0..MaxAttempts
  BY <1>1, <1>2, <1>3, AttemptRecorded
<1>5. c.attempts \in Nat
  BY <1>2, MaxAttemptsAssumption DEF CopySound, Copy
<1>6. RowSound(Retry(c, "null"), recorded'[c.event], c.event \in accepted)
  BY <1>4, <1>5, RetrySound
<1>7. dispatcher[d].left \ {c} \in SUBSET Copy
  BY <1>2
<1> QED
  BY <1>1, <1>2, <1>3, <1>6, <1>7, WriteAndGoOn

LEMMA DispatcherTroubleStep ==
    ASSUME DeliveryInv, NEW d \in Dispatcher, UpdateFails(d) \/ DispatcherRestart(d)
    PROVE  DeliveryInv'
<1>1. Grows
  BY NothingRecorded DEF UpdateFails, DispatcherRestart, DeliveryInv, OthersSound
<1>2. CASE UpdateFails(d)
  <2>1. /\ dispatcher[d].left \in SUBSET Copy
        /\ \A b \in dispatcher[d].left : CopySound(b, recorded')
    BY <1>2, DispatcherHolds DEF UpdateFails
  <2>2. DispatchersSound'
    BY <1>1, <1>2, <2>1, NextCopySound, OneDispatcher DEF UpdateFails
  <2> QED
    BY <1>1, <1>2, <2>2, RowsKept, EnginesKept, WorkersKept DEF UpdateFails, DeliveryInv, Grows
<1>3. CASE DispatcherRestart(d)
  <2>1. DispatchersSound'
    BY <1>1, <1>3, OneDispatcher DEF DispatcherRestart, DispatcherSound
  <2> QED
    BY <1>1, <1>3, <2>1, RowsKept, EnginesKept, WorkersKept
    DEF DispatcherRestart, DeliveryInv, Grows
<1> QED
  BY <1>2, <1>3

---------------------------------------------------------------------------
(* The steps: the engines *)

\* The queue and the selection of one engine change.
LEMMA OneEngine ==
    ASSUME DeliveryInv, Grows, NEW g \in Engine, NEW T, NEW q,
           TodoSound(T, recorded'), T \in SUBSET Copy, QueueSound(q, recorded'),
           todo' = [todo EXCEPT ![g] = T], queue' = [queue EXCEPT ![g] = q]
    PROVE  EnginesSound'
<1>1. todo' \in [Engine -> SUBSET Copy] /\ queue' \in [Engine -> Seq(Copy)]
  BY DEF DeliveryInv, EnginesSound, QueueSound
<1>2. ASSUME NEW f \in Engine
      PROVE  TodoSound(todo'[f], recorded') /\ QueueSound(queue'[f], recorded')
  BY <1>1, TodoKept, QueueKept DEF DeliveryInv, EnginesSound
<1> QED
  BY <1>1, <1>2 DEF EnginesSound

\* What an engine holds.
LEMMA EngineHolds ==
    ASSUME DeliveryInv, NEW g \in Engine
    PROVE  /\ todo[g] \in SUBSET Copy
           /\ TodoSound(todo[g], recorded)
           /\ queue[g] \in Seq(Copy)
           /\ QueueSound(queue[g], recorded)
           /\ todo = [todo EXCEPT ![g] = todo[g]]
           /\ queue = [queue EXCEPT ![g] = queue[g]]
BY DEF DeliveryInv, EnginesSound

LEMMA SelectStep ==
    ASSUME DeliveryInv, NEW g \in Engine, Select(g)
    PROVE  DeliveryInv'
<1>1. Grows /\ recorded' = recorded
  BY NothingRecorded DEF Select, DeliveryInv, OthersSound
<1> DEFINE T == Copies(Oldest(EngineLimit))
<1>2. ASSUME NEW c \in T PROVE CopySound(c, recorded) /\ c.attempts > 0
  <2>1. c.event \in Oldest(EngineLimit)
    BY DEF Copies
  <2> QED
    BY <2>1, CopiesSound DEF Select, Oldest
<1>3. TodoSound(T, recorded') /\ T \in SUBSET Copy
  BY <1>1, <1>2 DEF TodoSound, CopySound
<1>4. EnginesSound'
  <2>1. QueueSound(queue[g], recorded')
    BY <1>1, EngineHolds
  <2>2. todo' = [todo EXCEPT ![g] = T] /\ queue' = [queue EXCEPT ![g] = queue[g]]
    BY EngineHolds DEF Select
  <2> QED
    BY <1>1, <1>3, <2>1, <2>2, OneEngine
<1> QED
  BY <1>1, <1>4, RowsKept, DispatchersKept, WorkersKept DEF Select, DeliveryInv, Grows

LEMMA AppendSound ==
    ASSUME NEW q, NEW count, QueueSound(q, count), NEW c, CopySound(c, count), c.attempts > 0
    PROVE  QueueSound(Append(q, c), count)
<1>1. q \in Seq(Copy) /\ c \in Copy
  BY DEF QueueSound, CopySound
<1>2. Append(q, c) \in Seq(Copy)
  BY <1>1
<1>3. ASSUME NEW i \in DOMAIN Append(q, c)
      PROVE  CopySound(Append(q, c)[i], count) /\ Append(q, c)[i].attempts > 0
  <2>1. i \in 1..Len(q) + 1
    BY <1>1, <1>3
  <2>2. CASE i = Len(q) + 1
    BY <2>2, <1>1
  <2>3. CASE i \in 1..Len(q)
    <3>1. Append(q, c)[i] = q[i] /\ i \in DOMAIN q
      BY <2>3, <1>1
    <3> QED
      BY <3>1 DEF QueueSound
  <2> QED
    BY <1>1, <2>1, <2>2, <2>3
<1> QED
  BY <1>2, <1>3 DEF QueueSound

LEMMA TailSound ==
    ASSUME NEW q, NEW count, QueueSound(q, count), q # <<>>
    PROVE  /\ QueueSound(Tail(q), count)
           /\ CopySound(Head(q), count) /\ Head(q).attempts > 0
<1>1. q \in Seq(Copy) /\ Len(q) \in Nat /\ Len(q) > 0
  BY DEF QueueSound
<1>2. Head(q) = q[1] /\ 1 \in DOMAIN q
  BY <1>1
<1>3. Tail(q) \in Seq(Copy)
  BY <1>1
<1>4. ASSUME NEW i \in DOMAIN Tail(q)
      PROVE  CopySound(Tail(q)[i], count) /\ Tail(q)[i].attempts > 0
  <2>1. Tail(q)[i] = q[i + 1] /\ i + 1 \in DOMAIN q
    BY <1>1, <1>4
  <2> QED
    BY <2>1 DEF QueueSound
<1> QED
  BY <1>2, <1>3, <1>4 DEF QueueSound

LEMMA PushStep ==
    ASSUME DeliveryInv, NEW g \in Engine, Push(g)
    PROVE  DeliveryInv'
<1>1. Grows /\ recorded' = recorded
  BY NothingRecorded DEF Push, DeliveryInv, OthersSound
<1>2. PICK c \in todo[g] :
          /\ todo' = [todo EXCEPT ![g] = todo[g] \ {c}]
          /\ queue' = IF Len(queue[g]) < QueueSize
                      THEN [queue EXCEPT ![g] = Append(queue[g], c)] ELSE queue
  BY DEF Push
<1>3. /\ todo[g] \ {c} \in SUBSET Copy
      /\ TodoSound(todo[g] \ {c}, recorded')
      /\ CopySound(c, recorded') /\ c.attempts > 0
  BY <1>1, EngineHolds DEF TodoSound
<1>4. QueueSound(queue[g], recorded') /\ QueueSound(Append(queue[g], c), recorded')
  BY <1>1, <1>3, EngineHolds, AppendSound
<1>5. EnginesSound'
  <2>1. CASE Len(queue[g]) < QueueSize
    BY <2>1, <1>1, <1>2, <1>3, <1>4, OneEngine
  <2>2. CASE ~(Len(queue[g]) < QueueSize)
    <3>1. queue' = [queue EXCEPT ![g] = queue[g]]
      BY <2>2, <1>2, EngineHolds
    <3> QED
      BY <3>1, <1>1, <1>2, <1>3, <1>4, OneEngine
  <2> QED
    BY <2>1, <2>2
<1> QED
  BY <1>1, <1>5, RowsKept, DispatchersKept, WorkersKept DEF Push, DeliveryInv, Grows

\* A worker takes the head of the queue, to post it or to skip it.
LEMMA TakeStep ==
    ASSUME DeliveryInv, NEW g \in Engine, NEW s \in Slot,
           TakeJob(g, s) \/ LookupFails(g, s)
    PROVE  DeliveryInv'
<1>1. Grows /\ recorded' = recorded
  BY NothingRecorded DEF TakeJob, LookupFails, DeliveryInv, OthersSound
<1>2. PICK step \in {"posting", "skip"} :
          worker' = [worker EXCEPT ![<<g, s>>] = [step |-> step, copy |-> Head(queue[g])]]
  BY DEF TakeJob, LookupFails
<1>3. queue[g] # <<>> /\ todo' = todo /\ queue' = [queue EXCEPT ![g] = Tail(queue[g])]
  BY DEF TakeJob, LookupFails
<1>4. /\ QueueSound(Tail(queue[g]), recorded')
      /\ CopySound(Head(queue[g]), recorded') /\ Head(queue[g]).attempts > 0
  BY <1>1, <1>3, EngineHolds, TailSound
<1>5. EnginesSound'
  <2>1. /\ todo' = [todo EXCEPT ![g] = todo[g]]
        /\ todo[g] \in SUBSET Copy /\ TodoSound(todo[g], recorded')
    BY <1>1, <1>3, EngineHolds
  <2> QED
    BY <1>1, <1>3, <1>4, <2>1, OneEngine
<1>6. WorkersSound'
  <2>1. WorkerSound([step |-> step, copy |-> Head(queue[g])], recorded', accepted')
    BY <1>4 DEF WorkerSound, Job, Outcome, CopySound
  <2>2. <<g, s>> \in Worker
    BY DEF Worker
  <2> QED
    BY <1>1, <1>2, <2>1, <2>2, OneWorker
<1> QED
  BY <1>1, <1>5, <1>6, RowsKept, DispatchersKept
  DEF TakeJob, LookupFails, DeliveryInv, Grows

LEMMA WorkerHolds ==
    ASSUME DeliveryInv, NEW w \in Worker, worker[w].step # "rest"
    PROVE  /\ worker[w] \in Job
           /\ CopySound(worker[w].copy, recorded)
           /\ worker[w].copy.attempts > 0
           /\ worker[w].step = "accepted" => worker[w].copy.event \in accepted
<1>1. WorkerSound(worker[w], recorded, accepted)
  BY DEF DeliveryInv, WorkersSound
<1> QED
  BY <1>1 DEF WorkerSound, Resting

LEMMA PostStep ==
    ASSUME DeliveryInv, NEW w \in Worker, Post(w)
    PROVE  DeliveryInv'
<1> DEFINE x == worker[w]
<1>1. x \in Job /\ CopySound(x.copy, recorded) /\ x.copy.attempts > 0
  BY WorkerHolds DEF Post
<1>2. x.copy.event \in Event
  BY <1>1 DEF CopySound, Copy
<1>3. /\ accepted \subseteq accepted' /\ accepted' \subseteq Event
      /\ recorded' = recorded /\ hooks' = hooks /\ trouble' = trouble
  BY <1>2 DEF Post, DeliveryInv, OthersSound
<1>4. Grows
  BY <1>3 DEF Grows, DeliveryInv, OthersSound
<1>5. PICK step \in {"accepted", "refused"} :
          /\ worker' = [worker EXCEPT ![w] = [x EXCEPT !.step = step]]
          /\ step = "accepted" => x.copy.event \in accepted'
  BY DEF Post
<1>6. [x EXCEPT !.step = step] \in Job /\ [x EXCEPT !.step = step].copy = x.copy
      /\ [x EXCEPT !.step = step].step = step
  BY <1>1 DEF Job, Outcome
<1>7. WorkerSound([x EXCEPT !.step = step], recorded', accepted')
  BY <1>1, <1>3, <1>5, <1>6 DEF WorkerSound
<1>8. WorkersSound'
  BY <1>4, <1>5, <1>7, OneWorker
<1> QED
  BY <1>4, <1>8, RowsKept, DispatchersKept, EnginesKept DEF Post, DeliveryInv, Grows

LEMMA RecordStep ==
    ASSUME DeliveryInv, NEW w \in Worker, Record(w)
    PROVE  DeliveryInv'
<1> DEFINE c == worker[w].copy
<1>1. /\ CopySound(c, recorded) /\ c.attempts > 0
      /\ worker[w].step = "accepted" => c.event \in accepted
  BY WorkerHolds DEF Record
<1>2. /\ accepted' = accepted /\ hooks' = hooks /\ trouble' = trouble
      /\ dispatcher' = dispatcher /\ todo' = todo /\ queue' = queue
      /\ worker' = [worker EXCEPT ![w] = Resting]
  BY DEF Record
<1>3. c.event \in Event /\ c.attempts \in 1..MaxAttempts - 1
  BY <1>1, MaxAttemptsAssumption DEF CopySound, Copy
<1>4. Grows /\ RowsSound'
  <2>1. ASSUME NEW r, Write(c.event, r), NEW count, count = recorded'[c.event],
               \/ /\ r = [status |-> "completed", attempts |-> c.attempts + 1, next |-> "due"]
                  /\ c.event \in accepted
               \/ r = Retry(c, "due")
        PROVE  Grows /\ RowsSound'
    <3>1. /\ Grows /\ c.attempts + 1 \in 1..MaxAttempts
          /\ c.attempts + 1 <= count /\ count \in 0..MaxAttempts
      BY <1>1, <1>2, <2>1, AttemptRecorded
    <3>2. RowSound(r, count, c.event \in accepted')
      <4>1. CASE r = Retry(c, "due")
        BY <4>1, <3>1, <1>3, MaxAttemptsAssumption, RetrySound
      <4>2. CASE /\ r = [status |-> "completed", attempts |-> c.attempts + 1, next |-> "due"]
                 /\ c.event \in accepted
        BY <4>2, <3>1, <1>2, MaxAttemptsAssumption DEF RowSound, Row, Status
      <4> QED
        BY <2>1, <4>1, <4>2
    <3> QED
      BY <2>1, <3>1, <3>2, <1>3, OneRow DEF Write
  <2>2. ASSUME row' = [row EXCEPT ![c.event] =
                   [status |-> "skipped", attempts |-> c.attempts, next |-> "later"]],
               recorded' = recorded
        PROVE  Grows /\ RowsSound'
    <3>1. Grows
      BY <1>2, <2>2, NothingRecorded DEF DeliveryInv, OthersSound
    <3>2. recorded[c.event] \in 0..MaxAttempts /\ c.attempts <= recorded[c.event]
      BY <1>1, <1>3 DEF CopySound, DeliveryInv, OthersSound
    <3>3. RowSound([status |-> "skipped", attempts |-> c.attempts, next |-> "later"],
                   recorded'[c.event], c.event \in accepted')
      BY <1>3, <2>2, <3>2, MaxAttemptsAssumption DEF RowSound, Row, Status
    <3> QED
      BY <2>2, <3>1, <3>3, <1>3, OneRow
  <2> QED
    BY <1>1, <2>1, <2>2 DEF Record
<1>5. WorkersSound'
  BY <1>2, <1>4, OneWorker DEF WorkerSound
<1> QED
  BY <1>2, <1>4, <1>5, DispatchersKept, EnginesKept DEF DeliveryInv, Grows

LEMMA EngineTroubleStep ==
    ASSUME DeliveryInv,
           \/ \E w \in Worker : RecordFails(w)
           \/ \E g \in Engine : EngineRestart(g)
    PROVE  DeliveryInv'
<1>1. Grows /\ recorded' = recorded /\ accepted' = accepted
  BY NothingRecorded DEF RecordFails, EngineRestart, DeliveryInv, OthersSound
<1>2. ASSUME NEW w \in Worker, RecordFails(w) PROVE DeliveryInv'
  <2>1. WorkersSound'
    BY <1>1, <1>2, OneWorker DEF RecordFails, WorkerSound
  <2> QED
    BY <1>1, <1>2, <2>1, RowsKept, DispatchersKept, EnginesKept
    DEF RecordFails, DeliveryInv, Grows
<1>3. ASSUME NEW g \in Engine, EngineRestart(g) PROVE DeliveryInv'
  <2>1. EnginesSound'
    <3>1. TodoSound({}, recorded') /\ QueueSound(<<>>, recorded')
      BY DEF TodoSound, QueueSound
    <3> QED
      BY <1>1, <1>3, <3>1, OneEngine DEF EngineRestart
  <2>2. WorkersSound'
    BY <1>1, <1>3 DEF EngineRestart, DeliveryInv, WorkersSound, WorkerSound
  <2> QED
    BY <1>1, <1>3, <2>1, <2>2, RowsKept, DispatchersKept
    DEF EngineRestart, DeliveryInv, Grows
<1> QED
  BY <1>2, <1>3

---------------------------------------------------------------------------
(* The theorems *)

LEMMA DeliveryInvInit == Init => DeliveryInv
BY MaxAttemptsAssumption, MaxTroubleAssumption
DEF Init, DeliveryInv, OthersSound, RowsSound, DispatchersSound, EnginesSound,
    WorkersSound, RowSound, Row, Status, DispatcherSound, TodoSound, QueueSound,
    WorkerSound

LEMMA DeliveryInvStep == DeliveryInv /\ [Next]_vars => DeliveryInv'
<1> SUFFICES ASSUME DeliveryInv, [Next]_vars PROVE DeliveryInv'
  OBVIOUS
<1>1. CASE UNCHANGED vars
  <2>1. Grows
    BY <1>1, NothingRecorded DEF vars, DeliveryInv, OthersSound
  <2> QED
    BY <1>1, <2>1, RowsKept, DispatchersKept, EnginesKept, WorkersKept
    DEF vars, DeliveryInv, Grows
<1>2. CASE Merchant \/ \E e \in Event : ComesDue(e)
  BY <1>2, TableStep, HooksStep DEF Merchant
<1>3. CASE \E d \in Dispatcher : Dispatch(d)
  BY <1>3, FetchStep, ListStep, DeliverStep, UpdateStep DEF Dispatch
<1>4. CASE \E g \in Engine : Select(g) \/ Push(g)
  BY <1>4, SelectStep, PushStep
<1>5. CASE \E g \in Engine, s \in Slot : Work(g, s)
  BY <1>5, TakeStep, PostStep, RecordStep DEF Work, Worker
<1>6. CASE Failure
  BY <1>6, ListFailsStep, DispatcherTroubleStep, EngineTroubleStep, TakeStep
  DEF Failure, Worker
<1> QED
  BY <1>1, <1>2, <1>3, <1>4, <1>5, <1>6 DEF Next

\* Rows, copies, queues and workers agree with the histories, however old the
\* copies are that the dispatchers and the engines write from.
THEOREM DeliveryInvariant == Spec => []DeliveryInv
BY DeliveryInvInit, DeliveryInvStep, PTL DEF Spec

\* Type correctness: in particular, attempts never exceed MaxAttempts, so that a
\* pending event can always be tried again (webhook_service.go:277-287).
THEOREM DeliveryTypeCorrect == Spec => []TypeOK
<1>1. DeliveryInv => TypeOK
  BY DEF DeliveryInv, OthersSound, RowsSound, DispatchersSound, EnginesSound,
         WorkersSound, TypeOK
<1> QED
  BY <1>1, DeliveryInvariant, PTL

\* The engines never make the first attempt (webhook_worker.go:30, 84-100).
THEOREM FirstAttemptIsDispatchers == Spec => []EngineNeverFirst
<1>1. DeliveryInv => EngineNeverFirst
  BY DEF DeliveryInv, EnginesSound, WorkersSound, TodoSound, QueueSound, WorkerSound,
         EngineNeverFirst
<1> QED
  BY <1>1, DeliveryInvariant, PTL

\* Delivered and completed events were accepted (webhook_service.go:229-231).
THEOREM DeliveredIsTrue == Spec => []DeliveredWasAccepted
<1>1. DeliveryInv => DeliveredWasAccepted
  BY DEF DeliveryInv, RowsSound, RowSound, DeliveredWasAccepted
<1> QED
  BY <1>1, DeliveryInvariant, PTL

\* An event fails only after MaxAttempts recorded attempts
\* (webhook_service.go:277-287, webhook_worker.go:155-173).
THEOREM FailedIsExhausted == Spec => []GivenUpAfterMaxAttempts
<1>1. DeliveryInv => GivenUpAfterMaxAttempts
  BY DEF DeliveryInv, RowsSound, RowSound, GivenUpAfterMaxAttempts
<1> QED
  BY <1>1, DeliveryInvariant, PTL

---------------------------------------------------------------------------
(* One dispatcher alone implements DeliveryContract, whatever fails, if no *)
(* retry is asked for while it holds a copy of the event.  With a second   *)
(* dispatcher, or with such a retry, it does not: an attempt then counts   *)
(* two or none, and the retry is forgotten.                                *)

\* The row is still as it was when the copy was selected.
Fresh(c) == row[c.event].status = "pending" /\ row[c.event].attempts = c.attempts

HandFresh(x) ==
    /\ x # Resting => \A c \in x.left : Fresh(c)
    /\ x.step = "post" => Fresh(x.copy) /\ x.copy \notin x.left

HandsFresh == \A d \in Dispatcher : HandFresh(dispatcher[d])

MappedVars == <<[e \in Event |-> row[e].status], [e \in Event |-> row[e].attempts], accepted>>

\* What every step does.
KeepsPromise == HandsFresh' /\ [Contract!Next]_MappedVars

LEMMA TheDispatcher ==
    ASSUME Alone, NEW d \in Dispatcher, NEW b \in Dispatcher
    PROVE  b = d
BY DEF Alone

\* What a dispatcher holds is of events that exist.
LEMMA HeldEvents ==
    ASSUME DeliveryInv, NEW d \in Dispatcher
    PROVE  /\ dispatcher[d] # Resting =>
                 /\ dispatcher[d].left \in SUBSET Copy
                 /\ \A c \in dispatcher[d].left : c.event \in Event /\ Holds(d, c.event)
           /\ dispatcher[d].step = "post" =>
                 /\ dispatcher[d].copy \in Copy /\ dispatcher[d].copy.event \in Event
                 /\ Holds(d, dispatcher[d].copy.event)
<1>1. DispatcherSound(dispatcher[d], recorded, accepted)
  BY DEF DeliveryInv, DispatchersSound
<1>2. dispatcher[d] # Resting => dispatcher[d].left \in SUBSET Copy
  BY <1>1 DEF DispatcherSound, Batch, Delivery
<1>3. dispatcher[d].step = "post" => dispatcher[d].copy \in Copy
  BY <1>1 DEF DispatcherSound, Resting, Batch, Delivery
<1> QED
  BY <1>2, <1>3 DEF Holds, Copy

\* The columns that the contract speaks of stay.
LEMMA ColumnsStay ==
    ASSUME \A e \in Event : row'[e].status = row[e].status /\ row'[e].attempts = row[e].attempts,
           accepted' = accepted
    PROVE  UNCHANGED MappedVars
BY DEF MappedVars

\* One row is written.
LEMMA OneRowMapped ==
    ASSUME DeliveryInv, NEW e \in Event, NEW r, row' = [row EXCEPT ![e] = r]
    PROVE  /\ row'[e] = r /\ \A f \in Event : f # e => row'[f] = row[f]
           /\ [f \in Event |-> row'[f].status]
                 = [[f \in Event |-> row[f].status] EXCEPT ![e] = r.status]
           /\ [f \in Event |-> row'[f].attempts]
                 = [[f \in Event |-> row[f].attempts] EXCEPT ![e] = r.attempts]
<1>1. row \in [Event -> Row]
  BY DEF DeliveryInv, RowsSound
<1> QED
  BY <1>1

\* A write to the rows that no dispatcher holds.
LEMMA HandsKept ==
    ASSUME DeliveryInv, HandsFresh, dispatcher' = dispatcher,
           \A e \in Event :
              (\E d \in Dispatcher : Holds(d, e)) =>
                 row'[e].status = row[e].status /\ row'[e].attempts = row[e].attempts
    PROVE  HandsFresh'
<1> SUFFICES ASSUME NEW d \in Dispatcher PROVE HandFresh(dispatcher[d])'
  BY DEF HandsFresh
<1>1. HandFresh(dispatcher[d])
  BY DEF HandsFresh
<1>2. dispatcher[d] # Resting => \A c \in dispatcher[d].left : Fresh(c)'
  BY <1>1, HeldEvents DEF HandFresh, Fresh
<1>3. dispatcher[d].step = "post" => Fresh(dispatcher[d].copy)'
  BY <1>1, HeldEvents DEF HandFresh, Fresh
<1> QED
  BY <1>1, <1>2, <1>3 DEF HandFresh

\* The dispatcher turns to something else and the rows stay.
LEMMA HandTurns ==
    ASSUME DeliveryInv, Alone, NEW d \in Dispatcher, NEW x, HandFresh(x),
           dispatcher' = [dispatcher EXCEPT ![d] = x], row' = row
    PROVE  HandsFresh'
<1>1. \A b \in Dispatcher : dispatcher'[b] = x
  BY TheDispatcher DEF DeliveryInv, DispatchersSound
<1>2. HandFresh(x)'
  BY DEF HandFresh, Fresh
<1> QED
  BY <1>1, <1>2 DEF HandsFresh

\* What a dispatcher goes on with is as fresh as before.
LEMMA NextCopyFresh ==
    ASSUME NEW left, \A c \in left : Fresh(c)
    PROVE  HandFresh(NextCopy(left))
BY DEF HandFresh, NextCopy, Resting

LEMMA TableKeepsPromise ==
    ASSUME DeliveryInv, HandsFresh, NEW e \in Event,
           Enqueue(e) \/ ResetEvent(e) \/ ComesDue(e),
           \A d \in Dispatcher : ResetEvent(e) => ~Holds(d, e)
    PROVE  KeepsPromise
<1>1. dispatcher' = dispatcher /\ accepted' = accepted
  BY DEF Enqueue, ResetEvent, ComesDue
<1>2. row \in [Event -> Row]
  BY DEF DeliveryInv, RowsSound
<1>3. CASE Enqueue(e)
  <2>1. PICK r : r = [row[e] EXCEPT !.status = "pending"]
    OBVIOUS
  <2>2. row' = [row EXCEPT ![e] = r] /\ r.status = "pending" /\ r.attempts = row[e].attempts
    BY <1>2, <1>3, <2>1 DEF Enqueue, Row
  <2>3. row[e].status = "none"
    BY <1>3 DEF Enqueue
  <2>4. ASSUME NEW d \in Dispatcher PROVE ~Holds(d, e)
    BY <2>3 DEF HandsFresh, HandFresh, Fresh, Holds, Resting
  <2>5. HandsFresh'
    BY <1>1, <2>2, <2>4, OneRowMapped, HandsKept
  <2>6. [f \in Event |-> row'[f].attempts] = [f \in Event |-> row[f].attempts]
    BY <2>2, OneRowMapped
  <2>7. Contract!Enqueue(e)
    BY <1>1, <2>2, <2>3, <2>6, OneRowMapped DEF Contract!Enqueue
  <2> QED
    BY <2>5, <2>7 DEF KeepsPromise, Contract!Next
<1>4. CASE ResetEvent(e)
  <2>1. PICK r : r = [status |-> "pending", attempts |-> 0, next |-> "null"]
    OBVIOUS
  <2>2. row' = [row EXCEPT ![e] = r] /\ r.status = "pending" /\ r.attempts = 0
    BY <1>4, <2>1 DEF ResetEvent
  <2>3. row[e].status # "none"
    BY <1>4 DEF ResetEvent
  <2>4. HandsFresh'
    BY <1>1, <1>4, <2>2, OneRowMapped, HandsKept
  <2>5. /\ [f \in Event |-> row'[f].status]
              = [[f \in Event |-> row[f].status] EXCEPT ![e] = r.status]
        /\ [f \in Event |-> row'[f].attempts]
              = [[f \in Event |-> row[f].attempts] EXCEPT ![e] = r.attempts]
    BY <2>2, OneRowMapped
  <2>6. /\ [f \in Event |-> row'[f].status]
              = [[f \in Event |-> row[f].status] EXCEPT ![e] = "pending"]
        /\ [f \in Event |-> row'[f].attempts]
              = [[f \in Event |-> row[f].attempts] EXCEPT ![e] = 0]
    BY <2>2, <2>5
  <2>7. Contract!AskAgain(e)
    BY <1>1, <2>3, <2>6 DEF Contract!AskAgain
  <2> QED
    BY <2>4, <2>7 DEF KeepsPromise, Contract!Next
<1>5. CASE ComesDue(e)
  <2>1. \A f \in Event : row'[f].status = row[f].status /\ row'[f].attempts = row[f].attempts
    BY <1>2, <1>5 DEF ComesDue, Row
  <2> QED
    BY <1>1, <2>1, HandsKept, ColumnsStay DEF KeepsPromise
<1> QED
  BY <1>3, <1>4, <1>5

\* Steps that touch neither the columns nor what is held.
LEMMA IdleKeepsPromise ==
    ASSUME DeliveryInv, HandsFresh, UNCHANGED <<row, dispatcher, accepted>>
    PROVE  KeepsPromise
BY HandsKept, ColumnsStay DEF KeepsPromise

\* Steps that only turn the dispatcher to something else.
LEMMA TurnKeepsPromise ==
    ASSUME DeliveryInv, Alone, NEW d \in Dispatcher, NEW x, HandFresh(x),
           dispatcher' = [dispatcher EXCEPT ![d] = x], UNCHANGED <<row, accepted>>
    PROVE  KeepsPromise
BY HandTurns, ColumnsStay DEF KeepsPromise

LEMMA SelectKeepsPromise ==
    ASSUME DeliveryInv, Alone, NEW d \in Dispatcher, GetPendingEvents(d)
    PROVE  KeepsPromise
<1>1. ASSUME NEW c \in Copies(Oldest(BatchSize)) PROVE Fresh(c)
  <2>1. PICK e \in Oldest(BatchSize) : c = [event |-> e, attempts |-> row[e].attempts]
    BY DEF Copies
  <2>2. row[e].status = "pending"
    BY DEF Oldest, Due
  <2> QED
    BY <2>1, <2>2 DEF Fresh
<1> QED
  BY <1>1, NextCopyFresh, TurnKeepsPromise DEF GetPendingEvents

LEMMA ListKeepsPromise ==
    ASSUME DeliveryInv, HandsFresh, Alone, NEW d \in Dispatcher, ListHooks(d)
    PROVE  KeepsPromise
<1>1. dispatcher[d] # Resting /\ HandFresh(dispatcher[d]) /\ UNCHANGED <<row, accepted>>
  BY DEF ListHooks, HandsFresh, Resting
<1>2. PICK c \in dispatcher[d].left :
          dispatcher' = [dispatcher EXCEPT ![d] =
             [step |-> "post", left |-> dispatcher[d].left \ {c}, copy |-> c,
              hooks |-> {k \in hooks : c.event \in Wants[k]}, delivered |-> FALSE]]
  BY DEF ListHooks
<1>3. PICK x : x = [step |-> "post", left |-> dispatcher[d].left \ {c}, copy |-> c,
                    hooks |-> {k \in hooks : c.event \in Wants[k]}, delivered |-> FALSE]
  OBVIOUS
<1>4. HandFresh(x)
  BY <1>1, <1>3 DEF HandFresh
<1>5. dispatcher' = [dispatcher EXCEPT ![d] = x]
  BY <1>2, <1>3
<1> QED
  BY <1>1, <1>4, <1>5, TurnKeepsPromise

LEMMA DeliverKeepsPromise ==
    ASSUME DeliveryInv, HandsFresh, Alone, NEW d \in Dispatcher, NEW k \in Hook, Deliver(d, k)
    PROVE  KeepsPromise
<1>1. /\ dispatcher[d].step = "post" /\ dispatcher[d] # Resting /\ row' = row
      /\ HandFresh(dispatcher[d]) /\ dispatcher[d] \in Delivery
  BY DispatcherHolds DEF Deliver, HandsFresh, Resting
<1>2. PICK e : e = dispatcher[d].copy.event
  OBVIOUS
<1>3. e \in Event /\ row[e].status = "pending"
  BY <1>1, <1>2, HeldEvents DEF HandFresh, Fresh
<1>4. PICK x : /\ dispatcher' = [dispatcher EXCEPT ![d] = x]
               /\ \/ x = [dispatcher[d] EXCEPT !.hooks = @ \ {k}, !.delivered = TRUE]
                  \/ x = [dispatcher[d] EXCEPT !.hooks = @ \ {k}]
  BY DEF Deliver
<1>5. x.step = "post" /\ x.left = dispatcher[d].left /\ x.copy = dispatcher[d].copy
  BY <1>1, <1>4 DEF Delivery
<1>6. HandFresh(x)
  BY <1>1, <1>5 DEF HandFresh
<1>7. HandsFresh'
  BY <1>1, <1>4, <1>6, HandTurns
<1>8. accepted' = accepted \cup {e} \/ accepted' = accepted
  BY <1>2 DEF Deliver
<1>9. CASE accepted' = accepted \cup {e}
  <2>1. Contract!Accept(e)
    BY <1>1, <1>3, <1>9 DEF Contract!Accept
  <2> QED
    BY <1>3, <1>7, <2>1 DEF KeepsPromise, Contract!Next
<1>10. CASE accepted' = accepted
  BY <1>1, <1>7, <1>10, ColumnsStay DEF KeepsPromise
<1> QED
  BY <1>8, <1>9, <1>10

\* A fresh copy is dealt with and its row is written from it.
LEMMA CountKeepsPromise ==
    ASSUME DeliveryInv, Alone, NEW d \in Dispatcher, NEW left \in SUBSET Copy,
           NEW c \in Copy, c \notin left, Fresh(c), \A k \in left : Fresh(k),
           NEW r, Write(c.event, r), accepted' = accepted,
           dispatcher' = [dispatcher EXCEPT ![d] = NextCopy(left)],
           \/ r = Retry(c, "null")
           \/ /\ r = [status |-> "delivered", attempts |-> c.attempts + 1, next |-> "null"]
              /\ c.event \in accepted
    PROVE  KeepsPromise
<1>1. PICK e : e = c.event
  OBVIOUS
<1>2. /\ e \in Event /\ c.attempts \in 0..MaxAttempts - 1
      /\ row[e].status = "pending" /\ row[e].attempts = c.attempts
  BY <1>1 DEF Copy, Fresh
<1>3. row' = [row EXCEPT ![e] = r]
  BY <1>1 DEF Write
<1>4. ASSUME NEW k \in left PROVE Fresh(k)'
  <2>1. k \in Copy /\ k # c /\ Fresh(k)
    OBVIOUS
  <2>2. k.event # c.event
    BY <2>1 DEF Copy, Fresh
  <2>3. k.event \in Event /\ row'[k.event] = row[k.event]
    BY <1>1, <1>2, <1>3, <2>1, <2>2, OneRowMapped DEF Copy
  <2> QED
    BY <2>1, <2>3 DEF Fresh
<1>5. HandFresh(NextCopy(left))'
  BY <1>4 DEF HandFresh, NextCopy, Resting
<1>6. \A b \in Dispatcher : dispatcher'[b] = NextCopy(left)
  BY TheDispatcher DEF DeliveryInv, DispatchersSound
<1>7. HandsFresh'
  BY <1>5, <1>6 DEF HandsFresh, HandFresh
<1>8. /\ [f \in Event |-> row'[f].status]
            = [[f \in Event |-> row[f].status] EXCEPT ![e] = r.status]
      /\ [f \in Event |-> row'[f].attempts]
            = [[f \in Event |-> row[f].attempts] EXCEPT ![e] = r.attempts]
  BY <1>2, <1>3, OneRowMapped
<1>9. r.attempts = c.attempts + 1
  BY DEF Retry
<1>10. [f \in Event |-> row'[f].attempts]
          = [[f \in Event |-> row[f].attempts] EXCEPT ![e] = @ + 1]
  BY <1>2, <1>8, <1>9
<1>11. Contract!Count(e, r.status)
  BY <1>2, <1>8, <1>10 DEF Contract!Count
<1>12. \/ r.status = "delivered" /\ e \in accepted
       \/ r.status = "pending" /\ c.attempts + 1 < MaxAttempts
       \/ r.status = "failed" /\ c.attempts + 1 = MaxAttempts
  BY <1>1, <1>2, MaxAttemptsAssumption DEF Retry, GivesUp
<1>13. Contract!Delivered(e) \/ Contract!TryAgain(e) \/ Contract!GiveUp(e)
  BY <1>2, <1>11, <1>12 DEF Contract!Delivered, Contract!TryAgain, Contract!GiveUp
<1> QED
  BY <1>2, <1>7, <1>13 DEF KeepsPromise, Contract!Next

LEMMA UpdateKeepsPromise ==
    ASSUME DeliveryInv, HandsFresh, Alone, NEW d \in Dispatcher, UpdateEventStatus(d)
    PROVE  KeepsPromise
<1>1. /\ dispatcher[d].step = "post" /\ dispatcher[d] # Resting /\ accepted' = accepted
      /\ HandFresh(dispatcher[d])
      /\ dispatcher' = [dispatcher EXCEPT ![d] = NextCopy(dispatcher[d].left)]
      /\ Write(dispatcher[d].copy.event, Verdict(dispatcher[d]))
  BY DEF UpdateEventStatus, HandsFresh, Resting
<1>2. PICK c, left : c = dispatcher[d].copy /\ left = dispatcher[d].left
  OBVIOUS
<1>3. /\ c \in Copy /\ left \in SUBSET Copy
      /\ dispatcher[d].delivered => c.event \in accepted
  BY <1>1, <1>2, HeldEvents, DispatcherHolds
<1>4. c \notin left /\ Fresh(c) /\ \A k \in left : Fresh(k)
  BY <1>1, <1>2 DEF HandFresh
<1>5. PICK r : r = Verdict(dispatcher[d])
  OBVIOUS
<1>6. \/ r = Retry(c, "null")
      \/ /\ r = [status |-> "delivered", attempts |-> c.attempts + 1, next |-> "null"]
         /\ c.event \in accepted
  BY <1>2, <1>3, <1>5 DEF Verdict
<1> QED
  BY <1>1, <1>2, <1>3, <1>4, <1>5, <1>6, CountKeepsPromise

LEMMA ListFailsKeepsPromise ==
    ASSUME DeliveryInv, HandsFresh, Alone, NEW d \in Dispatcher, ListFails(d)
    PROVE  KeepsPromise
<1>1. /\ dispatcher[d] # Resting /\ accepted' = accepted /\ HandFresh(dispatcher[d])
  BY DEF ListFails, HandsFresh, Resting
<1>2. PICK c \in dispatcher[d].left :
          /\ Write(c.event, Retry(c, "null"))
          /\ dispatcher' = [dispatcher EXCEPT ![d] = NextCopy(dispatcher[d].left \ {c})]
  BY DEF ListFails
<1>3. PICK left : left = dispatcher[d].left \ {c}
  OBVIOUS
<1>4. c \in Copy /\ left \in SUBSET Copy /\ c \notin left
  BY <1>1, <1>3, HeldEvents
<1>5. Fresh(c) /\ \A k \in left : Fresh(k)
  BY <1>1, <1>3 DEF HandFresh
<1> QED
  BY <1>1, <1>2, <1>3, <1>4, <1>5, CountKeepsPromise

LEMMA TroubleKeepsPromise ==
    ASSUME DeliveryInv, HandsFresh, Alone, NEW d \in Dispatcher,
           UpdateFails(d) \/ DispatcherRestart(d)
    PROVE  KeepsPromise
<1>1. HandFresh(Resting)
  BY DEF HandFresh, Resting
<1>2. CASE UpdateFails(d)
  <2>1. /\ dispatcher[d] # Resting
        /\ dispatcher' = [dispatcher EXCEPT ![d] = NextCopy(dispatcher[d].left)]
    BY <1>2 DEF UpdateFails, Resting
  <2>2. HandFresh(NextCopy(dispatcher[d].left))
    BY <2>1, NextCopyFresh DEF HandsFresh, HandFresh
  <2> QED
    BY <1>2, <2>1, <2>2, TurnKeepsPromise DEF UpdateFails
<1>3. CASE DispatcherRestart(d)
  BY <1>1, <1>3, TurnKeepsPromise DEF DispatcherRestart
<1> QED
  BY <1>2, <1>3

LEMMA HandsInit == Init => HandsFresh /\ Contract!Init
BY DEF Init, HandsFresh, HandFresh, Resting, Contract!Init

\* Every step of a dispatcher left alone is one of the contract, or a stutter.
LEMMA StepKeepsPromise ==
    ASSUME DeliveryInv, HandsFresh, Alone, [Next]_vars,
           [\A e \in Event, d \in Dispatcher : ResetEvent(e) => ~Holds(d, e)]_vars
    PROVE  KeepsPromise
<1>1. CASE UNCHANGED vars
  BY <1>1, IdleKeepsPromise DEF vars
<1>2. ASSUME NEW e \in Event, Enqueue(e) \/ ResetEvent(e) \/ ComesDue(e), ~UNCHANGED vars
      PROVE  KeepsPromise
  BY <1>2, TableKeepsPromise
<1>3. CASE ChangeHooks
  BY <1>3, IdleKeepsPromise DEF ChangeHooks
<1>4. CASE \E d \in Dispatcher : Dispatch(d)
  BY <1>4, SelectKeepsPromise, ListKeepsPromise, DeliverKeepsPromise, UpdateKeepsPromise
  DEF Dispatch
<1>5. CASE \E d \in Dispatcher : ListFails(d) \/ UpdateFails(d) \/ DispatcherRestart(d)
  BY <1>5, ListFailsKeepsPromise, TroubleKeepsPromise
<1>6. ~(\E g \in Engine : TRUE)
  BY DEF Alone
<1> QED
  BY <1>1, <1>2, <1>3, <1>4, <1>5, <1>6 DEF Next, Merchant, Failure

\* A dispatcher that works alone keeps the promise to the merchant, whatever
\* fails, dies or is registered meanwhile: no event is posted again once it is
\* delivered or given up, each recorded attempt counts one, and it is given up
\* after exactly MaxAttempts (webhook_service.go:188-287).
THEOREM AloneKeepsContract == Alone => (Spec /\ RetriesMeetNoCopy => ImplementsContract)
<1> SUFFICES ASSUME Alone
             PROVE  Spec /\ RetriesMeetNoCopy => ImplementsContract
  OBVIOUS
<1>1. Init => HandsFresh /\ Contract!Init
  BY HandsInit
<1>2. DeliveryInv /\ HandsFresh /\ [Next]_vars
        /\ [\A e \in Event, d \in Dispatcher : ResetEvent(e) => ~Holds(d, e)]_vars
      => HandsFresh' /\ [Contract!Next]_MappedVars
  BY StepKeepsPromise DEF KeepsPromise
<1> QED
  BY <1>1, <1>2, DeliveryInvariant, PTL
  DEF Spec, RetriesMeetNoCopy, ImplementsContract, Contract!Spec, Contract!contractVars,
      MappedVars
=============================================================================
