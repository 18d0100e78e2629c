---------------------- MODULE PaymentLifecycleProofs ----------------------
(***************************************************************************)
(* Proofs about PaymentLifecycle for any number of transactions, merchants *)
(* and concurrent requests, any refund amounts and any number of faults.   *)
(***************************************************************************)
EXTENDS PaymentLifecycle, TLAPS

\* Status is spelled out in the module; these are the values Open and
\* Capturable select from it, and the record types the steps build.
LEMMA StatusFacts ==
    /\ Open \subseteq Capturable
    /\ Capturable \subseteq Status
    /\ {"absent", "failed", "success", "refunded"} \subseteq Status
    /\ Capturable \cap {"absent", "failed", "success", "refunded"} = {}
BY DEF Open, Capturable, Status

\* A handler at a named step holds a job.
LEMMA BusyHandler ==
    ASSUME TypeOK, NEW h \in Handler, handler[h] # Idle
    PROVE  handler[h] \in Job
BY DEF TypeOK

LEMMA StepIsBusy ==
    ASSUME TypeOK, NEW h \in Handler, NEW step \in Step, At(h, step)
    PROVE  handler[h] # Idle /\ handler[h] \in Job
BY DEF TypeOK, At, Idle, Step

\* What a job is made of, without the record.
LEMMA JobFields ==
    ASSUME NEW job \in Job
    PROVE  /\ job.step \in Step
           /\ job.tx \in Tx
           /\ job.copy \in Row
           /\ job.amount \in Nat
           /\ job.key \in RefundKey \cup {NoKey}
           /\ job.event \in EventType
           /\ job.step \in {"checkKey", "setKey"} => job.key \in RefundKey
BY DEF Job

\* Moving on to another step leaves a job a job; a step that needs a key is
\* only taken with one.
LEMMA StepChange ==
    ASSUME NEW job \in Job, NEW step \in Step,
           step \in {"checkKey", "setKey"} => job.key # NoKey
    PROVE  [job EXCEPT !.step = step] \in Job
BY DEF Job

LEMMA GoToType ==
    ASSUME TypeOK, NEW h \in Handler, NEW step \in Step, handler[h] \in Job,
           step \in {"checkKey", "setKey"} => handler[h].key # NoKey,
           GoTo(h, step)
    PROVE  handler' \in [Handler -> Job \cup {Idle}]
<1>1. [handler[h] EXCEPT !.step = step] \in Job
  BY StepChange
<1> QED
  BY <1>1 DEF TypeOK, GoTo

LEMMA DoneType ==
    ASSUME TypeOK, NEW h \in Handler, Done(h)
    PROVE  handler' \in [Handler -> Job \cup {Idle}]
BY DEF TypeOK, Done

LEMMA StartType ==
    ASSUME TypeOK, NEW h \in Handler, NEW job \in Job, Start(h, job)
    PROVE  handler' \in [Handler -> Job \cup {Idle}]
BY DEF TypeOK, Start

LEMMA UpdateType ==
    ASSUME TypeOK, NEW t \in Tx, NEW r \in Row, Update(t, r)
    PROVE  row' \in [Tx -> Row]
BY DEF TypeOK, Update

LEMMA NewJobType ==
    ASSUME NEW step \in Step \ {"checkKey", "setKey"}, NEW t \in Tx, NEW copy \in Row, NEW event \in EventType
    PROVE  NewJob(step, t, copy, event) \in Job
BY DEF NewJob, Job

LEMMA RefundJobType ==
    ASSUME TypeOK, NEW t \in Tx, NEW amount \in Nat, NEW key \in RefundKey \cup {NoKey}
    PROVE  RefundJob(t, amount, key) \in Job
BY DEF TypeOK, RefundJob, Job, Step, EventType

---------------------------------------------------------------------------
(* Type correctness *)

LEMMA TypeInit == Init => TypeOK
BY MaxFaultsAssumption DEF Init, TypeOK, Row, Status

LEMMA TypeRequest ==
    ASSUME TypeOK, NEW h \in Handler, NEW t \in Tx, Request(h, t)
    PROVE  TypeOK'
<1>1. CASE StoreBlocked(h, t)
  <2>1. [status |-> "failed", completed |-> FALSE] \in Row
    BY DEF Row, Status
  <2> QED
    BY <1>1, <2>1, UpdateType DEF StoreBlocked, TypeOK
<1>2. ASSUME NEW status \in Open, NEW split \in BOOLEAN,
             StoreCharged(h, t, status, split)
      PROVE  TypeOK'
  <2> DEFINE fresh == [status |-> status, completed |-> FALSE]
             step == IF split THEN "split" ELSE "emit"
  <2>1. fresh \in Row
    BY DEF Row, Open, Status
  <2>2. step \in Step \ {"checkKey", "setKey"} /\ "transaction.created" \in EventType
    BY DEF Step, EventType
  <2>3. NewJob(step, t, fresh, "transaction.created") \in Job
    BY <2>1, <2>2, NewJobType
  <2>4. row' \in [Tx -> Row]
    BY <1>2, <2>1, UpdateType DEF StoreCharged
  <2>5. handler' \in [Handler -> Job \cup {Idle}]
    BY <1>2, <2>3, StartType DEF StoreCharged
  <2> QED
    BY <1>2, <2>4, <2>5 DEF StoreCharged, TypeOK
<1>3. CASE ReadForCapture(h, t)
  <2>1. "capture" \in Step \ {"checkKey", "setKey"} /\ "transaction.success" \in EventType 
        /\ row[t] \in Row
    BY DEF Step, EventType, TypeOK
  <2>2. handler' \in [Handler -> Job \cup {Idle}]
    BY <1>3, <2>1, NewJobType, StartType DEF ReadForCapture
  <2> QED
    BY <1>3, <2>2 DEF ReadForCapture, TypeOK
<1>4. ASSUME NEW m \in Merchant, NEW a \in RefundAmount, NEW k \in RefundKey \cup {NoKey},
             RefundPayment(h, t, m, a, k)
      PROVE  TypeOK'
  <2>1. handler' \in [Handler -> Job \cup {Idle}]
    BY <1>4, RefundAmountAssumption, RefundJobType, StartType DEF RefundPayment
  <2> QED
    BY <1>4, <2>1 DEF RefundPayment, TypeOK
<1>5. CASE AdminRefund(h, t)
  <2>1. row' \in [Tx -> Row]
    BY <1>5 DEF AdminRefund, TypeOK, Row, Status
  <2> QED
    BY <1>5, <2>1 DEF AdminRefund, TypeOK
<1> QED
  BY <1>1, <1>2, <1>3, <1>4, <1>5
  DEF Request, Create, CapturePayment, AdminForceCapture

LEMMA TypeContinue ==
    ASSUME TypeOK, NEW h \in Handler, Continue(h)
    PROVE  TypeOK'
<1> USE StepIsBusy, JobFields
<1>1. CASE SplitTransaction(h)
  <2>1. handler[h] \in Job /\ handler[h].tx \in Tx /\ handler[h].copy \in Row
    BY <1>1 DEF SplitTransaction, Step
  <2>2. row' \in [Tx -> Row]
    BY <1>1, <2>1, UpdateType DEF SplitTransaction
  <2>3. handler' \in [Handler -> Job \cup {Idle}]
    BY <1>1, <2>1, GoToType DEF SplitTransaction, Step
  <2> QED
    BY <1>1, <2>2, <2>3 DEF SplitTransaction, TypeOK
<1>2. CASE WriteCapture(h)
  <2>1. handler[h] \in Job /\ handler[h].tx \in Tx
    BY <1>2 DEF WriteCapture, Step
  <2>2. [status |-> "success", completed |-> TRUE] \in Row
    BY DEF Row, Status
  <2>3. row' \in [Tx -> Row]
    BY <1>2, <2>1, <2>2, UpdateType DEF WriteCapture
  <2>4. handler' \in [Handler -> Job \cup {Idle}]
    BY <1>2, <2>1, GoToType DEF WriteCapture, Step
  <2> QED
    BY <1>2, <2>1, <2>3, <2>4 DEF WriteCapture, TypeOK
<1>3. CASE CheckRefundKey(h)
  <2>1. handler[h] \in Job
    BY <1>3 DEF CheckRefundKey, Step
  <2>2. handler' \in [Handler -> Job \cup {Idle}]
    BY <1>3, <2>1, GoToType, DoneType DEF CheckRefundKey, Step
  <2> QED
    BY <1>3, <2>2 DEF CheckRefundKey, TypeOK
<1>4. CASE InsertRefund(h)
  <2>1. handler[h] \in Job /\ handler[h].tx \in Tx /\ handler[h].amount \in Nat
    BY <1>4 DEF InsertRefund, Step
  <2>2. Append(refunds[handler[h].tx], handler[h].amount) \in Seq(Nat)
    BY <2>1 DEF TypeOK
  <2>3. refunds' \in [Tx -> Seq(Nat)]
    BY <1>4, <2>2 DEF InsertRefund, TypeOK
  <2>4. handler' \in [Handler -> Job \cup {Idle}]
    BY <1>4, <2>1, GoToType DEF InsertRefund, Step
  <2> QED
    BY <1>4, <2>3, <2>4 DEF InsertRefund, TypeOK
<1>5. CASE WriteRefunded(h)
  <2>1. handler[h] \in Job /\ handler[h].tx \in Tx /\ handler[h].copy \in Row
    BY <1>5 DEF WriteRefunded, Step
  <2>2. [handler[h].copy EXCEPT !.status = "refunded"] \in Row
    BY <2>1 DEF Row, Status
  <2>3. row' \in [Tx -> Row]
    BY <1>5, <2>1, <2>2, UpdateType DEF WriteRefunded
  <2>4. handler' \in [Handler -> Job \cup {Idle}]
    BY <1>5, <2>1, GoToType DEF WriteRefunded, Step
  <2> QED
    BY <1>5, <2>3, <2>4 DEF WriteRefunded, TypeOK
<1>6. CASE SetRefundKey(h)
  <2>1. handler[h] \in Job /\ handler[h].tx \in Tx /\ handler[h].key \in RefundKey
    BY <1>6 DEF SetRefundKey, Step, At
  <2>2. handler' \in [Handler -> Job \cup {Idle}]
    BY <1>6, <2>1, GoToType DEF SetRefundKey, Step
  <2> QED
    BY <1>6, <2>1, <2>2 DEF SetRefundKey, TypeOK
<1>7. CASE Emit(h)
  <2>1. handler[h].tx \in Tx /\ handler[h].event \in EventType
    BY <1>7 DEF Emit, Step
  <2>2. handler' \in [Handler -> Job \cup {Idle}]
    BY <1>7, DoneType DEF Emit
  <2> QED
    BY <1>7, <2>1, <2>2 DEF Emit, TypeOK, Event
<1> QED
  BY <1>1, <1>2, <1>3, <1>4, <1>5, <1>6, <1>7 DEF Continue

LEMMA FaultType == ASSUME TypeOK, Fault PROVE faults' \in 0..MaxFaults
BY MaxFaultsAssumption DEF Fault, TypeOK

LEMMA TypeDisturb ==
    ASSUME TypeOK, Disturb
    PROVE  TypeOK'
<1> USE FaultType
<1>1. ASSUME NEW h \in Handler, Abandon(h)
      PROVE  TypeOK'
  <2>1. handler' \in [Handler -> Job \cup {Idle}]
    BY <1>1, DoneType DEF Abandon
  <2> QED
    BY <1>1, <2>1 DEF Abandon, TypeOK
<1>2. ASSUME NEW h \in Handler, CarryOn(h)
      PROVE  TypeOK'
  <2>1. handler[h] \in Job
    BY <1>2, StepIsBusy DEF CarryOn, Step
  <2>2. handler' \in [Handler -> Job \cup {Idle}]
    BY <1>2, <2>1, GoToType DEF CarryOn, Step
  <2> QED
    BY <1>2, <2>2 DEF CarryOn, TypeOK
<1>3. ASSUME NEW t \in Tx, NEW k \in RefundKey, LoseRefundKey(t, k)
      PROVE  TypeOK'
  BY <1>3 DEF LoseRefundKey, TypeOK
<1> QED
  BY <1>1, <1>2, <1>3 DEF Disturb

LEMMA TypeStep == TypeOK /\ [Next]_vars => TypeOK'
<1> SUFFICES ASSUME TypeOK, [Next]_vars
             PROVE  TypeOK'
  OBVIOUS
<1>1. CASE UNCHANGED vars
  BY <1>1 DEF vars, TypeOK
<1>2. CASE Next
  BY <1>2, TypeRequest, TypeContinue, TypeDisturb DEF Next
<1> QED
  BY <1>1, <1>2

\* Type correctness, with the facts about keys that make it inductive: a
\* handler that looks up or stores a refund key has one
\* (payment_service.go:501-507 and 534-537).
THEOREM TypeCorrect == Spec => []TypeOK
BY TypeInit, TypeStep, PTL DEF Spec

---------------------------------------------------------------------------
(* The inductive invariant.  The safety properties speak of rows, refunds  *)
(* and events; what makes them inductive is what the jobs in flight carry: *)
(* a copy of a row that will be written back, and news not yet told.       *)

RefundStep == {"checkKey", "insertRefund", "markRefunded", "setKey"}

\* What a handler may rely on between its statements.
JobBacked(job) ==
    /\ row[job.tx].status \notin {"absent", "failed"}
    /\ job.step = "split" =>
          job.copy.status \in Open /\ job.event = "transaction.created"
    /\ job.step = "capture" => job.event = "transaction.success"
    /\ job.step \in RefundStep =>
          job.tx \in captured /\ job.copy.completed /\ job.event = "refund.created"
    /\ job.step \in {"markRefunded", "setKey"} => refunds[job.tx] # <<>>
    /\ job.step = "emit" =>
          /\ job.event = "transaction.success" => job.tx \in captured
          /\ job.event = "refund.created" => refunds[job.tx] # <<>>

JobsBacked == \A h \in Handler : handler[h] # Idle => JobBacked(handler[h])

\* Nothing refers to a transaction that is not stored or was blocked.
Untouched(t) ==
    /\ ~row[t].completed
    /\ t \notin captured
    /\ refunds[t] = <<>>
    /\ \A e \in events : e.tx # t
    /\ \A h \in Handler : handler[h] = Idle \/ handler[h].tx # t

UntouchedRows == \A t \in Tx : row[t].status \in {"absent", "failed"} => Untouched(t)

LedgerInv ==
    /\ UntouchedRows
    /\ SuccessIsComplete
    /\ RefundOnlyCaptured
    /\ EventsFollowCommits
    /\ JobsBacked

LEMMA LedgerInit == Init => LedgerInv
BY DEF Init, LedgerInv, UntouchedRows, Untouched, SuccessIsComplete,
       RefundOnlyCaptured, EventsFollowCommits, JobsBacked, Idle

\* What GoTo, Done and Start do to the handlers, field by field.
LEMMA GoToFields ==
    ASSUME TypeOK, NEW h \in Handler, NEW step \in Step, handler[h] \in Job,
           GoTo(h, step)
    PROVE  /\ handler'[h] # Idle
           /\ handler'[h].step = step
           /\ handler'[h].tx = handler[h].tx
           /\ handler'[h].copy = handler[h].copy
           /\ handler'[h].event = handler[h].event
           /\ \A g \in Handler : g # h => handler'[g] = handler[g]
BY DEF TypeOK, GoTo, Job, Idle

LEMMA DoneFields ==
    ASSUME TypeOK, NEW h \in Handler, Done(h)
    PROVE  /\ handler'[h] = Idle
           /\ \A g \in Handler : g # h => handler'[g] = handler[g]
BY DEF TypeOK, Done

LEMMA StartFields ==
    ASSUME TypeOK, NEW h \in Handler, NEW job \in Job, Start(h, job)
    PROVE  /\ handler'[h] = job
           /\ \A g \in Handler : g # h => handler'[g] = handler[g]
BY DEF TypeOK, Start

\* The row written is the row read back; the others stay.
LEMMA UpdateFields ==
    ASSUME TypeOK, NEW t \in Tx, NEW r, Update(t, r)
    PROVE  /\ row'[t] = r
           /\ \A u \in Tx : u # t => row'[u] = row[u]
BY DEF TypeOK, Update

\* What jobs rely on is never undone by a step of another handler: a stored
\* row is not emptied or blocked, a capture and a refund row stay.
NothingUndone ==
    /\ \A t \in Tx : row[t].status \notin {"absent", "failed"} =>
                         row'[t].status \notin {"absent", "failed"}
    /\ captured \subseteq captured'
    /\ \A t \in Tx : refunds[t] # <<>> => refunds'[t] # <<>>

LEMMA OtherJobs ==
    ASSUME TypeOK, LedgerInv, NothingUndone, NEW g \in Handler,
           handler'[g] = handler[g], handler[g] # Idle
    PROVE  JobBacked(handler[g])'
<1>1. JobBacked(handler[g]) /\ handler[g] \in Job
  BY BusyHandler DEF LedgerInv, JobsBacked
<1>2. handler[g].tx \in Tx
  BY <1>1, JobFields
<1> QED
  BY <1>1, <1>2 DEF JobBacked, NothingUndone

\* The jobs are backed after a step if the job of the stepping handler is.
LEMMA JobsStayBacked ==
    ASSUME TypeOK, LedgerInv, NothingUndone, NEW h \in Handler,
           \A g \in Handler : g # h => handler'[g] = handler[g],
           handler'[h] # Idle => JobBacked(handler[h])'
    PROVE  JobsBacked'
<1> SUFFICES ASSUME NEW g \in Handler, handler'[g] # Idle
             PROVE  JobBacked(handler[g])'
  BY DEF JobsBacked
<1>1. CASE g = h
  BY <1>1
<1>2. CASE g # h
  BY <1>2, OtherJobs
<1> QED
  BY <1>1, <1>2

\* The job a handler has at a step, its transaction and what backs it.
LEMMA JobAt ==
    ASSUME TypeOK, LedgerInv, NEW h \in Handler, NEW step \in Step, At(h, step)
    PROVE  /\ handler[h] \in Job
           /\ handler[h] # Idle
           /\ handler[h].tx \in Tx
           /\ handler[h].step = step
           /\ JobBacked(handler[h])
BY StepIsBusy, JobFields DEF At, LedgerInv, JobsBacked

---------------------------------------------------------------------------
(* CreatePayment *)

LEMMA LedgerStoreBlocked ==
    ASSUME TypeOK, LedgerInv, NEW h \in Handler, NEW t \in Tx, StoreBlocked(h, t)
    PROVE  LedgerInv'
<1> DEFINE blocked == [status |-> "failed", completed |-> FALSE]
<1>1. /\ row'[t] = blocked
      /\ \A u \in Tx : u # t => row'[u] = row[u]
  BY UpdateFields DEF StoreBlocked
<1>2. UNCHANGED <<refunds, events, captured, handler>> /\ row[t].status = "absent"
  BY DEF StoreBlocked
<1>3. Untouched(t)
  BY <1>2 DEF LedgerInv, UntouchedRows
<1>4. UntouchedRows'
  BY <1>1, <1>2, <1>3 DEF LedgerInv, UntouchedRows, Untouched
<1>5. SuccessIsComplete'
  BY <1>1, <1>2 DEF LedgerInv, SuccessIsComplete
<1>6. RefundOnlyCaptured' /\ EventsFollowCommits'
  BY <1>1, <1>2, <1>3
  DEF LedgerInv, RefundOnlyCaptured, EventsFollowCommits, Untouched, TypeOK, Event
<1>7. JobsBacked'
  <2> SUFFICES ASSUME NEW g \in Handler, handler'[g] # Idle
               PROVE  JobBacked(handler[g])'
    BY DEF JobsBacked
  <2>1. /\ handler[g] \in Job /\ handler[g].tx \in Tx /\ handler[g].tx # t
        /\ JobBacked(handler[g])
    BY <1>2, <1>3, BusyHandler, JobFields DEF Untouched, LedgerInv, JobsBacked
  <2> QED
    BY <1>1, <1>2, <2>1 DEF JobBacked
<1> QED
  BY <1>4, <1>5, <1>6, <1>7 DEF LedgerInv

LEMMA LedgerStoreCharged ==
    ASSUME TypeOK, LedgerInv, NEW h \in Handler, NEW t \in Tx, NEW status \in Open,
           NEW split \in BOOLEAN, StoreCharged(h, t, status, split)
    PROVE  LedgerInv'
<1> DEFINE fresh == [status |-> status, completed |-> FALSE]
           step == IF split THEN "split" ELSE "emit"
           job == NewJob(step, t, fresh, "transaction.created")
<1>1. fresh \in Row /\ status \notin {"absent", "failed", "success"}
  BY DEF Row, Open, Status
<1>2. step \in Step \ {"checkKey", "setKey"} /\ "transaction.created" \in EventType
  BY DEF Step, EventType
<1>3. job \in Job
  BY <1>1, <1>2, NewJobType
<1>4. /\ row'[t] = fresh
      /\ \A u \in Tx : u # t => row'[u] = row[u]
  BY UpdateFields DEF StoreCharged
<1>5. /\ handler'[h] = job
      /\ \A g \in Handler : g # h => handler'[g] = handler[g]
  BY <1>3, StartFields DEF StoreCharged
<1>6. UNCHANGED <<refunds, events, captured>> /\ row[t].status = "absent"
  BY DEF StoreCharged
<1>7. Untouched(t)
  BY <1>6 DEF LedgerInv, UntouchedRows
<1>8. /\ job.tx = t /\ job.copy = fresh /\ job.step = step
      /\ job.event = "transaction.created"
  BY DEF NewJob
<1>9. UntouchedRows'
  <2> SUFFICES ASSUME NEW u \in Tx, row'[u].status \in {"absent", "failed"}
               PROVE  Untouched(u)'
    BY DEF UntouchedRows
  <2>1. u # t /\ Untouched(u)
    BY <1>1, <1>4 DEF LedgerInv, UntouchedRows
  <2> QED
    BY <1>4, <1>5, <1>6, <1>8, <2>1 DEF Untouched
<1>10. SuccessIsComplete'
  BY <1>1, <1>4, <1>6 DEF LedgerInv, SuccessIsComplete
<1>11. RefundOnlyCaptured' /\ EventsFollowCommits'
  BY <1>1, <1>4, <1>6
  DEF LedgerInv, RefundOnlyCaptured, EventsFollowCommits, TypeOK, Event
<1>12. NothingUndone
  BY <1>1, <1>4, <1>6 DEF NothingUndone
<1>13. JobBacked(handler[h])'
  BY <1>1, <1>2, <1>4, <1>5, <1>8 DEF JobBacked, RefundStep
<1>14. JobsBacked'
  BY <1>5, <1>12, <1>13, JobsStayBacked
<1> QED
  BY <1>9, <1>10, <1>11, <1>14 DEF LedgerInv

LEMMA LedgerSplit ==
    ASSUME TypeOK, LedgerInv, NEW h \in Handler, SplitTransaction(h)
    PROVE  LedgerInv'
<1> DEFINE job == handler[h]
<1>1. /\ job \in Job /\ job # Idle /\ job.tx \in Tx
      /\ job.step = "split" /\ JobBacked(job)
  BY JobAt DEF SplitTransaction, Step
<1>2. /\ job.copy.status \notin {"absent", "failed", "success"}
      /\ job.event = "transaction.created"
      /\ row[job.tx].status \notin {"absent", "failed"}
  BY <1>1 DEF JobBacked, Open
<1>3. /\ row'[job.tx] = job.copy
      /\ \A u \in Tx : u # job.tx => row'[u] = row[u]
  BY <1>1, UpdateFields DEF SplitTransaction
<1>4. /\ handler'[h] # Idle
      /\ handler'[h].step = "emit"
      /\ handler'[h].tx = job.tx
      /\ handler'[h].event = job.event
      /\ \A g \in Handler : g # h => handler'[g] = handler[g]
  BY <1>1, GoToFields DEF SplitTransaction, Step
<1>5. UNCHANGED <<refunds, events, captured>>
  BY DEF SplitTransaction
<1>6. UntouchedRows'
  BY <1>1, <1>2, <1>3, <1>4, <1>5 DEF LedgerInv, UntouchedRows, Untouched
<1>7. SuccessIsComplete'
  BY <1>1, <1>2, <1>3, <1>5 DEF LedgerInv, SuccessIsComplete
<1>8. RefundOnlyCaptured' /\ EventsFollowCommits'
  BY <1>1, <1>2, <1>3, <1>5
  DEF LedgerInv, RefundOnlyCaptured, EventsFollowCommits, TypeOK, Event
<1>9. NothingUndone
  BY <1>1, <1>2, <1>3, <1>5 DEF NothingUndone
<1>10. JobBacked(handler[h])'
  BY <1>1, <1>2, <1>3, <1>4 DEF JobBacked, RefundStep
<1>11. JobsBacked'
  BY <1>4, <1>9, <1>10, JobsStayBacked
<1> QED
  BY <1>6, <1>7, <1>8, <1>11 DEF LedgerInv

---------------------------------------------------------------------------
(* Steps that leave the tables alone: a read, a cache call, an event, the  *)
(* end of a job.                                                           *)

LEMMA LedgerNoWrite ==
    ASSUME TypeOK, LedgerInv, UNCHANGED <<row, refunds, captured>>, EventsFollowCommits',
           \A e \in events' \ events : row[e.tx].status \notin {"absent", "failed"},
           NEW h \in Handler,
           \A g \in Handler : g # h => handler'[g] = handler[g],
           handler'[h] # Idle => JobBacked(handler[h])' /\ handler'[h].tx \in Tx
    PROVE  LedgerInv'
<1>1. UntouchedRows'
  <2> SUFFICES ASSUME NEW t \in Tx, row'[t].status \in {"absent", "failed"}
               PROVE  Untouched(t)'
    BY DEF UntouchedRows
  <2>1. Untouched(t)
    BY DEF LedgerInv, UntouchedRows
  <2>2. handler'[h] = Idle \/ handler'[h].tx # t
    BY DEF JobBacked
  <2> QED
    BY <2>1, <2>2 DEF Untouched
<1>2. SuccessIsComplete' /\ RefundOnlyCaptured'
  BY DEF LedgerInv, SuccessIsComplete, RefundOnlyCaptured
<1>3. NothingUndone
  BY DEF NothingUndone
<1>4. JobsBacked'
  BY <1>3, JobsStayBacked
<1> QED
  BY <1>1, <1>2, <1>4 DEF LedgerInv

LEMMA LedgerReadForCapture ==
    ASSUME TypeOK, LedgerInv, NEW h \in Handler, NEW t \in Tx, ReadForCapture(h, t)
    PROVE  LedgerInv'
<1> DEFINE job == NewJob("capture", t, row[t], "transaction.success")
<1>1. job \in Job
  <2>1. "capture" \in Step \ {"checkKey", "setKey"} /\ "transaction.success" \in EventType
        /\ row[t] \in Row
    BY DEF Step, EventType, TypeOK
  <2> QED
    BY <2>1, NewJobType
<1>2. /\ handler'[h] = job
      /\ \A g \in Handler : g # h => handler'[g] = handler[g]
  BY <1>1, StartFields DEF ReadForCapture
<1>3. UNCHANGED <<row, refunds, captured, events>>
      /\ row[t].status \notin {"absent", "failed"}
  BY DEF ReadForCapture, Capturable, Open
<1>4. JobBacked(handler[h])' /\ handler'[h].tx \in Tx
  BY <1>2, <1>3 DEF NewJob, JobBacked, RefundStep
<1>5. EventsFollowCommits'
  BY <1>3 DEF LedgerInv, EventsFollowCommits
<1> QED
  BY <1>2, <1>3, <1>4, <1>5, LedgerNoWrite

LEMMA LedgerRefundPayment ==
    ASSUME TypeOK, LedgerInv, NEW h \in Handler, NEW t \in Tx, NEW m \in Merchant,
           NEW a \in RefundAmount, NEW k \in RefundKey \cup {NoKey},
           RefundPayment(h, t, m, a, k)
    PROVE  LedgerInv'
<1> DEFINE job == RefundJob(t, a, k)
<1>1. job \in Job
  BY RefundAmountAssumption, RefundJobType
<1>2. /\ handler'[h] = job
      /\ \A g \in Handler : g # h => handler'[g] = handler[g]
  BY <1>1, StartFields DEF RefundPayment
<1>3. UNCHANGED <<row, refunds, captured, events>> /\ row[t].status = "success"
  BY DEF RefundPayment
<1>4. t \in captured /\ row[t].completed
  BY <1>3 DEF LedgerInv, SuccessIsComplete
<1>5. /\ job.tx = t /\ job.copy = row[t] /\ job.event = "refund.created"
      /\ job.step \in {"insertRefund", "checkKey"}
  BY DEF RefundJob
<1>6. JobBacked(handler[h])' /\ handler'[h].tx \in Tx
  BY <1>2, <1>3, <1>4, <1>5 DEF JobBacked, RefundStep
<1>7. EventsFollowCommits'
  BY <1>3 DEF LedgerInv, EventsFollowCommits
<1> QED
  BY <1>2, <1>3, <1>6, <1>7, LedgerNoWrite

LEMMA LedgerCheckRefundKey ==
    ASSUME TypeOK, LedgerInv, NEW h \in Handler, CheckRefundKey(h)
    PROVE  LedgerInv'
<1> DEFINE job == handler[h]
<1>1. /\ job \in Job /\ job # Idle /\ job.tx \in Tx
      /\ job.step = "checkKey" /\ JobBacked(job)
  BY JobAt DEF CheckRefundKey, Step
<1>2. UNCHANGED <<row, refunds, captured, events>>
  BY DEF CheckRefundKey
<1>3. EventsFollowCommits'
  BY <1>2 DEF LedgerInv, EventsFollowCommits
<1>4. CASE Done(h)
  BY <1>2, <1>3, <1>4, DoneFields, LedgerNoWrite
<1>5. CASE GoTo(h, "insertRefund")
  <2>1. /\ handler'[h].step = "insertRefund"
        /\ handler'[h].tx = job.tx
        /\ handler'[h].copy = job.copy
        /\ handler'[h].event = job.event
        /\ \A g \in Handler : g # h => handler'[g] = handler[g]
    BY <1>1, <1>5, GoToFields DEF Step
  <2>2. JobBacked(handler[h])' /\ handler'[h].tx \in Tx
    BY <1>1, <1>2, <2>1 DEF JobBacked, RefundStep
  <2> QED
    BY <1>2, <1>3, <2>1, <2>2, LedgerNoWrite
<1> QED
  BY <1>4, <1>5 DEF CheckRefundKey

LEMMA LedgerSetRefundKey ==
    ASSUME TypeOK, LedgerInv, NEW h \in Handler, SetRefundKey(h)
    PROVE  LedgerInv'
<1> DEFINE job == handler[h]
<1>1. /\ job \in Job /\ job # Idle /\ job.tx \in Tx
      /\ job.step = "setKey" /\ JobBacked(job)
  BY JobAt DEF SetRefundKey, Step
<1>2. UNCHANGED <<row, refunds, captured, events>>
  BY DEF SetRefundKey
<1>3. EventsFollowCommits'
  BY <1>2 DEF LedgerInv, EventsFollowCommits
<1>4. /\ handler'[h].step = "emit"
      /\ handler'[h].tx = job.tx
      /\ handler'[h].event = job.event
      /\ \A g \in Handler : g # h => handler'[g] = handler[g]
  BY <1>1, GoToFields DEF SetRefundKey, Step
<1>5. JobBacked(handler[h])' /\ handler'[h].tx \in Tx
  BY <1>1, <1>2, <1>4 DEF JobBacked, RefundStep
<1> QED
  BY <1>2, <1>3, <1>4, <1>5, LedgerNoWrite

LEMMA LedgerEmit ==
    ASSUME TypeOK, LedgerInv, NEW h \in Handler, Emit(h)
    PROVE  LedgerInv'
<1> DEFINE job == handler[h]
           event == [type |-> job.event, tx |-> job.tx]
<1>1. /\ job \in Job /\ job # Idle /\ job.tx \in Tx
      /\ job.step = "emit" /\ JobBacked(job)
  BY JobAt DEF Emit, Step
<1>2. UNCHANGED <<row, refunds, captured>> /\ events' = events \cup {event}
  BY DEF Emit
<1>3. EventsFollowCommits'
  BY <1>1, <1>2 DEF LedgerInv, EventsFollowCommits, JobBacked
<1>4. \A e \in events' \ events : row[e.tx].status \notin {"absent", "failed"}
  BY <1>1, <1>2 DEF JobBacked
<1> QED
  BY <1>2, <1>3, <1>4, DoneFields, LedgerNoWrite DEF Emit

---------------------------------------------------------------------------
(* Steps that write a transaction or a refund *)

LEMMA LedgerWriteCapture ==
    ASSUME TypeOK, LedgerInv, NEW h \in Handler, WriteCapture(h)
    PROVE  LedgerInv'
<1> DEFINE job == handler[h]
<1>1. /\ job \in Job /\ job # Idle /\ job.tx \in Tx
      /\ job.step = "capture" /\ JobBacked(job)
  BY JobAt DEF WriteCapture, Step
<1>2. /\ row'[job.tx] = [status |-> "success", completed |-> TRUE]
      /\ \A u \in Tx : u # job.tx => row'[u] = row[u]
  BY <1>1, UpdateFields DEF WriteCapture
<1>3. /\ handler'[h].step = "emit"
      /\ handler'[h].tx = job.tx
      /\ handler'[h].event = job.event
      /\ \A g \in Handler : g # h => handler'[g] = handler[g]
  BY <1>1, GoToFields DEF WriteCapture, Step
<1>4. UNCHANGED <<refunds, events>> /\ captured' = captured \cup {job.tx}
  BY DEF WriteCapture
<1>5. UntouchedRows'
  <2> SUFFICES ASSUME NEW t \in Tx, row'[t].status \in {"absent", "failed"}
               PROVE  Untouched(t)'
    BY DEF UntouchedRows
  <2>1. t # job.tx /\ Untouched(t)
    BY <1>2 DEF LedgerInv, UntouchedRows
  <2> QED
    BY <1>2, <1>3, <1>4, <2>1 DEF Untouched
<1>6. SuccessIsComplete'
  BY <1>1, <1>2, <1>4 DEF LedgerInv, SuccessIsComplete
<1>7. RefundOnlyCaptured' /\ EventsFollowCommits'
  BY <1>1, <1>2, <1>4
  DEF LedgerInv, RefundOnlyCaptured, EventsFollowCommits, TypeOK, Event
<1>8. NothingUndone
  BY <1>1, <1>2, <1>4 DEF NothingUndone
<1>9. JobBacked(handler[h])'
  BY <1>1, <1>2, <1>3, <1>4 DEF JobBacked, RefundStep
<1>10. JobsBacked'
  BY <1>3, <1>8, <1>9, JobsStayBacked
<1> QED
  BY <1>5, <1>6, <1>7, <1>10 DEF LedgerInv

LEMMA AppendIsNotEmpty ==
    ASSUME NEW s \in Seq(Nat), NEW amount \in Nat
    PROVE  Append(s, amount) # <<>>
<1>1. Len(Append(s, amount)) = Len(s) + 1 /\ Len(s) \in Nat
  OBVIOUS
<1>2. Len(<<>>) = 0
  OBVIOUS
<1> QED
  BY <1>1, <1>2

LEMMA LedgerInsertRefund ==
    ASSUME TypeOK, LedgerInv, NEW h \in Handler, InsertRefund(h)
    PROVE  LedgerInv'
<1> DEFINE job == handler[h]
<1>1. /\ job \in Job /\ job # Idle /\ job.tx \in Tx
      /\ job.step = "insertRefund" /\ JobBacked(job)
  BY JobAt DEF InsertRefund, Step
<1>2. job.amount \in Nat /\ refunds[job.tx] \in Seq(Nat)
  BY <1>1, JobFields DEF TypeOK
<1>3. /\ refunds'[job.tx] # <<>>
      /\ \A u \in Tx : u # job.tx => refunds'[u] = refunds[u]
  BY <1>1, <1>2, AppendIsNotEmpty DEF InsertRefund, TypeOK
<1>4. /\ handler'[h].step = "markRefunded"
      /\ handler'[h].tx = job.tx
      /\ handler'[h].copy = job.copy
      /\ handler'[h].event = job.event
      /\ \A g \in Handler : g # h => handler'[g] = handler[g]
  BY <1>1, GoToFields DEF InsertRefund, Step
<1>5. UNCHANGED <<row, events, captured>>
  BY DEF InsertRefund
<1>6. job.tx \in captured /\ row[job.tx].status \notin {"absent", "failed"}
  BY <1>1 DEF JobBacked, RefundStep
<1>7. UntouchedRows'
  <2> SUFFICES ASSUME NEW t \in Tx, row'[t].status \in {"absent", "failed"}
               PROVE  Untouched(t)'
    BY DEF UntouchedRows
  <2>1. t # job.tx /\ Untouched(t)
    BY <1>5, <1>6 DEF LedgerInv, UntouchedRows
  <2> QED
    BY <1>3, <1>4, <1>5, <2>1 DEF Untouched
<1>8. SuccessIsComplete'
  BY <1>5 DEF LedgerInv, SuccessIsComplete
<1>9. RefundOnlyCaptured' /\ EventsFollowCommits'
  BY <1>3, <1>5, <1>6
  DEF LedgerInv, RefundOnlyCaptured, EventsFollowCommits, TypeOK, Event
<1>10. NothingUndone
  BY <1>1, <1>3, <1>5 DEF NothingUndone
<1>11. JobBacked(handler[h])'
  BY <1>1, <1>3, <1>4, <1>5 DEF JobBacked, RefundStep
<1>12. JobsBacked'
  BY <1>4, <1>10, <1>11, JobsStayBacked
<1> QED
  BY <1>7, <1>8, <1>9, <1>12 DEF LedgerInv

LEMMA LedgerWriteRefunded ==
    ASSUME TypeOK, LedgerInv, NEW h \in Handler, WriteRefunded(h)
    PROVE  LedgerInv'
<1> DEFINE job == handler[h]
           next == IF job.key = NoKey THEN "emit" ELSE "setKey"
<1>1. /\ job \in Job /\ job # Idle /\ job.tx \in Tx
      /\ job.step = "markRefunded" /\ JobBacked(job)
  BY JobAt DEF WriteRefunded, Step
<1>2. /\ row'[job.tx] = [job.copy EXCEPT !.status = "refunded"]
      /\ \A u \in Tx : u # job.tx => row'[u] = row[u]
  BY <1>1, UpdateFields DEF WriteRefunded
<1>3. row'[job.tx].status = "refunded"
  BY <1>1, <1>2, JobFields DEF Row
<1>4. /\ handler'[h].step = next
      /\ handler'[h].tx = job.tx
      /\ handler'[h].copy = job.copy
      /\ handler'[h].event = job.event
      /\ \A g \in Handler : g # h => handler'[g] = handler[g]
  BY <1>1, GoToFields DEF WriteRefunded, Step
<1>5. UNCHANGED <<refunds, events, captured>>
  BY DEF WriteRefunded
<1>6. UntouchedRows'
  <2> SUFFICES ASSUME NEW t \in Tx, row'[t].status \in {"absent", "failed"}
               PROVE  Untouched(t)'
    BY DEF UntouchedRows
  <2>1. t # job.tx /\ Untouched(t)
    BY <1>2, <1>3 DEF LedgerInv, UntouchedRows
  <2> QED
    BY <1>2, <1>4, <1>5, <2>1 DEF Untouched
<1>7. SuccessIsComplete'
  BY <1>1, <1>2, <1>3, <1>5 DEF LedgerInv, SuccessIsComplete
<1>8. RefundOnlyCaptured' /\ EventsFollowCommits'
  BY <1>1, <1>2, <1>3, <1>5
  DEF LedgerInv, RefundOnlyCaptured, EventsFollowCommits, TypeOK, Event
<1>9. NothingUndone
  BY <1>1, <1>2, <1>3, <1>5 DEF NothingUndone
<1>10. JobBacked(handler[h])'
  BY <1>1, <1>2, <1>3, <1>4, <1>5 DEF JobBacked, RefundStep
<1>11. JobsBacked'
  BY <1>4, <1>9, <1>10, JobsStayBacked
<1> QED
  BY <1>6, <1>7, <1>8, <1>11 DEF LedgerInv

LEMMA LedgerAdminRefund ==
    ASSUME TypeOK, LedgerInv, NEW h \in Handler, NEW t \in Tx, AdminRefund(h, t)
    PROVE  LedgerInv'
<1>1. /\ row'[t].status = "refunded"
      /\ \A u \in Tx : u # t => row'[u] = row[u]
  BY DEF AdminRefund, TypeOK, Row
<1>2. UNCHANGED <<refunds, events, captured, handler>>
  BY DEF AdminRefund
<1>3. UntouchedRows' /\ SuccessIsComplete'
  BY <1>1, <1>2 DEF LedgerInv, UntouchedRows, Untouched, SuccessIsComplete
<1>4. RefundOnlyCaptured' /\ EventsFollowCommits'
  BY <1>1, <1>2
  DEF LedgerInv, RefundOnlyCaptured, EventsFollowCommits, TypeOK, Event
<1>5. NothingUndone
  BY <1>1, <1>2 DEF NothingUndone
<1>6. JobsBacked'
  BY <1>2, <1>5, OtherJobs DEF JobsBacked
<1> QED
  BY <1>3, <1>4, <1>6 DEF LedgerInv

---------------------------------------------------------------------------
(* Faults *)

LEMMA LedgerAbandon ==
    ASSUME TypeOK, LedgerInv, NEW h \in Handler, Abandon(h)
    PROVE  LedgerInv'
<1>1. UNCHANGED <<row, refunds, captured, events>>
  BY DEF Abandon
<1>2. EventsFollowCommits'
  BY <1>1 DEF LedgerInv, EventsFollowCommits
<1> QED
  BY <1>1, <1>2, DoneFields, LedgerNoWrite DEF Abandon

LEMMA LedgerCarryOn ==
    ASSUME TypeOK, LedgerInv, NEW h \in Handler, CarryOn(h)
    PROVE  LedgerInv'
<1> DEFINE job == handler[h]
<1>1. UNCHANGED <<row, refunds, captured, events>>
  BY DEF CarryOn
<1>2. EventsFollowCommits'
  BY <1>1 DEF LedgerInv, EventsFollowCommits
<1>3. PICK from \in Step, to \in Step :
          /\ At(h, from) /\ GoTo(h, to)
          /\ <<from, to>> \in {<<"split", "emit">>, <<"checkKey", "insertRefund">>,
                               <<"setKey", "emit">>}
  BY DEF CarryOn, Step
<1>4. /\ job \in Job /\ job # Idle /\ job.tx \in Tx
      /\ job.step = from /\ JobBacked(job)
  BY <1>3, JobAt
<1>5. /\ handler'[h].step = to
      /\ handler'[h].tx = job.tx
      /\ handler'[h].copy = job.copy
      /\ handler'[h].event = job.event
      /\ \A g \in Handler : g # h => handler'[g] = handler[g]
  BY <1>3, <1>4, GoToFields
<1>6. JobBacked(handler[h])' /\ handler'[h].tx \in Tx
  BY <1>1, <1>3, <1>4, <1>5 DEF JobBacked, RefundStep
<1> QED
  BY <1>1, <1>2, <1>5, <1>6, LedgerNoWrite

LEMMA LedgerUnchanged ==
    ASSUME LedgerInv, UNCHANGED <<row, refunds, events, captured, handler>>
    PROVE  LedgerInv'
BY DEF LedgerInv, UntouchedRows, Untouched, SuccessIsComplete, RefundOnlyCaptured,
       EventsFollowCommits, JobsBacked, JobBacked

---------------------------------------------------------------------------

LEMMA LedgerStep == TypeOK /\ LedgerInv /\ [Next]_vars => LedgerInv'
<1> SUFFICES ASSUME TypeOK, LedgerInv, [Next]_vars
             PROVE  LedgerInv'
  OBVIOUS
<1>1. ASSUME NEW h \in Handler, NEW t \in Tx, Request(h, t)
      PROVE  LedgerInv'
  BY <1>1, LedgerStoreBlocked, LedgerStoreCharged, LedgerReadForCapture,
     LedgerRefundPayment, LedgerAdminRefund
  DEF Request, Create, CapturePayment, AdminForceCapture
<1>2. ASSUME NEW h \in Handler, Continue(h)
      PROVE  LedgerInv'
  BY <1>2, LedgerSplit, LedgerWriteCapture, LedgerCheckRefundKey, LedgerInsertRefund,
     LedgerWriteRefunded, LedgerSetRefundKey, LedgerEmit
  DEF Continue
<1>3. CASE Disturb
  BY <1>3, LedgerAbandon, LedgerCarryOn, LedgerUnchanged DEF Disturb, LoseRefundKey
<1>4. CASE UNCHANGED vars
  BY <1>4, LedgerUnchanged DEF vars
<1> QED
  BY <1>1, <1>2, <1>3, <1>4 DEF Next

\* The inductive invariant: what rows, refunds and events say of each other,
\* and what every job in flight may rely on (payment_service.go:276-316,
\* 380-421, 486-559).
THEOREM LedgerInvariant == Spec => []LedgerInv
<1>1. Init => TypeOK /\ LedgerInv
  BY TypeInit, LedgerInit
<1>2. TypeOK /\ LedgerInv /\ [Next]_vars => TypeOK' /\ LedgerInv'
  BY TypeStep, LedgerStep
<1> QED
  BY <1>1, <1>2, PTL DEF Spec

\* Refund rows exist only for captured transactions (payment_service.go:486-564).
THEOREM RefundsAreOfCaptures == Spec => []RefundOnlyCaptured
<1>1. LedgerInv => RefundOnlyCaptured
  BY DEF LedgerInv
<1> QED
  BY <1>1, LedgerInvariant, PTL

\* A blocked payment is out of reach of every request (payment_service.go:151-164).
THEOREM BlockedIsFinal == Spec => []BlockedStaysBlocked
<1>1. LedgerInv => BlockedStaysBlocked
  BY DEF LedgerInv, BlockedStaysBlocked, UntouchedRows, Untouched
<1> QED
  BY <1>1, LedgerInvariant, PTL

\* A success row is complete and captured (payment_service.go:390-398).
THEOREM SuccessIsBacked == Spec => []SuccessIsComplete
<1>1. LedgerInv => SuccessIsComplete
  BY DEF LedgerInv
<1> QED
  BY <1>1, LedgerInvariant, PTL

\* Events announce committed statements only (payment_service.go:396-421, 521-559).
THEOREM EventsAreTrue == Spec => []EventsFollowCommits
<1>1. LedgerInv => EventsFollowCommits
  BY DEF LedgerInv
<1> QED
  BY <1>1, LedgerInvariant, PTL

---------------------------------------------------------------------------
(* The action property *)

KeepsCompletion ==
    \A t \in Tx : row[t].completed /\ ~row'[t].completed =>
        \E h \in Handler : At(h, "split") /\ handler[h].tx = t

LEMMA CompletionStep == TypeOK /\ LedgerInv /\ [Next]_vars => [KeepsCompletion]_vars
<1> SUFFICES ASSUME TypeOK, LedgerInv, Next
             PROVE  KeepsCompletion
  OBVIOUS
<1>1. ASSUME row' = row
      PROVE  KeepsCompletion
  BY <1>1 DEF KeepsCompletion
<1>2. ASSUME NEW t \in Tx, row[t].status = "absent",
             \A u \in Tx : u # t => row'[u] = row[u]
      PROVE  KeepsCompletion
  <2>1. ~row[t].completed
    BY <1>2 DEF LedgerInv, UntouchedRows, Untouched
  <2> QED
    BY <1>2, <2>1 DEF KeepsCompletion
<1>3. ASSUME NEW t \in Tx, row'[t].completed \/ row'[t].completed = row[t].completed,
             \A u \in Tx : u # t => row'[u] = row[u]
      PROVE  KeepsCompletion
  BY <1>3 DEF KeepsCompletion
<1>4. ASSUME NEW h \in Handler, NEW t \in Tx, Request(h, t)
      PROVE  KeepsCompletion
  <2>1. CASE StoreBlocked(h, t)
    BY <1>2, <2>1, UpdateFields DEF StoreBlocked
  <2>2. ASSUME NEW status \in Open, NEW split \in BOOLEAN,
               StoreCharged(h, t, status, split)
        PROVE  KeepsCompletion
    BY <1>2, <2>2, UpdateFields DEF StoreCharged
  <2>3. CASE AdminRefund(h, t)
    <3>1. row'[t].completed = row[t].completed
      BY <2>3 DEF AdminRefund, TypeOK, Row
    <3>2. \A u \in Tx : u # t => row'[u] = row[u]
      BY <2>3 DEF AdminRefund, TypeOK
    <3> QED
      BY <1>3, <3>1, <3>2
  <2> QED
    BY <1>1, <1>4, <2>1, <2>2, <2>3
    DEF Request, Create, CapturePayment, AdminForceCapture, ReadForCapture, RefundPayment
<1>5. ASSUME NEW h \in Handler, Continue(h)
      PROVE  KeepsCompletion
  <2>1. CASE SplitTransaction(h)
    <3>1. handler[h].tx \in Tx
      BY <2>1, JobAt DEF SplitTransaction, Step
    <3>2. \A u \in Tx : u # handler[h].tx => row'[u] = row[u]
      BY <2>1, <3>1, UpdateFields DEF SplitTransaction
    <3> QED
      BY <2>1, <3>2 DEF KeepsCompletion, SplitTransaction
  <2>2. CASE WriteCapture(h)
    <3>1. handler[h].tx \in Tx
      BY <2>2, JobAt DEF WriteCapture, Step
    <3>2. /\ row'[handler[h].tx] = [status |-> "success", completed |-> TRUE]
          /\ \A u \in Tx : u # handler[h].tx => row'[u] = row[u]
      BY <2>2, <3>1, UpdateFields DEF WriteCapture
    <3> QED
      BY <1>3, <3>1, <3>2
  <2>3. CASE WriteRefunded(h)
    <3> DEFINE job == handler[h]
    <3>1. job \in Job /\ job.tx \in Tx /\ job.step = "markRefunded" /\ JobBacked(job)
      BY <2>3, JobAt DEF WriteRefunded, Step
    <3>2. job.copy \in Row /\ job.copy.completed
      BY <3>1, JobFields DEF JobBacked, RefundStep
    <3>3. /\ row'[job.tx] = [job.copy EXCEPT !.status = "refunded"]
          /\ \A u \in Tx : u # job.tx => row'[u] = row[u]
      BY <2>3, <3>1, UpdateFields DEF WriteRefunded
    <3>4. row'[job.tx].completed
      BY <3>2, <3>3 DEF Row
    <3> QED
      BY <1>3, <3>1, <3>3, <3>4
  <2> QED
    BY <1>1, <1>5, <2>1, <2>2, <2>3
    DEF Continue, CheckRefundKey, InsertRefund, SetRefundKey, Emit
<1>6. CASE Disturb
  BY <1>1, <1>6 DEF Disturb, Abandon, CarryOn, LoseRefundKey
<1> QED
  BY <1>4, <1>5, <1>6 DEF Next

\* Only the split forgets a completion time (payout_service.go:45-53).
THEOREM CompletionIsKept == Spec => OnlySplitForgetsCompletion
<1>1. OnlySplitForgetsCompletion <=> [][KeepsCompletion]_vars
  BY DEF OnlySplitForgetsCompletion, KeepsCompletion
<1> QED
  BY <1>1, CompletionStep, TypeCorrect, LedgerInvariant, PTL DEF Spec

---------------------------------------------------------------------------
(* One request at a time and nothing failing, PaymentLifecycle implements  *)
(* PaymentContract.  With two handlers, or with one fault, it does not.    *)

Serial == (\E h : Handler = {h}) /\ MaxFaults = 0

\* What the only request at work has read is still so when it writes.
JobFresh(job) ==
    /\ job.step = "split" => row[job.tx] = job.copy
    /\ job.step = "capture" => row[job.tx].status \in Capturable
    /\ job.step \in {"checkKey", "insertRefund"} =>
          /\ row[job.tx].status = "success"
          /\ refunds[job.tx] = <<>>
          /\ job.amount <= Amount[job.tx]
    /\ job.step = "markRefunded" => row[job.tx].status = "success"

JobsFresh == \A h \in Handler : handler[h] # Idle => JobFresh(handler[h])

Closing(t) == \E h \in Handler : At(h, "markRefunded") /\ handler[h].tx = t

\* A payment with a refunds row is closed, or about to be by the request at work.
PaidBackIsClosed ==
    \A t \in Tx : refunds[t] # <<>> =>
        /\ row[t].status \in {"success", "refunded"}
        /\ row[t].status = "success" => Closing(t)
        /\ Len(refunds[t]) = 1
        /\ refunds[t][1] <= Amount[t]

SerialInv == JobsFresh /\ PaidBackIsClosed

ContractVars == <<[t \in Tx |-> ContractState(t)], refunds>>

---------------------------------------------------------------------------

LEMMA OneHandler ==
    ASSUME Serial, NEW h \in Handler, NEW g \in Handler
    PROVE  g = h
BY DEF Serial

LEMMA NoFaults == ASSUME Serial, TypeOK PROVE ~Disturb
<1>1. faults = 0 /\ ~(faults < MaxFaults)
  BY DEF Serial, TypeOK
<1> QED
  BY <1>1 DEF Disturb, Abandon, CarryOn, LoseRefundKey, Fault

\* The refinement mapping moves only where a row or the refunds of a payment do.
LEMMA SameContractState ==
    ASSUME NEW t \in Tx, row'[t] = row[t], refunds'[t] = refunds[t]
    PROVE  ContractState(t)' = ContractState(t)
BY DEF ContractState

LEMMA ContractStutter ==
    ASSUME UNCHANGED <<row, refunds>>
    PROVE  UNCHANGED ContractVars
BY DEF ContractVars, ContractState

LEMMA ContractInit == Init => Contract!Init
<1> SUFFICES ASSUME Init
             PROVE  Contract!Init
  OBVIOUS
<1>1. \A t \in Tx : ContractState(t) = "none"
  BY StatusFacts DEF Init, ContractState
<1> QED
  BY <1>1 DEF Init, Contract!Init

LEMMA SerialInit == Init => SerialInv
BY DEF Init, SerialInv, JobsFresh, PaidBackIsClosed, Idle

\* A step of the mapped state from ContractState(t) to s.
LEMMA ContractMove ==
    ASSUME NEW t \in Tx, NEW from, NEW s,
           ContractState(t) \in from, ContractState(t)' = s,
           \A u \in Tx : u # t => row'[u] = row[u] /\ refunds'[u] = refunds[u]
    PROVE  Contract!Move(t, from, s)
<1>1. \A u \in Tx : u # t => ContractState(u)' = ContractState(u)
  BY SameContractState
<1> QED
  BY <1>1 DEF Contract!Move

---------------------------------------------------------------------------
(* Each step keeps SerialInv and is a step of the contract or a stutter.   *)

Simulates == [Contract!Next]_ContractVars

\* The tables stand still and the stepping handler's job, if it has one, has
\* read what they say.
LEMMA SerialNoWrite ==
    ASSUME TypeOK, SerialInv, Serial, UNCHANGED <<row, refunds>>,
           NEW h \in Handler, ~At(h, "markRefunded"),
           handler'[h] # Idle => JobFresh(handler[h])'
    PROVE  SerialInv' /\ Simulates
<1>1. JobsFresh'
  BY OneHandler DEF JobsFresh
<1>2. \A t \in Tx : ~Closing(t)
  BY OneHandler DEF Closing
<1>3. PaidBackIsClosed'
  BY <1>2 DEF SerialInv, PaidBackIsClosed
<1>4. Simulates
  BY ContractStutter DEF Simulates
<1> QED
  BY <1>1, <1>3, <1>4 DEF SerialInv

LEMMA IdleHandler ==
    ASSUME Serial, SerialInv, NEW h \in Handler, handler[h] = Idle, NEW t \in Tx
    PROVE  ~Closing(t)
BY OneHandler DEF Closing, At, Idle

LEMMA SerialStoreBlocked ==
    ASSUME TypeOK, LedgerInv, SerialInv, Serial, NEW h \in Handler, NEW t \in Tx,
           StoreBlocked(h, t)
    PROVE  SerialInv' /\ Simulates
<1>1. /\ row'[t].status = "failed"
      /\ \A u \in Tx : u # t => row'[u] = row[u]
  BY UpdateFields DEF StoreBlocked
<1>2. UNCHANGED <<refunds, handler>> /\ handler[h] = Idle /\ row[t].status = "absent"
  BY DEF StoreBlocked
<1>3. refunds[t] = <<>>
  BY <1>2 DEF LedgerInv, UntouchedRows, Untouched
<1>4. JobsFresh'
  BY <1>2, OneHandler DEF JobsFresh
<1>5. PaidBackIsClosed'
  BY <1>1, <1>2, <1>3, IdleHandler DEF SerialInv, PaidBackIsClosed, Closing
<1>6. ContractState(t) \in {"none"} /\ ContractState(t)' = "declined"
  BY <1>1, <1>2, StatusFacts DEF ContractState
<1>7. Contract!Decline(t)
  BY <1>1, <1>2, <1>6, ContractMove DEF Contract!Decline
<1>8. Simulates
  BY <1>7 DEF Simulates, Contract!Next
<1> QED
  BY <1>4, <1>5, <1>8 DEF SerialInv

LEMMA SerialStoreCharged ==
    ASSUME TypeOK, LedgerInv, SerialInv, Serial, NEW h \in Handler, NEW t \in Tx,
           NEW status \in Open, NEW split \in BOOLEAN, StoreCharged(h, t, status, split)
    PROVE  SerialInv' /\ Simulates
<1> DEFINE fresh == [status |-> status, completed |-> FALSE]
           step == IF split THEN "split" ELSE "emit"
           job == NewJob(step, t, fresh, "transaction.created")
<1>1. job \in Job
  <2>1. fresh \in Row /\ step \in Step \ {"checkKey", "setKey"}
        /\ "transaction.created" \in EventType
    BY DEF Row, Open, Status, Step, EventType
  <2> QED
    BY <2>1, NewJobType
<1>2. /\ row'[t] = fresh
      /\ \A u \in Tx : u # t => row'[u] = row[u]
  BY UpdateFields DEF StoreCharged
<1>3. handler'[h] = job /\ handler[h] = Idle
  BY <1>1, StartFields DEF StoreCharged, Start
<1>4. UNCHANGED refunds /\ row[t].status = "absent"
  BY DEF StoreCharged
<1>5. refunds[t] = <<>>
  BY <1>4 DEF LedgerInv, UntouchedRows, Untouched
<1>6. JobFresh(handler[h])'
  BY <1>2, <1>3 DEF JobFresh, NewJob
<1>7. JobsFresh'
  BY <1>6, OneHandler DEF JobsFresh
<1>8. PaidBackIsClosed'
  BY <1>2, <1>3, <1>4, <1>5, IdleHandler DEF SerialInv, PaidBackIsClosed
<1>9. ContractState(t) \in {"none"} /\ ContractState(t)' = "authorized"
  BY <1>2, <1>4, StatusFacts DEF ContractState, Capturable, Open
<1>10. Contract!Authorize(t)
  BY <1>2, <1>4, <1>9, ContractMove DEF Contract!Authorize
<1>11. Simulates
  BY <1>10 DEF Simulates, Contract!Next
<1> QED
  BY <1>7, <1>8, <1>11 DEF SerialInv

LEMMA SerialReadForCapture ==
    ASSUME TypeOK, LedgerInv, SerialInv, Serial, NEW h \in Handler, NEW t \in Tx,
           ReadForCapture(h, t)
    PROVE  SerialInv' /\ Simulates
<1> DEFINE job == NewJob("capture", t, row[t], "transaction.success")
<1>1. job \in Job
  <2>1. "capture" \in Step \ {"checkKey", "setKey"} /\ "transaction.success" \in EventType
        /\ row[t] \in Row
    BY DEF Step, EventType, TypeOK
  <2> QED
    BY <2>1, NewJobType
<1>2. handler'[h] = job /\ handler[h] = Idle
  BY <1>1, StartFields DEF ReadForCapture, Start
<1>3. UNCHANGED <<row, refunds>> /\ row[t].status \in Capturable
  BY DEF ReadForCapture
<1>4. JobFresh(handler[h])'
  BY <1>2, <1>3 DEF JobFresh, NewJob
<1>5. ~At(h, "markRefunded")
  BY <1>2 DEF At, Idle
<1> QED
  BY <1>3, <1>4, <1>5, SerialNoWrite

LEMMA SerialRefundPayment ==
    ASSUME TypeOK, LedgerInv, SerialInv, Serial, NEW h \in Handler, NEW t \in Tx,
           NEW m \in Merchant, NEW a \in RefundAmount, NEW k \in RefundKey \cup {NoKey},
           RefundPayment(h, t, m, a, k)
    PROVE  SerialInv' /\ Simulates
<1> DEFINE job == RefundJob(t, a, k)
<1>1. job \in Job
  BY RefundAmountAssumption, RefundJobType
<1>2. handler'[h] = job /\ handler[h] = Idle
  BY <1>1, StartFields DEF RefundPayment, Start
<1>3. /\ UNCHANGED <<row, refunds>>
      /\ row[t].status = "success" /\ a <= Amount[t]
  BY DEF RefundPayment
<1>4. refunds[t] = <<>>
  BY <1>2, <1>3, IdleHandler DEF SerialInv, PaidBackIsClosed
<1>5. /\ job.tx = t /\ job.amount = a
      /\ job.step \in {"insertRefund", "checkKey"}
  BY DEF RefundJob
<1>6. JobFresh(handler[h])'
  BY <1>2, <1>3, <1>4, <1>5 DEF JobFresh
<1>7. ~At(h, "markRefunded")
  BY <1>2 DEF At, Idle
<1> QED
  BY <1>3, <1>6, <1>7, SerialNoWrite

LEMMA SerialAdminRefund ==
    ASSUME TypeOK, LedgerInv, SerialInv, Serial, NEW h \in Handler, NEW t \in Tx,
           AdminRefund(h, t)
    PROVE  SerialInv' /\ Simulates
<1>1. /\ row'[t].status = "refunded"
      /\ \A u \in Tx : u # t => row'[u] = row[u]
  BY DEF AdminRefund, TypeOK, Row
<1>2. /\ UNCHANGED <<refunds, handler>> /\ handler[h] = Idle
      /\ row[t].status \notin {"absent", "refunded"} /\ row[t].status \in Status
  BY DEF AdminRefund, TypeOK, Row
<1>3. refunds[t] = <<>> \/ row[t].status # "success"
  BY <1>2, IdleHandler DEF SerialInv, PaidBackIsClosed
<1>4. JobsFresh'
  BY <1>2, OneHandler DEF JobsFresh
<1>5. PaidBackIsClosed'
  BY <1>1, <1>2, IdleHandler DEF SerialInv, PaidBackIsClosed
<1>6. ContractState(t)' = "refunded"
  BY <1>1, <1>2, StatusFacts DEF ContractState
<1>7. ContractState(t) \in {"declined", "authorized", "captured"}
  BY <1>2, <1>3, StatusFacts DEF ContractState, Status, Capturable, Open
<1>8. Contract!WriteOff(t)
  BY <1>1, <1>2, <1>6, <1>7, ContractMove DEF Contract!WriteOff
<1>9. Simulates
  BY <1>8 DEF Simulates, Contract!Next
<1> QED
  BY <1>4, <1>5, <1>9 DEF SerialInv

LEMMA SerialSplit ==
    ASSUME TypeOK, LedgerInv, SerialInv, Serial, NEW h \in Handler, SplitTransaction(h)
    PROVE  SerialInv' /\ Simulates
<1> DEFINE job == handler[h]
<1>1. job \in Job /\ job # Idle /\ job.tx \in Tx /\ job.step = "split"
  BY JobAt DEF SplitTransaction, Step
<1>2. row[job.tx] = job.copy
  BY <1>1 DEF SerialInv, JobsFresh, JobFresh
<1>3. row' = row /\ refunds' = refunds
  BY <1>1, <1>2 DEF SplitTransaction, Update, TypeOK
<1>4. handler'[h].step = "emit"
  BY <1>1, GoToFields DEF SplitTransaction, Step
<1>5. JobFresh(handler[h])'
  BY <1>4 DEF JobFresh
<1> QED
  BY <1>1, <1>3, <1>5, SerialNoWrite DEF At

LEMMA SerialWriteCapture ==
    ASSUME TypeOK, LedgerInv, SerialInv, Serial, NEW h \in Handler, WriteCapture(h)
    PROVE  SerialInv' /\ Simulates
<1> DEFINE job == handler[h]
<1>1. job \in Job /\ job # Idle /\ job.tx \in Tx /\ job.step = "capture"
  BY JobAt DEF WriteCapture, Step
<1> PICK t \in Tx : t = job.tx
  BY <1>1
<1>2. row[t].status \in Capturable
  BY <1>1 DEF SerialInv, JobsFresh, JobFresh
<1>3. refunds[t] = <<>>
  BY <1>1, <1>2, StatusFacts DEF SerialInv, PaidBackIsClosed
<1>4. /\ row'[t].status = "success"
      /\ \A u \in Tx : u # t => row'[u] = row[u]
  BY <1>1, UpdateFields DEF WriteCapture
<1>5. handler'[h].step = "emit" /\ UNCHANGED refunds
  BY <1>1, GoToFields DEF WriteCapture, Step
<1>6. JobFresh(handler[h])'
  BY <1>5 DEF JobFresh
<1>7. JobsFresh'
  BY <1>6, OneHandler DEF JobsFresh
<1>8. \A u \in Tx : ~Closing(u)
  BY <1>1, OneHandler DEF Closing, At
<1>9. PaidBackIsClosed'
  BY <1>3, <1>4, <1>5, <1>8 DEF SerialInv, PaidBackIsClosed
<1>10. ContractState(t) \in {"authorized"}
  BY <1>2, StatusFacts DEF ContractState
<1>11. ContractState(t)' = "captured"
  BY <1>3, <1>4, <1>5, StatusFacts DEF ContractState
<1>12. Contract!Capture(t)
  BY <1>1, <1>4, <1>5, <1>10, <1>11, ContractMove DEF Contract!Capture
<1>13. Simulates
  BY <1>1, <1>12 DEF Simulates, Contract!Next
<1> QED
  BY <1>7, <1>9, <1>13 DEF SerialInv

LEMMA SerialCheckRefundKey ==
    ASSUME TypeOK, LedgerInv, SerialInv, Serial, NEW h \in Handler, CheckRefundKey(h)
    PROVE  SerialInv' /\ Simulates
<1> DEFINE job == handler[h]
<1>1. job \in Job /\ job # Idle /\ job.tx \in Tx /\ job.step = "checkKey"
  BY JobAt DEF CheckRefundKey, Step
<1>2. UNCHANGED <<row, refunds>> /\ ~At(h, "markRefunded")
  BY <1>1 DEF CheckRefundKey, At
<1>3. CASE Done(h)
  BY <1>2, <1>3, DoneFields, SerialNoWrite
<1>4. CASE GoTo(h, "insertRefund")
  <2>1. /\ handler'[h].step = "insertRefund"
        /\ handler'[h].tx = job.tx
        /\ handler'[h].amount = job.amount
    BY <1>1, <1>4 DEF GoTo, TypeOK, Job
  <2>2. JobFresh(handler[h])'
    BY <1>1, <1>2, <2>1 DEF JobFresh, SerialInv, JobsFresh
  <2> QED
    BY <1>2, <2>2, SerialNoWrite
<1> QED
  BY <1>3, <1>4 DEF CheckRefundKey

LEMMA AppendToEmpty ==
    ASSUME NEW amount \in Nat
    PROVE  /\ Len(Append(<<>>, amount)) = 1
           /\ Append(<<>>, amount)[1] = amount
           /\ Append(<<>>, amount) # <<>>
<1>1. <<>> \in Seq(Nat)
  OBVIOUS
<1>2. Append(<<>>, amount) # <<>>
  BY <1>1, AppendIsNotEmpty
<1> QED
  BY <1>2

LEMMA SerialInsertRefund ==
    ASSUME TypeOK, LedgerInv, SerialInv, Serial, NEW h \in Handler, InsertRefund(h)
    PROVE  SerialInv' /\ Simulates
<1> DEFINE job == handler[h]
<1>1. job \in Job /\ job # Idle /\ job.tx \in Tx /\ job.step = "insertRefund"
  BY JobAt DEF InsertRefund, Step
<1> PICK t \in Tx : t = job.tx
  BY <1>1
<1>2. /\ row[t].status = "success"
      /\ refunds[t] = <<>>
      /\ job.amount <= Amount[t] /\ job.amount \in Nat
  BY <1>1, JobFields DEF SerialInv, JobsFresh, JobFresh
<1>3. /\ UNCHANGED row
      /\ refunds' = [refunds EXCEPT ![t] = Append(@, job.amount)]
      /\ refunds'[t] = Append(<<>>, job.amount)
      /\ \A u \in Tx : u # t => refunds'[u] = refunds[u]
  BY <1>1, <1>2 DEF InsertRefund, TypeOK
<1>4. /\ Len(refunds'[t]) = 1
      /\ refunds'[t][1] = job.amount
      /\ refunds'[t] # <<>>
  BY <1>2, <1>3, AppendToEmpty
<1>5. handler'[h].step = "markRefunded" /\ handler'[h].tx = t
  BY <1>1, GoToFields DEF InsertRefund, Step
<1>6. JobFresh(handler[h])'
  BY <1>2, <1>3, <1>5 DEF JobFresh
<1>7. JobsFresh'
  BY <1>6, OneHandler DEF JobsFresh
<1>8. Closing(t)' /\ \A u \in Tx : ~Closing(u)
  BY <1>1, <1>5, OneHandler DEF Closing, At
<1>9. PaidBackIsClosed'
  BY <1>2, <1>3, <1>4, <1>8 DEF SerialInv, PaidBackIsClosed
<1>10. ContractState(t) \in {"captured"}
  BY <1>2, StatusFacts DEF ContractState
<1>11. ContractState(t)' = "refunded"
  BY <1>2, <1>3, <1>4, StatusFacts DEF ContractState
<1>12. Contract!Move(t, {"captured"}, "refunded")
  BY <1>1, <1>3, <1>10, <1>11, ContractMove
<1>13. Contract!Refund(t, job.amount)
  BY <1>2, <1>3, <1>12 DEF Contract!Refund
<1>14. job.amount \in 0..Amount[t]
  BY <1>1, <1>2, AmountAssumption
<1>15. Simulates
  BY <1>1, <1>13, <1>14 DEF Simulates, Contract!Next
<1> QED
  BY <1>7, <1>9, <1>15 DEF SerialInv

LEMMA SerialWriteRefunded ==
    ASSUME TypeOK, LedgerInv, SerialInv, Serial, NEW h \in Handler, WriteRefunded(h)
    PROVE  SerialInv' /\ Simulates
<1> DEFINE job == handler[h]
           next == IF job.key = NoKey THEN "emit" ELSE "setKey"
<1>1. /\ job \in Job /\ job # Idle /\ job.tx \in Tx
      /\ job.step = "markRefunded" /\ JobBacked(job)
  BY JobAt DEF WriteRefunded, Step
<1> PICK t \in Tx : t = job.tx
  BY <1>1
<1>2. row[t].status = "success" /\ refunds[t] # <<>>
  BY <1>1 DEF SerialInv, JobsFresh, JobFresh, JobBacked
<1>3. /\ row'[t] = [job.copy EXCEPT !.status = "refunded"]
      /\ \A u \in Tx : u # t => row'[u] = row[u]
  BY <1>1, UpdateFields DEF WriteRefunded
<1>4. row'[t].status = "refunded"
  BY <1>1, <1>3, JobFields DEF Row
<1>5. handler'[h].step = next /\ UNCHANGED refunds
  BY <1>1, GoToFields DEF WriteRefunded, Step
<1>6. JobsFresh'
  <2>1. JobFresh(handler[h])'
    BY <1>5 DEF JobFresh
  <2> QED
    BY <2>1, OneHandler DEF JobsFresh
<1>7. \A u \in Tx : u # t => ~Closing(u)
  BY OneHandler DEF Closing
<1>8. PaidBackIsClosed'
  BY <1>3, <1>4, <1>5, <1>7 DEF SerialInv, PaidBackIsClosed
<1>9. ContractState(t) = "refunded" /\ ContractState(t)' = "refunded"
  BY <1>2, <1>4, <1>5, StatusFacts DEF ContractState
<1>10. \A u \in Tx : ContractState(u)' = ContractState(u)
  BY <1>3, <1>5, <1>9, SameContractState
<1>11. Simulates
  BY <1>5, <1>10 DEF Simulates, ContractVars
<1> QED
  BY <1>6, <1>8, <1>11 DEF SerialInv

\* The steps after the last write: the key is stored, the event emitted.
LEMMA SerialAfterwards ==
    ASSUME TypeOK, LedgerInv, SerialInv, Serial, NEW h \in Handler,
           SetRefundKey(h) \/ Emit(h)
    PROVE  SerialInv' /\ Simulates
<1>1. CASE SetRefundKey(h)
  <2>1. handler[h] \in Job /\ handler[h].step = "setKey"
    BY <1>1, JobAt DEF SetRefundKey, Step
  <2>2. handler'[h].step = "emit"
    BY <1>1, <2>1, GoToFields DEF SetRefundKey, Step
  <2>3. JobFresh(handler[h])'
    BY <2>2 DEF JobFresh
  <2> QED
    BY <1>1, <2>1, <2>3, SerialNoWrite DEF SetRefundKey, At
<1>2. CASE Emit(h)
  BY <1>2, DoneFields, SerialNoWrite DEF Emit, At
<1> QED
  BY <1>1, <1>2

LEMMA SerialStep ==
    ASSUME Serial, TypeOK, LedgerInv, SerialInv, [Next]_vars
    PROVE  SerialInv' /\ Simulates
<1>1. ASSUME NEW h \in Handler, NEW t \in Tx, Request(h, t)
      PROVE  SerialInv' /\ Simulates
  BY <1>1, SerialStoreBlocked, SerialStoreCharged, SerialReadForCapture,
     SerialRefundPayment, SerialAdminRefund
  DEF Request, Create, CapturePayment, AdminForceCapture
<1>2. ASSUME NEW h \in Handler, Continue(h)
      PROVE  SerialInv' /\ Simulates
  BY <1>2, SerialSplit, SerialWriteCapture, SerialCheckRefundKey, SerialInsertRefund,
     SerialWriteRefunded, SerialAfterwards
  DEF Continue
<1>3. CASE UNCHANGED vars
  <2>1. SerialInv'
    BY <1>3 DEF vars, SerialInv, JobsFresh, JobFresh, PaidBackIsClosed, Closing, At
  <2>2. Simulates
    BY <1>3, ContractStutter DEF vars, Simulates
  <2> QED
    BY <2>1, <2>2
<1> QED
  BY <1>1, <1>2, <1>3, NoFaults DEF Next

\* Served one at a time, with nothing failing, requests keep the contract of
\* PaymentContract step by step: the status checks of payment_service.go:386,
\* 446, 492 and 497 are enough when nothing comes between check and write.
THEOREM SerialRequestsKeepContract == Serial => (Spec => ImplementsContract)
<1> SUFFICES ASSUME Serial
             PROVE  Spec => ImplementsContract
  OBVIOUS
<1>1. Init => SerialInv /\ Contract!Init
  BY SerialInit, ContractInit
<1>2. TypeOK /\ LedgerInv /\ SerialInv /\ [Next]_vars =>
          SerialInv' /\ [Contract!Next]_ContractVars
  BY SerialStep DEF Simulates
<1> QED
  BY <1>1, <1>2, TypeCorrect, LedgerInvariant, PTL
  DEF Spec, ImplementsContract, Contract!Spec, Contract!contractVars, ContractVars

\* In the same conditions a payment is paid back once, within its amount, and
\* only as it is closed (payment_service.go:492-499).
THEOREM SerialRequestsPayBackOnce == Serial => (Spec => []ContractPaidBackOnce)
<1> SUFFICES ASSUME Serial
             PROVE  Spec => []ContractPaidBackOnce
  OBVIOUS
<1>1. TypeOK /\ LedgerInv /\ SerialInv /\ [Next]_vars => SerialInv'
  BY SerialStep
<1>2. SerialInv => ContractPaidBackOnce
  <2> SUFFICES ASSUME SerialInv, NEW t \in Tx
               PROVE  /\ Len(refunds[t]) <= 1
                      /\ refunds[t] # <<>> =>
                            ContractState(t) = "refunded" /\ refunds[t][1] <= Amount[t]
    BY DEF ContractPaidBackOnce, Contract!PaidBackOnce
  <2>1. CASE refunds[t] = <<>>
    BY <2>1
  <2>2. CASE refunds[t] # <<>>
    <3>1. /\ row[t].status \in {"success", "refunded"}
          /\ Len(refunds[t]) = 1 /\ refunds[t][1] <= Amount[t]
      BY <2>2 DEF SerialInv, PaidBackIsClosed
    <3> QED
      BY <2>2, <3>1, StatusFacts DEF ContractState
  <2> QED
    BY <2>1, <2>2
<1> QED
  BY <1>1, <1>2, SerialInit, TypeCorrect, LedgerInvariant, PTL DEF Spec
=============================================================================
