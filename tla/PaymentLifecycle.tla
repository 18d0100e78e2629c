------------------------- MODULE PaymentLifecycle -------------------------
(***************************************************************************)
(* The life of a row of the transactions table under concurrent HTTP       *)
(* requests: CreatePayment (from the moment the charge is decided),        *)
(* CapturePayment, AdminForceCapture, RefundPayment and the admin refund   *)
(* of internal/domain/service/payment_service.go.                          *)
(*                                                                         *)
(* A handler is one goroutine serving one request.  Every SQL statement    *)
(* and every cache call is atomic; between two of them anything else may   *)
(* run.  Handlers read the row, check its status in memory and write the   *)
(* whole row back later (transactionRepo.Update has no status condition),  *)
(* so each reads in one action and writes in another.                      *)
(*                                                                         *)
(* Charging, provider failover and the payment idempotency key come before *)
(* the first statement modelled here.                                      *)
(***************************************************************************)
EXTENDS Integers, Sequences, FiniteSets

CONSTANTS
    Tx,             \* transaction ids
    Merchant,       \* merchant ids
    Owner,          \* Owner[t]: the merchant_id column of t, never updated
    Amount,         \* Amount[t]: the amount column of t in cents, never updated
    Handler,        \* goroutines that serve requests
    RefundAmount,   \* amounts merchants ask back, in cents after "%.2f"
    RefundKey,      \* Idempotency-Key headers sent with refunds
    NoKey,          \* no such header
    MaxFaults       \* bound: failed calls, lost clients, crashes and evictions

ASSUME OwnerAssumption == Owner \in [Tx -> Merchant]
ASSUME AmountAssumption == Amount \in [Tx -> Nat \ {0}]
ASSUME RefundAmountAssumption == RefundAmount \subseteq Nat
ASSUME NoKeyAssumption == NoKey \notin RefundKey
ASSUME MaxFaultsAssumption == MaxFaults \in Nat

VARIABLES
    row,            \* row[t]: status and completed_at (set or NULL) of t
    refunds,        \* refunds[t]: amounts of the refunds rows of t, in order
    refundKeys,     \* <<t, k>> for the "refund:<merchant>:<t>:<k>" keys cached
    events,         \* events handed to Kafka and webhook_events
    captured,       \* history: transactions whose capture has committed
    handler,        \* handler[h]: Idle, or the job h is working on
    faults          \* faults so far, at most MaxFaults

vars == <<row, refunds, refundKeys, events, captured, handler, faults>>

---------------------------------------------------------------------------

Open == {"processing", "requires_action"}       \* what CreatePayment stores

\* Mutant of Capturable: blocked payments can be captured.
Capturable_Failed == Open \cup {"initiated", "failed"}

Capturable == Open \cup {"initiated"}
Status == {"absent", "initiated", "processing", "requires_action", "success",
           "failed", "refunded"}

\* The columns of a row that transactionRepo.Update rewrites.
Row == [status : Status, completed : BOOLEAN]

EventType == {"transaction.created", "transaction.success", "refund.created"}
Event == [type : EventType, tx : Tx]

\* A job: where the handler stands, the transaction, the copy of the row it
\* read (or built), the refund asked for, and the event it will emit.
Step == {"split", "capture", "checkKey", "insertRefund", "markRefunded",
         "setKey", "emit"}
Job == {job \in [step : Step, tx : Tx, copy : Row, amount : Nat,
                 key : RefundKey \cup {NoKey}, event : EventType] :
           job.step \in {"checkKey", "setKey"} => job.key \in RefundKey}
Idle == [step |-> "idle"]

TypeOK ==
    /\ row \in [Tx -> Row]
    /\ refunds \in [Tx -> Seq(Nat)]
    /\ refundKeys \subseteq Tx \X RefundKey
    /\ events \subseteq Event
    /\ captured \subseteq Tx
    /\ handler \in [Handler -> Job \cup {Idle}]
    /\ faults \in 0..MaxFaults

Init ==
    /\ row = [t \in Tx |-> [status |-> "absent", completed |-> FALSE]]
    /\ refunds = [t \in Tx |-> <<>>]
    /\ refundKeys = {}
    /\ events = {}
    /\ captured = {}
    /\ handler = [h \in Handler |-> Idle]
    /\ faults = 0

---------------------------------------------------------------------------
(* Helpers *)

NewJob(step, t, copy, event) ==
    [step |-> step, tx |-> t, copy |-> copy, amount |-> 0, key |-> NoKey,
     event |-> event]

Start(h, job) == handler[h] = Idle /\ handler' = [handler EXCEPT ![h] = job]
At(h, step) == handler[h].step = step
GoTo(h, step) == handler' = [handler EXCEPT ![h].step = step]
Done(h) == handler' = [handler EXCEPT ![h] = Idle]

\* transactionRepo.Update: every mutable column, WHERE id = t and nothing else.
Update(t, r) == row' = [row EXCEPT ![t] = r]

---------------------------------------------------------------------------
(* CreatePayment, once the charge is decided *)

\* The fraud score is 85 or more: the row is stored as failed for auditing.
StoreBlocked(h, t) ==
    /\ handler[h] = Idle
    /\ row[t].status = "absent"
    /\ Update(t, [status |-> "failed", completed |-> FALSE])
    /\ UNCHANGED <<refunds, refundKeys, events, captured, handler, faults>>

\* A provider accepted the charge: the row is stored, and a request with a
\* split_vendor_account goes on to the marketplace split.
StoreCharged(h, t, status, split) ==
    LET fresh == [status |-> status, completed |-> FALSE] IN
    /\ row[t].status = "absent"
    /\ Update(t, fresh)
    /\ Start(h, NewJob(IF split THEN "split" ELSE "emit", t, fresh,
                       "transaction.created"))
    /\ UNCHANGED <<refunds, refundKeys, events, captured, faults>>

\* SplitTransaction writes the row it was created with once more.
SplitTransaction(h) ==
    /\ At(h, "split")
    /\ Update(handler[h].tx, handler[h].copy)
    /\ GoTo(h, "emit")
    /\ UNCHANGED <<refunds, refundKeys, events, captured, faults>>

---------------------------------------------------------------------------
(* Capture *)

\* Mutants of ReadForCapture: a capture of any stored payment is answered and
\* announced; a refunded payment can be captured again.
ReadForCapture_AnnounceAlways(h, t) ==
    /\ row[t].status # "absent"
    /\ Start(h, NewJob(IF row[t].status \in Capturable THEN "capture" ELSE "emit",
                       t, row[t], "transaction.success"))
    /\ UNCHANGED <<row, refunds, refundKeys, events, captured, faults>>
ReadForCapture_Refunded(h, t) ==
    /\ row[t].status \in Capturable \cup {"refunded"}
    /\ Start(h, NewJob("capture", t, row[t], "transaction.success"))
    /\ UNCHANGED <<row, refunds, refundKeys, events, captured, faults>>

ReadForCapture(h, t) ==
    /\ row[t].status \in Capturable
    /\ Start(h, NewJob("capture", t, row[t], "transaction.success"))
    /\ UNCHANGED <<row, refunds, refundKeys, events, captured, faults>>

\* A merchant (or its checkout page or payment link) captures its payment.
CapturePayment(h, t, m) == Owner[t] = m /\ ReadForCapture(h, t)

\* The NPCI webhook captures any payment; the status it reports is not read.
AdminForceCapture(h, t) == ReadForCapture(h, t)

\* Mutant of WriteCapture: completed_at is forgotten.
WriteCapture_NoCompletedAt(h) ==
    LET t == handler[h].tx IN
    /\ At(h, "capture")
    /\ Update(t, [handler[h].copy EXCEPT !.status = "success"])
    /\ captured' = captured \cup {t}
    /\ GoTo(h, "emit")
    /\ UNCHANGED <<refunds, refundKeys, events, faults>>

WriteCapture(h) ==
    LET t == handler[h].tx IN
    /\ At(h, "capture")
    /\ Update(t, [status |-> "success", completed |-> TRUE])
    /\ captured' = captured \cup {t}
    /\ GoTo(h, "emit")
    /\ UNCHANGED <<refunds, refundKeys, events, faults>>

---------------------------------------------------------------------------
(* Refund *)

\* The key is looked up only when the request has one.
RefundJob(t, amount, key) ==
    [step |-> IF key = NoKey THEN "insertRefund" ELSE "checkKey", tx |-> t,
     copy |-> row[t], amount |-> amount, key |-> key, event |-> "refund.created"]

\* Mutant of RefundPayment: without the status check.
RefundPayment_AnyStatus(h, t, m, amount, key) ==
    /\ Owner[t] = m
    /\ row[t].status # "absent"
    /\ amount <= Amount[t]
    /\ Start(h, RefundJob(t, amount, key))
    /\ UNCHANGED <<row, refunds, refundKeys, events, captured, faults>>

RefundPayment(h, t, m, amount, key) ==
    /\ Owner[t] = m
    /\ row[t].status = "success"
    /\ amount <= Amount[t]
    /\ Start(h, RefundJob(t, amount, key))
    /\ UNCHANGED <<row, refunds, refundKeys, events, captured, faults>>

KeyCached(h) == <<handler[h].tx, handler[h].key>> \in refundKeys

\* A cached key answers the request with nothing done.
CheckRefundKey(h) ==
    /\ At(h, "checkKey")
    /\ IF KeyCached(h) THEN Done(h) ELSE GoTo(h, "insertRefund")
    /\ UNCHANGED <<row, refunds, refundKeys, events, captured, faults>>

InsertRefund(h) ==
    /\ At(h, "insertRefund")
    /\ refunds' = [refunds EXCEPT ![handler[h].tx] = Append(@, handler[h].amount)]
    /\ GoTo(h, "markRefunded")
    /\ UNCHANGED <<row, refundKeys, events, captured, faults>>

WriteRefunded(h) ==
    /\ At(h, "markRefunded")
    /\ Update(handler[h].tx, [handler[h].copy EXCEPT !.status = "refunded"])
    /\ GoTo(h, IF handler[h].key = NoKey THEN "emit" ELSE "setKey")
    /\ UNCHANGED <<refunds, refundKeys, events, captured, faults>>

SetRefundKey(h) ==
    /\ At(h, "setKey")
    /\ refundKeys' = refundKeys \cup {<<handler[h].tx, handler[h].key>>}
    /\ GoTo(h, "emit")
    /\ UNCHANGED <<row, refunds, events, captured, faults>>

\* The admin console: one UPDATE that spares only rows already refunded.
AdminRefund(h, t) ==
    /\ handler[h] = Idle
    /\ row[t].status \notin {"absent", "refunded"}
    /\ row' = [row EXCEPT ![t].status = "refunded"]
    /\ UNCHANGED <<refunds, refundKeys, events, captured, handler, faults>>

---------------------------------------------------------------------------
(* The end of every operation, and what can go wrong in the middle of one *)

\* Publish to Kafka and EnqueueTransactionEvent: both carry the same news.
Emit(h) ==
    /\ At(h, "emit")
    /\ events' = events \cup {[type |-> handler[h].event, tx |-> handler[h].tx]}
    /\ Done(h)
    /\ UNCHANGED <<row, refunds, refundKeys, captured, faults>>

Fault == faults < MaxFaults /\ faults' = faults + 1

\* The operation ends where it stands: a statement failed and its error was
\* returned, the client went away and cancelled the context, the goroutine
\* panicked, the process died, or (at "emit") the error was dropped.  A
\* statement that committed but whose answer was lost is the step itself
\* followed by this.
Abandon(h) ==
    /\ handler[h] # Idle
    /\ Fault
    /\ Done(h)
    /\ UNCHANGED <<row, refunds, refundKeys, events, captured>>

\* An error the code ignores: the split's, and those of the two cache calls.
CarryOn(h) ==
    /\ Fault
    /\ \/ At(h, "split") /\ GoTo(h, "emit")
       \/ At(h, "checkKey") /\ GoTo(h, "insertRefund")
       \/ At(h, "setKey") /\ GoTo(h, "emit")
    /\ UNCHANGED <<row, refunds, refundKeys, events, captured>>

\* The 24 hours are over, Redis evicts the key, or the in-memory cache that
\* stands in for Redis is lost with the process.
LoseRefundKey(t, k) ==
    /\ <<t, k>> \in refundKeys
    /\ Fault
    /\ refundKeys' = refundKeys \ {<<t, k>>}
    /\ UNCHANGED <<row, refunds, events, captured, handler>>

---------------------------------------------------------------------------

Create(h, t) ==
    \/ StoreBlocked(h, t)
    \/ \E status \in Open, split \in BOOLEAN : StoreCharged(h, t, status, split)

Request(h, t) ==
    \/ Create(h, t)
    \/ \E m \in Merchant : CapturePayment(h, t, m)
    \/ AdminForceCapture(h, t)
    \/ \E m \in Merchant, a \in RefundAmount, k \in RefundKey \cup {NoKey} :
          RefundPayment(h, t, m, a, k)
    \/ AdminRefund(h, t)

Continue(h) ==
    \/ SplitTransaction(h)
    \/ WriteCapture(h)
    \/ CheckRefundKey(h)
    \/ InsertRefund(h)
    \/ WriteRefunded(h)
    \/ SetRefundKey(h)
    \/ Emit(h)

Disturb ==
    \/ \E h \in Handler : Abandon(h) \/ CarryOn(h)
    \/ \E t \in Tx, k \in RefundKey : LoseRefundKey(t, k)

Next ==
    \/ \E h \in Handler, t \in Tx : Request(h, t)
    \/ \E h \in Handler : Continue(h)
    \/ Disturb

Spec == Init /\ [][Next]_vars

---------------------------------------------------------------------------
(* What holds whatever the interleaving and whatever fails *)

\* Money goes back only for money that came in: a refund row exists only for a
\* transaction whose capture committed, however captures, refunds, the split
\* and the admin overwrite each other's rows (payment_service.go:486-564).
RefundOnlyCaptured ==
    \A t \in Tx : refunds[t] # <<>> => t \in captured

\* A payment the fraud score blocked (payment_service.go:151-164) is never
\* captured, never paid back and never announced as a success or a refund; no
\* request holds a copy that would revive it.
BlockedStaysBlocked ==
    \A t \in Tx : row[t].status = "failed" =>
        /\ t \notin captured
        /\ refunds[t] = <<>>
        /\ \A e \in events : e.tx # t
        /\ \A h \in Handler : handler[h] = Idle \/ handler[h].tx # t

\* A row that reads "success" carries its completion time and stands for a
\* committed capture: no stale write of a copy (payment_service.go:289-295,
\* 390-398, 527-532) can produce the status without the rest.
SuccessIsComplete ==
    \A t \in Tx : row[t].status = "success" => row[t].completed /\ t \in captured

\* Merchants hear of what happened and of nothing else: an event follows the
\* committed statement it announces (payment_service.go:396-421, 521-559).
EventsFollowCommits ==
    \A e \in events :
        /\ row[e.tx].status # "absent"
        /\ e.type = "transaction.success" => e.tx \in captured
        /\ e.type = "refund.created" => refunds[e.tx] # <<>>

\* A stored completion time is evidence of a capture, and only the marketplace
\* split, writing the row as it was created, can take it away again.
OnlySplitForgetsCompletion ==
    [][\A t \in Tx : row[t].completed /\ ~row'[t].completed =>
          \E h \in Handler : At(h, "split") /\ handler[h].tx = t]_vars

---------------------------------------------------------------------------
(* What the code's own messages say and concurrent requests break *)

RefundTotal(t) ==
    LET sum[i \in 0..Len(refunds[t])] ==
            IF i = 0 THEN 0 ELSE sum[i - 1] + refunds[t][i]
    IN  sum[Len(refunds[t])]

\* "refund amount cannot exceed transaction amount" (payment_service.go:498):
\* what has been refunded of a transaction is at most its amount.
RefundsWithinAmount == \A t \in Tx : RefundTotal(t) <= Amount[t]

\* "cannot capture payment in %s status" (payment_service.go:387): a refunded
\* payment does not become a captured one.
RefundedIsNotCaptured ==
    [][\A t \in Tx : row[t].status = "refunded" => row'[t].status # "success"]_vars
---------------------------------------------------------------------------
(* The contract, and the view of the tables that implements it.  A payment  *)
(* counts as refunded from the insert of its refunds row on.                *)

ContractState(t) ==
    CASE row[t].status = "absent" -> "none"
      [] row[t].status = "failed" -> "declined"
      [] row[t].status \in Capturable -> "authorized"
      [] row[t].status = "success" /\ refunds[t] = <<>> -> "captured"
      [] OTHER -> "refunded"

Contract == INSTANCE PaymentContract
    WITH state <- [t \in Tx |-> ContractState(t)], paidBack <- refunds

\* Requests served one after the other, with nothing failing, keep the promise
\* of PaymentContract: the checks of payment_service.go:386, 446, 492 and 497
\* are enough when nothing comes between a check and its write.
ImplementsContract == Contract!Spec

\* The same promise as a state of the tables: one refund, within the amount.
ContractPaidBackOnce == Contract!PaidBackOnce
=============================================================================
