-------------------------- MODULE SettlementProofs --------------------------
(***************************************************************************)
(* Proofs about Settlement for any transactions, amounts and faults: with  *)
(* any number of workers a batch pays captures of its merchant, and with   *)
(* one worker links and batches agree and a second batch needs a fault.    *)
(***************************************************************************)
EXTENDS Settlement, PaymentLifecycleProofs, FiniteSetTheorems

\* One API process.  With two, SettledOnce and what follows for one are false.
OneWorker == \E w : Worker = {w}

\* A sum of amounts is left as it is: what it is for a set of transactions
\* takes an induction that the provers do not have.
Totals == {SumOfAmounts(txs) : txs \in SUBSET Tx}
Payout == [merchant : Merchant, txs : SUBSET Tx, total : Totals,
           status : {"pending", "settled"}]

SettlementTyped ==
    /\ settlements \in Seq(Payout)
    /\ settledIn \in [Tx -> 0..Len(settlements)]
    /\ worker \in [Worker -> WorkerState]

\* What a worker holds was captured, whatever has become of it since, and the
\* batch it is about to link is one of its own making.
WorkersHoldCaptures ==
    \A w \in Worker :
        /\ worker[w].txs \subseteq captured
        /\ worker[w].pc = "mark" =>
              /\ worker[w].batch \in DOMAIN settlements
              /\ settlements[worker[w].batch].txs \subseteq worker[w].txs

PayoutInv == SettlementTyped /\ WorkersHoldCaptures /\ BatchesPayCaptures

\* With one worker nobody settles what it holds, or links the batch it made.
SnapshotIsUnsettled ==
    \A w \in Worker : \A t \in worker[w].txs : settledIn[t] = 0
BatchIsUnlinked ==
    \A w \in Worker : worker[w].pc = "mark" =>
        \A t \in Tx : settledIn[t] # worker[w].batch

LinkInv == SnapshotIsUnsettled /\ BatchIsUnlinked /\ LinksMatchBatch

\* Each batch of t was paid for by a fault, but for the one that t is linked to
\* or about to be.
BatchesOf(t) == {b \in DOMAIN settlements : t \in settlements[b].txs}
Linking(t) ==
    \E w \in Worker :
        worker[w].pc = "mark" /\ t \in settlements[worker[w].batch].txs
BatchesCounted ==
    \A t \in Tx :
        Cardinality(BatchesOf(t)) <=
            IF settledIn[t] # 0 \/ Linking(t) THEN faults + 1 ELSE faults

---------------------------------------------------------------------------
(* What the steps do to the rows of the settlements table and the workers *)

LEMMA RowsTyped ==
    ASSUME SettlementTyped
    PROVE  /\ Len(settlements) \in Nat
           /\ DOMAIN settlements = 1..Len(settlements)
           /\ \A b \in DOMAIN settlements : settlements[b] \in Payout
           /\ \A w \in Worker : /\ worker[w].pc \in {"rest", "create", "mark"}
                                /\ worker[w].txs \subseteq Tx
                                /\ worker[w].batch \in Nat
BY DEF SettlementTyped, WorkerState

\* A step that leaves the settlements table alone and gives w another state.
LEMMA WorkerMoves ==
    ASSUME SettlementTyped, NEW w \in Worker, NEW state \in WorkerState,
           worker' = [worker EXCEPT ![w] = state]
    PROVE  /\ worker' \in [Worker -> WorkerState]
           /\ worker'[w] = state
           /\ \A v \in Worker : v # w => worker'[v] = worker[v]
BY DEF SettlementTyped

LEMMA RestTyped ==
    ASSUME NEW txs \in SUBSET Tx
    PROVE  /\ Rest(txs) \in WorkerState
           /\ Rest(txs).txs = txs
           /\ Rest(txs).pc # "mark"
           /\ Resting \in WorkerState /\ Resting.txs = {} /\ Resting.pc # "mark"
BY DEF Rest, Resting, WorkerState

\* A row is added at the end and the worker turns to it.
LEMMA CreateSettlementRows ==
    ASSUME SettlementTyped, NEW w \in Worker, NEW m \in Merchant, CreateSettlement(w, m)
    PROVE  LET n == Len(settlements) + 1
               txs == OfMerchant(worker[w].txs, m)
           IN  /\ settlements' \in Seq(Payout)
               /\ Len(settlements') = n /\ n \in Nat
               /\ DOMAIN settlements' = DOMAIN settlements \cup {n}
               /\ n \notin DOMAIN settlements
               /\ \A b \in DOMAIN settlements : settlements'[b] = settlements[b]
               /\ settlements'[n].merchant = m
               /\ settlements'[n].txs = txs
               /\ settlements'[n].total = SumOfAmounts(txs)
               /\ worker' \in [Worker -> WorkerState]
               /\ worker'[w].pc = "mark" /\ worker'[w].batch = n
               /\ worker'[w].txs = worker[w].txs
               /\ \A v \in Worker : v # w => worker'[v] = worker[v]
<1> DEFINE n == Len(settlements) + 1
           txs == OfMerchant(worker[w].txs, m)
           new == [merchant |-> m, txs |-> txs, total |-> SumOfAmounts(txs),
                   status |-> "pending"]
<1>1. txs \in SUBSET Tx
  BY RowsTyped DEF OfMerchant
<1>2. SumOfAmounts(txs) \in Totals
  BY <1>1 DEF Totals
<1>3. new \in Payout
  BY <1>1, <1>2 DEF Payout
<1>4. settlements' = Append(settlements, new) /\ settlements \in Seq(Payout)
  BY DEF CreateSettlement, SettlementTyped
<1>5. /\ settlements' \in Seq(Payout)
      /\ Len(settlements') = n /\ n \in Nat
      /\ \A b \in 1..Len(settlements) : settlements'[b] = settlements[b]
      /\ settlements'[n] = new
  BY <1>3, <1>4
<1>6. /\ DOMAIN settlements' = DOMAIN settlements \cup {n}
      /\ n \notin DOMAIN settlements
  BY <1>5, RowsTyped
<1>7. /\ worker' \in [Worker -> WorkerState]
      /\ worker'[w].pc = "mark" /\ worker'[w].batch = n
      /\ worker'[w].txs = worker[w].txs
      /\ \A v \in Worker : v # w => worker'[v] = worker[v]
  BY <1>5 DEF CreateSettlement, SettlementTyped, WorkerState
<1> HIDE DEF txs, n
<1>8. new.merchant = m /\ new.txs = txs /\ new.total = SumOfAmounts(txs)
  OBVIOUS
<1> HIDE DEF new
<1> QED
  BY <1>5, <1>6, <1>7, <1>8, RowsTyped DEF n, txs

\* An approval changes nothing but the status of a row.
LEMMA ApproveSettlementRows ==
    ASSUME SettlementTyped, NEW b \in DOMAIN settlements, ApproveSettlement(b)
    PROVE  /\ settlements' \in Seq(Payout)
           /\ Len(settlements') = Len(settlements)
           /\ DOMAIN settlements' = DOMAIN settlements
           /\ \A c \in DOMAIN settlements :
                 /\ settlements'[c].merchant = settlements[c].merchant
                 /\ settlements'[c].txs = settlements[c].txs
                 /\ settlements'[c].total = settlements[c].total
<1> DEFINE paid == [settlements[b] EXCEPT !.status = "settled"]
<1>1. settlements[b] \in Payout
  BY RowsTyped
<1>2. /\ paid \in Payout /\ paid.merchant = settlements[b].merchant
      /\ paid.txs = settlements[b].txs /\ paid.total = settlements[b].total
  BY <1>1 DEF Payout
<1>3. settlements' = [settlements EXCEPT ![b] = paid] /\ settlements \in Seq(Payout)
  BY DEF ApproveSettlement, SettlementTyped
<1> HIDE DEF paid
<1>4. /\ settlements' \in Seq(Payout) /\ Len(settlements') = Len(settlements)
      /\ DOMAIN settlements' = DOMAIN settlements
  BY <1>2, <1>3
<1>5. \A c \in DOMAIN settlements :
          settlements'[c] = IF c = b THEN paid ELSE settlements[c]
  BY <1>3
<1> QED
  BY <1>2, <1>4, <1>5

---------------------------------------------------------------------------
(* Batches pay captures, with any number of workers *)

LEMMA PayoutInit == SettlementInit => PayoutInv
<1> SUFFICES ASSUME SettlementInit
             PROVE  PayoutInv
  OBVIOUS
<1>1. settlements = <<>> /\ settledIn = [t \in Tx |-> 0]
      /\ worker = [w \in Worker |-> Resting]
  BY DEF SettlementInit
<1>2. Resting \in WorkerState /\ Resting.txs = {} /\ Resting.pc # "mark"
  BY RestTyped
<1>3. /\ settlements \in Seq(Payout) /\ Len(settlements) = 0
      /\ DOMAIN settlements = {}
  BY <1>1
<1>4. SettlementTyped
  BY <1>1, <1>2, <1>3 DEF SettlementTyped
<1> QED
  BY <1>1, <1>2, <1>3, <1>4 DEF PayoutInv, WorkersHoldCaptures, BatchesPayCaptures

\* A capture is never taken back.
LEMMA CapturesStay == [Next]_vars => captured \subseteq captured'
BY DEF Next, vars, Request, Create, StoreBlocked, StoreCharged, CapturePayment,
       AdminForceCapture, ReadForCapture, RefundPayment, AdminRefund, Continue,
       SplitTransaction, WriteCapture, CheckRefundKey, InsertRefund, WriteRefunded,
       SetRefundKey, Emit, Disturb, Abandon, CarryOn, LoseRefundKey

\* Steps that leave the settlements table and the workers alone.
LEMMA PayoutKept ==
    ASSUME PayoutInv, UNCHANGED settlementVars, captured \subseteq captured'
    PROVE  PayoutInv'
BY DEF PayoutInv, settlementVars, SettlementTyped, WorkersHoldCaptures,
       BatchesPayCaptures

\* Steps that give one worker fewer transactions, or other captures, to hold and
\* may link some to a batch that exists.
LEMMA PayoutWorker ==
    ASSUME PayoutInv, NEW w \in Worker, NEW state \in WorkerState,
           worker' = [worker EXCEPT ![w] = state],
           state.txs \subseteq captured, state.pc # "mark",
           settledIn' \in [Tx -> 0..Len(settlements)],
           UNCHANGED <<settlements, captured>>
    PROVE  PayoutInv'
<1>1. /\ worker' \in [Worker -> WorkerState]
      /\ worker'[w] = state
      /\ \A v \in Worker : v # w => worker'[v] = worker[v]
  BY WorkerMoves DEF PayoutInv
<1>2. SettlementTyped'
  BY <1>1 DEF PayoutInv, SettlementTyped
<1>3. WorkersHoldCaptures'
  BY <1>1 DEF PayoutInv, WorkersHoldCaptures
<1>4. BatchesPayCaptures'
  BY DEF PayoutInv, BatchesPayCaptures
<1> QED
  BY <1>2, <1>3, <1>4 DEF PayoutInv

LEMMA PayoutGetUnsettled ==
    ASSUME PayoutInv, SuccessIsComplete, NEW w \in Worker, GetUnsettled(w)
    PROVE  PayoutInv'
<1> DEFINE state == [pc |-> "create", txs |-> Unsettled, batch |-> 0]
<1>1. Unsettled \subseteq Tx /\ Unsettled \subseteq captured
  BY DEF Unsettled, SuccessIsComplete
<1>2. state \in WorkerState /\ state.txs \subseteq captured /\ state.pc # "mark"
  BY <1>1 DEF WorkerState
<1>3. worker' = [worker EXCEPT ![w] = state] /\ UNCHANGED <<settledIn, settlements, captured>>
  BY DEF GetUnsettled, vars
<1>4. settledIn' \in [Tx -> 0..Len(settlements)]
  BY <1>3 DEF PayoutInv, SettlementTyped
<1> HIDE DEF state
<1> QED
  BY <1>2, <1>3, <1>4, PayoutWorker

\* The end of a merchant's turn, with or without the links written.
LEMMA PayoutRest ==
    ASSUME PayoutInv, NEW w \in Worker, NEW txs,
           worker' = [worker EXCEPT ![w] = Rest(@.txs \ txs)],
           settledIn' \in [Tx -> 0..Len(settlements)],
           UNCHANGED <<settlements, captured>>
    PROVE  PayoutInv'
<1> DEFINE left == worker[w].txs \ txs
<1>1. left \in SUBSET Tx /\ left \subseteq captured
  BY RowsTyped DEF PayoutInv, WorkersHoldCaptures
<1>2. Rest(left) \in WorkerState /\ Rest(left).txs = left /\ Rest(left).pc # "mark"
  BY <1>1, RestTyped
<1>3. worker' = [worker EXCEPT ![w] = Rest(left)]
  OBVIOUS
<1> HIDE DEF left
<1> QED
  BY <1>1, <1>2, <1>3, PayoutWorker

LEMMA LinksTyped ==
    ASSUME PayoutInv, NEW w \in Worker, MarkAsSettled(w)
    PROVE  settledIn' \in [Tx -> 0..Len(settlements)]
<1>1. worker[w].batch \in 1..Len(settlements)
  BY RowsTyped DEF MarkAsSettled, PayoutInv, WorkersHoldCaptures
<1>2. worker[w].batch \in 0..Len(settlements)
  BY <1>1
<1> QED
  BY <1>2 DEF MarkAsSettled, PayoutInv, SettlementTyped

LEMMA PayoutCreate ==
    ASSUME PayoutInv, NEW w \in Worker, NEW m \in Merchant, CreateSettlement(w, m)
    PROVE  PayoutInv'
<1> DEFINE n == Len(settlements) + 1
           txs == OfMerchant(worker[w].txs, m)
<1>1. /\ settlements' \in Seq(Payout)
      /\ Len(settlements') = n /\ n \in Nat
      /\ DOMAIN settlements' = DOMAIN settlements \cup {n}
      /\ n \notin DOMAIN settlements
      /\ \A b \in DOMAIN settlements : settlements'[b] = settlements[b]
      /\ settlements'[n].merchant = m
      /\ settlements'[n].txs = txs
      /\ settlements'[n].total = SumOfAmounts(txs)
      /\ worker' \in [Worker -> WorkerState]
      /\ worker'[w].pc = "mark" /\ worker'[w].batch = n
      /\ worker'[w].txs = worker[w].txs
      /\ \A v \in Worker : v # w => worker'[v] = worker[v]
  BY CreateSettlementRows DEF PayoutInv
<1>2. UNCHANGED <<settledIn, captured>> /\ txs # {}
  BY DEF CreateSettlement, vars
<1>3. txs \subseteq captured /\ (\A t \in txs : Owner[t] = m) /\ txs \subseteq worker[w].txs
  BY DEF OfMerchant, PayoutInv, WorkersHoldCaptures
<1>4. SettlementTyped'
  <2>1. Len(settlements) \in Nat /\ settledIn \in [Tx -> 0..Len(settlements)]
    BY RowsTyped DEF PayoutInv, SettlementTyped
  <2>2. \A t \in Tx : settledIn[t] \in 0..n
    BY <2>1
  <2>3. settledIn' \in [Tx -> 0..Len(settlements')]
    BY <1>1, <1>2, <2>1, <2>2
  <2> QED
    BY <1>1, <2>3 DEF SettlementTyped
<1> HIDE DEF n, txs
<1>5. WorkersHoldCaptures'
  BY <1>1, <1>2, <1>3 DEF PayoutInv, WorkersHoldCaptures
<1>6. BatchesPayCaptures'
  BY <1>1, <1>2, <1>3 DEF PayoutInv, BatchesPayCaptures
<1> QED
  BY <1>4, <1>5, <1>6 DEF PayoutInv

LEMMA PayoutApprove ==
    ASSUME PayoutInv, NEW b \in DOMAIN settlements, ApproveSettlement(b)
    PROVE  PayoutInv'
<1>1. /\ settlements' \in Seq(Payout)
      /\ Len(settlements') = Len(settlements)
      /\ DOMAIN settlements' = DOMAIN settlements
      /\ \A c \in DOMAIN settlements :
            /\ settlements'[c].merchant = settlements[c].merchant
            /\ settlements'[c].txs = settlements[c].txs
            /\ settlements'[c].total = settlements[c].total
  BY ApproveSettlementRows DEF PayoutInv
<1>2. UNCHANGED <<captured, settledIn, worker>>
  BY DEF ApproveSettlement, vars
<1>3. SettlementTyped'
  BY <1>1, <1>2 DEF PayoutInv, SettlementTyped
<1>4. WorkersHoldCaptures' /\ BatchesPayCaptures'
  BY <1>1, <1>2 DEF PayoutInv, WorkersHoldCaptures, BatchesPayCaptures
<1> QED
  BY <1>3, <1>4 DEF PayoutInv

LEMMA PayoutStep ==
    TypeOK /\ LedgerInv /\ PayoutInv /\ [SettlementNext]_allVars => PayoutInv'
<1> SUFFICES ASSUME TypeOK, LedgerInv, PayoutInv, [SettlementNext]_allVars
             PROVE  PayoutInv'
  OBVIOUS
<1>1. SuccessIsComplete /\ settledIn \in [Tx -> 0..Len(settlements)]
  BY DEF LedgerInv, PayoutInv, SettlementTyped
<1>2. CASE [Next]_vars /\ UNCHANGED settlementVars
  BY <1>2, CapturesStay, PayoutKept
<1>3. ASSUME NEW w \in Worker, WorkerStep(w)
      PROVE  PayoutInv'
  <2>1. CASE MarkAsSettled(w)
    <3>1. UNCHANGED <<settlements, captured>>
      BY <2>1 DEF MarkAsSettled, vars
    <3> QED
      BY <2>1, <3>1, LinksTyped, PayoutRest DEF MarkAsSettled
  <2> QED
    BY <1>1, <1>3, <2>1, PayoutGetUnsettled, PayoutCreate DEF WorkerStep
<1>4. ASSUME NEW w \in Worker, WorkerTrouble(w)
      PROVE  PayoutInv'
  <2>1. UNCHANGED <<settlements, captured, settledIn>>
    BY <1>4 DEF WorkerTrouble, CreateFails, MarkFails, WorkerRestart, WorkerFault
  <2>2. ASSUME NEW m \in Merchant, CreateFails(w, m)
        PROVE  PayoutInv'
    BY <1>1, <2>1, <2>2, PayoutRest DEF CreateFails
  <2>3. CASE MarkFails(w)
    <3>1. worker' = [worker EXCEPT ![w] =
                        Rest(@.txs \ settlements[worker[w].batch].txs)]
      BY <2>3 DEF MarkFails
    <3> QED
      BY <1>1, <2>1, <3>1, PayoutRest
  <2>4. CASE WorkerRestart(w)
    BY <1>1, <2>1, <2>4, RestTyped, PayoutWorker DEF WorkerRestart
  <2> QED
    BY <1>4, <2>2, <2>3, <2>4 DEF WorkerTrouble
<1>5. ASSUME NEW b \in DOMAIN settlements, ApproveSettlement(b)
      PROVE  PayoutInv'
  BY <1>5, PayoutApprove
<1>6. CASE UNCHANGED allVars
  BY <1>2, <1>6 DEF allVars
<1> QED
  BY <1>2, <1>3, <1>4, <1>5, <1>6 DEF SettlementNext

\* A settlement step is a step of the payments, or leaves them alone.
LEMMA LedgerWithSettlement ==
    TypeOK /\ LedgerInv /\ [SettlementNext]_allVars => TypeOK' /\ LedgerInv'
<1> SUFFICES ASSUME TypeOK, LedgerInv, [SettlementNext]_allVars
             PROVE  TypeOK' /\ LedgerInv'
  OBVIOUS
<1>1. CASE [Next]_vars
  BY <1>1, TypeStep, LedgerStep
<1>2. ASSUME NEW w \in Worker, WorkerTrouble(w)
      PROVE  TypeOK' /\ LedgerInv'
  <2>1. Fault /\ UNCHANGED <<row, refunds, refundKeys, events, captured, handler>>
    BY <1>2 DEF WorkerTrouble, CreateFails, MarkFails, WorkerRestart, WorkerFault
  <2>2. TypeOK'
    BY <2>1, FaultType DEF TypeOK
  <2> QED
    BY <2>1, <2>2, LedgerUnchanged
<1>3. ASSUME NEW w \in Worker, WorkerStep(w)
      PROVE  UNCHANGED vars
  BY <1>3 DEF WorkerStep, GetUnsettled, CreateSettlement, MarkAsSettled
<1>4. ASSUME NEW b \in DOMAIN settlements, ApproveSettlement(b)
      PROVE  UNCHANGED vars
  BY <1>4 DEF ApproveSettlement
<1>5. CASE UNCHANGED allVars
  BY <1>1, <1>5 DEF allVars
<1> QED
  BY <1>1, <1>2, <1>3, <1>4, <1>5 DEF SettlementNext

\* The inductive invariant of settlement, for any number of API processes
\* (settlement_worker.go:44-115).
THEOREM PayoutInvariant == SettlementSpec => [](TypeOK /\ LedgerInv /\ PayoutInv)
<1>1. SettlementInit => TypeOK /\ LedgerInv /\ PayoutInv
  BY TypeInit, LedgerInit, PayoutInit DEF SettlementInit
<1> QED
  BY <1>1, PayoutStep, LedgerWithSettlement, PTL DEF SettlementSpec

\* However many workers run, a settlements row pays one merchant, for its own
\* captured transactions and for their sum (settlement_worker.go:61-100).
THEOREM PayoutsAreOfCaptures == SettlementSpec => []BatchesPayCaptures
<1>1. PayoutInv => BatchesPayCaptures
  BY DEF PayoutInv
<1> QED
  BY <1>1, PayoutInvariant, PTL

---------------------------------------------------------------------------
(* One worker: links and batches agree *)

LEMMA LinksInit == SettlementInit => LinkInv /\ BatchesCounted
<1> SUFFICES ASSUME SettlementInit
             PROVE  LinkInv /\ BatchesCounted
  OBVIOUS
<1>1. /\ settlements = <<>> /\ DOMAIN settlements = {}
      /\ faults = 0
      /\ worker = [w \in Worker |-> Resting]
      /\ Resting.txs = {} /\ Resting.pc # "mark"
  BY DEF SettlementInit, Init, Resting
<1>2. LinkInv
  BY <1>1 DEF LinkInv, SnapshotIsUnsettled, BatchIsUnlinked, LinksMatchBatch
<1>3. \A t \in Tx : Cardinality(BatchesOf(t)) = 0
  BY <1>1, FS_EmptySet DEF BatchesOf
<1> QED
  BY <1>1, <1>2, <1>3 DEF BatchesCounted

LEMMA TheWorker ==
    ASSUME OneWorker, NEW w \in Worker, NEW v \in Worker
    PROVE  v = w
BY DEF OneWorker

LEMMA LinksKept ==
    ASSUME LinkInv, UNCHANGED settlementVars
    PROVE  LinkInv'
BY DEF LinkInv, settlementVars, SnapshotIsUnsettled, BatchIsUnlinked, LinksMatchBatch

\* The worker turns to a state in which nothing it holds is linked.
LEMMA LinksWorker ==
    ASSUME OneWorker, PayoutInv, LinkInv, NEW w \in Worker, NEW state \in WorkerState,
           worker' = [worker EXCEPT ![w] = state],
           \A t \in state.txs : settledIn[t] = 0, state.pc # "mark",
           UNCHANGED <<settlements, settledIn>>
    PROVE  LinkInv'
<1>1. \A v \in Worker : worker'[v] = state
  BY WorkerMoves, TheWorker DEF PayoutInv
<1>2. SnapshotIsUnsettled' /\ BatchIsUnlinked'
  BY <1>1 DEF SnapshotIsUnsettled, BatchIsUnlinked
<1>3. LinksMatchBatch'
  BY DEF LinkInv, LinksMatchBatch
<1> QED
  BY <1>2, <1>3 DEF LinkInv

LEMMA LinksRest ==
    ASSUME OneWorker, PayoutInv, LinkInv, NEW w \in Worker, NEW txs,
           worker' = [worker EXCEPT ![w] = Rest(@.txs \ txs)],
           UNCHANGED <<settlements, settledIn>>
    PROVE  LinkInv'
<1> DEFINE left == worker[w].txs \ txs
<1>1. left \in SUBSET Tx /\ \A t \in left : settledIn[t] = 0
  BY RowsTyped DEF PayoutInv, LinkInv, SnapshotIsUnsettled
<1>2. Rest(left) \in WorkerState /\ Rest(left).txs = left /\ Rest(left).pc # "mark"
  BY <1>1, RestTyped
<1>3. worker' = [worker EXCEPT ![w] = Rest(left)]
  OBVIOUS
<1> HIDE DEF left
<1> QED
  BY <1>1, <1>2, <1>3, LinksWorker

\* A new batch has no links: every link is to an older one.
LEMMA LinksCreate ==
    ASSUME OneWorker, PayoutInv, LinkInv, NEW w \in Worker, NEW m \in Merchant,
           CreateSettlement(w, m)
    PROVE  LinkInv'
<1> DEFINE n == Len(settlements) + 1
<1>1. /\ DOMAIN settlements' = DOMAIN settlements \cup {n}
      /\ \A b \in DOMAIN settlements : settlements'[b] = settlements[b]
      /\ worker'[w].batch = n
      /\ worker'[w].txs = worker[w].txs
  BY CreateSettlementRows DEF PayoutInv
<1>2. settledIn' = settledIn
  BY DEF CreateSettlement
<1>3. \A t \in Tx : settledIn[t] \in 0..Len(settlements) /\ Len(settlements) \in Nat
  BY RowsTyped DEF PayoutInv, SettlementTyped
<1>4. \A t \in Tx : settledIn[t] # n
  BY <1>3
<1> HIDE DEF n
<1>5. SnapshotIsUnsettled'
  BY <1>1, <1>2, TheWorker DEF LinkInv, SnapshotIsUnsettled
<1>6. BatchIsUnlinked'
  BY <1>1, <1>2, <1>4, TheWorker DEF BatchIsUnlinked
<1>7. LinksMatchBatch'
  BY <1>1, <1>2, <1>4 DEF LinkInv, LinksMatchBatch
<1> QED
  BY <1>5, <1>6, <1>7 DEF LinkInv

\* The links of a batch are written at once, over transactions that had none.
LEMMA MarkAsSettledRows ==
    ASSUME OneWorker, PayoutInv, LinkInv, NEW w \in Worker, MarkAsSettled(w)
    PROVE  LET b == worker[w].batch
               txs == settlements[b].txs
           IN  /\ b \in DOMAIN settlements /\ b # 0
               /\ txs \subseteq worker[w].txs /\ worker[w].txs \subseteq Tx
               /\ \A t \in worker[w].txs : settledIn[t] = 0
               /\ \A t \in Tx : settledIn[t] # b
               /\ \A t \in txs : settledIn'[t] = b
               /\ \A t \in Tx \ txs : settledIn'[t] = settledIn[t]
               /\ worker' \in [Worker -> WorkerState]
               /\ worker'[w].txs = worker[w].txs \ txs
               /\ worker'[w].pc # "mark"
<1> DEFINE b == worker[w].batch
           txs == settlements[b].txs
           left == worker[w].txs \ txs
<1>1. b \in DOMAIN settlements /\ txs \subseteq worker[w].txs
  BY DEF MarkAsSettled, PayoutInv, WorkersHoldCaptures
<1>2. b # 0 /\ worker[w].txs \subseteq Tx
  BY <1>1, RowsTyped DEF PayoutInv
<1>3. /\ \A t \in worker[w].txs : settledIn[t] = 0
      /\ \A t \in Tx : settledIn[t] # b
  BY DEF MarkAsSettled, LinkInv, SnapshotIsUnsettled, BatchIsUnlinked
<1>4. settledIn' = [t \in Tx |-> IF t \in txs THEN b ELSE settledIn[t]]
      /\ worker' = [worker EXCEPT ![w] = Rest(left)]
  BY DEF MarkAsSettled
<1>5. Rest(left) \in WorkerState /\ Rest(left).txs = left /\ Rest(left).pc # "mark"
  BY <1>2, RestTyped
<1>6. worker' \in [Worker -> WorkerState] /\ worker'[w] = Rest(left)
  BY <1>4, <1>5, WorkerMoves DEF PayoutInv
<1>7. /\ \A t \in txs : settledIn'[t] = b
      /\ \A t \in Tx \ txs : settledIn'[t] = settledIn[t]
  <2> HIDE DEF b, txs
  <2> QED
    BY <1>1, <1>2, <1>4
<1> QED
  BY <1>1, <1>2, <1>3, <1>5, <1>6, <1>7

LEMMA LinksMark ==
    ASSUME OneWorker, PayoutInv, LinkInv, NEW w \in Worker, MarkAsSettled(w)
    PROVE  LinkInv'
<1> DEFINE b == worker[w].batch
           txs == settlements[b].txs
<1>1. /\ b \in DOMAIN settlements
      /\ txs \subseteq worker[w].txs /\ worker[w].txs \subseteq Tx
      /\ \A t \in worker[w].txs : settledIn[t] = 0
      /\ \A t \in Tx : settledIn[t] # b
      /\ \A t \in txs : settledIn'[t] = b
      /\ \A t \in Tx \ txs : settledIn'[t] = settledIn[t]
      /\ worker'[w].txs = worker[w].txs \ txs
      /\ worker'[w].pc # "mark"
      /\ b # 0
  BY MarkAsSettledRows
<1>2. settlements' = settlements
  BY DEF MarkAsSettled
<1>3. SnapshotIsUnsettled'
  BY <1>1, TheWorker DEF SnapshotIsUnsettled
<1>4. BatchIsUnlinked'
  BY <1>1, TheWorker DEF BatchIsUnlinked
<1>5. ASSUME NEW c \in DOMAIN settlements
      PROVE  LET linked == {t \in Tx : settledIn'[t] = c} IN
             linked = {} \/ linked = settlements[c].txs
  <2>1. CASE c = b
    <3>1. {t \in Tx : settledIn'[t] = b} = txs
      BY <1>1
    <3> QED
      BY <2>1, <3>1
  <2>2. CASE c # b
    <3>1. c # 0
      BY RowsTyped DEF PayoutInv
    <3>2. {t \in Tx : settledIn'[t] = c} = {t \in Tx : settledIn[t] = c}
      BY <1>1, <2>2, <3>1
    <3> QED
      BY <3>2 DEF LinkInv, LinksMatchBatch
  <2> QED
    BY <2>1, <2>2
<1>6. LinksMatchBatch'
  BY <1>2, <1>5 DEF LinksMatchBatch
<1> QED
  BY <1>3, <1>4, <1>6 DEF LinkInv

LEMMA LinksApprove ==
    ASSUME PayoutInv, LinkInv, NEW b \in DOMAIN settlements, ApproveSettlement(b)
    PROVE  LinkInv'
<1>1. /\ DOMAIN settlements' = DOMAIN settlements
      /\ \A c \in DOMAIN settlements : settlements'[c].txs = settlements[c].txs
  BY ApproveSettlementRows DEF PayoutInv
<1>2. UNCHANGED <<settledIn, worker>>
  BY DEF ApproveSettlement
<1> QED
  BY <1>1, <1>2 DEF LinkInv, SnapshotIsUnsettled, BatchIsUnlinked, LinksMatchBatch

LEMMA LinksStep ==
    OneWorker /\ PayoutInv /\ LinkInv /\ [SettlementNext]_allVars => LinkInv'
<1> SUFFICES ASSUME OneWorker, PayoutInv, LinkInv, [SettlementNext]_allVars
             PROVE  LinkInv'
  OBVIOUS
<1>1. CASE UNCHANGED settlementVars
  BY <1>1, LinksKept
<1>2. ASSUME NEW w \in Worker, WorkerStep(w)
      PROVE  LinkInv'
  <2>1. CASE GetUnsettled(w)
    <3> DEFINE state == [pc |-> "create", txs |-> Unsettled, batch |-> 0]
    <3>1. state \in WorkerState /\ state.pc # "mark"
          /\ \A t \in state.txs : settledIn[t] = 0
      BY DEF WorkerState, Unsettled
    <3>2. worker' = [worker EXCEPT ![w] = state] /\ UNCHANGED <<settledIn, settlements>>
      BY <2>1 DEF GetUnsettled
    <3> HIDE DEF state
    <3> QED
      BY <3>1, <3>2, LinksWorker
  <2> QED
    BY <1>2, <2>1, LinksCreate, LinksMark DEF WorkerStep
<1>3. ASSUME NEW w \in Worker, WorkerTrouble(w)
      PROVE  LinkInv'
  <2>1. UNCHANGED <<settlements, settledIn>>
    BY <1>3 DEF WorkerTrouble, CreateFails, MarkFails, WorkerRestart, WorkerFault
  <2>2. ASSUME NEW m \in Merchant, CreateFails(w, m)
        PROVE  LinkInv'
    BY <2>1, <2>2, LinksRest DEF CreateFails
  <2>3. CASE MarkFails(w)
    <3>1. worker' = [worker EXCEPT ![w] =
                        Rest(@.txs \ settlements[worker[w].batch].txs)]
      BY <2>3 DEF MarkFails
    <3> QED
      BY <2>1, <3>1, LinksRest
  <2>4. CASE WorkerRestart(w)
    BY <2>1, <2>4, RestTyped, LinksWorker DEF WorkerRestart
  <2> QED
    BY <1>3, <2>2, <2>3, <2>4 DEF WorkerTrouble
<1>4. ASSUME NEW b \in DOMAIN settlements, ApproveSettlement(b)
      PROVE  LinkInv'
  BY <1>4, LinksApprove
<1>5. CASE UNCHANGED allVars
  BY <1>1, <1>5 DEF allVars
<1> QED
  BY <1>1, <1>2, <1>3, <1>4, <1>5 DEF SettlementNext

\* With one API process the transactions linked to a settlements row are those
\* it was summed over, all or none (settlement_worker.go:100-110,
\* transaction_repository.go:353-361).
THEOREM LinksAreBatches == OneWorker => (SettlementSpec => []LinksMatchBatch)
<1> SUFFICES ASSUME OneWorker
             PROVE  SettlementSpec => []LinksMatchBatch
  OBVIOUS
<1>1. SettlementInit => LinkInv
  BY LinksInit
<1>2. PayoutInv /\ LinkInv /\ [SettlementNext]_allVars => LinkInv'
  BY LinksStep
<1>3. LinkInv => LinksMatchBatch
  BY DEF LinkInv
<1> QED
  BY <1>1, <1>2, <1>3, PayoutInvariant, PTL DEF SettlementSpec

\* A link that is there stays as it is.
LinksStay == \A t \in Tx : settledIn[t] # 0 => settledIn'[t] = settledIn[t]

\* With one API process a link, once written, is never moved to another batch,
\* although MarkAsSettled updates by id alone (transaction_repository.go:358).
THEOREM LinksAreWrittenOnce == OneWorker => (SettlementSpec => LinkWrittenOnce)
<1> SUFFICES ASSUME OneWorker
             PROVE  SettlementSpec => LinkWrittenOnce
  OBVIOUS
<1>1. SettlementInit => LinkInv
  BY LinksInit
<1>2. PayoutInv /\ LinkInv /\ [SettlementNext]_allVars => LinkInv'
  BY LinksStep
<1>3. PayoutInv /\ LinkInv /\ [SettlementNext]_allVars => [LinksStay]_allVars
  <2> SUFFICES ASSUME PayoutInv, LinkInv, SettlementNext
               PROVE  LinksStay
    OBVIOUS
  <2>1. ASSUME NEW w \in Worker, MarkAsSettled(w)
        PROVE  LinksStay
    <3>1. /\ settlements[worker[w].batch].txs \subseteq worker[w].txs
          /\ \A t \in worker[w].txs : settledIn[t] = 0
          /\ \A t \in Tx \ settlements[worker[w].batch].txs : settledIn'[t] = settledIn[t]
      BY <2>1, MarkAsSettledRows
    <3> QED
      BY <3>1 DEF LinksStay
  <2>2. CASE settledIn' = settledIn
    BY <2>2 DEF LinksStay
  <2> QED
    BY <2>1, <2>2
    DEF SettlementNext, settlementVars, WorkerStep, GetUnsettled, CreateSettlement,
        WorkerTrouble, CreateFails, MarkFails, WorkerRestart, WorkerFault,
        ApproveSettlement
<1>4. LinkWrittenOnce <=> [][LinksStay]_allVars
  BY DEF LinkWrittenOnce, LinksStay
<1> QED
  BY <1>1, <1>2, <1>3, <1>4, PayoutInvariant, PTL DEF SettlementSpec

---------------------------------------------------------------------------
(* One worker: a second batch needs a fault *)

LEMMA BatchesAreFinite ==
    ASSUME PayoutInv, NEW t \in Tx
    PROVE  IsFiniteSet(BatchesOf(t)) /\ Cardinality(BatchesOf(t)) \in Nat
<1>1. IsFiniteSet(1..Len(settlements)) /\ BatchesOf(t) \subseteq 1..Len(settlements)
  BY RowsTyped, FS_Interval DEF PayoutInv, BatchesOf
<1> QED
  BY <1>1, FS_Subset, FS_CardinalityType

LEMMA FaultsGrow ==
    TypeOK /\ [SettlementNext]_allVars => faults' = faults \/ faults' = faults + 1
BY DEF SettlementNext, allVars, vars, Next, Request, Create, StoreBlocked, StoreCharged,
       CapturePayment, AdminForceCapture, ReadForCapture, RefundPayment, AdminRefund,
       Continue, SplitTransaction, WriteCapture, CheckRefundKey, InsertRefund,
       WriteRefunded, SetRefundKey, Emit, Disturb, Abandon, CarryOn, LoseRefundKey, Fault,
       WorkerStep, GetUnsettled, CreateSettlement, MarkAsSettled, WorkerTrouble,
       CreateFails, MarkFails, WorkerRestart, WorkerFault, ApproveSettlement

\* A step that adds no batch: a link it loses sight of is paid for by a fault.
LEMMA CountedMove ==
    ASSUME TypeOK, TypeOK', PayoutInv, BatchesCounted,
           faults' = faults \/ faults' = faults + 1,
           \A t \in Tx : BatchesOf(t)' = BatchesOf(t),
           \A t \in Tx : settledIn[t] # 0 \/ Linking(t) =>
                             settledIn'[t] # 0 \/ Linking(t)' \/ faults' = faults + 1
    PROVE  BatchesCounted'
<1>1. faults \in Nat /\ faults' \in Nat
  BY MaxFaultsAssumption DEF TypeOK
<1>2. ASSUME NEW t \in Tx
      PROVE  Cardinality(BatchesOf(t)') <=
                 IF settledIn'[t] # 0 \/ Linking(t)' THEN faults' + 1 ELSE faults'
  <2>1. Cardinality(BatchesOf(t)) \in Nat
    BY BatchesAreFinite
  <2>2. Cardinality(BatchesOf(t)) <=
            IF settledIn[t] # 0 \/ Linking(t) THEN faults + 1 ELSE faults
    BY DEF BatchesCounted
  <2> QED
    BY <1>1, <2>1, <2>2
<1> QED
  BY <1>2 DEF BatchesCounted

LEMMA OneMore ==
    ASSUME NEW S, IsFiniteSet(S), NEW x
    PROVE  Cardinality(S \cup {x}) \in Nat /\ Cardinality(S \cup {x}) <= Cardinality(S) + 1
<1>1. Cardinality(S) \in Nat
  BY FS_CardinalityType
<1>2. Cardinality(S \cup {x}) = IF x \in S THEN Cardinality(S) ELSE Cardinality(S) + 1
  BY FS_AddElement
<1> QED
  BY <1>1, <1>2

LEMMA CountedCreate ==
    ASSUME OneWorker, TypeOK, PayoutInv, LinkInv, BatchesCounted,
           NEW w \in Worker, NEW m \in Merchant, CreateSettlement(w, m)
    PROVE  BatchesCounted'
<1> DEFINE n == Len(settlements) + 1
           txs == OfMerchant(worker[w].txs, m)
<1>1. /\ DOMAIN settlements' = DOMAIN settlements \cup {n}
      /\ n \notin DOMAIN settlements
      /\ \A b \in DOMAIN settlements : settlements'[b] = settlements[b]
      /\ settlements'[n].txs = txs
      /\ worker'[w].pc = "mark" /\ worker'[w].batch = n
  BY CreateSettlementRows DEF PayoutInv
<1>2. UNCHANGED <<settledIn, faults>> /\ worker[w].pc = "create"
  BY DEF CreateSettlement, vars
<1>3. faults \in Nat
  BY MaxFaultsAssumption DEF TypeOK
<1>4. \A t \in txs : settledIn[t] = 0
  BY DEF LinkInv, SnapshotIsUnsettled, OfMerchant
<1>5. \A t \in Tx : ~Linking(t)
  BY <1>2, TheWorker DEF Linking
<1> HIDE DEF n, txs
<1>6. ASSUME NEW t \in Tx
      PROVE  Cardinality(BatchesOf(t)') <=
                 IF settledIn'[t] # 0 \/ Linking(t)' THEN faults' + 1 ELSE faults'
  <2>1. Cardinality(BatchesOf(t)) \in Nat /\ IsFiniteSet(BatchesOf(t))
    BY BatchesAreFinite
  <2>2. Cardinality(BatchesOf(t)) <= IF settledIn[t] # 0 THEN faults + 1 ELSE faults
    BY <1>5 DEF BatchesCounted
  <2>3. CASE t \in txs
    <3>1. BatchesOf(t)' = BatchesOf(t) \cup {n}
      BY <1>1, <2>3 DEF BatchesOf
    <3>2. /\ Cardinality(BatchesOf(t) \cup {n}) \in Nat
          /\ Cardinality(BatchesOf(t) \cup {n}) <= Cardinality(BatchesOf(t)) + 1
      BY <2>1, OneMore
    <3>3. Linking(t)'
      BY <1>1, <2>3 DEF Linking
    <3> QED
      BY <1>2, <1>3, <1>4, <2>1, <2>2, <2>3, <3>1, <3>2, <3>3
  <2>4. CASE t \notin txs
    <3>1. BatchesOf(t)' = BatchesOf(t)
      BY <1>1, <2>4 DEF BatchesOf
    <3> QED
      BY <1>2, <1>3, <2>1, <2>2, <3>1
  <2> QED
    BY <2>3, <2>4
<1> QED
  BY <1>6 DEF BatchesCounted

LEMMA CountedStep ==
    ASSUME OneWorker, TypeOK, TypeOK', PayoutInv, LinkInv, BatchesCounted,
           [SettlementNext]_allVars
    PROVE  BatchesCounted'
<1>1. faults' = faults \/ faults' = faults + 1
  BY FaultsGrow
<1>2. CASE UNCHANGED settlementVars
  <2>1. \A t \in Tx : BatchesOf(t)' = BatchesOf(t)
    BY <1>2 DEF settlementVars, BatchesOf
  <2>2. \A t \in Tx : Linking(t)' <=> Linking(t)
    BY <1>2 DEF settlementVars, Linking
  <2> QED
    BY <1>1, <1>2, <2>1, <2>2, CountedMove DEF settlementVars
<1>3. ASSUME NEW w \in Worker, WorkerStep(w)
      PROVE  BatchesCounted'
  <2>1. CASE GetUnsettled(w)
    <3>1. \A t \in Tx : BatchesOf(t)' = BatchesOf(t)
      BY <2>1 DEF GetUnsettled, BatchesOf
    <3>2. \A t \in Tx : ~Linking(t) /\ settledIn' = settledIn
      BY <2>1, TheWorker DEF GetUnsettled, Linking
    <3> QED
      BY <1>1, <3>1, <3>2, CountedMove
  <2>2. CASE MarkAsSettled(w)
    <3>1. \A t \in Tx : BatchesOf(t)' = BatchesOf(t)
      BY <2>2 DEF MarkAsSettled, BatchesOf
    <3>2. /\ worker[w].batch \in DOMAIN settlements
          /\ \A t \in settlements[worker[w].batch].txs : settledIn'[t] = worker[w].batch
          /\ \A t \in Tx \ settlements[worker[w].batch].txs : settledIn'[t] = settledIn[t]
          /\ worker[w].batch # 0
      BY <2>2, MarkAsSettledRows
    <3>3. \A t \in Tx : Linking(t) => t \in settlements[worker[w].batch].txs
      BY TheWorker DEF Linking
    <3>4. \A t \in Tx : settledIn[t] # 0 \/ Linking(t) => settledIn'[t] # 0
      BY <3>2, <3>3
    <3> QED
      BY <1>1, <3>1, <3>4, CountedMove
  <2> QED
    BY <1>3, <2>1, <2>2, CountedCreate DEF WorkerStep
<1>4. ASSUME NEW w \in Worker, WorkerTrouble(w)
      PROVE  BatchesCounted'
  <2>1. Fault /\ UNCHANGED settlements
    BY <1>4 DEF WorkerTrouble, CreateFails, MarkFails, WorkerRestart, WorkerFault
  <2>2. \A t \in Tx : BatchesOf(t)' = BatchesOf(t)
    BY <2>1 DEF BatchesOf
  <2> QED
    BY <1>1, <2>1, <2>2, CountedMove DEF Fault
<1>5. ASSUME NEW b \in DOMAIN settlements, ApproveSettlement(b)
      PROVE  BatchesCounted'
  <2>1. /\ DOMAIN settlements' = DOMAIN settlements
        /\ \A c \in DOMAIN settlements : settlements'[c].txs = settlements[c].txs
    BY <1>5, ApproveSettlementRows DEF PayoutInv
  <2>2. UNCHANGED <<settledIn, worker>>
    BY <1>5 DEF ApproveSettlement
  <2>3. \A t \in Tx : BatchesOf(t)' = BatchesOf(t)
    BY <2>1 DEF BatchesOf
  <2>4. \A t \in Tx : Linking(t) => Linking(t)'
    <3>1. \A w \in Worker : worker[w].pc = "mark" => worker[w].batch \in DOMAIN settlements
      BY DEF PayoutInv, WorkersHoldCaptures
    <3> QED
      BY <2>1, <2>2, <3>1 DEF Linking
  <2> QED
    BY <1>1, <2>2, <2>3, <2>4, CountedMove
<1>6. CASE UNCHANGED allVars
  BY <1>2, <1>6 DEF allVars
<1> QED
  BY <1>2, <1>3, <1>4, <1>5, <1>6 DEF SettlementNext

LEMMA CountedInvariant == OneWorker => (SettlementSpec => [](TypeOK /\ PayoutInv /\ BatchesCounted))
<1> SUFFICES ASSUME OneWorker
             PROVE  SettlementSpec => [](TypeOK /\ PayoutInv /\ BatchesCounted)
  OBVIOUS
<1>1. SettlementInit => LinkInv /\ BatchesCounted
  BY LinksInit
<1>2. PayoutInv /\ LinkInv /\ [SettlementNext]_allVars => LinkInv'
  BY LinksStep
<1>3. TypeOK /\ TypeOK' /\ PayoutInv /\ LinkInv /\ BatchesCounted
          /\ [SettlementNext]_allVars => BatchesCounted'
  BY CountedStep
<1> QED
  BY <1>1, <1>2, <1>3, PayoutInvariant, PTL DEF SettlementSpec

LEMMA CountedIsEnough ==
    TypeOK /\ PayoutInv /\ BatchesCounted => ExtraBatchesNeedFaults
<1> SUFFICES ASSUME TypeOK, PayoutInv, BatchesCounted, NEW t \in Tx
             PROVE  Cardinality(BatchesOf(t)) <= 1 + faults
  BY DEF ExtraBatchesNeedFaults, BatchesOf
<1>1. faults \in Nat /\ Cardinality(BatchesOf(t)) \in Nat
  BY MaxFaultsAssumption, BatchesAreFinite DEF TypeOK
<1>2. Cardinality(BatchesOf(t)) <=
          IF settledIn[t] # 0 \/ Linking(t) THEN faults + 1 ELSE faults
  BY DEF BatchesCounted
<1> QED
  BY <1>1, <1>2

\* With one API process a transaction is in one batch more than there were
\* faults, at most, whatever it was meanwhile (settlement_worker.go:106-110).
THEOREM SecondBatchNeedsFault == OneWorker => (SettlementSpec => []ExtraBatchesNeedFaults)
BY CountedInvariant, CountedIsEnough, PTL

\* What settlement_worker.go:47 says of the unsettled rows holds with one API
\* process when nothing fails: no transaction is paid out twice.
THEOREM OneWorkerSettlesOnce ==
    OneWorker /\ MaxFaults = 0 => (SettlementSpec => []SettledOnce)
<1> SUFFICES ASSUME OneWorker, MaxFaults = 0
             PROVE  SettlementSpec => []SettledOnce
  OBVIOUS
<1>1. TypeOK /\ PayoutInv /\ BatchesCounted => SettledOnce
  <2> SUFFICES ASSUME TypeOK, PayoutInv, BatchesCounted, NEW t \in Tx
               PROVE  LET paid == {b \in DOMAIN settlements :
                                      /\ settlements[b].status = "settled"
                                      /\ t \in settlements[b].txs}
                      IN  Cardinality(paid) <= 1
    BY DEF SettledOnce
  <2> DEFINE paid == {b \in DOMAIN settlements :
                         settlements[b].status = "settled" /\ t \in settlements[b].txs}
  <2>1. paid \subseteq BatchesOf(t)
    BY DEF BatchesOf
  <2>2. Cardinality(BatchesOf(t)) <= 1 + faults /\ faults = 0
    BY CountedIsEnough DEF ExtraBatchesNeedFaults, BatchesOf, TypeOK
  <2>3. /\ Cardinality(paid) <= Cardinality(BatchesOf(t))
        /\ Cardinality(paid) \in Nat /\ Cardinality(BatchesOf(t)) \in Nat
    BY <2>1, BatchesAreFinite, FS_Subset, FS_CardinalityType
  <2> QED
    BY <2>2, <2>3
<1> QED
  BY <1>1, CountedInvariant, PTL

---------------------------------------------------------------------------
(* The payments, seen without their settlement *)

\* The trouble of a worker uses up a fault and does nothing else to them.
TroubleElsewhere ==
    Fault /\ UNCHANGED <<row, refunds, refundKeys, events, captured, handler>>

LEMMA SettlementLeavesPayments ==
    ASSUME [SettlementNext]_allVars
    PROVE  [Next \/ TroubleElsewhere]_vars
<1>1. CASE [Next]_vars
  BY <1>1
<1>2. ASSUME NEW w \in Worker, WorkerTrouble(w)
      PROVE  TroubleElsewhere
  BY <1>2 DEF WorkerTrouble, CreateFails, MarkFails, WorkerRestart, WorkerFault, TroubleElsewhere
<1>3. ASSUME NEW w \in Worker, WorkerStep(w)
      PROVE  UNCHANGED vars
  BY <1>3 DEF WorkerStep, GetUnsettled, CreateSettlement, MarkAsSettled
<1>4. ASSUME NEW b \in DOMAIN settlements, ApproveSettlement(b)
      PROVE  UNCHANGED vars
  BY <1>4 DEF ApproveSettlement
<1>5. CASE UNCHANGED allVars
  BY <1>1, <1>5 DEF allVars
<1> QED
  BY <1>1, <1>2, <1>3, <1>4, <1>5 DEF SettlementNext

\* The settlement of payments is invisible to them: whatever the workers and the
\* admins do, the payments take the steps they take without them, or stand still
\* (settlement_worker.go:44-115 and admin_repository.go:397-410 write no status).
THEOREM SettlementImplementsPayments ==
    SettlementSpec => Init /\ [][Next \/ TroubleElsewhere]_vars
<1>1. SettlementInit => Init
  BY DEF SettlementInit
<1>2. [SettlementNext]_allVars => [Next \/ TroubleElsewhere]_vars
  BY SettlementLeavesPayments
<1> QED
  BY <1>1, <1>2, PTL DEF SettlementSpec

\* So what is proved of the payments holds while they are paid out: served one
\* after the other, with nothing failing, they keep the contract, for any number
\* of workers at work on the same rows (payment_service.go:386, 446, 492, 497).
THEOREM SettledPaymentsKeepContract == Serial => (SettlementSpec => ImplementsContract)
<1> SUFFICES ASSUME Serial
             PROVE  SettlementSpec => ImplementsContract
  OBVIOUS
<1>1. TypeOK => ~TroubleElsewhere
  BY DEF Serial, TypeOK, Fault, TroubleElsewhere
<1>2. TypeOK /\ [Next \/ TroubleElsewhere]_vars => [Next]_vars
  BY <1>1
<1>3. SettlementSpec => Spec
  BY <1>2, SettlementImplementsPayments, PayoutInvariant, PTL DEF Spec
<1> QED
  BY <1>3, SerialRequestsKeepContract
=============================================================================
