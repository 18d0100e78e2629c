---------------------------- MODULE Settlement ----------------------------
(***************************************************************************)
(* The settlement worker (infrastructure/worker/settlement_worker.go) on   *)
(* top of the transactions it pays out.  Every API process runs one worker *)
(* and all of them share the database.  A cycle takes one snapshot of the  *)
(* unsettled rows; for each merchant in it, in the order of a Go map, it   *)
(* inserts a settlements row and then links the transactions to it.        *)
(*                                                                         *)
(* Amounts are summed per batch; the 2% fee and the 18% tax on it are a    *)
(* function of that sum and are left out.                                  *)
(***************************************************************************)
EXTENDS PaymentLifecycle
LOCAL INSTANCE FiniteSetsExt

CONSTANT Worker         \* the settlement goroutines, one for each API process

VARIABLES
    settledIn,      \* settledIn[t]: the settlement_id column of t, 0 for NULL
    settlements,    \* the settlements table, in insertion order
    worker          \* worker[w]: resting, or at work on a snapshot

settlementVars == <<settledIn, settlements, worker>>
allVars == <<vars, settlementVars>>

\* txs is not a column: it remembers what the batch was summed over.
Batch == [merchant : Merchant, txs : SUBSET Tx, total : Nat,
          status : {"pending", "settled"}]

\* A worker's snapshot, less the merchants done, and the batch to link next.
WorkerState == [pc : {"rest", "create", "mark"}, txs : SUBSET Tx, batch : Nat]
Resting == [pc |-> "rest", txs |-> {}, batch |-> 0]

SettlementTypeOK ==
    /\ settledIn \in [Tx -> 0..Len(settlements)]
    /\ settlements \in Seq(Batch)
    /\ worker \in [Worker -> WorkerState]

SettlementInit ==
    /\ Init
    /\ settledIn = [t \in Tx |-> 0]
    /\ settlements = <<>>
    /\ worker = [w \in Worker |-> Resting]

---------------------------------------------------------------------------

\* Mutants of Unsettled: each drops one condition of the WHERE clause.
Unsettled_AnyStatus ==
    {t \in Tx : row[t].status \notin {"absent", "failed"} /\ settledIn[t] = 0}
Unsettled_Relisted == {t \in Tx : row[t].status = "success"}

\* transactionRepo.GetUnsettled
Unsettled == {t \in Tx : row[t].status = "success" /\ settledIn[t] = 0}

\* The ticker fires (or fired while the last cycle ran); an empty snapshot
\* ends the cycle at once.
GetUnsettled(w) ==
    /\ worker[w].pc = "rest"
    /\ Unsettled # {}
    /\ worker' = [worker EXCEPT ![w] = [pc |-> "create", txs |-> Unsettled, batch |-> 0]]
    /\ UNCHANGED <<vars, settledIn, settlements>>

\* Mutant of Rest: the loop over the merchants does not end.
Rest_NoEnd(txs) == [pc |-> "create", txs |-> txs, batch |-> 0]

\* The merchants that remain, or the end of the cycle.
Rest(txs) ==
    IF txs = {} THEN Resting ELSE [pc |-> "create", txs |-> txs, batch |-> 0]

OfMerchant(txs, m) == {t \in txs : Owner[t] = m}
SumOfAmounts(txs) == MapThenSumSet(LAMBDA t : Amount[t], txs)

CreateSettlement(w, m) ==
    LET txs == OfMerchant(worker[w].txs, m) IN
    /\ worker[w].pc = "create"
    /\ txs # {}
    /\ settlements' = Append(settlements,
          [merchant |-> m, txs |-> txs, total |-> SumOfAmounts(txs),
           status |-> "pending"])
    /\ worker' = [worker EXCEPT ![w].pc = "mark", ![w].batch = Len(settlements) + 1]
    /\ UNCHANGED <<vars, settledIn>>

\* Mutant of MarkAsSettled: it re-reads the status the snapshot had checked.
MarkAsSettled_StillSuccess(w) ==
    LET txs == settlements[worker[w].batch].txs IN
    /\ worker[w].pc = "mark"
    /\ settledIn' = [t \in Tx |-> IF t \in txs /\ row[t].status = "success"
                                  THEN worker[w].batch ELSE settledIn[t]]
    /\ worker' = [worker EXCEPT ![w] = Rest(@.txs \ txs)]
    /\ UNCHANGED <<vars, settlements>>

\* transactionRepo.MarkAsSettled: one UPDATE by id, whatever the rows say now.
MarkAsSettled(w) ==
    LET txs == settlements[worker[w].batch].txs IN
    /\ worker[w].pc = "mark"
    /\ settledIn' = [t \in Tx |-> IF t \in txs THEN worker[w].batch ELSE settledIn[t]]
    /\ worker' = [worker EXCEPT ![w] = Rest(@.txs \ txs)]
    /\ UNCHANGED <<vars, settlements>>

WorkerFault(w) ==
    /\ Fault
    /\ UNCHANGED <<row, refunds, refundKeys, events, captured, handler,
                   settledIn, settlements>>

\* The INSERT or the UPDATE of one merchant fails: it is logged and skipped.
CreateFails(w, m) ==
    LET txs == OfMerchant(worker[w].txs, m) IN
    /\ worker[w].pc = "create"
    /\ txs # {}
    /\ worker' = [worker EXCEPT ![w] = Rest(@.txs \ txs)]
    /\ WorkerFault(w)

MarkFails(w) ==
    /\ worker[w].pc = "mark"
    /\ worker' = [worker EXCEPT ![w] = Rest(@.txs \ settlements[@.batch].txs)]
    /\ WorkerFault(w)

\* The process of w dies (or is redeployed) and starts again.
WorkerRestart(w) ==
    /\ worker[w] # Resting
    /\ worker' = [worker EXCEPT ![w] = Resting]
    /\ WorkerFault(w)

\* An admin pays a batch out: adminRepo.ApproveSettlement asks for no status,
\* so a second approval is a second payout of nothing but a new UTR number.
ApproveSettlement(b) ==
    /\ settlements' = [settlements EXCEPT ![b].status = "settled"]
    /\ UNCHANGED <<vars, settledIn, worker>>

WorkerStep(w) ==
    \/ GetUnsettled(w)
    \/ \E m \in Merchant : CreateSettlement(w, m)
    \/ MarkAsSettled(w)

WorkerTrouble(w) ==
    \/ \E m \in Merchant : CreateFails(w, m)
    \/ MarkFails(w)
    \/ WorkerRestart(w)

SettlementNext ==
    \/ Next /\ UNCHANGED settlementVars
    \/ \E w \in Worker : WorkerStep(w) \/ WorkerTrouble(w)
    \/ \E b \in DOMAIN settlements : ApproveSettlement(b)

SettlementSpec == SettlementInit /\ [][SettlementNext]_allVars

\* The ticker of a worker keeps firing and its statements keep returning.
FairSettlementSpec == SettlementSpec /\ \A w \in Worker : WF_allVars(WorkerStep(w))

---------------------------------------------------------------------------

\* A settlements row pays one merchant, for its own captured transactions and
\* for the sum of their amounts, whatever happened to the rows between the
\* snapshot and the payout (settlement_worker.go:61-100).
BatchesPayCaptures ==
    \A b \in DOMAIN settlements :
        LET batch == settlements[b] IN
        /\ batch.txs # {}
        /\ \A t \in batch.txs : Owner[t] = batch.merchant /\ t \in captured
        /\ batch.total = SumOfAmounts(batch.txs)

\* The transactions linked to a settlements row are exactly those it was summed
\* over, all or none: a report built from the links adds up to the payout
\* (settlement_worker.go:100-110, transaction_repository.go:353-361).
LinksMatchBatch ==
    \A b \in DOMAIN settlements :
        LET linked == {t \in Tx : settledIn[t] = b} IN
        linked = {} \/ linked = settlements[b].txs

\* A transaction is in a second batch only if something failed in between
\* (settlement_worker.go:106-110): one worker, left alone, never pays twice.
ExtraBatchesNeedFaults ==
    \A t \in Tx :
        Cardinality({b \in DOMAIN settlements : t \in settlements[b].txs}) <= 1 + faults

\* A link, once written, is never moved to another batch: MarkAsSettled updates
\* by id alone and relies on the snapshot (transaction_repository.go:358).
LinkWrittenOnce ==
    [][\A t \in Tx : settledIn[t] # 0 => settledIn'[t] = settledIn[t]]_allVars

\* A payment that stays successful is settled in the end, whatever failed on
\* the way (settlement_worker.go:28-41).
SuccessIsSettled ==
    \A t \in Tx : row[t].status = "success" ~> settledIn[t] # 0 \/ row[t].status # "success"

\* "Fetch all successful transactions that haven't been settled yet"
\* (settlement_worker.go:47): no transaction is in two batches that were paid.
SettledOnce ==
    \A t \in Tx :
        Cardinality({b \in DOMAIN settlements :
            settlements[b].status = "settled" /\ t \in settlements[b].txs}) <= 1
=============================================================================
