--------------------------- MODULE MerchantBanking ---------------------------
(***************************************************************************)
(* The balance on the banking page and the withdrawals asked for there.    *)
(* The back end computes a balance from the payments alone: a withdrawal   *)
(* takes nothing off it, and only the page that is open counts down what   *)
(* it shows.  A refund counts twice: the payment is no longer a success,   *)
(* and its amount is subtracted.                                           *)
(***************************************************************************)
EXTENDS ConsoleBounds, Integers

CONSTANT MaxAmount      \* bound: the total of all payments

ASSUME BankingAssumption ==
    /\ MaxAmount \in Nat \ {0}
    /\ None \notin {"balance", "accounts"}

VARIABLES
    ledger,     \* back end: totals of the payments by status, and withdrawals
    bank,       \* the banking page
    loading,    \* the page's load in flight: "balance", then "accounts", None when over
    wires,      \* withdrawals in flight
    uses        \* how often each bounded thing has happened

bankVars == <<ledger, bank, loading, wires, uses>>

BankInit ==
    /\ ledger = [success |-> MaxAmount - 1, pending |-> 0, refunded |-> 0, drawn |-> 0]
    /\ bank = [open |-> FALSE, balance |-> None, accounts |-> FALSE, withdrawing |-> FALSE,
               loaded |-> 0, drawn |-> 0]
    /\ loading = [want |-> None, balance |-> None]
    /\ wires = {}
    /\ uses = [edits |-> 0, opens |-> 0, losses |-> 0]

GetBalance == ledger.success - ledger.pending - ledger.refunded

Count(what, limit) == uses[what] < limit /\ uses' = [uses EXCEPT ![what] = @ + 1]

\* Opening (or reloading) the page asks for the balance, then the accounts.
LoadBankingData ==
    /\ Count("opens", MaxOpens)
    /\ bank' = [open |-> TRUE, balance |-> None, accounts |-> FALSE, withdrawing |-> FALSE,
                loaded |-> 0, drawn |-> 0]
    /\ loading' = [want |-> "balance", balance |-> None]
    /\ wires' = {[w EXCEPT !.mine = FALSE] : w \in wires}
    /\ UNCHANGED ledger

ServeBalance ==
    /\ loading.want = "balance" /\ loading.balance = None
    /\ loading' = [loading EXCEPT !.balance = GetBalance]
    /\ UNCHANGED <<ledger, bank, wires, uses>>

BalanceAnswered ==
    /\ loading.want = "balance" /\ loading.balance # None
    /\ bank' = [bank EXCEPT !.balance = loading.balance, !.loaded = loading.balance]
    /\ loading' = [want |-> "accounts", balance |-> None]
    /\ UNCHANGED <<ledger, wires, uses>>

AccountsAnswered ==
    /\ loading.want = "accounts"
    /\ bank' = [bank EXCEPT !.accounts = TRUE]
    /\ loading' = [want |-> None, balance |-> None]
    /\ UNCHANGED <<ledger, wires, uses>>

\* The first step of the load that fails ends it.
LoadBreaksOff ==
    /\ loading.want # None
    /\ Count("losses", MaxLosses)
    /\ loading' = [want |-> None, balance |-> None]
    /\ UNCHANGED <<ledger, bank, wires>>

\* Mutant: the button is not disabled.
HandleWithdrawal_NotDisabled(amount) ==
    /\ bank.open /\ bank.accounts
    /\ bank.balance # None /\ amount <= bank.balance
    /\ Count("edits", MaxEdits)
    /\ bank' = [bank EXCEPT !.withdrawing = TRUE]
    /\ wires' = wires \cup {[n |-> uses.edits, amount |-> amount, mine |-> TRUE, step |-> "sent"]}
    /\ UNCHANGED <<ledger, loading>>

HandleWithdrawal(amount) ==
    /\ bank.open /\ bank.accounts /\ ~bank.withdrawing
    /\ bank.balance # None /\ amount <= bank.balance
    /\ Count("edits", MaxEdits)
    /\ bank' = [bank EXCEPT !.withdrawing = TRUE]
    /\ wires' = wires \cup {[n |-> uses.edits, amount |-> amount, mine |-> TRUE, step |-> "sent"]}
    /\ UNCHANGED <<ledger, loading>>

\* The balance is checked by one statement and the withdrawal inserted by another.
CheckBalance(w) ==
    /\ w.step = "sent"
    /\ wires' = (wires \ {w}) \cup
          {[w EXCEPT !.step = IF w.amount > GetBalance THEN "failed" ELSE "checked"]}
    /\ UNCHANGED <<ledger, bank, loading, uses>>

CreateWithdrawal(w) ==
    /\ w.step = "checked"
    /\ wires' = (wires \ {w}) \cup {[w EXCEPT !.step = "ok"]}
    /\ ledger' = [ledger EXCEPT !.drawn = @ + w.amount]
    /\ bank' = IF w.mine THEN [bank EXCEPT !.drawn = @ + w.amount] ELSE bank
    /\ UNCHANGED <<loading, uses>>

WireFails(w) ==
    /\ w.step # "failed"
    /\ Count("losses", MaxLosses)
    /\ wires' = (wires \ {w}) \cup {[w EXCEPT !.step = "failed"]}
    /\ UNCHANGED <<ledger, bank, loading>>

\* The page counts down what it shows.
WithdrawalAnswered(w) ==
    /\ w.step \in {"ok", "failed"}
    /\ wires' = wires \ {w}
    /\ bank' = IF ~w.mine THEN bank
               ELSE [bank EXCEPT !.withdrawing = FALSE,
                                 !.balance = IF w.step = "ok" THEN @ - w.amount ELSE @]
    /\ UNCHANGED <<ledger, loading, uses>>

\* Customers begin and finish payments, and payments are refunded.
PaymentsMove ==
    /\ \/ ledger.success + ledger.pending + ledger.refunded < MaxAmount
          /\ ledger' = [ledger EXCEPT !.pending = @ + 1]
       \/ ledger.pending > 0
          /\ ledger' = [ledger EXCEPT !.pending = @ - 1, !.success = @ + 1]
       \/ ledger.success > 0
          /\ ledger' = [ledger EXCEPT !.success = @ - 1, !.refunded = @ + 1]
    /\ UNCHANGED <<bank, loading, wires, uses>>

BankNext ==
    \/ LoadBankingData \/ ServeBalance \/ BalanceAnswered \/ AccountsAnswered \/ LoadBreaksOff
    \/ \E amount \in 1..MaxAmount : HandleWithdrawal(amount)
    \/ \E w \in wires : \/ CheckBalance(w) \/ CreateWithdrawal(w)
                        \/ WireFails(w) \/ WithdrawalAnswered(w)
    \/ PaymentsMove

BankSpec == BankInit /\ [][BankNext]_bankVars

-----------------------------------------------------------------------------
\* Between loading the page and leaving it, and unless a request or its
\* answer is lost, a merchant withdraws at most the balance that was loaded,
\* whatever becomes of the payments meanwhile.  Nothing else in the program
\* keeps withdrawals together within the balance: opening the page again
\* shows it undiminished.
WithinOneVisit == uses.losses = 0 => bank.drawn <= IF bank.loaded > 0 THEN bank.loaded ELSE 0

\* What "insufficient balance" is to prevent: that a merchant's withdrawals
\* come to more than the payments earned.
WithdrawalsWithinBalance == ledger.drawn <= ledger.success + ledger.pending + ledger.refunded

=============================================================================
