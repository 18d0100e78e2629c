------------------------ MODULE MerchantConsoleProofs ------------------------
(* Proofs about the concerns of the merchant's console, one after the other. *)
EXTENDS MerchantSession, MerchantLists, MerchantBanking, MerchantProfile,
        MerchantFigures, VirtualTerminal, RoutingTrace, Copilot,
        FiniteSetTheorems, SequenceTheorems, TLAPS

---------------------------------------------------------------------------
(* The bank page, for any payments and any bounds. *)

Wire == [n : Nat, amount : Nat, mine : BOOLEAN,
         step : {"sent", "checked", "failed", "ok"}]

BankTypeOK ==
    /\ ledger \in [success : Int, pending : Int, refunded : Int, drawn : Int]
    /\ bank \in [open : BOOLEAN, balance : Int \cup {None}, accounts : BOOLEAN,
                 withdrawing : BOOLEAN, loaded : Int, drawn : Int]
    /\ loading \in [want : {"balance", "accounts", None}, balance : Int \cup {None}]
    /\ wires \in SUBSET Wire

\* The withdrawals asked for on the page that is open.
Mine == {w \in wires : w.mine}

\* The form can be used once the accounts have come, and they come last.
LoadIsInOrder ==
    /\ loading.want = "balance" => ~bank.accounts
    /\ loading.want = "accounts" => ~bank.accounts /\ bank.balance \in Int
                                        /\ bank.loaded = bank.balance
    /\ bank.accounts => bank.balance \in Int
    /\ ~bank.accounts => bank.drawn = 0

\* The disabled button leaves one withdrawal in flight.
OneInFlight ==
    /\ \A v, w \in Mine : v = w
    /\ Mine # {} => bank.withdrawing /\ bank.accounts

\* What is shown is what was loaded less what was drawn, but for a withdrawal
\* made whose answer is on its way.
BalanceIsCounted ==
    /\ bank.accounts /\ Mine = {} => bank.balance = bank.loaded - bank.drawn
    /\ \A w \in Mine :
          /\ w.step = "ok" => bank.balance = bank.loaded - bank.drawn + w.amount
          /\ w.step # "ok" => bank.balance = bank.loaded - bank.drawn
          /\ w.step \in {"sent", "checked"} => w.amount <= bank.balance
    /\ bank.drawn = 0 \/ bank.drawn <= bank.loaded

Accounted == LoadIsInOrder /\ OneInFlight /\ BalanceIsCounted

Sound == BankTypeOK /\ Accounted

\* A lost answer leaves the page showing what was withdrawn.
BankInv ==
    /\ uses \in [edits : Nat, opens : Nat, losses : Nat]
    /\ uses.losses = 0 => Sound

LEMMA InitBankInv == BankInit => BankInv
<1> SUFFICES ASSUME BankInit PROVE BankInv
  OBVIOUS
<1>1. /\ ledger \in [success : Int, pending : Int, refunded : Int, drawn : Int]
      /\ loading \in [want : {"balance", "accounts", None}, balance : Int \cup {None}]
      /\ wires \in SUBSET Wire
  BY BankingAssumption DEF BankInit
<1>2. bank \in [open : BOOLEAN, balance : Int \cup {None}, accounts : BOOLEAN,
                withdrawing : BOOLEAN, loaded : Int, drawn : Int]
  BY DEF BankInit
<1>3. Mine = {} /\ bank.accounts = FALSE /\ bank.drawn = 0 /\ loading.want = None
  BY DEF BankInit, Mine
<1>4. Accounted
  BY <1>3, BankingAssumption
     DEF Accounted, LoadIsInOrder, OneInFlight, BalanceIsCounted
<1>5. uses \in [edits : Nat, opens : Nat, losses : Nat]
  BY DEF BankInit
<1> QED
  BY <1>1, <1>2, <1>4, <1>5 DEF BankInv, BankTypeOK, Sound

\* Losses are only counted up.
LEMMA CountedUp ==
    ASSUME BankInv, NEW what \in {"edits", "opens", "losses"}, NEW limit, Count(what, limit)
    PROVE  /\ uses' \in [edits : Nat, opens : Nat, losses : Nat]
           /\ what # "losses" => uses'.losses = uses.losses
           /\ what = "losses" => uses'.losses # 0
BY DEF Count, BankInv

\* A page just opened has nothing on it and no withdrawal of its own.
LEMMA OpenedIsSound == Sound /\ LoadBankingData => Sound'
<1> SUFFICES ASSUME Sound, LoadBankingData PROVE Sound'
  OBVIOUS
<1>1. /\ bank' = [open |-> TRUE, balance |-> None, accounts |-> FALSE, withdrawing |-> FALSE,
                  loaded |-> 0, drawn |-> 0]
      /\ loading' = [want |-> "balance", balance |-> None]
      /\ wires' = {[w EXCEPT !.mine = FALSE] : w \in wires}
      /\ ledger' = ledger
  BY DEF LoadBankingData
<1>2. wires' \in SUBSET Wire /\ Mine' = {}
  <2>1. ASSUME NEW w \in wires
        PROVE  [w EXCEPT !.mine = FALSE] \in Wire /\ [w EXCEPT !.mine = FALSE].mine = FALSE
    <3>1. w \in Wire
      BY DEF Sound, BankTypeOK
    <3> QED
      BY <3>1 DEF Wire
  <2>2. wires' \in SUBSET Wire
    BY <1>1, <2>1
  <2>3. \A v \in wires' : v.mine = FALSE
    BY <1>1, <2>1
  <2> QED
    BY <2>2, <2>3 DEF Mine
<1>3. BankTypeOK'
  BY <1>1, <1>2 DEF Sound, BankTypeOK
<1>4. bank'.accounts = FALSE /\ bank'.drawn = 0 /\ loading'.want = "balance"
  BY <1>1
<1>5. Accounted'
  BY <1>2, <1>4, BankingAssumption
     DEF Accounted, LoadIsInOrder, OneInFlight, BalanceIsCounted
<1> QED
  BY <1>3, <1>5 DEF Sound

\* The back end's answer leaves the page as it is.
LEMMA BalanceServedIsSound == Sound /\ ServeBalance => Sound'
<1> SUFFICES ASSUME Sound, ServeBalance PROVE Sound'
  OBVIOUS
<1>1. /\ loading' = [loading EXCEPT !.balance = GetBalance]
      /\ UNCHANGED <<ledger, bank, wires>>
  BY DEF ServeBalance
<1>2. GetBalance \in Int
  BY DEF Sound, BankTypeOK, GetBalance
<1>3. BankTypeOK'
  BY <1>1, <1>2 DEF Sound, BankTypeOK
<1>4. loading'.want = loading.want /\ Mine' = Mine /\ bank' = bank
  BY <1>1 DEF Sound, BankTypeOK, Mine
<1>5. Accounted'
  BY <1>4 DEF Sound, Accounted, LoadIsInOrder, OneInFlight, BalanceIsCounted
<1> QED
  BY <1>3, <1>5 DEF Sound

\* While the balance is shown for the first time nothing can be withdrawn.
LEMMA BalanceShownIsSound == Sound /\ BalanceAnswered => Sound'
<1> SUFFICES ASSUME Sound, BalanceAnswered PROVE Sound'
  OBVIOUS
<1>1. /\ loading.want = "balance" /\ loading.balance # None
      /\ bank' = [bank EXCEPT !.balance = loading.balance, !.loaded = loading.balance]
      /\ loading' = [want |-> "accounts", balance |-> None]
      /\ UNCHANGED <<ledger, wires>>
  BY DEF BalanceAnswered
<1>2. loading.balance \in Int
  BY <1>1 DEF Sound, BankTypeOK
<1>3. BankTypeOK'
  BY <1>1, <1>2 DEF Sound, BankTypeOK
<1>4. /\ bank'.accounts = bank.accounts /\ bank'.withdrawing = bank.withdrawing
      /\ bank'.drawn = bank.drawn
      /\ bank'.balance = loading.balance /\ bank'.loaded = loading.balance
      /\ loading'.want = "accounts" /\ Mine' = Mine
  BY <1>1 DEF Sound, BankTypeOK, Mine
<1>5. ~bank.accounts /\ bank.drawn = 0 /\ Mine = {}
  BY <1>1 DEF Sound, Accounted, LoadIsInOrder, OneInFlight
<1>6. Accounted'
  BY <1>2, <1>4, <1>5 DEF Accounted, LoadIsInOrder, OneInFlight, BalanceIsCounted
<1> QED
  BY <1>3, <1>6 DEF Sound

LEMMA AccountsShownIsSound == Sound /\ AccountsAnswered => Sound'
<1> SUFFICES ASSUME Sound, AccountsAnswered PROVE Sound'
  OBVIOUS
<1>1. /\ loading.want = "accounts"
      /\ bank' = [bank EXCEPT !.accounts = TRUE]
      /\ loading' = [want |-> None, balance |-> None]
      /\ UNCHANGED <<ledger, wires>>
  BY DEF AccountsAnswered
<1>2. BankTypeOK'
  BY <1>1 DEF Sound, BankTypeOK
<1>3. /\ bank'.accounts = TRUE /\ bank'.withdrawing = bank.withdrawing
      /\ bank'.drawn = bank.drawn
      /\ bank'.balance = bank.balance /\ bank'.loaded = bank.loaded
      /\ loading'.want = None /\ Mine' = Mine
  BY <1>1 DEF Sound, BankTypeOK, Mine
<1>4. /\ ~bank.accounts /\ bank.drawn = 0 /\ Mine = {}
      /\ bank.balance \in Int /\ bank.loaded = bank.balance
  BY <1>1 DEF Sound, Accounted, LoadIsInOrder, OneInFlight
<1>5. Accounted'
  BY <1>3, <1>4, BankingAssumption
     DEF Accounted, LoadIsInOrder, OneInFlight, BalanceIsCounted
<1> QED
  BY <1>2, <1>5 DEF Sound

\* A withdrawal is within what is shown, and the only one of the page.
LEMMA AskedIsSound ==
    ASSUME Sound, BankInv, NEW drawing \in 1..MaxAmount, HandleWithdrawal(drawing)
    PROVE  Sound'
<1> DEFINE new == [n |-> uses.edits, amount |-> drawing, mine |-> TRUE, step |-> "sent"]
<1>1. /\ bank.accounts /\ ~bank.withdrawing
      /\ bank.balance # None /\ drawing <= bank.balance
      /\ bank' = [bank EXCEPT !.withdrawing = TRUE]
      /\ wires' = wires \cup {new}
      /\ UNCHANGED <<ledger, loading>>
  BY DEF HandleWithdrawal
<1>2. uses.edits \in Nat /\ drawing \in Nat
  BY BankingAssumption DEF BankInv
<1>3. new \in Wire /\ new.mine /\ new.step = "sent" /\ new.amount = drawing
  BY <1>2 DEF Wire
<1> HIDE DEF new
<1>4. BankTypeOK'
  BY <1>1, <1>3 DEF Sound, BankTypeOK
<1>5. /\ bank'.accounts = bank.accounts /\ bank'.withdrawing = TRUE
      /\ bank'.drawn = bank.drawn
      /\ bank'.balance = bank.balance /\ bank'.loaded = bank.loaded
  BY <1>1 DEF Sound, BankTypeOK
<1>6. Mine = {}
  BY <1>1 DEF Sound, Accounted, OneInFlight
<1>7. Mine' = {new}
  BY <1>1, <1>3, <1>6 DEF Mine
<1>8. LoadIsInOrder' /\ OneInFlight'
  BY <1>1, <1>5, <1>7 DEF Sound, Accounted, LoadIsInOrder, OneInFlight
<1>9. BalanceIsCounted'
  BY <1>1, <1>3, <1>5, <1>6, <1>7 DEF Sound, Accounted, BalanceIsCounted
<1> QED
  BY <1>4, <1>8, <1>9 DEF Sound, Accounted

\* What becomes of the page's withdrawals when one takes a step.
LEMMA StepOfMine ==
    ASSUME Sound, NEW w \in wires, NEW s \in {"checked", "failed", "ok"},
           wires' = (wires \ {w}) \cup {[w EXCEPT !.step = s]}
    PROVE  /\ wires' \in SUBSET Wire
           /\ w.mine => Mine = {w} /\ Mine' = {[w EXCEPT !.step = s]}
           /\ ~w.mine => Mine' = Mine
<1>1. w \in Wire
  BY DEF Sound, BankTypeOK
<1>2. /\ [w EXCEPT !.step = s] \in Wire
      /\ [w EXCEPT !.step = s].mine = w.mine
  BY <1>1 DEF Wire
<1>3. wires' \in SUBSET Wire
  BY <1>2 DEF Sound, BankTypeOK
<1>4. ASSUME w.mine
      PROVE  Mine = {w} /\ Mine' = {[w EXCEPT !.step = s]}
  <2>1. Mine = {w}
    BY <1>4 DEF Sound, Accounted, OneInFlight, Mine
  <2>2. Mine' = (Mine \ {w}) \cup {[w EXCEPT !.step = s]}
    BY <1>2, <1>4 DEF Mine
  <2> QED
    BY <2>1, <2>2
<1>5. ASSUME ~w.mine
      PROVE  Mine' = Mine
  BY <1>2, <1>5 DEF Mine
<1> QED
  BY <1>3, <1>4, <1>5

LEMMA CheckedIsSound ==
    ASSUME Sound, NEW w \in wires, CheckBalance(w) PROVE Sound'
<1>1. PICK s \in {"checked", "failed"} : wires' = (wires \ {w}) \cup {[w EXCEPT !.step = s]}
  BY DEF CheckBalance
<1>2. w.step = "sent" /\ UNCHANGED <<ledger, bank, loading>>
  BY DEF CheckBalance
<1>3. /\ wires' \in SUBSET Wire
      /\ w.mine => Mine = {w} /\ Mine' = {[w EXCEPT !.step = s]}
      /\ ~w.mine => Mine' = Mine
  BY <1>1, StepOfMine
<1>4. BankTypeOK'
  BY <1>2, <1>3 DEF Sound, BankTypeOK
<1>5. w \in Wire
  BY DEF Sound, BankTypeOK
<1>6. CASE w.mine
  <2>1. /\ [w EXCEPT !.step = s].amount = w.amount
        /\ [w EXCEPT !.step = s].step = s
    BY <1>5 DEF Wire
  <2>2. LoadIsInOrder' /\ OneInFlight'
    BY <1>2, <1>3, <1>6 DEF Sound, Accounted, LoadIsInOrder, OneInFlight
  <2>3. BalanceIsCounted'
    BY <1>2, <1>3, <1>6, <2>1 DEF Sound, Accounted, BalanceIsCounted
  <2> QED
    BY <1>4, <2>2, <2>3 DEF Sound, Accounted
<1>7. CASE ~w.mine
  <2>1. Accounted'
    BY <1>2, <1>3, <1>7
       DEF Sound, Accounted, LoadIsInOrder, OneInFlight, BalanceIsCounted
  <2> QED
    BY <1>4, <2>1 DEF Sound
<1> QED
  BY <1>6, <1>7

LEMMA CreatedIsSound ==
    ASSUME Sound, NEW w \in wires, CreateWithdrawal(w) PROVE Sound'
<1>1. /\ w.step = "checked" /\ wires' = (wires \ {w}) \cup {[w EXCEPT !.step = "ok"]}
      /\ ledger' = [ledger EXCEPT !.drawn = @ + w.amount]
      /\ bank' = IF w.mine THEN [bank EXCEPT !.drawn = @ + w.amount] ELSE bank
      /\ UNCHANGED loading
  BY DEF CreateWithdrawal
<1>2. /\ wires' \in SUBSET Wire
      /\ w.mine => Mine = {w} /\ Mine' = {[w EXCEPT !.step = "ok"]}
      /\ ~w.mine => Mine' = Mine
  BY <1>1, StepOfMine
<1>3. w \in Wire /\ w.amount \in Nat
  BY DEF Sound, BankTypeOK, Wire
<1>4. ledger.drawn \in Int /\ bank.drawn \in Int /\ bank.loaded \in Int
  BY DEF Sound, BankTypeOK
<1>5. BankTypeOK'
  <2>1. ledger' \in [success : Int, pending : Int, refunded : Int, drawn : Int]
    BY <1>1, <1>3, <1>4 DEF Sound, BankTypeOK
  <2>2. bank' \in [open : BOOLEAN, balance : Int \cup {None}, accounts : BOOLEAN,
                   withdrawing : BOOLEAN, loaded : Int, drawn : Int]
    BY <1>1, <1>3, <1>4 DEF Sound, BankTypeOK
  <2> QED
    BY <1>1, <1>2, <2>1, <2>2 DEF Sound, BankTypeOK
<1>6. CASE w.mine
  <2>1. /\ bank'.accounts = bank.accounts /\ bank'.withdrawing = bank.withdrawing
        /\ bank'.balance = bank.balance /\ bank'.loaded = bank.loaded
        /\ bank'.drawn = bank.drawn + w.amount
    BY <1>1, <1>6 DEF Sound, BankTypeOK
  <2>2. /\ [w EXCEPT !.step = "ok"].amount = w.amount
        /\ [w EXCEPT !.step = "ok"].step = "ok"
    BY <1>3 DEF Wire
  <2>3. bank.accounts /\ bank.withdrawing /\ bank.balance \in Int
    BY <1>2, <1>6 DEF Sound, Accounted, OneInFlight, LoadIsInOrder
  <2>4. bank.balance = bank.loaded - bank.drawn /\ w.amount <= bank.balance
    BY <1>1, <1>2, <1>6 DEF Sound, Accounted, BalanceIsCounted
  <2>5. LoadIsInOrder' /\ OneInFlight'
    BY <1>1, <1>2, <1>6, <2>1, <2>3 DEF Sound, Accounted, LoadIsInOrder, OneInFlight
  <2>6. /\ bank'.balance = bank'.loaded - bank'.drawn + w.amount
        /\ bank'.drawn <= bank'.loaded
    BY <1>3, <1>4, <2>1, <2>3, <2>4
  <2>7. BalanceIsCounted'
    BY <1>2, <1>6, <2>2, <2>6 DEF BalanceIsCounted
  <2> QED
    BY <1>5, <2>5, <2>7 DEF Sound, Accounted
<1>7. CASE ~w.mine
  <2>1. bank' = bank /\ Mine' = Mine /\ loading' = loading
    BY <1>1, <1>2, <1>7
  <2>2. Accounted'
    BY <2>1 DEF Sound, Accounted, LoadIsInOrder, OneInFlight, BalanceIsCounted
  <2> QED
    BY <1>5, <2>2 DEF Sound
<1> QED
  BY <1>6, <1>7

\* The answer takes what was drawn off what is shown.
LEMMA AnsweredIsSound ==
    ASSUME Sound, NEW w \in wires, WithdrawalAnswered(w) PROVE Sound'
<1>1. /\ w.step \in {"ok", "failed"} /\ wires' = wires \ {w}
      /\ bank' = IF ~w.mine THEN bank
                 ELSE [bank EXCEPT !.withdrawing = FALSE,
                                   !.balance = IF w.step = "ok" THEN @ - w.amount ELSE @]
      /\ UNCHANGED <<ledger, loading>>
  BY DEF WithdrawalAnswered
<1>2. w \in Wire /\ w.amount \in Nat
  BY DEF Sound, BankTypeOK, Wire
<1>3. CASE ~w.mine
  <2>1. bank' = bank /\ Mine' = Mine /\ loading' = loading /\ ledger' = ledger
    BY <1>1, <1>3 DEF Mine
  <2>2. BankTypeOK'
    BY <1>1, <2>1 DEF Sound, BankTypeOK
  <2>3. Accounted'
    BY <2>1 DEF Sound, Accounted, LoadIsInOrder, OneInFlight, BalanceIsCounted
  <2> QED
    BY <2>2, <2>3 DEF Sound
<1>4. CASE w.mine
  <2> DEFINE shown == IF w.step = "ok" THEN bank.balance - w.amount ELSE bank.balance
  <2>1. Mine = {w} /\ Mine' = {}
    BY <1>1, <1>4 DEF Sound, Accounted, OneInFlight, Mine
  <2>2. bank.accounts /\ bank.balance \in Int
    BY <2>1 DEF Sound, Accounted, OneInFlight, LoadIsInOrder
  <2>3. bank.drawn \in Int /\ bank.loaded \in Int
    BY DEF Sound, BankTypeOK
  <2>4. shown \in Int
    BY <1>2, <2>2
  <2>5. bank' = [bank EXCEPT !.withdrawing = FALSE, !.balance = shown]
    BY <1>1, <1>4
  <2>6. shown = bank.loaded - bank.drawn
    BY <1>1, <1>2, <2>1, <2>2, <2>3 DEF Sound, Accounted, BalanceIsCounted
  <2> HIDE DEF shown
  <2>7. /\ bank'.accounts = bank.accounts /\ bank'.withdrawing = FALSE
        /\ bank'.drawn = bank.drawn
        /\ bank'.balance = shown /\ bank'.loaded = bank.loaded
    BY <2>5 DEF Sound, BankTypeOK
  <2>8. BankTypeOK'
    BY <1>1, <2>4, <2>5 DEF Sound, BankTypeOK
  <2>9. LoadIsInOrder' /\ OneInFlight'
    BY <1>1, <2>1, <2>2, <2>4, <2>7 DEF Sound, Accounted, LoadIsInOrder, OneInFlight
  <2>10. BalanceIsCounted'
    BY <2>1, <2>6, <2>7 DEF Sound, Accounted, BalanceIsCounted
  <2> QED
    BY <2>8, <2>9, <2>10 DEF Sound, Accounted
<1> QED
  BY <1>3, <1>4

\* The page does not look at the payments again.
LEMMA MovedIsSound == Sound /\ PaymentsMove => Sound'
<1> SUFFICES ASSUME Sound, PaymentsMove PROVE Sound'
  OBVIOUS
<1>1. ledger' \in [success : Int, pending : Int, refunded : Int, drawn : Int]
  <2>1. /\ ledger \in [success : Int, pending : Int, refunded : Int, drawn : Int]
        /\ ledger.success \in Int /\ ledger.pending \in Int /\ ledger.refunded \in Int
    BY DEF Sound, BankTypeOK
  <2>2. \/ ledger' = [ledger EXCEPT !.pending = ledger.pending + 1]
        \/ ledger' = [ledger EXCEPT !.pending = ledger.pending - 1,
                                   !.success = ledger.success + 1]
        \/ ledger' = [ledger EXCEPT !.success = ledger.success - 1,
                                   !.refunded = ledger.refunded + 1]
    BY DEF PaymentsMove
  <2>3. CASE ledger' = [ledger EXCEPT !.pending = ledger.pending + 1]
    BY <2>1, <2>3
  <2>4. CASE ledger' = [ledger EXCEPT !.pending = ledger.pending - 1,
                                     !.success = ledger.success + 1]
    <3>1. ledger.pending - 1 \in Int /\ ledger.success + 1 \in Int
      BY <2>1
    <3> DEFINE p == ledger.pending - 1
               q == ledger.success + 1
    <3>2. p \in Int /\ q \in Int /\ ledger' = [ledger EXCEPT !.pending = p, !.success = q]
      BY <2>4, <3>1
    <3> HIDE DEF p, q
    <3> QED
      BY <2>1, <3>2
  <2>5. CASE ledger' = [ledger EXCEPT !.success = ledger.success - 1,
                                     !.refunded = ledger.refunded + 1]
    <3>1. ledger.success - 1 \in Int /\ ledger.refunded + 1 \in Int
      BY <2>1
    <3> DEFINE p == ledger.success - 1
               q == ledger.refunded + 1
    <3>2. p \in Int /\ q \in Int /\ ledger' = [ledger EXCEPT !.success = p, !.refunded = q]
      BY <2>5, <3>1
    <3> HIDE DEF p, q
    <3> QED
      BY <2>1, <3>2
  <2> QED
    BY <2>2, <2>3, <2>4, <2>5
<1>2. UNCHANGED <<bank, loading, wires>>
  BY DEF PaymentsMove
<1>3. BankTypeOK'
  BY <1>1, <1>2 DEF Sound, BankTypeOK
<1>4. Accounted'
  BY <1>2 DEF Sound, Accounted, LoadIsInOrder, OneInFlight, BalanceIsCounted, Mine
<1> QED
  BY <1>3, <1>4 DEF Sound

\* Every step keeps the invariant; a loss only has to be counted.
LEMMA NextBankInv == BankInv /\ [BankNext]_bankVars => BankInv'
<1> SUFFICES ASSUME BankInv, [BankNext]_bankVars PROVE BankInv'
  OBVIOUS
<1>1. ASSUME Sound => Sound', UNCHANGED uses PROVE BankInv'
  BY <1>1 DEF BankInv
<1>2. ASSUME Sound => Sound', NEW what \in {"edits", "opens"}, NEW limit, Count(what, limit)
      PROVE  BankInv'
  <2>1. uses' \in [edits : Nat, opens : Nat, losses : Nat] /\ uses'.losses = uses.losses
    BY <1>2, CountedUp
  <2> QED
    BY <1>2, <2>1 DEF BankInv
<1>3. ASSUME Count("losses", MaxLosses) PROVE BankInv'
  BY <1>3, CountedUp DEF BankInv
<1>4. CASE LoadBankingData
  BY <1>2, <1>4, OpenedIsSound DEF LoadBankingData
<1>5. CASE ServeBalance
  BY <1>1, <1>5, BalanceServedIsSound DEF ServeBalance
<1>6. CASE BalanceAnswered
  BY <1>1, <1>6, BalanceShownIsSound DEF BalanceAnswered
<1>7. CASE AccountsAnswered
  BY <1>1, <1>7, AccountsShownIsSound DEF AccountsAnswered
<1>8. CASE LoadBreaksOff
  BY <1>3, <1>8 DEF LoadBreaksOff
<1>9. ASSUME NEW drawing \in 1..MaxAmount, HandleWithdrawal(drawing) PROVE BankInv'
  BY <1>2, <1>9, AskedIsSound DEF HandleWithdrawal
<1>10. ASSUME NEW w \in wires, CheckBalance(w) PROVE BankInv'
  BY <1>1, <1>10, CheckedIsSound DEF CheckBalance
<1>11. ASSUME NEW w \in wires, CreateWithdrawal(w) PROVE BankInv'
  BY <1>1, <1>11, CreatedIsSound DEF CreateWithdrawal
<1>12. ASSUME NEW w \in wires, WireFails(w) PROVE BankInv'
  BY <1>3, <1>12 DEF WireFails
<1>13. ASSUME NEW w \in wires, WithdrawalAnswered(w) PROVE BankInv'
  BY <1>1, <1>13, AnsweredIsSound DEF WithdrawalAnswered
<1>14. CASE PaymentsMove
  BY <1>1, <1>14, MovedIsSound DEF PaymentsMove
<1>15. CASE UNCHANGED bankVars
  <2>1. UNCHANGED <<ledger, bank, loading, wires, uses>>
    BY <1>15 DEF bankVars
  <2> QED
    BY <2>1 DEF BankInv, Sound, BankTypeOK, Accounted, LoadIsInOrder, OneInFlight,
                BalanceIsCounted, Mine
<1> QED
  BY <1>4, <1>5, <1>6, <1>7, <1>8, <1>9, <1>10, <1>11, <1>12, <1>13, <1>14, <1>15
     DEF BankNext

\* What was drawn since the page was opened is within what was loaded then.
LEMMA InvWithinOneVisit == BankInv => WithinOneVisit
<1> SUFFICES ASSUME BankInv, uses.losses = 0
             PROVE  bank.drawn <= IF bank.loaded > 0 THEN bank.loaded ELSE 0
  BY DEF WithinOneVisit
<1>1. bank.drawn \in Int /\ bank.loaded \in Int
  BY DEF BankInv, Sound, BankTypeOK
<1>2. bank.drawn = 0 \/ bank.drawn <= bank.loaded
  BY DEF BankInv, Sound, Accounted, BalanceIsCounted
<1> QED
  BY <1>1, <1>2

\* Until an answer is lost, the page that is open accounts for its balance:
\* what it shows is what it loaded less what it withdrew, and the disabled
\* button lets one withdrawal at a time be in flight.
THEOREM BankingInvariant == BankSpec => []BankInv
<1>1. BankInit => BankInv
  BY InitBankInv
<1>2. BankInv /\ [BankNext]_bankVars => BankInv'
  BY NextBankInv
<1> QED
  BY <1>1, <1>2, PTL DEF BankSpec

\* A merchant withdraws within one visit of the banking page at most the
\* balance loaded for it, for any payments and any number of visits.
THEOREM VisitIsWithinBalance == BankSpec => []WithinOneVisit
<1>1. BankSpec => []BankInv
  BY BankingInvariant
<1>2. BankInv => WithinOneVisit
  BY InvWithinOneVisit
<1> QED
  BY <1>1, <1>2, PTL

---------------------------------------------------------------------------
(* The virtual terminal, for any number of presses and any bounds. *)

\* While the button is disabled one payment more may be under way than while
\* it can be pressed: the press just made.
Allowed == IF term \in Spinning THEN edits + 1 ELSE edits

TerminalInv ==
    /\ TerminalTypeOK
    /\ Cardinality(Underway) <= Allowed

LEMMA MaxEditsIsNat == MaxEdits \in Nat
BY BoundsAssumption

\* The payments under way can be counted.
LEMMA UnderwayIsFinite ==
    /\ IsFiniteSet(Underway)
    /\ Cardinality(Underway) \in Nat
BY TerminalAssumption, FS_Subset, FS_CardinalityType DEF Underway

\* No payment is under way on a page just opened.
LEMMA InitTerminalInv == TerminalInit => TerminalInv
<1> SUFFICES ASSUME TerminalInit PROVE TerminalInv
  OBVIOUS
<1>1. TerminalTypeOK
  <2>1. edits \in 0..MaxEdits
    BY MaxEditsIsNat DEF TerminalInit
  <2>2. step \in [Runs -> Asking \cup {"unused", "over"}]
    BY DEF TerminalInit, Asking
  <2>3. term \in Spinning \cup {"idle", "success", "failed"} /\ amount \in BOOLEAN
    BY DEF TerminalInit
  <2> QED
    BY <2>1, <2>2, <2>3 DEF TerminalTypeOK
<1>2. Underway = {}
  BY DEF TerminalInit, Underway, Asking
<1>3. Allowed = 0
  BY DEF TerminalInit, Allowed, Spinning
<1> QED
  BY <1>1, <1>2, <1>3, FS_EmptySet DEF TerminalInv

\* A press of Pay puts one payment more under way.
LEMMA PressedIsAdded ==
    ASSUME NEW r \in Runs, TerminalTypeOK, HandlePay(r)
    PROVE  /\ Underway' = Underway \cup {r}
           /\ r \notin Underway
BY DEF HandlePay, Underway, Asking, TerminalTypeOK

\* The end of a run takes its payment away.
LEMMA EndedIsRemoved ==
    ASSUME NEW r \in Runs, TerminalTypeOK, PaymentRefused(r) \/ TransactionRead(r)
    PROVE  /\ Underway' = Underway \ {r}
           /\ r \in Underway
BY DEF PaymentRefused, TransactionRead, Underway, Asking, TerminalTypeOK

\* Every step keeps its variables within their types.
LEMMA TerminalTypeStep ==
    TerminalTypeOK /\ [TerminalNext]_terminalVars => TerminalTypeOK'
<1> SUFFICES ASSUME TerminalTypeOK, [TerminalNext]_terminalVars
             PROVE  TerminalTypeOK'
  OBVIOUS
<1> USE DEF TerminalTypeOK, Spinning, Asking
<1>1. ASSUME NEW filled \in BOOLEAN, EditAmount(filled) PROVE TerminalTypeOK'
  BY <1>1, MaxEditsIsNat DEF EditAmount
<1>2. ASSUME NEW r \in Runs, HandlePay(r) PROVE TerminalTypeOK'
  BY <1>2 DEF HandlePay
<1>3. ASSUME NEW r \in Runs, RunStep(r) PROVE TerminalTypeOK'
  BY <1>3 DEF RunStep, RouteAnswered, PaymentMade, PaymentRefused, TransactionRead
<1>4. CASE Reset
  BY <1>4 DEF Reset
<1>5. CASE UNCHANGED terminalVars
  BY <1>5 DEF terminalVars
<1> QED
  BY <1>1, <1>2, <1>3, <1>4, <1>5 DEF TerminalNext

\* Every step keeps the payments under way within what is allowed.
LEMMA TerminalStep ==
    TerminalInv /\ [TerminalNext]_terminalVars => TerminalInv'
<1> SUFFICES ASSUME TerminalInv, [TerminalNext]_terminalVars
             PROVE  TerminalInv'
  OBVIOUS
<1>1. TerminalTypeOK /\ TerminalTypeOK'
  BY TerminalTypeStep DEF TerminalInv
<1>2. /\ Cardinality(Underway) \in Nat /\ IsFiniteSet(Underway)
      /\ Cardinality(Underway) <= Allowed
      /\ edits \in Nat /\ edits' \in Nat
  BY <1>1, UnderwayIsFinite, MaxEditsIsNat DEF TerminalInv, TerminalTypeOK
<1>3. SUFFICES Cardinality(Underway') <= Allowed'
  BY <1>1 DEF TerminalInv
<1>4. ASSUME NEW filled \in BOOLEAN, EditAmount(filled)
      PROVE  Cardinality(Underway') <= Allowed'
  <2>1. Underway' = Underway
    BY <1>4 DEF EditAmount, Underway
  <2>2. Allowed' = edits'
    BY <1>4 DEF EditAmount, Allowed, Spinning
  <2>3. CASE Underway = {}
    BY <1>2, <2>1, <2>2, <2>3, FS_EmptySet
  <2>4. CASE Underway # {}
    <3>1. edits' = edits + 1
      BY <1>4, <2>4 DEF EditAmount
    <3> QED
      BY <1>2, <2>1, <2>2, <3>1 DEF Allowed
  <2> QED
    BY <2>3, <2>4
<1>5. ASSUME NEW r \in Runs, HandlePay(r)
      PROVE  Cardinality(Underway') <= Allowed'
  <2>1. Cardinality(Underway') = Cardinality(Underway) + 1
    BY <1>1, <1>2, <1>5, PressedIsAdded, FS_AddElement
  <2>2. Allowed = edits /\ Allowed' = edits + 1
    BY <1>5 DEF HandlePay, PayEnabled, Allowed, Spinning
  <2> QED
    BY <1>2, <2>1, <2>2
<1>6. ASSUME NEW r \in Runs, RouteAnswered(r) \/ PaymentMade(r)
      PROVE  Cardinality(Underway') <= Allowed'
  <2>1. Underway' = Underway
    BY <1>1, <1>6 DEF RouteAnswered, PaymentMade, Underway, Asking, TerminalTypeOK
  <2>2. edits' = edits /\ (term' = "processing" \/ term' = term)
    BY <1>6 DEF RouteAnswered, PaymentMade
  <2>3. Allowed <= Allowed'
    BY <1>2, <2>2 DEF Allowed, Spinning
  <2>4. Allowed \in {edits, edits + 1} /\ Allowed' \in {edits', edits' + 1}
    BY DEF Allowed
  <2> QED
    BY <1>2, <2>1, <2>3, <2>4
<1>7. ASSUME NEW r \in Runs, PaymentRefused(r) \/ TransactionRead(r)
      PROVE  Cardinality(Underway') <= Allowed'
  <2>1. Cardinality(Underway') = Cardinality(Underway) - 1
    BY <1>1, <1>2, <1>7, EndedIsRemoved, FS_RemoveElement
  <2>2. edits' = edits
    BY <1>7 DEF PaymentRefused, TransactionRead
  <2> QED
    BY <1>2, <2>1, <2>2 DEF Allowed
<1>8. CASE Reset
  <2>1. Underway' = Underway /\ edits' = edits
    BY <1>8 DEF Reset, Underway
  <2>2. Allowed' = edits /\ Allowed = edits
    BY <1>8, <2>1 DEF Reset, Allowed, Spinning
  <2> QED
    BY <1>2, <2>1, <2>2
<1>9. CASE UNCHANGED terminalVars
  BY <1>2, <1>9 DEF terminalVars, Underway, Allowed
<1> QED
  BY <1>4, <1>5, <1>6, <1>7, <1>8, <1>9 DEF TerminalNext, RunStep

\* As many payments are under way as presses and typed amounts allow, in every
\* reachable state.
THEOREM TerminalInvariant == TerminalSpec => []TerminalInv
<1> QED
  BY InitTerminalInv, TerminalStep, PTL DEF TerminalSpec

\* Payments run side by side in the terminal only after an amount was typed
\* while one was under way (unified-terminal.tsx:343), for any number of
\* presses: the disabled button guards against every other overlap.
THEOREM OverlapsAreTyped == TerminalSpec => []OverlapNeedsEdit
<1>1. TerminalInv => OverlapNeedsEdit
  <2> SUFFICES ASSUME TerminalInv PROVE OverlapNeedsEdit
    OBVIOUS
  <2>1. edits \in Nat /\ Cardinality(Underway) \in Nat
    BY UnderwayIsFinite, MaxEditsIsNat DEF TerminalInv, TerminalTypeOK
  <2> QED
    BY <2>1 DEF TerminalInv, Allowed, OverlapNeedsEdit
<1> QED
  BY <1>1, TerminalInvariant, PTL

---------------------------------------------------------------------------
(* The routing page, for any number of payments, polls and any limit of a page. *)

\* What the proofs need to know of the types.
Typed ==
    /\ paid \in Nat /\ since \in Nat /\ origin \in Nat
    /\ "last" \in DOMAIN map /\ map.last \in Nat
    /\ polls \in [Polls -> [step : {"free", "asked", "answered"}, upto : Nat]]

\* Nothing is missing between the first payment traced and the payment x.
Covered(x) == ~skipped /\ origin # 0 => origin+1..x \subseteq trace \cup timers

\* The polls compare with the last id of an earlier render, so that the trace
\* has to be covered up to that one as well.
TraceInv ==
    /\ Typed
    /\ Covered(since)
    /\ Covered(map.last)
    /\ origin = 0 => since = 0 /\ map.last = 0

LEMMA FirstPollTyped ==
    /\ FirstPoll \in [Polls -> [step : {"free", "asked", "answered"}, upto : Nat]]
    /\ NoPolls \in [Polls -> [step : {"free", "asked", "answered"}, upto : Nat]]
BY DEF FirstPoll, NoPolls, Free

LEMMA InitTraceInv == TraceInit => TraceInv
<1> SUFFICES ASSUME TraceInit PROVE TraceInv
  OBVIOUS
<1>1. since = 0 /\ origin = 0 /\ "last" \in DOMAIN map /\ map.last = 0 /\ paid \in Nat
  BY DEF TraceInit
<1>2. polls = NoPolls
  BY DEF TraceInit
<1> QED
  BY <1>1, <1>2, FirstPollTyped DEF TraceInv, Typed, Covered

\* A render moves the last id of the effect to that of the page or finds them
\* equal.
LEMMA RenderMoves ==
    ASSUME TraceInv, NEW seen, "last" \in DOMAIN seen, seen.last \in Nat, Render(seen)
    PROVE  /\ map' = seen
           /\ since' = seen.last
           /\ polls' \in [Polls -> [step : {"free", "asked", "answered"}, upto : Nat]]
<1>1. CASE <<seen.on, seen.nodes, seen.last>> = <<map.on, map.nodes, since>>
  BY <1>1 DEF Render, TraceInv, Typed
<1>2. CASE <<seen.on, seen.nodes, seen.last>> # <<map.on, map.nodes, since>>
  BY <1>2, FirstPollTyped DEF Render, Restart
<1> QED
  BY <1>1, <1>2

\* A click that leaves the last id of the page alone.
LEMMA ShowsKeeps ==
    ASSUME TraceInv, NEW seen, "last" \in DOMAIN seen, seen.last = map.last,
           map' = seen, since' = seen.last,
           polls' \in [Polls -> [step : {"free", "asked", "answered"}, upto : Nat]],
           UNCHANGED <<paid, timers, trace, origin, skipped>>
    PROVE  TraceInv'
BY DEF TraceInv, Typed, Covered

\* An answer puts what is newer on the trace, or notes that some was skipped.
LEMMA PulledIsCovered ==
    ASSUME TraceInv, NEW p \in Polls, PullTransactions(p)
    PROVE  TraceInv'
<1> DEFINE upto == polls[p].upto
           new == Newer(upto)
<1>1. /\ upto \in Nat /\ since \in Nat /\ origin \in Nat
      /\ "last" \in DOMAIN map /\ map.last \in Nat /\ paid \in Nat
      /\ paid' = paid /\ since' = since /\ trace' = trace
  BY DEF TraceInv, Typed, PullTransactions
<1>2. polls' \in [Polls -> [step : {"free", "asked", "answered"}, upto : Nat]]
  BY DEF TraceInv, Typed, PullTransactions, Free
<1>3. CASE new = {}
  <2>1. UNCHANGED <<map, timers, origin, skipped>>
    BY <1>3 DEF PullTransactions
  <2> QED
    BY <1>1, <1>2, <2>1 DEF TraceInv, Typed, Covered
<1>4. CASE new # {}
  <2>1. /\ map' = [map EXCEPT !.last = upto]
        /\ timers' = timers \cup new
        /\ origin' = IF origin = 0 THEN upto ELSE origin
        /\ skipped' = (skipped \/ (origin # 0 /\ ~Tracked(upto)))
    BY <1>4 DEF PullTransactions
  <2>2. "last" \in DOMAIN map' /\ map'.last = upto
    BY <1>1, <2>1
  <2>3. upto # 0
    BY <1>4 DEF Newer
  <2>4. origin' # 0 /\ origin' \in Nat
    BY <1>1, <2>1, <2>3
  <2>5. Covered(since)'
    <3>1. SUFFICES ASSUME ~skipped' PROVE origin'+1..since \subseteq trace' \cup timers'
      BY <1>1 DEF Covered
    <3>2. CASE origin = 0
      <4>1. origin' = upto /\ since = 0
        BY <2>1, <3>2 DEF TraceInv
      <4> QED
        BY <1>1, <2>3, <4>1
    <3>3. CASE origin # 0
      <4>1. ~skipped
        BY <2>1, <3>1
      <4>2. origin+1..since \subseteq trace \cup timers
        BY <3>3, <4>1 DEF TraceInv, Covered
      <4> QED
        BY <1>1, <2>1, <3>3, <4>2
    <3> QED
      BY <3>2, <3>3
  <2>6. ASSUME ~skipped' PROVE origin'+1..upto \subseteq trace' \cup timers'
    <3>1. CASE origin = 0
      BY <1>1, <2>1, <3>1
    <3>2. CASE origin # 0
      <4>1. Tracked(upto) /\ ~skipped
        BY <2>1, <2>6, <3>2
      <4>2. new = since+1..upto
        BY <2>3, <4>1 DEF Newer
      <4>3. origin+1..since \subseteq trace \cup timers
        BY <3>2, <4>1 DEF TraceInv, Covered
      <4> QED
        BY <1>1, <2>1, <3>2, <4>2, <4>3
    <3> QED
      BY <3>1, <3>2
  <2>7. Covered(map.last)'
    BY <2>2, <2>6 DEF Covered
  <2> QED
    BY <1>1, <1>2, <2>2, <2>4, <2>5, <2>7 DEF TraceInv, Typed
<1> QED
  BY <1>3, <1>4

LEMMA TraceStep == TraceInv /\ [TraceNext]_traceVars => TraceInv'
<1> SUFFICES ASSUME TraceInv, [TraceNext]_traceVars PROVE TraceInv'
  OBVIOUS
<1>0. Typed
  BY DEF TraceInv
<1>1. ASSUME NEW seen, "last" \in DOMAIN seen, seen.last = map.last, Shows(seen)
      PROVE  TraceInv'
  BY <1>0, <1>1, RenderMoves, ShowsKeeps DEF Shows, Typed
<1>2. CASE ToggleTraffic
  BY <1>0, <1>1, <1>2 DEF ToggleTraffic, Typed
<1>3. CASE ToggleTestMode
  BY <1>0, <1>1, <1>3 DEF ToggleTestMode, Typed
<1>4. ASSUME NEW nodes, SetNodes(nodes) PROVE TraceInv'
  <2> DEFINE seen == [map EXCEPT !.nodes = nodes]
  <2>1. "last" \in DOMAIN seen /\ seen.last = map.last
    BY <1>0 DEF Typed
  <2>2. /\ map' = seen /\ since' = seen.last
        /\ polls' \in [Polls -> [step : {"free", "asked", "answered"}, upto : Nat]]
        /\ UNCHANGED <<paid, timers, trace, origin, skipped>>
    BY <1>4, FirstPollTyped DEF SetNodes, Restart
  <2> QED
    BY <2>1, <2>2, ShowsKeeps
<1>5. CASE ResetState
  <2> DEFINE seen == [map EXCEPT !.nodes = "initial", !.last = 0]
  <2>1. "last" \in DOMAIN seen /\ seen.last = 0
    BY <1>0 DEF Typed
  <2>2. /\ Render(seen)
        /\ origin' = 0 /\ paid' = paid
    BY <1>5 DEF ResetState
  <2>3. /\ map' = seen /\ since' = 0
        /\ polls' \in [Polls -> [step : {"free", "asked", "answered"}, upto : Nat]]
    BY <2>1, <2>2, RenderMoves
  <2> QED
    BY <1>0, <2>1, <2>2, <2>3 DEF TraceInv, Typed, Covered
<1>6. ASSUME NEW p \in Polls, PollAgain(p) \/ ServePoll(p) \/ PollFails(p)
      PROVE  TraceInv'
  <2>1. polls' \in [Polls -> [step : {"free", "asked", "answered"}, upto : Nat]]
    BY <1>0, <1>6 DEF PollAgain, ServePoll, PollFails, Free, Typed
  <2>2. UNCHANGED <<paid, map, since, timers, trace, origin, skipped>>
    BY <1>6 DEF PollAgain, ServePoll, PollFails
  <2> QED
    BY <2>1, <2>2 DEF TraceInv, Typed, Covered
<1>7. ASSUME NEW p \in Polls, PullTransactions(p) PROVE TraceInv'
  BY <1>7, PulledIsCovered
<1>8. CASE Rerender
  <2>1. /\ map' = map /\ since' = map.last
        /\ polls' \in [Polls -> [step : {"free", "asked", "answered"}, upto : Nat]]
    BY <1>0, <1>8, RenderMoves DEF Rerender, Typed
  <2>2. UNCHANGED <<paid, timers, trace, origin, skipped>>
    BY <1>8 DEF Rerender
  <2> QED
    BY <1>0, <2>1, <2>2, ShowsKeeps DEF Typed
<1>9. ASSUME NEW t \in timers, Spawn(t) PROVE TraceInv'
  BY <1>9 DEF Spawn, TraceInv, Typed, Covered
<1>10. CASE PaymentArrives
  BY <1>10 DEF PaymentArrives, TraceInv, Typed, Covered
<1>11. CASE UNCHANGED traceVars
  BY <1>11 DEF traceVars, TraceInv, Typed, Covered
<1> QED
  BY <1>2, <1>3, <1>4, <1>5, <1>6, <1>7, <1>8, <1>9, <1>10, <1>11
     DEF TraceNext, SimulateFailure, OverrideStatus

\* The trace is covered up to the last id of the page and up to that of the
\* running effect, in every reachable state.
THEOREM TraceInvariant == TraceSpec => []TraceInv
<1> QED
  BY InitTraceInv, TraceStep, PTL DEF TraceSpec

\* The trace of the routing page has no gaps (routing/page.tsx:78-100),
\* however many payments come between two polls, as long as no answer was too
\* short to hold the last id.
THEOREM TraceIsComplete == TraceSpec => []TraceHasNoGaps
<1>1. TraceInv => TraceHasNoGaps
  BY DEF TraceInv, Covered, TraceHasNoGaps
<1> QED
  BY <1>1, TraceInvariant, PTL

---------------------------------------------------------------------------
(* The assistant, for any number of questions and confirmations. *)

Result == {"none", "pending", "success", "error"}
Used(b) == press[b].step # "unused"

CopilotTypeOK ==
    /\ messages \in Seq(Result)
    /\ executing \in Nat
    /\ press \in [Presses -> [card : Nat, step : InExecution \cup {"unused", "over"}]]

\* A confirmation is of a card that was shown; once it is over the card is
\* not pending, and no card becomes so again.
OverIsShown ==
    \A b \in Presses :
        /\ Used(b) => press[b].card \in 1..Len(messages)
        /\ press[b].step = "over" => messages[press[b].card] # "pending"

\* A card in execution is the one whose button is disabled, or the index has
\* moved on.
ExecutedIsNamed ==
    \A b \in Presses :
        press[b].step \in InExecution => press[b].card \in crossed \cup {executing}

CopilotInv ==
    /\ CopilotTypeOK
    /\ OverIsShown
    /\ ExecutedIsNamed
    /\ TwiceNeedsAnother

LEMMA InitCopilotInv == CopilotInit => CopilotInv
<1> SUFFICES ASSUME CopilotInit PROVE CopilotInv
  OBVIOUS
<1>1. messages \in Seq(Result) /\ executing \in Nat
  BY DEF CopilotInit, Result
<1>2. /\ press \in [Presses -> [card : Nat, step : InExecution \cup {"unused", "over"}]]
      /\ \A b \in Presses : press[b].step = "unused"
  BY DEF CopilotInit
<1> QED
  BY <1>1, <1>2
     DEF CopilotInv, CopilotTypeOK, OverIsShown, ExecutedIsNamed, TwiceNeedsAnother, Used,
         InExecution

\* New messages and cancelled cards leave what was confirmed as it was.
LEMMA MessagesGrow ==
    ASSUME CopilotInv, messages' \in Seq(Result), Len(messages) <= Len(messages'),
           \A i \in 1..Len(messages) : messages'[i] = messages[i] \/ messages'[i] # "pending",
           UNCHANGED <<executing, press, crossed>>
    PROVE  CopilotInv'
<1>1. CopilotTypeOK' /\ ExecutedIsNamed' /\ TwiceNeedsAnother'
  BY DEF CopilotInv, CopilotTypeOK, ExecutedIsNamed, TwiceNeedsAnother
<1>2. Len(messages) \in Nat /\ Len(messages') \in Nat
  BY DEF CopilotInv, CopilotTypeOK
<1>3. OverIsShown'
  BY <1>2 DEF CopilotInv, OverIsShown, Used
<1> QED
  BY <1>1, <1>3 DEF CopilotInv

\* Only a card that is pending and not named by the index is confirmed: one
\* confirmed before is in execution still, and the index had moved on.
LEMMA ConfirmedKeeps ==
    ASSUME CopilotInv, NEW b \in Presses, NEW i \in 1..Len(messages),
           HandleExecuteAction(b, i)
    PROVE  CopilotInv'
<1> USE DEF InExecution
<1>1. /\ i \in Nat /\ messages[i] = "pending" /\ i # executing
      /\ press[b].step = "unused"
      /\ executing' = i /\ messages' = messages
      /\ press' = [press EXCEPT ![b] = [card |-> i, step |-> "sent"]]
      /\ crossed' = crossed \cup (Executed \ {i})
  BY DEF HandleExecuteAction, Confirmable, Cards
<1>2. CopilotTypeOK'
  BY <1>1 DEF CopilotInv, CopilotTypeOK
<1>3. press'[b] = [card |-> i, step |-> "sent"]
  BY <1>1 DEF CopilotInv, CopilotTypeOK
<1>4. \A c \in Presses : c # b => press'[c] = press[c]
  BY <1>1 DEF CopilotInv, CopilotTypeOK
<1>5. OverIsShown'
  BY <1>1, <1>3, <1>4 DEF CopilotInv, OverIsShown, Used
<1>6. ExecutedIsNamed'
  BY <1>1, <1>3, <1>4 DEF CopilotInv, ExecutedIsNamed, Executed
<1>7. ASSUME NEW c \in Presses, c # b, press[c].step # "unused", press[c].card = i
      PROVE  i \in crossed
  <2>1. press[c].step # "over"
    BY <1>1, <1>7 DEF CopilotInv, OverIsShown
  <2>2. press[c].step \in InExecution
    BY <1>7, <2>1 DEF CopilotInv, CopilotTypeOK
  <2> QED
    BY <1>1, <1>7, <2>2 DEF CopilotInv, ExecutedIsNamed
<1>8. TwiceNeedsAnother'
  BY <1>1, <1>3, <1>4, <1>7 DEF CopilotInv, TwiceNeedsAnother
<1> QED
  BY <1>2, <1>5, <1>6, <1>8 DEF CopilotInv

\* A card told about is not pending; others in execution are noted, and those
\* that share the card were noted before.
LEMMA ToldKeeps ==
    ASSUME CopilotInv, NEW b \in Presses, NEW result \in {"success", "error"},
           press[b].step \in InExecution, Tell(b, result)
    PROVE  CopilotInv'
<1> USE DEF InExecution
<1> DEFINE card == press[b].card
           told == [messages EXCEPT ![card] = result]
<1>1. /\ card \in 1..Len(messages) /\ messages \in Seq(Result)
      /\ result \in Result /\ "none" \in Result
  BY DEF CopilotInv, CopilotTypeOK, OverIsShown, Used, Result
<1>2. /\ told \in Seq(Result) /\ Len(told) = Len(messages)
      /\ \A j \in 1..Len(messages) : told[j] = IF j = card THEN result ELSE messages[j]
  BY <1>1, ExceptSeq
<1>3. messages' = Append(told, "none")
  BY DEF Tell
<1>4. /\ messages' \in Seq(Result) /\ Len(messages') = Len(messages) + 1
      /\ \A j \in 1..Len(messages) : messages'[j] = told[j]
  BY <1>1, <1>2, <1>3, AppendProperties
<1>5. /\ executing' = 0
      /\ press' = [press EXCEPT ![b].step = "over"]
      /\ crossed' = crossed \cup (Executed \ {card})
  BY DEF Tell
<1>6. /\ press'[b].step = "over" /\ press'[b].card = card
      /\ \A c \in Presses : c # b => press'[c] = press[c]
  BY <1>5 DEF CopilotInv, CopilotTypeOK
<1>7. CopilotTypeOK'
  BY <1>4, <1>5 DEF CopilotInv, CopilotTypeOK
<1>8. OverIsShown'
  <2>1. Len(messages) \in Nat
    BY <1>1
  <2>2. ASSUME NEW c \in Presses, c # b, press[c].step = "over"
        PROVE  messages'[press[c].card] # "pending"
    <3>1. press[c].card \in 1..Len(messages) /\ messages[press[c].card] # "pending"
      BY <2>2 DEF CopilotInv, OverIsShown, Used
    <3> QED
      BY <1>2, <1>4, <3>1
  <2>3. messages'[card] # "pending"
    BY <1>1, <1>2, <1>4
  <2> QED
    BY <1>1, <1>4, <1>6, <2>1, <2>2, <2>3 DEF CopilotInv, OverIsShown, Used
<1>9. ExecutedIsNamed'
  <2> SUFFICES ASSUME NEW c \in Presses, press'[c].step \in InExecution
               PROVE  press'[c].card \in crossed'
    BY DEF ExecutedIsNamed
  <2>1. c # b /\ press'[c] = press[c]
    BY <1>6
  <2>2. CASE press[c].card = card
    BY <1>5, <2>1, <2>2 DEF CopilotInv, TwiceNeedsAnother
  <2>3. CASE press[c].card # card
    BY <1>5, <2>1, <2>3 DEF Executed
  <2> QED
    BY <2>2, <2>3
<1>10. TwiceNeedsAnother'
  BY <1>5, <1>6 DEF CopilotInv, TwiceNeedsAnother
<1> QED
  BY <1>7, <1>8, <1>9, <1>10 DEF CopilotInv

\* What the back end decides moves no card.
LEMMA ServedKeeps ==
    ASSUME CopilotInv, NEW b \in Presses, NEW outcome \in {"done", "refused"},
           ServeAction(b, outcome)
    PROVE  CopilotInv'
<1> USE DEF InExecution
<1>1. /\ press' = [press EXCEPT ![b].step = outcome] /\ press[b].step = "sent"
      /\ UNCHANGED <<messages, executing, crossed>>
  BY DEF ServeAction
<1>2. \A c \in Presses :
         /\ press'[c].card = press[c].card
         /\ press'[c].step \in InExecution <=> press[c].step \in InExecution
         /\ press'[c].step = "unused" <=> press[c].step = "unused"
         /\ press'[c].step = "over" <=> press[c].step = "over"
  BY <1>1 DEF CopilotInv, CopilotTypeOK
<1>3. CopilotTypeOK'
  BY <1>1 DEF CopilotInv, CopilotTypeOK
<1>4. OverIsShown' /\ ExecutedIsNamed' /\ TwiceNeedsAnother'
  BY <1>1, <1>2 DEF CopilotInv, OverIsShown, ExecutedIsNamed, TwiceNeedsAnother, Used
<1> QED
  BY <1>3, <1>4 DEF CopilotInv

LEMMA CopilotStep == CopilotInv /\ [CopilotNext]_copilotVars => CopilotInv'
<1> SUFFICES ASSUME CopilotInv, [CopilotNext]_copilotVars PROVE CopilotInv'
  OBVIOUS
<1>1. messages \in Seq(Result) /\ Len(messages) \in Nat
  BY DEF CopilotInv, CopilotTypeOK
<1>2. ASSUME NEW text \in Result, messages' = Append(messages, text),
             UNCHANGED <<executing, press, crossed>>
      PROVE  CopilotInv'
  <2>1. /\ messages' \in Seq(Result) /\ Len(messages') = Len(messages) + 1
        /\ \A i \in 1..Len(messages) : messages'[i] = messages[i]
    BY <1>1, <1>2, AppendProperties
  <2> QED
    BY <1>1, <1>2, <2>1, MessagesGrow
<1>3. CASE HandleSubmit
  BY <1>2, <1>3 DEF HandleSubmit, Result
<1>4. ASSUME NEW action \in {"none", "pending"}, QuestionAnswered(action)
      PROVE  CopilotInv'
  BY <1>2, <1>4 DEF QuestionAnswered, Result
<1>5. ASSUME NEW i \in 1..Len(messages), Cancel(i)
      PROVE  CopilotInv'
  <2>1. /\ messages' = [messages EXCEPT ![i] = "error"] /\ "error" \in Result
        /\ UNCHANGED <<executing, press, crossed>>
    BY <1>5 DEF Cancel, Result
  <2>2. /\ messages' \in Seq(Result) /\ Len(messages') = Len(messages)
        /\ \A j \in 1..Len(messages) : messages'[j] = IF j = i THEN "error" ELSE messages[j]
    BY <1>1, <2>1, ExceptSeq
  <2> QED
    BY <1>1, <2>1, <2>2, MessagesGrow
<1>6. ASSUME NEW b \in Presses, NEW i \in 1..Len(messages), HandleExecuteAction(b, i)
      PROVE  CopilotInv'
  BY <1>6, ConfirmedKeeps
<1>7. ASSUME NEW b \in Presses, NEW outcome \in {"done", "refused"}, ServeAction(b, outcome)
      PROVE  CopilotInv'
  BY <1>7, ServedKeeps
<1>8. ASSUME NEW b \in Presses, ActionAnswered(b) \/ ActionLost(b)
      PROVE  CopilotInv'
  BY <1>8, ToldKeeps DEF ActionAnswered, ActionLost, InExecution
<1>9. CASE UNCHANGED copilotVars
  BY <1>1, <1>9, MessagesGrow DEF copilotVars
<1> QED
  BY <1>3, <1>4, <1>5, <1>6, <1>7, <1>8, <1>9 DEF CopilotNext

\* The one index, the cards and the confirmations agree in every reachable
\* state as CopilotInv says.
THEOREM CopilotInvariant == CopilotSpec => []CopilotInv
<1> QED
  BY InitCopilotInv, CopilotStep, PTL DEF CopilotSpec

\* A card is executed twice only after another card was confirmed or answered
\* while it was being executed (ai-copilot.tsx:135, 163), however many
\* confirmations there are.
THEOREM TwiceIsCrossed == CopilotSpec => []TwiceNeedsAnother
<1>1. CopilotInv => TwiceNeedsAnother
  BY DEF CopilotInv
<1> QED
  BY <1>1, CopilotInvariant, PTL

---------------------------------------------------------------------------
(* The merchant's row and the pages that write it, for any methods, any number *)
(* of requests and any bounds.                                                 *)

RowStored == [name : {"own", "default"}, methods : SUBSET Methods, retry : BOOLEAN,
              theme : {"old", "new"}, rest : BOOLEAN, on : BOOLEAN, secret : Nat]
FormShape == [page : {"other", "settings", "branding", "methods", "account"},
              methods : SUBSET Methods, retry : BOOLEAN, name : {"own", "default", None},
              loading : BOOLEAN, busy : BOOLEAN, scan : Nat, on : BOOLEAN]
Argument == {None} \cup Nat \cup [name : {"own", "default"}]
                \cup [name : {"default", None}, methods : SUBSET Methods, retry : BOOLEAN,
                      theme : {"new", None}]
Save == [op : {"get", "profile", "settings", "generate", "verify", "disable"},
         arg : Argument, mine : BOOLEAN, step : {"sent", "read", "ok", "failed"},
         copy : RowStored \cup {None}, n : Nat,
         undo : [methods : SUBSET Methods, retry : BOOLEAN]]

\* A request has the argument of its kind, and the row once it was read.
Fits(s) ==
    /\ s \in Save
    /\ s.op = "profile" => s.arg \in [name : {"own", "default"}]
    /\ s.op = "settings" => s.arg \in [name : {"default", None}, methods : SUBSET Methods,
                                       retry : BOOLEAN, theme : {"new", None}]
    /\ s.step = "read" \/ (s.op = "get" /\ s.step = "ok") => s.copy \in RowStored
    /\ s.op = "get" => s.step # "read"

ProfileTyped ==
    /\ merchant \in RowStored
    /\ form \in FormShape
    /\ \A s \in saves : Fits(s)
    /\ used \in [edits : Nat, opens : Nat, losses : Nat]
    /\ past \in [smooth : BOOLEAN, phone : SUBSET Nat, restarted : BOOLEAN]

\* A row that asks for codes asks for those of a secret that was scanned.
Scanned(row) == row.on /\ ~past.restarted => row.secret \in past.phone

\* So does every row a handler holds, and a code that is being confirmed was
\* scanned; its handler goes on only with the row of that very secret.
SecretsAreScanned ==
    /\ Scanned(merchant)
    /\ \A s \in saves :
          /\ s.step = "read" => Scanned(s.copy)
          /\ s.op = "verify" =>
                s.arg \in past.phone /\ (s.step = "read" => s.copy.secret = s.arg)

Same(row, shown) == row.methods = shown.methods /\ row.retry = shown.retry
Unwritten == {s \in saves : s.step \in {"sent", "read"}}

\* The page of the payment methods: its load reads the row nobody writes, and
\* of its saves the last one asked for is what it shows, once it is written.
LoadIsFresh ==
    \E g : /\ saves = {g} /\ g.op = "get" /\ g.step \in {"sent", "ok"}
           /\ g.step = "ok" => Same(g.copy, merchant)
LastIsShown ==
    /\ \A s \in saves : /\ s.op = "settings" /\ s.mine /\ s.step # "failed"
                        /\ s.n < used.edits
    /\ \A s, q \in Unwritten : s.n = q.n => s = q
    /\ Unwritten = {} => Same(merchant, form)
    /\ \A s \in Unwritten : (\A q \in Unwritten : q.n <= s.n) => Same(s.arg, form)
MethodsInv ==
    form.page = "methods" /\ past.smooth =>
        IF form.loading THEN LoadIsFresh ELSE LastIsShown

ProfileInv == ProfileTyped /\ SecretsAreScanned /\ MethodsInv

LEMMA ProfileInitInv == ProfileInit => ProfileInv
<1> SUFFICES ASSUME ProfileInit
             PROVE  ProfileInv
  OBVIOUS
<1>1. /\ merchant \in RowStored /\ saves = {}
      /\ used \in [edits : Nat, opens : Nat, losses : Nat]
      /\ past = [smooth |-> TRUE, phone |-> IF merchant.on THEN {1} ELSE {},
                 restarted |-> FALSE]
      /\ merchant.on => merchant.secret = 1
  BY DEF ProfileInit, RowStored
<1>2. form \in FormShape /\ form.page # "methods"
  <2>1. BlankForm("other") \in FormShape /\ BlankForm("other").page = "other"
    BY DEF BlankForm, FormShape
  <2>2. BlankForm("settings") \in FormShape /\ BlankForm("settings").page = "settings"
    BY DEF BlankForm, FormShape
  <2>3. JustConfirmed \in FormShape /\ JustConfirmed.page = "settings"
    BY <2>2 DEF JustConfirmed, FormShape
  <2> QED
    BY <2>1, <2>3 DEF ProfileInit
<1>3. past \in [smooth : BOOLEAN, phone : SUBSET Nat, restarted : BOOLEAN]
  BY <1>1
<1>4. SecretsAreScanned
  BY <1>1 DEF SecretsAreScanned, Scanned
<1> QED
  BY <1>1, <1>2, <1>3, <1>4 DEF ProfileInv, ProfileTyped, MethodsInv

\* What Put adds.
LEMMA RequestFits ==
    ASSUME ProfileTyped, NEW op \in {"get", "profile", "settings", "generate", "verify", "disable"},
           NEW arg \in Argument,
           op = "profile" => arg \in [name : {"own", "default"}],
           op = "settings" => arg \in [name : {"default", None}, methods : SUBSET Methods,
                                       retry : BOOLEAN, theme : {"new", None}]
    PROVE  /\ Fits(Request(op, arg)) /\ Request(op, arg).op = op /\ Request(op, arg).arg = arg
           /\ Request(op, arg).step = "sent" /\ Request(op, arg).mine
           /\ Request(op, arg).n = used.edits
BY DEF ProfileTyped, Fits, Save, Request, FormShape

LEMMA UseCounts ==
    ASSUME ProfileTyped, NEW what \in {"edits", "opens", "losses"}, NEW limit,
           Use(what, limit)
    PROVE  /\ used' \in [edits : Nat, opens : Nat, losses : Nat]
           /\ what = "edits" => used'.edits = used.edits + 1
           /\ what # "edits" => used'.edits = used.edits
BY DEF ProfileTyped, Use

\* Asking anything but to save the methods, from another page than theirs.
LEMMA AskedElsewhere ==
    ASSUME ProfileInv, NEW op \in {"profile", "settings", "generate", "verify", "disable"},
           NEW arg \in Argument,
           op = "profile" => arg \in [name : {"own", "default"}],
           op = "settings" => arg \in [name : {"default", None}, methods : SUBSET Methods,
                                       retry : BOOLEAN, theme : {"new", None}],
           Put(op, arg),
           form' \in FormShape, form'.page # "methods",
           past' \in [smooth : BOOLEAN, phone : SUBSET Nat, restarted : BOOLEAN],
           past'.restarted = past.restarted, past.phone \subseteq past'.phone,
           op = "verify" => arg \in past'.phone
    PROVE  ProfileInv'
<1>1. ProfileTyped /\ SecretsAreScanned
  BY DEF ProfileInv
<1>2. /\ merchant' = merchant /\ saves' = saves \cup {Request(op, arg)}
      /\ used' \in [edits : Nat, opens : Nat, losses : Nat]
  BY <1>1, UseCounts DEF Put
<1>3. PICK s : s = Request(op, arg)
  OBVIOUS
<1>4. Fits(s) /\ s.op = op /\ s.arg = arg /\ s.step = "sent"
  BY <1>1, <1>3, RequestFits
<1>5. ProfileTyped'
  BY <1>1, <1>2, <1>3, <1>4 DEF ProfileTyped, Fits
<1>6. SecretsAreScanned'
  BY <1>1, <1>2, <1>3, <1>4 DEF SecretsAreScanned, Scanned
<1> QED
  BY <1>5, <1>6 DEF ProfileInv, MethodsInv

\* A step that moves nothing but the form, off the page of the methods.
LEMMA FormMoves ==
    ASSUME ProfileInv, form' \in FormShape, form'.page # "methods",
           UNCHANGED <<merchant, saves, used, past>>
    PROVE  ProfileInv'
BY DEF ProfileInv, ProfileTyped, Fits, SecretsAreScanned, Scanned, MethodsInv

\* The pages other than that of the methods.
LEMMA EditedElsewhere ==
    ASSUME ProfileInv,
           \/ TypeProfile \/ HandleSaveProfile \/ Start2FA \/ VerifyAndEnable
           \/ CancelSetup \/ Disable2FA \/ HandleSaveTheme \/ HandleSaveAccount
    PROVE  ProfileInv'
<1>1. /\ form \in FormShape
      /\ past \in [smooth : BOOLEAN, phone : SUBSET Nat, restarted : BOOLEAN]
  BY DEF ProfileInv, ProfileTyped
<1>2. CASE TypeProfile \/ CancelSetup
  <2>1. form' \in FormShape /\ form'.page # "methods"
    BY <1>1, <1>2 DEF TypeProfile, CancelSetup, FormShape
  <2> QED
    BY <1>2, <2>1, FormMoves DEF TypeProfile, CancelSetup
<1>3. CASE HandleSaveProfile \/ HandleSaveAccount
  <2>1. form' \in FormShape /\ form'.page # "methods"
    BY <1>1, <1>3 DEF HandleSaveProfile, HandleSaveAccount, FormShape
  <2>2. [name |-> form.name] \in [name : {"own", "default"}]
    BY <1>1, <1>3 DEF HandleSaveProfile, HandleSaveAccount, FormShape
  <2>3. [name |-> form.name] \in Argument
    BY <2>2 DEF Argument
  <2> QED
    BY <1>1, <1>3, <2>1, <2>2, <2>3, AskedElsewhere
    DEF HandleSaveProfile, HandleSaveAccount
<1>4. CASE Start2FA \/ Disable2FA
  <2>1. form' \in FormShape /\ form'.page # "methods" /\ None \in Argument
    BY <1>1, <1>4 DEF Start2FA, Disable2FA, Argument
  <2> QED
    BY <1>1, <1>4, <2>1, AskedElsewhere DEF Start2FA, Disable2FA
<1>5. CASE VerifyAndEnable
  <2>1. form' \in FormShape /\ form'.page # "methods"
    BY <1>1, <1>5 DEF VerifyAndEnable
  <2>2. form.scan \in Nat /\ form.scan \in Argument
    BY <1>1 DEF FormShape, Argument
  <2>3. /\ past' \in [smooth : BOOLEAN, phone : SUBSET Nat, restarted : BOOLEAN]
        /\ past'.restarted = past.restarted /\ past'.phone = past.phone \cup {form.scan}
    BY <1>1, <1>5, <2>2 DEF VerifyAndEnable
  <2> QED
    BY <1>5, <2>1, <2>2, <2>3, AskedElsewhere DEF VerifyAndEnable
<1>6. CASE HandleSaveTheme
  <2>1. form' \in FormShape /\ form'.page # "methods"
    BY <1>1, <1>6 DEF HandleSaveTheme, FormShape
  <2> DEFINE arg == [name |-> "default", methods |-> {}, retry |-> FALSE, theme |-> "new"]
  <2>2. arg \in [name : {"default", None}, methods : SUBSET Methods,
                 retry : BOOLEAN, theme : {"new", None}]
    OBVIOUS
  <2>3. arg \in Argument
    BY <2>2 DEF Argument
  <2> QED
    BY <1>1, <1>6, <2>1, <2>2, <2>3, AskedElsewhere DEF HandleSaveTheme
<1> QED
  BY <1>2, <1>3, <1>4, <1>5, <1>6

\* A page is opened: what was in flight goes on without it.
LEMMA FormOpened ==
    ASSUME ProfileInv, NEW page \in {"settings", "branding", "methods", "account"},
           OpenForm(page)
    PROVE  ProfileInv'
<1> DEFINE left == {[s EXCEPT !.mine = FALSE] : s \in {q \in saves : q.op # "get"}}
<1>1. ProfileTyped /\ SecretsAreScanned
  BY DEF ProfileInv
<1>2. PICK g : g = Request("get", None)
  OBVIOUS
<1>3. Fits(g) /\ g.op = "get" /\ g.step = "sent"
  BY <1>1, <1>2, RequestFits DEF Argument
<1>4. merchant' = merchant /\ saves' = left \cup {g} /\ form' = BlankForm(page)
  BY <1>2 DEF OpenForm
<1>5. /\ past' \in [smooth : BOOLEAN, phone : SUBSET Nat, restarted : BOOLEAN]
      /\ past'.phone = past.phone /\ past'.restarted = past.restarted
      /\ past'.smooth => left = {}
      /\ used' \in [edits : Nat, opens : Nat, losses : Nat]
  BY <1>1, UseCounts DEF OpenForm, ProfileTyped
<1>6. form' \in FormShape /\ form'.loading
  BY <1>4 DEF BlankForm, FormShape
<1>7. \A t \in left : \E s \in saves :
          /\ Fits(t) /\ t.op = s.op /\ t.arg = s.arg /\ t.step = s.step /\ t.copy = s.copy
  <2> SUFFICES ASSUME NEW t \in left
               PROVE  \E s \in saves :
                          /\ Fits(t) /\ t.op = s.op /\ t.arg = s.arg /\ t.step = s.step
                          /\ t.copy = s.copy
    OBVIOUS
  <2>1. PICK s \in saves : t = [s EXCEPT !.mine = FALSE]
    OBVIOUS
  <2>2. Fits(s)
    BY <1>1 DEF ProfileTyped
  <2>3. Fits(t) /\ t.op = s.op /\ t.arg = s.arg /\ t.step = s.step /\ t.copy = s.copy
    BY <2>1, <2>2 DEF Fits, Save
  <2> QED
    BY <2>3
<1> HIDE DEF left
<1>8. ProfileTyped'
  BY <1>1, <1>3, <1>4, <1>5, <1>6, <1>7 DEF ProfileTyped, Fits
<1>9. SecretsAreScanned'
  BY <1>1, <1>3, <1>4, <1>5, <1>7 DEF SecretsAreScanned, Scanned
<1>10. MethodsInv'
  BY <1>3, <1>4, <1>5, <1>6 DEF MethodsInv, LoadIsFresh
<1> QED
  BY <1>8, <1>9, <1>10 DEF ProfileInv

\* A switch of the page of the methods: the last save asked for.
LEMMA ShownIsSaved ==
    ASSUME ProfileInv, NEW methods \in SUBSET Methods, NEW retry \in BOOLEAN,
           SaveShown(methods, retry)
    PROVE  ProfileInv'
<1>1. ProfileTyped /\ SecretsAreScanned /\ MethodsInv
  BY DEF ProfileInv
<1>2. PICK arg : arg = [name |-> None, methods |-> methods, retry |-> retry, theme |-> None]
  OBVIOUS
<1>3. arg \in [name : {"default", None}, methods : SUBSET Methods, retry : BOOLEAN,
               theme : {"new", None}]
  BY <1>2
<1>4. arg \in Argument
  BY <1>3 DEF Argument
<1>5. PICK s : s = Request("settings", arg)
  OBVIOUS
<1>6. /\ Fits(s) /\ s.op = "settings" /\ s.arg = arg /\ s.step = "sent" /\ s.mine
      /\ s.n = used.edits
  BY <1>1, <1>3, <1>4, <1>5, RequestFits
<1>7. /\ merchant' = merchant /\ past' = past /\ saves' = saves \cup {s}
      /\ used' \in [edits : Nat, opens : Nat, losses : Nat]
      /\ used'.edits = used.edits + 1
  BY <1>1, <1>2, <1>5, UseCounts DEF SaveShown, Put
<1>8. /\ form' \in FormShape /\ form'.page = "methods" /\ ~form'.loading
      /\ form.page = "methods" /\ ~form.loading /\ Same(arg, form')
  BY <1>1, <1>2 DEF SaveShown, ProfileTyped, FormShape, Same
<1>9. ProfileTyped'
  BY <1>1, <1>6, <1>7, <1>8 DEF ProfileTyped, Fits
<1>10. SecretsAreScanned'
  BY <1>1, <1>6, <1>7 DEF SecretsAreScanned, Scanned
<1>11. ASSUME past.smooth
       PROVE  LastIsShown'
  <2>1. LastIsShown
    BY <1>1, <1>8, <1>11 DEF MethodsInv
  <2>2. /\ used.edits \in Nat /\ s \in Unwritten' /\ Unwritten' = Unwritten \cup {s}
        /\ \A q \in saves : q.n \in Nat /\ q.n < used.edits
        /\ Unwritten \subseteq saves
    BY <1>1, <1>6, <1>7, <2>1 DEF Unwritten, LastIsShown, ProfileTyped, Fits, Save
  <2>3. \A q \in saves' : /\ q.op = "settings" /\ q.mine /\ q.step # "failed"
                          /\ q.n < used'.edits
    BY <1>6, <1>7, <2>1, <2>2 DEF LastIsShown
  <2>4. \A q, t \in Unwritten' : q.n = t.n => q = t
    BY <1>6, <2>1, <2>2 DEF LastIsShown
  <2>5. \A q \in Unwritten' : (\A t \in Unwritten' : t.n <= q.n) => q = s
    BY <1>6, <2>2
  <2> QED
    BY <1>6, <1>8, <2>2, <2>3, <2>4, <2>5 DEF LastIsShown, Same
<1>12. MethodsInv'
  BY <1>7, <1>8, <1>11 DEF MethodsInv
<1> QED
  BY <1>9, <1>10, <1>12 DEF ProfileInv

\* A request that is replaced by a later state of itself, unwritten as before.
LEMMA OneSaveMoves ==
    ASSUME ProfileInv, NEW s \in saves, NEW t, Fits(t),
           merchant' = merchant, form' = form, saves' = (saves \ {s}) \cup {t},
           t.op = s.op, t.arg = s.arg, t.mine = s.mine, t.n = s.n,
           used' \in [edits : Nat, opens : Nat, losses : Nat], used'.edits = used.edits,
           past' \in [smooth : BOOLEAN, phone : SUBSET Nat, restarted : BOOLEAN],
           past'.phone = past.phone, past'.restarted = past.restarted,
           past'.smooth => /\ past.smooth /\ s.step = "sent" /\ t.step # "failed"
                           /\ t.step = IF s.op = "get" THEN "ok" ELSE "read"
                           /\ t.copy = merchant,
           t.step = "read" => Scanned(t.copy) /\ (t.op = "verify" => t.copy.secret = t.arg)
    PROVE  ProfileInv'
<1>1. ProfileTyped /\ SecretsAreScanned /\ MethodsInv
  BY DEF ProfileInv
<1>2. ProfileTyped'
  BY <1>1 DEF ProfileTyped, Fits
<1>3. SecretsAreScanned'
  BY <1>1 DEF SecretsAreScanned, Scanned
<1>4. ASSUME past'.smooth, LoadIsFresh
      PROVE  LoadIsFresh'
  BY <1>4 DEF LoadIsFresh, Same
<1>5. ASSUME past'.smooth, LastIsShown
      PROVE  LastIsShown'
  <2>1. s.op = "settings" /\ s.step = "sent" /\ t.step = "read"
    BY <1>5 DEF LastIsShown
  <2>2. s \in Unwritten /\ Unwritten' = (Unwritten \ {s}) \cup {t}
    BY <2>1 DEF Unwritten
  <2>3. \A q \in saves' : /\ q.op = "settings" /\ q.mine /\ q.step # "failed"
                          /\ q.n < used'.edits
    BY <1>5, <2>1 DEF LastIsShown
  <2>4. \A q, r \in Unwritten' : q.n = r.n => q = r
    BY <1>5, <2>2 DEF LastIsShown
  <2>5. ASSUME NEW q \in Unwritten', \A r \in Unwritten' : r.n <= q.n
        PROVE  Same(q.arg, form)
    <3>1. CASE q = t
      <4>1. \A r \in Unwritten : r.n <= s.n
        BY <1>1, <2>2, <2>5, <3>1 DEF ProfileTyped, Fits, Save
      <4> QED
        BY <1>5, <2>2, <3>1, <4>1 DEF LastIsShown
    <3>2. CASE q # t
      <4>1. \A r \in Unwritten : r.n <= q.n
        BY <2>2, <2>5
      <4> QED
        BY <1>5, <2>2, <2>5, <3>2, <4>1 DEF LastIsShown
    <3> QED
      BY <3>1, <3>2
  <2> QED
    BY <1>5, <2>2, <2>3, <2>4, <2>5 DEF LastIsShown, Same
<1>6. MethodsInv'
  BY <1>1, <1>4, <1>5 DEF MethodsInv
<1> QED
  BY <1>2, <1>3, <1>6 DEF ProfileInv

\* The handler reads the row, or the request or its answer is lost.
LEMMA RowIsRead ==
    ASSUME ProfileInv, NEW s \in saves, ReadRow(s) \/ SaveFails(s)
    PROVE  ProfileInv'
<1>1. ProfileTyped /\ SecretsAreScanned /\ Fits(s)
  BY DEF ProfileInv, ProfileTyped
<1>2. CASE ReadRow(s)
  <2> DEFINE after == CASE s.op = "get" -> "ok"
                       [] s.op = "verify" /\ merchant.secret # s.arg -> "failed"
                       [] OTHER -> "read"
  <2>1. /\ after \in {"ok", "failed", "read"}
        /\ after = "ok" => s.op = "get"
        /\ after = "failed" => s.op = "verify"
        /\ after = "read" => s.op # "get" /\ (s.op = "verify" => merchant.secret = s.arg)
    OBVIOUS
  <2> HIDE DEF after
  <2>2. PICK t : t = [s EXCEPT !.copy = merchant, !.step = after]
    OBVIOUS
  <2>3. /\ Fits(t) /\ t.op = s.op /\ t.arg = s.arg /\ t.mine = s.mine /\ t.n = s.n
        /\ t.step = after /\ t.copy = merchant
    BY <1>1, <2>1, <2>2 DEF ProfileTyped, Fits, Save
  <2>4. /\ saves' = (saves \ {s}) \cup {t} /\ s.step = "sent"
        /\ UNCHANGED <<merchant, form, used, past>>
    BY <1>2, <2>2 DEF ReadRow, after
  <2>5. past.smooth /\ form.page = "methods" => s.op # "verify"
    BY DEF ProfileInv, MethodsInv, LoadIsFresh, LastIsShown
  <2>6. Scanned(merchant)
    BY <1>1 DEF SecretsAreScanned
  <2>7. CASE ~(past.smooth /\ after = "failed")
    BY <1>1, <2>1, <2>3, <2>4, <2>6, <2>7, OneSaveMoves DEF ProfileTyped
  <2>8. CASE past.smooth /\ after = "failed"
    <3>1. form.page # "methods"
      BY <2>1, <2>5, <2>8
    <3>2. ProfileTyped'
      BY <1>1, <2>3, <2>4 DEF ProfileTyped, Fits
    <3>3. SecretsAreScanned'
      BY <1>1, <2>3, <2>4, <2>8 DEF SecretsAreScanned, Scanned
    <3> QED
      BY <2>4, <3>1, <3>2, <3>3 DEF ProfileInv, MethodsInv
  <2> QED
    BY <2>7, <2>8
<1>3. CASE SaveFails(s)
  <2>1. PICK t : t = [s EXCEPT !.step = "failed"]
    OBVIOUS
  <2>2. /\ Fits(t) /\ t.op = s.op /\ t.arg = s.arg /\ t.mine = s.mine /\ t.n = s.n
        /\ t.step = "failed"
    BY <1>1, <2>1 DEF Fits, Save
  <2>3. /\ saves' = (saves \ {s}) \cup {t} /\ UNCHANGED <<merchant, form>>
        /\ past' \in [smooth : BOOLEAN, phone : SUBSET Nat, restarted : BOOLEAN]
        /\ past'.phone = past.phone /\ past'.restarted = past.restarted /\ ~past'.smooth
    BY <1>1, <1>3, <2>1 DEF SaveFails, ProfileTyped
  <2>4. /\ used' \in [edits : Nat, opens : Nat, losses : Nat] /\ used'.edits = used.edits
    BY <1>1, <1>3, UseCounts DEF SaveFails
  <2> QED
    BY <2>2, <2>3, <2>4, OneSaveMoves
<1> QED
  BY <1>2, <1>3

\* What a handler writes back: the secrets of a row that asks for codes.
LEMMA WrittenIsScanned ==
    ASSUME ProfileInv, NEW s \in saves, WriteRow(s)
    PROVE  /\ merchant' \in RowStored
           /\ past' \in [smooth : BOOLEAN, phone : SUBSET Nat, restarted : BOOLEAN]
           /\ past'.phone = past.phone /\ (past.restarted => past'.restarted)
           /\ past'.smooth => /\ past.smooth
                              /\ \A q \in Unwritten : q.n >= s.n
           /\ Scanned(merchant)'
           /\ s.op = "settings" => Same(merchant', s.arg)
<1>1. /\ ProfileTyped /\ Fits(s) /\ s.copy \in RowStored /\ Scanned(s.copy)
      /\ s.op = "verify" => s.arg \in past.phone /\ s.copy.secret = s.arg
      /\ s.op # "get"
  BY DEF ProfileInv, ProfileTyped, SecretsAreScanned, WriteRow, Fits
<1>2. /\ past' \in [smooth : BOOLEAN, phone : SUBSET Nat, restarted : BOOLEAN]
      /\ past'.phone = past.phone
      /\ past'.restarted = (past.restarted \/ (s.op = "generate" /\ s.copy.on))
      /\ past'.smooth = (past.smooth /\ \A q \in saves : q.step \in {"sent", "read"} => q.n >= s.n)
  BY <1>1 DEF WriteRow, ProfileTyped, RowStored
<1>3. merchant' = Written(s)
  BY DEF WriteRow
<1>4. CASE s.op = "profile"
  <2>1. merchant' = [s.copy EXCEPT !.name = s.arg.name] /\ s.arg.name \in {"own", "default"}
    BY <1>1, <1>3, <1>4 DEF Written, UpdateProfile, Fits
  <2> QED
    BY <1>1, <1>2, <1>4, <2>1 DEF RowStored, Scanned, Unwritten
<1>5. CASE s.op = "settings"
  <2>1. /\ s.arg.name \in {"default", None} /\ s.arg.methods \in SUBSET Methods
        /\ s.arg.retry \in BOOLEAN /\ s.arg.theme \in {"new", None}
    BY <1>1, <1>5 DEF Fits
  <2>2. merchant' = [s.copy EXCEPT
            !.name = IF s.arg.name = None THEN @ ELSE s.arg.name,
            !.methods = s.arg.methods, !.retry = s.arg.retry, !.rest = FALSE,
            !.theme = IF s.arg.theme = None THEN @ ELSE s.arg.theme]
    BY <1>3, <1>5 DEF Written, UpdateProfile
  <2>3. /\ merchant' \in RowStored /\ merchant'.on = s.copy.on
        /\ merchant'.secret = s.copy.secret /\ Same(merchant', s.arg)
    BY <1>1, <2>1, <2>2 DEF RowStored, Same
  <2> QED
    BY <1>1, <1>2, <1>5, <2>3 DEF Scanned, Unwritten
<1>6. CASE s.op = "generate"
  <2>1. merchant' = [s.copy EXCEPT !.secret = s.n + 2] /\ s.n + 2 \in Nat
    BY <1>1, <1>3, <1>6 DEF Written, Fits, Save
  <2> QED
    BY <1>1, <1>2, <1>6, <2>1 DEF RowStored, Scanned, Unwritten
<1>7. CASE s.op = "verify"
  <2>1. merchant' = [s.copy EXCEPT !.on = TRUE]
    BY <1>3, <1>7 DEF Written
  <2> QED
    BY <1>1, <1>2, <1>7, <2>1 DEF RowStored, Scanned, Unwritten
<1>8. CASE s.op = "disable"
  <2>1. merchant' = [s.copy EXCEPT !.on = FALSE, !.secret = 0]
    BY <1>3, <1>8 DEF Written
  <2> QED
    BY <1>1, <1>2, <1>8, <2>1 DEF RowStored, Scanned, Unwritten
<1> QED
  BY <1>1, <1>4, <1>5, <1>6, <1>7, <1>8 DEF Fits, Save

LEMMA RowIsWritten ==
    ASSUME ProfileInv, NEW s \in saves, WriteRow(s)
    PROVE  ProfileInv'
<1>1. ProfileTyped /\ SecretsAreScanned /\ MethodsInv /\ Fits(s)
  BY DEF ProfileInv, ProfileTyped
<1>2. /\ merchant' \in RowStored
      /\ past' \in [smooth : BOOLEAN, phone : SUBSET Nat, restarted : BOOLEAN]
      /\ past'.phone = past.phone /\ (past.restarted => past'.restarted)
      /\ past'.smooth => past.smooth /\ \A q \in Unwritten : q.n >= s.n
      /\ Scanned(merchant)'
      /\ s.op = "settings" => Same(merchant', s.arg)
  BY WrittenIsScanned
<1>3. PICK t : t = [s EXCEPT !.step = "ok"]
  OBVIOUS
<1>4. /\ s.step = "read" /\ saves' = (saves \ {s}) \cup {t} /\ UNCHANGED <<form, used>>
      /\ s.op # "get"
  BY <1>1, <1>3 DEF WriteRow, Fits
<1>5. /\ Fits(t) /\ t.op = s.op /\ t.arg = s.arg /\ t.mine = s.mine /\ t.n = s.n
      /\ t.step = "ok"
  BY <1>1, <1>3, <1>4 DEF Fits, Save
<1>6. ProfileTyped'
  BY <1>1, <1>2, <1>4, <1>5 DEF ProfileTyped, Fits
<1>7. SecretsAreScanned'
  BY <1>1, <1>2, <1>4, <1>5 DEF SecretsAreScanned, Scanned
<1>8. ASSUME form.page = "methods", past'.smooth
      PROVE  ~form.loading /\ LastIsShown'
  <2>1. ~form.loading /\ LastIsShown
    BY <1>1, <1>2, <1>4, <1>8 DEF MethodsInv, LoadIsFresh
  <2>2. s \in Unwritten /\ Unwritten' = Unwritten \ {s} /\ s.op = "settings"
    BY <1>4, <1>5, <2>1 DEF Unwritten, LastIsShown
  <2>3. \A q \in saves' : /\ q.op = "settings" /\ q.mine /\ q.step # "failed"
                          /\ q.n < used'.edits
    BY <1>4, <1>5, <2>1 DEF LastIsShown
  <2>4. \A q, r \in Unwritten' : q.n = r.n => q = r
    BY <2>1, <2>2 DEF LastIsShown
  <2>5. ASSUME Unwritten' = {}
        PROVE  Same(merchant', form)
    <3>1. \A q \in Unwritten : q.n <= s.n
      BY <1>1, <2>2, <2>5 DEF Fits, Save
    <3>2. Same(s.arg, form)
      BY <2>1, <2>2, <3>1 DEF LastIsShown
    <3> QED
      BY <1>2, <2>2, <3>2 DEF Same
  <2>6. ASSUME NEW q \in Unwritten', \A r \in Unwritten' : r.n <= q.n
        PROVE  Same(q.arg, form)
    <3>1. \A r \in Unwritten : r.n <= q.n
      BY <1>1, <1>2, <1>8, <2>2, <2>6
    <3> QED
      BY <2>1, <2>2, <2>6, <3>1 DEF LastIsShown
  <2> QED
    BY <1>4, <2>1, <2>3, <2>4, <2>5, <2>6 DEF LastIsShown, Same
<1>9. MethodsInv'
  BY <1>4, <1>8 DEF MethodsInv
<1> QED
  BY <1>6, <1>7, <1>9 DEF ProfileInv

\* An answer arrives: the load shows the row, a save what became of it.
LEMMA RowIsAnswered ==
    ASSUME ProfileInv, NEW s \in saves, Loaded(s) \/ Saved(s)
    PROVE  ProfileInv'
<1>1. /\ ProfileTyped /\ SecretsAreScanned /\ MethodsInv /\ Fits(s)
      /\ form \in FormShape
  BY DEF ProfileInv, ProfileTyped
<1>2. saves' = saves \ {s} /\ UNCHANGED <<merchant, used, past>>
  BY DEF Loaded, Saved
<1>3. SecretsAreScanned'
  BY <1>1, <1>2 DEF SecretsAreScanned, Scanned
<1>4. CASE Loaded(s)
  <2>1. form' \in FormShape /\ form'.page = form.page /\ ~form'.loading
    <3>1. s.step = "ok" => /\ s.copy.name \in {"own", "default"}
                           /\ s.copy.methods \subseteq Methods /\ s.copy.retry \in BOOLEAN
      BY <1>1, <1>4 DEF Loaded, Fits, RowStored
    <3>2. PICK name, methods, retry :
            /\ name \in {"own", "default", None} /\ methods \subseteq Methods
            /\ retry \in BOOLEAN
            /\ form' = [form EXCEPT !.loading = FALSE, !.name = name, !.methods = methods,
                                    !.retry = retry]
      <4>1. PICK name : name = IF form.page = "account" /\ s.step = "ok"
                               THEN s.copy.name ELSE form.name
        OBVIOUS
      <4>2. PICK methods : methods = IF form.page = "methods" /\ s.step = "ok"
                                     THEN s.copy.methods ELSE form.methods
        OBVIOUS
      <4>3. PICK retry : retry = IF form.page = "methods" /\ s.step = "ok"
                                 THEN s.copy.retry ELSE form.retry
        OBVIOUS
      <4>4. form' = [form EXCEPT !.loading = FALSE, !.name = name, !.methods = methods,
                                 !.retry = retry]
        BY <1>4, <4>1, <4>2, <4>3 DEF Loaded
      <4>5. /\ name \in {"own", "default", None} /\ methods \subseteq Methods
            /\ retry \in BOOLEAN
        BY <1>1, <3>1, <4>1, <4>2, <4>3 DEF FormShape
      <4> QED
        BY <4>4, <4>5
    <3> QED
      BY <1>1, <3>2 DEF FormShape
  <2>2. ASSUME form.page = "methods", past.smooth
        PROVE  LastIsShown'
    <3>1. saves = {s} /\ s.step = "ok" /\ Same(s.copy, merchant)
      BY <1>1, <1>4, <2>2 DEF Loaded, MethodsInv, LoadIsFresh, LastIsShown
    <3>2. Same(merchant, form')
      BY <1>1, <1>4, <2>2, <3>1 DEF Loaded, FormShape, Same
    <3> QED
      BY <1>2, <3>1, <3>2 DEF LastIsShown, Unwritten, Same
  <2>3. ProfileTyped'
    BY <1>1, <1>2, <2>1 DEF ProfileTyped, Fits
  <2> QED
    BY <1>2, <1>3, <2>1, <2>2, <2>3 DEF ProfileInv, MethodsInv
<1>5. CASE Saved(s)
  <2>1. form' \in FormShape /\ form'.page = form.page
    <3>1. s.n + 2 \in Nat /\ s.undo.methods \in SUBSET Methods /\ s.undo.retry \in BOOLEAN
      BY <1>1 DEF Fits, Save
    <3>2. CASE ~s.mine
      <4>1. form' = form
        BY <1>5, <3>2, Zenon DEF Saved
      <4> QED
        BY <1>1, <4>1
    <3>3. CASE s.mine /\ s.op \in {"generate", "verify", "disable"}
      <4>1. CASE s.op = "generate"
        BY <1>1, <1>5, <3>1, <3>3, <4>1 DEF Saved, FormShape
      <4>2. CASE s.op = "verify"
        BY <1>1, <1>5, <3>1, <3>3, <4>2 DEF Saved, FormShape
      <4>3. CASE s.op = "disable"
        BY <1>1, <1>5, <3>1, <3>3, <4>3 DEF Saved, FormShape
      <4> QED
        BY <3>3, <4>1, <4>2, <4>3
    <3>4. CASE s.mine /\ s.op \notin {"generate", "verify", "disable"} /\ form.page = "settings"
      BY <1>1, <1>5, <3>1, <3>4 DEF Saved, FormShape
    <3>5. CASE s.mine /\ s.op \notin {"generate", "verify", "disable"} /\ form.page = "methods"
      BY <1>1, <1>5, <3>1, <3>5 DEF Saved, FormShape
    <3>6. CASE /\ s.mine /\ s.op \notin {"generate", "verify", "disable"}
               /\ form.page \notin {"settings", "methods"}
      BY <1>1, <1>5, <3>1, <3>6 DEF Saved, FormShape
    <3> QED
      BY <1>1, <3>2, <3>3, <3>4, <3>5, <3>6 DEF FormShape
  <2>2. ASSUME form.page = "methods", past.smooth
        PROVE  ~form'.loading /\ LastIsShown'
    <3>1. LastIsShown /\ ~form.loading
      BY <1>1, <1>5, <2>2 DEF Saved, MethodsInv, LoadIsFresh
    <3>2. s.op = "settings" /\ s.mine /\ s.step = "ok"
      BY <1>5, <3>1 DEF Saved, LastIsShown
    <3>3. form' = form
      BY <1>5, <2>2, <3>2 DEF Saved
    <3>4. Unwritten' = Unwritten
      BY <1>2, <3>2 DEF Unwritten
    <3> QED
      BY <1>2, <3>1, <3>3, <3>4 DEF LastIsShown, Same
  <2>3. ProfileTyped'
    BY <1>1, <1>2, <2>1 DEF ProfileTyped, Fits
  <2> QED
    BY <1>2, <1>3, <2>1, <2>2, <2>3 DEF ProfileInv, MethodsInv
<1> QED
  BY <1>4, <1>5

LEMMA ProfileStep == ProfileInv /\ [ProfileNext]_profileVars => ProfileInv'
<1> SUFFICES ASSUME ProfileInv, [ProfileNext]_profileVars
             PROVE  ProfileInv'
  OBVIOUS
<1>1. ASSUME NEW page \in {"settings", "branding", "methods", "account"}, OpenForm(page)
      PROVE  ProfileInv'
  BY <1>1, FormOpened
<1>2. CASE \/ TypeProfile \/ HandleSaveProfile \/ Start2FA \/ VerifyAndEnable
           \/ CancelSetup \/ Disable2FA \/ HandleSaveTheme \/ HandleSaveAccount
  BY <1>2, EditedElsewhere
<1>3. CASE (\E m \in Methods : HandleMethodToggle(m)) \/ HandleAutoRetryToggle
  <2>1. form.methods \in SUBSET Methods /\ form.retry \in BOOLEAN
    BY DEF ProfileInv, ProfileTyped, FormShape
  <2>2. \E methods \in SUBSET Methods, retry \in BOOLEAN : SaveShown(methods, retry)
    BY <1>3, <2>1 DEF HandleMethodToggle, HandleAutoRetryToggle
  <2> QED
    BY <2>2, ShownIsSaved
<1>4. ASSUME NEW s \in saves,
             ReadRow(s) \/ WriteRow(s) \/ SaveFails(s) \/ Loaded(s) \/ Saved(s)
      PROVE  ProfileInv'
  BY <1>4, RowIsRead, RowIsWritten, RowIsAnswered
<1>5. CASE UNCHANGED profileVars
  BY <1>5 DEF profileVars, ProfileInv, ProfileTyped, SecretsAreScanned, Scanned,
              MethodsInv, LoadIsFresh, LastIsShown, Unwritten, Same, Fits
<1> QED
  BY <1>1, <1>2, <1>3, <1>4, <1>5 DEF ProfileNext

\* The row, the form and every request in flight agree as ProfileInv says, for
\* any methods and any number of requests.
THEOREM ProfileInvariant == ProfileInit /\ [][ProfileNext]_profileVars => []ProfileInv
BY ProfileInitInv, ProfileStep, PTL

\* A second factor that is on asks for codes of a secret the merchant scanned,
\* whatever setups, saves and confirmations overlap, unless it was set up again
\* while it was on (auth_service.go:296-339).
THEOREM SecretsAreConfirmed ==
    ProfileInit /\ [][ProfileNext]_profileVars => []SecondFactorIsConfirmed
<1>1. ProfileInv => SecondFactorIsConfirmed
  BY DEF ProfileInv, SecretsAreScanned, Scanned, SecondFactorIsConfirmed
<1> QED
  BY <1>1, ProfileInvariant, PTL

\* The page of the payment methods at rest shows what is stored, however many
\* of its saves overlapped, unless one failed, was written out of order or was
\* left by an earlier page (settings/payments/page.tsx:49).
THEOREM MethodsAreShown ==
    ProfileInit /\ [][ProfileNext]_profileVars => []MethodsAsShown
<1>1. ProfileInv => MethodsAsShown
  BY DEF ProfileInv, MethodsInv, LoadIsFresh, LastIsShown, Unwritten, Same, MethodsAsShown
<1> QED
  BY <1>1, ProfileInvariant, PTL

---------------------------------------------------------------------------
(* The pages that show figures, for any picks and any number of loads. *)

FetchShape == [pick : Picks \cup {None}, by : {"effect", "interval"}, live : BOOLEAN,
               news : (0..MaxNews) \cup {None}]

FiguresTyped ==
    /\ news \in 0..MaxNews
    /\ desk \in [page : {"other", "dashboard", "analytics", "transactions", "customers"},
                 pick : Picks \cup {None},
                 shown : {None} \cup [pick : Picks, news : 0..MaxNews],
                 listed : BOOLEAN]
    /\ fetches \in SUBSET FetchShape
    /\ acts \in SUBSET [op : {"refund", "capture", "create"}, mine : BOOLEAN,
                        step : {"sent", "ok"}]
    /\ did \in [edits : 0..MaxEdits, opens : 0..MaxOpens, losses : 0..MaxLosses]

\* No timer runs on the analytics, and what another pick started is cancelled
\* there and on the transactions.
LateIsCancelled ==
    /\ desk.page = "analytics" => \A f \in fetches : f.by = "effect"
    /\ desk.page \in {"analytics", "transactions"} =>
          \A f \in fetches : f.live => f.pick = desk.pick

FiguresInv == FiguresTyped /\ LateIsCancelled

LEMMA FirstIsPick == FirstPick \in Picks
BY FiguresAssumption DEF FirstPick

LEMMA FiguresInitInv == FiguresInit => FiguresInv
BY FiguresAssumption, BoundsAssumption
   DEF FiguresInit, FiguresInv, FiguresTyped, LateIsCancelled

\* What is counted stays within its bound.
LEMMA DidCounts ==
    ASSUME FiguresTyped, NEW what \in {"edits", "opens", "losses"}, NEW limit,
           Did(what, limit),
           limit = CASE what = "edits" -> MaxEdits
                     [] what = "opens" -> MaxOpens
                     [] what = "losses" -> MaxLosses
    PROVE  did' \in [edits : 0..MaxEdits, opens : 0..MaxOpens, losses : 0..MaxLosses]
BY BoundsAssumption DEF FiguresTyped, Did

\* A page that starts has one load, of what it shows first.
LEMMA FreshKeeps ==
    ASSUME FiguresInv, NEW page \in {"dashboard", "analytics", "transactions", "customers"},
           Fresh(page), news' = news,
           did' \in [edits : 0..MaxEdits, opens : 0..MaxOpens, losses : 0..MaxLosses]
    PROVE  FiguresInv'
<1>1. PICK p : p = IF page = "customers" THEN None ELSE FirstPick
  OBVIOUS
<1>2. PICK f : f = Fetch(p, "effect")
  OBVIOUS
<1>3. p \in Picks \cup {None} /\ f \in FetchShape /\ f.pick = p /\ f.by = "effect"
  BY <1>1, <1>2, FirstIsPick DEF Fetch, FetchShape
<1>4. /\ fetches' = {f}
      /\ desk' = [page |-> page, pick |-> p, shown |-> None, listed |-> FALSE]
      /\ acts' = {[a EXCEPT !.mine = FALSE] : a \in acts}
  BY <1>1, <1>2 DEF Fresh
<1>5. FiguresTyped'
  <2>1. /\ desk'.page \in {"other", "dashboard", "analytics", "transactions", "customers"}
        /\ desk' \in [page : {"other", "dashboard", "analytics", "transactions", "customers"},
                     pick : Picks \cup {None},
                     shown : {None} \cup [pick : Picks, news : 0..MaxNews], listed : BOOLEAN]
    BY <1>3, <1>4
  <2>2. acts' \in SUBSET [op : {"refund", "capture", "create"}, mine : BOOLEAN,
                         step : {"sent", "ok"}]
    <3>1. ASSUME NEW a \in acts
          PROVE  [a EXCEPT !.mine = FALSE] \in [op : {"refund", "capture", "create"},
                                               mine : BOOLEAN, step : {"sent", "ok"}]
      <4>1. a \in [op : {"refund", "capture", "create"}, mine : BOOLEAN,
                   step : {"sent", "ok"}]
        BY <3>1 DEF FiguresInv, FiguresTyped
      <4> QED
        BY <4>1
    <3> QED
      BY <1>4, <3>1
  <2> QED
    BY <1>3, <1>4, <2>1, <2>2 DEF FiguresInv, FiguresTyped
<1>6. LateIsCancelled'
  <2>1. /\ desk'.pick = p
        /\ \A g \in fetches' : g.by = "effect" /\ g.pick = p
    BY <1>3, <1>4
  <2> QED
    BY <2>1 DEF LateIsCancelled
<1> QED
  BY <1>5, <1>6 DEF FiguresInv

\* Picking starts a load of what is picked beside those that go on.
LEMMA PickKeeps ==
    ASSUME FiguresInv, NEW page \in {"dashboard", "analytics", "transactions", "customers"},
           NEW p \in Picks, NEW others, Pick(page, p, others), others \in SUBSET FetchShape,
           page = "analytics" => \A f \in others : f.by = "effect",
           page \in {"analytics", "transactions"} => \A f \in others : ~f.live
    PROVE  FiguresInv' /\ desk'.shown = desk.shown
<1>1. PICK f : f = Fetch(p, "effect")
  OBVIOUS
<1>2. f \in FetchShape /\ f.pick = p /\ f.by = "effect"
  BY <1>1 DEF Fetch, FetchShape
<1>3. /\ fetches' = others \cup {f} /\ desk' = [desk EXCEPT !.pick = p] /\ desk.page = page
      /\ news' = news /\ acts' = acts
  BY <1>1 DEF Pick
<1>4. did' \in [edits : 0..MaxEdits, opens : 0..MaxOpens, losses : 0..MaxLosses]
  BY DidCounts DEF Pick, FiguresInv
<1>5. FiguresTyped' /\ desk'.shown = desk.shown /\ desk'.page = page /\ desk'.pick = p
  BY <1>2, <1>3, <1>4 DEF FiguresInv, FiguresTyped
<1>6. LateIsCancelled'
  BY <1>2, <1>3, <1>5 DEF LateIsCancelled
<1> QED
  BY <1>5, <1>6 DEF FiguresInv

LEMMA PickedKeeps ==
    ASSUME FiguresInv, NEW p \in Picks,
           \/ SetSelectedPeriod(p) \/ SetPeriod(p) \/ SetFilter(p) \/ HandleViewDetails(p)
    PROVE  FiguresInv' /\ desk'.shown = desk.shown
<1>1. /\ Cancelled("effect") \in SUBSET FetchShape
      /\ desk.page = "analytics" =>
            \A f \in Cancelled("effect") : f.by = "effect" /\ ~f.live
  <2>1. ASSUME NEW g \in Cancelled("effect")
        PROVE  g \in FetchShape /\ (desk.page = "analytics" => g.by = "effect" /\ ~g.live)
    <3>1. PICK f \in fetches : g = IF f.by = "effect" THEN [f EXCEPT !.live = FALSE] ELSE f
      BY DEF Cancelled
    <3>2. f \in FetchShape /\ (desk.page = "analytics" => f.by = "effect")
      BY DEF FiguresInv, FiguresTyped, LateIsCancelled
    <3>3. CASE f.by = "effect"
      BY <3>1, <3>2, <3>3 DEF FetchShape
    <3> QED
      BY <3>1, <3>2, <3>3
  <2> QED
    BY <2>1
<1>2. PICK late : late = {[f EXCEPT !.live = FALSE] : f \in fetches}
  OBVIOUS
<1>3. late \in SUBSET FetchShape /\ \A f \in late : ~f.live
  <2>1. ASSUME NEW f \in fetches
        PROVE  LET g == [f EXCEPT !.live = FALSE] IN g \in FetchShape /\ ~g.live
    BY DEF FiguresInv, FiguresTyped, FetchShape
  <2> QED
    BY <1>2, <2>1
<1>4. CASE SetSelectedPeriod(p)
  BY <1>1, <1>4, PickKeeps DEF SetSelectedPeriod
<1>5. CASE SetPeriod(p)
  <2>1. Pick("analytics", p, Cancelled("effect")) /\ desk.page = "analytics"
    BY <1>5 DEF SetPeriod, Pick
  <2> QED
    BY <1>1, <2>1, PickKeeps
<1>6. CASE SetFilter(p)
  <2>1. Pick("transactions", p, late)
    BY <1>2, <1>6 DEF SetFilter
  <2> QED
    BY <1>3, <2>1, PickKeeps
<1>7. CASE HandleViewDetails(p)
  <2>1. Pick("customers", p, fetches) /\ fetches \in SUBSET FetchShape
    BY <1>7 DEF HandleViewDetails, FiguresInv, FiguresTyped
  <2> QED
    BY <2>1, PickKeeps
<1> QED
  BY <1>4, <1>5, <1>6, <1>7

\* A load goes on, and what its answer puts up is picked where late answers
\* are cancelled.
LEMMA LoadMoves ==
    ASSUME FiguresInv, NEW f \in fetches,
           ServeFigures(f) \/ FiguresAnswered(f) \/ FetchFails(f)
    PROVE  /\ FiguresInv'
           /\ \/ desk'.shown = desk.shown
              \/ /\ f.live /\ desk'.pick = desk.pick /\ desk'.page = desk.page
                 /\ desk'.shown.pick = f.pick
<1>1. FiguresTyped /\ f \in FetchShape
  BY DEF FiguresInv, FiguresTyped
<1>2. CASE ServeFigures(f)
  <2>1. PICK g : g = [f EXCEPT !.news = news]
    OBVIOUS
  <2>2. g \in FetchShape /\ g.by = f.by /\ g.live = f.live /\ g.pick = f.pick
    BY <1>1, <2>1 DEF FetchShape, FiguresTyped
  <2>3. fetches' = (fetches \ {f}) \cup {g} /\ UNCHANGED <<news, desk, acts, did>>
    BY <1>2, <2>1 DEF ServeFigures
  <2> QED
    BY <2>2, <2>3 DEF FiguresInv, FiguresTyped, LateIsCancelled
<1>3. CASE FiguresAnswered(f)
  <2>1. /\ f.news \in 0..MaxNews /\ fetches' = fetches \ {f}
        /\ UNCHANGED <<news, acts, did>>
    BY <1>1, <1>3 DEF FiguresAnswered, FetchShape
  <2>2. CASE ~f.live
    BY <1>3, <2>1, <2>2 DEF FiguresAnswered, FiguresInv, FiguresTyped, LateIsCancelled
  <2>3. CASE f.live /\ f.pick = None
    <3>1. desk' = [desk EXCEPT !.listed = TRUE]
      BY <1>3, <2>3 DEF FiguresAnswered
    <3> QED
      BY <2>1, <3>1 DEF FiguresInv, FiguresTyped, LateIsCancelled
  <2>4. CASE f.live /\ f.pick # None
    <3>1. PICK x : x = [pick |-> f.pick, news |-> f.news]
      OBVIOUS
    <3>2. x \in [pick : Picks, news : 0..MaxNews] /\ x.pick = f.pick
      BY <1>1, <2>1, <2>4, <3>1 DEF FetchShape
    <3>3. desk' = [desk EXCEPT !.shown = x]
      BY <1>3, <2>4, <3>1 DEF FiguresAnswered
    <3> QED
      BY <2>1, <2>4, <3>2, <3>3 DEF FiguresInv, FiguresTyped, LateIsCancelled
  <2> QED
    BY <2>2, <2>3, <2>4
<1>4. CASE FetchFails(f)
  <2>1. did' \in [edits : 0..MaxEdits, opens : 0..MaxOpens, losses : 0..MaxLosses]
    BY <1>1, <1>4, DidCounts DEF FetchFails
  <2> QED
    BY <1>4, <2>1 DEF FetchFails, FiguresInv, FiguresTyped, LateIsCancelled
<1> QED
  BY <1>2, <1>3, <1>4

\* A timer loads what is picked, and not on the analytics.
LEMMA TickKeeps == FiguresInv /\ Tick => FiguresInv' /\ desk' = desk
<1> SUFFICES ASSUME FiguresInv, Tick PROVE FiguresInv' /\ desk' = desk
  OBVIOUS
<1>1. PICK f : f = Fetch(desk.pick, "interval")
  OBVIOUS
<1>2. f \in FetchShape /\ f.pick = desk.pick
  BY <1>1 DEF Fetch, FetchShape, FiguresInv, FiguresTyped
<1>3. /\ fetches' = fetches \cup {f} /\ desk.page \in {"dashboard", "transactions"}
      /\ UNCHANGED <<news, desk, acts, did>>
  BY <1>1 DEF Tick
<1> QED
  BY <1>2, <1>3 DEF FiguresInv, FiguresTyped, LateIsCancelled

\* What a merchant changes starts the page again once it worked.
LEMMA ActKeeps ==
    ASSUME FiguresInv,
           \/ HandleRefund \/ HandleCapture \/ HandleSubmitPayment
           \/ \E a \in acts : ServeAct(a) \/ ActFails(a) \/ ActAnswered(a)
    PROVE  FiguresInv' /\ (desk'.shown = desk.shown \/ desk'.shown = None)
<1>1. FiguresTyped /\ LateIsCancelled
  BY DEF FiguresInv
<1>2. ASSUME NEW op \in {"refund", "capture", "create"}, Act(op)
      PROVE  FiguresInv' /\ desk' = desk
  <2>1. did' \in [edits : 0..MaxEdits, opens : 0..MaxOpens, losses : 0..MaxLosses]
    BY <1>1, <1>2, DidCounts DEF Act
  <2> QED
    <3>1. PICK a : a = [op |-> op, mine |-> TRUE, step |-> "sent"]
      OBVIOUS
    <3>2. a \in [op : {"refund", "capture", "create"}, mine : BOOLEAN, step : {"sent", "ok"}]
      BY <1>2, <3>1
    <3>3. acts' = acts \cup {a} /\ UNCHANGED <<news, desk, fetches>>
      BY <1>2, <3>1 DEF Act
    <3> QED
      BY <1>1, <2>1, <3>2, <3>3 DEF FiguresInv, FiguresTyped, LateIsCancelled
<1>3. CASE HandleRefund \/ HandleCapture \/ HandleSubmitPayment
  BY <1>2, <1>3 DEF HandleRefund, HandleCapture, HandleSubmitPayment
<1>4. ASSUME NEW a \in acts, ServeAct(a)
      PROVE  FiguresInv' /\ desk' = desk
  <2>1. news' \in 0..MaxNews
    BY <1>1, <1>4, FiguresAssumption DEF ServeAct, FiguresTyped
  <2>2. [a EXCEPT !.step = "ok"] \in [op : {"refund", "capture", "create"}, mine : BOOLEAN,
                                      step : {"sent", "ok"}]
    BY <1>1 DEF FiguresTyped
  <2> QED
    BY <1>1, <1>4, <2>1, <2>2 DEF ServeAct, FiguresInv, FiguresTyped, LateIsCancelled
<1>5. ASSUME NEW a \in acts, ActFails(a)
      PROVE  FiguresInv' /\ desk' = desk
  <2>1. did' \in [edits : 0..MaxEdits, opens : 0..MaxOpens, losses : 0..MaxLosses]
    BY <1>1, <1>5, DidCounts DEF ActFails
  <2> QED
    BY <1>1, <1>5, <2>1 DEF ActFails, FiguresInv, FiguresTyped, LateIsCancelled
<1>6. ASSUME NEW a \in acts, ActAnswered(a)
      PROVE  FiguresInv' /\ (desk' = desk \/ desk'.shown = None)
  <2>1. CASE a.mine
    <3>1. Fresh("transactions") /\ UNCHANGED <<news, did>>
      BY <1>6, <2>1 DEF ActAnswered
    <3>2. desk'.shown = None
      BY <3>1 DEF Fresh
    <3> QED
      BY <1>1, <3>1, <3>2, FreshKeeps DEF FiguresTyped
  <2>2. CASE ~a.mine
    BY <1>1, <1>6, <2>2 DEF ActAnswered, FiguresInv, FiguresTyped, LateIsCancelled
  <2> QED
    BY <2>1, <2>2
<1> QED
  BY <1>3, <1>4, <1>5, <1>6

\* One step of the pages: the invariant is kept, and what is put up where late
\* answers are cancelled is what is picked.
LEMMA FiguresStep ==
    ASSUME FiguresInv, [FiguresNext]_figureVars
    PROVE  /\ FiguresInv'
           /\ desk'.shown # desk.shown /\ desk'.shown # None
                /\ desk'.page \in {"analytics", "transactions"}
              => desk'.shown.pick = desk'.pick
<1>1. ASSUME NEW page \in {"dashboard", "analytics", "transactions", "customers"},
             OpenFigures(page)
      PROVE  FiguresInv' /\ desk'.shown = None
  <2>1. did' \in [edits : 0..MaxEdits, opens : 0..MaxOpens, losses : 0..MaxLosses]
    BY <1>1, DidCounts DEF OpenFigures, FiguresInv
  <2>2. Fresh(page) /\ news' = news
    BY <1>1 DEF OpenFigures
  <2>3. desk'.shown = None
    BY <2>2 DEF Fresh
  <2> QED
    BY <2>1, <2>2, <2>3, FreshKeeps
<1>2. ASSUME NEW f \in fetches, ServeFigures(f) \/ FiguresAnswered(f) \/ FetchFails(f)
      PROVE  /\ FiguresInv'
             /\ desk'.shown # desk.shown /\ desk'.page \in {"analytics", "transactions"}
                => desk'.shown.pick = desk'.pick
  BY <1>2, LoadMoves DEF FiguresInv, LateIsCancelled
<1>3. CASE PaymentElsewhere
  BY <1>3, FiguresAssumption
     DEF PaymentElsewhere, FiguresInv, FiguresTyped, LateIsCancelled
<1>4. CASE UNCHANGED figureVars
  BY <1>4 DEF figureVars, FiguresInv, FiguresTyped, LateIsCancelled
<1> QED
  BY <1>1, <1>2, <1>3, <1>4, PickedKeeps, TickKeeps, ActKeeps DEF FiguresNext

\* The pages of the figures, their loads and what is asked on them have the
\* shape FiguresTyped gives them, and loads of what is no longer picked are
\* cancelled on the pages that cancel.
THEOREM FiguresInvariant == FiguresInit /\ [][FiguresNext]_figureVars => []FiguresInv
<1>1. FiguresInv /\ [FiguresNext]_figureVars => FiguresInv'
  BY FiguresStep
<1> QED
  BY <1>1, FiguresInitInv, PTL

\* Analytics and transactions put up figures of what is picked only, in
\* whatever order the answers come (analytics/page.tsx:82).
THEOREM LateFiguresAreDropped ==
    FiguresInit /\ [][FiguresNext]_figureVars => NoLateFigures
<1>1. FiguresInv /\ [FiguresNext]_figureVars =>
        [desk'.shown # desk.shown /\ desk'.shown # None
           /\ desk'.page \in {"analytics", "transactions"}
         => desk'.shown.pick = desk'.pick]_figureVars
  BY FiguresStep
<1> QED
  BY <1>1, FiguresInvariant, PTL DEF NoLateFigures

---------------------------------------------------------------------------
(* The session of one tab, for any accounts, calls and ended sessions. *)

\* A profile that says verified is that of an account that was let in.
LetIn(u) == u # None /\ u.kyc = "verified" => u.m \in cleared

\* A token is of the present version of its account or of an earlier one.
Issued(token) == token # None => token.v <= account[token.m].version

\* A tab shows the dashboard's pages with a profile or after a call failed.
TabFits(t) ==
    /\ t \in Tab /\ LetIn(t.user)
    /\ t.hydrated => t.page = "dashboard" /\ (t.user # None \/ faults > 0)

\* What a call in flight may hold: an answer that refuses its token is right.
CallFits(c) ==
    /\ c.op \in FormOps => c.m \in Merchants
    /\ c.op \in MeOps /\ c.answer = "ok" => c.user # None
    /\ c.op \in MeOps /\ c.answer = "failed" => faults > 0
    /\ c.op \in {"login", "code"} /\ c.answer = "ok" => c.token # None
    /\ LetIn(c.user) /\ Issued(c.auth) /\ Issued(c.token)
    /\ c.op \notin FormOps /\ c.answer = "unauthorized" => ~Accepted(c.auth)

\* What the tab and the back end know of an account agree.
SessionInv ==
    /\ TypeOK
    /\ \A m \in Merchants : account[m].kyc = "verified" => m \in cleared
    /\ TabFits(tab) /\ Issued(storage)
    /\ \A c \in calls : CallFits(c)

LEMMA SessionInitInv == Init => SessionInv
BY SessionAssumption, NoneAssumption
   DEF Init, SessionInv, TypeOK, Account, Status, Kyc, Tab, Wall, FreshTab, BlankWall,
       TabFits, LetIn, Issued

\* A call is made with the token that is stored.
LEMMA NewCallFits ==
    ASSUME NEW op \in {"login", "code", "register", "signin me", "layout me", "poll me",
                       "page", "kyc"},
           NEW m \in Merchants \cup {None}, NEW token \in Token \cup {None},
           Issued(token), op \in FormOps => m \in Merchants
    PROVE  NewCall(op, m, token) \in Call /\ CallFits(NewCall(op, m, token))
<1>1. PICK c : c = NewCall(op, m, token)
  OBVIOUS
<1>2. /\ c \in Call /\ c.op = op /\ c.m = m /\ c.auth = token /\ c.answer = "sent"
      /\ c.token = None /\ c.user = None
  BY <1>1 DEF NewCall, Call
<1>3. CallFits(c)
  BY <1>2 DEF CallFits, LetIn, Issued
<1> QED
  BY <1>1, <1>2, <1>3

\* The effects of the layout and of the wall keep what the tab holds.
LEMMA ShownFits ==
    ASSUME NEW s \in Tab, NEW token, LetIn(s.user),
           s.hydrated => /\ s.page = "dashboard"
                         /\ s.user # None \/ faults > 0 \/ token = None
    PROVE  TabFits(Shown(s, token)) /\ Shown(s, token).user = s.user
<1>1. PICK r : r = LayoutEffect(s, token)
  OBVIOUS
<1>2. /\ r \in Tab /\ r.user = s.user
      /\ r.hydrated => r.page = "dashboard" /\ (r.user # None \/ faults > 0)
  BY <1>1 DEF LayoutEffect, Tab
<1>3. PICK w : w = WallEffect(r)
  OBVIOUS
<1>4. w \in Tab /\ w.user = r.user /\ w.hydrated = r.hydrated /\ w.page = r.page
  <2>1. CASE OnWall(r)
    BY <1>2, <1>3, <2>1 DEF WallEffect, Tab, Wall
  <2>2. CASE ~OnWall(r)
    BY <1>2, <1>3, <2>2 DEF WallEffect, Tab, Wall, BlankWall
  <2> QED
    BY <2>1, <2>2
<1> QED
  BY <1>1, <1>2, <1>3, <1>4 DEF Shown, TabFits

\* What keeps the invariant in the browser.
LEMMA BrowserMoves ==
    ASSUME SessionInv, UNCHANGED <<account, faults, cleared>>,
           storage' = storage \/ (storage' \in Token \cup {None} /\ Issued(storage')),
           tab' = tab \/ TabFits(tab'),
           \A c \in calls' : c \in calls \/ (c \in Call /\ CallFits(c))
    PROVE  SessionInv'
<1>1. TypeOK'
  BY DEF SessionInv, TypeOK, TabFits
<1>2. TabFits(tab)' /\ Issued(storage)'
  BY DEF SessionInv, TabFits, LetIn, Issued
<1>3. \A c \in calls' : CallFits(c)'
  BY DEF SessionInv, CallFits, LetIn, Issued, Accepted
<1> QED
  BY <1>1, <1>2, <1>3 DEF SessionInv

\* As versions grow and who was let in stays so, what a profile or a token
\* says of an account remains right.
LEMMA StaysFit ==
    ASSUME SessionInv, account' \in [Merchants -> Account],
           \A m \in Merchants : account'[m].version >= account[m].version,
           cleared \subseteq cleared', faults' \in 0..MaxFaults, faults' >= faults
    PROVE  /\ \A u \in Profile \cup {None} : LetIn(u) => LetIn(u)'
           /\ \A token \in Token \cup {None} : Issued(token) =>
                 Issued(token)' /\ (~Accepted(token) => ~Accepted(token)')
           /\ \A c \in Call : CallFits(c) => CallFits(c)'
<1>1. ASSUME NEW u \in Profile \cup {None}, LetIn(u)
      PROVE  LetIn(u)'
  BY <1>1 DEF LetIn
<1>2. ASSUME NEW token \in Token \cup {None}, Issued(token)
      PROVE  Issued(token)' /\ (~Accepted(token) => ~Accepted(token)')
  <2>1. CASE token = None
    BY <2>1 DEF Issued, Accepted
  <2>2. CASE token # None
    <3>1. token \in Token /\ token.m \in Merchants /\ token.v \in Nat
      BY <2>2, SessionAssumption DEF Token
    <3>2. /\ account[token.m].version \in Nat /\ account'[token.m].version \in Nat
          /\ account'[token.m].version >= account[token.m].version
      BY <3>1, SessionAssumption DEF SessionInv, TypeOK, Account
    <3> QED
      BY <1>2, <2>2, <3>1, <3>2 DEF Issued, Accepted
  <2> QED
    BY <2>1, <2>2
<1>3. ASSUME NEW c \in Call, CallFits(c)
      PROVE  CallFits(c)'
  <2>1. /\ c.user \in Profile \cup {None} /\ c.auth \in Token \cup {None}
        /\ c.token \in Token \cup {None}
    BY DEF Call
  <2>2. LetIn(c.user)' /\ Issued(c.auth)' /\ Issued(c.token)'
    BY <1>1, <1>2, <1>3, <2>1 DEF CallFits
  <2>3. ~Accepted(c.auth) => ~Accepted(c.auth)'
    BY <1>2, <1>3, <2>1 DEF CallFits
  <2>4. faults > 0 => faults' > 0
    BY SessionAssumption DEF SessionInv, TypeOK
  <2> QED
    BY <1>3, <2>2, <2>3, <2>4 DEF CallFits
<1> QED
  BY <1>1, <1>2, <1>3

\* What keeps the invariant at the back end.
LEMMA BackEndMoves ==
    ASSUME SessionInv, UNCHANGED <<storage, tab>>,
           account' \in [Merchants -> Account],
           \A m \in Merchants : account'[m].version >= account[m].version,
           \A m \in Merchants : account'[m].kyc = "verified" => m \in cleared',
           cleared \subseteq cleared', cleared' \subseteq Merchants,
           faults' \in 0..MaxFaults, faults' >= faults,
           \A d \in calls' : d \in calls \/ (d \in Call /\ (CallFits(d) \/ CallFits(d)'))
    PROVE  SessionInv'
<1>1. TypeOK'
  BY DEF SessionInv, TypeOK
<1>2. TabFits(tab)' /\ Issued(storage)'
  <2>1. tab \in Tab /\ tab.user \in Profile \cup {None} /\ storage \in Token \cup {None}
    BY DEF SessionInv, TypeOK, Tab
  <2>2. LetIn(tab.user)' /\ Issued(storage)'
    <3>1. LetIn(tab.user) /\ Issued(storage)
      BY DEF SessionInv, TabFits
    <3>2. PICK u, token : u = tab.user /\ token = storage
      OBVIOUS
    <3>3. LetIn(u)' /\ Issued(token)'
      BY <2>1, <3>1, <3>2, StaysFit
    <3> QED
      BY <3>2, <3>3 DEF LetIn, Issued
  <2> QED
    BY <2>1, <2>2, SessionAssumption DEF SessionInv, TypeOK, TabFits
<1>3. \A c \in calls' : CallFits(c)'
  BY StaysFit DEF SessionInv, TypeOK
<1> QED
  BY <1>1, <1>2, <1>3 DEF SessionInv

LEMMA FreshFits ==
    ASSUME NEW page \in {"login", "dashboard"}
    PROVE  FreshTab(page) \in Tab /\ TabFits(FreshTab(page))
BY NoneAssumption DEF FreshTab, Tab, TabFits, LetIn, BlankWall, Wall

\* The pages, the buttons and the forms.
LEMMA PageActionKeeps ==
    ASSUME SessionInv,
           OpenDashboard \/ ReadPage \/ Logout \/ BackToLogin \/ Scan \/ SubmitKYC \/ PollStatus
    PROVE  SessionInv'
<1>1. /\ TabFits(tab) /\ tab \in Tab /\ storage \in Token \cup {None} /\ Issued(storage)
  BY DEF SessionInv, TypeOK
<1>2. \A op \in {"layout me", "poll me", "page", "kyc"} :
         LET c == NewCall(op, None, storage) IN c \in Call /\ CallFits(c)
  BY <1>1, NewCallFits DEF FormOps
<1>3. CASE OpenDashboard
  <2>1. TabFits(Shown(FreshTab("dashboard"), storage))
    BY FreshFits, ShownFits DEF TabFits
  <2> QED
    BY <1>2, <1>3, <2>1, BrowserMoves DEF OpenDashboard
<1>4. CASE ReadPage
  BY <1>2, <1>4, BrowserMoves DEF ReadPage
<1>5. CASE Logout
  <2>1. PICK s : s = [tab EXCEPT !.user = None]
    OBVIOUS
  <2>2. s \in Tab /\ LetIn(s.user) /\ (s.hydrated => s.page = "dashboard")
    BY <1>1, <2>1 DEF Tab, LetIn, TabFits
  <2>3. TabFits(Shown(s, None))
    BY <2>2, ShownFits
  <2>4. storage' = None /\ tab' = Shown(s, None) /\ UNCHANGED <<account, calls, faults, cleared>>
    BY <1>5, <2>1 DEF Logout
  <2> QED
    BY <2>3, <2>4, BrowserMoves DEF Issued
<1>6. CASE BackToLogin
  <2>1. TabFits([tab EXCEPT !.code = None])
    BY <1>1 DEF TabFits, Tab
  <2> QED
    BY <1>6, <2>1, BrowserMoves DEF BackToLogin
<1>7. CASE Scan
  <2>1. TabFits([tab EXCEPT !.wall.signed = TRUE])
    BY <1>1 DEF TabFits, Tab, Wall
  <2> QED
    BY <1>7, <2>1, BrowserMoves DEF Scan
<1>8. CASE SubmitKYC
  BY <1>2, <1>8, BrowserMoves DEF SubmitKYC
<1>9. CASE PollStatus
  BY <1>2, <1>9, BrowserMoves DEF PollStatus
<1> QED
  BY <1>3, <1>4, <1>5, <1>6, <1>7, <1>8, <1>9

LEMMA FormKeeps ==
    ASSUME SessionInv, NEW m \in Merchants, Login(m) \/ Signup(m) \/ Verify2FA
    PROVE  SessionInv'
<1>1. /\ tab \in Tab /\ storage \in Token \cup {None} /\ Issued(storage)
  BY DEF SessionInv, TypeOK
<1>2. ASSUME NEW op \in FormOps, NEW n \in Merchants, Submit(op, n), tab' = tab
      PROVE  SessionInv'
  <2>1. NewCall(op, n, storage) \in Call /\ CallFits(NewCall(op, n, storage))
    BY <1>1, NewCallFits DEF FormOps
  <2> QED
    BY <1>2, <2>1, BrowserMoves DEF Submit
<1>3. CASE Login(m)
  BY <1>2, <1>3 DEF Login, FormOps
<1>4. CASE Signup(m)
  BY <1>2, <1>4 DEF Signup, FormOps
<1>5. CASE Verify2FA
  <2>1. tab.code \in Merchants
    BY <1>1, <1>5 DEF Verify2FA, Tab
  <2> QED
    BY <1>2, <1>5, <2>1 DEF Verify2FA, FormOps
<1> QED
  BY <1>3, <1>4, <1>5

\* What happens outside the tab.
LEMMA OutsideKeeps ==
    ASSUME SessionInv, NEW m \in Merchants,
           \/ ElsewhereSignsIn(m) \/ ElsewhereSignsOut
           \/ Approve(m) \/ Suspend(m) \/ EndSessions(m)
    PROVE  SessionInv'
<1>1. /\ account \in [Merchants -> Account] /\ account[m] \in Account
      /\ \A n \in Merchants : account[n].version \in Nat
      /\ cleared \subseteq Merchants /\ faults \in 0..MaxFaults /\ faults >= faults
      /\ \A n \in Merchants : account[n].kyc = "verified" => n \in cleared
  BY SessionAssumption DEF SessionInv, TypeOK, Account
<1>2. CASE ElsewhereSignsIn(m)
  <2>1. TokenOf(m) \in Token /\ Issued(TokenOf(m))
    BY <1>1 DEF TokenOf, Token, Issued, Account
  <2> QED
    BY <1>2, <2>1, BrowserMoves DEF ElsewhereSignsIn
<1>3. CASE ElsewhereSignsOut
  BY <1>3, BrowserMoves DEF ElsewhereSignsOut, Issued
<1>4. ASSUME NEW a \in Account, account' \in [Merchants -> Account],
             account'[m] = a, \A n \in Merchants \ {m} : account'[n] = account[n],
             a.version >= account[m].version,
             a.kyc = "verified" => a.kyc = account[m].kyc \/ m \in cleared',
             cleared' = cleared \/ cleared' = cleared \cup {m},
             UNCHANGED <<storage, tab, calls, faults>>
      PROVE  SessionInv'
  <2>1. /\ \A n \in Merchants : account'[n].version >= account[n].version
        /\ \A n \in Merchants : account'[n].kyc = "verified" => n \in cleared'
    BY <1>1, <1>4
  <2> QED
    BY <1>1, <1>4, <2>1, BackEndMoves
<1>5. CASE Approve(m)
  <2>1. PICK b : b = [account EXCEPT ![m].status = "active"]
    OBVIOUS
  <2>2. /\ b \in [Merchants -> Account] /\ b[m].version = account[m].version
        /\ b[m] \in Account /\ \A n \in Merchants \ {m} : b[n] = account[n]
    BY <1>1, <2>1 DEF Account, Status
  <2>3. PICK a : a = [b[m] EXCEPT !.kyc = "verified"]
    OBVIOUS
  <2>4. a \in Account /\ a.version = account[m].version /\ a.version \in Nat
    BY <1>1, <2>2, <2>3 DEF Account, Kyc
  <2>5. account' = [b EXCEPT ![m].kyc = "verified"]
    <3>1. account' = [[account EXCEPT ![m].status = "active"] EXCEPT ![m].kyc = "verified"]
      BY <1>5 DEF Approve
    <3> QED
      BY <2>1, <3>1
  <2>6. /\ account' \in [Merchants -> Account]
        /\ account'[m] = a /\ \A n \in Merchants \ {m} : account'[n] = account[n]
    BY <2>2, <2>3, <2>4, <2>5
  <2>7. /\ cleared' = cleared \cup {m} /\ m \in cleared'
        /\ UNCHANGED <<storage, tab, calls, faults>>
    BY <1>5 DEF Approve
  <2>8. a.version >= account[m].version
    BY <2>4
  <2> QED
    BY <1>4, <2>4, <2>6, <2>7, <2>8
<1>6. CASE Suspend(m)
  <2>1. PICK a : a = [account[m] EXCEPT !.status = "suspended"]
    OBVIOUS
  <2>2. /\ a \in Account /\ a.version = account[m].version /\ a.version \in Nat
        /\ a.kyc = account[m].kyc
    BY <1>1, <2>1 DEF Account, Status
  <2>3. /\ account' \in [Merchants -> Account]
        /\ account'[m] = a /\ \A n \in Merchants \ {m} : account'[n] = account[n]
    BY <1>1, <1>6, <2>1, <2>2 DEF Suspend
  <2> QED
    BY <1>4, <1>6, <2>2, <2>3 DEF Suspend
<1>7. CASE EndSessions(m)
  <2>1. PICK a : a = [account[m] EXCEPT !.version = @ + 1]
    OBVIOUS
  <2>2. a \in Account /\ a.version >= account[m].version /\ a.kyc = account[m].kyc
    BY <1>1, <1>7, <2>1, SessionAssumption DEF Account, EndSessions
  <2>3. /\ account' \in [Merchants -> Account]
        /\ account'[m] = a /\ \A n \in Merchants \ {m} : account'[n] = account[n]
    BY <1>1, <1>7, <2>1, <2>2 DEF EndSessions
  <2> QED
    BY <1>4, <1>7, <2>2, <2>3 DEF EndSessions
<1> QED
  BY <1>2, <1>3, <1>5, <1>6, <1>7

\* The back end answers a call, or the call fails on its way.
LEMMA ServedKeepsSession ==
    ASSUME SessionInv, NEW c \in calls, c.answer = "sent",
           ServeMe(c) \/ ServePage(c) \/ ServeKYC(c) \/ ServeLogin(c) \/ ServeRegister(c),
           UNCHANGED <<storage, tab, faults, cleared>>
    PROVE  SessionInv'
<1>1. /\ account \in [Merchants -> Account] /\ c \in Call /\ CallFits(c)
      /\ \A n \in Merchants : account[n].version \in Nat
      /\ cleared \subseteq Merchants /\ faults \in 0..MaxFaults /\ faults >= faults
      /\ \A n \in Merchants : account[n].kyc = "verified" => n \in cleared
  BY SessionAssumption DEF SessionInv, TypeOK, Account
<1>2. \A m \in Merchants :
         account[m].version >= account[m].version
  BY <1>1
<1>3. ASSUME NEW d \in Call, CallFits(d), Reply(c, d), account' = account
      PROVE  SessionInv'
  BY <1>1, <1>2, <1>3, BackEndMoves DEF Reply
<1>4. ASSUME NEW d \in Call, CallFits(d), Reply(c, d), NEW m \in Merchants,
             NEW a \in Account, account' = [account EXCEPT ![m] = a],
             a.version = account[m].version, a.kyc = "verified" => account[m].kyc = a.kyc
      PROVE  SessionInv'
  <2>1. /\ account' \in [Merchants -> Account]
        /\ \A n \in Merchants : account'[n].version >= account[n].version
        /\ \A n \in Merchants : account'[n].kyc = "verified" => n \in cleared'
    BY <1>1, <1>2, <1>4
  <2> QED
    BY <1>1, <1>4, <2>1, BackEndMoves DEF Reply
<1>5. ASSUME NEW answer \in {"ok", "code wanted", "unauthorized", "inactive", "failed"},
             answer = "ok" => c.op \notin MeOps \cup {"login", "code"},
             answer = "failed" => c.op \notin MeOps,
             answer = "unauthorized" => c.op \in FormOps \/ ~Accepted(c.auth)
      PROVE  Answer(c, answer) \in Call /\ CallFits(Answer(c, answer))
  <2>1. PICK d : d = Answer(c, answer)
    OBVIOUS
  <2>2. /\ d \in Call /\ d.answer = answer /\ d.op = c.op /\ d.m = c.m /\ d.auth = c.auth
        /\ d.token = c.token /\ d.user = c.user
    BY <1>1, <2>1 DEF Answer, Call
  <2>3. CallFits(d)
    BY <1>1, <1>5, <2>2 DEF CallFits
  <2> QED
    BY <2>1, <2>2, <2>3
<1>6. CASE ServeMe(c)
  <2>1. CASE Accepted(c.auth)
    <3>1. c.auth.m \in Merchants
      BY <1>1, <2>1 DEF Accepted, Call, Token
    <3>2. PICK u : u = ProfileOf(c.auth.m)
      OBVIOUS
    <3>3. u \in Profile /\ LetIn(u) /\ u # None
      BY <1>1, <3>1, <3>2, NoneAssumption DEF ProfileOf, Profile, LetIn, Account
    <3>4. PICK d : d = [c EXCEPT !.answer = "ok", !.user = u]
      OBVIOUS
    <3>5. /\ d \in Call /\ d.answer = "ok" /\ d.op = c.op /\ d.m = c.m /\ d.auth = c.auth
          /\ d.token = c.token /\ d.user = u
      BY <1>1, <3>3, <3>4 DEF Call
    <3>6. CallFits(d)
      BY <1>1, <1>6, <3>3, <3>5 DEF CallFits, ServeMe, MeOps, FormOps
    <3>7. Reply(c, d) /\ account' = account
      BY <1>6, <2>1, <3>2, <3>4 DEF ServeMe
    <3> QED
      BY <1>3, <3>5, <3>6, <3>7
  <2>2. CASE ~Accepted(c.auth)
    BY <1>3, <1>5, <1>6, <2>2 DEF ServeMe
  <2> QED
    BY <2>1, <2>2
<1>7. CASE ServePage(c)
  <2>1. c.op \notin MeOps \cup {"login", "code"}
    BY <1>7 DEF ServePage, MeOps
  <2> QED
    BY <1>3, <1>5, <1>7, <2>1 DEF ServePage
<1>8. CASE ServeKYC(c)
  <2>1. c.op \notin MeOps \cup {"login", "code"}
    BY <1>8 DEF ServeKYC, MeOps
  <2>2. CASE ~Accepted(c.auth)
    BY <1>3, <1>5, <1>8, <2>2 DEF ServeKYC
  <2>3. CASE Accepted(c.auth)
    <3>1. PICK m : m = c.auth.m
      OBVIOUS
    <3>2. m \in Merchants
      BY <1>1, <2>3, <3>1 DEF Accepted, Call, Token
    <3>3. PICK a : a = [account[m] EXCEPT !.kyc = "under_review"]
      OBVIOUS
    <3>4. a \in Account /\ a.version = account[m].version /\ a.kyc # "verified"
      BY <1>1, <3>2, <3>3 DEF Account, Kyc
    <3>5. account' = [account EXCEPT ![m] = a] /\ Reply(c, Answer(c, "ok"))
      BY <1>8, <2>3, <3>1, <3>3 DEF ServeKYC
    <3> QED
      BY <1>4, <1>5, <2>1, <3>2, <3>4, <3>5
  <2> QED
    BY <2>2, <2>3
<1>9. CASE ServeLogin(c)
  <2>1. c.op \in FormOps /\ c.op \notin MeOps /\ c.m \in Merchants /\ account' = account
    BY <1>1, <1>9 DEF ServeLogin, CallFits, FormOps, MeOps
  <2>2. CASE Reply(c, [c EXCEPT !.answer = "ok", !.token = TokenOf(c.m)])
    <3>1. PICK token : token = TokenOf(c.m)
      OBVIOUS
    <3>2. token \in Token /\ token # None /\ Issued(token)
      BY <1>1, <2>1, <3>1, NoneAssumption DEF TokenOf, Token, Issued, Account
    <3>3. PICK d : d = [c EXCEPT !.answer = "ok", !.token = token]
      OBVIOUS
    <3>4. /\ d \in Call /\ d.answer = "ok" /\ d.op = c.op /\ d.m = c.m /\ d.auth = c.auth
          /\ d.token = token /\ d.user = c.user
      BY <1>1, <3>2, <3>3 DEF Call
    <3>5. CallFits(d)
      BY <1>1, <2>1, <3>2, <3>4 DEF CallFits
    <3> QED
      BY <1>3, <2>1, <2>2, <3>1, <3>3, <3>4, <3>5
  <2>3. CASE Reply(c, Answer(c, "unauthorized")) \/ Reply(c, Answer(c, "code wanted"))
    BY <1>3, <1>5, <2>1, <2>3
  <2> QED
    BY <1>9, <2>2, <2>3 DEF ServeLogin
<1>10. CASE ServeRegister(c)
  <2>1. c.op \in FormOps /\ c.op \notin MeOps \cup {"login", "code"} /\ c.m \in Merchants
    BY <1>1, <1>10 DEF ServeRegister, CallFits, FormOps, MeOps
  <2>2. CASE account[c.m].status = "none"
    <3>1. PICK s \in {"pending", "active"} : account' = [account EXCEPT ![c.m].status = s]
      BY <1>10, <2>2 DEF ServeRegister
    <3>2. PICK m : m = c.m
      OBVIOUS
    <3>3. PICK a : a = [account[m] EXCEPT !.status = s]
      OBVIOUS
    <3>4. a \in Account /\ a.version = account[m].version /\ a.kyc = account[m].kyc
      BY <1>1, <2>1, <3>2, <3>3 DEF Account, Status
    <3>5. account' = [account EXCEPT ![m] = a] /\ Reply(c, Answer(c, "ok"))
      BY <1>10, <2>2, <3>1, <3>2, <3>3 DEF ServeRegister
    <3> QED
      BY <1>4, <1>5, <2>1, <3>2, <3>4, <3>5
  <2>3. CASE account[c.m].status # "none"
    BY <1>3, <1>5, <1>10, <2>1, <2>3 DEF ServeRegister
  <2> QED
    BY <2>2, <2>3
<1> QED
  BY <1>6, <1>7, <1>8, <1>9, <1>10

LEMMA FailKeeps == SessionInv /\ Fail => SessionInv'
<1> SUFFICES ASSUME SessionInv, Fail PROVE SessionInv'
  OBVIOUS
<1>1. PICK c \in calls : c.answer = "sent" /\ Reply(c, Answer(c, "failed"))
  BY DEF Fail
<1>2. /\ account \in [Merchants -> Account] /\ c \in Call /\ CallFits(c)
      /\ \A n \in Merchants : account[n].version \in Nat
      /\ cleared \subseteq Merchants /\ faults \in 0..MaxFaults
      /\ \A n \in Merchants : account[n].kyc = "verified" => n \in cleared
  BY SessionAssumption DEF SessionInv, TypeOK, Account
<1>3. /\ UNCHANGED <<account, storage, tab, cleared>>
      /\ faults' \in 0..MaxFaults /\ faults' >= faults /\ faults' > 0
  BY <1>2, SessionAssumption DEF Fail
<1>4. PICK d : d = Answer(c, "failed")
  OBVIOUS
<1>5. /\ d \in Call /\ d.answer = "failed" /\ d.op = c.op /\ d.m = c.m /\ d.auth = c.auth
      /\ d.token = c.token /\ d.user = c.user
  BY <1>2, <1>4 DEF Answer, Call
<1>6. CallFits(d)'
  BY <1>2, <1>3, <1>5 DEF CallFits, LetIn, Issued, Accepted
<1>7. calls' = (calls \ {c}) \cup {d}
  BY <1>1, <1>4 DEF Reply
<1>8. \A m \in Merchants : account'[m].version >= account[m].version
  BY <1>2, <1>3
<1> QED
  BY <1>2, <1>3, <1>5, <1>6, <1>7, <1>8, BackEndMoves

\* An answer arrives in the tab.
LEMMA DeliveredKeeps ==
    ASSUME SessionInv, NEW c \in calls, c.answer # "sent",
           \/ Refused(c) \/ SignedIn(c) \/ CodeWanted(c) \/ Registered(c)
           \/ Fetched(c) \/ KYCSent(c) \/ OtherwiseAnswered(c),
           UNCHANGED <<account, faults, cleared>>
    PROVE  SessionInv'
<1>1. /\ c \in Call /\ CallFits(c) /\ TabFits(tab) /\ tab \in Tab
      /\ storage \in Token \cup {None} /\ Issued(storage)
      /\ c.token \in Token \cup {None} /\ c.user \in Profile \cup {None}
      /\ Issued(c.token) /\ LetIn(c.user)
  BY DEF SessionInv, TypeOK, Call, CallFits
<1>2. CASE Refused(c)
  BY <1>2, FreshFits, BrowserMoves DEF Refused, Issued
<1>3. CASE SignedIn(c)
  <2>1. PICK d : d = NewCall("signin me", None, c.token)
    OBVIOUS
  <2>2. d \in Call /\ CallFits(d)
    BY <1>1, <2>1, NewCallFits DEF FormOps
  <2>3. storage' = c.token /\ calls' = (calls \ {c}) \cup {d} /\ tab' = tab
    BY <1>3, <2>1 DEF SignedIn
  <2> QED
    BY <1>1, <2>2, <2>3, BrowserMoves
<1>4. CASE CodeWanted(c)
  <2>1. TabFits([tab EXCEPT !.code = c.m])
    BY <1>1 DEF TabFits, Tab, Call
  <2> QED
    BY <1>4, <2>1, BrowserMoves DEF CodeWanted, Finish
<1>5. CASE Registered(c)
  <2>1. PICK d : d = NewCall("login", c.m, storage)
    OBVIOUS
  <2>2. d \in Call /\ CallFits(d)
    BY <1>1, <1>5, <2>1, NewCallFits DEF Registered, CallFits, FormOps
  <2>3. calls' = (calls \ {c}) \cup {d} /\ UNCHANGED <<storage, tab>>
    BY <1>5, <2>1 DEF Registered
  <2> QED
    BY <2>2, <2>3, BrowserMoves
<1>6. CASE Fetched(c)
  <2>1. PICK s : s = [tab EXCEPT !.user = IF c.answer = "ok" THEN c.user ELSE @,
                                 !.page = IF c.op = "signin me" THEN "dashboard" ELSE @,
                                 !.code = IF c.op = "signin me" THEN None ELSE @,
                                 !.hydrated = @ \/ (c.op = "layout me" /\ tab.page = "dashboard")]
    OBVIOUS
  <2>2. /\ s \in Tab
        /\ s.user = IF c.answer = "ok" THEN c.user ELSE tab.user
        /\ s.page = IF c.op = "signin me" THEN "dashboard" ELSE tab.page
        /\ s.hydrated = (tab.hydrated \/ (c.op = "layout me" /\ tab.page = "dashboard"))
    BY <1>1, <2>1 DEF Tab
  <2>3. /\ c.op \in MeOps /\ c.answer \in {"ok", "failed"}
        /\ c.answer = "ok" => c.user # None
        /\ c.answer = "failed" => faults > 0
    BY <1>1, <1>6 DEF Fetched, CallFits
  <2>4. LetIn(s.user)
    BY <1>1, <2>2 DEF TabFits, LetIn
  <2>5. s.hydrated => s.page = "dashboard" /\ (s.user # None \/ faults > 0)
    BY <1>1, <2>2, <2>3 DEF TabFits
  <2>6. TabFits(Shown(s, storage))
    BY <2>2, <2>4, <2>5, ShownFits
  <2>7. PICK d : d = NewCall("layout me", None, storage)
    OBVIOUS
  <2>8. d \in Call /\ CallFits(d)
    BY <1>1, <2>7, NewCallFits DEF FormOps
  <2>9. tab' = Shown(s, storage) /\ calls' \subseteq calls \cup {d} /\ UNCHANGED storage
    BY <1>6, <2>1, <2>7 DEF Fetched
  <2> QED
    BY <2>6, <2>8, <2>9, BrowserMoves
<1>7. CASE KYCSent(c)
  <2>1. TabFits([tab EXCEPT !.wall.done = @ \/ (c.answer = "ok" /\ OnWall(tab))])
    BY <1>1 DEF TabFits, Tab, Wall
  <2> QED
    BY <1>7, <2>1, BrowserMoves DEF KYCSent, Finish
<1>8. CASE OtherwiseAnswered(c)
  BY <1>8, BrowserMoves DEF OtherwiseAnswered, Finish
<1> QED
  BY <1>2, <1>3, <1>4, <1>5, <1>6, <1>7, <1>8

LEMMA SessionStep == SessionInv /\ [Next]_vars => SessionInv'
<1> SUFFICES ASSUME SessionInv, [Next]_vars PROVE SessionInv'
  OBVIOUS
<1>1. CASE Serve
  BY <1>1, ServedKeepsSession DEF Serve
<1>2. CASE Deliver
  BY <1>2, DeliveredKeeps DEF Deliver
<1>3. CASE Verify2FA
  <2>1. tab.code \in Merchants
    BY <1>3 DEF Verify2FA, SessionInv, TypeOK, Tab
  <2> QED
    BY <1>3, <2>1, FormKeeps
<1>4. CASE ElsewhereSignsOut
  BY <1>4, BrowserMoves DEF ElsewhereSignsOut, Issued
<1>5. CASE UNCHANGED vars
  BY <1>5, BrowserMoves DEF vars
<1> QED
  BY <1>1, <1>2, <1>3, <1>4, <1>5, PageActionKeeps, FormKeeps, OutsideKeeps, FailKeeps DEF Next

\* The tab, its calls and the accounts have the types TypeOK gives them, and
\* what the tab knows of an account is or was so.
THEOREM SessionInvariant == Spec => []SessionInv
BY SessionInitInv, SessionStep, PTL DEF Spec

\* The pages below the layout are shown for a merchant who was let in, whatever
\* tabs, calls and reviews overlap (dashboard/layout.tsx:14).
THEOREM ContentNeedsApproval == Spec => []ContentIsForCleared
<1>1. SessionInv => ContentIsForCleared
  <2> SUFFICES ASSUME SessionInv, OnContent(tab)
               PROVE  IF tab.user = None THEN faults > 0 ELSE tab.user.m \in cleared
    BY DEF ContentIsForCleared
  <2>1. TabFits(tab) /\ tab.hydrated /\ ~Walled(tab.user)
    BY DEF SessionInv, OnContent
  <2>2. tab.user # None => tab.user.kyc \in Kyc
    BY <2>1 DEF TabFits, Tab, Profile
  <2> QED
    BY <2>1, <2>2 DEF TabFits, LetIn, Walled, Kyc
<1> QED
  BY <1>1, SessionInvariant, PTL

\* What takes a token away that the server still accepts.
LEMMA ValidTokenLeaves ==
    ASSUME SessionInv, [Next]_vars, Accepted(storage), storage' = None
    PROVE  \/ Logout
           \/ ElsewhereSignsOut
           \/ \E c \in calls \ calls' :
                \/ c.op \in FormOps
                \/ c.answer = "inactive"
                \/ c.answer = "unauthorized" /\ c.auth # storage
<1>1. storage' # storage
  BY DEF Accepted
<1>2. ASSUME NEW c \in calls, Refused(c)
      PROVE  \E d \in calls \ calls' : \/ d.op \in FormOps
                                       \/ d.answer = "inactive"
                                       \/ d.answer = "unauthorized" /\ d.auth # storage
  <2>1. CallFits(c) /\ c.answer \in {"unauthorized", "inactive"} /\ c \notin calls'
    BY <1>2 DEF SessionInv, Refused
  <2>2. c.op \in FormOps \/ c.answer = "inactive" \/ c.auth # storage
    BY <2>1 DEF CallFits
  <2> QED
    BY <2>1, <2>2
<1>3. ASSUME NEW c \in calls, SignedIn(c)
      PROVE  FALSE
  BY <1>3 DEF SessionInv, CallFits, SignedIn
<1>4. CASE Deliver
  <2>1. PICK c \in calls : \/ Refused(c) \/ SignedIn(c) \/ CodeWanted(c) \/ Registered(c)
                           \/ Fetched(c) \/ KYCSent(c) \/ OtherwiseAnswered(c)
    BY <1>4 DEF Deliver
  <2>2. Refused(c)
    BY <1>1, <1>3, <2>1
       DEF CodeWanted, Registered, Fetched, KYCSent, OtherwiseAnswered
  <2> QED
    BY <1>2, <2>2
<1>5. ASSUME NEW m \in Merchants, ElsewhereSignsIn(m)
      PROVE  FALSE
  <2>1. TokenOf(m) \in Token
    BY DEF SessionInv, TypeOK, TokenOf, Token, Account
  <2> QED
    BY <1>5, <2>1, NoneAssumption DEF ElsewhereSignsIn
<1>6. CASE OpenDashboard \/ ReadPage \/ Verify2FA \/ BackToLogin \/ Scan \/ SubmitKYC
           \/ PollStatus \/ Serve \/ Fail \/ UNCHANGED vars
  BY <1>1, <1>6 DEF OpenDashboard, ReadPage, Verify2FA, Submit, BackToLogin, Scan, SubmitKYC,
                    PollStatus, Serve, Fail, vars
<1>7. ASSUME NEW m \in Merchants,
             Login(m) \/ Signup(m) \/ Approve(m) \/ Suspend(m) \/ EndSessions(m)
      PROVE  FALSE
  BY <1>1, <1>7 DEF Login, Signup, Submit, Approve, Suspend, EndSessions
<1> QED
  BY <1>4, <1>5, <1>6, <1>7 DEF Next

\* A session the server accepts ends by a sign-out, by a wrong password or code,
\* because the merchant was found inactive, or by the answer to a call made
\* under another session: no call of its own is refused (lib/api-client.ts:34).
THEOREM ValidSessionsLast == Spec => ValidSessionEndsFromOutside
<1>1. SessionInv /\ [Next]_vars =>
        [(Accepted(storage) /\ storage' = None) =>
           \/ Logout
           \/ ElsewhereSignsOut
           \/ \E c \in calls \ calls' :
                \/ c.op \in FormOps
                \/ c.answer = "inactive"
                \/ c.answer = "unauthorized" /\ c.auth # storage]_vars
  BY ValidTokenLeaves
<1> QED
  BY <1>1, SessionInvariant, PTL DEF Spec, ValidSessionEndsFromOutside

---------------------------------------------------------------------------
(* The lists of the console, for any rows, edits, pages and losses. *)

EditOp == {"add", "remove", "change", "test"}
Cell == {"none", "fresh", "changed", "twice"}

Asked == [op : {"load"} \cup EditOp, row : Rows \cup {None}, cause : {None} \cup EditOp,
          way : {"prev", "captured", "reload", "later"}, list : [Rows -> Cell],
          mine : BOOLEAN, step : {"sent", "ok", "failed"}, n : Nat]

ListPage == {"other"} \cup UNION {PagesOf[s] : s \in DOMAIN PagesOf}
Tally == [edits : Nat, opens : Nat, losses : Nat, sent : Nat, newest : Nat]

ListsTyped ==
    /\ subject \in DOMAIN PagesOf
    /\ stored \in [Rows -> {Unused, "fresh", "changed", "gone"}]
    /\ screen \in [page : ListPage, list : [Rows -> Cell], loading : BOOLEAN]
    /\ asked \in SUBSET Asked
    /\ tally \in Tally
    /\ smooth \in BOOLEAN

IsPatch(a) == a.way \in {"prev", "captured"}

\* Requests are numbered as they are sent, and only additions and removals
\* patch a list.
RequestsFit ==
    /\ \A a \in asked :
          /\ 1 <= a.n /\ a.n <= tally.sent
          /\ a.op = "load" => a.way = "reload"
          /\ a.op # "load" => a.row \in Rows
          /\ a.way = "prev" => a.op = "add"
          /\ a.way = "captured" => a.op \in {"add", "remove"}
          /\ a.mine /\ screen.page = "subscriptions" => ~IsPatch(a)
    /\ \A a, b \in asked : a.n = b.n => a = b
    /\ tally.newest <= tally.sent

\* Nothing is under way but edits that patch the list: it is right but for
\* the rows of those that were served.
PatchesAreRight ==
    (\A a \in asked : IsPatch(a)) =>
        /\ \A r \in Rows : \/ screen.list[r] = Visible(stored)[r]
                           \/ \E a \in asked : a.row = r /\ a.step = "ok"
        /\ \A a \in asked :
              /\ a.op = "add" => /\ screen.list[a.row] = "none"
                                 /\ stored[a.row] = IF a.step = "sent" THEN Unused ELSE "fresh"
              /\ a.op = "remove" /\ a.step = "ok" => stored[a.row] = "gone"
              /\ a.way = "captured" => a.list = screen.list
        /\ \A a, b \in asked : a.row = b.row => a = b

\* Nothing is under way but loads: the one asked for last is right, and so is
\* the list once that was shown.
LoadsAreRight ==
    asked # {} /\ (\A a \in asked : a.op = "load") =>
        /\ (\A a \in asked : a.n <= tally.newest) => screen.list = Visible(stored)
        /\ \A a \in asked :
              a.step = "ok" /\ a.n > tally.newest /\ (\A b \in asked : b.n <= a.n)
              => a.list = Visible(stored)

ListsInv ==
    /\ ListsTyped /\ RequestsFit
    /\ smooth /\ screen.page # "other" =>
          /\ \A a \in asked : a.mine /\ a.step # "failed"
          /\ ~Overlap(asked)
          /\ PatchesAreRight /\ LoadsAreRight

LEMMA NothingIsList == NothingShown \in [Rows -> Cell]
BY DEF NothingShown, Cell

LEMMA VisibleIsList ==
    ASSUME ListsTyped
    PROVE  /\ Visible(stored) \in [Rows -> Cell]
           /\ \A r \in Rows : Visible(stored)[r] =
                                 IF stored[r] \in {"fresh", "changed"} THEN stored[r] ELSE "none"
BY DEF ListsTyped, Visible, Cell

LEMMA ListsInitInv == ListsInit => ListsInv
<1> SUFFICES ASSUME ListsInit PROVE ListsInv
  OBVIOUS
<1>1. stored \in [Rows -> {Unused, "fresh", "changed", "gone"}]
  BY DEF ListsInit
<1>2. ListsTyped
  BY <1>1, NothingIsList DEF ListsInit, ListsTyped, ListPage, Tally
<1>3. RequestsFit /\ screen.page = "other"
  BY DEF ListsInit, RequestsFit
<1> QED
  BY <1>2, <1>3 DEF ListsInv

\* An edit is asked for.
LEMMA AskKeeps ==
    ASSUME ListsInv, NEW op \in EditOp, NEW row \in Rows,
           NEW way \in {"prev", "captured", "reload", "later"}, Ask(op, row, way),
           way = "prev" => op = "add",
           way = "captured" => op \in {"add", "remove"},
           op = "add" => stored[row] = Unused /\ \A a \in asked : a.row # row,
           screen.page = "subscriptions" => way \in {"reload", "later"}
    PROVE  ListsInv'
<1>1. PICK q : q = [op |-> op, row |-> row, cause |-> None, way |-> way, list |-> screen.list,
                    mine |-> TRUE, step |-> "sent", n |-> tally.sent + 1]
  OBVIOUS
<1>2. ListsTyped /\ RequestsFit /\ tally \in Tally
  BY DEF ListsInv, ListsTyped
<1>3. /\ q \in Asked /\ q.op = op /\ q.row = row /\ q.way = way /\ q.list = screen.list
      /\ q.mine /\ q.step = "sent" /\ q.n = tally.sent + 1
  BY <1>1, <1>2 DEF Asked, ListsTyped, Tally
<1>4. /\ asked' = asked \cup {q} /\ UNCHANGED <<subject, stored, screen>>
      /\ smooth' = (smooth /\ ~Overlap(asked'))
      /\ tally' = [tally EXCEPT !.edits = @ + 1, !.sent = @ + 1]
  BY <1>1 DEF Ask
<1>5. /\ tally' \in Tally
      /\ tally'.sent = tally.sent + 1 /\ tally'.newest = tally.newest
      /\ tally.sent \in Nat /\ tally.newest \in Nat
  <2>1. PICK d : d = [tally EXCEPT !.edits = @ + 1]
    OBVIOUS
  <2>2. d \in Tally /\ d.sent = tally.sent /\ d.newest = tally.newest
    BY <1>2, <2>1 DEF Tally
  <2>3. tally' = [d EXCEPT !.sent = @ + 1]
    BY <1>4, <2>1
  <2> QED
    BY <1>2, <2>2, <2>3 DEF Tally
<1>6. ListsTyped'
  <2>1. asked' \in SUBSET Asked
    BY <1>2, <1>3, <1>4 DEF ListsTyped
  <2>2. smooth' \in BOOLEAN
    BY <1>4, Zenon
  <2> QED
    BY <1>2, <1>4, <1>5, <2>1, <2>2 DEF ListsTyped
<1>7. \A a \in asked : a.n \in Nat /\ a.n # q.n /\ a # q
  BY <1>2, <1>3, <1>5 DEF RequestsFit, ListsTyped, Asked
<1>8. RequestsFit'
  BY <1>2, <1>3, <1>4, <1>5, <1>7 DEF RequestsFit, IsPatch, EditOp
<1>9. ASSUME smooth', screen.page # "other"
      PROVE  /\ \A a \in asked' : a.mine /\ a.step # "failed"
             /\ ~Overlap(asked') /\ PatchesAreRight' /\ LoadsAreRight'
  <2>1. /\ \A a \in asked : a.mine /\ a.step # "failed"
        /\ ~Overlap(asked') /\ PatchesAreRight
    BY <1>4, <1>9 DEF ListsInv
  <2>2. LoadsAreRight'
    BY <1>3, <1>4 DEF LoadsAreRight, EditOp
  <2>3. ASSUME \A a \in asked' : IsPatch(a)
        PROVE  /\ \A r \in Rows : \/ screen.list[r] = Visible(stored)[r]
                                  \/ \E a \in asked' : a.row = r /\ a.step = "ok"
               /\ \A a \in asked' :
                     /\ a.op = "add" =>
                           /\ screen.list[a.row] = "none"
                           /\ stored[a.row] = IF a.step = "sent" THEN Unused ELSE "fresh"
                     /\ a.op = "remove" /\ a.step = "ok" => stored[a.row] = "gone"
                     /\ a.way = "captured" => a.list = screen.list
               /\ \A a, b \in asked' : a.row = b.row => a = b
    <3>1. /\ \A r \in Rows : \/ screen.list[r] = Visible(stored)[r]
                             \/ \E a \in asked : a.row = r /\ a.step = "ok"
          /\ \A a \in asked :
                /\ a.op = "add" => /\ screen.list[a.row] = "none"
                                   /\ stored[a.row] = IF a.step = "sent" THEN Unused ELSE "fresh"
                /\ a.op = "remove" /\ a.step = "ok" => stored[a.row] = "gone"
                /\ a.way = "captured" => a.list = screen.list
          /\ \A a, b \in asked : a.row = b.row => a = b
      BY <1>4, <2>1, <2>3 DEF PatchesAreRight
    <3>2. way = "captured" => asked = {}
      BY <1>3, <1>4, <1>7, <2>1 DEF Overlap
    <3>3. \A a \in asked : a.row # row
      BY <1>3, <1>4, <2>3, <3>2 DEF IsPatch
    <3>4. op = "add" => screen.list[row] = "none" /\ stored[row] = Unused
      BY <1>2, <3>1, <3>3, VisibleIsList DEF Unused
    <3> QED
      BY <1>3, <1>4, <3>1, <3>3, <3>4
  <2> QED
    BY <1>3, <1>4, <2>1, <2>2, <2>3 DEF PatchesAreRight
<1> QED
  BY <1>4, <1>6, <1>8, <1>9 DEF ListsInv

\* Every button of every page asks for one edit, which patches only where the
\* page does and only what it can.
LEMMA ButtonsAsk ==
    ASSUME ListsInv,
           \/ SettingsTabs \/ ApiKeysPage \/ DevelopersPage \/ TeamPage \/ PaymentLinksPage
           \/ DisputesPage \/ (SubscriptionsPage /\ ~RefreshSubscriptions) \/ BankingLists
           \/ SettlementsPage
    PROVE  ListsInv'
<1>1. ASSUME NEW way \in {"prev", "captured", "reload", "later"}, Add(way),
             screen.page = "subscriptions" => way \in {"reload", "later"}
      PROVE  ListsInv'
  <2>1. PICK r \in Rows : /\ stored[r] = Unused /\ \A a \in asked : a.row # r
                          /\ Ask("add", r, way)
    BY <1>1 DEF Add
  <2> QED
    BY <1>1, <2>1, AskKeeps DEF EditOp
<1>2. ASSUME NEW op \in {"remove", "change", "test"}, NEW r \in Rows,
             NEW way \in {"captured", "reload", "later"}, Ask(op, r, way),
             way = "captured" => op = "remove" /\ screen.page # "subscriptions"
      PROVE  ListsInv'
  BY <1>2, AskKeeps DEF EditOp
<1>3. Listed \subseteq Rows
  BY DEF Listed
<1>4. CASE SettingsTabs
  BY <1>1, <1>2, <1>3, <1>4 DEF SettingsTabs, SettingsGenerateKey, SettingsRevokeKey,
                                SettingsCreateWebhook, SettingsDeleteWebhook, At
<1>5. CASE ApiKeysPage \/ TeamPage
  BY <1>1, <1>2, <1>3, <1>5 DEF ApiKeysPage, ApiGenerateKey, ApiRevokeKey, TeamPage,
                                HandleInvite, HandleRemove, At
<1>6. CASE DevelopersPage
  BY <1>1, <1>2, <1>3, <1>6 DEF DevelopersPage, DevGenerateKey, DevCreateWebhook,
                                FireTestWebhook
<1>7. CASE PaymentLinksPage \/ DisputesPage
  BY <1>1, <1>2, <1>3, <1>7 DEF PaymentLinksPage, HandleCreateLink, HandleDeleteLink,
                                DisputesPage, HandleSubmitEvidence, HandleCreateDispute
<1>8. CASE SubscriptionsPage /\ ~RefreshSubscriptions
  BY <1>1, <1>2, <1>3, <1>8 DEF SubscriptionsPage, HandleCreateSubscription,
                                HandleCreatePlan, HandleCancelSubscription
<1>9. CASE BankingLists \/ SettlementsPage
  BY <1>1, <1>9 DEF BankingLists, HandleAddBankAccount, WithdrawalRow, SettlementsPage,
                    HandleGenerateSettlement, At
<1> QED
  BY <1>4, <1>5, <1>6, <1>7, <1>8, <1>9

\* The subscriptions are loaded again.
LEMMA RefreshKeeps == ListsInv /\ SubscriptionsPage /\ RefreshSubscriptions => ListsInv'
<1> SUFFICES ASSUME ListsInv, SubscriptionsPage, RefreshSubscriptions PROVE ListsInv'
  OBVIOUS
<1>1. PICK q : q = NewLoad(tally.sent + 1)
  OBVIOUS
<1>2. /\ ListsTyped /\ RequestsFit /\ tally \in Tally /\ asked \in SUBSET Asked
      /\ tally.sent \in Nat /\ tally.newest \in Nat /\ tally.newest <= tally.sent
  BY DEF ListsInv, ListsTyped, Tally, RequestsFit
<1>3. /\ q \in Asked /\ q.op = "load" /\ q.way = "reload" /\ q.mine /\ q.step = "sent"
      /\ q.n = tally.sent + 1
  BY <1>1, <1>2, NothingIsList DEF NewLoad, Asked
<1>4. /\ tally' = [tally EXCEPT !.edits = @ + 1, !.sent = @ + 1]
      /\ screen' = [screen EXCEPT !.loading = TRUE]
      /\ asked' = asked \cup {q}
      /\ UNCHANGED <<subject, stored, smooth>> /\ screen.page = "subscriptions"
  BY <1>1 DEF RefreshSubscriptions, SubscriptionsPage
<1>5. tally' \in Tally /\ tally'.sent = tally.sent + 1 /\ tally'.newest = tally.newest
  <2>1. PICK d : d = [tally EXCEPT !.edits = @ + 1]
    OBVIOUS
  <2>2. d \in Tally /\ d.sent = tally.sent /\ d.newest = tally.newest
    BY <1>2, <2>1 DEF Tally
  <2>3. tally' = [d EXCEPT !.sent = @ + 1]
    BY <1>4, <2>1
  <2> QED
    BY <1>2, <2>2, <2>3 DEF Tally
<1>6. ListsTyped'
  BY <1>2, <1>3, <1>4, <1>5 DEF ListsTyped
<1>7. \A a \in asked : a.n \in Nat /\ a.n <= tally.sent /\ a.n # q.n /\ a # q
  BY <1>2, <1>3 DEF RequestsFit, Asked
<1>8. screen'.page = "subscriptions"
  BY <1>2, <1>4 DEF ListsTyped
<1>9. RequestsFit'
  BY <1>2, <1>3, <1>4, <1>5, <1>7, <1>8 DEF RequestsFit, IsPatch
<1>10. ASSUME smooth
       PROVE  /\ \A a \in asked' : a.mine /\ a.step # "failed"
              /\ ~Overlap(asked') /\ PatchesAreRight' /\ LoadsAreRight'
  <2>1. \A a \in asked : a.mine /\ a.step # "failed" /\ ~IsPatch(a)
    BY <1>2, <1>4, <1>10 DEF ListsInv, RequestsFit
  <2>2. ~Overlap(asked')
    BY <1>3, <1>4, <2>1 DEF Overlap, IsPatch
  <2>3. PatchesAreRight'
    BY <1>3, <1>4 DEF PatchesAreRight, IsPatch
  <2>4. LoadsAreRight'
    BY <1>2, <1>3, <1>4, <1>5, <1>7 DEF LoadsAreRight
  <2> QED
    BY <1>3, <1>4, <2>1, <2>2, <2>3, <2>4
<1> QED
  BY <1>4, <1>6, <1>9, <1>10 DEF ListsInv

\* A page is opened: its first load is all it waits for when no edit was left.
LEMMA ListIsOpened ==
    ASSUME ListsInv, NEW page \in UNION {PagesOf[s] : s \in DOMAIN PagesOf}, OpenList(page)
    PROVE  ListsInv'
<1>1. PICK q : q = NewLoad(tally.sent + 1)
  OBVIOUS
<1>2. /\ ListsTyped /\ RequestsFit /\ tally \in Tally /\ asked \in SUBSET Asked
      /\ tally.sent \in Nat /\ tally.newest \in Nat /\ tally.newest <= tally.sent
  BY DEF ListsInv, ListsTyped, Tally, RequestsFit
<1>3. /\ q \in Asked /\ q.op = "load" /\ q.way = "reload" /\ q.mine /\ q.step = "sent"
      /\ q.n = tally.sent + 1
  BY <1>1, <1>2, NothingIsList DEF NewLoad, Asked
<1>4. /\ tally' = [tally EXCEPT !.opens = @ + 1, !.sent = @ + 1]
      /\ screen' = [page |-> page, list |-> NothingShown, loading |-> TRUE]
      /\ asked' = {[a EXCEPT !.mine = FALSE, !.list = NothingShown] : a \in asked \ Loads}
                      \cup {q}
      /\ UNCHANGED <<subject, stored>>
  BY <1>1 DEF OpenList
<1>5. smooth' \in BOOLEAN /\ (smooth' => asked \ Loads = {})
  BY Zenon DEF OpenList
<1>6. tally' \in Tally /\ tally'.sent = tally.sent + 1 /\ tally'.newest = tally.newest
  <2>1. PICK d : d = [tally EXCEPT !.opens = @ + 1]
    OBVIOUS
  <2>2. d \in Tally /\ d.sent = tally.sent /\ d.newest = tally.newest
    BY <1>2, <2>1 DEF Tally
  <2>3. tally' = [d EXCEPT !.sent = @ + 1]
    BY <1>4, <2>1
  <2> QED
    BY <1>2, <2>2, <2>3 DEF Tally
<1>7. ASSUME NEW c \in asked'
      PROVE  \/ c = q
             \/ \E a \in asked : /\ c \in Asked /\ ~c.mine /\ a.op # "load"
                                 /\ c.n = a.n /\ c.op = a.op /\ c.row = a.row /\ c.way = a.way
                                 /\ c = [a EXCEPT !.mine = FALSE, !.list = NothingShown]
  <2> SUFFICES ASSUME c # q
               PROVE  \E a \in asked : /\ c \in Asked /\ ~c.mine /\ a.op # "load"
                                       /\ c.n = a.n /\ c.op = a.op /\ c.row = a.row
                                       /\ c.way = a.way
                                       /\ c = [a EXCEPT !.mine = FALSE, !.list = NothingShown]
    OBVIOUS
  <2>1. PICK a \in asked \ Loads : c = [a EXCEPT !.mine = FALSE, !.list = NothingShown]
    BY <1>4
  <2>2. a \in asked /\ a \in Asked /\ a.op # "load"
    BY <1>2, <2>1 DEF Loads
  <2>3. PICK b : b = [a EXCEPT !.mine = FALSE]
    OBVIOUS
  <2>4. /\ b \in Asked /\ ~b.mine /\ b.n = a.n /\ b.op = a.op /\ b.row = a.row /\ b.way = a.way
    BY <2>2, <2>3 DEF Asked
  <2>5. c = [b EXCEPT !.list = NothingShown]
    BY <2>1, <2>3
  <2>6. /\ c \in Asked /\ ~c.mine /\ c.n = b.n /\ c.op = b.op /\ c.row = b.row /\ c.way = b.way
    BY <2>4, <2>5, NothingIsList DEF Asked
  <2> QED
    BY <2>1, <2>2, <2>4, <2>6
<1>8. ListsTyped'
  <2>1. screen' \in [page : ListPage, list : [Rows -> Cell], loading : BOOLEAN]
    BY <1>4, NothingIsList DEF ListPage
  <2>2. asked' \in SUBSET Asked
    BY <1>3, <1>7
  <2> QED
    BY <1>2, <1>4, <1>5, <1>6, <2>1, <2>2 DEF ListsTyped
<1>9. RequestsFit'
  <2>1. \A a \in asked : /\ a.n \in Nat /\ 1 <= a.n /\ a.n <= tally.sent
                         /\ a.row \in Rows \/ a.op = "load"
                         /\ a.way = "prev" => a.op = "add"
                         /\ a.way = "captured" => a.op \in {"add", "remove"}
    BY <1>2 DEF RequestsFit, Asked
  <2>2. \A c \in asked' :
           /\ 1 <= c.n /\ c.n <= tally'.sent
           /\ c.op = "load" => c.way = "reload"
           /\ c.op # "load" => c.row \in Rows
           /\ c.way = "prev" => c.op = "add"
           /\ c.way = "captured" => c.op \in {"add", "remove"}
           /\ c.mine => ~IsPatch(c)
    <3> SUFFICES ASSUME NEW c \in asked'
                 PROVE  /\ 1 <= c.n /\ c.n <= tally'.sent
                        /\ c.op = "load" => c.way = "reload"
                        /\ c.op # "load" => c.row \in Rows
                        /\ c.way = "prev" => c.op = "add"
                        /\ c.way = "captured" => c.op \in {"add", "remove"}
                        /\ c.mine => ~IsPatch(c)
      OBVIOUS
    <3>1. CASE c = q
      BY <1>2, <1>3, <1>6, <3>1 DEF IsPatch
    <3>2. CASE c # q
      <4>1. PICK a \in asked : /\ ~c.mine /\ a.op # "load" /\ c.n = a.n /\ c.op = a.op
                               /\ c.row = a.row /\ c.way = a.way
        BY <1>7, <3>2
      <4> QED
        BY <1>2, <1>6, <2>1, <4>1
    <3> QED
      BY <3>1, <3>2
  <2>3. \A a, b \in asked' : a.n = b.n => a = b
    <3> SUFFICES ASSUME NEW a \in asked', NEW b \in asked', a.n = b.n
                 PROVE  a = b
      OBVIOUS
    <3>1. CASE a = q \/ b = q
      <4>1. \A c \in asked' : c # q => c.n \in Nat /\ c.n <= tally.sent
        BY <1>7, <2>1
      <4> QED
        BY <1>2, <1>3, <3>1, <4>1
    <3>2. CASE a # q /\ b # q
      <4>1. PICK d \in asked : a.n = d.n /\ a = [d EXCEPT !.mine = FALSE, !.list = NothingShown]
        BY <1>7, <3>2
      <4>2. PICK e \in asked : b.n = e.n /\ b = [e EXCEPT !.mine = FALSE, !.list = NothingShown]
        BY <1>7, <3>2
      <4>3. d = e
        BY <1>2, <4>1, <4>2 DEF RequestsFit
      <4> QED
        BY <4>1, <4>2, <4>3
    <3> QED
      BY <3>1, <3>2
  <2> QED
    BY <1>2, <1>6, <2>2, <2>3 DEF RequestsFit, IsPatch
<1>10. ASSUME smooth'
       PROVE  /\ \A a \in asked' : a.mine /\ a.step # "failed"
              /\ ~Overlap(asked') /\ PatchesAreRight' /\ LoadsAreRight'
  <2>1. asked' = {q}
    BY <1>4, <1>5, <1>10
  <2>2. ~Overlap(asked')
    BY <2>1 DEF Overlap
  <2>3. PatchesAreRight'
    BY <1>3, <2>1 DEF PatchesAreRight, IsPatch
  <2>4. LoadsAreRight'
    BY <1>2, <1>3, <1>6, <2>1 DEF LoadsAreRight
  <2> QED
    BY <1>3, <2>1, <2>2, <2>3, <2>4
<1> QED
  BY <1>8, <1>9, <1>10 DEF ListsInv

\* The back end serves a request.
LEMMA ListIsServed ==
    ASSUME ListsInv, NEW a \in asked, ServeList(a)
    PROVE  ListsInv'
<1>1. PICK b : b = [a EXCEPT !.step = "ok",
                             !.list = IF a.op = "load" THEN Visible(stored) ELSE @]
  OBVIOUS
<1>2. /\ ListsTyped /\ RequestsFit /\ asked \in SUBSET Asked /\ a \in Asked
      /\ stored \in [Rows -> {Unused, "fresh", "changed", "gone"}]
  BY DEF ListsInv, ListsTyped
<1>3. /\ b \in Asked /\ b.op = a.op /\ b.row = a.row /\ b.way = a.way /\ b.mine = a.mine
      /\ b.step = "ok" /\ b.n = a.n
      /\ a.op = "load" => b.list = Visible(stored)
      /\ a.op # "load" => b.list = a.list
  <2>1. (IF a.op = "load" THEN Visible(stored) ELSE a.list) \in [Rows -> Cell]
    BY <1>2, VisibleIsList DEF Asked
  <2> QED
    BY <1>1, <1>2, <2>1 DEF Asked
<1>4. /\ a.step = "sent" /\ asked' = (asked \ {a}) \cup {b}
      /\ UNCHANGED <<subject, screen, tally, smooth>>
  BY <1>1 DEF ServeList
<1>5. /\ a.op = "add" => stored' = [stored EXCEPT ![a.row] = "fresh"]
      /\ a.op = "remove" => stored' = [stored EXCEPT ![a.row] = "gone"]
      /\ a.op = "change" => stored' = [stored EXCEPT ![a.row] = "changed"]
      /\ a.op \in {"load", "test"} => stored' = stored
  BY DEF ServeList
<1>6. /\ a.op \in {"load", "add", "remove", "change", "test"}
      /\ a.op # "load" => a.row \in Rows
  BY <1>2 DEF Asked, EditOp, RequestsFit
<1>7. ListsTyped'
  <2>1. stored' \in [Rows -> {Unused, "fresh", "changed", "gone"}]
    BY <1>2, <1>5, <1>6
  <2>2. asked' \in SUBSET Asked
    BY <1>2, <1>3, <1>4
  <2> QED
    BY <1>2, <1>4, <2>1, <2>2 DEF ListsTyped
<1>8. RequestsFit'
  BY <1>2, <1>3, <1>4 DEF RequestsFit, IsPatch
<1>9. ASSUME smooth, screen.page # "other"
      PROVE  /\ \A c \in asked' : c.mine /\ c.step # "failed"
             /\ ~Overlap(asked') /\ PatchesAreRight' /\ LoadsAreRight'
  <2>1. /\ \A c \in asked : c.mine /\ c.step # "failed"
        /\ ~Overlap(asked) /\ PatchesAreRight /\ LoadsAreRight
    BY <1>9 DEF ListsInv
  <2>2. \A c \in asked' : c.mine /\ c.step # "failed"
    BY <1>3, <1>4, <2>1
  <2>3. ~Overlap(asked')
    <3> SUFFICES ASSUME NEW c \in asked', NEW d \in asked', c # d, IsPatch(c),
                        ~(c.way = "prev" /\ d.way = "prev")
                 PROVE  FALSE
      BY DEF Overlap, IsPatch
    <3>1. PICK e : e = IF c = b THEN a ELSE c
      OBVIOUS
    <3>2. PICK f : f = IF d = b THEN a ELSE d
      OBVIOUS
    <3>3. e \in asked /\ f \in asked /\ e # f /\ e.way = c.way /\ f.way = d.way
      BY <1>3, <1>4, <3>1, <3>2
    <3> QED
      BY <2>1, <3>3 DEF Overlap, IsPatch
  <2>4. CASE a.op = "load"
    <3>1. b.way = "reload" /\ stored' = stored /\ b.list = Visible(stored)
      BY <1>2, <1>3, <1>5, <2>4 DEF RequestsFit
    <3>2. PatchesAreRight'
      BY <1>4, <3>1 DEF PatchesAreRight, IsPatch
    <3>3. LoadsAreRight'
      <4>1. (\A c \in asked' : c.op = "load") => (\A c \in asked : c.op = "load")
        BY <1>4, <2>4
      <4>2. \A n : (\A c \in asked' : c.n <= n) <=> (\A c \in asked : c.n <= n)
        BY <1>3, <1>4
      <4> QED
        BY <1>3, <1>4, <2>1, <3>1, <4>1, <4>2 DEF LoadsAreRight, Visible
    <3> QED
      BY <2>2, <2>3, <3>2, <3>3
  <2>5. CASE a.op # "load" /\ ~IsPatch(a)
    <3>1. PatchesAreRight' /\ LoadsAreRight'
      BY <1>3, <1>4, <2>5 DEF PatchesAreRight, LoadsAreRight, IsPatch
    <3> QED
      BY <2>2, <2>3, <3>1
  <2>6. CASE a.op # "load" /\ IsPatch(a)
    <3>1. LoadsAreRight'
      BY <1>3, <1>4, <2>6 DEF LoadsAreRight
    <3>2. a.op \in {"add", "remove"} /\ a.row \in Rows
      BY <1>2, <1>6, <2>6 DEF RequestsFit, IsPatch
    <3>3. ASSUME \A c \in asked' : IsPatch(c)
          PROVE  /\ \A r \in Rows : \/ screen.list[r] = Visible(stored')[r]
                                    \/ \E c \in asked' : c.row = r /\ c.step = "ok"
                 /\ \A c \in asked' :
                       /\ c.op = "add" =>
                             /\ screen.list[c.row] = "none"
                             /\ stored'[c.row] = IF c.step = "sent" THEN Unused ELSE "fresh"
                       /\ c.op = "remove" /\ c.step = "ok" => stored'[c.row] = "gone"
                       /\ c.way = "captured" => c.list = screen.list
                 /\ \A c, d \in asked' : c.row = d.row => c = d
      <4>1. \A c \in asked : IsPatch(c)
        BY <1>4, <2>6, <3>3
      <4>2. /\ \A r \in Rows : \/ screen.list[r] = Visible(stored)[r]
                               \/ \E c \in asked : c.row = r /\ c.step = "ok"
            /\ \A c \in asked :
                  /\ c.op = "add" => /\ screen.list[c.row] = "none"
                                     /\ stored[c.row] = IF c.step = "sent" THEN Unused ELSE "fresh"
                  /\ c.op = "remove" /\ c.step = "ok" => stored[c.row] = "gone"
                  /\ c.way = "captured" => c.list = screen.list
            /\ \A c, d \in asked : c.row = d.row => c = d
        BY <2>1, <4>1 DEF PatchesAreRight
      <4>3. /\ stored'[a.row] = IF a.op = "add" THEN "fresh" ELSE "gone"
            /\ \A r \in Rows \ {a.row} : stored'[r] = stored[r]
        BY <1>2, <1>5, <3>2
      <4>4. \A r \in Rows \ {a.row} : Visible(stored')[r] = Visible(stored)[r]
        BY <4>3 DEF Visible
      <4>5. \A c \in asked : c # a => c.row \in Rows \ {a.row}
        <5>1. \A c \in asked : c.op # "load"
          BY <1>2, <4>1 DEF RequestsFit, IsPatch
        <5> QED
          BY <1>2, <4>2, <5>1 DEF RequestsFit
      <4>6. ASSUME NEW r \in Rows
            PROVE  \/ screen.list[r] = Visible(stored')[r]
                   \/ \E c \in asked' : c.row = r /\ c.step = "ok"
        BY <1>3, <1>4, <4>2, <4>4
      <4>7. ASSUME NEW c \in asked'
            PROVE  /\ c.op = "add" =>
                         /\ screen.list[c.row] = "none"
                         /\ stored'[c.row] = IF c.step = "sent" THEN Unused ELSE "fresh"
                   /\ c.op = "remove" /\ c.step = "ok" => stored'[c.row] = "gone"
                   /\ c.way = "captured" => c.list = screen.list
        <5>1. CASE c = b
          BY <1>3, <2>6, <4>2, <4>3, <5>1
        <5>2. CASE c # b
          BY <1>4, <4>2, <4>3, <4>5, <5>2
        <5> QED
          BY <5>1, <5>2
      <4> QED
        BY <1>3, <1>4, <4>2, <4>6, <4>7
    <3>4. PatchesAreRight'
      BY <1>4, <3>3 DEF PatchesAreRight, Visible
    <3> QED
      BY <2>2, <2>3, <3>1, <3>4
  <2> QED
    BY <2>4, <2>5, <2>6
<1> QED
  BY <1>4, <1>7, <1>8, <1>9 DEF ListsInv

\* A request or its answer is lost.
LEMMA ListIsLost ==
    ASSUME ListsInv, NEW a \in asked, Lose(a)
    PROVE  ListsInv'
<1>1. PICK b : b = [a EXCEPT !.step = "failed"]
  OBVIOUS
<1>2. /\ ListsTyped /\ RequestsFit /\ asked \in SUBSET Asked /\ a \in Asked /\ tally \in Tally
  BY DEF ListsInv, ListsTyped
<1>3. /\ b \in Asked /\ b.op = a.op /\ b.row = a.row /\ b.way = a.way /\ b.mine = a.mine
      /\ b.n = a.n
  BY <1>1, <1>2 DEF Asked
<1>4. /\ tally' = [tally EXCEPT !.losses = @ + 1]
      /\ asked' = (asked \ {a}) \cup {b}
      /\ smooth' = FALSE
      /\ UNCHANGED <<subject, stored, screen>>
  BY <1>1 DEF Lose
<1>5. tally' \in Tally /\ tally'.sent = tally.sent /\ tally'.newest = tally.newest
  BY <1>2, <1>4 DEF Tally
<1>6. ListsTyped'
  BY <1>2, <1>3, <1>4, <1>5 DEF ListsTyped
<1>7. RequestsFit'
  BY <1>2, <1>3, <1>4, <1>5 DEF RequestsFit, IsPatch
<1> QED
  BY <1>4, <1>6, <1>7 DEF ListsInv

\* A load is shown.
LEMMA LoadIsShown ==
    ASSUME ListsInv, NEW a \in asked, LoadAnswered(a)
    PROVE  ListsInv'
<1>1. /\ ListsTyped /\ RequestsFit /\ asked \in SUBSET Asked /\ a \in Asked /\ tally \in Tally
      /\ screen \in [page : ListPage, list : [Rows -> Cell], loading : BOOLEAN]
      /\ tally.newest \in Nat /\ \A b \in asked : b.n \in Nat /\ b.n <= tally.sent
  BY DEF ListsInv, ListsTyped, Tally, Asked, RequestsFit
<1>2. /\ a.op = "load" /\ a.way = "reload" /\ a.step # "sent" /\ asked' = asked \ {a}
      /\ tally' = [tally EXCEPT !.newest = IF a.n > @ THEN a.n ELSE @]
      /\ UNCHANGED <<subject, stored>>
  BY <1>1 DEF LoadAnswered, RequestsFit
<1>3. PICK list : list = IF a.step = "ok" THEN a.list
                         ELSE IF screen.page = "subscriptions" THEN NothingShown
                         ELSE screen.list
  OBVIOUS
<1>4. list \in [Rows -> Cell] /\ (a.step = "ok" => list = a.list)
  BY <1>1, <1>3, NothingIsList DEF Asked
<1>5. screen' = [screen EXCEPT !.loading = FALSE, !.list = list]
  BY <1>3 DEF LoadAnswered
<1>6. /\ screen' \in [page : ListPage, list : [Rows -> Cell], loading : BOOLEAN]
      /\ screen'.page = screen.page /\ screen'.list = list
  BY <1>1, <1>4, <1>5
<1>7. /\ tally' \in Tally /\ tally'.sent = tally.sent
      /\ tally'.newest = IF a.n > tally.newest THEN a.n ELSE tally.newest
  BY <1>1, <1>2 DEF Tally
<1>8. smooth' \in BOOLEAN /\ (smooth' => smooth /\ a.n > tally.newest)
  BY Zenon DEF LoadAnswered
<1>9. ListsTyped'
  BY <1>1, <1>2, <1>6, <1>7, <1>8 DEF ListsTyped
<1>10. RequestsFit'
  BY <1>1, <1>2, <1>6, <1>7 DEF RequestsFit, IsPatch
<1>11. ASSUME smooth', screen.page # "other"
       PROVE  /\ \A c \in asked' : c.mine /\ c.step # "failed"
              /\ ~Overlap(asked') /\ PatchesAreRight' /\ LoadsAreRight'
  <2>1. /\ \A c \in asked : c.mine /\ c.step # "failed"
        /\ ~Overlap(asked) /\ LoadsAreRight
        /\ a.n > tally.newest /\ tally'.newest = a.n
    BY <1>7, <1>8, <1>11 DEF ListsInv
  <2>2. a.step = "ok" /\ list = a.list
    BY <1>1, <1>2, <1>4, <2>1 DEF Asked
  <2>3. ~Overlap(asked')
    BY <1>2, <2>1 DEF Overlap
  <2>4. ASSUME \A b \in asked : b.op = "load", \A b \in asked : b.n <= a.n
        PROVE  list = Visible(stored)
    BY <2>1, <2>2, <2>4 DEF LoadsAreRight
  <2>5. Visible(stored)' = Visible(stored)
    BY <1>2 DEF Visible
  <2>6. PatchesAreRight'
    <3>1. CASE asked' = {}
      <4>1. asked = {a}
        BY <1>2, <3>1
      <4>2. list = Visible(stored)
        BY <1>1, <1>2, <2>4, <4>1
      <4> QED
        BY <1>6, <2>5, <3>1, <4>2 DEF PatchesAreRight
    <3>2. CASE asked' # {}
      <4>1. PICK b \in asked' : TRUE
        BY <3>2
      <4>2. ~IsPatch(b)
        BY <1>2, <2>1, <4>1 DEF Overlap, IsPatch
      <4> QED
        BY <4>1, <4>2 DEF PatchesAreRight, IsPatch
    <3> QED
      BY <3>1, <3>2
  <2>7. LoadsAreRight'
    <3> SUFFICES ASSUME \A b \in asked' : b.op = "load"
                 PROVE  /\ (\A b \in asked' : b.n <= a.n) => list = Visible(stored)
                        /\ \A b \in asked' :
                              b.step = "ok" /\ b.n > a.n /\ (\A c \in asked' : c.n <= b.n)
                              => b.list = Visible(stored)
      BY <1>6, <2>1, <2>5 DEF LoadsAreRight
    <3>1. \A b \in asked : b.op = "load"
      BY <1>2
    <3>2. (\A b \in asked' : b.n <= a.n) => \A b \in asked : b.n <= a.n
      BY <1>1, <1>2
    <3>3. ASSUME NEW b \in asked', b.step = "ok", b.n > a.n, \A c \in asked' : c.n <= b.n
          PROVE  b.list = Visible(stored)
      <4>1. b \in asked /\ b.n > tally.newest /\ \A c \in asked : c.n <= b.n
        BY <1>1, <1>2, <2>1, <3>3
      <4> QED
        BY <2>1, <3>1, <3>3, <4>1 DEF LoadsAreRight
    <3> QED
      BY <2>4, <3>1, <3>2, <3>3
  <2> QED
    BY <1>2, <2>1, <2>3, <2>6, <2>7
<1> QED
  BY <1>6, <1>8, <1>9, <1>10, <1>11 DEF ListsInv

\* The list with the row of an answered edit patched, where it had no part yet.
LEMMA PatchedIsList ==
    ASSUME NEW list \in [Rows -> Cell], NEW a, a.row \in Rows
    PROVE  /\ Patched(list, a) \in [Rows -> Cell]
           /\ \A r \in Rows \ {a.row} : Patched(list, a)[r] = list[r]
           /\ a.op = "remove" => Patched(list, a)[a.row] = "none"
           /\ a.op = "add" /\ list[a.row] = "none" => Patched(list, a)[a.row] = "fresh"
BY DEF Patched, Cell

\* An edit's answer patches the list or asks for it again.
LEMMA EditIsShown ==
    ASSUME ListsInv, NEW a \in asked, EditAnswered(a)
    PROVE  ListsInv'
<1>1. /\ ListsTyped /\ RequestsFit /\ asked \in SUBSET Asked /\ a \in Asked /\ tally \in Tally
      /\ screen \in [page : ListPage, list : [Rows -> Cell], loading : BOOLEAN]
      /\ tally.newest \in Nat /\ tally.sent \in Nat /\ tally.newest <= tally.sent
      /\ \A b \in asked : b.n \in Nat /\ b.n <= tally.sent
  BY DEF ListsInv, ListsTyped, Tally, Asked, RequestsFit
<1>2. PICK works, again : /\ works = (a.mine /\ a.step = "ok")
                          /\ again = (works /\ a.way \in {"reload", "later"})
  OBVIOUS
<1>3. PICK list : list = CASE works /\ a.way = "prev" -> Patched(screen.list, a)
                           [] works /\ a.way = "captured" -> Patched(a.list, a)
                           [] OTHER -> screen.list
  OBVIOUS
<1>4. PICK q : q = [NewLoad(tally.sent + 1) EXCEPT !.cause = a.op]
  OBVIOUS
<1>5. /\ a.op # "load" /\ a.op \in EditOp /\ a.row \in Rows /\ a.step # "sent"
      /\ screen' = [screen EXCEPT !.loading = @ \/ again, !.list = list]
      /\ asked' = (asked \ {a}) \cup IF again THEN {q} ELSE {}
      /\ tally' = IF again THEN [tally EXCEPT !.sent = @ + 1] ELSE tally
      /\ UNCHANGED <<subject, stored>>
  <2>1. a.op # "load" /\ a.op \in EditOp /\ a.row \in Rows
    BY <1>1 DEF EditAnswered, RequestsFit, Asked
  <2> QED
    BY <1>2, <1>3, <1>4, <2>1 DEF EditAnswered
<1>6. smooth' \in BOOLEAN /\ (smooth' => smooth /\ ~Overlap(asked'))
  BY Zenon DEF EditAnswered
<1>7. /\ q \in Asked /\ q.op = "load" /\ q.way = "reload" /\ q.mine /\ q.step = "sent"
      /\ q.n = tally.sent + 1
  <2>1. PICK p : p = NewLoad(tally.sent + 1)
    OBVIOUS
  <2>2. /\ p \in Asked /\ p.op = "load" /\ p.way = "reload" /\ p.mine /\ p.step = "sent"
        /\ p.n = tally.sent + 1
    BY <1>1, <2>1, NothingIsList DEF NewLoad, Asked
  <2> QED
    BY <1>4, <1>5, <2>1, <2>2 DEF Asked
<1>8. list \in [Rows -> Cell]
  BY <1>1, <1>3, <1>5, PatchedIsList DEF Asked
<1>9. /\ screen' \in [page : ListPage, list : [Rows -> Cell], loading : BOOLEAN]
      /\ screen'.page = screen.page /\ screen'.list = list
  <2>1. (screen.loading \/ again) \in BOOLEAN
    OBVIOUS
  <2> QED
    BY <1>1, <1>5, <1>8, <2>1
<1>10. /\ tally' \in Tally /\ tally'.newest = tally.newest
       /\ tally'.sent = IF again THEN tally.sent + 1 ELSE tally.sent
  BY <1>1, <1>5 DEF Tally
<1>11. ListsTyped'
  <2>1. asked' \in SUBSET Asked
    BY <1>1, <1>5, <1>7
  <2> QED
    BY <1>1, <1>5, <1>6, <1>9, <1>10, <2>1 DEF ListsTyped
<1>12. RequestsFit'
  <2>1. \A b \in asked' : b \in asked \/ (again /\ b = q)
    BY <1>5
  <2>2. tally.sent <= tally'.sent
    BY <1>1, <1>10
  <2>3. ASSUME NEW b \in asked'
        PROVE  /\ 1 <= b.n /\ b.n <= tally'.sent
               /\ b.op = "load" => b.way = "reload"
               /\ b.op # "load" => b.row \in Rows
               /\ b.way = "prev" => b.op = "add"
               /\ b.way = "captured" => b.op \in {"add", "remove"}
               /\ b.mine /\ screen.page = "subscriptions" => ~IsPatch(b)
    <3>1. CASE b \in asked
      BY <1>1, <1>10, <3>1 DEF RequestsFit
    <3>2. CASE again /\ b = q
      BY <1>1, <1>7, <1>10, <3>2 DEF IsPatch
    <3> QED
      BY <2>1, <3>1, <3>2
  <2>4. ASSUME NEW b \in asked', NEW c \in asked', b.n = c.n
        PROVE  b = c
    BY <1>1, <1>7, <2>1, <2>4 DEF RequestsFit
  <2> QED
    BY <1>1, <1>9, <1>10, <2>2, <2>3, <2>4 DEF RequestsFit, IsPatch
<1>13. ASSUME smooth', screen.page # "other"
       PROVE  /\ \A c \in asked' : c.mine /\ c.step # "failed"
              /\ ~Overlap(asked') /\ PatchesAreRight' /\ LoadsAreRight'
  <2>1. /\ \A c \in asked : c.mine /\ c.step # "failed"
        /\ ~Overlap(asked) /\ ~Overlap(asked') /\ PatchesAreRight
    BY <1>6, <1>13 DEF ListsInv
  <2>2. works /\ a.step = "ok" /\ a.mine
    BY <1>1, <1>2, <1>5, <2>1 DEF Asked
  <2>3. \A c \in asked' : c.mine /\ c.step # "failed"
    BY <1>5, <1>7, <2>1
  <2>4. CASE a.way \in {"reload", "later"}
    <3>1. again /\ asked' = (asked \ {a}) \cup {q}
      BY <1>2, <1>5, <2>2, <2>4
    <3>2. PatchesAreRight'
      BY <1>7, <3>1 DEF PatchesAreRight, IsPatch
    <3>3. LoadsAreRight'
      <4>1. q \in asked' /\ q.n > tally'.newest /\ q.step # "ok"
        BY <1>1, <1>7, <1>10, <3>1
      <4>2. \A b \in asked' : (\A c \in asked' : c.n <= b.n) => b = q
        BY <1>1, <1>7, <3>1
      <4>3. ~(\A b \in asked' : b.n <= tally'.newest)
        BY <1>1, <1>7, <1>10, <4>1
      <4> QED
        BY <4>1, <4>2, <4>3 DEF LoadsAreRight
    <3> QED
      BY <2>1, <2>3, <3>2, <3>3
  <2>5. CASE IsPatch(a)
    <3>1. asked' = asked \ {a} /\ a.op \in {"add", "remove"}
      BY <1>1, <1>2, <1>5, <2>5 DEF IsPatch, RequestsFit
    <3>2. \A b \in asked : b # a => a.way = "prev" /\ b.way = "prev"
      BY <2>1, <2>5 DEF Overlap, IsPatch
    <3>3. \A b \in asked : IsPatch(b) /\ b.op # "load" /\ b.row \in Rows
      BY <1>1, <2>5, <3>2 DEF IsPatch, RequestsFit
    <3>4. /\ \A r \in Rows : \/ screen.list[r] = Visible(stored)[r]
                             \/ \E c \in asked : c.row = r /\ c.step = "ok"
          /\ \A c \in asked :
                /\ c.op = "add" => /\ screen.list[c.row] = "none"
                                   /\ stored[c.row] = IF c.step = "sent" THEN Unused ELSE "fresh"
                /\ c.op = "remove" /\ c.step = "ok" => stored[c.row] = "gone"
                /\ c.way = "captured" => c.list = screen.list
          /\ \A c, d \in asked : c.row = d.row => c = d
      BY <2>1, <3>3 DEF PatchesAreRight
    <3>5. list = Patched(screen.list, a)
      <4>1. CASE a.way = "prev"
        BY <1>3, <2>2, <4>1
      <4>2. CASE a.way = "captured"
        BY <1>3, <2>2, <3>4, <4>2
      <4> QED
        BY <2>5, <4>1, <4>2 DEF IsPatch
    <3>6. \A r \in Rows \ {a.row} : list[r] = screen.list[r]
      BY <1>1, <1>5, <3>5, PatchedIsList
    <3>7. list[a.row] = Visible(stored)[a.row]
      <4>1. list[a.row] = IF a.op = "add" THEN "fresh" ELSE "none"
        BY <1>1, <1>5, <3>1, <3>4, <3>5, PatchedIsList
      <4>2. stored[a.row] = IF a.op = "add" THEN "fresh" ELSE "gone"
        BY <2>2, <3>1, <3>4
      <4> QED
        BY <1>1, <1>5, <4>1, <4>2, VisibleIsList
    <3>8. /\ \A r \in Rows : \/ list[r] = Visible(stored)[r]
                             \/ \E c \in asked' : c.row = r /\ c.step = "ok"
          /\ \A c \in asked' :
                /\ c.op = "add" => /\ list[c.row] = "none"
                                   /\ stored[c.row] = IF c.step = "sent" THEN Unused ELSE "fresh"
                /\ c.op = "remove" /\ c.step = "ok" => stored[c.row] = "gone"
                /\ c.way # "captured"
          /\ \A c, d \in asked' : c.row = d.row => c = d
      BY <1>5, <3>1, <3>2, <3>3, <3>4, <3>6, <3>7
    <3>9. Visible(stored)' = Visible(stored)
      BY <1>5 DEF Visible
    <3>10. PatchesAreRight'
      BY <1>5, <1>9, <3>8, <3>9 DEF PatchesAreRight
    <3>11. LoadsAreRight'
      BY <3>1, <3>3 DEF LoadsAreRight
    <3> QED
      BY <2>1, <2>3, <3>10, <3>11
  <2> QED
    BY <1>1, <2>4, <2>5 DEF Asked, IsPatch
<1> QED
  BY <1>6, <1>9, <1>11, <1>12, <1>13 DEF ListsInv

LEMMA ListsStep == ListsInv /\ [ListsNext]_listVars => ListsInv'
<1> SUFFICES ASSUME ListsInv, [ListsNext]_listVars PROVE ListsInv'
  OBVIOUS
<1>1. CASE SubscriptionsPage
  BY <1>1, ButtonsAsk, RefreshKeeps
<1>2. CASE \/ SettingsTabs \/ ApiKeysPage \/ DevelopersPage \/ TeamPage \/ PaymentLinksPage
           \/ DisputesPage \/ BankingLists \/ SettlementsPage
  BY <1>2, ButtonsAsk
<1>3. CASE UNCHANGED listVars
  <2>1. UNCHANGED <<subject, stored, screen, asked, tally, smooth>>
    BY <1>3 DEF listVars
  <2>2. ListsTyped' /\ RequestsFit'
    BY <2>1 DEF ListsInv, ListsTyped, RequestsFit
  <2>3. PatchesAreRight => PatchesAreRight'
    BY <2>1 DEF PatchesAreRight, Visible
  <2>4. LoadsAreRight => LoadsAreRight'
    BY <2>1 DEF LoadsAreRight, Visible
  <2> QED
    BY <2>1, <2>2, <2>3, <2>4 DEF ListsInv
<1> QED
  BY <1>1, <1>2, <1>3, ListIsOpened, ListIsServed, ListIsLost, LoadIsShown, EditIsShown
     DEF ListsNext

\* The lists, their pages and the requests agree as ListsInv says, for any rows
\* and any number of edits, pages and losses.
THEOREM ListsInvariant == ListsInit /\ [][ListsNext]_listVars => []ListsInv
BY ListsInitInv, ListsStep, PTL

\* A page at rest shows the list that is stored, however it keeps up with its
\* edits, unless something happened that its page does not cope with
\* (settings/api/page.tsx:46, settings/team/page.tsx:64).
THEOREM QuietListsAreRight == ListsInit /\ [][ListsNext]_listVars => []QuietListIsRight
<1>1. ListsInv => QuietListIsRight
  <2> SUFFICES ASSUME ListsInv, smooth, asked = {}, screen.page # "other"
               PROVE  screen.list = Visible(stored)
    BY DEF QuietListIsRight
  <2>1. PatchesAreRight /\ ListsTyped /\ screen.list \in [Rows -> Cell]
    BY DEF ListsInv, ListsTyped
  <2>2. \A r \in Rows : screen.list[r] = Visible(stored)[r]
    BY <2>1 DEF PatchesAreRight
  <2> QED
    BY <2>1, <2>2, VisibleIsList
<1> QED
  BY <1>1, ListsInvariant, PTL
=============================================================================
