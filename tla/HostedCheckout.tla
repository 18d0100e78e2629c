---------------------------- MODULE HostedCheckout ----------------------------
(***************************************************************************)
(* The hosted checkout page (app/checkout) and the receipt it leads to.    *)
(* Five ways to pay share one page: the card form, net banking and the UPI *)
(* id are buttons the page disables while it is busy; one-tap and voice    *)
(* pay from a timer that asks nobody; the QR code is charged first and     *)
(* polled; Apple Pay only says that it succeeded.  What a timer or an      *)
(* answer changes depends on what is still mounted when it arrives, and    *)
(* what it pays on the order as it was when it was created.                *)
(***************************************************************************)
EXTENDS Naturals, Sequences, FiniteSets

CONSTANTS
    Amounts,        \* amounts of an order
    Threshold,      \* from this amount on the sandbox asks for a passcode
    MaxSubmits,     \* bound: charges and codes asked for, and codes captured
    MaxCalls,       \* bound: calls in flight
    MaxTimers,      \* bound: timers running
    MaxVisits       \* bound: times the page is opened

ASSUME CheckoutAssumption ==
    /\ 0 \in Amounts /\ Amounts \subseteq Nat /\ Threshold \in Nat
    /\ {MaxSubmits, MaxCalls, MaxTimers, MaxVisits} \subseteq Nat

VARIABLES
    page,       \* what the tab shows
    timers,     \* setTimeout callbacks that have not run
    calls,      \* requests without an answer the page has seen
    charges,    \* back end: the payments created, in order
    sent,       \* counts submissions
    visit       \* history of this visit: see VisitRecord

vars == <<page, timers, calls, charges, sent, visit>>


\* "other" are card and net banking: two forms alike, and only net banking
\* shows the microphone.  The fourth tab, "crypto", pays nothing.
PayTab == {"upi", "other"}
PageStatus == {"idle", "processing", "requires_action", "action_processing", "success", "failed"}

\* Transaction 0 is one the page made up: the back end never heard of it.
Tx == 0..MaxSubmits

\* The state of the page and of the components on it.
Page == [at : {"checkout", "done"}, status : PageStatus, busy : BOOLEAN, tab : PayTab,
         amount : Amounts, tx : Tx,
         qr : [state : {"idle", "generating", "polling", "success"}, tx : Tx],
         scanner : BOOLEAN]

\* Whose state a callback still changes: the UPI form's and the page's, the
\* page's, or nobody's.
Owner == {"form", "page", "gone"}

\* A callback keeps the amount and the status of the render it was made in;
\* of the status only whether it was requires_action is looked at.
\* Submissions are numbered; of the other calls one of a kind stands for
\* all that are alike.
CallOp == {"charge", "qr", "capture", "poll", "webhook"}
CallKind == {[n |-> n, ops |-> {"charge", "qr"}] : n \in 1..MaxSubmits}
                \cup {[n |-> 0, ops |-> {op}] : op \in {"capture", "poll", "webhook"}}
Timer == [n : 1..MaxTimers, kind : {"pay", "apple"}, amount : Amounts,
          challenged : BOOLEAN, own : Owner]
Call == [n : 0..MaxSubmits, op : CallOp, by : {"button", "timer", "none"},
         amount : Amounts, challenged : BOOLEAN, own : Owner,
         tx : Tx, answer : {"sent", "ok", "requires_action", "captured", "unauthorized", "failed"}]
Charge == [amount : Amounts, by : {"form", "qr"}, captured : BOOLEAN]

\* made: the charges of this visit; shortcut: success was declared without
\* one; edited: the amount was changed; unguarded: a timer paid, or a
\* passcode was sent; opened: visits so far.
VisitRecord == [made : SUBSET (1..MaxSubmits), shortcut : BOOLEAN, edited : BOOLEAN,
                unguarded : BOOLEAN, opened : 1..MaxVisits]

BlankQr == [state |-> "idle", tx |-> 0]
FreshPage(a, tab) ==
    [at |-> "checkout", status |-> "idle", busy |-> FALSE, tab |-> tab, amount |-> a,
     tx |-> 0, qr |-> BlankQr, scanner |-> FALSE]
FreshVisit(n) ==
    [made |-> {}, shortcut |-> FALSE, edited |-> FALSE, unguarded |-> FALSE, opened |-> n]

Room == Cardinality(calls) < MaxCalls
UnusedTimers == {n \in 1..MaxTimers : \A t \in timers : t.n # n}
TimerRoom == UnusedTimers # {}
NextTimer == CHOOSE n \in UnusedTimers : \A m \in UnusedTimers : n <= m

Init ==
    /\ \E a \in Amounts, tab \in PayTab : page = FreshPage(a, tab)
    /\ timers = {} /\ calls = {} /\ charges = <<>> /\ sent = 0
    /\ visit = FreshVisit(1)

-----------------------------------------------------------------------------
(* What is mounted.                                                        *)

Disown(S, from, to) == {[x EXCEPT !.own = IF @ \in from THEN to ELSE @] : x \in S}

\* The tabs mount only the chosen one: leaving "upi" or "netbanking"
\* forgets the code on the screen.  (What was typed is not modelled.)
SwitchTab(s, tab) == [s EXCEPT !.tab = tab, !.qr = BlankQr]

\* With status "success" the page renders a spinner in place of everything
\* it had mounted.
Show(s, status) ==
    IF status = "success"
    THEN [SwitchTab(s, s.tab) EXCEPT !.status = status, !.scanner = FALSE]
    ELSE [s EXCEPT !.status = status]

\* Answers to the UPI form find it gone once it is unmounted.
Settled(s, cs) == IF s.status = "success" THEN Disown(cs, {"form"}, "page") ELSE cs

Mounted == page.at = "checkout" /\ page.status # "success"

-----------------------------------------------------------------------------
(* The amount and the method.                                              *)

EditAmount(a) ==
    /\ Mounted /\ a # page.amount
    /\ page' = [page EXCEPT !.amount = a]
    /\ visit' = [visit EXCEPT !.edited = TRUE]
    /\ UNCHANGED <<timers, calls, charges, sent>>

SelectMethod(tab) ==
    /\ Mounted /\ tab # page.tab
    /\ page' = SwitchTab(page, tab)
    /\ calls' = Disown(calls, {"form"}, "page")
    /\ UNCHANGED <<timers, charges, sent, visit>>

\* The retry widget of a failed payment.
SwitchToUpi ==
    /\ Mounted /\ page.status = "failed"
    /\ page' = [(IF page.tab = "upi" THEN page ELSE SwitchTab(page, "upi")) EXCEPT !.status = "idle"]
    /\ UNCHANGED <<timers, calls, charges, sent, visit>>

-----------------------------------------------------------------------------
(* Submitting.                                                             *)

Challenged == page.status = "requires_action"

Submission(op, by, own) ==
    [n |-> sent + 1, op |-> op, by |-> by, amount |-> page.amount, challenged |-> Challenged,
     own |-> own, tx |-> 0, answer |-> "sent"]
CallAbout(op, own, tx) ==
    [n |-> 0, op |-> op, by |-> "none", amount |-> 0, challenged |-> FALSE,
     own |-> own, tx |-> tx, answer |-> "sent"]

MaySubmit == Room /\ sent < MaxSubmits

\* handleCardSubmit, up to its request.
HandleCardSubmit(c) ==
    /\ MaySubmit
    /\ calls' = calls \cup {c}
    /\ sent' = sent + 1
    /\ page' = IF c.own # "page" THEN page
               ELSE [page EXCEPT !.busy = TRUE, !.status = "processing", !.tx = 0]
    /\ visit' = [visit EXCEPT !.unguarded = @ \/ (c.by = "timer" /\ c.own = "page")]
    /\ UNCHANGED charges

\* Mutant: the buttons are not disabled.
PressPay_NotDisabled ==
    /\ Mounted
    /\ HandleCardSubmit(Submission("charge", "button", "page"))
    /\ UNCHANGED timers

\* The card form, the UPI id form and the net banking button.
PressPay ==
    /\ Mounted /\ ~page.busy
    /\ HandleCardSubmit(Submission("charge", "button", "page"))
    /\ UNCHANGED timers

\* The passcode dialog, with six digits typed; its cancel button leaves the
\* charge as it is.
HandleCaptureAction ==
    /\ Mounted /\ page.status = "requires_action"
    /\ Room
    /\ page' = [page EXCEPT !.status = "action_processing", !.tx = 0]
    /\ calls' = calls \cup {CallAbout("capture", "page", page.tx)}
    /\ visit' = [visit EXCEPT !.unguarded = TRUE]
    /\ UNCHANGED <<timers, charges, sent>>

CancelTransaction ==
    /\ Mounted /\ page.status = "requires_action"
    /\ page' = [page EXCEPT !.status = "idle", !.tx = 0]
    /\ UNCHANGED <<timers, calls, charges, sent, visit>>

-----------------------------------------------------------------------------
(* One-tap, voice and Apple Pay: timers.                                   *)

StartTimer(kind) ==
    timers' = timers \cup {[n |-> NextTimer, kind |-> kind, amount |-> page.amount,
                            challenged |-> Challenged, own |-> "page"]}

HandleStartScan ==
    /\ Mounted /\ ~page.busy /\ ~page.scanner
    /\ page' = [page EXCEPT !.scanner = TRUE]
    /\ UNCHANGED <<timers, calls, charges, sent, visit>>

CancelScan ==
    /\ Mounted /\ page.scanner
    /\ page' = [page EXCEPT !.scanner = FALSE]
    /\ UNCHANGED <<timers, calls, charges, sent, visit>>

\* The sensor of the device, or a finger held until the bar is full.
ScanVerified ==
    /\ Mounted /\ page.scanner /\ TimerRoom
    /\ page' = [page EXCEPT !.scanner = FALSE]
    /\ StartTimer("pay")
    /\ UNCHANGED <<calls, charges, sent, visit>>

\* The microphone may be on whenever its card is shown, and the recognizer
\* reports interim results: a phrase may match again before it has stopped.
PhraseMatched ==
    /\ Mounted /\ page.tab = "other" /\ TimerRoom
    /\ StartTimer("pay")
    /\ UNCHANGED <<page, calls, charges, sent, visit>>

\* Apple Pay: the sheet is opened, told to pay and recognizes a face.  Its
\* steps look at nothing of the page and touch nothing of it, and end when it
\* is unmounted; only the last timer outlives it.
FaceRecognised ==
    /\ Mounted /\ TimerRoom
    /\ StartTimer("apple")
    /\ UNCHANGED <<page, calls, charges, sent, visit>>

FireApple(t) ==
    /\ t.kind = "apple"
    /\ page' = IF t.own = "page" THEN Show(page, "success") ELSE page
    /\ calls' = IF t.own = "page" THEN Settled(page', calls) ELSE calls
    /\ visit' = [visit EXCEPT !.shortcut = @ \/ t.own = "page"]
    /\ UNCHANGED <<charges, sent>>

\* The handler is the one of the render the timer was made in.
FirePay(t) ==
    /\ t.kind = "pay"
    /\ HandleCardSubmit([Submission("charge", "timer", t.own) EXCEPT
                            !.amount = t.amount, !.challenged = t.challenged])

Fire ==
    \E t \in timers :
        /\ timers' = timers \ {t}
        /\ FireApple(t) \/ FirePay(t)

-----------------------------------------------------------------------------
(* The QR code.                                                            *)

HandleGenerateQR ==
    /\ Mounted /\ page.tab = "upi" /\ page.qr.state = "idle"
    /\ MaySubmit
    /\ page' = [page EXCEPT !.qr.state = "generating"]
    /\ calls' = calls \cup {[Submission("qr", "none", "form") EXCEPT !.challenged = FALSE]}
    /\ sent' = sent + 1
    /\ UNCHANGED <<timers, charges, visit>>

Poll ==
    /\ Mounted /\ page.qr.state = "polling" /\ page.qr.tx # 0
    /\ Room
    /\ calls' = calls \cup {CallAbout("poll", "form", page.qr.tx)}
    /\ UNCHANGED <<page, timers, charges, sent, visit>>

\* onSubmit with one of the two names that stand for a scanned code.
CodeScanned(s) == Show([s EXCEPT !.qr.state = "success"], "success")

\* The button of the sandbox: a transaction the form made up succeeds at
\* once, for another one the bank's webhook is called.
SimulateWebhook ==
    /\ Mounted /\ page.qr.state = "polling"
    /\ IF page.qr.tx = 0
       THEN /\ page' = CodeScanned(page)
            /\ calls' = Settled(page', calls)
            /\ visit' = [visit EXCEPT !.shortcut = TRUE]
       ELSE /\ Room
            /\ calls' = calls \cup {CallAbout("webhook", "form", page.qr.tx)}
            /\ UNCHANGED <<page, visit>>
    /\ UNCHANGED <<timers, charges, sent>>

\* The customer's bank pays for the code on its own.
BankPays ==
    /\ \E i \in 1..Len(charges) :
        /\ charges[i].by = "qr" /\ ~charges[i].captured
        /\ charges' = [charges EXCEPT ![i].captured = TRUE]
    /\ UNCHANGED <<page, timers, calls, sent, visit>>

-----------------------------------------------------------------------------
(* The back end.                                                           *)

\* An answer nobody waits for any more goes nowhere.
Reply(c, answer, tx) ==
    calls' = (calls \ {c}) \cup
                IF c.own = "gone" THEN {} ELSE {[c EXCEPT !.answer = answer, !.tx = tx]}

\* Created and charged, or refused; the answer to a charge may be lost.
ServeCharge(c) ==
    /\ c.op \in {"charge", "qr"}
    /\ \/ /\ c.amount > 0
          /\ charges' = Append(charges, [amount |-> c.amount, captured |-> FALSE,
                                         by |-> IF c.op = "qr" THEN "qr" ELSE "form"])
          /\ visit' = [visit EXCEPT !.made = IF c.own = "gone" THEN @ ELSE @ \cup {Len(charges) + 1}]
          /\ \/ \E a \in {"ok", "requires_action"} : Reply(c, a, Len(charges) + 1)
             \/ Reply(c, "failed", 0)
       \/ /\ \E a \in {"unauthorized", "failed"} : Reply(c, a, 0)
          /\ UNCHANGED <<charges, visit>>

ServeCapture(c) ==
    /\ c.op \in {"capture", "webhook"}
    /\ \/ /\ c.tx # 0
          /\ charges' = [charges EXCEPT ![c.tx].captured = TRUE]
          /\ Reply(c, "ok", c.tx)
       \/ UNCHANGED charges /\ Reply(c, "failed", c.tx)
    /\ UNCHANGED visit

ServePoll(c) ==
    /\ c.op = "poll"
    /\ Reply(c, IF charges[c.tx].captured THEN "captured" ELSE "ok", c.tx)
    /\ UNCHANGED <<charges, visit>>

Serve(n, ops) ==
    /\ \E c \in calls :
        /\ c.n = n /\ c.op \in ops /\ c.answer = "sent"
        /\ ServeCharge(c) \/ ServeCapture(c) \/ ServePoll(c)
    /\ UNCHANGED <<page, timers, sent>>

-----------------------------------------------------------------------------
(* The answers.                                                            *)

\* Mutants: an error is taken for a success; an error is not caught.
StatusAfter_ErrorIsSuccess(c) ==
    IF c.answer = "requires_action" THEN "requires_action" ELSE "success"
StatusAfter_NotCaught(c) ==
    CASE c.answer \in {"ok", "unauthorized"} -> "success"
      [] c.answer = "requires_action" -> "requires_action"
      [] OTHER -> "processing"

\* Every status but requires_action is a success; without a session the
\* sandbox plays one.
StatusAfter(c) ==
    CASE c.answer = "ok" -> "success"
      [] c.answer = "requires_action" -> "requires_action"
      [] c.answer = "unauthorized" ->
            IF c.amount >= Threshold THEN "requires_action" ELSE "success"
      [] OTHER -> "failed"

\* The rest of handleCardSubmit; the transaction it keeps is looked at by
\* the passcode dialog only, and forgotten here with the dialog.  Its last block looks at the status of the
\* render the handler was made in, not at the one it has just set.
Charged(c) ==
    /\ c.op = "charge"
    /\ page' = Show([page EXCEPT !.tx = IF StatusAfter(c) = "requires_action" THEN c.tx ELSE 0,
                             !.busy = IF c.challenged THEN @ ELSE FALSE],
                StatusAfter(c))
    /\ visit' = [visit EXCEPT !.shortcut = @ \/ c.answer = "unauthorized"]

\* A capture that failed is a success too.
CaptureAnswered(c) ==
    /\ c.op = "capture"
    /\ page' = Show([page EXCEPT !.busy = FALSE], "success")
    /\ UNCHANGED visit

\* The rest of handleGenerateQR.
CodeGenerated(c) ==
    /\ c.op = "qr"
    /\ page' = IF c.own = "page" THEN page
           ELSE IF c.answer = "failed" THEN [page EXCEPT !.qr.state = "idle"]
           ELSE [page EXCEPT !.qr = [state |-> "polling", tx |-> c.tx]]
    /\ UNCHANGED visit

\* The poll answers to the page even when the form is gone.
Polled(c) ==
    /\ c.op = "poll"
    /\ page' = IF c.answer = "captured" THEN CodeScanned(page) ELSE page
    /\ UNCHANGED visit

\* A webhook that fails is taken for a success; one that does not is left
\* to the poll.
WebhookAnswered(c) ==
    /\ c.op = "webhook"
    /\ page' = IF c.answer = "failed" THEN CodeScanned(page) ELSE page
    /\ visit' = [visit EXCEPT !.shortcut = @ \/ c.answer = "failed"]

Answered(n, ops) ==
    /\ \E c \in calls :
        /\ c.n = n /\ c.op \in ops /\ c.answer # "sent"
        /\ \/ Charged(c) \/ CaptureAnswered(c) \/ CodeGenerated(c)
           \/ Polled(c) \/ WebhookAnswered(c)
        /\ calls' = Settled(page', calls \ {c})
    /\ UNCHANGED <<timers, charges, sent>>

-----------------------------------------------------------------------------
(* Leaving and coming back: timers and calls go on without a page.         *)

\* The effect of a success: the receipt shows the order as it is now, and
\* nothing else is left of the page.
GoToReceipt ==
    /\ page.at = "checkout" /\ page.status = "success"
    /\ page' = [FreshPage(page.amount, page.tab) EXCEPT !.at = "done", !.status = "success"]
    /\ timers' = Disown(timers, Owner, "gone")
    /\ calls' = Disown({c \in calls : c.answer = "sent" /\ c.op # "poll"}, Owner, "gone")
    /\ UNCHANGED <<charges, sent, visit>>

\* The link of the receipt carries neither amount nor method.
NewPayment ==
    /\ page.at = "done" /\ visit.opened < MaxVisits
    /\ page' = FreshPage(0, "other")
    /\ visit' = FreshVisit(visit.opened + 1)
    /\ UNCHANGED <<timers, calls, charges, sent>>

-----------------------------------------------------------------------------
Next ==
    \/ \E a \in Amounts : EditAmount(a)
    \/ \E tab \in PayTab : SelectMethod(tab)
    \/ SwitchToUpi \/ PressPay
    \/ HandleCaptureAction \/ CancelTransaction
    \/ HandleStartScan \/ CancelScan \/ ScanVerified
    \/ PhraseMatched
    \/ FaceRecognised \/ Fire
    \/ HandleGenerateQR \/ Poll \/ SimulateWebhook \/ BankPays
    \/ \E k \in CallKind : Serve(k.n, k.ops) \/ Answered(k.n, k.ops)
    \/ GoToReceipt \/ NewPayment

\* Each request is answered, its answer delivered, and the browser
\* navigates.  People do what they like, and so does the bank.
Fairness ==
    /\ \A k \in CallKind : WF_vars(Serve(k.n, k.ops)) /\ WF_vars(Answered(k.n, k.ops))
    /\ WF_vars(GoToReceipt)

Spec == Init /\ [][Next]_vars /\ Fairness

-----------------------------------------------------------------------------
TypeOK ==
    /\ page \in Page
    /\ timers \subseteq Timer /\ calls \subseteq Call
    /\ charges \in Seq(Charge) /\ Len(charges) <= sent
    /\ sent \in 0..MaxSubmits
    /\ visit \in VisitRecord

\* A receipt stands for a charge of this visit: created by the back end, for
\* the amount on the receipt if the order was not edited, and captured if it
\* was paid by code.  The exceptions are the shortcuts of the sandbox: Apple
\* Pay, a session that is missing, a bank webhook that failed.
ReceiptIsBacked ==
    page.at = "done" =>
        \/ visit.shortcut
        \/ \E i \in visit.made :
            /\ charges[i].amount = page.amount \/ visit.edited
            /\ charges[i].captured \/ charges[i].by = "form"

\* Two charges of the same page that both come from a button are in flight
\* only if a timer has paid or a passcode was sent in between: those end the
\* state the buttons wait for.
ButtonsDoNotOverlap ==
    Cardinality({c \in calls : c.op = "charge" /\ c.by = "button" /\ c.own = "page"}) > 1
        => visit.unguarded

\* The page does not stay busy for good: a spinner ends, and a success
\* reaches the receipt.
SpinnerEnds ==
    []<>~(page.at = "checkout" /\ page.status \in {"processing", "action_processing", "success"})
=============================================================================
