----------------------------- MODULE PaymentPages -----------------------------
(***************************************************************************)
(* The other pages a customer pays on, one at a time in one tab: a payment *)
(* link (app/payment/[id]) with the handlers behind it, the direct page    *)
(* (app/payment), the advanced checkout, and the checkout the JavaScript   *)
(* SDK opens in a frame on a merchant's site.                              *)
(*                                                                         *)
(* A link's row is read, changed in memory and written back whole both     *)
(* when it is shown and when it is paid.  The frame and the SDK are two    *)
(* programs that only exchange messages: the merchant may close the frame  *)
(* while it is paying.                                                     *)
(***************************************************************************)
EXTENDS Naturals, Sequences, FiniteSets

CONSTANTS
    MaxRequests,    \* bound: requests to the back end
    MaxAttempts,    \* bound: payments tried in the frame
    MaxOpens,       \* bound: times the SDK opens its frame
    MaxMail,        \* bound: messages from the frame on their way
    MaxClocks       \* bound: timers of one kind

ASSUME PagesAssumption ==
    {MaxRequests, MaxAttempts, MaxOpens, MaxMail, MaxClocks} \subseteq Nat

VARIABLES
    tab,        \* the page that is shown, and its state
    requests,   \* requests of this tab and of other customers
    link,       \* back end: the row of the payment link
    asked,       \* counts the requests
    charged,    \* history: payments created, and whether this visit created one
    excuse,     \* history: what may go wrong has (see Excuses)
    frame,      \* the SDK, its frame and the checkout in it
    told        \* history: approvals of the frame, and calls of onSuccess

pagesVars == <<tab, requests, link, asked, charged, excuse, frame, told>>
backEnd == <<requests, link, asked, charged, excuse>>

PageKind == {"link", "direct", "advanced", "host"}
Tab == [at : PageKind,
        status : {"loading", "missing", "idle", "processing", "success", "failed"},
        busy : BOOLEAN, region : {"IN", "INTL"}, consent : BOOLEAN, scans : 0..MaxClocks]

Row == [exists : BOOLEAN, clicks : 0..MaxRequests, payments : 0..MaxRequests]

\* The handlers show (GetPaymentLink), pay (ProcessPaymentLink) and create
\* (CreatePayment); "mine" tells who waits for the answer.
Request == [n : 1..MaxRequests, op : {"show", "pay", "create"}, mine : BOOLEAN,
            step : {"read", "charge", "write", "ok", "unauthorized", "failed"}, copy : Row]

\* overlap: two requests on the link's row ran at the same time, or it was
\* deleted under one; sandbox: a missing session was taken for a success.
Excuses == {"overlap", "sandbox"}

Checkout == {"loading", "intent_ready", "processing", "success", "error"}
Letter == {"PAYMENT_SUCCESS", "PAYMENT_ERROR", "CLOSE_CHECKOUT"}
Frame == [open : BOOLEAN, status : Checkout, mail : Seq(Letter), removals : 0..MaxClocks, stale : 0..MaxClocks,
          overflow : {"page", "hidden"}, opens : 0..MaxOpens, attempts : 0..MaxAttempts,
          tell : BOOLEAN, cutShort : BOOLEAN]

FreshTab(at) ==
    [at |-> at, status |-> IF at = "link" THEN "loading" ELSE "idle", busy |-> FALSE,
     region |-> "IN", consent |-> FALSE, scans |-> 0]
NoFrame == [open |-> FALSE, status |-> "loading", mail |-> <<>>, removals |-> 0, stale |-> 0,
            overflow |-> "page", opens |-> 0, attempts |-> 0, tell |-> FALSE, cutShort |-> FALSE]

NewRequest(op, mine) ==
    [n |-> asked + 1, op |-> op, mine |-> mine, step |-> IF op = "create" THEN "charge" ELSE "read",
     copy |-> [exists |-> TRUE, clicks |-> 0, payments |-> 0]]

Send(op, mine) ==
    /\ asked < MaxRequests
    /\ requests' = requests \cup {NewRequest(op, mine)}
    /\ asked' = asked + 1

PagesInit ==
    /\ \E at \in PageKind : tab = FreshTab(at)
    /\ asked = IF tab.at = "link" THEN 1 ELSE 0
    /\ requests = IF tab.at # "link" THEN {} ELSE
          {[n |-> 1, op |-> "show", mine |-> TRUE, step |-> "read",
            copy |-> [exists |-> TRUE, clicks |-> 0, payments |-> 0]]}
    /\ link = [exists |-> TRUE, clicks |-> 0, payments |-> 0]
    /\ charged = [all |-> 0, own |-> FALSE] /\ excuse = {}
    /\ frame = NoFrame
    /\ told = [approved |-> 0, success |-> 0]

-----------------------------------------------------------------------------
(* The page of a payment link.                                             *)

\* The form of a card or a UPI id is shown unless the link is not loaded or
\* was paid, and accepted once its fields are valid.
HandleSubmit ==
    /\ tab.at = "link" /\ tab.status \in {"idle", "processing", "failed"}
    /\ ~tab.busy
    /\ Send("pay", TRUE)
    /\ tab' = [tab EXCEPT !.busy = TRUE, !.status = "processing"]
    /\ UNCHANGED <<link, charged, excuse, frame, told>>

\* "Make another payment" loads the page again.
MakeAnotherPayment ==
    /\ tab.at = "link" /\ tab.status = "success"
    /\ Send("show", TRUE)
    /\ tab' = FreshTab("link")
    /\ charged' = [charged EXCEPT !.own = FALSE]
    /\ UNCHANGED <<link, excuse, frame, told>>

Shown(r) ==
    /\ r.op = "show"
    /\ tab' = [tab EXCEPT !.status = IF r.step = "ok" THEN "idle" ELSE "missing"]
    /\ UNCHANGED excuse

\* Mutant: success is set whatever the answer.
Paid_Anyway(r) ==
    /\ r.op = "pay"
    /\ tab' = [tab EXCEPT !.busy = FALSE, !.status = "success"]
    /\ UNCHANGED excuse

Paid(r) ==
    /\ r.op = "pay"
    /\ tab' = [tab EXCEPT !.busy = FALSE, !.status = IF r.step = "ok" THEN "success" ELSE "failed"]
    /\ UNCHANGED excuse

-----------------------------------------------------------------------------
(* The direct page.  Nothing gives it a link or an amount, and the back    *)
(* end takes no payment of nothing; an answer of the back end would not    *)
(* have the member the page looks for, and leave it processing.            *)

CreatePayment(s) ==
    /\ Send("create", TRUE)
    /\ tab' = [s EXCEPT !.busy = TRUE, !.status = "processing"]
    /\ UNCHANGED <<link, charged, excuse, frame, told>>

\* Card, UPI and net banking.
HandlePayment ==
    /\ tab.at = "direct" /\ tab.status = "idle" /\ ~tab.busy
    /\ CreatePayment(tab)

\* One-tap starts a timer, which pays whatever is shown by then.
FingerVerified ==
    /\ tab.at = "direct" /\ tab.status = "idle" /\ tab.scans < MaxClocks
    /\ tab' = [tab EXCEPT !.scans = @ + 1]
    /\ UNCHANGED <<backEnd, frame, told>>

ScanFires ==
    /\ tab.at = "direct" /\ tab.scans > 0
    /\ CreatePayment([tab EXCEPT !.scans = @ - 1])

TryAgain ==
    /\ tab.at = "direct" /\ tab.status = "failed"
    /\ tab' = [tab EXCEPT !.status = "idle"]
    /\ UNCHANGED <<backEnd, frame, told>>

CreatedDirectly(r) ==
    /\ r.op = "create" /\ tab.at = "direct"
    /\ tab' = [tab EXCEPT !.busy = FALSE, !.status = IF r.step = "ok" THEN @ ELSE "failed"]
    /\ UNCHANGED excuse

-----------------------------------------------------------------------------
(* The advanced checkout.                                                  *)

\* The other market has other terms; the box stays as it was ticked.
SelectRegion(region) ==
    /\ tab.at = "advanced" /\ tab.status # "success" /\ region # tab.region
    /\ tab' = [tab EXCEPT !.region = region]
    /\ UNCHANGED <<backEnd, frame, told>>

SetConsent ==
    /\ tab.at = "advanced" /\ tab.status # "success"
    /\ tab' = [tab EXCEPT !.consent = ~@]
    /\ UNCHANGED <<backEnd, frame, told>>

HandlePay ==
    /\ tab.at = "advanced" /\ tab.status # "success" /\ ~tab.busy
    /\ tab.consent
    /\ Send("create", TRUE)
    /\ tab' = [tab EXCEPT !.busy = TRUE, !.status = "processing"]
    /\ UNCHANGED <<link, charged, excuse, frame, told>>

CreatedAdvanced(r) ==
    /\ r.op = "create" /\ tab.at = "advanced"
    /\ tab' = [tab EXCEPT !.busy = FALSE,
                          !.status = IF r.step \in {"ok", "unauthorized"} THEN "success" ELSE "failed"]
    /\ excuse' = IF r.step = "unauthorized" THEN excuse \cup {"sandbox"} ELSE excuse

-----------------------------------------------------------------------------
(* The back end.                                                           *)

OnRow(S) == {r \in S : r.op # "create" /\ r.step \in {"charge", "write"}}
Becomes(r, s) == requests' = (requests \ {r}) \cup {s}
Finished(r, step) ==
    requests' = (requests \ {r}) \cup IF r.mine THEN {[r EXCEPT !.step = step]} ELSE {}

\* GetByID, and the change in memory.
ReadLink(r) ==
    /\ r.step = "read"
    /\ IF link.exists
       THEN Becomes(r, [r EXCEPT !.step = IF r.op = "pay" THEN "charge" ELSE "write",
                                 !.copy = [link EXCEPT !.clicks = IF r.op = "show" THEN @ + 1 ELSE @]])
       ELSE Finished(r, "failed")
    /\ excuse' = IF OnRow(requests) # {} THEN excuse \cup {"overlap"} ELSE excuse
    /\ UNCHANGED <<link, charged>>

\* Mutant: the payment is not counted.
CreateAtServer_NotCounted(r) ==
    /\ r.step = "charge" /\ tab.at # "direct"
    /\ charged' = [all |-> charged.all + 1, own |-> charged.own \/ r.mine]
    /\ IF r.op = "pay" THEN Becomes(r, [r EXCEPT !.step = "write"]) ELSE Finished(r, "ok")
    /\ UNCHANGED <<link, excuse>>

\* CreatePayment of the payment service, and a capture whose error is dropped.
\* The direct page asks for nothing.
CreateAtServer(r) ==
    /\ r.step = "charge"
    /\ \/ /\ tab.at # "direct"
          /\ charged' = [all |-> charged.all + 1, own |-> charged.own \/ r.mine]
          /\ IF r.op = "pay"
             THEN Becomes(r, [r EXCEPT !.step = "write", !.copy.payments = @ + 1])
             ELSE Finished(r, "ok")
       \/ /\ Finished(r, "failed")
          /\ UNCHANGED charged
       \/ /\ r.op = "create"
          /\ Finished(r, "unauthorized")
          /\ UNCHANGED charged
    /\ UNCHANGED <<link, excuse>>

\* Update writes every column; of a row that is gone it changes nothing.
WriteLink(r) ==
    /\ r.step = "write"
    /\ link' = IF link.exists THEN r.copy ELSE link
    /\ Finished(r, "ok")
    /\ UNCHANGED <<charged, excuse>>

ServeRequest ==
    /\ \E r \in requests : ReadLink(r) \/ CreateAtServer(r) \/ WriteLink(r)
    /\ UNCHANGED <<tab, asked, frame, told>>

\* The merchant deletes the link.
DeleteLink ==
    /\ tab.at = "link" /\ link.exists
    /\ link' = [link EXCEPT !.exists = FALSE]
    /\ excuse' = IF OnRow(requests) # {} THEN excuse \cup {"overlap"} ELSE excuse
    /\ UNCHANGED <<tab, requests, asked, charged, frame, told>>

\* Other customers open the link and pay.
Elsewhere(op) ==
    /\ tab.at = "link"
    /\ Send(op, FALSE)
    /\ UNCHANGED <<tab, link, charged, excuse, frame, told>>

RequestAnswered ==
    /\ \E r \in requests :
        /\ r.mine /\ r.step \in {"ok", "unauthorized", "failed"}
        /\ Shown(r) \/ Paid(r) \/ CreatedDirectly(r) \/ CreatedAdvanced(r)
        /\ requests' = requests \ {r}
    /\ UNCHANGED <<link, asked, charged, frame, told>>

-----------------------------------------------------------------------------
(* The SDK on the merchant's page, and the checkout in its frame.          *)

FrameStep == tab.at = "host" /\ UNCHANGED <<tab, backEnd>>

\* Refused while the frame is there, the time it takes to fade included.
OpenCheckout ==
    /\ FrameStep
    /\ ~frame.open /\ frame.opens < MaxOpens
    /\ frame' = [frame EXCEPT !.open = TRUE, !.status = "loading", !.overflow = "hidden",
                              !.opens = @ + 1, !.tell = FALSE]
    /\ UNCHANGED told

\* The frame goes when it has faded; onClose is called at once.
CloseCheckout(f) ==
    IF f.open THEN [f EXCEPT !.removals = @ + 1] ELSE f
TimerFree == frame.removals + frame.stale < MaxClocks

\* What runs in the frame ends with it.  Closed twice, the second timer
\* finds the frame gone and still lets the page scroll, under a new frame
\* too.
Remove ==
    /\ FrameStep
    /\ \/ /\ frame.removals > 0
          /\ frame' = [frame EXCEPT !.removals = 0, !.stale = @ + frame.removals - 1,
                                    !.open = FALSE, !.status = "loading", !.tell = FALSE,
                                    !.overflow = "page",
                                    !.cutShort = @ \/ frame.status = "processing" \/ frame.tell]
       \/ /\ frame.stale > 0
          /\ frame' = [frame EXCEPT !.stale = @ - 1, !.overflow = "page"]
    /\ UNCHANGED told

\* The merchant's own code may close the checkout at any time.
MerchantCloses ==
    /\ FrameStep
    /\ frame.open /\ TimerFree
    /\ frame' = CloseCheckout(frame)
    /\ UNCHANGED told

\* Mutant: whatever closes the frame is a success.
Receive_CloseIsSuccess ==
    /\ FrameStep
    /\ frame.mail # <<>> /\ TimerFree
    /\ LET f == [frame EXCEPT !.mail = Tail(@)]
       IN frame' = IF Head(frame.mail) = "PAYMENT_ERROR" THEN f ELSE CloseCheckout(f)
    /\ told' = IF Head(frame.mail) = "PAYMENT_ERROR" THEN told ELSE [told EXCEPT !.success = @ + 1]

\* The listener of the SDK.
Receive ==
    /\ FrameStep
    /\ frame.mail # <<>> /\ TimerFree
    /\ LET f == [frame EXCEPT !.mail = Tail(@)]
       IN frame' = IF Head(frame.mail) = "PAYMENT_ERROR" THEN f ELSE CloseCheckout(f)
    /\ told' = IF Head(frame.mail) = "PAYMENT_SUCCESS" THEN [told EXCEPT !.success = @ + 1] ELSE told

MailRoom == Len(frame.mail) < MaxMail

IntentReady ==
    /\ FrameStep
    /\ frame.open /\ frame.status = "loading"
    /\ frame' = [frame EXCEPT !.status = "intent_ready"]
    /\ UNCHANGED told

HandleClose ==
    /\ FrameStep
    /\ frame.open /\ frame.status # "success" /\ MailRoom
    /\ frame' = [frame EXCEPT !.mail = Append(@, "CLOSE_CHECKOUT")]
    /\ UNCHANGED told

\* With the fields of the method filled in.
PayInFrame ==
    /\ FrameStep
    /\ frame.open /\ frame.status \in {"intent_ready", "error"} /\ frame.attempts < MaxAttempts
    /\ frame' = [frame EXCEPT !.status = "processing", !.attempts = @ + 1]
    /\ UNCHANGED told

\* The timer of the attempt: approved, to be told when the badge has been
\* seen, or declined, which is told at once.
AttemptEnds ==
    /\ FrameStep
    /\ frame.open /\ frame.status = "processing"
    /\ \/ /\ frame' = [frame EXCEPT !.status = "success", !.tell = TRUE]
          /\ told' = [told EXCEPT !.approved = @ + 1]
       \/ /\ MailRoom
          /\ frame' = [frame EXCEPT !.status = "error", !.mail = Append(@, "PAYMENT_ERROR")]
          /\ UNCHANGED told

TellSuccess ==
    /\ FrameStep
    /\ frame.open /\ frame.tell /\ MailRoom
    /\ frame' = [frame EXCEPT !.tell = FALSE, !.mail = Append(@, "PAYMENT_SUCCESS")]
    /\ UNCHANGED told

-----------------------------------------------------------------------------
PagesNext ==
    \/ HandleSubmit \/ MakeAnotherPayment
    \/ HandlePayment \/ FingerVerified \/ ScanFires \/ TryAgain
    \/ \E region \in {"IN", "INTL"} : SelectRegion(region)
    \/ SetConsent \/ HandlePay
    \/ ServeRequest \/ DeleteLink \/ RequestAnswered
    \/ \E op \in {"show", "pay"} : Elsewhere(op)
    \/ OpenCheckout \/ Remove \/ MerchantCloses \/ Receive
    \/ IntentReady \/ HandleClose \/ PayInFrame \/ AttemptEnds \/ TellSuccess

\* Requests are answered, timers run and messages arrive.
PagesFairness ==
    /\ WF_pagesVars(ServeRequest) /\ WF_pagesVars(RequestAnswered)
    /\ WF_pagesVars(Remove) /\ WF_pagesVars(Receive) /\ WF_pagesVars(AttemptEnds) /\ WF_pagesVars(TellSuccess)

PagesSpec == PagesInit /\ [][PagesNext]_pagesVars /\ PagesFairness

-----------------------------------------------------------------------------
PagesTypeOK ==
    /\ tab \in Tab
    /\ requests \subseteq Request
    /\ link \in Row
    /\ asked \in 0..MaxRequests /\ charged \in [all : 0..MaxRequests, own : BOOLEAN]
    /\ excuse \subseteq Excuses
    /\ frame \in Frame /\ Len(frame.mail) <= MaxMail
    /\ told \in [approved : 0..MaxAttempts, success : 0..MaxAttempts]

\* The counters of a link never exceed the payments made through it, and
\* fall behind only if requests on the row overlapped or it was deleted.
LinkCountsPayments ==
    tab.at = "link" =>
        /\ link.payments <= charged.all
        /\ (excuse = {} /\ link.exists /\ OnRow(requests) = {}) => link.payments = charged.all

\* A page shows success only after a payment was created for it, since it
\* was loaded, or, on the advanced checkout, for a missing session.
SuccessWasCharged ==
    tab.status = "success" => charged.own \/ excuse = {"sandbox"}

\* The merchant is told of each approval at most once, of nothing else, and
\* misses one only if the frame was removed while it was paying.
ApprovalsAreTold ==
    /\ [](told.success <= told.approved)
    /\ <>[](told.success = told.approved \/ frame.cutShort)
=============================================================================
