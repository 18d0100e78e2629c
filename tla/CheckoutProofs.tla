---------------------------- MODULE CheckoutProofs ----------------------------
(***************************************************************************)
(* Proofs about PaymentPages and HostedCheckout for any number of          *)
(* requests, customers, charges, timers and visits.                        *)
(***************************************************************************)
EXTENDS HostedCheckout, PaymentPages, FunctionTheorems, FiniteSetTheorems, SequenceTheorems,
        WellFoundedInduction, TLAPS

---------------------------------------------------------------------------
(* The other payment pages, for any number of requests and customers. *)

LinkRow == [exists : BOOLEAN, clicks : Nat, payments : Nat]

Asking == [n : Nat, op : {"show", "pay", "create"}, mine : BOOLEAN,
           step : {"read", "charge", "write", "ok", "unauthorized", "failed"}, copy : LinkRow]

OpenTab == [at : PageKind,
            status : {"loading", "missing", "idle", "processing", "success", "failed"},
            busy : BOOLEAN, region : {"IN", "INTL"}, consent : BOOLEAN, scans : Nat]

PagesShape ==
    /\ tab \in OpenTab
    /\ requests \in SUBSET Asking
    /\ link \in LinkRow /\ asked \in Nat
    /\ charged \in [all : Nat, own : BOOLEAN]
    /\ excuse \in SUBSET Excuses

\* What a request may be about, where it may stand, and what the page shows
\* meanwhile.
RequestsMatch ==
    /\ \A r \in requests :
          /\ IF tab.at = "link" THEN r.op \in {"show", "pay"} ELSE r.op = "create" /\ r.mine
          /\ r.step = "charge" => r.op # "show"
          /\ r.step \in {"read", "write"} => r.op # "create"
          /\ r.mine /\ r.op = "show" => tab.status = "loading"
          /\ r.mine /\ r.op = "pay" => tab.status = "processing" /\ tab.busy
          /\ r.mine /\ r.op = "pay" /\ r.step \in {"write", "ok"} => charged.own
          /\ r.op = "create" /\ r.step = "ok" => charged.own
          /\ r.step = "unauthorized" => r.op = "create"
    /\ tab.at = "link" => \A r, s \in requests : r.mine /\ s.mine => r = s

\* A success was charged, or a missing session was taken for one.
SuccessMatches ==
    /\ excuse \subseteq IF tab.at = "link" THEN {"overlap"} ELSE {"sandbox"}
    /\ tab.at \in {"direct", "host"} => tab.status # "success"
    /\ tab.status = "success" => charged.own \/ (tab.at = "advanced" /\ excuse # {})

\* The row and its copies never run ahead of the payments; while no two
\* requests meet on the row, the one that holds a copy has the last payment.
CountsMatch ==
    tab.at = "link" =>
        /\ link.payments <= charged.all
        /\ \A r \in OnRow(requests) : r.copy.payments <= charged.all
        /\ excuse = {} =>
              /\ \A r, s \in OnRow(requests) : r = s
              /\ \A r \in OnRow(requests) :
                    /\ link.exists /\ r.copy.payments = charged.all
                    /\ r.step = "charge" => link.payments = charged.all
              /\ link.exists /\ OnRow(requests) = {} => link.payments = charged.all

PagesInv == PagesShape /\ RequestsMatch /\ SuccessMatches /\ CountsMatch

LEMMA RowStays ==
    ASSUME CountsMatch, tab'.at = tab.at, OnRow(requests') = OnRow(requests),
           UNCHANGED <<link, excuse>>, charged'.all = charged.all
    PROVE  CountsMatch'
BY DEF CountsMatch

\* A request that is sent is not on the row yet.
LEMMA SendIsTyped ==
    ASSUME PagesShape, NEW op \in {"show", "pay", "create"}, NEW mine \in BOOLEAN,
           Send(op, mine)
    PROVE  /\ asked' \in Nat /\ requests' \in SUBSET Asking
           /\ OnRow(requests') = OnRow(requests)
           /\ requests' = requests \cup {NewRequest(op, mine)}
           /\ NewRequest(op, mine) \in Asking
<1>1. PICK q : q = NewRequest(op, mine)
  OBVIOUS
<1>2. asked + 1 \in Nat /\ asked \in Nat /\ requests \in SUBSET Asking
  BY DEF PagesShape
<1>3. q \in Asking
  BY <1>1, <1>2 DEF NewRequest, Asking, LinkRow
<1>4. q.op = op /\ q.step = IF op = "create" THEN "charge" ELSE "read"
  BY <1>1 DEF NewRequest
<1>5. requests' = requests \cup {q} /\ asked' = asked + 1
  BY <1>1 DEF Send
<1>6. OnRow(requests') = OnRow(requests)
  BY <1>4, <1>5 DEF OnRow
<1> QED
  BY <1>1, <1>2, <1>3, <1>5, <1>6

LEMMA TabIsFresh ==
    ASSUME NEW at \in PageKind
    PROVE  /\ FreshTab(at) \in OpenTab /\ FreshTab(at).at = at
           /\ FreshTab(at).status = IF at = "link" THEN "loading" ELSE "idle"
BY DEF FreshTab, OpenTab

LEMMA TabIsBusy ==
    ASSUME NEW s \in OpenTab
    PROVE  LET t == [s EXCEPT !.busy = TRUE, !.status = "processing"]
           IN t \in OpenTab /\ t.at = s.at /\ t.status = "processing" /\ t.busy
BY DEF OpenTab

LEMMA PagesInitInv == PagesInit => PagesInv
<1> SUFFICES ASSUME PagesInit PROVE PagesInv
  OBVIOUS
<1> PICK at \in PageKind : tab = FreshTab(at)
  BY DEF PagesInit
<1>1. /\ tab.at = at /\ tab.status = (IF at = "link" THEN "loading" ELSE "idle")
      /\ tab \in OpenTab
  BY TabIsFresh
<1> DEFINE q == [n |-> 1, op |-> "show", mine |-> TRUE, step |-> "read",
                 copy |-> [exists |-> TRUE, clicks |-> 0, payments |-> 0]]
<1>2. q \in Asking /\ q.op = "show" /\ q.mine /\ q.step = "read"
  BY DEF Asking, LinkRow
<1>3. /\ requests = IF tab.at = "link" THEN {q} ELSE {}
      /\ asked = IF tab.at = "link" THEN 1 ELSE 0
      /\ link = [exists |-> TRUE, clicks |-> 0, payments |-> 0]
      /\ charged = [all |-> 0, own |-> FALSE] /\ excuse = {}
  BY DEF PagesInit
<1> HIDE DEF q
<1>4. PagesShape
  BY <1>1, <1>2, <1>3 DEF PagesShape, LinkRow
<1>5. OnRow(requests) = {}
  BY <1>2, <1>3 DEF OnRow
<1>6. RequestsMatch
  BY <1>1, <1>2, <1>3 DEF RequestsMatch
<1>7. SuccessMatches
  BY <1>1, <1>3 DEF SuccessMatches
<1>8. CountsMatch
  <2>1. link.payments = 0 /\ link.exists /\ charged.all = 0
    BY <1>3
  <2>2. \A r \in OnRow(requests) : FALSE
    BY <1>5
  <2>3. link.payments <= charged.all
    BY <2>1
  <2> QED
    BY <2>1, <2>2, <2>3 DEF CountsMatch
<1> QED
  BY <1>4, <1>6, <1>7, <1>8 DEF PagesInv

---------------------------------------------------------------------------
(* What the customer does. *)

LEMMA LinkIsPaid == PagesInv /\ (HandleSubmit \/ MakeAnotherPayment) => PagesInv'
<1> SUFFICES ASSUME PagesInv, HandleSubmit \/ MakeAnotherPayment PROVE PagesInv'
  OBVIOUS
<1>1. tab \in OpenTab /\ charged \in [all : Nat, own : BOOLEAN]
  BY DEF PagesInv, PagesShape
<1>2. PICK op \in {"show", "pay"} :
      /\ Send(op, TRUE) /\ tab.at = "link" /\ UNCHANGED <<link, excuse>>
      /\ charged' \in [all : Nat, own : BOOLEAN] /\ charged'.all = charged.all
      /\ tab' \in OpenTab /\ tab'.at = "link"
      /\ op = "show" => tab.status = "success" /\ tab'.status = "loading"
      /\ op = "pay" => tab.status # "loading" /\ ~tab.busy /\ tab'.status = "processing" /\ tab'.busy
  <2>1. CASE HandleSubmit
    BY <1>1, <2>1, TabIsBusy DEF HandleSubmit
  <2>2. CASE MakeAnotherPayment
    BY <1>1, <2>2, TabIsFresh DEF MakeAnotherPayment, PageKind
  <2> QED
    BY <2>1, <2>2
<1>3. PICK q : q = NewRequest(op, TRUE)
  OBVIOUS
<1>10. q.op = op /\ q.mine = TRUE /\ q.step = "read" /\ requests' = requests \cup {q}
  BY <1>2, <1>3, SendIsTyped DEF PagesInv, NewRequest
<1>4. /\ asked' \in Nat /\ requests' \in SUBSET Asking /\ OnRow(requests') = OnRow(requests)
  BY <1>2, SendIsTyped DEF PagesInv
<1>5. PagesShape'
  BY <1>2, <1>4 DEF PagesInv, PagesShape
<1>6. \A r \in requests : ~r.mine
  BY <1>2 DEF PagesInv, RequestsMatch
<1>7. RequestsMatch'
  BY <1>2, <1>6, <1>10 DEF PagesInv, RequestsMatch
<1>8. SuccessMatches'
  BY <1>2 DEF PagesInv, SuccessMatches
<1>9. CountsMatch'
  BY <1>2, <1>4, RowStays DEF PagesInv
<1> QED
  BY <1>5, <1>7, <1>8, <1>9 DEF PagesInv

LEMMA CreationIsAsked == PagesInv /\ (HandlePayment \/ ScanFires \/ HandlePay) => PagesInv'
<1> SUFFICES ASSUME PagesInv, HandlePayment \/ ScanFires \/ HandlePay PROVE PagesInv'
  OBVIOUS
<1>1. tab \in OpenTab /\ charged \in [all : Nat, own : BOOLEAN]
  BY DEF PagesInv, PagesShape
<1>2. /\ Send("create", TRUE) /\ UNCHANGED <<link, excuse, charged>>
      /\ tab.at \in {"direct", "advanced"} /\ tab' \in OpenTab /\ tab'.at = tab.at
      /\ tab'.status = "processing"
  <2>1. CASE HandlePayment
    BY <1>1, <2>1, TabIsBusy DEF HandlePayment, CreatePayment
  <2>2. CASE ScanFires
    <3>1. PICK s : s = [tab EXCEPT !.scans = @ - 1]
      OBVIOUS
    <3>2. s \in OpenTab /\ s.at = tab.at
      BY <1>1, <2>2, <3>1 DEF ScanFires, OpenTab
    <3> QED
      BY <2>2, <3>1, <3>2, TabIsBusy DEF ScanFires, CreatePayment
  <2>3. CASE HandlePay
    BY <1>1, <2>3, TabIsBusy DEF HandlePay
  <2> QED
    BY <2>1, <2>2, <2>3
<1>3. PICK q : q = NewRequest("create", TRUE)
  OBVIOUS
<1>4. q.op = "create" /\ q.mine = TRUE /\ q.step = "charge" /\ requests' = requests \cup {q}
  BY <1>2, <1>3, SendIsTyped DEF PagesInv, NewRequest
<1>5. asked' \in Nat /\ requests' \in SUBSET Asking
  BY <1>2, SendIsTyped DEF PagesInv
<1>6. PagesShape'
  BY <1>2, <1>5 DEF PagesInv, PagesShape
<1>7. RequestsMatch'
  BY <1>2, <1>4 DEF PagesInv, RequestsMatch
<1>8. SuccessMatches'
  BY <1>2 DEF PagesInv, SuccessMatches
<1>9. CountsMatch'
  BY <1>2 DEF CountsMatch
<1> QED
  BY <1>6, <1>7, <1>8, <1>9 DEF PagesInv

\* A tap that asks the back end for nothing.
LEMMA TabIsTouched ==
    ASSUME PagesInv, tab.at \in {"direct", "advanced"}, tab' \in OpenTab, tab'.at = tab.at,
           tab'.status \in {tab.status, "idle"}, UNCHANGED backEnd
    PROVE  PagesInv'
<1>1. UNCHANGED <<requests, link, asked, charged, excuse>>
  BY DEF backEnd
<1>2. PagesShape'
  BY <1>1 DEF PagesInv, PagesShape
<1>3. RequestsMatch'
  BY <1>1 DEF PagesInv, RequestsMatch
<1>4. SuccessMatches'
  BY <1>1 DEF PagesInv, SuccessMatches
<1>5. CountsMatch'
  BY DEF CountsMatch
<1> QED
  BY <1>2, <1>3, <1>4, <1>5 DEF PagesInv

LEMMA TapsOnly ==
    ASSUME PagesInv,
           \/ FingerVerified \/ TryAgain \/ SetConsent
           \/ \E region \in {"IN", "INTL"} : SelectRegion(region)
    PROVE  PagesInv'
<1>1. tab \in OpenTab
  BY DEF PagesInv, PagesShape
<1>2. /\ tab.at \in {"direct", "advanced"} /\ tab' \in OpenTab /\ tab'.at = tab.at
      /\ tab'.status \in {tab.status, "idle"} /\ UNCHANGED backEnd
  <2>1. CASE FingerVerified
    BY <1>1, <2>1 DEF FingerVerified, OpenTab
  <2>2. CASE TryAgain
    BY <1>1, <2>2 DEF TryAgain, OpenTab
  <2>3. CASE SetConsent
    BY <1>1, <2>3 DEF SetConsent, OpenTab
  <2>4. ASSUME NEW region \in {"IN", "INTL"}, SelectRegion(region)
        PROVE  /\ tab.at \in {"direct", "advanced"} /\ tab' \in OpenTab /\ tab'.at = tab.at
               /\ tab'.status \in {tab.status, "idle"} /\ UNCHANGED backEnd
    BY <1>1, <2>4 DEF SelectRegion, OpenTab
  <2> QED
    BY <2>1, <2>2, <2>3, <2>4
<1> QED
  BY <1>2, TabIsTouched

LEMMA OthersAsk ==
    ASSUME PagesInv, NEW op \in {"show", "pay"}, Elsewhere(op)
    PROVE  PagesInv'
<1>1. Send(op, FALSE) /\ tab.at = "link" /\ UNCHANGED <<tab, link, charged, excuse>>
  BY DEF Elsewhere
<1>2. PICK q : q = NewRequest(op, FALSE)
  OBVIOUS
<1>3. q.op = op /\ q.mine = FALSE /\ q.step = "read" /\ requests' = requests \cup {q}
  BY <1>1, <1>2, SendIsTyped DEF PagesInv, NewRequest
<1>4. asked' \in Nat /\ requests' \in SUBSET Asking /\ OnRow(requests') = OnRow(requests)
  BY <1>1, SendIsTyped DEF PagesInv
<1>5. PagesShape'
  BY <1>1, <1>4 DEF PagesInv, PagesShape
<1>6. RequestsMatch'
  BY <1>1, <1>3 DEF PagesInv, RequestsMatch
<1>7. SuccessMatches'
  BY <1>1 DEF PagesInv, SuccessMatches
<1>8. CountsMatch'
  BY <1>1, <1>4, RowStays DEF PagesInv
<1> QED
  BY <1>5, <1>6, <1>7, <1>8 DEF PagesInv

---------------------------------------------------------------------------
(* What the back end does. *)

\* A step of one request, which stays what it is.
LEMMA RequestMoves ==
    ASSUME PagesInv, NEW r \in requests, NEW S \in SUBSET Asking,
           requests' = (requests \ {r}) \cup S, UNCHANGED tab,
           \A s, t \in S : s = t,
           \A s \in S : s.op = r.op /\ s.mine = r.mine,
           charged.own => charged'.own,
           \A s \in S : /\ s.step = "charge" => s.op # "show"
                        /\ s.step \in {"read", "write"} => s.op # "create"
                        /\ s.mine /\ s.op = "pay" /\ s.step \in {"write", "ok"} => charged'.own
                        /\ s.op = "create" /\ s.step = "ok" => charged'.own
                        /\ s.step = "unauthorized" => s.op = "create"
    PROVE  RequestsMatch' /\ requests' \in SUBSET Asking
<1>1. RequestsMatch /\ requests \in SUBSET Asking
  BY DEF PagesInv, PagesShape
<1>2. \A s \in S : /\ IF tab.at = "link" THEN s.op \in {"show", "pay"} ELSE s.op = "create" /\ s.mine
                   /\ s.mine /\ s.op = "show" => tab.status = "loading"
                   /\ s.mine /\ s.op = "pay" => tab.status = "processing" /\ tab.busy
  BY <1>1 DEF RequestsMatch
<1>3. ASSUME tab.at = "link" PROVE \A s, t \in requests' : s.mine /\ t.mine => s = t
  BY <1>1, <1>3 DEF RequestsMatch
<1>4. \A s \in requests' :
          /\ IF tab.at = "link" THEN s.op \in {"show", "pay"} ELSE s.op = "create" /\ s.mine
          /\ s.step = "charge" => s.op # "show"
          /\ s.step \in {"read", "write"} => s.op # "create"
          /\ s.mine /\ s.op = "show" => tab.status = "loading"
          /\ s.mine /\ s.op = "pay" => tab.status = "processing" /\ tab.busy
          /\ s.mine /\ s.op = "pay" /\ s.step \in {"write", "ok"} => charged'.own
          /\ s.op = "create" /\ s.step = "ok" => charged'.own
          /\ s.step = "unauthorized" => s.op = "create"
  BY <1>1, <1>2 DEF RequestsMatch
<1> QED
  BY <1>1, <1>3, <1>4 DEF RequestsMatch

\* The same for a step that leaves exactly one request behind.
LEMMA RequestBecomes ==
    ASSUME PagesInv, NEW r \in requests, NEW s \in Asking,
           requests' = (requests \ {r}) \cup {s}, UNCHANGED tab,
           s.op = r.op, s.mine = r.mine,
           charged.own => charged'.own,
           s.step \in {"charge", "write"},
           s.step = "charge" => s.op # "show",
           s.op # "create",
           s.mine /\ s.op = "pay" /\ s.step = "write" => charged'.own
    PROVE  RequestsMatch' /\ requests' \in SUBSET Asking
<1>1. RequestsMatch /\ requests \in SUBSET Asking
  BY DEF PagesInv, PagesShape
<1>2. /\ IF tab.at = "link" THEN s.op \in {"show", "pay"} ELSE s.op = "create" /\ s.mine
      /\ s.step = "charge" => s.op # "show"
      /\ s.step \in {"read", "write"} => s.op # "create"
      /\ s.mine /\ s.op = "show" => tab.status = "loading"
      /\ s.mine /\ s.op = "pay" => tab.status = "processing" /\ tab.busy
      /\ s.mine /\ s.op = "pay" /\ s.step \in {"write", "ok"} => charged'.own
      /\ s.op = "create" /\ s.step = "ok" => charged'.own
      /\ s.step = "unauthorized" => s.op = "create"
  BY <1>1 DEF RequestsMatch
<1>3. ASSUME tab.at = "link" PROVE \A a, b \in requests' : a.mine /\ b.mine => a = b
  BY <1>1, <1>3 DEF RequestsMatch
<1>4. \A a \in requests' :
          /\ IF tab.at = "link" THEN a.op \in {"show", "pay"} ELSE a.op = "create" /\ a.mine
          /\ a.step = "charge" => a.op # "show"
          /\ a.step \in {"read", "write"} => a.op # "create"
          /\ a.mine /\ a.op = "show" => tab.status = "loading"
          /\ a.mine /\ a.op = "pay" => tab.status = "processing" /\ tab.busy
          /\ a.mine /\ a.op = "pay" /\ a.step \in {"write", "ok"} => charged'.own
          /\ a.op = "create" /\ a.step = "ok" => charged'.own
          /\ a.step = "unauthorized" => a.op = "create"
  BY <1>1, <1>2 DEF RequestsMatch
<1> QED
  BY <1>1, <1>3, <1>4 DEF RequestsMatch

\* What is left of r when it finishes with this step: nothing, if it was
\* another customer's, or the request that waits for its answer.
Replaced(r, step) ==
    \E S \in SUBSET Asking :
       /\ requests' = (requests \ {r}) \cup S
       /\ \A s, t \in S : s = t
       /\ \A s \in S : s.op = r.op /\ s.mine = r.mine /\ s.step = step

\* The requests that a finished one leaves on the row.
LEMMA FinishedIsOff ==
    ASSUME requests \in SUBSET Asking, NEW r \in requests,
           NEW step \in {"ok", "unauthorized", "failed"}, Finished(r, step)
    PROVE  OnRow(requests') = OnRow(requests) \ {r} /\ Replaced(r, step)
<1>1. PICK s : s = [r EXCEPT !.step = step]
  OBVIOUS
<1>2. s \in Asking /\ s.op = r.op /\ s.mine = r.mine /\ s.step = step
  BY <1>1 DEF Asking
<1>3. requests' = (requests \ {r}) \cup (IF r.mine THEN {s} ELSE {})
  BY <1>1 DEF Finished
<1>4. OnRow(requests') = OnRow(requests) \ {r}
  BY <1>2, <1>3 DEF OnRow
<1>5. PICK S : S = IF r.mine THEN {s} ELSE {}
  OBVIOUS
<1>6. /\ S \in SUBSET Asking /\ requests' = (requests \ {r}) \cup S
      /\ \A a, b \in S : a = b
      /\ \A a \in S : a.op = r.op /\ a.mine = r.mine /\ a.step = step
  BY <1>2, <1>3, <1>5
<1>7. Replaced(r, step)
  BY <1>6 DEF Replaced
<1> QED
  BY <1>4, <1>7

\* A finished request keeps the requests in order.
LEMMA FinishedMatches ==
    ASSUME PagesInv, NEW r \in requests, NEW step \in {"ok", "unauthorized", "failed"},
           Finished(r, step), UNCHANGED tab, charged.own => charged'.own,
           step = "ok" /\ r.mine /\ r.op = "pay" => charged'.own,
           step = "ok" /\ r.op = "create" => charged'.own,
           step = "unauthorized" => r.op = "create"
    PROVE  RequestsMatch' /\ requests' \in SUBSET Asking
<1>1. requests \in SUBSET Asking
  BY DEF PagesInv, PagesShape
<1>2. Replaced(r, step)
  BY <1>1, FinishedIsOff
<1>3. PICK S \in SUBSET Asking :
          /\ requests' = (requests \ {r}) \cup S
          /\ \A s, t \in S : s = t
          /\ \A s \in S : s.op = r.op /\ s.mine = r.mine /\ s.step = step
  BY <1>2 DEF Replaced
<1>4. \A s \in S : /\ s.step = "charge" => s.op # "show"
                   /\ s.step \in {"read", "write"} => s.op # "create"
                   /\ s.mine /\ s.op = "pay" /\ s.step \in {"write", "ok"} => charged'.own
                   /\ s.op = "create" /\ s.step = "ok" => charged'.own
                   /\ s.step = "unauthorized" => s.op = "create"
  BY <1>3
<1> QED
  BY <1>3, <1>4, RequestMoves

LEMMA LinkIsRead ==
    ASSUME PagesInv, NEW r \in requests, ReadLink(r), UNCHANGED <<tab, asked>>
    PROVE  PagesInv'
<1>1. /\ r.step = "read" /\ tab.at = "link" /\ r.op \in {"show", "pay"} /\ r \in Asking
      /\ requests \in SUBSET Asking /\ link \in LinkRow
      /\ excuse' = IF OnRow(requests) # {} THEN excuse \cup {"overlap"} ELSE excuse
      /\ UNCHANGED <<link, charged>>
  BY DEF ReadLink, PagesInv, PagesShape, RequestsMatch
<1>2. SuccessMatches'
  BY <1>1 DEF PagesInv, SuccessMatches
<1>3. RequestsMatch' /\ requests' \in SUBSET Asking /\ CountsMatch'
  <2>1. CASE link.exists
    <3>1. PICK copy : copy = [link EXCEPT !.clicks = IF r.op = "show" THEN @ + 1 ELSE @]
      OBVIOUS
    <3>2. copy \in LinkRow /\ copy.payments = link.payments
      BY <1>1, <3>1 DEF LinkRow
    <3>3. PICK s : s = [r EXCEPT !.step = IF r.op = "pay" THEN "charge" ELSE "write",
                                 !.copy = copy]
      OBVIOUS
    <3>4. /\ s \in Asking /\ s.op = r.op /\ s.mine = r.mine /\ s.copy = copy
          /\ s.step = IF r.op = "pay" THEN "charge" ELSE "write"
      BY <1>1, <3>2, <3>3 DEF Asking
    <3>5. requests' = (requests \ {r}) \cup {s}
      BY <2>1, <3>1, <3>3 DEF ReadLink, Becomes
    <3>9. /\ s.step \in {"charge", "write"} /\ (s.step = "charge" => s.op # "show")
          /\ s.op # "create" /\ ~(s.op = "pay" /\ s.step = "write")
      BY <1>1, <3>4
    <3>6. RequestsMatch' /\ requests' \in SUBSET Asking
      BY <1>1, <3>4, <3>5, <3>9, RequestBecomes
    <3>7. OnRow(requests') = OnRow(requests) \cup {s}
      BY <1>1, <3>4, <3>5 DEF OnRow
    <3>8. CountsMatch'
      BY <1>1, <2>1, <3>2, <3>4, <3>7 DEF PagesInv, CountsMatch
    <3> QED
      BY <3>6, <3>8
  <2>2. CASE ~link.exists
    <3>1. Finished(r, "failed")
      BY <2>2 DEF ReadLink
    <3>2. RequestsMatch' /\ requests' \in SUBSET Asking
      BY <1>1, <3>1, FinishedMatches
    <3>3. OnRow(requests') = OnRow(requests)
      BY <1>1, <3>1, FinishedIsOff DEF OnRow
    <3>4. CountsMatch'
      BY <1>1, <2>2, <3>3 DEF PagesInv, CountsMatch
    <3> QED
      BY <3>2, <3>4
  <2> QED
    BY <2>1, <2>2
<1>4. PagesShape'
  BY <1>1, <1>3 DEF PagesInv, PagesShape, Excuses
<1> QED
  BY <1>2, <1>3, <1>4 DEF PagesInv

LEMMA PaymentIsMade ==
    ASSUME PagesInv, NEW r \in requests, CreateAtServer(r), UNCHANGED <<tab, asked>>
    PROVE  PagesInv'
<1>1. /\ r.step = "charge" /\ r.op \in {"pay", "create"} /\ r \in Asking
      /\ tab.at = "link" <=> r.op = "pay"
      /\ r.op = "create" => r.mine
      /\ requests \in SUBSET Asking /\ charged \in [all : Nat, own : BOOLEAN]
      /\ UNCHANGED <<link, excuse>>
  BY DEF CreateAtServer, PagesInv, PagesShape, RequestsMatch, Asking
<1>2. ASSUME NEW step \in {"unauthorized", "failed"}, Finished(r, step), UNCHANGED charged,
             step = "unauthorized" => r.op = "create"
      PROVE  PagesInv'
  <2>0. /\ step \in {"ok", "unauthorized", "failed"} /\ Finished(r, step)
        /\ requests \in SUBSET Asking
    BY <1>1, <1>2
  <2>1. RequestsMatch' /\ requests' \in SUBSET Asking
    BY <1>2, <2>0, FinishedMatches
  <2>2. OnRow(requests') = OnRow(requests) \ {r}
    BY <2>0, FinishedIsOff
  <2>3. CountsMatch'
    <3> SUFFICES ASSUME tab.at = "link" PROVE CountsMatch'
      BY DEF CountsMatch
    <3>1. r \in OnRow(requests)
      BY <1>1 DEF OnRow
    <3> QED
      BY <1>1, <1>2, <2>2, <3>1 DEF PagesInv, CountsMatch
  <2>4. SuccessMatches' /\ PagesShape'
    BY <1>1, <1>2, <2>1 DEF PagesInv, SuccessMatches, PagesShape
  <2> QED
    BY <2>1, <2>3, <2>4 DEF PagesInv
<1>3. ASSUME charged' = [all |-> charged.all + 1, own |-> charged.own \/ r.mine],
             IF r.op = "pay"
             THEN Becomes(r, [r EXCEPT !.step = "write", !.copy.payments = @ + 1])
             ELSE Finished(r, "ok")
      PROVE  PagesInv'
  <2>1. /\ charged' \in [all : Nat, own : BOOLEAN] /\ charged'.all = charged.all + 1
        /\ charged.own \/ r.mine => charged'.own
    BY <1>1, <1>3 DEF Asking
  <2>2. RequestsMatch' /\ requests' \in SUBSET Asking /\ CountsMatch'
    <3>1. CASE r.op = "pay"
      <4>1. PICK copy : copy = [r.copy EXCEPT !.payments = @ + 1]
        OBVIOUS
      <4>2. copy \in LinkRow /\ copy.payments = r.copy.payments + 1 /\ copy.exists = r.copy.exists
        BY <1>1, <4>1 DEF Asking, LinkRow
      <4>3. PICK s : s = [r EXCEPT !.step = "write", !.copy = copy]
        OBVIOUS
      <4>4. s \in Asking /\ s.op = r.op /\ s.mine = r.mine /\ s.copy = copy /\ s.step = "write"
        BY <1>1, <4>2, <4>3 DEF Asking
      <4>5. s = [r EXCEPT !.step = "write", !.copy.payments = @ + 1]
        BY <1>1, <4>1, <4>3 DEF Asking
      <4>6. requests' = (requests \ {r}) \cup {s}
        BY <1>3, <3>1, <4>5 DEF Becomes
      <4>12. /\ s.step \in {"charge", "write"} /\ (s.step = "charge" => s.op # "show")
             /\ s.op # "create" /\ (s.mine => charged'.own) /\ (charged.own => charged'.own)
        BY <2>1, <3>1, <4>4
      <4>7. RequestsMatch' /\ requests' \in SUBSET Asking
        BY <4>4, <4>6, <4>12, RequestBecomes
      <4>8. r \in OnRow(requests) /\ OnRow(requests') = (OnRow(requests) \ {r}) \cup {s}
        BY <1>1, <3>1, <4>4, <4>6 DEF OnRow
      <4>9. \A a \in OnRow(requests) : a.copy.payments \in Nat
        BY <1>1 DEF OnRow, Asking, LinkRow
      <4>10. link.payments \in Nat /\ charged.all \in Nat
        BY <1>1 DEF PagesInv, PagesShape, LinkRow
      <4>11. CountsMatch'
        BY <1>1, <2>1, <4>2, <4>4, <4>8, <4>9, <4>10 DEF PagesInv, CountsMatch
      <4> QED
        BY <4>7, <4>11
    <3>2. CASE r.op = "create"
      <4>1. Finished(r, "ok")
        BY <1>3, <3>2
      <4>2. (charged.own => charged'.own) /\ charged'.own
        BY <1>1, <2>1, <3>2
      <4>3. RequestsMatch' /\ requests' \in SUBSET Asking
        BY <3>2, <4>1, <4>2, FinishedMatches
      <4>4. CountsMatch'
        BY <1>1, <3>2 DEF CountsMatch
      <4> QED
        BY <4>3, <4>4
    <3> QED
      BY <1>1, <3>1, <3>2
  <2>3. PagesShape'
    BY <1>1, <2>1, <2>2 DEF PagesInv, PagesShape
  <2>4. SuccessMatches'
    BY <1>1, <2>1 DEF PagesInv, SuccessMatches
  <2> QED
    BY <2>2, <2>3, <2>4 DEF PagesInv
<1> QED
  BY <1>1, <1>2, <1>3 DEF CreateAtServer

LEMMA LinkIsWritten ==
    ASSUME PagesInv, NEW r \in requests, WriteLink(r), UNCHANGED <<tab, asked>>
    PROVE  PagesInv'
<1>1. /\ r.step = "write" /\ tab.at = "link" /\ r.op \in {"show", "pay"} /\ r \in Asking
      /\ requests \in SUBSET Asking /\ link \in LinkRow /\ r.copy \in LinkRow
      /\ link' = IF link.exists THEN r.copy ELSE link
      /\ r.mine /\ r.op = "pay" => charged.own
      /\ Finished(r, "ok") /\ UNCHANGED <<charged, excuse>>
  BY DEF WriteLink, PagesInv, PagesShape, RequestsMatch, Asking
<1>3. RequestsMatch' /\ requests' \in SUBSET Asking
  BY <1>1, FinishedMatches
<1>4. r \in OnRow(requests) /\ OnRow(requests') = OnRow(requests) \ {r}
  BY <1>1, FinishedIsOff DEF OnRow
<1>5. CountsMatch'
  BY <1>1, <1>4 DEF PagesInv, CountsMatch
<1>6. PagesShape' /\ SuccessMatches'
  BY <1>1, <1>3 DEF PagesInv, PagesShape, SuccessMatches
<1> QED
  BY <1>3, <1>5, <1>6 DEF PagesInv

LEMMA LinkIsDeleted == ASSUME PagesInv, DeleteLink PROVE PagesInv'
<1>1. /\ tab.at = "link" /\ link \in LinkRow /\ link' = [link EXCEPT !.exists = FALSE]
      /\ excuse' = IF OnRow(requests) # {} THEN excuse \cup {"overlap"} ELSE excuse
      /\ UNCHANGED <<tab, requests, asked, charged>>
  BY DEF DeleteLink, PagesInv, PagesShape
<1>2. link' \in LinkRow /\ link'.payments = link.payments /\ ~link'.exists
  BY <1>1 DEF LinkRow
<1>3. PagesShape' /\ SuccessMatches'
  BY <1>1, <1>2 DEF PagesInv, PagesShape, SuccessMatches, Excuses
<1>4. RequestsMatch'
  BY <1>1 DEF PagesInv, RequestsMatch
<1>5. OnRow(requests') = OnRow(requests)
  BY <1>1 DEF OnRow
<1>6. CountsMatch'
  BY <1>1, <1>2, <1>5 DEF PagesInv, CountsMatch
<1> QED
  BY <1>3, <1>4, <1>6 DEF PagesInv

---------------------------------------------------------------------------
(* The answers. *)

LEMMA AnswerIsShown == ASSUME PagesInv, RequestAnswered PROVE PagesInv'
<1>1. PICK r \in requests :
        /\ r.mine /\ r.step \in {"ok", "unauthorized", "failed"}
        /\ Shown(r) \/ Paid(r) \/ CreatedDirectly(r) \/ CreatedAdvanced(r)
        /\ requests' = requests \ {r}
  BY DEF RequestAnswered
<1>2. UNCHANGED <<link, asked, charged>>
  BY DEF RequestAnswered
<1>3. tab \in OpenTab /\ requests \in SUBSET Asking /\ excuse \in SUBSET Excuses
  BY DEF PagesInv, PagesShape
<1>4. /\ tab' \in OpenTab /\ tab'.at = tab.at
      /\ excuse' \in {excuse, excuse \cup {"sandbox"}}
      /\ excuse' # excuse => tab.at = "advanced"
      /\ tab'.status = "success" =>
            \/ r.op \in {"pay", "create"} /\ r.step = "ok" /\ tab.at \in {"link", "advanced"}
            \/ r.step = "unauthorized" /\ tab.at = "advanced" /\ "sandbox" \in excuse'
            \/ tab.status = "success" /\ tab.at = "direct"
  <2>1. CASE Shown(r)
    BY <1>3, <2>1 DEF Shown, OpenTab
  <2>2. CASE Paid(r)
    <3>1. tab' \in OpenTab /\ tab'.at = tab.at /\ tab'.status = IF r.step = "ok" THEN "success" ELSE "failed"
      BY <1>3, <2>2 DEF Paid, OpenTab
    <3>2. tab.at = "link" /\ r.op = "pay" /\ UNCHANGED excuse
      BY <2>2 DEF Paid, PagesInv, RequestsMatch
    <3> QED
      BY <3>1, <3>2
  <2>3. CASE CreatedDirectly(r)
    <3>1. tab' \in OpenTab /\ tab'.at = tab.at /\ tab'.status = IF r.step = "ok" THEN tab.status ELSE "failed"
      BY <1>3, <2>3 DEF CreatedDirectly, OpenTab
    <3> QED
      BY <2>3, <3>1 DEF CreatedDirectly
  <2>4. CASE CreatedAdvanced(r)
    <3>1. /\ tab' \in OpenTab /\ tab'.at = tab.at
          /\ tab'.status = IF r.step \in {"ok", "unauthorized"} THEN "success" ELSE "failed"
      BY <1>3, <2>4 DEF CreatedAdvanced, OpenTab
    <3> QED
      BY <2>4, <3>1 DEF CreatedAdvanced
  <2> QED
    BY <1>1, <2>1, <2>2, <2>3, <2>4
<1>5. PagesShape'
  BY <1>1, <1>2, <1>3, <1>4 DEF PagesInv, PagesShape, Excuses
<1>6. RequestsMatch'
  BY <1>1, <1>2, <1>4 DEF PagesInv, RequestsMatch
<1>7. SuccessMatches'
  BY <1>1, <1>2, <1>4 DEF PagesInv, SuccessMatches, RequestsMatch
<1>8. OnRow(requests') = OnRow(requests)
  BY <1>1 DEF OnRow
<1>9. CountsMatch'
  BY <1>2, <1>4, <1>8 DEF PagesInv, CountsMatch
<1> QED
  BY <1>5, <1>6, <1>7, <1>9 DEF PagesInv

LEMMA PagesStep == PagesInv /\ [PagesNext]_pagesVars => PagesInv'
<1> SUFFICES ASSUME PagesInv, [PagesNext]_pagesVars PROVE PagesInv'
  OBVIOUS
<1>1. ASSUME UNCHANGED <<tab, requests, link, asked, charged, excuse>> PROVE PagesInv'
  BY <1>1 DEF PagesInv, PagesShape, RequestsMatch, SuccessMatches, CountsMatch, OnRow
<1>2. CASE \/ OpenCheckout \/ Remove \/ MerchantCloses \/ Receive
           \/ IntentReady \/ HandleClose \/ PayInFrame \/ AttemptEnds \/ TellSuccess
  BY <1>1, <1>2 DEF OpenCheckout, Remove, MerchantCloses, Receive, IntentReady, HandleClose,
        PayInFrame, AttemptEnds, TellSuccess, FrameStep, backEnd
<1>3. CASE UNCHANGED pagesVars
  BY <1>1, <1>3 DEF pagesVars
<1>4. CASE ServeRequest
  BY <1>4, LinkIsRead, PaymentIsMade, LinkIsWritten DEF ServeRequest
<1>5. CASE HandleSubmit \/ MakeAnotherPayment \/ HandlePayment \/ ScanFires \/ HandlePay
  BY <1>5, LinkIsPaid, CreationIsAsked
<1>6. CASE \/ FingerVerified \/ TryAgain \/ SetConsent
           \/ \E region \in {"IN", "INTL"} : SelectRegion(region)
  BY <1>6, TapsOnly
<1>7. CASE \/ DeleteLink \/ RequestAnswered
           \/ \E op \in {"show", "pay"} : Elsewhere(op)
  BY <1>7, LinkIsDeleted, AnswerIsShown, OthersAsk
<1> QED
  BY <1>2, <1>3, <1>4, <1>5, <1>6, <1>7 DEF PagesNext

\* The requests, the link's row and what the page shows agree as PagesInv says,
\* for any number of requests and customers.
THEOREM PagesInvariant == PagesSpec => []PagesInv
BY PagesInitInv, PagesStep, PTL DEF PagesSpec

\* The counter of a link never runs ahead of the payments, and falls behind only
\* if requests on its row overlapped or it was deleted
\* (payment_handler.go:430-476, ProcessPaymentLink).
THEOREM LinksCountPayments == PagesSpec => []LinkCountsPayments
<1>1. PagesInv => LinkCountsPayments
  BY DEF PagesInv, CountsMatch, LinkCountsPayments
<1> QED
  BY <1>1, PagesInvariant, PTL

\* No page shows a success that was not charged since it was loaded, but for the
\* sandbox of the advanced checkout.
THEOREM SuccessesWereCharged == PagesSpec => []SuccessWasCharged
<1>1. PagesInv => SuccessWasCharged
  BY DEF PagesInv, SuccessMatches, SuccessWasCharged
<1> QED
  BY <1>1, PagesInvariant, PTL

---------------------------------------------------------------------------
(* The frame of the SDK: approvals that are on their way to the merchant. *)

OpenFrame == [open : BOOLEAN, status : Checkout, mail : Seq(Letter), removals : Nat, stale : Nat,
              overflow : {"page", "hidden"}, opens : Nat, attempts : Nat,
              tell : BOOLEAN, cutShort : BOOLEAN]

\* The messages of success among those on their way.
Approvals(mail) == {i \in 1..Len(mail) : mail[i] = "PAYMENT_SUCCESS"}

\* The successes told, on their way, or waiting for the badge to be seen.
Accounted == told.success + Cardinality(Approvals(frame.mail)) + (IF frame.tell THEN 1 ELSE 0)

\* They were all approved, and they are all that was approved, unless the frame
\* was removed while it was paying.
FrameInv ==
    /\ frame \in OpenFrame
    /\ told \in [approved : Nat, success : Nat]
    /\ frame.tell => frame.open /\ frame.status = "success"
    /\ Accounted <= told.approved
    /\ ~frame.cutShort => Accounted = told.approved

LEMMA ApprovalsAreFinite ==
    ASSUME NEW mail \in Seq(Letter)
    PROVE  IsFiniteSet(Approvals(mail)) /\ Cardinality(Approvals(mail)) \in Nat
<1>1. Len(mail) \in Nat
  OBVIOUS
<1>2. IsFiniteSet(1..Len(mail))
  BY <1>1, FS_Interval
<1>3. Approvals(mail) \subseteq 1..Len(mail)
  BY DEF Approvals
<1>4. IsFiniteSet(Approvals(mail))
  BY <1>2, <1>3, FS_Subset
<1> QED
  BY <1>4, FS_CardinalityType

\* A message that is sent is one more, if it tells of a success.
LEMMA ApprovalsWhenSent ==
    ASSUME NEW mail \in Seq(Letter), NEW letter \in Letter
    PROVE  /\ Append(mail, letter) \in Seq(Letter)
           /\ Cardinality(Approvals(Append(mail, letter))) =
                  Cardinality(Approvals(mail)) + (IF letter = "PAYMENT_SUCCESS" THEN 1 ELSE 0)
<1>1. PICK more : more = Append(mail, letter)
  OBVIOUS
<1>2. /\ more \in Seq(Letter) /\ Len(mail) \in Nat /\ Len(more) = Len(mail) + 1
      /\ more[Len(mail) + 1] = letter /\ \A i \in 1..Len(mail) : more[i] = mail[i]
  BY <1>1
<1>3. \A i : i \in 1..Len(more) <=> i \in 1..Len(mail) \/ i = Len(mail) + 1
  BY <1>2
<1>4. IsFiniteSet(Approvals(mail)) /\ Cardinality(Approvals(mail)) \in Nat
  BY ApprovalsAreFinite
<1>5. CASE letter = "PAYMENT_SUCCESS"
  <2>1. Approvals(more) = Approvals(mail) \cup {Len(mail) + 1}
    BY <1>2, <1>3, <1>5 DEF Approvals
  <2>2. Len(mail) + 1 \notin Approvals(mail)
    BY <1>2 DEF Approvals
  <2>3. Cardinality(Approvals(more)) = Cardinality(Approvals(mail)) + 1
    BY <2>1, <2>2, <1>4, FS_AddElement
  <2> QED
    BY <2>3, <1>1, <1>2, <1>5
<1>6. CASE letter # "PAYMENT_SUCCESS"
  <2>1. Approvals(more) = Approvals(mail)
    BY <1>2, <1>3, <1>6 DEF Approvals
  <2> QED
    BY <2>1, <1>1, <1>2, <1>4, <1>6
<1> QED
  BY <1>5, <1>6

\* A message that is received is one less.
LEMMA ApprovalsWhenReceived ==
    ASSUME NEW mail \in Seq(Letter), mail # <<>>
    PROVE  /\ Tail(mail) \in Seq(Letter) /\ Head(mail) \in Letter
           /\ Cardinality(Approvals(mail)) =
                  Cardinality(Approvals(Tail(mail))) + (IF Head(mail) = "PAYMENT_SUCCESS" THEN 1 ELSE 0)
<1>1. PICK rest : rest = Tail(mail)
  OBVIOUS
<1>2. /\ rest \in Seq(Letter) /\ Len(rest) \in Nat /\ Len(mail) = Len(rest) + 1
      /\ Head(mail) = mail[1] /\ Head(mail) \in Letter
      /\ \A i \in 1..Len(rest) : rest[i] = mail[i + 1]
  BY <1>1
<1>3. PICK S : S = Approvals(rest)
  OBVIOUS
<1>4. PICK T : T = Approvals(mail) \ {1}
  OBVIOUS
<1>5. \A i \in S : i \in Nat /\ i + 1 \in T
  <2> TAKE i \in S
  <2>1. i \in 1..Len(rest) /\ rest[i] = "PAYMENT_SUCCESS"
    BY <1>3 DEF Approvals
  <2>2. i \in Nat /\ i + 1 \in 1..Len(mail) /\ i + 1 # 1 /\ mail[i + 1] = "PAYMENT_SUCCESS"
    BY <2>1, <1>2
  <2> QED
    BY <2>2, <1>4 DEF Approvals
<1>6. \A j \in T : j - 1 \in S /\ j \in Nat
  <2> TAKE j \in T
  <2>1. j \in 1..Len(mail) /\ j # 1 /\ mail[j] = "PAYMENT_SUCCESS"
    BY <1>4 DEF Approvals
  <2>2. j \in Nat /\ j - 1 \in 1..Len(rest) /\ rest[j - 1] = mail[(j - 1) + 1] /\ (j - 1) + 1 = j
    BY <2>1, <1>2
  <2> QED
    BY <2>1, <2>2, <1>3 DEF Approvals
<1>7. Cardinality(T) = Cardinality(S) /\ IsFiniteSet(S)
  <2>1. PICK F : F = [i \in S |-> i + 1]
    OBVIOUS
  <2>2. F \in [S -> T] /\ (\A a, b \in S : F[a] = F[b] => a = b)
    BY <2>1, <1>5
  <2>3. \A t \in T : \E s \in S : F[s] = t
    <3> TAKE t \in T
    <3>1. t - 1 \in S /\ F[t - 1] = (t - 1) + 1 /\ (t - 1) + 1 = t
      BY <2>1, <1>6
    <3> QED
      BY <3>1
  <2>4. F \in Bijection(S, T)
    BY <2>2, <2>3, Fun_IsBij
  <2>5. ExistsBijection(S, T)
    BY <2>4, Fun_ExistsBij
  <2>6. IsFiniteSet(S)
    BY <1>2, <1>3, ApprovalsAreFinite
  <2> QED
    BY <2>5, <2>6, FS_Bijection
<1>8. IsFiniteSet(Approvals(mail)) /\ Cardinality(Approvals(mail)) \in Nat
  BY ApprovalsAreFinite
<1>9. CASE Head(mail) = "PAYMENT_SUCCESS"
  <2>1. 1 \in Approvals(mail)
    BY <1>2, <1>9 DEF Approvals
  <2>2. Cardinality(T) = Cardinality(Approvals(mail)) - 1
    BY <2>1, <1>4, <1>8, FS_RemoveElement
  <2> QED
    BY <2>2, <1>1, <1>2, <1>3, <1>7, <1>8, <1>9
<1>10. CASE Head(mail) # "PAYMENT_SUCCESS"
  <2>1. T = Approvals(mail)
    BY <1>2, <1>4, <1>10 DEF Approvals
  <2> QED
    BY <2>1, <1>1, <1>2, <1>3, <1>7, <1>8, <1>10
<1> QED
  BY <1>9, <1>10

LEMMA FrameInitInv == PagesInit => FrameInv
<1> SUFFICES ASSUME PagesInit PROVE FrameInv
  OBVIOUS
<1>1. frame = NoFrame /\ told = [approved |-> 0, success |-> 0]
  BY DEF PagesInit
<1>2. frame.mail = <<>> /\ frame.tell = FALSE /\ frame \in OpenFrame
  BY <1>1 DEF NoFrame, OpenFrame, Checkout
<1>3. Approvals(<<>>) = {}
  BY DEF Approvals
<1>4. Cardinality(Approvals(frame.mail)) = 0
  BY <1>2, <1>3, FS_EmptySet
<1> QED
  BY <1>1, <1>2, <1>4 DEF FrameInv, Accounted

\* A step that sends and receives nothing, and approves nothing.
LEMMA FrameMoves ==
    ASSUME FrameInv, frame' \in OpenFrame, frame'.mail = frame.mail,
           frame'.tell => frame.tell /\ frame'.open /\ frame'.status = "success",
           frame.cutShort \/ (frame.tell /\ ~frame'.tell) => frame'.cutShort,
           told' = told
    PROVE  FrameInv'
<1>1. Cardinality(Approvals(frame.mail)) \in Nat
  BY ApprovalsAreFinite DEF FrameInv, OpenFrame
<1>2. Cardinality(Approvals(frame.mail))' = Cardinality(Approvals(frame.mail))
  OBVIOUS
<1>3. frame.tell \in BOOLEAN /\ frame'.tell \in BOOLEAN
      /\ frame.cutShort \in BOOLEAN /\ frame'.cutShort \in BOOLEAN
  BY DEF FrameInv, OpenFrame
<1>4. told \in [approved : Nat, success : Nat]
  BY DEF FrameInv
<1> QED
  BY <1>1, <1>2, <1>3, <1>4 DEF FrameInv, Accounted

LEMMA FrameIsOpened == ASSUME FrameInv, OpenCheckout PROVE FrameInv'
<1>1. PICK n \in Nat : n = frame.opens + 1
  BY DEF FrameInv, OpenFrame
<1>2. frame' = [frame EXCEPT !.open = TRUE, !.status = "loading", !.overflow = "hidden",
                             !.opens = n, !.tell = FALSE]
  BY <1>1 DEF OpenCheckout
<1>3. /\ frame' \in OpenFrame /\ frame'.mail = frame.mail /\ ~frame'.tell
      /\ frame'.cutShort = frame.cutShort
  BY <1>2 DEF FrameInv, OpenFrame, Checkout
<1>4. ~frame.tell /\ told' = told
  BY DEF OpenCheckout, FrameInv
<1> QED
  BY <1>3, <1>4, FrameMoves

LEMMA CloseIsTyped ==
    ASSUME NEW f \in OpenFrame
    PROVE  CloseCheckout(f) \in OpenFrame /\ CloseCheckout(f).mail = f.mail
           /\ CloseCheckout(f).tell = f.tell /\ CloseCheckout(f).cutShort = f.cutShort
           /\ CloseCheckout(f).open = f.open /\ CloseCheckout(f).status = f.status
BY DEF CloseCheckout, OpenFrame

LEMMA FrameIsClosed == ASSUME FrameInv, Remove \/ MerchantCloses PROVE FrameInv'
<1>1. CASE Remove
  <2>1. PICK cut \in BOOLEAN : cut = (frame.cutShort \/ frame.status = "processing" \/ frame.tell)
    BY DEF FrameInv, OpenFrame
  <2>2. /\ frame' \in OpenFrame /\ frame'.mail = frame.mail
        /\ frame'.tell => /\ frame.tell /\ frame'.open = frame.open
                          /\ frame'.status = frame.status
        /\ frame.cutShort \/ (frame.tell /\ ~frame'.tell) => frame'.cutShort
    <3>1. CASE /\ frame.removals > 0
               /\ frame' = [frame EXCEPT !.removals = 0, !.stale = @ + frame.removals - 1,
                                    !.open = FALSE, !.status = "loading", !.tell = FALSE,
                                    !.overflow = "page", !.cutShort = cut]
      <4>1. frame.stale + frame.removals - 1 \in Nat
        BY <3>1 DEF FrameInv, OpenFrame
      <4> QED
        BY <2>1, <3>1, <4>1 DEF FrameInv, OpenFrame, Checkout
    <3>2. CASE frame.stale > 0 /\ frame' = [frame EXCEPT !.stale = @ - 1, !.overflow = "page"]
      <4>1. frame.stale - 1 \in Nat
        BY <3>2 DEF FrameInv, OpenFrame
      <4> QED
        BY <3>2, <4>1 DEF FrameInv, OpenFrame
    <3> QED
      BY <1>1, <2>1, <3>1, <3>2 DEF Remove
  <2>3. frame.tell => frame.open /\ frame.status = "success"
    BY DEF FrameInv
  <2> QED
    BY <1>1, <2>2, <2>3, FrameMoves DEF Remove
<1>2. CASE MerchantCloses
  <2>1. frame' = CloseCheckout(frame) /\ told' = told /\ frame \in OpenFrame
    BY <1>2 DEF MerchantCloses, FrameInv
  <2>2. /\ frame' \in OpenFrame /\ frame'.mail = frame.mail /\ frame'.tell = frame.tell
        /\ frame'.cutShort = frame.cutShort
        /\ frame'.open = frame.open /\ frame'.status = frame.status
    BY <2>1, CloseIsTyped
  <2>3. frame.tell => frame.open /\ frame.status = "success"
    BY DEF FrameInv
  <2> QED
    BY <2>1, <2>2, <2>3, FrameMoves
<1> QED
  BY <1>1, <1>2

\* The listener tells the merchant of a success it takes out of the mail.
LEMMA MessageIsReceived == ASSUME FrameInv, Receive PROVE FrameInv'
<1>1. frame.mail \in Seq(Letter) /\ frame.mail # <<>>
  BY DEF FrameInv, OpenFrame, Receive
<1>2. PICK f : f = [frame EXCEPT !.mail = Tail(frame.mail)]
  OBVIOUS
<1>3. /\ f \in OpenFrame /\ f.mail = Tail(frame.mail) /\ f.tell = frame.tell
      /\ f.cutShort = frame.cutShort /\ f.open = frame.open /\ f.status = frame.status
  BY <1>1, <1>2, ApprovalsWhenReceived DEF FrameInv, OpenFrame
<1>4. frame' = f \/ frame' = CloseCheckout(f)
  BY <1>2 DEF Receive
<1>5. /\ frame' \in OpenFrame /\ frame'.mail = Tail(frame.mail) /\ frame'.tell = frame.tell
      /\ frame'.cutShort = frame.cutShort
      /\ frame'.open = frame.open /\ frame'.status = frame.status
  BY <1>3, <1>4, CloseIsTyped
<1>6. /\ told' \in [approved : Nat, success : Nat] /\ told'.approved = told.approved
      /\ told'.success = told.success + (IF Head(frame.mail) = "PAYMENT_SUCCESS" THEN 1 ELSE 0)
  BY DEF Receive, FrameInv
<1>7. /\ Cardinality(Approvals(frame.mail)) =
             Cardinality(Approvals(Tail(frame.mail)))
                 + (IF Head(frame.mail) = "PAYMENT_SUCCESS" THEN 1 ELSE 0)
      /\ Cardinality(Approvals(Tail(frame.mail))) \in Nat
  BY <1>1, ApprovalsWhenReceived, ApprovalsAreFinite
<1>8. Cardinality(Approvals(frame.mail))' = Cardinality(Approvals(Tail(frame.mail)))
  BY <1>5
<1> QED
  BY <1>5, <1>6, <1>7, <1>8 DEF FrameInv, Accounted

LEMMA CheckoutGoesOn == ASSUME FrameInv, IntentReady \/ PayInFrame PROVE FrameInv'
<1>1. /\ frame' \in OpenFrame /\ frame'.mail = frame.mail /\ frame'.tell = frame.tell
      /\ frame'.cutShort = frame.cutShort /\ frame.status # "success"
  <2>1. CASE IntentReady
    BY <2>1 DEF IntentReady, FrameInv, OpenFrame, Checkout
  <2>2. CASE PayInFrame
    <3>1. PICK n \in Nat : n = frame.attempts + 1
      BY DEF FrameInv, OpenFrame
    <3>2. frame' = [frame EXCEPT !.status = "processing", !.attempts = n]
      BY <2>2, <3>1 DEF PayInFrame
    <3> QED
      BY <2>2, <3>2 DEF PayInFrame, FrameInv, OpenFrame, Checkout
  <2> QED
    BY <2>1, <2>2
<1>2. ~frame.tell /\ told' = told
  BY <1>1 DEF IntentReady, PayInFrame, FrameInv
<1> QED
  BY <1>1, <1>2, FrameMoves

\* A message that tells of no success.
LEMMA OtherMessageIsSent ==
    ASSUME FrameInv, NEW letter \in Letter \ {"PAYMENT_SUCCESS"}, frame' \in OpenFrame,
           frame'.mail = Append(frame.mail, letter), frame'.tell = frame.tell,
           frame'.tell => frame'.open /\ frame'.status = "success",
           frame'.cutShort = frame.cutShort, told' = told
    PROVE  FrameInv'
<1>1. frame.mail \in Seq(Letter)
  BY DEF FrameInv, OpenFrame
<1>2. Cardinality(Approvals(Append(frame.mail, letter))) = Cardinality(Approvals(frame.mail))
      /\ Cardinality(Approvals(frame.mail)) \in Nat
  BY <1>1, ApprovalsWhenSent, ApprovalsAreFinite
<1>3. Cardinality(Approvals(frame.mail))' = Cardinality(Approvals(Append(frame.mail, letter)))
  OBVIOUS
<1> QED
  BY <1>2, <1>3 DEF FrameInv, Accounted

LEMMA CloseIsAsked == ASSUME FrameInv, HandleClose PROVE FrameInv'
<1>1. PICK letter \in Letter \ {"PAYMENT_SUCCESS"} : letter = "CLOSE_CHECKOUT"
  BY DEF Letter
<1>2. frame' = [frame EXCEPT !.mail = Append(frame.mail, letter)] /\ told' = told
  BY <1>1 DEF HandleClose
<1>3. Append(frame.mail, letter) \in Seq(Letter)
  BY ApprovalsWhenSent DEF FrameInv, OpenFrame
<1>4. /\ frame' \in OpenFrame /\ frame'.mail = Append(frame.mail, letter)
      /\ frame'.tell = frame.tell /\ frame'.cutShort = frame.cutShort
      /\ frame'.tell => frame'.open /\ frame'.status = "success"
  BY <1>2, <1>3 DEF FrameInv, OpenFrame
<1> QED
  BY <1>2, <1>4, OtherMessageIsSent

LEMMA AttemptIsOver == ASSUME FrameInv, AttemptEnds PROVE FrameInv'
<1>1. frame.open /\ ~frame.tell
  BY DEF AttemptEnds, FrameInv
<1>2. CASE /\ frame' = [frame EXCEPT !.status = "success", !.tell = TRUE]
           /\ told' = [told EXCEPT !.approved = told.approved + 1]
  <2>1. /\ frame' \in OpenFrame /\ frame'.mail = frame.mail /\ frame'.tell
        /\ frame'.cutShort = frame.cutShort
        /\ frame'.open = frame.open /\ frame'.status = "success"
    BY <1>2 DEF FrameInv, OpenFrame, Checkout
  <2>2. Cardinality(Approvals(frame.mail)) \in Nat
    BY ApprovalsAreFinite DEF FrameInv, OpenFrame
  <2>3. Cardinality(Approvals(frame.mail))' = Cardinality(Approvals(frame.mail))
    BY <2>1
  <2>4. /\ told' \in [approved : Nat, success : Nat] /\ told'.success = told.success
        /\ told'.approved = told.approved + 1
    BY <1>2 DEF FrameInv
  <2> QED
    BY <1>1, <2>1, <2>2, <2>3, <2>4 DEF FrameInv, Accounted
<1>3. CASE /\ frame' = [frame EXCEPT !.status = "error", !.mail = Append(frame.mail, "PAYMENT_ERROR")]
           /\ told' = told
  <2>1. PICK letter \in Letter \ {"PAYMENT_SUCCESS"} : letter = "PAYMENT_ERROR"
    BY DEF Letter
  <2>2. Append(frame.mail, letter) \in Seq(Letter)
    BY ApprovalsWhenSent DEF FrameInv, OpenFrame
  <2>3. /\ frame' \in OpenFrame /\ frame'.mail = Append(frame.mail, letter)
        /\ frame'.tell = frame.tell /\ frame'.cutShort = frame.cutShort
    BY <1>3, <2>1, <2>2 DEF FrameInv, OpenFrame, Checkout
  <2> QED
    BY <1>3, <1>1, <2>3, OtherMessageIsSent
<1> QED
  BY <1>2, <1>3 DEF AttemptEnds

LEMMA SuccessIsTold == ASSUME FrameInv, TellSuccess PROVE FrameInv'
<1>1. PICK letter \in Letter : letter = "PAYMENT_SUCCESS"
  BY DEF Letter
<1>2. frame.tell /\ told' = told
      /\ frame' = [frame EXCEPT !.tell = FALSE, !.mail = Append(frame.mail, letter)]
  BY <1>1 DEF TellSuccess
<1>3. /\ Append(frame.mail, letter) \in Seq(Letter)
      /\ Cardinality(Approvals(Append(frame.mail, letter))) = Cardinality(Approvals(frame.mail)) + 1
      /\ Cardinality(Approvals(frame.mail)) \in Nat
  BY <1>1, ApprovalsWhenSent, ApprovalsAreFinite DEF FrameInv, OpenFrame
<1>4. /\ frame' \in OpenFrame /\ frame'.mail = Append(frame.mail, letter) /\ ~frame'.tell
      /\ frame'.cutShort = frame.cutShort
  BY <1>2, <1>3 DEF FrameInv, OpenFrame
<1>5. Cardinality(Approvals(frame.mail))' = Cardinality(Approvals(Append(frame.mail, letter)))
  BY <1>4
<1> QED
  BY <1>2, <1>3, <1>4, <1>5 DEF FrameInv, Accounted

LEMMA FrameStays == FrameInv /\ UNCHANGED <<frame, told>> => FrameInv'
BY DEF FrameInv, Accounted

LEMMA FrameInvStep == FrameInv /\ [PagesNext]_pagesVars => FrameInv'
<1> SUFFICES ASSUME FrameInv, [PagesNext]_pagesVars PROVE FrameInv'
  OBVIOUS
<1>1. CASE \/ OpenCheckout \/ Remove \/ MerchantCloses \/ Receive
           \/ IntentReady \/ HandleClose \/ PayInFrame \/ AttemptEnds \/ TellSuccess
  BY <1>1, FrameIsOpened, FrameIsClosed, MessageIsReceived, CheckoutGoesOn, CloseIsAsked,
     AttemptIsOver, SuccessIsTold
<1>2. CASE HandleSubmit \/ MakeAnotherPayment \/ HandlePayment \/ FingerVerified \/ ScanFires
  BY <1>2, FrameStays
     DEF HandleSubmit, MakeAnotherPayment, HandlePayment, CreatePayment, FingerVerified,
         ScanFires, backEnd
<1>3. CASE \/ TryAgain \/ SetConsent \/ HandlePay
           \/ \E region \in {"IN", "INTL"} : SelectRegion(region)
  BY <1>3, FrameStays DEF TryAgain, SetConsent, HandlePay, SelectRegion, backEnd
<1>4. CASE \/ ServeRequest \/ DeleteLink \/ RequestAnswered
           \/ \E op \in {"show", "pay"} : Elsewhere(op)
  BY <1>4, FrameStays DEF ServeRequest, DeleteLink, RequestAnswered, Elsewhere
<1>5. CASE UNCHANGED pagesVars
  BY <1>5, FrameStays DEF pagesVars
<1> QED
  BY <1>1, <1>2, <1>3, <1>4, <1>5 DEF PagesNext

\* The merchant's page is never told of a success that was not approved, and of
\* none twice, however often the frame is opened and closed: the safety half of
\* ApprovalsAreTold (public/sdk.js:114-116).
THEOREM NoApprovalIsInvented == PagesSpec => [](told.success <= told.approved)
<1>1. FrameInv => told.success <= told.approved
  <2> SUFFICES ASSUME FrameInv PROVE told.success <= told.approved
    OBVIOUS
  <2>1. Cardinality(Approvals(frame.mail)) \in Nat
    BY ApprovalsAreFinite DEF FrameInv, OpenFrame
  <2> QED
    BY <2>1 DEF FrameInv, OpenFrame, Accounted
<1> QED
  BY <1>1, FrameInitInv, FrameInvStep, PTL DEF PagesSpec

\* An approval is told, on its way, or about to be sent: as long as no frame was
\* removed that was paying or had yet to tell, one that is neither was told.  What
\* is left for ApprovalsAreTold is that messages and timers arrive
\* (public/sdk.js:80-116).
THEOREM NoApprovalIsForgotten ==
    PagesSpec => [](~frame.cutShort /\ frame.mail = <<>> /\ ~frame.tell =>
                       told.success = told.approved)
<1>1. ASSUME FrameInv, ~frame.cutShort, frame.mail = <<>>, ~frame.tell
      PROVE  told.success = told.approved
  <2>1. Approvals(<<>>) = {}
    BY DEF Approvals
  <2>2. Cardinality(Approvals(frame.mail)) = 0
    BY <1>1, <2>1, FS_EmptySet
  <2> QED
    BY <1>1, <2>2 DEF FrameInv, Accounted
<1> QED
  BY <1>1, FrameInitInv, FrameInvStep, PTL DEF PagesSpec

---------------------------------------------------------------------------
(* The hosted checkout, for any amounts, charges, timers and visits. *)

ShownPage == [at : {"checkout", "done"}, status : PageStatus, busy : BOOLEAN, tab : PayTab,
              amount : Amounts, tx : Nat,
              qr : [state : {"idle", "generating", "polling", "success"}, tx : Nat],
              scanner : BOOLEAN]
Clock == [n : Nat, kind : {"pay", "apple"}, amount : Amounts, challenged : BOOLEAN,
          own : {"page", "gone"}]
Errand == [n : Nat, op : CallOp, by : {"button", "timer", "none"}, amount : Amounts,
           challenged : BOOLEAN, own : Owner, tx : Nat,
           answer : {"sent", "ok", "requires_action", "captured", "unauthorized", "failed"}]
Past == [made : SUBSET Nat, shortcut : BOOLEAN, edited : BOOLEAN, unguarded : BOOLEAN,
         opened : Nat]

CheckoutShape ==
    /\ page \in ShownPage /\ timers \in SUBSET Clock /\ calls \in SUBSET Errand
    /\ charges \in Seq(Charge) /\ sent \in Nat
    /\ visit \in Past /\ visit.made \subseteq 1..Len(charges)

\* A charge of this visit for the order; one that was made with a form; one
\* that a receipt may stand for.
ForOrder(i) == i \in visit.made /\ (charges[i].amount = page.amount \/ visit.edited)
Ordered == visit.shortcut \/ \E i \in visit.made : ForOrder(i) /\ charges[i].by = "form"
Backed ==
    \/ visit.shortcut
    \/ \E i \in visit.made : ForOrder(i) /\ (charges[i].captured \/ charges[i].by = "form")

\* What the page shows has been charged for.
PageFits ==
    /\ page.status = "requires_action" => Ordered
    /\ page.status = "success" => Backed
    /\ page.qr.tx # 0 => ForOrder(page.qr.tx)

\* A timer or a call of this visit is about the order, an answer names the
\* charge it was given for, and nobody waits for the answers of earlier visits.
TimerFits(t) == t.own = "page" => t.amount = page.amount \/ visit.edited
CallFits(c) ==
    IF c.own = "gone" THEN c.answer = "sent" ELSE
    /\ c.op \in {"charge", "qr"} =>
          /\ c.amount = page.amount \/ visit.edited
          /\ c.tx # 0 => /\ c.tx \in visit.made /\ charges[c.tx].amount = c.amount
                         /\ c.op = "charge" => charges[c.tx].by = "form"
    /\ c.op = "charge" => /\ c.own = "page"
                          /\ c.answer \in {"ok", "requires_action"} => c.tx # 0
    /\ c.op = "capture" => Ordered /\ visit.unguarded
    /\ c.op = "poll" => ForOrder(c.tx) /\ (c.answer = "captured" => charges[c.tx].captured)

LeftIsGone ==
    page.at = "done" => /\ page.status = "success"
                        /\ \A t \in timers : t.own = "gone"
                        /\ \A c \in calls : c.own = "gone"

\* Until a timer pays or a passcode is sent, the page is busy while a charge is
\* in flight.
OfPage(c) == c.op = "charge" /\ c.own = "page"
OneCharge ==
    ~visit.unguarded =>
        \A c, d \in calls : OfPage(c) /\ OfPage(d) => c = d /\ page.busy

CheckoutInv ==
    /\ CheckoutShape /\ PageFits /\ LeftIsGone /\ OneCharge
    /\ \A t \in timers : TimerFits(t)
    /\ \A c \in calls : CallFits(c)

\* A step of a visit takes nothing back of what was charged.
NothingLost ==
    /\ visit.made \subseteq visit'.made
    /\ visit.shortcut => visit'.shortcut
    /\ visit.edited => visit'.edited
    /\ visit.unguarded => visit'.unguarded
    /\ page'.amount = page.amount \/ visit'.edited
    /\ \A i \in visit.made :
          /\ charges'[i].amount = charges[i].amount /\ charges'[i].by = charges[i].by
          /\ charges[i].captured => charges'[i].captured

LEMMA FitsStill ==
    ASSUME CheckoutInv, NothingLost
    PROVE  /\ \A i : ForOrder(i) => ForOrder(i)'
           /\ Ordered => Ordered'
           /\ Backed => Backed'
           /\ \A t \in timers : TimerFits(t)'
           /\ \A c \in calls : CallFits(c)'
<1>1. ASSUME NEW i, ForOrder(i) PROVE ForOrder(i)'
  BY <1>1 DEF ForOrder, NothingLost
<1>2. Ordered => Ordered'
  BY <1>1 DEF Ordered, ForOrder, NothingLost
<1>3. Backed => Backed'
  BY <1>1 DEF Backed, ForOrder, NothingLost
<1>4. ASSUME NEW t \in timers PROVE TimerFits(t)'
  BY DEF CheckoutInv, TimerFits, NothingLost
<1>5. ASSUME NEW c \in calls PROVE CallFits(c)'
  <2>1. CallFits(c)
    BY DEF CheckoutInv
  <2>2. c.op \in {"charge", "qr"} /\ c.own # "gone" =>
          /\ c.amount = page'.amount \/ visit'.edited
          /\ c.tx # 0 => /\ c.tx \in visit'.made /\ charges'[c.tx].amount = c.amount
                         /\ c.op = "charge" => charges'[c.tx].by = "form"
    BY <2>1 DEF CallFits, NothingLost
  <2>3. c.op = "capture" /\ c.own # "gone" => Ordered' /\ visit'.unguarded
    BY <1>2, <2>1 DEF CallFits, NothingLost
  <2>4. c.op = "poll" /\ c.own # "gone" =>
          ForOrder(c.tx)' /\ (c.answer = "captured" => charges'[c.tx].captured)
    BY <1>1, <2>1 DEF CallFits, NothingLost, ForOrder
  <2>5. CASE c.own = "gone"
    BY <2>1, <2>5 DEF CallFits
  <2>6. CASE c.own # "gone"
    BY <2>1, <2>2, <2>3, <2>4, <2>6 DEF CallFits
  <2> QED
    BY <2>5, <2>6
<1> QED
  BY <1>1, <1>2, <1>3, <1>4, <1>5

LEMMA VisitStep ==
    ASSUME CheckoutInv, NothingLost, CheckoutShape', LeftIsGone', OneCharge',
           \A t \in timers' : t \in timers \/ TimerFits(t)',
           \A c \in calls' : c \in calls \/ CallFits(c)',
           page'.status = "requires_action" => page.status = "requires_action" \/ Ordered',
           page'.status = "success" => page.status = "success" \/ Backed',
           page'.qr.tx \in {0, page.qr.tx} \/ ForOrder(page.qr.tx)'
    PROVE  CheckoutInv'
<1>1. PageFits'
  <2>1. ASSUME page'.qr.tx # 0 PROVE ForOrder(page.qr.tx)'
    <3>1. CASE page'.qr.tx = page.qr.tx
      <4>1. PICK i : i = page.qr.tx
        OBVIOUS
      <4>2. ForOrder(i)
        BY <2>1, <3>1, <4>1 DEF CheckoutInv, PageFits
      <4>3. ForOrder(i)'
        BY <4>2, FitsStill
      <4> QED
        BY <3>1, <4>1, <4>3 DEF ForOrder
    <3> QED
      BY <2>1, <3>1
  <2>2. (Ordered => Ordered') /\ (Backed => Backed')
    BY FitsStill
  <2>3. PageFits
    BY DEF CheckoutInv
  <2> QED
    BY <2>1, <2>2, <2>3 DEF PageFits, ForOrder
<1>2. \A t \in timers' : TimerFits(t)'
  BY FitsStill
<1>3. \A c \in calls' : CallFits(c)'
  BY FitsStill
<1> QED
  BY <1>1, <1>2, <1>3 DEF CheckoutInv

LEMMA NoNewCharge ==
    ASSUME OneCharge, \A c \in calls' : OfPage(c) => c \in calls,
           page.busy => page'.busy, visit.unguarded => visit'.unguarded
    PROVE  OneCharge'
BY DEF OneCharge, OfPage

---------------------------------------------------------------------------
(* What is mounted. *)

LEMMA SwitchedTab ==
    ASSUME NEW s \in ShownPage, NEW t \in PayTab
    PROVE  LET p == SwitchTab(s, t)
           IN /\ p \in ShownPage /\ p.at = s.at /\ p.status = s.status /\ p.busy = s.busy
              /\ p.amount = s.amount /\ p.qr.tx = 0
<1>1. PICK p : p = [s EXCEPT !.tab = t, !.qr = BlankQr]
  OBVIOUS
<1>2. BlankQr \in [state : {"idle", "generating", "polling", "success"}, tx : Nat] /\ BlankQr.tx = 0
  BY DEF BlankQr
<1>3. /\ p \in ShownPage /\ p.at = s.at /\ p.status = s.status /\ p.busy = s.busy
      /\ p.amount = s.amount /\ p.qr = BlankQr
  BY <1>1, <1>2 DEF ShownPage
<1> QED
  BY <1>1, <1>2, <1>3 DEF SwitchTab

LEMMA ShownStatus ==
    ASSUME NEW s \in ShownPage, NEW status \in PageStatus
    PROVE  LET p == Show(s, status)
           IN /\ p \in ShownPage /\ p.at = s.at /\ p.status = status /\ p.busy = s.busy
              /\ p.amount = s.amount /\ p.qr.tx \in {0, s.qr.tx}
<1>1. CASE status = "success"
  <2>1. PICK q : q = SwitchTab(s, s.tab)
    OBVIOUS
  <2>2. /\ q \in ShownPage /\ q.at = s.at /\ q.busy = s.busy
        /\ q.amount = s.amount /\ q.qr.tx = 0
    BY <2>1, SwitchedTab DEF ShownPage
  <2>3. PICK p : p = [q EXCEPT !.status = status, !.scanner = FALSE]
    OBVIOUS
  <2>4. /\ p \in ShownPage /\ p.at = s.at /\ p.busy = s.busy /\ p.status = status
        /\ p.amount = s.amount /\ p.qr.tx = 0
    BY <2>2, <2>3 DEF ShownPage
  <2> QED
    BY <1>1, <2>1, <2>3, <2>4 DEF Show
<1>2. CASE status # "success"
  <2>1. PICK p : p = [s EXCEPT !.status = status]
    OBVIOUS
  <2>2. /\ p \in ShownPage /\ p.at = s.at /\ p.busy = s.busy /\ p.status = status
        /\ p.amount = s.amount /\ p.qr = s.qr
    BY <2>1 DEF ShownPage
  <2> QED
    BY <1>2, <2>1, <2>2 DEF Show
<1> QED
  BY <1>1, <1>2

LEMMA ScannedCode ==
    ASSUME NEW s \in ShownPage
    PROVE  LET p == CodeScanned(s)
           IN /\ p \in ShownPage /\ p.at = s.at /\ p.status = "success" /\ p.busy = s.busy
              /\ p.amount = s.amount /\ p.qr.tx \in {0, s.qr.tx}
<1>1. PICK q : q = [s.qr EXCEPT !.state = "success"]
  OBVIOUS
<1>2. q \in [state : {"idle", "generating", "polling", "success"}, tx : Nat] /\ q.tx = s.qr.tx
  BY <1>1 DEF ShownPage
<1>3. PICK p : p = [s EXCEPT !.qr = q]
  OBVIOUS
<1>4. /\ p \in ShownPage /\ p.at = s.at /\ p.busy = s.busy /\ p.amount = s.amount /\ p.qr = q
  BY <1>2, <1>3 DEF ShownPage
<1>5. p = [s EXCEPT !.qr.state = "success"]
  BY <1>1, <1>3 DEF ShownPage
<1> QED
  BY <1>2, <1>4, <1>5, ShownStatus DEF CodeScanned, PageStatus

\* What is left of the calls when the UPI form is gone.
LEMMA SettledCalls ==
    ASSUME CheckoutInv, NothingLost, NEW S \in SUBSET calls,
           calls' \in {S, Disown(S, {"form"}, "page")}
    PROVE  /\ calls' \in SUBSET Errand
           /\ \A c \in calls' : CallFits(c)'
           /\ \A c \in calls' : OfPage(c) => c \in calls
           /\ (\A c \in S : c.own = "gone") => (\A c \in calls' : c.own = "gone")
<1>1. calls \in SUBSET Errand
  BY DEF CheckoutInv, CheckoutShape
<1>2. CASE calls' = S
  BY <1>1, <1>2, FitsStill
<1>3. CASE calls' = Disown(S, {"form"}, "page")
  <2>1. ASSUME NEW d \in calls'
        PROVE  \E c \in S : d = [c EXCEPT !.own = IF c.own \in {"form"} THEN "page" ELSE c.own]
    BY <1>3, <2>1 DEF Disown
  <2>2. ASSUME NEW d \in calls'
        PROVE  d \in Errand /\ CallFits(d)' /\ (OfPage(d) => d \in calls)
               /\ ((\A c \in S : c.own = "gone") => d.own = "gone")
    <3>1. PICK c \in S : d = [c EXCEPT !.own = IF c.own \in {"form"} THEN "page" ELSE c.own]
      BY <2>1, <2>2
    <3>2. c \in Errand /\ CallFits(c)'
      BY <1>1, FitsStill
    <3>3. CASE c.own = "form"
      <4>1. /\ d \in Errand /\ d.own = "page" /\ d.op = c.op /\ d.amount = c.amount /\ d.tx = c.tx
            /\ d.answer = c.answer
        BY <3>1, <3>2, <3>3 DEF Errand, Owner
      <4>2. c.op # "charge"
        BY <3>2, <3>3 DEF CallFits
      <4> QED
        BY <3>2, <3>3, <4>1, <4>2 DEF CallFits, OfPage
    <3>4. CASE c.own # "form"
      <4>1. d = c
        BY <3>1, <3>2, <3>4 DEF Errand
      <4> QED
        BY <3>2, <4>1
    <3> QED
      BY <3>3, <3>4
  <2> QED
    BY <2>2
<1> QED
  BY <1>2, <1>3

LEMMA CheckoutInitInv == Init => CheckoutInv
<1> SUFFICES ASSUME Init PROVE CheckoutInv
  OBVIOUS
<1>1. PICK a \in Amounts, t \in PayTab : page = FreshPage(a, t)
  BY DEF Init
<1>2. /\ page \in ShownPage /\ page.at = "checkout" /\ page.status = "idle" /\ page.qr.tx = 0
  BY <1>1 DEF FreshPage, BlankQr, ShownPage, PageStatus
<1>3. timers = {} /\ calls = {} /\ charges = <<>> /\ sent = 0 /\ visit = FreshVisit(1)
  BY DEF Init
<1>4. visit \in Past /\ visit.made = {}
  BY <1>3 DEF FreshVisit, Past
<1>5. CheckoutShape
  BY <1>2, <1>3, <1>4 DEF CheckoutShape
<1> QED
  BY <1>2, <1>3, <1>5 DEF CheckoutInv, PageFits, LeftIsGone, OneCharge

---------------------------------------------------------------------------
(* The amount, the method and the timers. *)

\* A step that starts a timer at most, edits the order or shows another part of
\* the page.
LEMMA PageIsUsed ==
    ASSUME CheckoutInv, page.at = "checkout",
           page' \in ShownPage, page'.at = "checkout",
           page'.amount = page.amount \/ visit'.edited,
           page'.status \in {page.status, "idle"}, page.busy => page'.busy,
           page'.qr.tx \in {0, page.qr.tx},
           visit' \in Past, visit.edited => visit'.edited,
           visit'.made = visit.made, visit'.shortcut = visit.shortcut,
           visit'.unguarded = visit.unguarded,
           calls' \in {calls, Disown(calls, {"form"}, "page")},
           timers' \in SUBSET Clock, \A t \in timers' : t \in timers \/ TimerFits(t)',
           UNCHANGED <<charges, sent>>
    PROVE  CheckoutInv'
<1>1. NothingLost
  BY DEF NothingLost
<1>2. /\ calls' \in SUBSET Errand
      /\ \A c \in calls' : CallFits(c)'
      /\ \A c \in calls' : OfPage(c) => c \in calls
  BY <1>1, SettledCalls
<1>3. CheckoutShape'
  BY <1>2 DEF CheckoutInv, CheckoutShape
<1>4. LeftIsGone'
  BY DEF LeftIsGone
<1>5. OneCharge'
  BY <1>2, NoNewCharge DEF CheckoutInv
<1> QED
  BY <1>1, <1>2, <1>3, <1>4, <1>5, VisitStep

LEMMA OrderIsEdited ==
    ASSUME CheckoutInv, NEW a \in Amounts, EditAmount(a)
    PROVE  CheckoutInv'
<1>1. page \in ShownPage /\ visit \in Past /\ page.at = "checkout" /\ timers \in SUBSET Clock
  BY DEF CheckoutInv, CheckoutShape, EditAmount, Mounted
<1>2. /\ page' \in ShownPage /\ page'.at = "checkout" /\ page'.status = page.status
      /\ page'.busy = page.busy /\ page'.qr = page.qr
  BY <1>1 DEF EditAmount, ShownPage
<1>3. /\ visit' \in Past /\ visit'.edited /\ visit'.made = visit.made
      /\ visit'.shortcut = visit.shortcut /\ visit'.unguarded = visit.unguarded
  BY <1>1 DEF EditAmount, Past
<1>4. UNCHANGED <<timers, calls, charges, sent>>
  BY DEF EditAmount
<1> QED
  BY <1>1, <1>2, <1>3, <1>4, PageIsUsed

\* What the timers and the order are while the rest of the page is used.
LEMMA PartIsShown ==
    ASSUME CheckoutInv, page.at = "checkout",
           page' \in ShownPage, page'.at = "checkout", page'.amount = page.amount,
           page'.status \in {page.status, "idle"}, page'.busy = page.busy,
           page'.qr.tx \in {0, page.qr.tx},
           calls' \in {calls, Disown(calls, {"form"}, "page")},
           UNCHANGED <<timers, charges, sent, visit>>
    PROVE  CheckoutInv'
<1>1. visit \in Past /\ timers \in SUBSET Clock
  BY DEF CheckoutInv, CheckoutShape
<1> QED
  BY <1>1, PageIsUsed

LEMMA MethodIsChosen ==
    ASSUME CheckoutInv, (\E t \in PayTab : SelectMethod(t)) \/ SwitchToUpi
    PROVE  CheckoutInv'
<1>1. page \in ShownPage
  BY DEF CheckoutInv, CheckoutShape
<1>2. ASSUME NEW t \in PayTab, SelectMethod(t) PROVE CheckoutInv'
  <2>1. /\ page.at = "checkout" /\ page' = SwitchTab(page, t)
        /\ calls' = Disown(calls, {"form"}, "page") /\ UNCHANGED <<timers, charges, sent, visit>>
    BY <1>2 DEF SelectMethod, Mounted
  <2> QED
    BY <1>1, <2>1, SwitchedTab, PartIsShown
<1>3. CASE SwitchToUpi
  <2>1. PICK s : s = IF page.tab = "upi" THEN page ELSE SwitchTab(page, "upi")
    OBVIOUS
  <2>2. /\ s \in ShownPage /\ s.at = page.at /\ s.amount = page.amount /\ s.busy = page.busy
        /\ s.qr.tx \in {0, page.qr.tx}
    BY <1>1, <2>1, SwitchedTab DEF PayTab
  <2>3. /\ page.at = "checkout" /\ page' = [s EXCEPT !.status = "idle"]
        /\ UNCHANGED <<timers, calls, charges, sent, visit>>
    BY <1>3, <2>1 DEF SwitchToUpi, Mounted
  <2>4. /\ page' \in ShownPage /\ page'.at = "checkout" /\ page'.amount = page.amount
        /\ page'.status = "idle" /\ page'.busy = page.busy /\ page'.qr = s.qr
    BY <2>2, <2>3 DEF ShownPage, PageStatus
  <2> QED
    BY <2>2, <2>3, <2>4, PartIsShown
<1> QED
  BY <1>2, <1>3

LEMMA DialogIsLeft ==
    ASSUME CheckoutInv, CancelTransaction \/ HandleStartScan \/ CancelScan
    PROVE  CheckoutInv'
<1>1. page \in ShownPage /\ page.at = "checkout"
  BY DEF CheckoutInv, CheckoutShape, CancelTransaction, HandleStartScan, CancelScan, Mounted
<1>2. UNCHANGED <<timers, calls, charges, sent, visit>>
  BY DEF CancelTransaction, HandleStartScan, CancelScan
<1>3. /\ page' \in ShownPage /\ page'.at = "checkout" /\ page'.amount = page.amount
      /\ page'.status \in {page.status, "idle"} /\ page'.busy = page.busy /\ page'.qr = page.qr
  <2>1. CASE CancelTransaction
    BY <1>1, <2>1 DEF CancelTransaction, ShownPage, PageStatus
  <2>2. CASE HandleStartScan
    BY <1>1, <2>2 DEF HandleStartScan, ShownPage
  <2>3. CASE CancelScan
    BY <1>1, <2>3 DEF CancelScan, ShownPage
  <2> QED
    BY <2>1, <2>2, <2>3
<1> QED
  BY <1>1, <1>2, <1>3, PartIsShown

\* The least unused number is a number.
LEMMA NextTimerIsNat == TimerRoom => NextTimer \in Nat
<1> SUFFICES ASSUME TimerRoom PROVE NextTimer \in Nat
  OBVIOUS
<1>1. UnusedTimers # {} /\ UnusedTimers \subseteq Nat
  BY DEF TimerRoom, UnusedTimers
<1>2. PICK n \in UnusedTimers : \A m \in UnusedTimers : ~(<<m, n>> \in OpToRel(<, Nat))
  BY <1>1, NatLessThanWellFounded, WFMin
<1>3. ASSUME NEW m \in UnusedTimers PROVE n <= m
  <2>1. m \in Nat /\ n \in Nat
    BY <1>1
  <2>2. m < n => <<m, n>> \in OpToRel(<, Nat)
    BY <2>1 DEF OpToRel
  <2>3. ~(m < n)
    BY <1>2, <2>2
  <2> QED
    BY <2>1, <2>3
<1> QED
  BY <1>1, <1>3 DEF NextTimer

LEMMA TimerIsStarted ==
    ASSUME CheckoutInv, ScanVerified \/ PhraseMatched \/ FaceRecognised
    PROVE  CheckoutInv'
<1>1. /\ page \in ShownPage /\ page.at = "checkout" /\ visit \in Past /\ timers \in SUBSET Clock
      /\ TimerRoom
  BY DEF CheckoutInv, CheckoutShape, ScanVerified, PhraseMatched, FaceRecognised, Mounted
<1>2. PICK kind \in {"pay", "apple"} : StartTimer(kind)
  BY DEF ScanVerified, PhraseMatched, FaceRecognised
<1>3. PICK t : t = [n |-> NextTimer, kind |-> kind, amount |-> page.amount,
                    challenged |-> Challenged, own |-> "page"]
  OBVIOUS
<1>4. t \in Clock /\ t.amount = page.amount
  <2>1. Challenged \in BOOLEAN /\ page.amount \in Amounts
    BY <1>1 DEF Challenged, ShownPage
  <2> QED
    BY <1>1, <1>3, <2>1, NextTimerIsNat DEF Clock
<1>5. timers' = timers \cup {t}
  BY <1>2, <1>3 DEF StartTimer
<1>6. UNCHANGED <<calls, charges, sent, visit>>
  BY DEF ScanVerified, PhraseMatched, FaceRecognised
<1>7. /\ page' \in ShownPage /\ page'.at = "checkout" /\ page'.amount = page.amount
      /\ page'.status = page.status /\ page'.busy = page.busy /\ page'.qr = page.qr
  <2>1. page' \in {page, [page EXCEPT !.scanner = FALSE]}
    BY DEF ScanVerified, PhraseMatched, FaceRecognised
  <2> QED
    BY <1>1, <2>1 DEF ShownPage
<1>8. TimerFits(t)'
  BY <1>4, <1>7 DEF TimerFits
<1>9. timers' \in SUBSET Clock /\ \A u \in timers' : u \in timers \/ TimerFits(u)'
  BY <1>1, <1>4, <1>5, <1>8
<1> QED
  BY <1>1, <1>6, <1>7, <1>9, PageIsUsed

---------------------------------------------------------------------------
(* Submitting. *)

\* Another call of the visit, which is no charge.
LEMMA CallIsMade ==
    ASSUME CheckoutInv, page.at = "checkout", NEW c \in Errand, c.op # "charge",
           CallFits(c)', calls' = calls \cup {c},
           page' \in ShownPage, page'.at = "checkout", page'.amount = page.amount,
           page'.status \in {page.status, "action_processing"}, page'.busy = page.busy,
           page'.qr.tx \in {0, page.qr.tx},
           visit' \in Past, visit'.made = visit.made, visit'.shortcut = visit.shortcut,
           visit'.edited = visit.edited, visit.unguarded => visit'.unguarded,
           sent' \in Nat, UNCHANGED <<timers, charges>>
    PROVE  CheckoutInv'
<1>1. NothingLost
  BY DEF NothingLost
<1>2. CheckoutShape'
  BY DEF CheckoutInv, CheckoutShape
<1>3. LeftIsGone'
  BY DEF LeftIsGone
<1>4. \A d \in calls' : OfPage(d) => d \in calls
  BY DEF OfPage
<1>5. OneCharge'
  BY <1>4, NoNewCharge DEF CheckoutInv
<1>6. \A d \in calls' : d \in calls \/ CallFits(d)'
  OBVIOUS
<1> QED
  BY <1>1, <1>2, <1>3, <1>5, <1>6, VisitStep

LEMMA ErrandIsNew ==
    ASSUME CheckoutInv, NEW op \in CallOp, NEW own \in Owner, NEW tx \in Nat,
           NEW by \in {"button", "timer", "none"}
    PROVE  /\ CallAbout(op, own, tx) \in Errand
           /\ Submission(op, by, own) \in Errand
BY CheckoutAssumption
DEF CallAbout, Submission, Challenged, Errand, CheckoutInv, CheckoutShape, ShownPage

LEMMA CardIsSubmitted ==
    ASSUME CheckoutInv, NEW c \in Errand, HandleCardSubmit(c),
           c.op = "charge", c.tx = 0, c.answer = "sent", c.own \in {"page", "gone"},
           c.own = "page" => /\ page.at = "checkout"
                             /\ c.amount = page.amount \/ visit.edited
                             /\ c.by = "timer" \/ ~page.busy,
           timers' \in SUBSET timers
    PROVE  CheckoutInv'
<1>1. page \in ShownPage /\ visit \in Past /\ calls \in SUBSET Errand /\ sent \in Nat
  BY DEF CheckoutInv, CheckoutShape
<1>2. calls' = calls \cup {c} /\ sent' = sent + 1 /\ UNCHANGED charges
  BY DEF HandleCardSubmit
<1>3. /\ visit' \in Past /\ visit'.made = visit.made /\ visit'.shortcut = visit.shortcut
      /\ visit'.edited = visit.edited
      /\ visit'.unguarded <=> visit.unguarded \/ (c.by = "timer" /\ c.own = "page")
  <2>1. PICK u \in BOOLEAN : u <=> visit.unguarded \/ (c.by = "timer" /\ c.own = "page")
    OBVIOUS
  <2>2. u = (visit.unguarded \/ (c.by = "timer" /\ c.own = "page"))
    BY <1>1, <2>1 DEF Past
  <2>3. visit' = [visit EXCEPT !.unguarded = u]
    BY <2>2 DEF HandleCardSubmit
  <2> QED
    BY <1>1, <2>1, <2>3 DEF Past
<1>4. /\ page' \in ShownPage /\ page'.at = page.at /\ page'.amount = page.amount
      /\ page'.status \in {page.status, "processing"} /\ page'.qr = page.qr
      /\ page.busy => page'.busy
      /\ c.own = "page" => page'.busy
      /\ c.own # "page" => page' = page
  <2>1. CASE c.own = "page"
    <3>1. page' = [page EXCEPT !.busy = TRUE, !.status = "processing", !.tx = 0]
      BY <2>1 DEF HandleCardSubmit
    <3> QED
      BY <1>1, <2>1, <3>1 DEF ShownPage, PageStatus
  <2>2. CASE c.own # "page"
    BY <1>1, <2>2 DEF HandleCardSubmit
  <2> QED
    BY <2>1, <2>2
<1>5. NothingLost
  BY <1>2, <1>3, <1>4 DEF NothingLost
<1>6. CheckoutShape'
  BY <1>1, <1>2, <1>3, <1>4 DEF CheckoutInv, CheckoutShape
<1>7. CallFits(c)'
  BY <1>3, <1>4 DEF CallFits
<1>8. LeftIsGone'
  BY <1>2, <1>4 DEF CheckoutInv, LeftIsGone
<1>9. OneCharge'
  <2>1. CASE visit'.unguarded
    BY <2>1 DEF OneCharge
  <2>2. CASE ~visit'.unguarded /\ c.own = "page"
    <3>1. ~visit.unguarded /\ ~page.busy
      BY <1>3, <2>2
    <3>2. \A d \in calls : ~OfPage(d)
      BY <3>1 DEF CheckoutInv, OneCharge
    <3> QED
      BY <1>2, <1>4, <2>2, <3>2 DEF OneCharge, OfPage
  <2>3. CASE c.own # "page"
    <3>1. \A d \in calls' : OfPage(d) => d \in calls
      BY <1>2, <2>3 DEF OfPage
    <3> QED
      BY <1>3, <1>4, <3>1, NoNewCharge DEF CheckoutInv
  <2> QED
    BY <2>1, <2>2, <2>3
<1>10. /\ \A t \in timers' : t \in timers \/ TimerFits(t)'
       /\ \A d \in calls' : d \in calls \/ CallFits(d)'
  BY <1>2, <1>7
<1> QED
  BY <1>4, <1>5, <1>6, <1>8, <1>9, <1>10, VisitStep

LEMMA PayIsPressed == ASSUME CheckoutInv, PressPay PROVE CheckoutInv'
<1>1. PICK c : c = Submission("charge", "button", "page")
  OBVIOUS
<1>2. c \in Errand
  BY <1>1, ErrandIsNew DEF CallOp, Owner
<1>3. /\ c.op = "charge" /\ c.tx = 0 /\ c.answer = "sent" /\ c.own = "page"
      /\ c.amount = page.amount
  BY <1>1 DEF Submission
<1>4. HandleCardSubmit(c) /\ page.at = "checkout" /\ ~page.busy /\ timers' = timers
  BY <1>1 DEF PressPay, Mounted
<1> QED
  BY <1>2, <1>3, <1>4, CardIsSubmitted

LEMMA PasscodeIsSent == ASSUME CheckoutInv, HandleCaptureAction PROVE CheckoutInv'
<1>1. /\ page \in ShownPage /\ visit \in Past /\ sent \in Nat
      /\ page.at = "checkout" /\ page.status = "requires_action"
  BY DEF CheckoutInv, CheckoutShape, HandleCaptureAction, Mounted
<1>2. PICK c : c = CallAbout("capture", "page", page.tx)
  OBVIOUS
<1>3. c \in Errand
  <2>1. page.tx \in Nat
    BY <1>1 DEF ShownPage
  <2> QED
    BY <1>2, <2>1, ErrandIsNew DEF CallOp, Owner
<1>4. c.op = "capture" /\ c.own = "page"
  BY <1>2 DEF CallAbout
<1>5. calls' = calls \cup {c} /\ UNCHANGED <<timers, charges, sent>>
  BY <1>2 DEF HandleCaptureAction
<1>6. /\ page' \in ShownPage /\ page'.at = "checkout" /\ page'.amount = page.amount
      /\ page'.status = "action_processing" /\ page'.busy = page.busy /\ page'.qr = page.qr
  BY <1>1 DEF HandleCaptureAction, ShownPage, PageStatus
<1>7. /\ visit' \in Past /\ visit'.made = visit.made /\ visit'.shortcut = visit.shortcut
      /\ visit'.edited = visit.edited /\ visit'.unguarded
  BY <1>1 DEF HandleCaptureAction, Past
<1>8. NothingLost
  BY <1>5, <1>6, <1>7 DEF NothingLost
<1>9. Ordered'
  BY <1>1, <1>8, FitsStill DEF CheckoutInv, PageFits
<1>10. CallFits(c)'
  BY <1>4, <1>7, <1>9 DEF CallFits
<1> QED
  BY <1>1, <1>3, <1>4, <1>5, <1>6, <1>7, <1>10, CallIsMade

LEMMA TimerFires == ASSUME CheckoutInv, Fire PROVE CheckoutInv'
<1>1. PICK t \in timers : timers' = timers \ {t} /\ (FireApple(t) \/ FirePay(t))
  BY DEF Fire
<1>2. /\ t \in Clock /\ page \in ShownPage /\ visit \in Past /\ calls \in SUBSET Errand
      /\ TimerFits(t) /\ (t.own = "page" => page.at = "checkout")
  BY DEF CheckoutInv, CheckoutShape, LeftIsGone, ShownPage
<1>3. CASE FirePay(t)
  <2>1. PICK s : s = Submission("charge", "timer", t.own)
    OBVIOUS
  <2>2. s \in Errand
    <3>1. t.own \in Owner
      BY <1>2 DEF Clock, Owner
    <3> QED
      BY <2>1, <3>1, ErrandIsNew DEF CallOp
  <2>3. s.op = "charge" /\ s.tx = 0 /\ s.answer = "sent" /\ s.own = t.own /\ s.by = "timer"
    BY <2>1 DEF Submission
  <2>4. PICK c : c = [s EXCEPT !.amount = t.amount, !.challenged = t.challenged]
    OBVIOUS
  <2>5. /\ c \in Errand /\ c.op = "charge" /\ c.tx = 0 /\ c.answer = "sent" /\ c.own = t.own
        /\ c.by = "timer" /\ c.amount = t.amount
    BY <1>2, <2>2, <2>3, <2>4 DEF Errand, Clock
  <2>6. HandleCardSubmit(c)
    BY <1>3, <2>1, <2>4 DEF FirePay
  <2>7. t.own \in {"page", "gone"} /\ (t.own = "page" => t.amount = page.amount \/ visit.edited)
    BY <1>2 DEF Clock, TimerFits
  <2> QED
    BY <1>1, <1>2, <2>5, <2>6, <2>7, CardIsSubmitted
<1>4. CASE FireApple(t) /\ t.own = "page"
  <2>1. /\ page' = Show(page, "success") /\ calls' = Settled(page', calls)
        /\ UNCHANGED <<charges, sent>> /\ visit' = [visit EXCEPT !.shortcut = TRUE]
    <3>1. (visit.shortcut \/ t.own = "page") = TRUE
      BY <1>2, <1>4 DEF Past
    <3> QED
      BY <1>4, <3>1 DEF FireApple
  <2>2. /\ page' \in ShownPage /\ page'.at = "checkout" /\ page'.busy = page.busy
        /\ page'.amount = page.amount /\ page'.qr.tx \in {0, page.qr.tx}
    BY <1>2, <1>4, <2>1, ShownStatus DEF PageStatus
  <2>3. /\ visit' \in Past /\ visit'.shortcut /\ visit'.made = visit.made
        /\ visit'.edited = visit.edited /\ visit'.unguarded = visit.unguarded
    BY <1>2, <2>1 DEF Past
  <2>4. NothingLost
    BY <2>1, <2>2, <2>3 DEF NothingLost
  <2>5. /\ calls' \in SUBSET Errand
        /\ \A c \in calls' : CallFits(c)'
        /\ \A c \in calls' : OfPage(c) => c \in calls
    BY <2>1, <2>4, SettledCalls DEF Settled
  <2>6. CheckoutShape'
    BY <1>1, <2>1, <2>2, <2>3, <2>5 DEF CheckoutInv, CheckoutShape
  <2>7. LeftIsGone'
    BY <2>2 DEF LeftIsGone
  <2>8. OneCharge'
    BY <2>2, <2>3, <2>5, NoNewCharge DEF CheckoutInv
  <2>9. Ordered' /\ Backed'
    BY <2>3 DEF Ordered, Backed
  <2> QED
    BY <1>1, <2>2, <2>4, <2>5, <2>6, <2>7, <2>8, <2>9, VisitStep
<1>5. CASE FireApple(t) /\ t.own # "page"
  <2>1. page' = page /\ calls' = calls /\ UNCHANGED <<charges, sent>> /\ visit' = visit
    <3>1. (visit.shortcut \/ t.own = "page") = visit.shortcut
      BY <1>2, <1>5 DEF Past
    <3>2. visit' = [visit EXCEPT !.shortcut = visit.shortcut]
      BY <1>5, <3>1 DEF FireApple
    <3>3. visit' = visit
      BY <1>2, <3>2 DEF Past
    <3> QED
      BY <1>5, <3>3 DEF FireApple
  <2>2. NothingLost
    BY <2>1 DEF NothingLost
  <2>3. CheckoutShape' /\ LeftIsGone' /\ OneCharge'
    BY <1>1, <2>1 DEF CheckoutInv, CheckoutShape, LeftIsGone, OneCharge
  <2> QED
    BY <1>1, <2>1, <2>2, <2>3, VisitStep
<1> QED
  BY <1>1, <1>3, <1>4, <1>5

---------------------------------------------------------------------------
(* The QR code. *)

LEMMA CodeIsAsked == ASSUME CheckoutInv, HandleGenerateQR PROVE CheckoutInv'
<1>1. page \in ShownPage /\ visit \in Past /\ sent \in Nat /\ page.at = "checkout"
  BY DEF CheckoutInv, CheckoutShape, HandleGenerateQR, Mounted
<1>2. PICK s : s = Submission("qr", "none", "form")
  OBVIOUS
<1>3. s \in Errand
  BY <1>2, ErrandIsNew DEF CallOp, Owner
<1>4. s.op = "qr" /\ s.own = "form" /\ s.amount = page.amount /\ s.tx = 0
  BY <1>2 DEF Submission
<1>5. PICK c : c = [s EXCEPT !.challenged = FALSE]
  OBVIOUS
<1>6. c \in Errand /\ c.op = "qr" /\ c.own = "form" /\ c.amount = page.amount /\ c.tx = 0
  BY <1>3, <1>4, <1>5 DEF Errand
<1>7. /\ calls' = calls \cup {c} /\ sent' = sent + 1 /\ UNCHANGED <<timers, charges, visit>>
      /\ page' = [page EXCEPT !.qr.state = "generating"]
  BY <1>2, <1>5 DEF HandleGenerateQR
<1>8. PICK q : q = [page.qr EXCEPT !.state = "generating"]
  OBVIOUS
<1>9. q \in [state : {"idle", "generating", "polling", "success"}, tx : Nat] /\ q.tx = page.qr.tx
  BY <1>1, <1>8 DEF ShownPage
<1>10. page' = [page EXCEPT !.qr = q]
  BY <1>1, <1>7, <1>8 DEF ShownPage
<1>11. /\ page' \in ShownPage /\ page'.at = "checkout" /\ page'.amount = page.amount
       /\ page'.status = page.status /\ page'.busy = page.busy /\ page'.qr.tx = page.qr.tx
  BY <1>1, <1>9, <1>10 DEF ShownPage
<1>12. CallFits(c)'
  BY <1>6, <1>11 DEF CallFits
<1> QED
  BY <1>1, <1>6, <1>7, <1>11, <1>12, CallIsMade

LEMMA CodeIsPolled == ASSUME CheckoutInv, Poll PROVE CheckoutInv'
<1>1. /\ page \in ShownPage /\ visit \in Past /\ sent \in Nat /\ page.at = "checkout"
      /\ page.qr.tx # 0 /\ page.qr.tx \in Nat
  BY DEF CheckoutInv, CheckoutShape, Poll, Mounted, ShownPage
<1>2. PICK c : c = CallAbout("poll", "form", page.qr.tx)
  OBVIOUS
<1>3. c \in Errand
  BY <1>1, <1>2, ErrandIsNew DEF CallOp, Owner
<1>4. c.op = "poll" /\ c.own = "form" /\ c.tx = page.qr.tx /\ c.answer = "sent"
  BY <1>2 DEF CallAbout
<1>5. calls' = calls \cup {c} /\ UNCHANGED <<page, timers, charges, sent, visit>>
  BY <1>2 DEF Poll
<1>6. ForOrder(c.tx)
  BY <1>1, <1>4 DEF CheckoutInv, PageFits
<1>7. CallFits(c)'
  BY <1>4, <1>5, <1>6 DEF CallFits, ForOrder
<1> QED
  BY <1>1, <1>3, <1>4, <1>5, <1>7, CallIsMade

LEMMA WebhookIsSimulated == ASSUME CheckoutInv, SimulateWebhook PROVE CheckoutInv'
<1>1. /\ page \in ShownPage /\ visit \in Past /\ sent \in Nat /\ page.at = "checkout"
      /\ page.qr.tx \in Nat /\ UNCHANGED <<timers, charges, sent>>
  BY DEF CheckoutInv, CheckoutShape, SimulateWebhook, Mounted, ShownPage
<1>2. CASE page.qr.tx = 0
  <2>1. /\ page' = CodeScanned(page) /\ calls' = Settled(page', calls)
        /\ visit' = [visit EXCEPT !.shortcut = TRUE]
    BY <1>2 DEF SimulateWebhook
  <2>2. /\ page' \in ShownPage /\ page'.at = "checkout" /\ page'.busy = page.busy
        /\ page'.amount = page.amount /\ page'.qr.tx \in {0, page.qr.tx}
    BY <1>1, <2>1, ScannedCode
  <2>3. /\ visit' \in Past /\ visit'.shortcut /\ visit'.made = visit.made
        /\ visit'.edited = visit.edited /\ visit'.unguarded = visit.unguarded
    BY <1>1, <2>1 DEF Past
  <2>4. NothingLost
    BY <1>1, <2>2, <2>3 DEF NothingLost
  <2>5. /\ calls' \in SUBSET Errand
        /\ \A c \in calls' : CallFits(c)'
        /\ \A c \in calls' : OfPage(c) => c \in calls
    BY <2>1, <2>4, SettledCalls DEF Settled
  <2>6. CheckoutShape'
    BY <1>1, <2>2, <2>3, <2>5 DEF CheckoutInv, CheckoutShape
  <2>7. LeftIsGone'
    BY <2>2 DEF LeftIsGone
  <2>8. OneCharge'
    BY <2>2, <2>3, <2>5, NoNewCharge DEF CheckoutInv
  <2>9. Ordered' /\ Backed'
    BY <2>3 DEF Ordered, Backed
  <2> QED
    BY <1>1, <2>2, <2>4, <2>5, <2>6, <2>7, <2>8, <2>9, VisitStep
<1>3. CASE page.qr.tx # 0
  <2>1. PICK c : c = CallAbout("webhook", "form", page.qr.tx)
    OBVIOUS
  <2>2. c \in Errand
    BY <1>1, <2>1, ErrandIsNew DEF CallOp, Owner
  <2>3. c.op = "webhook" /\ c.own = "form"
    BY <2>1 DEF CallAbout
  <2>4. calls' = calls \cup {c} /\ UNCHANGED <<page, visit>>
    BY <1>3, <2>1 DEF SimulateWebhook
  <2>5. CallFits(c)'
    BY <2>3 DEF CallFits
  <2> QED
    BY <1>1, <2>2, <2>3, <2>4, <2>5, CallIsMade
<1> QED
  BY <1>2, <1>3

---------------------------------------------------------------------------
(* The bank and the back end. *)

\* Marking a charge as captured leaves its amount and its method alone.
LEMMA CapturedCharge ==
    ASSUME charges \in Seq(Charge), NEW i, charges' = [charges EXCEPT ![i].captured = TRUE]
    PROVE  /\ charges' \in Seq(Charge) /\ Len(charges') = Len(charges)
           /\ \A j \in 1..Len(charges) :
                 /\ charges'[j].amount = charges[j].amount /\ charges'[j].by = charges[j].by
                 /\ charges[j].captured => charges'[j].captured
<1>1. \A j \in 1..Len(charges) : charges[j] \in Charge
  OBVIOUS
<1>2. CASE i \in 1..Len(charges)
  <2>1. PICK x : x = [charges[i] EXCEPT !.captured = TRUE]
    OBVIOUS
  <2>2. x \in Charge /\ x.amount = charges[i].amount /\ x.by = charges[i].by /\ x.captured
    BY <1>1, <1>2, <2>1 DEF Charge
  <2>3. charges' = [charges EXCEPT ![i] = x]
    BY <1>2, <2>1
  <2>4. charges' \in Seq(Charge) /\ Len(charges') = Len(charges)
    <3>1. /\ [charges EXCEPT ![i] = x] \in Seq(Charge)
          /\ Len([charges EXCEPT ![i] = x]) = Len(charges)
      BY <1>2, <2>2, ExceptSeq, Zenon
    <3> QED
      BY <2>3, <3>1, Zenon
  <2>5. charges'[i] = x /\ \A j \in (1..Len(charges)) \ {i} : charges'[j] = charges[j]
    BY <1>2, <2>3
  <2> QED
    BY <2>2, <2>4, <2>5
<1>3. CASE i \notin 1..Len(charges)
  <2>1. charges' = charges
    BY <1>3
  <2> QED
    BY <2>1
<1> QED
  BY <1>2, <1>3

LEMMA CodeIsPaid == ASSUME CheckoutInv, BankPays PROVE CheckoutInv'
<1>1. /\ charges \in Seq(Charge) /\ visit.made \subseteq 1..Len(charges)
      /\ UNCHANGED <<page, timers, calls, sent, visit>>
  BY DEF CheckoutInv, CheckoutShape, BankPays
<1>2. PICK i \in 1..Len(charges) : charges' = [charges EXCEPT ![i].captured = TRUE]
  BY DEF BankPays
<1>3. /\ charges' \in Seq(Charge) /\ Len(charges') = Len(charges)
      /\ \A j \in 1..Len(charges) :
            /\ charges'[j].amount = charges[j].amount /\ charges'[j].by = charges[j].by
            /\ charges[j].captured => charges'[j].captured
  BY <1>1, <1>2, CapturedCharge
<1>4. NothingLost
  BY <1>1, <1>3 DEF NothingLost
<1>5. CheckoutShape'
  BY <1>1, <1>3 DEF CheckoutInv, CheckoutShape
<1>6. LeftIsGone' /\ OneCharge'
  BY <1>1 DEF CheckoutInv, LeftIsGone, OneCharge
<1> QED
  BY <1>1, <1>4, <1>5, <1>6, VisitStep

\* An answer takes the place of the call, or goes nowhere.
LEMMA CallIsReplied ==
    ASSUME CheckoutInv, NothingLost, NEW c \in calls,
           NEW answer \in {"ok", "requires_action", "captured", "unauthorized", "failed"},
           NEW tx \in Nat, Reply(c, answer, tx),
           charges' \in Seq(Charge), visit' \in Past, visit'.made \subseteq 1..Len(charges'),
           visit'.unguarded = visit.unguarded, UNCHANGED <<page, timers, sent>>,
           NEW d, d = [c EXCEPT !.answer = answer, !.tx = tx],
           c.own # "gone" => CallFits(d)'
    PROVE  CheckoutInv'
<1>1. c \in Errand /\ calls \in SUBSET Errand
  BY DEF CheckoutInv, CheckoutShape
<1>2. d \in Errand /\ d.op = c.op /\ d.own = c.own
  BY <1>1 DEF Errand
<1>3. calls' = (calls \ {c}) \cup IF c.own = "gone" THEN {} ELSE {d}
  BY DEF Reply
<1>4. CheckoutShape'
  BY <1>1, <1>2, <1>3 DEF CheckoutInv, CheckoutShape
<1>5. LeftIsGone'
  BY <1>1, <1>3 DEF CheckoutInv, LeftIsGone
<1>6. OneCharge'
  <2>1. \A e \in calls' : e \in calls \ {c} \/ e = d
    BY <1>3
  <2>2. OfPage(d) => OfPage(c)
    BY <1>2 DEF OfPage
  <2>3. ASSUME ~visit.unguarded, NEW e \in calls', NEW f \in calls', OfPage(e), OfPage(f)
        PROVE  e = f /\ page.busy
    BY <2>1, <2>2, <2>3 DEF CheckoutInv, OneCharge
  <2> QED
    BY <2>3 DEF OneCharge
<1>7. \A e \in calls' : e \in calls \/ CallFits(e)'
  BY <1>3
<1> QED
  BY <1>4, <1>5, <1>6, <1>7, VisitStep

LEMMA ChargeIsServed ==
    ASSUME CheckoutInv, NEW c \in calls, c.answer = "sent", ServeCharge(c),
           UNCHANGED <<page, timers, sent>>
    PROVE  CheckoutInv'
<1>1. /\ c \in Errand /\ charges \in Seq(Charge) /\ visit \in Past
      /\ visit.made \subseteq 1..Len(charges) /\ Len(charges) \in Nat
      /\ c.op \in {"charge", "qr"} /\ CallFits(c)
  BY DEF CheckoutInv, CheckoutShape, ServeCharge
<1>2. ASSUME NEW answer \in {"unauthorized", "failed"}, Reply(c, answer, 0),
             UNCHANGED <<charges, visit>>
      PROVE  CheckoutInv'
  <2>1. NothingLost
    BY <1>2 DEF NothingLost
  <2>2. PICK d : d = [c EXCEPT !.answer = answer, !.tx = 0]
    OBVIOUS
  <2>3. d.op = c.op /\ d.own = c.own /\ d.amount = c.amount /\ d.answer = answer /\ d.tx = 0
    BY <1>1, <2>2 DEF Errand
  <2>4. c.own # "gone" => CallFits(d)'
    BY <1>1, <1>2, <2>3 DEF CallFits
  <2> QED
    BY <1>1, <1>2, <2>1, <2>2, <2>4, CallIsReplied
<1>3. ASSUME charges' = Append(charges, [amount |-> c.amount, captured |-> FALSE,
                                         by |-> IF c.op = "qr" THEN "qr" ELSE "form"]),
             visit' = [visit EXCEPT !.made = IF c.own = "gone" THEN @ ELSE @ \cup {Len(charges) + 1}],
             NEW answer \in {"ok", "requires_action", "failed"}, NEW tx \in Nat,
             Reply(c, answer, tx),
             tx = IF answer = "failed" THEN 0 ELSE Len(charges) + 1
      PROVE  CheckoutInv'
  <2>1. PICK x : x = [amount |-> c.amount, captured |-> FALSE,
                      by |-> IF c.op = "qr" THEN "qr" ELSE "form"]
    OBVIOUS
  <2>2. x \in Charge /\ x.amount = c.amount /\ (c.op = "charge" => x.by = "form")
    BY <1>1, <2>1 DEF Charge, Errand
  <2>3. /\ charges' \in Seq(Charge) /\ Len(charges') = Len(charges) + 1
        /\ charges'[Len(charges) + 1] = x
        /\ \A i \in 1..Len(charges) : charges'[i] = charges[i]
    BY <1>1, <1>3, <2>1, <2>2
  <2>4. PICK made : made = IF c.own = "gone" THEN visit.made ELSE visit.made \cup {Len(charges) + 1}
    OBVIOUS
  <2>5. /\ made \in SUBSET Nat /\ visit.made \subseteq made /\ made \subseteq 1..(Len(charges) + 1)
        /\ c.own # "gone" => Len(charges) + 1 \in made
    BY <1>1, <2>4
  <2>6. visit' = [visit EXCEPT !.made = made]
    BY <1>3, <2>4
  <2>7. /\ visit' \in Past /\ visit'.made = made /\ visit'.shortcut = visit.shortcut
        /\ visit'.edited = visit.edited /\ visit'.unguarded = visit.unguarded
    BY <1>1, <2>5, <2>6 DEF Past
  <2>8. NothingLost
    BY <1>1, <2>3, <2>5, <2>7 DEF NothingLost
  <2>9. PICK d : d = [c EXCEPT !.answer = answer, !.tx = tx]
    OBVIOUS
  <2>10. d.op = c.op /\ d.own = c.own /\ d.amount = c.amount /\ d.answer = answer /\ d.tx = tx
    BY <1>1, <2>9 DEF Errand
  <2>11. c.own # "gone" => CallFits(d)'
    <3> SUFFICES ASSUME c.own # "gone" PROVE CallFits(d)'
      OBVIOUS
    <3>1. d.amount = page'.amount \/ visit'.edited
      BY <1>1, <2>7, <2>10 DEF CallFits
    <3>2. d.tx # 0 => /\ d.tx \in visit'.made /\ charges'[d.tx].amount = d.amount
                      /\ d.op = "charge" => charges'[d.tx].by = "form"
      BY <1>3, <2>2, <2>3, <2>5, <2>7, <2>10
    <3>3. d.op = "charge" => d.own = "page" /\ (d.answer \in {"ok", "requires_action"} => d.tx # 0)
      <4>1. Len(charges) + 1 # 0
        BY <1>1
      <4> QED
        BY <1>1, <1>3, <2>10, <4>1 DEF CallFits
    <3> QED
      BY <1>1, <2>10, <3>1, <3>2, <3>3 DEF CallFits
  <2>12. visit'.made \subseteq 1..Len(charges')
    BY <2>3, <2>5, <2>7
  <2> QED
    BY <1>3, <2>3, <2>7, <2>8, <2>9, <2>11, <2>12, CallIsReplied
<1>4. Len(charges) + 1 \in Nat
  BY <1>1
<1> QED
  BY <1>2, <1>3, <1>4 DEF ServeCharge

LEMMA CaptureIsServed ==
    ASSUME CheckoutInv, NEW c \in calls, c.answer = "sent", ServeCapture(c),
           UNCHANGED <<page, timers, sent>>
    PROVE  CheckoutInv'
<1>1. /\ c \in Errand /\ charges \in Seq(Charge) /\ visit \in Past
      /\ visit.made \subseteq 1..Len(charges) /\ visit' = visit
      /\ c.op \in {"capture", "webhook"} /\ CallFits(c)
  BY DEF CheckoutInv, CheckoutShape, ServeCapture
<1>2. PICK answer \in {"ok", "failed"} : Reply(c, answer, c.tx)
  BY DEF ServeCapture
<1>3. /\ charges' \in Seq(Charge) /\ Len(charges') = Len(charges)
      /\ \A j \in 1..Len(charges) :
            /\ charges'[j].amount = charges[j].amount /\ charges'[j].by = charges[j].by
            /\ charges[j].captured => charges'[j].captured
  <2>1. CASE charges' = charges
    BY <1>1, <2>1
  <2>2. CASE charges' = [charges EXCEPT ![c.tx].captured = TRUE]
    BY <1>1, <2>2, CapturedCharge
  <2> QED
    BY <2>1, <2>2 DEF ServeCapture
<1>4. NothingLost
  BY <1>1, <1>3 DEF NothingLost
<1>5. PICK d : d = [c EXCEPT !.answer = answer, !.tx = c.tx]
  OBVIOUS
<1>6. d.op = c.op /\ d.own = c.own /\ c.tx \in Nat
  BY <1>1, <1>5 DEF Errand
<1>7. c.own # "gone" => CallFits(d)'
  <2>1. CallFits(c)'
    BY <1>4, FitsStill
  <2> QED
    BY <1>1, <1>6, <2>1 DEF CallFits
<1> QED
  BY <1>1, <1>2, <1>3, <1>4, <1>5, <1>6, <1>7, CallIsReplied

LEMMA PollIsServed ==
    ASSUME CheckoutInv, NEW c \in calls, c.answer = "sent", ServePoll(c),
           UNCHANGED <<page, timers, sent>>
    PROVE  CheckoutInv'
<1>1. /\ c \in Errand /\ charges \in Seq(Charge) /\ visit \in Past
      /\ visit.made \subseteq 1..Len(charges) /\ UNCHANGED <<charges, visit>>
      /\ c.op = "poll" /\ CallFits(c)
  BY DEF CheckoutInv, CheckoutShape, ServePoll
<1>2. PICK answer : answer = IF charges[c.tx].captured THEN "captured" ELSE "ok"
  OBVIOUS
<1>3. answer \in {"captured", "ok"} /\ Reply(c, answer, c.tx)
  BY <1>2 DEF ServePoll
<1>4. NothingLost
  BY <1>1 DEF NothingLost
<1>5. PICK d : d = [c EXCEPT !.answer = answer, !.tx = c.tx]
  OBVIOUS
<1>6. d.op = c.op /\ d.own = c.own /\ d.tx = c.tx /\ d.answer = answer /\ c.tx \in Nat
  BY <1>1, <1>5 DEF Errand
<1>7. c.own # "gone" => CallFits(d)'
  BY <1>1, <1>2, <1>6 DEF CallFits, ForOrder
<1> QED
  BY <1>1, <1>3, <1>4, <1>5, <1>6, <1>7, CallIsReplied

---------------------------------------------------------------------------
(* The answers. *)

\* The page takes an answer, and the call is over.
LEMMA AnswerIsTaken ==
    ASSUME CheckoutInv, NEW c \in calls, c.answer # "sent",
           calls' = Settled(page', calls \ {c}), UNCHANGED <<timers, charges, sent>>,
           page' \in ShownPage, page'.at = page.at, page'.amount = page.amount,
           OfPage(c) \/ visit.unguarded \/ page'.busy = page.busy,
           visit' \in Past, visit'.made = visit.made, visit'.edited = visit.edited,
           visit.shortcut => visit'.shortcut, visit'.unguarded = visit.unguarded,
           page'.status = "requires_action" => page.status = "requires_action" \/ Ordered',
           page'.status = "success" => page.status = "success" \/ Backed',
           page'.qr.tx \in {0, page.qr.tx} \/ ForOrder(page.qr.tx)'
    PROVE  CheckoutInv'
<1>1. NothingLost
  BY DEF NothingLost
<1>2. /\ calls' \in SUBSET Errand
      /\ \A d \in calls' : CallFits(d)'
      /\ \A d \in calls' : OfPage(d) => d \in calls \ {c}
  <2>1. calls' \in {calls \ {c}, Disown(calls \ {c}, {"form"}, "page")}
    BY DEF Settled
  <2>2. /\ calls' \in SUBSET Errand
        /\ \A d \in calls' : CallFits(d)'
        /\ \A d \in calls' : OfPage(d) => d \in calls
    BY <1>1, <2>1, SettledCalls
  <2>3. ASSUME NEW d \in calls', OfPage(d) PROVE d \in calls \ {c}
    <3>1. CASE calls' = calls \ {c}
      BY <2>3, <3>1
    <3>2. CASE calls' = Disown(calls \ {c}, {"form"}, "page")
      <4>1. PICK e \in calls \ {c} :
                d = [e EXCEPT !.own = IF e.own \in {"form"} THEN "page" ELSE e.own]
        BY <2>3, <3>2 DEF Disown
      <4>2. e \in Errand /\ CallFits(e)
        BY DEF CheckoutInv, CheckoutShape
      <4>3. d.op = e.op
        BY <4>1, <4>2 DEF Errand
      <4>4. e.own # "form"
        BY <2>3, <4>2, <4>3 DEF OfPage, CallFits
      <4>5. d = e
        BY <4>1, <4>2, <4>4 DEF Errand
      <4> QED
        BY <4>1, <4>5
    <3> QED
      BY <2>1, <3>1, <3>2
  <2> QED
    BY <2>2, <2>3
<1>3. CheckoutShape'
  BY <1>2 DEF CheckoutInv, CheckoutShape
<1>4. page.at = "checkout"
  <2>1. CallFits(c) /\ page \in ShownPage
    BY DEF CheckoutInv, CheckoutShape
  <2>2. c.own # "gone"
    BY <2>1 DEF CallFits
  <2> QED
    BY <2>1, <2>2 DEF CheckoutInv, LeftIsGone, ShownPage
<1>5. LeftIsGone'
  BY <1>4 DEF LeftIsGone
<1>6. OneCharge'
  <2>1. CASE OfPage(c) /\ ~visit.unguarded
    <3>1. \A d \in calls' : ~OfPage(d)
      BY <1>2, <2>1 DEF CheckoutInv, OneCharge
    <3> QED
      BY <3>1 DEF OneCharge, OfPage
  <2>2. CASE visit.unguarded
    BY <2>2 DEF OneCharge
  <2>3. CASE page'.busy = page.busy
    BY <1>2, <2>3, NoNewCharge DEF CheckoutInv
  <2> QED
    BY <2>1, <2>2, <2>3
<1> QED
  BY <1>1, <1>2, <1>3, <1>5, <1>6, VisitStep

LEMMA ChargeIsAnswered ==
    ASSUME CheckoutInv, NEW c \in calls, c.answer # "sent", Charged(c),
           calls' = Settled(page', calls \ {c}), UNCHANGED <<timers, charges, sent>>
    PROVE  CheckoutInv'
<1>1. /\ c \in Errand /\ page \in ShownPage /\ visit \in Past /\ visit.made \subseteq 1..Len(charges)
      /\ c.op = "charge" /\ CallFits(c)
  BY DEF CheckoutInv, CheckoutShape, Charged
<1>2. /\ c.own = "page"
      /\ c.amount = page.amount \/ visit.edited
      /\ c.tx # 0 => /\ c.tx \in visit.made /\ charges[c.tx].amount = c.amount
                     /\ charges[c.tx].by = "form"
      /\ c.answer \in {"ok", "requires_action"} => c.tx # 0
  BY <1>1 DEF CallFits
<1>3. PICK status : status = StatusAfter(c)
  OBVIOUS
<1>4. /\ status \in {"success", "requires_action", "failed"}
      /\ status # "failed" => c.answer \in {"ok", "requires_action", "unauthorized"}
  <2>1. CASE c.answer = "ok"
    BY <1>3, <2>1 DEF StatusAfter
  <2>2. CASE c.answer = "requires_action"
    BY <1>3, <2>2 DEF StatusAfter
  <2>3. CASE c.answer = "unauthorized"
    BY <1>3, <2>3 DEF StatusAfter
  <2>4. CASE c.answer \notin {"ok", "requires_action", "unauthorized"}
    BY <1>3, <2>4 DEF StatusAfter
  <2> QED
    BY <2>1, <2>2, <2>3, <2>4
<1>5. PICK s : s = [page EXCEPT !.tx = IF StatusAfter(c) = "requires_action" THEN c.tx ELSE 0,
                                !.busy = IF c.challenged THEN @ ELSE FALSE]
  OBVIOUS
<1>6. s \in ShownPage /\ s.at = page.at /\ s.amount = page.amount /\ s.qr = page.qr
  <2>1. PICK tx \in Nat : tx = IF StatusAfter(c) = "requires_action" THEN c.tx ELSE 0
    BY <1>1 DEF Errand
  <2>2. PICK busy \in BOOLEAN : busy = IF c.challenged THEN page.busy ELSE FALSE
    BY <1>1 DEF ShownPage
  <2>3. s = [page EXCEPT !.tx = tx, !.busy = busy]
    BY <1>1, <1>5, <2>1, <2>2 DEF ShownPage
  <2> QED
    BY <1>1, <2>3 DEF ShownPage
<1>7. page' = Show(s, status)
  BY <1>3, <1>5 DEF Charged
<1>8. /\ page' \in ShownPage /\ page'.at = page.at /\ page'.amount = page.amount
      /\ page'.status = status /\ page'.qr.tx \in {0, page.qr.tx}
  BY <1>4, <1>6, <1>7, ShownStatus DEF PageStatus
<1>9. PICK shortcut \in BOOLEAN : shortcut = (visit.shortcut \/ c.answer = "unauthorized")
  OBVIOUS
<1>10. visit' = [visit EXCEPT !.shortcut = shortcut]
  BY <1>9 DEF Charged
<1>11. /\ visit' \in Past /\ visit'.made = visit.made /\ visit'.edited = visit.edited
       /\ visit'.unguarded = visit.unguarded /\ visit'.shortcut = shortcut
  BY <1>1, <1>10 DEF Past
<1>12. visit.shortcut => visit'.shortcut
  BY <1>9, <1>11
<1>13. status # "failed" => Ordered'
  <2>1. CASE c.answer = "unauthorized"
    BY <1>9, <1>11, <2>1 DEF Ordered
  <2>2. CASE c.answer \in {"ok", "requires_action"}
    <3>1. c.tx \in visit'.made /\ charges'[c.tx].by = "form"
      BY <1>2, <1>11, <2>2
    <3>2. charges'[c.tx].amount = page'.amount \/ visit'.edited
      BY <1>2, <1>8, <1>11, <2>2
    <3> QED
      BY <3>1, <3>2 DEF Ordered, ForOrder
  <2> QED
    BY <1>4, <2>1, <2>2
<1>14. Ordered' => Backed'
  BY DEF Ordered, Backed
<1>15. OfPage(c)
  BY <1>1, <1>2 DEF OfPage
<1> QED
  BY <1>4, <1>8, <1>11, <1>12, <1>13, <1>14, <1>15, AnswerIsTaken

LEMMA CaptureIsAnswered ==
    ASSUME CheckoutInv, NEW c \in calls, c.answer # "sent", CaptureAnswered(c),
           calls' = Settled(page', calls \ {c}), UNCHANGED <<timers, charges, sent>>
    PROVE  CheckoutInv'
<1>1. /\ page \in ShownPage /\ visit \in Past /\ CallFits(c) /\ c.op = "capture"
      /\ visit' = visit
  BY DEF CheckoutInv, CheckoutShape, CaptureAnswered
<1>2. Ordered /\ visit.unguarded
  BY <1>1 DEF CallFits
<1>3. PICK s : s = [page EXCEPT !.busy = FALSE]
  OBVIOUS
<1>4. s \in ShownPage /\ s.at = page.at /\ s.amount = page.amount /\ s.qr = page.qr
  BY <1>1, <1>3 DEF ShownPage
<1>5. page' = Show(s, "success")
  BY <1>3 DEF CaptureAnswered
<1>6. /\ page' \in ShownPage /\ page'.at = page.at /\ page'.amount = page.amount
      /\ page'.status = "success" /\ page'.qr.tx \in {0, page.qr.tx}
  BY <1>4, <1>5, ShownStatus DEF PageStatus
<1>7. Backed'
  BY <1>1, <1>2, <1>6 DEF Ordered, Backed, ForOrder
<1> QED
  BY <1>1, <1>2, <1>6, <1>7, AnswerIsTaken

LEMMA CodeIsShown ==
    ASSUME CheckoutInv, NEW c \in calls, c.answer # "sent", CodeGenerated(c),
           calls' = Settled(page', calls \ {c}), UNCHANGED <<timers, charges, sent>>
    PROVE  CheckoutInv'
<1>1. /\ c \in Errand /\ page \in ShownPage /\ visit \in Past /\ CallFits(c) /\ c.op = "qr"
      /\ visit' = visit /\ c.tx \in Nat
  BY DEF CheckoutInv, CheckoutShape, CodeGenerated, Errand
<1>2. /\ c.amount = page.amount \/ visit.edited
      /\ c.tx # 0 => c.tx \in visit.made /\ charges[c.tx].amount = c.amount
  BY <1>1 DEF CallFits
<1>3. /\ page' \in ShownPage /\ page'.at = page.at /\ page'.amount = page.amount
      /\ page'.status = page.status /\ page'.busy = page.busy
      /\ page'.qr.tx \in {page.qr.tx, c.tx}
  <2>1. CASE page' = page
    BY <1>1, <2>1
  <2>2. CASE page' = [page EXCEPT !.qr.state = "idle"]
    <3>1. PICK q : q = [page.qr EXCEPT !.state = "idle"]
      OBVIOUS
    <3>2. q \in [state : {"idle", "generating", "polling", "success"}, tx : Nat] /\ q.tx = page.qr.tx
      BY <1>1, <3>1 DEF ShownPage
    <3>3. page' = [page EXCEPT !.qr = q]
      BY <1>1, <2>2, <3>1 DEF ShownPage
    <3> QED
      BY <1>1, <3>2, <3>3 DEF ShownPage
  <2>3. CASE page' = [page EXCEPT !.qr = [state |-> "polling", tx |-> c.tx]]
    BY <1>1, <2>3 DEF ShownPage
  <2> QED
    BY <2>1, <2>2, <2>3 DEF CodeGenerated
<1>4. page'.qr.tx \in {0, page.qr.tx} \/ ForOrder(page.qr.tx)'
  <2> SUFFICES ASSUME page'.qr.tx = c.tx, c.tx # 0 PROVE ForOrder(page.qr.tx)'
    BY <1>3
  <2>1. c.tx \in visit.made /\ (charges[c.tx].amount = page.amount \/ visit.edited)
    BY <1>2
  <2> QED
    BY <1>1, <1>3, <2>1 DEF ForOrder
<1> QED
  BY <1>1, <1>3, <1>4, AnswerIsTaken

LEMMA PollIsAnswered ==
    ASSUME CheckoutInv, NEW c \in calls, c.answer # "sent", Polled(c),
           calls' = Settled(page', calls \ {c}), UNCHANGED <<timers, charges, sent>>
    PROVE  CheckoutInv'
<1>1. /\ page \in ShownPage /\ visit \in Past /\ CallFits(c) /\ c.op = "poll" /\ visit' = visit
  BY DEF CheckoutInv, CheckoutShape, Polled
<1>2. ForOrder(c.tx) /\ (c.answer = "captured" => charges[c.tx].captured)
  BY <1>1 DEF CallFits
<1>3. CASE c.answer = "captured"
  <2>1. page' = CodeScanned(page)
    BY <1>3 DEF Polled
  <2>2. /\ page' \in ShownPage /\ page'.at = page.at /\ page'.amount = page.amount
        /\ page'.status = "success" /\ page'.busy = page.busy /\ page'.qr.tx \in {0, page.qr.tx}
    BY <1>1, <2>1, ScannedCode
  <2>3. Backed'
    BY <1>1, <1>2, <1>3, <2>2 DEF Backed, ForOrder
  <2> QED
    BY <1>1, <2>2, <2>3, AnswerIsTaken
<1>4. CASE c.answer # "captured"
  <2>1. page' = page
    BY <1>4 DEF Polled
  <2> QED
    BY <1>1, <2>1, AnswerIsTaken
<1> QED
  BY <1>3, <1>4

LEMMA WebhookIsAnswered ==
    ASSUME CheckoutInv, NEW c \in calls, c.answer # "sent", WebhookAnswered(c),
           calls' = Settled(page', calls \ {c}), UNCHANGED <<timers, charges, sent>>
    PROVE  CheckoutInv'
<1>1. page \in ShownPage /\ visit \in Past
  BY DEF CheckoutInv, CheckoutShape
<1>2. PICK shortcut \in BOOLEAN : shortcut = (visit.shortcut \/ c.answer = "failed")
  OBVIOUS
<1>3. visit' = [visit EXCEPT !.shortcut = shortcut]
  BY <1>2 DEF WebhookAnswered
<1>4. /\ visit' \in Past /\ visit'.made = visit.made /\ visit'.edited = visit.edited
      /\ visit'.unguarded = visit.unguarded /\ visit'.shortcut = shortcut
  BY <1>1, <1>3 DEF Past
<1>5. visit.shortcut => visit'.shortcut
  BY <1>2, <1>4
<1>6. CASE c.answer = "failed"
  <2>1. page' = CodeScanned(page)
    BY <1>6 DEF WebhookAnswered
  <2>2. /\ page' \in ShownPage /\ page'.at = page.at /\ page'.amount = page.amount
        /\ page'.status = "success" /\ page'.busy = page.busy /\ page'.qr.tx \in {0, page.qr.tx}
    BY <1>1, <2>1, ScannedCode
  <2>3. Backed'
    BY <1>2, <1>4, <1>6 DEF Backed
  <2> QED
    BY <1>4, <1>5, <2>2, <2>3, AnswerIsTaken
<1>7. CASE c.answer # "failed"
  <2>1. page' = page
    BY <1>7 DEF WebhookAnswered
  <2> QED
    BY <1>1, <1>4, <1>5, <2>1, AnswerIsTaken
<1> QED
  BY <1>6, <1>7

---------------------------------------------------------------------------
(* Leaving and coming back. *)

LEMMA ReceiptIsOpened == ASSUME CheckoutInv, GoToReceipt PROVE CheckoutInv'
<1>1. /\ page \in ShownPage /\ page.status = "success" /\ timers \in SUBSET Clock
      /\ calls \in SUBSET Errand /\ UNCHANGED <<charges, sent, visit>>
  BY DEF CheckoutInv, CheckoutShape, GoToReceipt
<1>2. PICK s : s = FreshPage(page.amount, page.tab)
  OBVIOUS
<1>3. s \in ShownPage /\ s.amount = page.amount /\ s.qr.tx = 0
  BY <1>1, <1>2 DEF FreshPage, BlankQr, ShownPage, PageStatus
<1>4. page' = [s EXCEPT !.at = "done", !.status = "success"]
  BY <1>2 DEF GoToReceipt
<1>5. /\ page' \in ShownPage /\ page'.at = "done" /\ page'.status = "success"
      /\ page'.amount = page.amount /\ page'.qr.tx = 0
  BY <1>3, <1>4 DEF ShownPage, PageStatus
<1>6. ASSUME NEW u \in timers' PROVE u \in Clock /\ u.own = "gone"
  <2>1. PICK t \in timers : u = [t EXCEPT !.own = IF t.own \in Owner THEN "gone" ELSE t.own]
    BY <1>6 DEF GoToReceipt, Disown
  <2>2. t \in Clock /\ t.own \in Owner
    BY <1>1 DEF Clock, Owner
  <2> QED
    BY <2>1, <2>2 DEF Clock
<1>7. ASSUME NEW d \in calls' PROVE d \in Errand /\ d.own = "gone" /\ d.answer = "sent"
  <2>1. PICK c \in calls : /\ c.answer = "sent"
                           /\ d = [c EXCEPT !.own = IF c.own \in Owner THEN "gone" ELSE c.own]
    BY <1>7 DEF GoToReceipt, Disown
  <2>2. c \in Errand /\ c.own \in Owner
    BY <1>1 DEF Errand
  <2> QED
    BY <2>1, <2>2 DEF Errand, Owner
<1>8. NothingLost
  BY <1>1, <1>5 DEF NothingLost
<1>9. CheckoutShape'
  BY <1>1, <1>5, <1>6, <1>7 DEF CheckoutInv, CheckoutShape
<1>10. LeftIsGone'
  BY <1>5, <1>6, <1>7 DEF LeftIsGone
<1>11. OneCharge'
  BY <1>7 DEF OneCharge, OfPage
<1>12. /\ \A t \in timers' : TimerFits(t)'
       /\ \A c \in calls' : CallFits(c)'
  BY <1>6, <1>7 DEF TimerFits, CallFits
<1> QED
  BY <1>1, <1>5, <1>8, <1>9, <1>10, <1>11, <1>12, VisitStep

LEMMA PageIsOpenedAgain == ASSUME CheckoutInv, NewPayment PROVE CheckoutInv'
<1>1. /\ \A t \in timers : t.own = "gone"
      /\ \A c \in calls : c.own = "gone" /\ c.answer = "sent"
      /\ visit \in Past /\ UNCHANGED <<timers, calls, charges, sent>>
  BY DEF CheckoutInv, CheckoutShape, LeftIsGone, NewPayment, CallFits
<1>2. page' \in ShownPage /\ page'.at = "checkout" /\ page'.status = "idle" /\ page'.qr.tx = 0
  <2>1. page' = FreshPage(0, "other") /\ 0 \in Amounts
    BY CheckoutAssumption DEF NewPayment
  <2> QED
    BY <2>1 DEF FreshPage, BlankQr, ShownPage, PageStatus, PayTab
<1>3. visit' \in Past /\ visit'.made = {}
  BY <1>1 DEF NewPayment, FreshVisit, Past
<1>4. CheckoutShape'
  BY <1>1, <1>2, <1>3 DEF CheckoutInv, CheckoutShape
<1>5. PageFits' /\ LeftIsGone'
  BY <1>2 DEF PageFits, LeftIsGone
<1>6. OneCharge'
  BY <1>1 DEF OneCharge, OfPage
<1>7. /\ \A t \in timers' : TimerFits(t)'
      /\ \A c \in calls' : CallFits(c)'
  BY <1>1 DEF TimerFits, CallFits
<1> QED
  BY <1>4, <1>5, <1>6, <1>7 DEF CheckoutInv

LEMMA CheckoutStep == CheckoutInv /\ [Next]_vars => CheckoutInv'
<1> SUFFICES ASSUME CheckoutInv, [Next]_vars PROVE CheckoutInv'
  OBVIOUS
<1>1. CASE UNCHANGED vars
  <2>1. UNCHANGED <<page, timers, calls, charges, sent, visit>>
    BY <1>1 DEF vars
  <2>2. NothingLost
    BY <2>1 DEF NothingLost
  <2>3. CheckoutShape' /\ LeftIsGone' /\ OneCharge'
    BY <2>1 DEF CheckoutInv, CheckoutShape, LeftIsGone, OneCharge
  <2> QED
    BY <2>1, <2>2, <2>3, VisitStep
<1>2. CASE (\E a \in Amounts : EditAmount(a)) \/ (\E t \in PayTab : SelectMethod(t)) \/ SwitchToUpi
  BY <1>2, OrderIsEdited, MethodIsChosen
<1>3. CASE PressPay \/ HandleCaptureAction \/ CancelTransaction \/ HandleStartScan \/ CancelScan
  BY <1>3, PayIsPressed, PasscodeIsSent, DialogIsLeft
<1>4. CASE ScanVerified \/ PhraseMatched \/ FaceRecognised \/ Fire
  BY <1>4, TimerIsStarted, TimerFires
<1>5. CASE HandleGenerateQR \/ Poll \/ SimulateWebhook \/ BankPays
  BY <1>5, CodeIsAsked, CodeIsPolled, WebhookIsSimulated, CodeIsPaid
<1>6. CASE \E k \in CallKind : Serve(k.n, k.ops)
  BY <1>6, ChargeIsServed, CaptureIsServed, PollIsServed DEF Serve
<1>7. CASE \E k \in CallKind : Answered(k.n, k.ops)
  BY <1>7, ChargeIsAnswered, CaptureIsAnswered, CodeIsShown, PollIsAnswered, WebhookIsAnswered
     DEF Answered
<1>8. CASE GoToReceipt \/ NewPayment
  BY <1>8, ReceiptIsOpened, PageIsOpenedAgain
<1> QED
  BY <1>1, <1>2, <1>3, <1>4, <1>5, <1>6, <1>7, <1>8 DEF Next

\* The page, its timers, its calls and the charges agree as CheckoutInv says, for
\* any amounts and any number of charges, calls, timers and visits.
THEOREM CheckoutInvariant == Spec => []CheckoutInv
BY CheckoutInitInv, CheckoutStep, PTL DEF Spec

\* A receipt stands for a charge of its own visit, for the amount it shows, and
\* captured if it was paid by code, but for the shortcuts of the sandbox
\* (app/checkout/page.tsx:46-91, 127).
THEOREM ReceiptsAreBacked == Spec => []ReceiptIsBacked
<1>1. CheckoutInv => ReceiptIsBacked
  BY DEF CheckoutInv, LeftIsGone, PageFits, Backed, ForOrder, ReceiptIsBacked
<1> QED
  BY <1>1, CheckoutInvariant, PTL

\* Two charges from the buttons of one page overlap only if a timer paid or a
\* passcode was sent in between (app/checkout/page.tsx:46-91).
THEOREM ButtonsWaitForTheirCharge == Spec => []ButtonsDoNotOverlap
<1>1. CheckoutInv => ButtonsDoNotOverlap
  <2> SUFFICES ASSUME CheckoutInv, ~visit.unguarded
               PROVE  ~(Cardinality({c \in calls : c.op = "charge" /\ c.by = "button"
                                                   /\ c.own = "page"}) > 1)
    BY DEF ButtonsDoNotOverlap
  <2>1. PICK S : S = {c \in calls : c.op = "charge" /\ c.by = "button" /\ c.own = "page"}
    OBVIOUS
  <2>2. \A c, d \in S : c = d
    BY <2>1 DEF CheckoutInv, OneCharge, OfPage
  <2>3. S = {} \/ \E c : S = {c}
    BY <2>2
  <2>4. Cardinality(S) \in {0, 1}
    BY <2>3, FS_EmptySet, FS_Singleton
  <2> QED
    BY <2>1, <2>4
<1> QED
  BY <1>1, CheckoutInvariant, PTL
=============================================================================
