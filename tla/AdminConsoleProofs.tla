------------------------- MODULE AdminConsoleProofs -------------------------
(***************************************************************************)
(* Proofs about the administrator's console: a dashboard at rest shows     *)
(* what the back end holds.  The argument follows one query key.  While a  *)
(* change of it is under way nothing is claimed of the key; the answer to  *)
(* the last change starts the key's request again, and from then on every  *)
(* request of the key in flight was served after the change.               *)
(***************************************************************************)
EXTENDS AdminConsole, TLAPS

-----------------------------------------------------------------------------
(* The inductive invariant.                                                *)

IsRead(r) == r = [key |-> r.key, by |-> r.by, data |-> r.data]
IsCall(c) == /\ DOMAIN c = {"op", "arg", "keys", "again", "here", "latest", "answer", "n"}
             /\ c.op \in Ops

\* Before anybody has signed in nothing is loaded and nothing asked for.
ConsoleShape ==
    /\ count \in [changes : Nat, others : Nat, visits : Nat, faults : Nat]
    /\ srv = [k \in Keys |-> srv[k]] /\ cache = [k \in Keys |-> cache[k]]
    /\ view = [fees |-> view.fees, modal |-> view.modal, sheet |-> view.sheet]
    /\ \A r \in reads : IsRead(r)
    /\ \A c \in calls : IsCall(c)
    /\ count.visits = 0 => /\ page = "login" /\ view.sheet = NoSheet /\ reads = {} /\ calls = {}
                           /\ \A k \in Keys : cache[k] = None

\* The administrator has stayed on the dashboard, nothing failed, nobody else
\* worked, and fees were saved after the settings had arrived only.
Smooth ==
    /\ page = "dashboard" /\ count.visits = 1
    /\ ~early /\ count.faults = 0 /\ count.others = 0

\* The key of what a change of the dashboard is about.
Subject == [status |-> "merchants", settings |-> "settings", resolve |-> "disputes",
            refund |-> "risk", approve |-> "settlements"]

\* A change invalidates the key it is about, and that key has been loaded.
CallsAreOwn ==
    \A c \in calls : /\ c.op \in DOMAIN Subject /\ c.keys = {Subject[c.op]}
                     /\ c.answer \in {"sent", "ok"}
                     /\ Has(Subject[c.op])

\* The resolution form and the detail sheet are opened from loaded rows.
ViewFits ==
    /\ view.modal => Has("disputes")
    /\ view.sheet # NoSheet \/ (\E r \in reads : r.by = "sheet") => Has("merchants")

Queries(k) == {r \in reads : r.by = "query" /\ r.key = k}
Changing(k) == \E c \in calls : k \in c.keys

\* A key that no change is under way for is asked for by requests served after
\* the last one only, and is shown as it is or about to be.
KeyIsRight(k) ==
    \/ Changing(k)
    \/ /\ \A r \in Queries(k) : r.data \in {None, srv[k]}
       /\ cache[k] = srv[k] \/ Queries(k) # {}

Quiet == CallsAreOwn /\ ViewFits /\ \A k \in Keys : KeyIsRight(k)

ConsoleInv == ConsoleShape /\ (Smooth => Quiet)

-----------------------------------------------------------------------------
(* What a step does to the requests of a key.                              *)

\* Starting requests again leaves a key the ones it had, or a new one alone; a
\* key that has data gets the new one.
LEMMA RestartedQueries ==
    ASSUME NEW ks, NEW rs, {r \in rs : r.by = "query"} = {r \in reads : r.by = "query"},
           NEW sheet, \A r \in sheet : r.by # "query",
           reads' = Restarted(ks, rs) \cup sheet
    PROVE  \A k : /\ Queries(k)' = Queries(k) \/ Queries(k)' = {NewRead(k, "query")}
                  /\ k \in ks /\ cache[k] # None => Queries(k)' = {NewRead(k, "query")}
<1> TAKE k
<1> PICK again : again = {j \in ks : cache[j] # None \/ ~Loading(j)}
  OBVIOUS
<1>1. reads' = {r \in rs : ~(r.by = "query" /\ r.key \in again)}
               \cup {NewRead(j, "query") : j \in again} \cup sheet
  BY DEF Restarted
<1>2. \A j : NewRead(j, "query").key = j /\ NewRead(j, "query").by = "query"
  BY DEF NewRead
<1>3. CASE k \in again
  <2>1. Queries(k)' = {NewRead(k, "query")}
    BY <1>1, <1>2, <1>3 DEF Queries
  <2> QED BY <2>1
<1>4. CASE k \notin again
  <2>1. Queries(k)' = Queries(k)
    <3>1. \A r : r \in rs /\ r.by = "query" <=> r \in reads /\ r.by = "query"
      OBVIOUS
    <3>2. \A r : r \in reads' /\ r.by = "query" /\ r.key = k <=> r \in rs /\ r.by = "query" /\ r.key = k
      BY <1>1, <1>2, <1>4
    <3> QED BY <3>1, <3>2 DEF Queries
  <2>2. ~(k \in ks /\ cache[k] # None)
    BY <1>4
  <2> QED BY <2>1, <2>2
<1> QED BY <1>3, <1>4

\* What is started again are requests, and none for a detail sheet.
LEMMA RestartedReads ==
    ASSUME NEW ks, NEW rs
    PROVE  \A r \in Restarted(ks, rs) : r \in rs \/ (IsRead(r) /\ r.by = "query")
BY DEF Restarted, NewRead, IsRead

\* A key keeps right while its data stays, whether its request is started again
\* or not; a change answered starts it again.
LEMMA RestartedKeyIsRight ==
    ASSUME NEW k, KeyIsRight(k), srv'[k] = srv[k], cache'[k] = cache[k],
           Queries(k)' = Queries(k) \/ Queries(k)' = {NewRead(k, "query")},
           Changing(k) => Changing(k)' \/ Queries(k)' = {NewRead(k, "query")}
    PROVE  KeyIsRight(k)'
<1>1. NewRead(k, "query").data = None
  BY DEF NewRead
<1>2. CASE Queries(k)' = {NewRead(k, "query")}
  BY <1>1, <1>2 DEF KeyIsRight
<1>3. CASE Queries(k)' = Queries(k) /\ (Changing(k) => Changing(k)')
  BY <1>3 DEF KeyIsRight
<1> QED BY <1>2, <1>3

\* What Spend does to the counts.
LEMMA SpendCounts ==
    ASSUME ConsoleShape, NEW what \in {"changes", "others", "visits", "faults"}, NEW limit,
           Spend(what, limit)
    PROVE  /\ count' \in [changes : Nat, others : Nat, visits : Nat, faults : Nat]
           /\ count'[what] = count[what] + 1 /\ count'[what] # 0
           /\ \A w \in {"changes", "others", "visits", "faults"} \ {what} : count'[w] = count[w]
<1>1. count \in [{"changes", "others", "visits", "faults"} -> Nat]
  BY DEF ConsoleShape
<1>2. count' = [count EXCEPT ![what] = count[what] + 1]
  BY DEF Spend
<1>3. count' \in [{"changes", "others", "visits", "faults"} -> Nat]
  BY <1>1, <1>2
<1>4. count'[what] = count[what] + 1 /\ count[what] \in Nat
  BY <1>1, <1>2
<1> QED BY <1>1, <1>2, <1>3, <1>4

\* Whatever is asked for again by the page that is open.
LEMMA RestartKeeps ==
    ASSUME ConsoleInv, page # "login", NEW ks, reads' = Restarted(ks, reads),
           UNCHANGED <<srv, page, cache, view, calls, early>>,
           count' \in [changes : Nat, others : Nat, visits : Nat, faults : Nat],
           count'.visits = count.visits, count'.faults = count.faults,
           count'.others = count.others
    PROVE  ConsoleInv'
<1> USE DEF ConsoleInv
<1>1. \A r \in reads' : r \in reads \/ (IsRead(r) /\ r.by = "query")
  BY RestartedReads
<1>2. ConsoleShape'
  BY <1>1 DEF ConsoleShape, Keys
<1>3. ASSUME Smooth' PROVE Quiet'
  <2>1. Smooth /\ Quiet
    BY <1>3 DEF Smooth
  <2>2. CallsAreOwn'
    BY <2>1 DEF Quiet, CallsAreOwn, Has, Keys
  <2>3. ViewFits'
    BY <2>1, <1>1 DEF Quiet, ViewFits, Has, Keys
  <2>4. \A k \in Keys' : KeyIsRight(k)'
    <3> TAKE k \in Keys'
    <3>1. KeyIsRight(k) /\ (Changing(k) => Changing(k)')
      BY <2>1 DEF Quiet, Keys, Changing
    <3>2. Queries(k)' = Queries(k) \/ Queries(k)' = {NewRead(k, "query")}
      <4> PICK none : none = {}
        OBVIOUS
      <4>1. reads' = Restarted(ks, reads) \cup none /\ \A r \in none : r.by # "query"
        OBVIOUS
      <4> QED BY <4>1, RestartedQueries
    <3> QED BY <3>1, <3>2, RestartedKeyIsRight
  <2> QED BY <2>2, <2>3, <2>4 DEF Quiet
<1> QED BY <1>2, <1>3

LEMMA PollKeeps == ASSUME ConsoleInv, Poll PROVE ConsoleInv'
<1>1. PICK k \in Observed(page) \cap Polled : reads' = Restarted({k}, reads)
  BY DEF Poll
<1>2. page # "login"
  BY <1>1 DEF Observed
<1> QED BY <1>1, <1>2, RestartKeeps DEF Poll, ConsoleInv, ConsoleShape

LEMMA FocusKeeps == ASSUME ConsoleInv, NEW k, Focus(k) PROVE ConsoleInv'
<1>1. page # "login"
  BY DEF Focus, Observed
<1> QED BY <1>1, RestartKeeps DEF Focus, ConsoleInv, ConsoleShape

LEMMA RefreshKeeps == ASSUME ConsoleInv, HandleRefreshAll PROVE ConsoleInv'
<1>1. /\ count' \in [changes : Nat, others : Nat, visits : Nat, faults : Nat]
      /\ count'.visits = count.visits /\ count'.faults = count.faults
      /\ count'.others = count.others
  BY SpendCounts DEF HandleRefreshAll, ConsoleInv
<1> QED BY <1>1, RestartKeeps DEF HandleRefreshAll

-----------------------------------------------------------------------------
(* Moving between the pages.                                               *)

\* Opening a page leaves requests, changes and a view of the right form.
LEMMA EnterShapes ==
    ASSUME ConsoleInv, NEW p, Enter(p), UNCHANGED <<srv, cache>>
    PROVE  /\ srv' = [k \in Keys' |-> srv'[k]] /\ cache' = [k \in Keys' |-> cache'[k]]
           /\ view' = [fees |-> view'.fees, modal |-> view'.modal, sheet |-> view'.sheet]
           /\ \A r \in reads' : IsRead(r) /\ r.by # "sheet"
           /\ \A c \in calls' : IsCall(c)
           /\ view'.sheet = NoSheet /\ view'.modal = FALSE
           /\ calls = {} => calls' = {}
<1>1. /\ srv' = [k \in Keys' |-> srv'[k]] /\ cache' = [k \in Keys' |-> cache'[k]]
  BY DEF ConsoleInv, ConsoleShape, Keys
<1>2. /\ view' = [fees |-> view'.fees, modal |-> view'.modal, sheet |-> view'.sheet]
      /\ view'.sheet = NoSheet /\ view'.modal = FALSE
  BY DEF Enter, BlankView
<1>3. \A r \in reads' : IsRead(r) /\ r.by # "sheet"
  <2>1. PICK left : left = {r \in reads : r.by = "query"}
    OBVIOUS
  <2>2. PICK ks : reads' = IF p = "compliance" THEN left \cup {NewRead("merchants", "page")}
                           ELSE Restarted(ks, left)
    BY <2>1 DEF Enter
  <2>3. \A r \in left : IsRead(r) /\ r.by = "query"
    BY <2>1 DEF ConsoleInv, ConsoleShape
  <2>4. IsRead(NewRead("merchants", "page")) /\ NewRead("merchants", "page").by = "page"
    BY DEF IsRead, NewRead
  <2>5. \A r \in Restarted(ks, left) : r \in left \/ (IsRead(r) /\ r.by = "query")
    BY RestartedReads
  <2> QED BY <2>2, <2>3, <2>4, <2>5
<1>4. \A c \in calls' : IsCall(c)
  <2> TAKE d \in calls'
  <2>1. PICK c \in calls : d = [c EXCEPT !.latest = FALSE, !.here = FALSE]
    BY DEF Enter
  <2>2. IsCall(c)
    BY DEF ConsoleInv, ConsoleShape
  <2> QED BY <2>1, <2>2 DEF IsCall
<1>5. calls = {} => calls' = {}
  BY DEF Enter
<1> QED BY <1>1, <1>2, <1>3, <1>4, <1>5

\* Signing in for the first time asks for every key.
LEMMA LoginKeeps == ASSUME ConsoleInv, HandleLogin PROVE ConsoleInv'
<1>1. /\ count' \in [changes : Nat, others : Nat, visits : Nat, faults : Nat]
      /\ count'.visits = count.visits + 1 /\ count'.visits # 0
  BY SpendCounts DEF HandleLogin, ConsoleInv
<1>2. ConsoleShape'
  BY <1>1, EnterShapes DEF HandleLogin, ConsoleShape
<1>3. ASSUME Smooth' PROVE Quiet'
  <2>1. count.visits = 0
    BY <1>1, <1>3 DEF Smooth, ConsoleInv, ConsoleShape
  <2>2. reads = {} /\ calls = {} /\ \A k \in Keys : cache[k] = None
    BY <2>1 DEF ConsoleInv, ConsoleShape
  <2>3. /\ calls' = {} /\ view'.sheet = NoSheet /\ view'.modal = FALSE
        /\ \A r \in reads' : r.by # "sheet"
    BY <2>2, EnterShapes DEF HandleLogin
  <2>4. reads' = {NewRead(k, "query") : k \in Keys}
    <3>1. PICK missing : missing = {k \in Observed("dashboard") : cache[k] = None \/ k \in stale}
      OBVIOUS
    <3>2. PICK left : left = {r \in reads : r.by = "query"}
      OBVIOUS
    <3>3. PICK ks : ks = {k \in missing : ~Loading(k)}
      OBVIOUS
    <3>4. reads' = Restarted(ks, left)
      BY <3>1, <3>2, <3>3 DEF HandleLogin, Enter
    <3>5. Observed("dashboard") = Keys
      BY DEF Observed
    <3>6. left = {} /\ \A k : ~Loading(k)
      BY <2>2, <3>2 DEF Loading
    <3>7. ks = Keys
      BY <2>2, <3>1, <3>3, <3>5, <3>6
    <3> QED BY <3>4, <3>6, <3>7 DEF Restarted
  <2>5. \A k \in Keys' : KeyIsRight(k)'
    <3> TAKE k \in Keys'
    <3>1. k \in Keys
      BY DEF HandleLogin, Keys
    <3>2. NewRead(k, "query") \in Queries(k)' /\ \A r \in Queries(k)' : r.data = None
      BY <2>4, <3>1 DEF Queries, NewRead
    <3> QED BY <3>2 DEF KeyIsRight
  <2> QED BY <2>3, <2>5 DEF Quiet, CallsAreOwn, ViewFits
<1> QED BY <1>2, <1>3 DEF ConsoleInv

LEMMA NavigateKeeps == ASSUME ConsoleInv, NEW p, Navigate(p) PROVE ConsoleInv'
<1>1. /\ count' \in [changes : Nat, others : Nat, visits : Nat, faults : Nat]
      /\ count'.visits = count.visits + 1 /\ count'.visits # 0
  BY SpendCounts DEF Navigate, ConsoleInv
<1>2. ConsoleShape'
  BY <1>1, EnterShapes DEF Navigate, ConsoleShape
<1>3. count.visits # 0
  BY DEF Navigate, ConsoleInv, ConsoleShape
<1>4. ~Smooth'
  BY <1>1, <1>3 DEF Smooth, ConsoleInv, ConsoleShape
<1> QED BY <1>2, <1>4 DEF ConsoleInv

LEMMA LogoutKeeps == ASSUME ConsoleInv, HandleLogout PROVE ConsoleInv'
<1>1. count.visits # 0 /\ count' = count
  BY DEF HandleLogout, ConsoleInv, ConsoleShape
<1>2. ConsoleShape'
  BY <1>1, EnterShapes DEF HandleLogout, ConsoleInv, ConsoleShape
<1>3. ~Smooth'
  BY DEF HandleLogout, Enter, Smooth
<1> QED BY <1>2, <1>3 DEF ConsoleInv

-----------------------------------------------------------------------------
(* Changes asked for.                                                      *)

\* A change of a key that has been loaded.
LEMMA AskKeeps ==
    ASSUME ConsoleInv, count.visits # 0, NEW op \in Ops, NEW arg, NEW keys, NEW again,
           Ask(op, arg, keys, again), view' = view, early => early',
           Smooth /\ ~early' =>
               op \in DOMAIN Subject /\ keys = {Subject[op]} /\ Has(Subject[op])
    PROVE  ConsoleInv'
<1> PICK new : new = [op |-> op, arg |-> arg, keys |-> keys, again |-> again, here |-> TRUE,
                      latest |-> TRUE, answer |-> "sent", n |-> count.changes]
  OBVIOUS
<1>1. /\ count' \in [changes : Nat, others : Nat, visits : Nat, faults : Nat]
      /\ count'.visits = count.visits /\ count'.faults = count.faults
      /\ count'.others = count.others
  BY SpendCounts DEF Ask, ConsoleInv
<1>2. calls' = {IF c.op = op THEN [c EXCEPT !.latest = FALSE] ELSE c : c \in calls} \cup {new}
  BY DEF Ask
<1>3. \A c \in calls : IsCall(c)
  BY DEF ConsoleInv, ConsoleShape
<1>4. \A d \in calls' \ {new} : \E c \in calls :
          /\ IsCall(d) /\ d.op = c.op /\ d.keys = c.keys /\ d.answer = c.answer
  <2> TAKE d \in calls' \ {new}
  <2>1. PICK c \in calls : d = IF c.op = op THEN [c EXCEPT !.latest = FALSE] ELSE c
    BY <1>2
  <2>2. IsCall(d) /\ d.op = c.op /\ d.keys = c.keys /\ d.answer = c.answer
    BY <2>1, <1>3 DEF IsCall
  <2> QED BY <2>2
<1>5. IsCall(new) /\ new.op = op /\ new.keys = keys /\ new.answer = "sent"
  BY DEF IsCall
<1>6. \A k : Changing(k) => Changing(k)'
  <2> SUFFICES ASSUME NEW c \in calls PROVE \E d \in calls' : d.keys = c.keys
    BY DEF Changing
  <2>1. PICK d \in calls' : d = IF c.op = op THEN [c EXCEPT !.latest = FALSE] ELSE c
    BY <1>2
  <2> QED BY <2>1, <1>3 DEF IsCall
<1>7. UNCHANGED <<srv, page, cache, reads>>
  BY DEF Ask
<1>8. ConsoleShape'
  <2>1. \A c \in calls' : IsCall(c)
    BY <1>4, <1>5
  <2> QED BY <2>1, <1>1, <1>7 DEF ConsoleInv, ConsoleShape, Keys
<1>9. ASSUME Smooth' PROVE Quiet'
  <2>1. Smooth /\ Quiet /\ ~early'
    BY <1>1, <1>7, <1>9 DEF Smooth, ConsoleInv
  <2>2. CallsAreOwn'
    <3> SUFFICES ASSUME NEW d \in calls'
                 PROVE  /\ d.op \in DOMAIN Subject /\ d.keys = {Subject[d.op]}
                        /\ d.answer \in {"sent", "ok"} /\ Has(Subject[d.op])
      BY <1>7 DEF CallsAreOwn, Has, Keys
    <3>1. CASE d = new
      BY <3>1, <1>5, <2>1 DEF Smooth
    <3>2. CASE d # new
      BY <3>2, <1>4, <2>1 DEF Quiet, CallsAreOwn
    <3> QED BY <3>1, <3>2
  <2>3. ViewFits'
    BY <2>1, <1>7 DEF Quiet, ViewFits, Has, Keys
  <2>4. \A k \in Keys' : KeyIsRight(k)'
    <3> TAKE k \in Keys'
    <3>1. KeyIsRight(k)
      BY <2>1, <1>7 DEF Quiet, Keys
    <3>2. Queries(k)' = Queries(k)
      BY <1>7 DEF Queries
    <3> QED BY <3>1, <3>2, <1>6, <1>7, RestartedKeyIsRight
  <2> QED BY <2>2, <2>3, <2>4 DEF Quiet
<1> QED BY <1>8, <1>9 DEF ConsoleInv

LEMMA MutateKeeps == ASSUME ConsoleInv, NEW m, NEW s, MutateStatus(m, s) PROVE ConsoleInv'
<1> count.visits # 0
  BY DEF MutateStatus, ConsoleInv, ConsoleShape
<1>1. "status" \in DOMAIN Subject /\ Subject["status"] = "merchants"
  BY DEF Subject
<1> QED BY <1>1, AskKeeps DEF MutateStatus, Ops

\* The desk is another page.
LEMMA DeskKeeps == ASSUME ConsoleInv, NEW m, NEW s, UpdateStatus(m, s) PROVE ConsoleInv'
<1>1. count.visits # 0
  BY DEF UpdateStatus, ConsoleInv, ConsoleShape
<1> QED BY <1>1, AskKeeps DEF UpdateStatus, Ops, Smooth

LEMMA SaveKeeps == ASSUME ConsoleInv, SaveFees PROVE ConsoleInv'
<1> count.visits # 0
  BY DEF SaveFees, ConsoleInv, ConsoleShape
<1>1. "settings" \in DOMAIN Subject /\ Subject["settings"] = "settings"
  BY DEF Subject
<1> QED BY <1>1, AskKeeps DEF SaveFees, Ops

LEMMA ToggleKeeps == ASSUME ConsoleInv, NEW s, ToggleSetting(s) PROVE ConsoleInv'
<1> count.visits # 0
  BY DEF ToggleSetting, ConsoleInv, ConsoleShape
<1>1. "settings" \in DOMAIN Subject /\ Subject["settings"] = "settings"
  BY DEF Subject
<1>2. PICK again : again = IF page = "operations" THEN {"settings"} ELSE {}
  OBVIOUS
<1> QED BY <1>1, <1>2, AskKeeps DEF ToggleSetting, Ops

LEMMA RefundKeeps == ASSUME ConsoleInv, ForceRefund PROVE ConsoleInv'
<1> count.visits # 0
  BY DEF ForceRefund, ConsoleInv, ConsoleShape
<1>1. "refund" \in DOMAIN Subject /\ Subject["refund"] = "risk"
  BY DEF Subject
<1> QED BY <1>1, AskKeeps DEF ForceRefund, Ops

LEMMA ApproveKeeps == ASSUME ConsoleInv, ApprovePayout PROVE ConsoleInv'
<1> count.visits # 0
  BY DEF ApprovePayout, ConsoleInv, ConsoleShape
<1>1. "approve" \in DOMAIN Subject /\ Subject["approve"] = "settlements"
  BY DEF Subject
<1> QED BY <1>1, AskKeeps DEF ApprovePayout, Ops

LEMMA ResolveKeeps == ASSUME ConsoleInv, NEW verdict, HandleResolve(verdict) PROVE ConsoleInv'
<1> count.visits # 0
  BY DEF HandleResolve, ConsoleInv, ConsoleShape
<1>1. "resolve" \in DOMAIN Subject /\ Subject["resolve"] = "disputes"
  BY DEF Subject
<1>2. Smooth => Has("disputes")
  BY DEF ConsoleInv, Quiet, ViewFits, HandleResolve
<1> QED BY <1>1, <1>2, AskKeeps DEF HandleResolve, Ops

LEMMA ApplyKeeps == ASSUME ConsoleInv, NEW s, ApplyStatus(s) PROVE ConsoleInv'
<1>1. "status" \in DOMAIN Subject /\ Subject["status"] = "merchants"
  BY DEF Subject
<1>2. view.sheet # NoSheet
  BY DEF ApplyStatus, NoSheet
<1>3. Smooth => Has("merchants")
  BY <1>2 DEF ConsoleInv, Quiet, ViewFits
<1>4. count.visits # 0
  BY <1>2 DEF ConsoleInv, ConsoleShape
<1> QED BY <1>1, <1>3, <1>4, AskKeeps DEF ApplyStatus, Ops

-----------------------------------------------------------------------------
(* What the administrator opens, closes and types.                         *)

\* A step that leaves the data, the queries and the changes alone.
LEMMA ViewKeeps ==
    ASSUME ConsoleInv, UNCHANGED <<srv, page, cache, calls, count, early>>,
           view' = [fees |-> view'.fees, modal |-> view'.modal, sheet |-> view'.sheet],
           \A r \in reads' : IsRead(r),
           \A r : r.by = "query" => (r \in reads' <=> r \in reads),
           count.visits = 0 => reads' = {} /\ view'.sheet = NoSheet,
           Smooth => ViewFits'
    PROVE  ConsoleInv'
<1>1. ConsoleShape'
  BY DEF ConsoleInv, ConsoleShape, Keys
<1>2. ASSUME Smooth' PROVE Quiet'
  <2>1. Smooth /\ Quiet
    BY <1>2 DEF Smooth, ConsoleInv
  <2>2. CallsAreOwn'
    BY <2>1 DEF Quiet, CallsAreOwn, Has, Keys
  <2>3. \A k \in Keys' : KeyIsRight(k)'
    <3> TAKE k \in Keys'
    <3>1. KeyIsRight(k) /\ (Changing(k) => Changing(k)')
      BY <2>1 DEF Quiet, Keys, Changing
    <3>2. Queries(k)' = Queries(k)
      BY DEF Queries
    <3> QED BY <3>1, <3>2, RestartedKeyIsRight
  <2> QED BY <2>1, <2>2, <2>3 DEF Quiet
<1> QED BY <1>1, <1>2 DEF ConsoleInv

LEMMA OpenSheetKeeps == ASSUME ConsoleInv, NEW m, OpenSheet(m) PROVE ConsoleInv'
<1>1. PICK r : r = NewRead("merchants", "sheet")
  OBVIOUS
<1>2. IsRead(r) /\ r.by = "sheet"
  BY <1>1 DEF IsRead, NewRead
<1>3. reads' = reads \cup {r}
  BY <1>1 DEF OpenSheet
<1>4. view' = [fees |-> view'.fees, modal |-> view'.modal, sheet |-> view'.sheet]
      /\ view'.modal = view.modal
  BY DEF OpenSheet, ConsoleInv, ConsoleShape
<1>5. count.visits # 0
  BY DEF OpenSheet, ConsoleInv, ConsoleShape
<1>6. Smooth => ViewFits'
  BY <1>4 DEF OpenSheet, ConsoleInv, Quiet, ViewFits, Has, Keys
<1>7. \A q \in reads' : IsRead(q)
  BY <1>2, <1>3 DEF ConsoleInv, ConsoleShape
<1> QED BY <1>2, <1>3, <1>4, <1>5, <1>6, <1>7, ViewKeeps DEF OpenSheet

LEMMA CloseSheetKeeps == ASSUME ConsoleInv, CloseSheet PROVE ConsoleInv'
<1>1. view' = [fees |-> view'.fees, modal |-> view'.modal, sheet |-> view'.sheet]
      /\ view'.modal = view.modal
  BY DEF CloseSheet, ConsoleInv, ConsoleShape
<1>2. count.visits # 0
  BY DEF CloseSheet, ConsoleInv, ConsoleShape
<1>3. Smooth => ViewFits'
  BY <1>1 DEF CloseSheet, ConsoleInv, Quiet, ViewFits, Has, Keys
<1>4. (\A q \in reads' : IsRead(q)) /\ (\A r : r.by = "query" => (r \in reads' <=> r \in reads))
  BY DEF CloseSheet, ConsoleInv, ConsoleShape
<1> QED BY <1>1, <1>2, <1>3, <1>4, ViewKeeps DEF CloseSheet

LEMMA TypeKeeps == ASSUME ConsoleInv, NEW f, TypeFees(f) PROVE ConsoleInv'
<1>1. view' = [fees |-> view'.fees, modal |-> view'.modal, sheet |-> view'.sheet]
      /\ view'.modal = view.modal /\ view'.sheet = view.sheet
  BY DEF TypeFees, ConsoleInv, ConsoleShape
<1>2. Smooth => ViewFits'
  BY <1>1 DEF TypeFees, ConsoleInv, Quiet, ViewFits, Has, Keys
<1> QED BY <1>1, <1>2, ViewKeeps DEF TypeFees, ConsoleInv, ConsoleShape

LEMMA ModalKeeps == ASSUME ConsoleInv, OpenModal PROVE ConsoleInv'
<1>1. view' = [fees |-> view'.fees, modal |-> view'.modal, sheet |-> view'.sheet]
      /\ view'.sheet = view.sheet
  BY DEF OpenModal, ConsoleInv, ConsoleShape
<1>2. Smooth => ViewFits'
  BY <1>1 DEF OpenModal, ConsoleInv, Quiet, ViewFits, Has, Keys
<1> QED BY <1>1, <1>2, ViewKeeps DEF OpenModal, ConsoleInv, ConsoleShape

\* The compliance page's own requests.
LEMMA FetchKeeps == ASSUME ConsoleInv, FetchMerchants PROVE ConsoleInv'
<1>1. PICK r : r = NewRead("merchants", "page")
  OBVIOUS
<1>2. IsRead(r) /\ r.by = "page"
  BY <1>1 DEF IsRead, NewRead
<1>3. reads' = reads \cup {r}
  BY <1>1 DEF FetchMerchants
<1>4. count.visits # 0 /\ ~Smooth
  BY DEF FetchMerchants, ConsoleInv, ConsoleShape, Smooth
<1>5. \A q \in reads' : IsRead(q)
  BY <1>2, <1>3 DEF ConsoleInv, ConsoleShape
<1>6. view' = [fees |-> view'.fees, modal |-> view'.modal, sheet |-> view'.sheet]
  BY DEF FetchMerchants, ConsoleInv, ConsoleShape
<1> QED BY <1>2, <1>3, <1>4, <1>5, <1>6, ViewKeeps DEF FetchMerchants

-----------------------------------------------------------------------------
(* The back end.                                                           *)

\* A step that alters the data of one key.
LEMMA OneKey ==
    ASSUME ConsoleInv, NEW j, NEW v, srv' = [srv EXCEPT ![j] = v]
    PROVE  /\ srv' = [k \in Keys' |-> srv'[k]] /\ Keys' = Keys
           /\ \A k \in Keys \ {j} : srv'[k] = srv[k]
<1>1. srv = [k \in Keys |-> srv[k]] /\ Keys = DOMAIN srv /\ Keys' = DOMAIN srv'
  BY DEF ConsoleInv, ConsoleShape, Keys
<1>2. Keys' = Keys
  BY <1>1
<1> QED BY <1>1, <1>2

\* Serving a change alters the data of the key it is about, and no other.
LEMMA ServeCallData ==
    ASSUME ConsoleInv, NEW c \in calls, ServeCall(c)
    PROVE  /\ srv' = [k \in Keys' |-> srv'[k]] /\ Keys' = Keys
           /\ c.op \in DOMAIN Subject => \A k \in Keys \ {Subject[c.op]} : srv'[k] = srv[k]
<1>1. c.op \in Ops
  BY DEF ConsoleInv, ConsoleShape, IsCall
<1>2. CASE c.op = "settings"
  <2>1. PICK v : srv' = [srv EXCEPT !["settings"] = v]
    BY <1>2 DEF ServeCall
  <2>2. c.op \in DOMAIN Subject /\ Subject[c.op] = "settings"
    BY <1>2 DEF Subject
  <2> QED BY <2>1, <2>2, OneKey
<1>3. CASE c.op \in {"status", "desk"}
  <2>1. PICK v : srv' = [srv EXCEPT !["merchants"] = v]
    BY <1>3 DEF ServeCall
  <2>2. c.op \in DOMAIN Subject => Subject[c.op] = "merchants"
    BY <1>3 DEF Subject
  <2> QED BY <2>1, <2>2, OneKey
<1>4. CASE c.op = "resolve"
  <2>1. PICK v : srv' = [srv EXCEPT !["disputes"] = v]
    BY <1>4 DEF ServeCall
  <2>2. c.op \in DOMAIN Subject /\ Subject[c.op] = "disputes"
    BY <1>4 DEF Subject
  <2> QED BY <2>1, <2>2, OneKey
<1>5. CASE c.op = "refund"
  <2>1. PICK v : srv' = [srv EXCEPT !["risk"] = v]
    BY <1>5 DEF ServeCall
  <2>2. c.op \in DOMAIN Subject /\ Subject[c.op] = "risk"
    BY <1>5 DEF Subject
  <2> QED BY <2>1, <2>2, OneKey
<1>6. CASE c.op = "approve"
  <2>1. PICK v : srv' = [srv EXCEPT !["settlements"] = v]
    BY <1>6 DEF ServeCall
  <2>2. c.op \in DOMAIN Subject /\ Subject[c.op] = "settlements"
    BY <1>6 DEF Subject
  <2> QED BY <2>1, <2>2, OneKey
<1> QED BY <1>1, <1>2, <1>3, <1>4, <1>5, <1>6 DEF Ops

LEMMA ServeCallKeeps == ASSUME ConsoleInv, NEW c \in calls, ServeCall(c) PROVE ConsoleInv'
<1> PICK d : d = [c EXCEPT !.answer = "ok"]
  OBVIOUS
<1>1. calls' = (calls \ {c}) \cup {d}
  BY DEF ServeCall
<1>2. IsCall(d) /\ d.op = c.op /\ d.keys = c.keys /\ d.answer = "ok"
  BY DEF ConsoleInv, ConsoleShape, IsCall
<1>3. UNCHANGED <<page, cache, view, reads, count, early>>
  BY DEF ServeCall
<1>4. srv' = [k \in Keys' |-> srv'[k]] /\ Keys' = Keys
  BY ServeCallData
<1>5. ConsoleShape'
  BY <1>1, <1>2, <1>3, <1>4 DEF ConsoleInv, ConsoleShape
<1>6. ASSUME Smooth' PROVE Quiet'
  <2>1. Smooth /\ Quiet
    BY <1>3, <1>6 DEF Smooth, ConsoleInv
  <2>2. CallsAreOwn'
    BY <2>1, <1>1, <1>2, <1>3, <1>4 DEF Quiet, CallsAreOwn, Has
  <2>3. ViewFits'
    BY <2>1, <1>3, <1>4 DEF Quiet, ViewFits, Has
  <2>4. \A k : Changing(k) => Changing(k)'
    BY <1>1, <1>2 DEF Changing
  <2>5. c.op \in DOMAIN Subject /\ c.keys = {Subject[c.op]}
    BY <2>1 DEF Quiet, CallsAreOwn
  <2>6. \A k \in Keys' : KeyIsRight(k)'
    <3> TAKE k \in Keys'
    <3>1. CASE Changing(k)
      BY <3>1, <2>4 DEF KeyIsRight
    <3>2. CASE ~Changing(k)
      <4>1. srv'[k] = srv[k]
        BY <3>2, <2>5, <1>4, ServeCallData DEF Changing
      <4>2. KeyIsRight(k) /\ Queries(k)' = Queries(k)
        BY <2>1, <1>3, <1>4 DEF Quiet, Queries
      <4> QED BY <4>1, <4>2, <1>3, <3>2, RestartedKeyIsRight
    <3> QED BY <3>1, <3>2
  <2> QED BY <2>2, <2>3, <2>6 DEF Quiet
<1> QED BY <1>5, <1>6 DEF ConsoleInv

LEMMA ElsewhereKeeps == ASSUME ConsoleInv, NEW m, NEW s, Elsewhere(m, s) PROVE ConsoleInv'
<1>1. /\ count' \in [changes : Nat, others : Nat, visits : Nat, faults : Nat]
      /\ count'.others # 0 /\ count'.visits = count.visits
  BY SpendCounts DEF Elsewhere, ConsoleInv
<1>2. srv' = [k \in Keys' |-> srv'[k]] /\ Keys' = Keys
  BY DEF Elsewhere, ConsoleInv, ConsoleShape, Keys
<1>3. ConsoleShape'
  BY <1>1, <1>2 DEF Elsewhere, ConsoleInv, ConsoleShape
<1>4. ~Smooth'
  BY <1>1 DEF Smooth
<1> QED BY <1>3, <1>4 DEF ConsoleInv

\* Serving a request gives it the data of the moment.
LEMMA ServeReadKeeps == ASSUME ConsoleInv, NEW r \in reads, ServeRead(r) PROVE ConsoleInv'
<1> PICK q : q = [r EXCEPT !.data = srv[r.key]]
  OBVIOUS
<1>1. reads' = (reads \ {r}) \cup {q}
  BY DEF ServeRead
<1>2. IsRead(q) /\ q.key = r.key /\ q.by = r.by /\ q.data = srv[r.key]
  <2>1. r = [key |-> r.key, by |-> r.by, data |-> r.data]
    BY DEF ConsoleInv, ConsoleShape, IsRead
  <2>2. q = [key |-> r.key, by |-> r.by, data |-> srv[r.key]]
    BY <2>1
  <2> QED BY <2>2 DEF IsRead
<1>3. UNCHANGED <<srv, page, cache, view, calls, count, early>>
  BY DEF ServeRead
<1>4. ConsoleShape'
  BY <1>1, <1>2, <1>3 DEF ConsoleInv, ConsoleShape, Keys
<1>5. ASSUME Smooth' PROVE Quiet'
  <2>1. Smooth /\ Quiet
    BY <1>3, <1>5 DEF Smooth, ConsoleInv
  <2>2. CallsAreOwn'
    BY <2>1, <1>3 DEF Quiet, CallsAreOwn, Has, Keys
  <2>3. ViewFits'
    BY <2>1, <1>1, <1>2, <1>3 DEF Quiet, ViewFits, Has, Keys
  <2>4. \A k \in Keys' : KeyIsRight(k)'
    <3> TAKE k \in Keys'
    <3>1. KeyIsRight(k)
      BY <2>1, <1>3 DEF Quiet, Keys
    <3>2. CASE Changing(k)
      BY <3>2, <1>3 DEF KeyIsRight, Changing
    <3>3. CASE ~Changing(k)
      <4>1. \A p \in Queries(k)' : p.data \in {None, srv[k]}
        BY <3>1, <3>3, <1>1, <1>2 DEF KeyIsRight, Queries
      <4>2. Queries(k) # {} => Queries(k)' # {}
        BY <1>1, <1>2 DEF Queries
      <4> QED BY <3>1, <3>3, <4>1, <4>2, <1>3 DEF KeyIsRight
    <3> QED BY <3>2, <3>3
  <2> QED BY <2>2, <2>3, <2>4 DEF Quiet
<1> QED BY <1>4, <1>5 DEF ConsoleInv

-----------------------------------------------------------------------------
(* Answers.                                                                *)

\* An answer alters the shown data of its own key only, and nothing shown is
\* forgotten.
LEMMA AnswerCache ==
    ASSUME ConsoleInv, NEW r \in reads, ReadAnswered(r)
    PROVE  /\ cache' = [k \in Keys |-> cache'[k]]
           /\ \A k \in Keys : \/ cache'[k] = cache[k]
                              \/ r.by = "query" /\ r.key = k /\ cache'[k] = r.data
           /\ \A k : Has(k) => Has(k)'
<1>1. cache = [k \in Keys |-> cache[k]]
  BY DEF ConsoleInv, ConsoleShape
<1>2. r.data # None /\ cache' = IF r.by = "query" THEN [cache EXCEPT ![r.key] = r.data] ELSE cache
  BY DEF ReadAnswered
<1>3. cache' = [k \in Keys |-> cache'[k]]
      /\ \A k \in Keys : \/ cache'[k] = cache[k]
                         \/ r.by = "query" /\ r.key = k /\ cache'[k] = r.data
  BY <1>1, <1>2
<1>4. Keys' = Keys
  BY DEF ReadAnswered, Keys
<1> QED BY <1>2, <1>3, <1>4 DEF Has

LEMMA AnswerView ==
    ASSUME ConsoleInv, NEW r \in reads, ReadAnswered(r)
    PROVE  /\ view' = [fees |-> view'.fees, modal |-> view'.modal, sheet |-> view'.sheet]
           /\ view'.modal = view.modal
           /\ view'.sheet = view.sheet \/ r.by = "sheet"
<1>1. view = [fees |-> view.fees, modal |-> view.modal, sheet |-> view.sheet]
  BY DEF ConsoleInv, ConsoleShape
<1>2. PICK v : v = [view.sheet EXCEPT !.status = r.data[view.sheet.m]]
  OBVIOUS
<1>3. CASE r.by = "sheet"
  <2>1. view' = [view EXCEPT !.sheet = v]
    BY <1>2, <1>3 DEF ReadAnswered
  <2> QED BY <1>1, <1>3, <2>1
<1>4. CASE r.by # "sheet"
  <2>1. PICK f : f = LocalFees(r.data)
    OBVIOUS
  <2>2. view' = [view EXCEPT !.fees = f] \/ view' = view
    BY <1>4, <2>1 DEF ReadAnswered
  <2> QED BY <1>1, <2>2
<1> QED BY <1>3, <1>4

LEMMA ReadAnsweredKeeps ==
    ASSUME ConsoleInv, NEW r \in reads, ReadAnswered(r) PROVE ConsoleInv'
<1>1. UNCHANGED <<srv, page, calls, count, early>> /\ reads' = reads \ {r} /\ Keys' = Keys
  BY DEF ReadAnswered, Keys
<1>2. r.data # None /\ count.visits # 0
  BY DEF ReadAnswered, ConsoleInv, ConsoleShape
<1>3. ConsoleShape'
  BY <1>1, <1>2, AnswerCache, AnswerView DEF ConsoleInv, ConsoleShape
<1>4. ASSUME Smooth' PROVE Quiet'
  <2>1. Smooth /\ Quiet
    BY <1>1, <1>4 DEF Smooth, ConsoleInv
  <2>2. CallsAreOwn'
    BY <2>1, <1>1, AnswerCache DEF Quiet, CallsAreOwn
  <2>3. ViewFits'
    BY <2>1, <1>1, AnswerCache, AnswerView DEF Quiet, ViewFits
  <2>4. \A k \in Keys' : KeyIsRight(k)'
    <3> TAKE k \in Keys'
    <3>1. KeyIsRight(k) /\ Changing(k)' = Changing(k)
      BY <2>1, <1>1 DEF Quiet, Changing
    <3>2. CASE Changing(k)
      BY <3>1, <3>2 DEF KeyIsRight
    <3>3. CASE ~Changing(k)
      <4>1. \A q \in Queries(k) : q.data \in {None, srv[k]}
        BY <3>1, <3>3 DEF KeyIsRight
      <4>2. \A q \in Queries(k)' : q.data \in {None, srv'[k]}
        BY <4>1, <1>1 DEF Queries
      <4>3. CASE r \in Queries(k)
        <5>1. cache'[k] = r.data
          BY <4>3 DEF Queries, ReadAnswered, ConsoleInv, ConsoleShape, Keys
        <5> QED BY <5>1, <4>1, <4>2, <4>3, <1>1, <1>2 DEF KeyIsRight
      <4>4. CASE r \notin Queries(k)
        <5>1. cache'[k] = cache[k]
          BY <4>4, <1>1, AnswerCache DEF Queries
        <5>2. Queries(k)' = Queries(k)
          BY <4>4, <1>1 DEF Queries
        <5> QED BY <5>1, <5>2, <3>1, <1>1, RestartedKeyIsRight
      <4> QED BY <4>3, <4>4
    <3> QED BY <3>2, <3>3
  <2> QED BY <2>2, <2>3, <2>4 DEF Quiet
<1> QED BY <1>3, <1>4 DEF ConsoleInv

LEMMA FaultKeeps ==
    ASSUME ConsoleInv, Spend("faults", MaxFaults), count.visits # 0,
           UNCHANGED <<srv, page, cache, view, early>>,
           \A r \in reads' : IsRead(r), \A c \in calls' : IsCall(c)
    PROVE  ConsoleInv'
<1>1. /\ count' \in [changes : Nat, others : Nat, visits : Nat, faults : Nat]
      /\ count'.faults # 0 /\ count'.visits = count.visits
  BY SpendCounts DEF ConsoleInv
<1>2. ConsoleShape'
  BY <1>1 DEF ConsoleInv, ConsoleShape, Keys
<1>3. ~Smooth'
  BY <1>1 DEF Smooth
<1> QED BY <1>2, <1>3 DEF ConsoleInv

LEMMA ReadFailsKeeps == ASSUME ConsoleInv, NEW r \in reads, ReadFails(r) PROVE ConsoleInv'
<1>1. (\A q \in reads' : IsRead(q)) /\ \A c \in calls' : IsCall(c)
  BY DEF ReadFails, ConsoleInv, ConsoleShape
<1>2. count.visits # 0
  BY DEF ConsoleInv, ConsoleShape
<1> QED BY <1>1, <1>2, FaultKeeps DEF ReadFails

LEMMA CallFailsKeeps == ASSUME ConsoleInv, NEW c \in calls, CallFails(c) PROVE ConsoleInv'
<1>1. PICK d : d = [c EXCEPT !.answer = "failed"]
  OBVIOUS
<1>2. calls' = (calls \ {c}) \cup {d} /\ IsCall(d)
  BY <1>1 DEF CallFails, ConsoleInv, ConsoleShape, IsCall
<1>3. (\A q \in reads' : IsRead(q)) /\ \A e \in calls' : IsCall(e)
  BY <1>2 DEF CallFails, ConsoleInv, ConsoleShape
<1>4. count.visits # 0
  BY DEF ConsoleInv, ConsoleShape
<1> QED BY <1>3, <1>4, FaultKeeps DEF CallFails

\* What the answer to a change does to the requests in flight.
LEMMA AnsweredReads ==
    ASSUME ConsoleInv, NEW c \in calls, CallAnswered(c)
    PROVE  /\ \A r \in reads' : IsRead(r)
           /\ view.sheet # NoSheet \/ \A r \in reads' : r.by = "sheet" => r \in reads
           /\ c.answer = "ok" =>
                \A k : /\ Queries(k)' = Queries(k) \/ Queries(k)' = {NewRead(k, "query")}
                       /\ k \in (c.keys \cap Observed(page)) /\ cache[k] # None
                             => Queries(k)' = {NewRead(k, "query")}
<1>1. \A r \in reads : IsRead(r)
  BY DEF ConsoleInv, ConsoleShape
<1>2. CASE c.answer # "ok"
  BY <1>1, <1>2 DEF CallAnswered
<1>3. CASE c.answer = "ok"
  <2>1. PICK now : now = (c.keys \cap Observed(page)) \cup c.again
    OBVIOUS
  <2>2. PICK sheet : sheet = IF c.op = "status" /\ view.sheet # NoSheet
                             THEN {NewRead("merchants", "sheet")} ELSE {}
    OBVIOUS
  <2>3. PICK others : others = IF sheet = {} THEN reads ELSE {r \in reads : r.by # "sheet"}
    OBVIOUS
  <2>4. reads' = Restarted(now, others) \cup sheet
    BY <1>3, <2>1, <2>2, <2>3 DEF CallAnswered, Invalidate
  <2>5. \A r \in sheet : IsRead(r) /\ r.by = "sheet" /\ view.sheet # NoSheet
    BY <2>2 DEF IsRead, NewRead
  <2>6. {r \in others : r.by = "query"} = {r \in reads : r.by = "query"} /\ others \subseteq reads
    BY <2>3
  <2>7. \A r \in reads' : \/ r \in reads \/ (IsRead(r) /\ r.by = "query") \/ r \in sheet
    BY <2>4, <2>6, RestartedReads
  <2>8. \A k : /\ Queries(k)' = Queries(k) \/ Queries(k)' = {NewRead(k, "query")}
               /\ k \in now /\ cache[k] # None => Queries(k)' = {NewRead(k, "query")}
    BY <2>4, <2>5, <2>6, RestartedQueries
  <2> QED BY <1>1, <1>3, <2>1, <2>5, <2>7, <2>8
<1> QED BY <1>2, <1>3

LEMMA CallAnsweredKeeps ==
    ASSUME ConsoleInv, NEW c \in calls, CallAnswered(c) PROVE ConsoleInv'
<1>1. UNCHANGED <<srv, page, cache, count, early>> /\ calls' = calls \ {c} /\ Keys' = Keys
  BY DEF CallAnswered, Keys
<1>2. /\ view' = [fees |-> view'.fees, modal |-> view'.modal, sheet |-> view'.sheet]
      /\ view'.sheet = view.sheet /\ (view'.modal => view.modal)
  BY DEF CallAnswered, ConsoleInv, ConsoleShape
<1>3. ConsoleShape'
  <2>1. count.visits # 0
    BY DEF ConsoleInv, ConsoleShape
  <2> QED BY <2>1, <1>1, <1>2, AnsweredReads DEF ConsoleInv, ConsoleShape
<1>4. ASSUME Smooth' PROVE Quiet'
  <2>1. Smooth /\ Quiet
    BY <1>1, <1>4 DEF Smooth, ConsoleInv
  <2>2. CallsAreOwn'
    BY <2>1, <1>1 DEF Quiet, CallsAreOwn, Has
  <2>3. ViewFits'
    BY <2>1, <1>1, <1>2, AnsweredReads DEF Quiet, ViewFits, Has
  <2>4. c.answer = "ok" /\ c.op \in DOMAIN Subject /\ c.keys = {Subject[c.op]} /\ Has(Subject[c.op])
    BY <2>1 DEF Quiet, CallsAreOwn, CallAnswered
  <2>5. Observed(page) = Keys
    BY <2>1 DEF Smooth, Observed
  <2>6. \A k \in Keys' : KeyIsRight(k)'
    <3> TAKE k \in Keys'
    <3>1. KeyIsRight(k) /\ k \in Keys
      BY <2>1, <1>1 DEF Quiet
    <3>2. Queries(k)' = Queries(k) \/ Queries(k)' = {NewRead(k, "query")}
      BY <2>4, AnsweredReads
    <3>3. k \in c.keys => Queries(k)' = {NewRead(k, "query")}
      BY <3>1, <2>4, <2>5, AnsweredReads DEF Has
    <3>4. Changing(k) => Changing(k)' \/ k \in c.keys
      BY <1>1 DEF Changing
    <3> QED BY <3>1, <3>2, <3>3, <3>4, <1>1, RestartedKeyIsRight
  <2> QED BY <2>2, <2>3, <2>6 DEF Quiet
<1> QED BY <1>3, <1>4 DEF ConsoleInv

-----------------------------------------------------------------------------
(* The theorems.                                                           *)

LEMMA InitConsole == Init => ConsoleInv
<1> SUFFICES ASSUME Init PROVE ConsoleInv
  OBVIOUS
<1>1. PICK scope \in Scopes : srv = [k \in scope |-> Start[k]]
  BY DEF Init
<1>2. srv = [k \in Keys |-> srv[k]]
  BY <1>1 DEF Keys
<1>3. view = [fees |-> view.fees, modal |-> view.modal, sheet |-> view.sheet]
      /\ view.sheet = NoSheet
  BY DEF Init, BlankView
<1>4. ~Smooth
  BY DEF Init, Smooth
<1> QED BY <1>2, <1>3, <1>4 DEF Init, ConsoleInv, ConsoleShape, Keys

LEMMA WorkKeeps == ASSUME ConsoleInv, Work PROVE ConsoleInv'
<1>1. CASE Poll \/ HandleRefreshAll \/ FetchMerchants
  BY <1>1, PollKeeps, RefreshKeeps, FetchKeeps
<1>2. CASE \E k \in Keys : Focus(k)
  BY <1>2, FocusKeeps
<1>3. ASSUME NEW r \in reads, ServeRead(r) \/ ReadAnswered(r) \/ ReadFails(r) PROVE ConsoleInv'
  BY <1>3, ServeReadKeeps, ReadAnsweredKeeps, ReadFailsKeeps
<1>4. ASSUME NEW c \in calls, ServeCall(c) \/ CallAnswered(c) \/ CallFails(c) PROVE ConsoleInv'
  BY <1>4, ServeCallKeeps, CallAnsweredKeeps, CallFailsKeeps
<1>5. CASE \E m \in Merchants, s \in Status : Elsewhere(m, s)
  BY <1>5, ElsewhereKeeps
<1> QED BY <1>1, <1>2, <1>3, <1>4, <1>5 DEF Work

LEMMA AdministratorKeeps == ASSUME ConsoleInv, Administrator PROVE ConsoleInv'
<1>1. CASE HandleLogin \/ HandleLogout \/ \E p \in Pages : Navigate(p)
  BY <1>1, LoginKeeps, LogoutKeeps, NavigateKeeps
<1>2. CASE \E m \in Merchants, s \in Status : MutateStatus(m, s) \/ UpdateStatus(m, s)
  BY <1>2, MutateKeeps, DeskKeeps
<1>3. CASE (\E m \in Merchants : OpenSheet(m)) \/ CloseSheet \/ \E s \in Status : ApplyStatus(s)
  BY <1>3, OpenSheetKeeps, CloseSheetKeeps, ApplyKeeps
<1>4. CASE \/ \E f \in Fees : TypeFees(f)
           \/ SaveFees
           \/ \E s \in Switches : ToggleSetting(s)
  BY <1>4, TypeKeeps, SaveKeeps, ToggleKeeps
<1>5. CASE OpenModal \/ ForceRefund \/ ApprovePayout \/ \E v \in Verdicts : HandleResolve(v)
  BY <1>5, ModalKeeps, RefundKeeps, ApproveKeeps, ResolveKeeps
<1> QED BY <1>1, <1>2, <1>3, <1>4, <1>5 DEF Administrator

LEMMA ConsoleStutters == ASSUME ConsoleInv, UNCHANGED vars PROVE ConsoleInv'
<1>1. view' = [fees |-> view'.fees, modal |-> view'.modal, sheet |-> view'.sheet]
      /\ \A r \in reads' : IsRead(r)
  BY DEF vars, ConsoleInv, ConsoleShape
<1>2. /\ count.visits = 0 => reads' = {} /\ view'.sheet = NoSheet
      /\ \A r : r.by = "query" => (r \in reads' <=> r \in reads)
  BY DEF vars, ConsoleInv, ConsoleShape
<1>3. Smooth => ViewFits'
  BY DEF vars, ConsoleInv, Quiet, ViewFits, Has, Keys
<1> QED BY <1>1, <1>2, <1>3, ViewKeeps DEF vars

\* In every reachable state the inductive invariant of the administrator's
\* console holds: hooks/useAdmin.ts refetches a key after each change of it
\* that the dashboard made (the onSuccess handlers at useAdmin.ts:126, 203, 222,
\* 267 and 292).
THEOREM ConsoleInvariant == Spec => []ConsoleInv
<1>1. Init => ConsoleInv
  BY InitConsole
<1>2. ConsoleInv /\ [Next]_vars => ConsoleInv'
  BY WorkKeeps, AdministratorKeeps, ConsoleStutters DEF Next
<1> QED BY <1>1, <1>2, PTL DEF Spec

\* QuietPageIsRight, for any merchants, switches, fees, query keys and bounds:
\* the invalidation in those handlers leaves a dashboard at rest showing what
\* the back end holds, in whatever order the answers come.
THEOREM QuietPagesAreRight == Spec => []QuietPageIsRight
<1>1. ConsoleInv => QuietPageIsRight
  <2> SUFFICES ASSUME ConsoleInv, page = "dashboard", reads = {}, calls = {}, ~early,
                      count.visits = 1, count.faults = 0, count.others = 0
               PROVE  cache = srv
    BY DEF QuietPageIsRight
  <2>1. \A k \in Keys : KeyIsRight(k)
    BY DEF ConsoleInv, Smooth, Quiet
  <2>2. \A k \in Keys : cache[k] = srv[k]
    BY <2>1 DEF KeyIsRight, Changing, Queries
  <2> QED BY <2>2 DEF ConsoleInv, ConsoleShape
<1> QED BY <1>1, ConsoleInvariant, PTL
=============================================================================
