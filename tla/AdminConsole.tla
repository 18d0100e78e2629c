---------------------------- MODULE AdminConsole ----------------------------
(***************************************************************************)
(* The administrator's console in one browser tab: the dashboard and the   *)
(* operations page, which share the query cache of hooks/useAdmin.ts, and  *)
(* the compliance page, which keeps a list of its own, polls it and edits  *)
(* it before the back end's next answer.  Of the back end, the rows these  *)
(* pages change.  A payment, a dispute and a settlement batch stand for    *)
(* all; the read-only figures (metrics, activity, health, fraud alerts)    *)
(* are loaded like "merchants" and decide nothing.                         *)
(***************************************************************************)
EXTENDS Naturals, FiniteSets

CONSTANTS
    Merchants,
    Switches,       \* the platform switches
    Fees,           \* fee tables an administrator may type
    DefaultFees,    \* what the form shows before the settings arrive
    Scopes,         \* query keys that a behaviour follows: keys touch no other key's data
    MaxChanges,     \* bound: changes and refreshes asked for in the console
    MaxOthers,      \* bound: changes of merchants made elsewhere
    MaxVisits,      \* bound: pages opened
    MaxReads,       \* bound: list requests of the compliance page in flight
    MaxFaults,      \* bound: requests that fail or whose answer is lost
    None

ASSUME ConsoleAssumption ==
    /\ {MaxChanges, MaxOthers, MaxVisits, MaxReads, MaxFaults} \subseteq Nat
    /\ DefaultFees \in Fees /\ None \notin Merchants \cup Fees

VARIABLES
    srv,        \* back end: the data behind every query key followed
    page,       \* the page shown
    cache,      \* the query client's data, None before the first answer
    stale,      \* keys invalidated while no page shown asks for them
    own,        \* the compliance page: its list, and the row it marks as busy
    view,       \* the dashboard's typed fees, open dispute and detail sheet
    reads,      \* list requests in flight
    calls,      \* changes in flight
    count,      \* how often each bounded thing has happened
    early       \* history: fees were saved before the settings had arrived

vars == <<srv, page, cache, stale, own, view, reads, calls, count, early>>

Status == {"pending", "approved", "active", "suspended"}
Verdicts == {"won", "lost", "closed"}
Data == [settings    |-> [fee : Fees, on : SUBSET Switches],
         merchants   |-> [Merchants -> Status],
         disputes    |-> {"open"} \cup Verdicts,
         risk        |-> {"success", "refunded"},
         settlements |-> [settled : BOOLEAN, utr : 0..MaxChanges]]
Keys == DOMAIN srv
Has(k) == k \in Keys /\ cache[k] # None
Pages == {"login", "dashboard", "operations", "compliance"}

\* Which queries a page mounts, and which of them carry a refetchInterval.
Observed(p) == CASE p = "dashboard" -> Keys
                 [] p = "operations" -> Keys \cap {"settings", "merchants"}
                 [] OTHER -> {}
Polled == {"merchants"}

BlankOwn == [list |-> None, updating |-> None]
NoSheet == [m |-> None, status |-> None]
BlankView == [fees |-> DefaultFees, modal |-> FALSE, sheet |-> NoSheet]

Start == [settings |-> [fee |-> CHOOSE f \in Fees : f # DefaultFees, on |-> Switches],
          merchants |-> [m \in Merchants |-> "pending"],
          disputes |-> "open",
          risk |-> "success",
          settlements |-> [settled |-> FALSE, utr |-> 0]]

Init ==
    /\ \E scope \in Scopes : srv = [k \in scope |-> Start[k]]
    /\ page = "login"
    /\ cache = [k \in Keys |-> None]
    /\ stale = {}
    /\ own = BlankOwn
    /\ view = BlankView
    /\ reads = {}
    /\ calls = {}
    /\ count = [changes |-> 0, others |-> 0, visits |-> 0, faults |-> 0]
    /\ early = FALSE

Spend(what, limit) == count[what] < limit /\ count' = [count EXCEPT ![what] = @ + 1]

-----------------------------------------------------------------------------
(* The query client.  A key has one request in flight; starting it again   *)
(* drops the one under way once the key has data.                          *)

NewRead(k, by) == [key |-> k, by |-> by, data |-> None]
Loading(k) == \E r \in reads : r.key = k /\ r.by = "query"
Restarted(ks, rs) ==
    LET again == {k \in ks : cache[k] # None \/ ~Loading(k)}
    IN  {r \in rs : ~(r.by = "query" /\ r.key \in again)} \cup {NewRead(k, "query") : k \in again}

\* The interval of a polled query, and the refetch of data a minute old when
\* the window gets the focus or a page mounts.
Poll == \E k \in Observed(page) \cap Polled :
    /\ ~Loading(k)
    /\ reads' = Restarted({k}, reads)
    /\ UNCHANGED <<srv, page, cache, stale, own, view, calls, count, early>>

Focus(k) ==
    /\ k \in Observed(page) /\ ~Loading(k)
    /\ reads' = Restarted({k}, reads)
    /\ UNCHANGED <<srv, page, cache, stale, own, view, calls, count, early>>

HandleRefreshAll ==
    /\ page = "dashboard"
    /\ Spend("changes", MaxChanges)
    /\ reads' = Restarted(Keys, reads)
    /\ UNCHANGED <<srv, page, cache, stale, own, view, calls, early>>

\* The typed fees are overwritten whenever the settings arrive changed.
LocalFees(settings) ==
    IF settings # cache.settings /\ page = "dashboard" THEN settings.fee ELSE view.fees

-----------------------------------------------------------------------------
(* Signing in, and moving between the pages: what a page keeps for itself  *)
(* starts afresh, the cache stays.                                         *)

Enter(p) ==
    /\ page' = p
    /\ own' = BlankOwn
    /\ view' = [BlankView EXCEPT !.fees =
                   IF p = "dashboard" /\ Has("settings") THEN cache.settings.fee ELSE DefaultFees]
    /\ calls' = {[c EXCEPT !.latest = FALSE, !.here = FALSE] : c \in calls}
    /\ LET missing == {k \in Observed(p) : cache[k] = None \/ k \in stale}
           left == {r \in reads : r.by = "query"}
       IN  reads' = IF p = "compliance" THEN left \cup {NewRead("merchants", "page")}
                    ELSE Restarted({k \in missing : ~Loading(k)}, left)

HandleLogin ==
    /\ page = "login"
    /\ Spend("visits", MaxVisits)
    /\ Enter("dashboard")
    /\ UNCHANGED <<srv, cache, stale, early>>

Navigate(p) ==
    /\ page # "login" /\ p \notin {page, "login"}
    /\ p = "compliance" => "merchants" \in Keys
    /\ Spend("visits", MaxVisits)
    /\ Enter(p)
    /\ UNCHANGED <<srv, cache, stale, early>>

HandleLogout ==
    /\ page = "dashboard"
    /\ Enter("login")
    /\ UNCHANGED <<srv, cache, stale, count, early>>

-----------------------------------------------------------------------------
(* Changes.  "keys" is what the hook invalidates when one succeeds,        *)
(* "again" what the handler refetches itself; "here" says that the page    *)
(* that asked is still mounted, "latest" that its hook calls it pending.   *)

Ask(op, arg, keys, again) ==
    /\ Spend("changes", MaxChanges)
    /\ calls' = {IF c.op = op THEN [c EXCEPT !.latest = FALSE] ELSE c : c \in calls} \cup
                {[op |-> op, arg |-> arg, keys |-> keys, again |-> again, here |-> TRUE,
                  latest |-> TRUE, answer |-> "sent", n |-> count.changes]}
    /\ UNCHANGED <<srv, page, cache, stale, reads>>

IsPending(op) == \E c \in calls : c.op = op /\ c.latest

\* Buttons of the merchant lists: they look at the list, not at calls in flight.
NextStatus(s) == CASE s = "pending" -> {"approved", "suspended"}
                   [] s \in {"active", "approved"} -> {"suspended"}
                   [] s = "suspended" -> {"active"}

MutateStatus(m, s) ==
    /\ page \in {"dashboard", "operations"} /\ Has("merchants")
    /\ IF page = "dashboard" THEN s \in NextStatus(cache.merchants[m])
       ELSE cache.merchants[m] = "pending" /\ s \in {"approved", "suspended"}
    /\ Ask("status", [m |-> m, s |-> s], {"merchants"}, {"merchants"})
    /\ UNCHANGED <<own, view, early>>

\* The detail sheet loads its merchant; it also offers to approve one whose
\* documents, which are not modelled, are under review.
OpenSheet(m) ==
    /\ page \in {"dashboard", "operations"} /\ Has("merchants")
    /\ page = "operations" => cache.merchants[m] = "pending"
    /\ view.sheet = NoSheet
    /\ view' = [view EXCEPT !.sheet.m = m]
    /\ reads' = reads \cup {NewRead("merchants", "sheet")}
    /\ UNCHANGED <<srv, page, cache, stale, own, calls, count, early>>

CloseSheet ==
    /\ view.sheet # NoSheet
    /\ view' = [view EXCEPT !.sheet = NoSheet]
    /\ reads' = {r \in reads : r.by # "sheet"}
    /\ UNCHANGED <<srv, page, cache, stale, own, calls, count, early>>

ApplyStatus(s) ==
    /\ view.sheet.status # None
    /\ s \in NextStatus(view.sheet.status) \cup {"approved", "suspended"}
    /\ Ask("status", [m |-> view.sheet.m, s |-> s], {"merchants"}, {"merchants"})
    /\ UNCHANGED <<own, view, early>>

TypeFees(f) ==
    /\ page = "dashboard" /\ "settings" \in Keys /\ view.fees # f
    /\ view' = [view EXCEPT !.fees = f]
    /\ UNCHANGED <<srv, page, cache, stale, own, reads, calls, count, early>>

SaveFees ==
    /\ page = "dashboard" /\ "settings" \in Keys /\ ~IsPending("settings")
    /\ Ask("settings", [fee |-> view.fees, about |-> None, on |-> {}], {"settings"}, {})
    /\ early' = (early \/ ~Has("settings"))
    /\ UNCHANGED <<own, view>>

\* A switch sends the opposite of what the page shows, and only itself.
ToggleSetting(s) ==
    /\ page \in {"dashboard", "operations"} /\ Has("settings")
    /\ Ask("settings", [fee |-> None, about |-> s, on |-> {s} \ cache.settings.on],
           {"settings"}, IF page = "operations" THEN {"settings"} ELSE {})
    /\ UNCHANGED <<own, view, early>>

OpenModal ==
    /\ page = "dashboard" /\ Has("disputes") /\ (view.modal \/ cache.disputes = "open")
    /\ view' = [view EXCEPT !.modal = ~@]
    /\ UNCHANGED <<srv, page, cache, stale, own, reads, calls, count, early>>

HandleResolve(verdict) ==
    /\ page = "dashboard" /\ view.modal
    /\ Ask("resolve", verdict, {"disputes"}, {"disputes"})
    /\ UNCHANGED <<own, view, early>>

ForceRefund ==
    /\ page = "dashboard" /\ Has("risk") /\ ~IsPending("refund")
    /\ cache.risk = "success"
    /\ Ask("refund", None, {"risk"}, {})
    /\ UNCHANGED <<own, view, early>>

ApprovePayout ==
    /\ page = "dashboard" /\ Has("settlements")
    /\ ~cache.settlements.settled
    /\ Ask("approve", None, {"settlements"}, {})
    /\ UNCHANGED <<own, view, early>>

-----------------------------------------------------------------------------
(* The compliance page.                                                    *)

OwnReads == {r \in reads : r.by = "page"}

\* Mutant: the list is loaded once.
FetchMerchants_Once ==
    /\ page = "compliance" /\ own.list = None /\ Cardinality(OwnReads) < MaxReads
    /\ reads' = reads \cup {NewRead("merchants", "page")}
    /\ UNCHANGED <<srv, page, cache, stale, own, view, calls, count, early>>

\* The half-minute timer, and the button that does the same.
FetchMerchants ==
    /\ page = "compliance" /\ Cardinality(OwnReads) < MaxReads
    /\ reads' = reads \cup {NewRead("merchants", "page")}
    /\ UNCHANGED <<srv, page, cache, stale, own, view, calls, count, early>>

UpdateStatus(m, s) ==
    /\ page = "compliance" /\ own.list # None
    /\ own.updating # m
    /\ s \in (CASE own.list[m] = "pending" -> {"approved", "suspended"}
                [] own.list[m] = "suspended" -> {"pending"}
                [] OTHER -> {"suspended", "pending"})
    /\ Ask("desk", [m |-> m, s |-> s], {}, {})
    /\ own' = [own EXCEPT !.updating = m]
    /\ UNCHANGED <<view, early>>

-----------------------------------------------------------------------------
(* The back end.                                                           *)

\* The handler binds a missing switch as FALSE and writes every switch.
UpdateSettings(s, arg) == [fee |-> IF arg.fee = None THEN s.fee ELSE arg.fee, on |-> arg.on]

ServeCall(c) ==
    /\ c.answer = "sent"
    /\ calls' = (calls \ {c}) \cup {[c EXCEPT !.answer = "ok"]}
    /\ srv' = CASE c.op = "settings" -> [srv EXCEPT !.settings = UpdateSettings(@, c.arg)]
                [] c.op \in {"status", "desk"} -> [srv EXCEPT !.merchants[c.arg.m] = c.arg.s]
                [] c.op = "resolve" -> [srv EXCEPT !.disputes = c.arg]
                [] c.op = "refund" -> [srv EXCEPT !.risk = "refunded"]
                [] c.op = "approve" ->
                       [srv EXCEPT !.settlements = [settled |-> TRUE, utr |-> @.utr + 1]]
    /\ UNCHANGED <<page, cache, stale, own, view, reads, count, early>>

\* Documents handed in, or another administrator.
Elsewhere(m, s) ==
    /\ "merchants" \in Keys /\ srv.merchants[m] # s
    /\ Spend("others", MaxOthers)
    /\ srv' = [srv EXCEPT !.merchants[m] = s]
    /\ UNCHANGED <<page, cache, stale, own, view, reads, calls, early>>

ServeRead(r) ==
    /\ r.data = None
    /\ reads' = (reads \ {r}) \cup {[r EXCEPT !.data = srv[r.key]]}
    /\ UNCHANGED <<srv, page, cache, stale, own, view, calls, count, early>>

-----------------------------------------------------------------------------
(* Answers.                                                                *)

ReadAnswered(r) ==
    /\ r.data # None
    /\ reads' = reads \ {r}
    /\ own' = IF r.by = "page" THEN [own EXCEPT !.list = r.data] ELSE own
    /\ cache' = IF r.by = "query" THEN [cache EXCEPT ![r.key] = r.data] ELSE cache
    /\ stale' = IF r.by = "query" THEN stale \ {r.key} ELSE stale
    /\ view' = IF r.by = "sheet" THEN [view EXCEPT !.sheet.status = r.data[view.sheet.m]]
               ELSE IF r.key = "settings" THEN [view EXCEPT !.fees = LocalFees(r.data)]
               ELSE view
    /\ UNCHANGED <<srv, page, calls, count, early>>

ReadFails(r) ==
    /\ Spend("faults", MaxFaults)
    /\ reads' = reads \ {r}
    /\ UNCHANGED <<srv, page, cache, stale, own, view, calls, early>>

\* A request lost on its way changes nothing, a lost answer hides a change.
CallFails(c) ==
    /\ c.answer # "failed"
    /\ Spend("faults", MaxFaults)
    /\ calls' = (calls \ {c}) \cup {[c EXCEPT !.answer = "failed"]}
    /\ UNCHANGED <<srv, page, cache, stale, own, view, reads, early>>

\* Mutant: a change of the settings invalidates no query.
Invalidate_NotSettings(c) ==
    LET now == ((c.keys \ {"settings"}) \cap Observed(page)) \cup c.again
        sheet == IF c.op = "status" /\ view.sheet # NoSheet
                 THEN {NewRead("merchants", "sheet")} ELSE {}
        others == IF sheet = {} THEN reads ELSE {r \in reads : r.by # "sheet"}
    IN  reads' = Restarted(now, others) \cup sheet /\ stale' = stale \cup (c.keys \ {"settings"})

\* Success invalidates: what is shown is asked for again, the rest marked.
Invalidate(c) ==
    LET now == (c.keys \cap Observed(page)) \cup c.again
        sheet == IF c.op = "status" /\ view.sheet # NoSheet
                 THEN {NewRead("merchants", "sheet")} ELSE {}
        others == IF sheet = {} THEN reads ELSE {r \in reads : r.by # "sheet"}
    IN  reads' = Restarted(now, others) \cup sheet /\ stale' = stale \cup (c.keys \ now)

\* The desk patches its row itself, and frees whichever row is marked busy.
DeskAnswered(c) ==
    IF ~c.here THEN own' = own
    ELSE own' = [updating |-> None,
                 list |-> IF c.answer = "ok" /\ own.list # None
                          THEN [own.list EXCEPT ![c.arg.m] = c.arg.s] ELSE own.list]

CallAnswered(c) ==
    /\ c.answer # "sent"
    /\ calls' = calls \ {c}
    /\ IF c.answer = "ok" THEN Invalidate(c) ELSE UNCHANGED <<reads, stale>>
    /\ IF c.op = "desk" THEN DeskAnswered(c) ELSE UNCHANGED own
    /\ view' = IF c.op = "resolve" /\ c.answer = "ok" /\ c.here THEN [view EXCEPT !.modal = FALSE] ELSE view
    /\ UNCHANGED <<srv, page, cache, count, early>>

-----------------------------------------------------------------------------
Work ==
    \/ Poll \/ HandleRefreshAll \/ FetchMerchants
    \/ \E k \in Keys : Focus(k)
    \/ \E r \in reads : ServeRead(r) \/ ReadAnswered(r) \/ ReadFails(r)
    \/ \E c \in calls : ServeCall(c) \/ CallAnswered(c) \/ CallFails(c)
    \/ \E m \in Merchants, s \in Status : Elsewhere(m, s)

Administrator ==
    \/ HandleLogin \/ HandleLogout
    \/ \E p \in Pages : Navigate(p)
    \/ \E m \in Merchants, s \in Status : MutateStatus(m, s) \/ UpdateStatus(m, s)
    \/ \E m \in Merchants : OpenSheet(m)
    \/ CloseSheet
    \/ \E s \in Status : ApplyStatus(s)
    \/ \E f \in Fees : TypeFees(f)
    \/ SaveFees
    \/ \E s \in Switches : ToggleSetting(s)
    \/ OpenModal \/ ForceRefund \/ ApprovePayout
    \/ \E v \in Verdicts : HandleResolve(v)

Next == Work \/ Administrator

\* The timers of an open page tick and the back end answers; nobody has to
\* press anything.
Fairness ==
    /\ WF_vars(Poll) /\ WF_vars(FetchMerchants)
    /\ \A by \in {"query", "page"}, data \in Data.merchants \cup {None} :
           LET r == [key |-> "merchants", by |-> by, data |-> data]
           IN  WF_vars(r \in reads /\ (ServeRead(r) \/ ReadAnswered(r)))
    /\ WF_vars(\E c \in calls : ServeCall(c) \/ CallAnswered(c))

Spec == Init /\ [][Next]_vars /\ Fairness

-----------------------------------------------------------------------------
Ops == {"status", "desk", "settings", "resolve", "refund", "approve"}

\* Every variable keeps to the data the pages and the back end know.
TypeOK ==
    /\ \A k \in Keys : srv[k] \in Data[k]
    /\ page \in Pages
    /\ DOMAIN cache = Keys /\ \A k \in Keys : cache[k] = None \/ cache[k] \in Data[k]
    /\ stale \subseteq Keys
    /\ (own.list = None \/ own.list \in Data.merchants) /\ own.updating \in Merchants \cup {None}
    /\ view.fees \in Fees /\ view.modal \in BOOLEAN
    /\ view.sheet \in [m : Merchants \cup {None}, status : Status \cup {None}]
    /\ \A r \in reads : /\ r.key \in Keys /\ r.by \in {"query", "page", "sheet"}
                        /\ r.data = None \/ r.data \in Data[r.key]
    /\ \A c \in calls : c.op \in Ops /\ c.keys \cup c.again \subseteq Keys

\* "Fraud Score Blocking turned ON" says that nothing else was turned: a
\* platform switch goes off only by a call about that switch.
SwitchesKept ==
    [][\A s \in Switches : "settings" \in Keys /\ s \in srv.settings.on \ srv'.settings.on
          => \E c \in calls : c.op = "settings" /\ c.arg.about = s]_vars

\* While the administrator stays on the dashboard, requests do not fail and
\* nobody else works, and once the settings have arrived before fees are
\* saved, a page at rest shows what the back end holds: every
\* change is followed by a read that began after it, however the answers of
\* earlier reads are delayed.
QuietPageIsRight ==
    page = "dashboard" /\ reads = {} /\ calls = {}
        /\ ~early /\ count.visits = 1 /\ count.faults = 0 /\ count.others = 0
    => cache = srv

\* The list of merchants is polled: on each page that shows it, it comes to
\* agree with the back end, whatever failed, whoever changed it, and though
\* on the compliance page a late answer undoes the row just edited.
Listed == IF page = "compliance" THEN own.list ELSE cache.merchants
MerchantsCatchUp == <>[](page # "login" /\ "merchants" \in Keys => Listed = srv.merchants)

=============================================================================
