--------------------------- MODULE MerchantSession ---------------------------
(***************************************************************************)
(* The signed-in merchant in the browser, seen from one tab.  The tabs of  *)
(* a browser share the token in localStorage; a tab keeps its own copy of  *)
(* the merchant's profile (the zustand store) and learns of the other tabs *)
(* and of the server only through the answers to its calls.  The HTTP      *)
(* client removes the token and reloads the tab on every refusal,          *)
(* whichever token was refused.  Of the other tabs what they do to the     *)
(* token is modelled, of the back end the part that these calls reach.     *)
(* None is no token, no profile, no account.                               *)
(***************************************************************************)
EXTENDS ConsoleBounds

CONSTANTS
    Merchants,      \* accounts used in it
    MaxVersion,     \* bound: times the sessions of an account are ended
    MaxCalls,       \* bound: calls in flight
    MaxFaults       \* bound: calls that fail for another reason

ASSUME SessionAssumption ==
    /\ MaxVersion \in Nat /\ MaxCalls \in Nat /\ MaxFaults \in Nat
    /\ None \notin Merchants

VARIABLES
    account,    \* back end: status, KYC status and session version of an account
    storage,    \* localStorage.authToken
    tab,        \* what the tab holds in memory
    calls,      \* the calls the tab waits for
    faults,     \* how many calls have failed
    cleared     \* history: accounts an administrator has let in

vars == <<account, storage, tab, calls, faults, cleared>>

Status == {"none", "pending", "active", "suspended"}   \* "approved" is treated like "active"
Kyc == {"pending", "under_review", "verified"}
Account == [status : Status, kyc : Kyc, version : 0..MaxVersion]
Token == [m : Merchants, v : 0..MaxVersion]
Profile == [m : Merchants, status : Status, kyc : Kyc]
Wall == [signed : BOOLEAN, done : BOOLEAN]
Tab == [page : {"login", "dashboard"}, user : Profile \cup {None}, hydrated : BOOLEAN,
        code : Merchants \cup {None}, wall : Wall]

\* A call: its purpose, the account of a form, the token it carries, and
\* the answer with the token or the profile in it.  "me" calls are told
\* apart by who waits for them.
Call == [op : {"login", "code", "register", "signin me", "layout me", "poll me", "page", "kyc"},
         m : Merchants \cup {None}, auth : Token \cup {None},
         answer : {"sent", "ok", "code wanted", "unauthorized", "inactive", "failed"},
         token : Token \cup {None}, user : Profile \cup {None}]

ASSUME NoneAssumption == None \notin Token /\ None \notin Profile

FormOps == {"login", "code", "register"}
MeOps == {"signin me", "layout me", "poll me"}

BlankWall == [signed |-> FALSE, done |-> FALSE]
FreshTab(page) == [page |-> page, user |-> None, hydrated |-> FALSE, code |-> None, wall |-> BlankWall]

Busy(ops) == \E c \in calls : c.op \in ops
Room == Cardinality(calls) < MaxCalls

\* The request interceptor: a call carries what localStorage holds when it is made.
NewCall(op, m, token) ==
    [op |-> op, m |-> m, auth |-> token, answer |-> "sent", token |-> None, user |-> None]

Init ==
    /\ account \in [Merchants -> {[status |-> "none", kyc |-> "pending", version |-> 0],
                                  [status |-> "active", kyc |-> "verified", version |-> 0]}]
    /\ storage = None
    /\ tab = FreshTab("login")
    /\ calls = {}
    /\ faults = 0
    /\ cleared = {m \in Merchants : account[m].status = "active"}

-----------------------------------------------------------------------------
(* What is shown: the layout of the dashboard and the KYC wall.            *)

\* Mutant: documents under review let a merchant in.
Walled_NotInReview(u) == u # None /\ (u.status = "pending" \/ u.kyc = "pending")

Walled(u) == u # None /\ (u.status = "pending" \/ u.kyc = "pending" \/ u.kyc = "under_review")
OnWall(s) == s.page = "dashboard" /\ s.hydrated /\ Walled(s.user)
OnContent(s) == s.page = "dashboard" /\ s.hydrated /\ ~Walled(s.user)

\* The layout's effect runs when it mounts and when the profile changes:
\* without a token it leaves for the login page; with a profile it shows
\* the pages below it; otherwise it waits for the profile.
LayoutEffect(s, token) ==
    IF s.page = "dashboard" /\ token = None
    THEN [s EXCEPT !.page = "login", !.hydrated = FALSE]
    ELSE [s EXCEPT !.hydrated = @ \/ (s.page = "dashboard" /\ s.user # None)]

\* The wall forgets its inputs when it is unmounted, and takes over what
\* the profile says of documents handed in earlier.
WallEffect(s) ==
    IF OnWall(s) THEN [s EXCEPT !.wall.done = @ \/ s.user.kyc \in {"under_review", "verified"}]
    ELSE [s EXCEPT !.wall = BlankWall]

Shown(s, token) == WallEffect(LayoutEffect(s, token))

\* The dashboard is loaded afresh: the memory is empty, the calls are gone.
OpenDashboard ==
    /\ Room
    /\ tab' = Shown(FreshTab("dashboard"), storage)
    /\ calls' = IF storage = None THEN {} ELSE {NewCall("layout me", None, storage)}
    /\ UNCHANGED <<account, storage, faults, cleared>>

\* A page below the layout reads its data: a route for active merchants.
ReadPage ==
    /\ OnContent(tab)
    /\ ~Busy({"page"}) /\ Room
    /\ calls' = calls \cup {NewCall("page", None, storage)}
    /\ UNCHANGED <<account, storage, tab, faults, cleared>>

\* Both sign-out buttons: the store is emptied, the token removed, and the
\* layout's effect leaves the dashboard.  Calls in flight go on.
Logout ==
    /\ OnContent(tab) \/ (OnWall(tab) /\ tab.wall.done)
    /\ storage' = None
    /\ tab' = Shown([tab EXCEPT !.user = None], None)
    /\ UNCHANGED <<account, calls, faults, cleared>>

-----------------------------------------------------------------------------
(* The login page, with its two-factor form, and the sign-up page.         *)

FormReady ==
    /\ tab.page = "login"
    /\ ~Busy(FormOps \cup {"signin me"})
    /\ Room

Submit(op, m) == 
    /\ calls' = calls \cup {NewCall(op, m, storage)}
    /\ UNCHANGED <<account, storage, faults, cleared>>

Login(m) ==
    /\ FormReady /\ tab.code = None
    /\ Submit("login", m) /\ UNCHANGED tab

Verify2FA ==
    /\ FormReady /\ tab.code # None
    /\ Submit("code", tab.code) /\ UNCHANGED tab

BackToLogin ==
    /\ FormReady /\ tab.code # None
    /\ tab' = [tab EXCEPT !.code = None]
    /\ UNCHANGED <<account, storage, calls, faults, cleared>>

Signup(m) ==
    /\ FormReady /\ tab.code = None
    /\ Submit("register", m) /\ UNCHANGED tab

-----------------------------------------------------------------------------
(* The KYC wall.                                                           *)

FormShown == OnWall(tab) /\ ~tab.wall.done

\* The scanner is held for twenty ticks of its timer; let go before, it
\* starts over.
Scan ==
    /\ FormShown /\ ~tab.wall.signed
    /\ tab' = [tab EXCEPT !.wall.signed = TRUE]
    /\ UNCHANGED <<account, storage, calls, faults, cleared>>

\* With the number and the photo given as well.
SubmitKYC ==
    /\ FormShown /\ tab.wall.signed
    /\ ~Busy({"kyc"}) /\ Room
    /\ calls' = calls \cup {NewCall("kyc", None, storage)}
    /\ UNCHANGED <<account, storage, tab, faults, cleared>>

\* Mutant: the timer stops once the documents are under review.
PollStatus_StopsInReview ==
    /\ OnWall(tab) /\ tab.wall.done /\ tab.user.kyc = "pending"
    /\ storage # None
    /\ ~Busy({"poll me"}) /\ Room
    /\ calls' = calls \cup {NewCall("poll me", None, storage)}
    /\ UNCHANGED <<account, storage, tab, faults, cleared>>

\* The timer runs while the documents wait for review.
PollStatus ==
    /\ OnWall(tab) /\ tab.wall.done /\ tab.user.kyc # "verified"
    /\ storage # None
    /\ ~Busy({"poll me"}) /\ Room
    /\ calls' = calls \cup {NewCall("poll me", None, storage)}
    /\ UNCHANGED <<account, storage, tab, faults, cleared>>

-----------------------------------------------------------------------------
(* The back end.                                                           *)

Accepted(token) == token # None /\ token.v = account[token.m].version
ProfileOf(m) == [m |-> m, status |-> account[m].status, kyc |-> account[m].kyc]
TokenOf(m) == [m |-> m, v |-> account[m].version]


Reply(c, d) == calls' = (calls \ {c}) \cup {d}
Answer(c, answer) == [c EXCEPT !.answer = answer]

\* The onboarding routes want a token of the account's current version,
\* the routes of the pages an active account as well.
ServeMe(c) ==
    /\ c.op \in MeOps
    /\ Reply(c, IF Accepted(c.auth) THEN [c EXCEPT !.answer = "ok", !.user = ProfileOf(c.auth.m)]
                   ELSE Answer(c, "unauthorized"))
    /\ UNCHANGED account

ServePage(c) ==
    /\ c.op = "page"
    /\ Reply(c, IF ~Accepted(c.auth) THEN Answer(c, "unauthorized")
                   ELSE IF account[c.auth.m].status = "active" THEN Answer(c, "ok")
                   ELSE Answer(c, "inactive"))
    /\ UNCHANGED account

ServeKYC(c) ==
    /\ c.op = "kyc"
    /\ IF Accepted(c.auth)
       THEN /\ Reply(c, Answer(c, "ok"))
            /\ account' = [account EXCEPT ![c.auth.m].kyc = "under_review"]
       ELSE Reply(c, Answer(c, "unauthorized")) /\ UNCHANGED account

ServeLogin(c) ==
    /\ c.op \in {"login", "code"}
    /\ \/ Reply(c, Answer(c, "unauthorized"))        \* a wrong password or code
       \/ /\ \/ account[c.m].status = "active"
             \/ c.op = "login" /\ account[c.m].status = "pending"
          /\ Reply(c, [c EXCEPT !.answer = "ok", !.token = TokenOf(c.m)])
       \/ /\ c.op = "login" /\ account[c.m].status = "active"     \* two-factor login is on
          /\ Reply(c, Answer(c, "code wanted"))
    /\ UNCHANGED account

ServeRegister(c) ==
    /\ c.op = "register"
    /\ IF account[c.m].status = "none"
       THEN /\ Reply(c, Answer(c, "ok"))
            /\ \E s \in {"pending", "active"} : account' = [account EXCEPT ![c.m].status = s]
       ELSE Reply(c, Answer(c, "failed")) /\ UNCHANGED account

Serve ==
    /\ \E c \in calls :
        /\ c.answer = "sent"
        /\ \/ ServeMe(c)
           \/ ServePage(c)
           \/ ServeKYC(c)
           \/ ServeLogin(c)
           \/ ServeRegister(c)
    /\ UNCHANGED <<storage, tab, faults, cleared>>

\* The network or the server fails a call.
Fail ==
    /\ faults < MaxFaults
    /\ \E c \in calls : c.answer = "sent" /\ Reply(c, Answer(c, "failed"))
    /\ faults' = faults + 1
    /\ UNCHANGED <<account, storage, tab, cleared>>

\* An administrator lets an account in, or suspends it.
Approve(m) ==
    /\ account[m].status # "none"
    /\ account' = [account EXCEPT ![m].status = "active", ![m].kyc = "verified"]
    /\ cleared' = cleared \cup {m}
    /\ UNCHANGED <<storage, tab, calls, faults>>

Suspend(m) ==
    /\ account[m].status # "none"
    /\ account' = [account EXCEPT ![m].status = "suspended"]
    /\ UNCHANGED <<storage, tab, calls, faults, cleared>>

\* Every token of the account expires, or its sessions are ended.
EndSessions(m) ==
    /\ account[m].version < MaxVersion
    /\ account' = [account EXCEPT ![m].version = @ + 1]
    /\ UNCHANGED <<storage, tab, calls, faults, cleared>>

\* What the other tabs of the browser do to the token.
ElsewhereSignsIn(m) ==
    /\ account[m].status \in {"pending", "active"}
    /\ storage' = TokenOf(m)
    /\ UNCHANGED <<account, tab, calls, faults, cleared>>

ElsewhereSignsOut ==
    /\ storage # None
    /\ storage' = None
    /\ UNCHANGED <<account, tab, calls, faults, cleared>>

-----------------------------------------------------------------------------
(* The answers, as the response interceptor and the callers take them.     *)

\* Mutants: any error ends the session; an inactive merchant's 403 does not.
Refused_AnyError(c) ==
    /\ c.answer \in {"unauthorized", "inactive", "failed"}
    /\ storage' = None
    /\ tab' = FreshTab("login")
    /\ calls' = {}
Refused_NotInactive(c) ==
    /\ c.answer = "unauthorized"
    /\ storage' = None
    /\ tab' = FreshTab("login")
    /\ calls' = {}

\* 401, or 403 for an inactive merchant: the token that is stored now is
\* removed and the tab loads the login page.
Refused(c) ==
    /\ c.answer \in {"unauthorized", "inactive"}
    /\ storage' = None
    /\ tab' = FreshTab("login")
    /\ calls' = {}

Finish(c) == calls' = calls \ {c}

\* login and verify2FA store the token and then fetch the profile.
SignedIn(c) ==
    /\ c.op \in {"login", "code"} /\ c.answer = "ok"
    /\ storage' = c.token
    /\ calls' = (calls \ {c}) \cup {NewCall("signin me", None, c.token)}
    /\ UNCHANGED tab

CodeWanted(c) ==
    /\ c.answer = "code wanted"
    /\ tab' = [tab EXCEPT !.code = c.m]
    /\ Finish(c) /\ UNCHANGED storage

\* signup goes on with a login.
Registered(c) ==
    /\ c.op = "register" /\ c.answer = "ok"
    /\ calls' = (calls \ {c}) \cup {NewCall("login", c.m, storage)}
    /\ UNCHANGED <<storage, tab>>

\* fetchUser keeps the old profile when the call failed, and its caller
\* goes on as if it had not: to the dashboard after a login, or to the
\* pages below the layout.
Fetched(c) ==
    /\ c.op \in MeOps /\ c.answer \in {"ok", "failed"}
    /\ LET s == [tab EXCEPT !.user = IF c.answer = "ok" THEN c.user ELSE @,
                               !.page = IF c.op = "signin me" THEN "dashboard" ELSE @,
                               !.code = IF c.op = "signin me" THEN None ELSE @,
                               !.hydrated = @ \/ (c.op = "layout me" /\ tab.page = "dashboard")]
           r == Shown(s, storage)
       IN /\ tab' = r
          /\ calls' = (calls \ {c}) \cup
                          IF c.op = "signin me" /\ r.page = "dashboard" /\ r.user = None
                          THEN {NewCall("layout me", None, storage)} ELSE {}
    /\ UNCHANGED storage

KYCSent(c) ==
    /\ c.op = "kyc" /\ c.answer \in {"ok", "failed"}
    /\ tab' = [tab EXCEPT !.wall.done = @ \/ (c.answer = "ok" /\ OnWall(tab))]
    /\ Finish(c) /\ UNCHANGED storage

\* The page shows its data or an error, the form its message.
OtherwiseAnswered(c) ==
    /\ \/ c.op = "page" /\ c.answer \in {"ok", "failed"}
       \/ c.op \in FormOps /\ c.answer = "failed"
    /\ Finish(c) /\ UNCHANGED <<storage, tab>>

Deliver ==
    /\ \E c \in calls :
        /\ c.answer # "sent"
        /\ \/ Refused(c)
           \/ SignedIn(c)
           \/ CodeWanted(c)
           \/ Registered(c)
           \/ Fetched(c)
           \/ KYCSent(c)
           \/ OtherwiseAnswered(c)
    /\ UNCHANGED <<account, faults, cleared>>

-----------------------------------------------------------------------------
Next ==
    \/ OpenDashboard \/ ReadPage \/ Logout
    \/ Verify2FA \/ BackToLogin
    \/ Scan \/ SubmitKYC \/ PollStatus
    \/ Serve \/ Fail \/ Deliver
    \/ ElsewhereSignsOut
    \/ \E m \in Merchants :
        \/ Login(m) \/ Signup(m) \/ ElsewhereSignsIn(m)
        \/ Approve(m) \/ Suspend(m) \/ EndSessions(m)

\* The server answers, answers arrive, the poll timer of the wall ticks, and
\* the tab is on a page that keeps reading (the overview, the transactions
\* and the routing page do).  Nothing is assumed of people.
Fairness == WF_vars(Serve) /\ WF_vars(Deliver) /\ WF_vars(PollStatus) /\ WF_vars(ReadPage)

Spec == Init /\ [][Next]_vars /\ Fairness

-----------------------------------------------------------------------------
TypeOK ==
    /\ account \in [Merchants -> Account]
    /\ storage \in Token \cup {None}
    /\ tab \in Tab
    /\ calls \subseteq Call
    /\ faults \in 0..MaxFaults
    /\ cleared \subseteq Merchants

\* The pages below the layout are shown for a merchant an administrator
\* has let in, or without any profile after a profile call that failed.
ContentIsForCleared ==
    OnContent(tab) => IF tab.user = None THEN faults > 0 ELSE tab.user.m \in cleared

\* A session the server still accepts ends in this tab by a sign-out, by a
\* wrong password or code, because the merchant was found inactive, or by
\* the answer to a call made under another session: never by a refusal of
\* a call of its own.
ValidSessionEndsFromOutside ==
    [][(Accepted(storage) /\ storage' = None) =>
        \/ Logout
        \/ ElsewhereSignsOut
        \/ \E c \in calls \ calls' :
             \/ c.op \in FormOps
             \/ c.answer = "inactive"
             \/ c.answer = "unauthorized" /\ c.auth # storage]_vars

\* The pages are not left open for good with a token they cannot be used
\* with: one whose sessions were ended or whose merchant is suspended, or
\* none because another tab signed out.
UselessSessionLeaves ==
    []<>~(OnContent(tab) /\ (~Accepted(storage) \/ account[storage.m].status # "active"))

\* A tab does not wait on the wall for good when its merchant has been
\* approved: the poll brings the new status.
ApprovedGetsThrough ==
    []<>~(/\ OnWall(tab) /\ tab.wall.done /\ tab.user.kyc # "verified"
          /\ Accepted(storage) /\ account[storage.m].status = "active"
          /\ account[storage.m].kyc = "verified")
=============================================================================
