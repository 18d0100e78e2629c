---------------------------- MODULE MerchantLists ----------------------------
(***************************************************************************)
(* The lists a merchant keeps in the console: API keys, webhooks, the      *)
(* team, payment links, disputes, subscriptions, plans, bank accounts,     *)
(* withdrawals and settlements.  A behaviour follows one list and the      *)
(* pages that show it.  Every page loads its list once, when it is opened, *)
(* and from then on keeps up with its own edits in one of three ways:      *)
(*   "prev"     patches the list as it is when the answer arrives,         *)
(*   "captured" patches the list as it was when the button was pressed,    *)
(*   "reload"   asks for the list again ("later": after a second).         *)
(***************************************************************************)
EXTENDS ConsoleBounds

CONSTANT Rows       \* names of rows; the back end never uses one twice

ASSUME ListsAssumption == Rows # {} /\ None \notin Rows

VARIABLES
    subject,    \* the list followed
    stored,     \* back end: the state of every row
    screen,     \* the page shown, its copy of the list, and whether it says that it loads
    asked,      \* requests in flight
    tally,      \* how many edits, pages, losses and requests there were
    smooth      \* history: nothing happened that a page does not cope with

listVars == <<subject, stored, screen, asked, tally, smooth>>

PagesOf == [keys |-> {"settings", "api", "developers"}, hooks |-> {"settings", "developers"},
            team |-> {"team"}, links |-> {"links"}, disputes |-> {"disputes"},
            subscriptions |-> {"subscriptions"}, plans |-> {"subscriptions"},
            accounts |-> {"banking", "settlements"}, withdrawals |-> {"banking"},
            settlements |-> {"settlements"}]

Unused == "unused"
NothingShown == [r \in Rows |-> "none"]
Visible(rows) == [r \in Rows |-> IF rows[r] \in {"fresh", "changed"} THEN rows[r] ELSE "none"]

ListsInit ==
    /\ subject \in DOMAIN PagesOf
    /\ stored = [[r \in Rows |-> Unused] EXCEPT ![CHOOSE r \in Rows : TRUE] = "fresh"]
    /\ screen = [page |-> "other", list |-> NothingShown, loading |-> FALSE]
    /\ asked = {}
    /\ tally = [edits |-> 0, opens |-> 0, losses |-> 0, sent |-> 0, newest |-> 0]
    /\ smooth = TRUE

-----------------------------------------------------------------------------
(* Requests.  "mine" says that the page that asked is still shown.  A load *)
(* has the list once it was served; an edit has the list as it was.        *)

NewLoad(n) == [op |-> "load", row |-> None, cause |-> None, way |-> "reload", list |-> NothingShown,
               mine |-> TRUE, step |-> "sent", n |-> n]
Loads == {a \in asked : a.op = "load"}
Running(op) == \E a \in asked : a.mine /\ a.op = op

\* Two requests that may spoil each other's list: one patches it while the
\* other loads it or patches a list it captured.
Overlap(as) ==
    \E a, b \in as : /\ a # b /\ a.mine /\ b.mine
                     /\ a.way \in {"prev", "captured"}
                     /\ ~(a.way = "prev" /\ b.way = "prev")

Ask(op, row, way) ==
    /\ tally.edits < MaxEdits
    /\ tally' = [tally EXCEPT !.edits = @ + 1, !.sent = @ + 1]
    /\ asked' = asked \cup {[op |-> op, row |-> row, cause |-> None, way |-> way, list |-> screen.list,
                             mine |-> TRUE, step |-> "sent", n |-> tally.sent + 1]}
    /\ smooth' = (smooth /\ ~Overlap(asked'))
    /\ UNCHANGED <<subject, stored, screen>>

\* The back end names a new row, and rows are unique identifiers.
Add(way) == \E r \in Rows :
    /\ stored[r] = Unused /\ \A a \in asked : a.row # r
    /\ Ask("add", r, way)

Listed == {r \in Rows : screen.list[r] # "none"}

At(page, followed) == screen.page = page /\ subject = followed

\* A page that is opened starts with an empty list; answers to a page that
\* was left find nothing to change.
OpenList(page) ==
    /\ page \in PagesOf[subject] /\ tally.opens < MaxOpens
    /\ tally' = [tally EXCEPT !.opens = @ + 1, !.sent = @ + 1]
    /\ screen' = [page |-> page, list |-> NothingShown, loading |-> TRUE]
    /\ asked' = {[a EXCEPT !.mine = FALSE, !.list = NothingShown] : a \in asked \ Loads}
                    \cup {NewLoad(tally.sent + 1)}
    /\ smooth' = (smooth /\ asked \ Loads = {})
    /\ UNCHANGED <<subject, stored>>

-----------------------------------------------------------------------------
(* app/dashboard/settings: nothing is disabled while a request runs.       *)

SettingsGenerateKey == At("settings", "keys") /\ Add("captured")
SettingsRevokeKey == At("settings", "keys") /\ \E r \in Listed : Ask("remove", r, "captured")
SettingsCreateWebhook == At("settings", "hooks") /\ Add("captured")
SettingsDeleteWebhook == At("settings", "hooks") /\ \E r \in Listed : Ask("remove", r, "captured")

SettingsTabs ==
    \/ SettingsGenerateKey \/ SettingsRevokeKey
    \/ SettingsCreateWebhook \/ SettingsDeleteWebhook

(* app/dashboard/settings/api: hidden while it loads.                      *)

ApiGenerateKey == ~Running("add") /\ Add("prev")
ApiRevokeKey == \E r \in Listed : Ask("remove", r, "captured")
ApiKeysPage == At("api", "keys") /\ ~screen.loading /\ (ApiGenerateKey \/ ApiRevokeKey)

(* app/dashboard/developers.  Testing a webhook changes nothing; the page  *)
(* loads its lists again a second after.                                   *)

DevGenerateKey == subject = "keys" /\ Add("prev")
DevCreateWebhook == subject = "hooks" /\ Add("reload")
FireTestWebhook ==
    /\ subject = "hooks" /\ ~Running("test")
    /\ \E r \in Listed : Ask("test", r, "later")
DevelopersPage ==
    /\ screen.page = "developers"
    /\ DevGenerateKey \/ DevCreateWebhook \/ FireTestWebhook

(* app/dashboard/settings/team: hidden while it loads; the button of the   *)
(* dialog is disabled until the list is there again.                       *)

HandleInvite == ~Running("add") /\ Add("reload")
HandleRemove == \E r \in Listed : Ask("remove", r, "captured")
TeamPage == At("team", "team") /\ ~screen.loading /\ (HandleInvite \/ HandleRemove)

(* app/dashboard/payment-links.                                            *)

HandleCreateLink == Add("reload")
\* Mutant: the list is not loaded again.
HandleDeleteLink_NoReload == \E r \in Listed : Ask("remove", r, "none")
HandleDeleteLink == \E r \in Listed : Ask("remove", r, "reload")
PaymentLinksPage == At("links", "links") /\ (HandleCreateLink \/ HandleDeleteLink)

(* app/dashboard/disputes.  Evidence moves a dispute on.  Each dialog's    *)
(* button stays disabled until the list was loaded again.                  *)

Saving(op) == Running(op) \/ \E a \in Loads : a.cause = op
HandleSubmitEvidence == ~Saving("change") /\ \E r \in Listed : Ask("change", r, "reload")
HandleCreateDispute == ~Saving("add") /\ Add("reload")
DisputesPage == At("disputes", "disputes") /\ (HandleSubmitEvidence \/ HandleCreateDispute)

(* app/dashboard/subscriptions: the plans are loaded with the              *)
(* subscriptions.  Nothing but the button that asks for them again is      *)
(* disabled while they load.                                               *)

HandleCreateSubscription == subject = "subscriptions" /\ ~Saving("add") /\ Add("reload")
HandleCreatePlan == subject = "plans" /\ ~Saving("add") /\ Add("reload")
HandleCancelSubscription ==
    /\ subject = "subscriptions"
    /\ \E r \in Listed : screen.list[r] = "fresh" /\ Ask("change", r, "reload")
RefreshSubscriptions ==
    /\ ~screen.loading /\ tally.edits < MaxEdits
    /\ tally' = [tally EXCEPT !.edits = @ + 1, !.sent = @ + 1]
    /\ screen' = [screen EXCEPT !.loading = TRUE]
    /\ asked' = asked \cup {NewLoad(tally.sent + 1)}
    /\ UNCHANGED <<subject, stored, smooth>>
SubscriptionsPage ==
    /\ screen.page = "subscriptions"
    /\ \/ HandleCreateSubscription \/ HandleCreatePlan
       \/ HandleCancelSubscription \/ RefreshSubscriptions

(* app/dashboard/banking (the balance has a module of its own) and         *)
(* settlements.                                                            *)

HandleAddBankAccount == subject = "accounts" /\ Add("captured")
WithdrawalRow == subject = "withdrawals" /\ ~Running("add") /\ Add("captured")
BankingLists == screen.page = "banking" /\ (HandleAddBankAccount \/ WithdrawalRow)

HandleGenerateSettlement == Add("reload")
SettlementsPage == At("settlements", "settlements") /\ HandleGenerateSettlement

-----------------------------------------------------------------------------
(* The back end, the network and the answers.                              *)

ServeList(a) ==
    /\ a.step = "sent"
    /\ asked' = (asked \ {a}) \cup
          {[a EXCEPT !.step = "ok", !.list = IF a.op = "load" THEN Visible(stored) ELSE @]}
    /\ stored' = CASE a.op = "add" -> [stored EXCEPT ![a.row] = "fresh"]
                   [] a.op = "remove" -> [stored EXCEPT ![a.row] = "gone"]
                   [] a.op = "change" -> [stored EXCEPT ![a.row] = "changed"]
                   [] OTHER -> stored
    /\ UNCHANGED <<subject, screen, tally, smooth>>

\* A request lost on its way changes nothing, a lost answer hides a change.
Lose(a) ==
    /\ a.step # "failed" /\ tally.losses < MaxLosses
    /\ tally' = [tally EXCEPT !.losses = @ + 1]
    /\ asked' = (asked \ {a}) \cup {[a EXCEPT !.step = "failed"]}
    /\ smooth' = FALSE
    /\ UNCHANGED <<subject, stored, screen>>

\* The list with the row of an edit added or taken out; only the page of
\* the API keys looks whether a load has brought the row already.
Patched(list, a) ==
    [list EXCEPT ![a.row] = IF a.op = "remove" THEN "none"
                            ELSE IF @ = "none" THEN "fresh"
                            ELSE IF screen.page = "api" THEN @ ELSE "twice"]

\* A load that fails leaves the list alone, but empties the subscriptions.
LoadAnswered(a) ==
    /\ a.op = "load" /\ a.step # "sent"
    /\ asked' = asked \ {a}
    /\ screen' = [screen EXCEPT !.loading = FALSE,
                                !.list = IF a.step = "ok" THEN a.list
                                         ELSE IF screen.page = "subscriptions"
                                              THEN NothingShown ELSE @]
    /\ tally' = [tally EXCEPT !.newest = IF a.n > @ THEN a.n ELSE @]
    /\ smooth' = (smooth /\ a.n > tally.newest)
    /\ UNCHANGED <<subject, stored>>

EditAnswered(a) ==
    /\ a.op # "load" /\ a.step # "sent"
    /\ LET works == a.mine /\ a.step = "ok"
           again == works /\ a.way \in {"reload", "later"}
       IN  /\ screen' = [screen EXCEPT !.loading = @ \/ again,
                                       !.list = CASE works /\ a.way = "prev" -> Patched(@, a)
                                                  [] works /\ a.way = "captured" -> Patched(a.list, a)
                                                  [] OTHER -> @]
           /\ asked' = (asked \ {a}) \cup
                 IF again THEN {[NewLoad(tally.sent + 1) EXCEPT !.cause = a.op]} ELSE {}
           /\ tally' = IF again THEN [tally EXCEPT !.sent = @ + 1] ELSE tally
    /\ smooth' = (smooth /\ ~Overlap(asked'))
    /\ UNCHANGED <<subject, stored>>

ListsNext ==
    \/ \E page \in UNION {PagesOf[s] : s \in DOMAIN PagesOf} : OpenList(page)
    \/ SettingsTabs \/ ApiKeysPage \/ DevelopersPage \/ TeamPage \/ PaymentLinksPage
    \/ DisputesPage \/ SubscriptionsPage \/ BankingLists \/ SettlementsPage
    \/ \E a \in asked : ServeList(a) \/ Lose(a) \/ LoadAnswered(a) \/ EditAnswered(a)

-----------------------------------------------------------------------------
\* A page at rest shows what the back end stores, unless a request failed,
\* an edit was still under way when the page was opened, two loads were
\* answered in the wrong order, or an edit that patches the list ran next
\* to another request (two that patch the present list may overlap, and so
\* may any number of edits on the pages that load their list again).
QuietListIsRight ==
    smooth /\ asked = {} /\ screen.page # "other" => screen.list = Visible(stored)

=============================================================================
