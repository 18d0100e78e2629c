--------------------------- MODULE MerchantProfile ---------------------------
(***************************************************************************)
(* The merchant's own row, and the four pages that write it: settings      *)
(* (profile and second factor), branding, payment methods and account.     *)
(*                                                                         *)
(* Every handler reads the row, changes it in memory and writes all of it  *)
(* back.  The answer carries the row itself; settings and branding look    *)
(* for it under a member "data" it does not have, so they never show what  *)
(* is stored and save over it from what they show.                         *)
(***************************************************************************)
EXTENDS ConsoleBounds

CONSTANTS
    Methods,        \* payment methods a merchant may switch on
    MaxSaves        \* bound: requests up to one that confirms a code; MaxEdits others

ASSUME ProfileAssumption == None \notin Methods /\ MaxSaves \in Nat

VARIABLES
    merchant,   \* back end: the row
    form,       \* the page shown
    saves,      \* requests in flight
    used,       \* how often each bounded thing has happened
    past        \* history: see ProfileInit

profileVars == <<merchant, form, saves, used, past>>

\* "rest" says that the settings no page shows (the webhook and its secret,
\* the settlement cycle) still have their values; a secret is a number.
Row == [name : {"own", "default"}, methods : SUBSET Methods, retry : BOOLEAN,
        theme : {"old", "new"}, rest : BOOLEAN, on : BOOLEAN, secret : 0..MaxSaves + 1]

BlankForm(page) ==
    [page |-> page, methods |-> {}, retry |-> FALSE, name |-> None, loading |-> page # "other",
     busy |-> FALSE, scan |-> 0, on |-> FALSE]

\* The settings page as setting the second factor up leaves it.
JustConfirmed == [BlankForm("settings") EXCEPT !.loading = FALSE, !.on = TRUE]

\* smooth: since the page was opened no request failed, none was written
\* out of order, and none was in flight at that time.  phone: the secrets in
\* the merchant's authenticator, which keeps each one it scanned.  restarted:
\* a second factor in use was set up again.
ProfileInit ==
    /\ \E on \in BOOLEAN :
           merchant = [name |-> "own", methods |-> Methods, retry |-> FALSE, theme |-> "old",
                       rest |-> TRUE, on |-> on, secret |-> IF on THEN 1 ELSE 0]
    /\ \/ form = BlankForm("other")
       \/ merchant.on /\ form = JustConfirmed
    /\ saves = {}
    /\ used = [edits |-> 0, opens |-> 0, losses |-> 0]
    /\ past = [smooth |-> TRUE, phone |-> IF merchant.on THEN {1} ELSE {}, restarted |-> FALSE]

Use(what, limit) == used[what] < limit /\ used' = [used EXCEPT ![what] = @ + 1]

Request(op, arg) ==
    [op |-> op, arg |-> arg, mine |-> TRUE, step |-> "sent", copy |-> None, n |-> used.edits,
     undo |-> [methods |-> form.methods, retry |-> form.retry]]

Put(op, arg) ==
    /\ Use("edits", IF op = "verify" THEN MaxSaves ELSE MaxEdits)
    /\ saves' = saves \cup {Request(op, arg)}
    /\ UNCHANGED merchant

-----------------------------------------------------------------------------
(* The pages.                                                              *)

OpenForm(page) ==
    /\ form.page # page
    /\ Use("opens", MaxOpens)
    /\ form' = BlankForm(page)
    /\ LET left == {[s EXCEPT !.mine = FALSE] : s \in {q \in saves : q.op # "get"}}
       IN  /\ saves' = left \cup {Request("get", None)}
           /\ past' = [past EXCEPT !.smooth = left = {}]
    /\ UNCHANGED merchant

\* The fields of the settings start empty whatever is stored, those of the
\* account when their load failed; they must be filled.
TypeProfile ==
    /\ \/ form.page = "settings"
       \/ form.page = "account" /\ ~form.loading
    /\ form.name = None
    /\ form' = [form EXCEPT !.name = "own"]
    /\ UNCHANGED <<merchant, saves, used, past>>

HandleSaveProfile ==
    /\ form.page = "settings" /\ ~form.busy /\ ~form.loading
    /\ form.name # None
    /\ Put("profile", [name |-> form.name])
    /\ form' = [form EXCEPT !.busy = TRUE]
    /\ UNCHANGED past

Start2FA ==
    /\ form.page = "settings" /\ ~form.on /\ form.scan = 0
    /\ Put("generate", None)
    /\ UNCHANGED <<form, past>>

\* The merchant scans the code shown and types what the authenticator says.
VerifyAndEnable ==
    /\ form.page = "settings" /\ ~form.on /\ form.scan # 0
    /\ Put("verify", form.scan)
    /\ past' = [past EXCEPT !.phone = @ \cup {form.scan}]
    /\ UNCHANGED form

CancelSetup ==
    /\ form.page = "settings" /\ ~form.on /\ form.scan # 0
    /\ form' = [form EXCEPT !.scan = 0]
    /\ UNCHANGED <<merchant, saves, used, past>>

Disable2FA ==
    /\ form.page = "settings" /\ form.on
    /\ Put("disable", None)
    /\ UNCHANGED <<form, past>>

\* Branding: the settings are merged into a profile that never arrived.
HandleSaveTheme ==
    /\ form.page = "branding" /\ ~form.busy /\ ~form.loading
    /\ Put("settings", [name |-> "default", methods |-> {}, retry |-> FALSE, theme |-> "new"])
    /\ form' = [form EXCEPT !.busy = TRUE]
    /\ UNCHANGED past

\* Mutant: the methods of the last render are sent.
SaveShown_SendsOld(methods, retry) ==
    /\ form.page = "methods" /\ ~form.loading
    /\ Put("settings", [name |-> None, methods |-> form.methods, retry |-> form.retry, theme |-> None])
    /\ form' = [form EXCEPT !.methods = methods, !.retry = retry]
    /\ UNCHANGED past

\* Payment methods: shown switched at once; what is saved is all the page
\* knows of the settings, and a failure brings back what it replaced.
SaveShown(methods, retry) ==
    /\ form.page = "methods" /\ ~form.loading
    /\ Put("settings", [name |-> None, methods |-> methods, retry |-> retry, theme |-> None])
    /\ form' = [form EXCEPT !.methods = methods, !.retry = retry]
    /\ UNCHANGED past

HandleMethodToggle(m) ==
    SaveShown(IF m \in form.methods THEN form.methods \ {m} ELSE form.methods \cup {m}, form.retry)

HandleAutoRetryToggle == SaveShown(form.methods, ~form.retry)

\* Account: hidden while it loads or saves; settings are not part of the form.
HandleSaveAccount ==
    /\ form.page = "account" /\ ~form.loading
    /\ form.name # None
    /\ Put("profile", [name |-> form.name])
    /\ form' = [form EXCEPT !.loading = TRUE]
    /\ UNCHANGED past

-----------------------------------------------------------------------------
(* The back end.                                                           *)

\* A profile is saved with the fields that are not empty; settings replace
\* all settings but the theme.
UpdateProfile(row, op, arg) ==
    IF op = "profile" THEN [row EXCEPT !.name = arg.name]
    ELSE [row EXCEPT !.name = IF arg.name = None THEN @ ELSE arg.name,
                     !.methods = arg.methods, !.retry = arg.retry, !.rest = FALSE,
                     !.theme = IF arg.theme = None THEN @ ELSE arg.theme]

Written(s) ==
    CASE s.op \in {"profile", "settings"} -> UpdateProfile(s.copy, s.op, s.arg)
      [] s.op = "generate" -> [s.copy EXCEPT !.secret = s.n + 2]
      [] s.op = "verify" -> [s.copy EXCEPT !.on = TRUE]
      [] s.op = "disable" -> [s.copy EXCEPT !.on = FALSE, !.secret = 0]

\* Mutant: any code turns the second factor on.
ReadRow_AnyCode(s) ==
    /\ s.step = "sent"
    /\ saves' = (saves \ {s}) \cup
          {[s EXCEPT !.copy = merchant, !.step = IF s.op = "get" THEN "ok" ELSE "read"]}
    /\ UNCHANGED <<merchant, form, used, past>>

ReadRow(s) ==
    /\ s.step = "sent"
    /\ saves' = (saves \ {s}) \cup
          {[s EXCEPT !.copy = merchant,
                     !.step = CASE s.op = "get" -> "ok"
                                [] s.op = "verify" /\ merchant.secret # s.arg -> "failed"
                                [] OTHER -> "read"]}
    /\ UNCHANGED <<merchant, form, used, past>>

WriteRow(s) ==
    /\ s.step = "read"
    /\ merchant' = Written(s)
    /\ saves' = (saves \ {s}) \cup {[s EXCEPT !.step = "ok"]}
    /\ past' = [past EXCEPT
          !.restarted = @ \/ (s.op = "generate" /\ s.copy.on),
          !.smooth = @ /\ \A q \in saves : q.step \in {"sent", "read"} => q.n >= s.n]
    /\ UNCHANGED <<form, used>>

SaveFails(s) ==
    /\ s.step # "failed"
    /\ Use("losses", MaxLosses)
    /\ saves' = (saves \ {s}) \cup {[s EXCEPT !.step = "failed"]}
    /\ past' = [past EXCEPT !.smooth = FALSE]
    /\ UNCHANGED <<merchant, form>>

-----------------------------------------------------------------------------
(* Answers.                                                                *)

Loaded(s) ==
    /\ s.op = "get" /\ s.step \in {"ok", "failed"}
    /\ form' = [form EXCEPT
          !.loading = FALSE,
          !.name = IF form.page = "account" /\ s.step = "ok" THEN s.copy.name ELSE @,
          !.methods = IF form.page = "methods" /\ s.step = "ok" THEN s.copy.methods ELSE @,
          !.retry = IF form.page = "methods" /\ s.step = "ok" THEN s.copy.retry ELSE @]
    /\ saves' = saves \ {s}
    /\ UNCHANGED <<merchant, used, past>>

\* A saved profile leaves the settings page with nothing: the answer lacks
\* the member it looks for.
Saved(s) ==
    /\ s.op # "get" /\ s.step \in {"ok", "failed"}
    /\ saves' = saves \ {s}
    /\ LET ok == s.step = "ok"
           asker == IF ~s.mine THEN "gone"
                    ELSE IF s.op \in {"generate", "verify", "disable"} THEN s.op
                    ELSE form.page
       IN  form' =
        CASE asker = "gone" -> form
          [] asker = "generate" -> [form EXCEPT !.scan = IF ok THEN s.n + 2 ELSE @]
          [] asker = "verify" -> IF ok THEN [form EXCEPT !.on = TRUE, !.scan = 0] ELSE form
          [] asker = "disable" -> [form EXCEPT !.on = IF ok THEN FALSE ELSE @]
          [] asker = "settings" -> [form EXCEPT !.busy = FALSE,
                                                !.name = IF ok THEN None ELSE @,
                                                !.on = IF ok THEN FALSE ELSE @]
          [] asker = "methods" ->
                IF ok THEN form
                ELSE [form EXCEPT !.methods = s.undo.methods, !.retry = s.undo.retry]
          [] OTHER -> [form EXCEPT !.busy = FALSE, !.loading = FALSE]
    /\ UNCHANGED <<merchant, used, past>>

ProfileNext ==
    \/ \E page \in {"settings", "branding", "methods", "account"} : OpenForm(page)
    \/ TypeProfile \/ HandleSaveProfile
    \/ Start2FA \/ VerifyAndEnable \/ CancelSetup \/ Disable2FA
    \/ HandleSaveTheme \/ HandleSaveAccount
    \/ \E m \in Methods : HandleMethodToggle(m)
    \/ HandleAutoRetryToggle
    \/ \E s \in saves : ReadRow(s) \/ WriteRow(s) \/ SaveFails(s) \/ Loaded(s) \/ Saved(s)

-----------------------------------------------------------------------------
\* The page of the payment methods at rest shows the methods and the retry
\* preference that are stored, though it switches before the answer, saves
\* run next to each other and every one of them writes the whole row:
\* unless one failed, they were written out of order, or one from an
\* earlier page was under way when this one was opened.
MethodsAsShown ==
    form.page = "methods" /\ saves = {} /\ past.smooth
    => form.methods = merchant.methods /\ form.retry = merchant.retry

\* A second factor that is on asks for codes of a secret the merchant has
\* scanned, though two setups may run at once, a code may be shown late, and
\* every write of the row puts back what its handler read (auth_service.go:296-339:
\* the secret is replaced when a setup begins, not when it is confirmed).  The
\* settings page does not show that it is on after it was opened again and
\* offers to set it up once more, which replaces the secret in use at once:
\* only that locks the merchant out.
SecondFactorIsConfirmed ==
    merchant.on /\ ~past.restarted => merchant.secret \in past.phone

=============================================================================
