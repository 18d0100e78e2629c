--------------------------- MODULE MerchantFigures ---------------------------
(***************************************************************************)
(* The pages that show figures for something a merchant picks: the         *)
(* dashboard and the analytics for a period, the transactions for a        *)
(* filter, a customer's details.  Picking again while a load is in flight  *)
(* makes its answer late.  The pages differ in what they do about that:    *)
(* analytics and transactions drop a late answer, the dashboard drops that *)
(* of the load that picking started but not that of its timer, and the     *)
(* customers drop none.                                                    *)
(***************************************************************************)
EXTENDS ConsoleBounds

CONSTANTS
    Picks,          \* periods, filters with their page, or customers
    MaxNews,        \* bound: changes of the figures at the back end
    MaxLoads        \* bound: loads in flight

ASSUME FiguresAssumption ==
    {MaxNews, MaxLoads} \subseteq Nat /\ Picks # {} /\ None \notin Picks

VARIABLES
    news,       \* back end: how often the figures have changed
    desk,       \* the page, what is picked and what is shown
    fetches,    \* loads in flight
    acts,       \* refunds, captures and payments asked for on the transactions page
    did         \* how often each bounded thing has happened

figureVars == <<news, desk, fetches, acts, did>>

FiguresInit ==
    /\ news = 0
    /\ desk = [page |-> "other", pick |-> None, shown |-> None, listed |-> FALSE]
    /\ fetches = {}
    /\ acts = {}
    /\ did = [edits |-> 0, opens |-> 0, losses |-> 0]

Did(what, limit) == did[what] < limit /\ did' = [did EXCEPT ![what] = @ + 1]

Fetch(pick, by) == [pick |-> pick, by |-> by, live |-> TRUE, news |-> None]
Cancelled(by) == {IF f.by = by THEN [f EXCEPT !.live = FALSE] ELSE f : f \in fetches}

FirstPick == CHOOSE p \in Picks : TRUE

\* A page starts with its first pick; the customers with their list.
Fresh(page) ==
    /\ desk' = [page |-> page, pick |-> IF page = "customers" THEN None ELSE FirstPick,
                shown |-> None, listed |-> FALSE]
    /\ fetches' = {Fetch(IF page = "customers" THEN None ELSE FirstPick, "effect")}
    /\ acts' = {[a EXCEPT !.mine = FALSE] : a \in acts}

OpenFigures(page) ==
    /\ Did("opens", MaxOpens)
    /\ Fresh(page)
    /\ UNCHANGED news

-----------------------------------------------------------------------------
(* Picking.                                                                *)

Pick(page, p, others) ==
    /\ desk.page = page /\ desk.pick # p
    /\ Did("edits", MaxEdits)
    /\ desk' = [desk EXCEPT !.pick = p]
    /\ fetches' = others \cup {Fetch(p, "effect")}
    /\ UNCHANGED <<news, acts>>

SetSelectedPeriod(p) == Pick("dashboard", p, Cancelled("effect"))
SetPeriod(p) == Pick("analytics", p, Cancelled("effect"))

\* Mutant: the effect does not cancel its load.
SetFilter_KeepsLate(p) == Pick("transactions", p, fetches)

\* One effect of the transactions page starts the load and the timer, and
\* cancels both.
SetFilter(p) ==
    Pick("transactions", p, {[f EXCEPT !.live = FALSE] : f \in fetches})

HandleViewDetails(p) == desk.listed /\ Pick("customers", p, fetches)

-----------------------------------------------------------------------------
(* Timers: the dashboard's every half minute, the transactions' twice as   *)
(* often.                                                                  *)

\* Mutant: the timer keeps the pick of the first render.
Tick_StaleClosure ==
    /\ desk.page \in {"dashboard", "transactions"}
    /\ Cardinality(fetches) < MaxLoads
    /\ fetches' = fetches \cup {Fetch(FirstPick, "interval")}
    /\ UNCHANGED <<news, desk, acts, did>>

Tick ==
    /\ desk.page \in {"dashboard", "transactions"}
    /\ Cardinality(fetches) < MaxLoads
    /\ fetches' = fetches \cup {Fetch(desk.pick, "interval")}
    /\ UNCHANGED <<news, desk, acts, did>>

ServeFigures(f) ==
    /\ f.news = None
    /\ fetches' = (fetches \ {f}) \cup {[f EXCEPT !.news = news]}
    /\ UNCHANGED <<news, desk, acts, did>>

FiguresAnswered(f) ==
    /\ f.news # None
    /\ fetches' = fetches \ {f}
    /\ desk' = IF ~f.live THEN desk
               ELSE IF f.pick = None THEN [desk EXCEPT !.listed = TRUE]
               ELSE [desk EXCEPT !.shown = [pick |-> f.pick, news |-> f.news]]
    /\ UNCHANGED <<news, acts, did>>

FetchFails(f) ==
    /\ Did("losses", MaxLosses)
    /\ fetches' = fetches \ {f}
    /\ UNCHANGED <<news, desk, acts>>

-----------------------------------------------------------------------------
(* What a merchant changes on the transactions page; the page is loaded    *)
(* again when it worked.                                                   *)

Act(op) ==
    /\ desk.page = "transactions"
    /\ Did("edits", MaxEdits)
    /\ acts' = acts \cup {[op |-> op, mine |-> TRUE, step |-> "sent"]}
    /\ UNCHANGED <<news, desk, fetches>>

HandleRefund == desk.shown # None /\ Act("refund")
HandleCapture == desk.shown # None /\ Act("capture")
\* The dialog's button is disabled until the answer.
HandleSubmitPayment == (~\E a \in acts : a.mine /\ a.op = "create") /\ Act("create")

ServeAct(a) ==
    /\ a.step = "sent" /\ news < MaxNews
    /\ news' = news + 1
    /\ acts' = (acts \ {a}) \cup {[a EXCEPT !.step = "ok"]}
    /\ UNCHANGED <<desk, fetches, did>>

ActFails(a) ==
    /\ Did("losses", MaxLosses)
    /\ acts' = acts \ {a}
    /\ UNCHANGED <<news, desk, fetches>>

ActAnswered(a) ==
    /\ a.step = "ok"
    /\ IF a.mine
       THEN /\ Fresh("transactions") /\ UNCHANGED <<news, did>>
       ELSE /\ acts' = acts \ {a} /\ UNCHANGED <<news, desk, fetches, did>>

PaymentElsewhere ==
    /\ news < MaxNews
    /\ news' = news + 1
    /\ UNCHANGED <<desk, fetches, acts, did>>

FiguresNext ==
    \/ \E page \in {"dashboard", "analytics", "transactions", "customers"} : OpenFigures(page)
    \/ \E p \in Picks : \/ SetSelectedPeriod(p) \/ SetPeriod(p)
                        \/ SetFilter(p) \/ HandleViewDetails(p)
    \/ Tick
    \/ \E f \in fetches : ServeFigures(f) \/ FiguresAnswered(f) \/ FetchFails(f)
    \/ HandleRefund \/ HandleCapture \/ HandleSubmitPayment
    \/ \E a \in acts : ServeAct(a) \/ ActFails(a) \/ ActAnswered(a)
    \/ PaymentElsewhere

\* The timers tick, the back end serves and its answers arrive.
FiguresFairness ==
    /\ WF_figureVars(Tick)
    /\ WF_figureVars(\E f \in fetches : ServeFigures(f))
    /\ WF_figureVars(\E f \in fetches : FiguresAnswered(f))

-----------------------------------------------------------------------------
\* Analytics and transactions never show figures for something that is no
\* longer picked once the next load was started, in whatever order the
\* answers come: new figures are always those of what is picked.
NoLateFigures ==
    [][desk'.shown # desk.shown /\ desk'.shown # None /\ desk'.page \in {"analytics", "transactions"}
       => desk'.shown.pick = desk'.pick]_figureVars

\* On the dashboard a late answer of the timer may put up the figures of
\* another period.  It and the transactions come to show the present figures
\* of what is picked all the same, because their timers go on.
FiguresSettle ==
    <>[](desk.page \in {"dashboard", "transactions"}
         => desk.shown = [pick |-> desk.pick, news |-> news])

=============================================================================
