------------------------------ MODULE MCCheckout ------------------------------
(***************************************************************************)
(* A customer's browser: a behaviour stays on the hosted checkout, or on   *)
(* one of the other payment pages.  They share nothing but the back end,   *)
(* which answers each request as it would without the others.              *)
(***************************************************************************)
EXTENDS HostedCheckout, PaymentPages

VARIABLE site       \* where the customer pays

customerVars == <<vars, pagesVars, site>>

CustomerInit ==
    /\ Init /\ PagesInit
    /\ \/ site = "hosted" /\ tab.at = "host"
       \/ site = "pages" /\ page = FreshPage(0, "other")

CustomerNext ==
    \/ site = "hosted" /\ Next /\ UNCHANGED <<pagesVars, site>>
    \/ site = "pages" /\ PagesNext /\ UNCHANGED <<vars, site>>

CustomerSpec ==
    /\ CustomerInit /\ [][CustomerNext]_customerVars
    /\ Fairness /\ PagesFairness

=============================================================================
