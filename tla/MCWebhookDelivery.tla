------------------------- MODULE MCWebhookDelivery -------------------------
(* A small instance of WebhookDelivery for TLC. *)
EXTENDS WebhookDelivery, TLC

CONSTANTS k1, k2

\* Both webhooks want the first event, one of them the second.
MCWants == k1 :> {1, 2} @@ k2 :> {1}
=============================================================================
