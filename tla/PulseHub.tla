----------------------------- MODULE PulseHub -----------------------------
(***************************************************************************)
(* The hub that shows captured payments on open dashboards                 *)
(* (infrastructure/websocket/hub.go): one goroutine, Run, that receives    *)
(* from three channels, one goroutine, Pump, for each dashboard, and the   *)
(* captures that hand their message to the hub before they answer.         *)
(*                                                                         *)
(* Messages are told apart by their merchant only.  A dashboard may stop   *)
(* reading: its Pump then stays in WriteMessage, which has no deadline.    *)
(***************************************************************************)
EXTENDS Integers, Sequences

CONSTANTS
    Dashboard,      \* connections; a page that comes back is another one
    Capture,        \* captures under way
    Merchant,
    SuperAdmin,     \* the key whose dashboards see every merchant
    SendSize,       \* bound: the buffer of a dashboard, 256 in the code
    BroadcastSize   \* bound: the buffer of the hub, 256 in the code

ASSUME SuperAdminAssumption == SuperAdmin \notin Merchant
ASSUME BuffersAssumption == SendSize \in Nat \ {0} /\ BroadcastSize \in Nat \ {0}

VARIABLES
    hub,        \* where Run stands, whom the message it holds is for, and the
                \* dashboards it has still to offer it to
    clients,    \* the dashboards in the hub's map
    conn,       \* conn[d]: where the connection and its Pump stand, its key,
                \* the messages in its channel, and whether that is closed
    capture,    \* capture[c]: where the capture stands and whose payment it is
    broadcast   \* the messages in the hub's channel

hubVars == <<hub, clients, conn, capture, broadcast>>

Key == Merchant \cup {SuperAdmin}

PulseTypeOK ==
    /\ hub \in [step : {"select", "owner", "admins", "dead"}, todo : SUBSET Dashboard]
    /\ clients \subseteq Dashboard
    /\ conn \in [Dashboard -> [step : {"away", "register", "pump", "write", "close",
                                       "unregister", "gone"},
                               key : Key, queued : 0..SendSize, closed : BOOLEAN]]
    /\ capture \in [Capture -> [step : {"idle", "send", "done"}, merchant : Merchant]]
    /\ broadcast \in Seq(Merchant) /\ Len(broadcast) <= BroadcastSize

PulseInit ==
    /\ hub = [step |-> "select", todo |-> {}]
    /\ clients = {}
    /\ conn = [d \in Dashboard |-> [step |-> "away", key |-> SuperAdmin,
                                    queued |-> 0, closed |-> FALSE]]
    /\ capture \in [Capture -> [step : {"idle"}, merchant : Merchant]]
    /\ broadcast = <<>>

Move(d, from, to) ==
    /\ conn[d].step = from
    /\ conn' = [conn EXCEPT ![d].step = to]

---------------------------------------------------------------------------
(* A capture, after its row was written and its events were queued *)

Announce(c) ==
    /\ capture[c].step = "idle"
    /\ capture' = [capture EXCEPT ![c].step = "send"]
    /\ UNCHANGED <<hub, clients, conn, broadcast>>

\* The send blocks the capture while the hub's channel is full.
SendToHub(c) ==
    /\ capture[c].step = "send"
    /\ Len(broadcast) < BroadcastSize
    /\ broadcast' = Append(broadcast, capture[c].merchant)
    /\ capture' = [capture EXCEPT ![c].step = "done"]
    /\ UNCHANGED <<hub, clients, conn>>

---------------------------------------------------------------------------
(* A dashboard and its Pump *)

Connect(d, k) ==
    /\ conn[d].step = "away"
    /\ conn' = [conn EXCEPT ![d].step = "register", ![d].key = k]
    /\ UNCHANGED <<hub, clients, capture, broadcast>>

PumpReceives(d) ==
    /\ conn[d].step = "pump" /\ conn[d].queued > 0
    /\ conn' = [conn EXCEPT ![d].step = "write", ![d].queued = @ - 1]
    /\ UNCHANGED <<hub, clients, capture, broadcast>>

\* A closed channel is drained first.
PumpSeesClose(d) ==
    /\ conn[d].queued = 0 /\ conn[d].closed
    /\ Move(d, "pump", "close")
    /\ UNCHANGED <<hub, clients, capture, broadcast>>

\* WriteMessage returns; nobody looks at its error, so a connection that is gone
\* is written to like any other.
WriteReturns(d) ==
    /\ Move(d, "write", "pump") \/ Move(d, "close", "unregister")
    /\ UNCHANGED <<hub, clients, capture, broadcast>>

---------------------------------------------------------------------------
(* Run *)

HubRegister(d) ==
    /\ hub.step = "select"
    /\ Move(d, "register", "pump")
    /\ clients' = clients \cup {d}
    /\ UNCHANGED <<hub, capture, broadcast>>

\* Mutant of HubUnregister: the channel is closed without a look at the map.
HubUnregister_Unchecked(d) ==
    /\ hub.step = "select"
    /\ conn[d].step = "unregister"
    /\ clients' = clients \ {d}
    /\ conn' = [conn EXCEPT ![d].step = "gone", ![d].closed = TRUE]
    /\ hub' = IF conn[d].closed THEN [hub EXCEPT !.step = "dead"] ELSE hub
    /\ UNCHANGED <<capture, broadcast>>

\* A dashboard in the map is taken out and its channel closed; to close a closed
\* channel panics, and the process with it.
HubUnregister(d) ==
    /\ hub.step = "select"
    /\ conn[d].step = "unregister"
    /\ clients' = clients \ {d}
    /\ conn' = [conn EXCEPT ![d].step = "gone", ![d].closed = @ \/ d \in clients]
    /\ hub' = IF d \in clients /\ conn[d].closed THEN [hub EXCEPT !.step = "dead"] ELSE hub
    /\ UNCHANGED <<capture, broadcast>>

HubReceives ==
    /\ hub.step = "select"
    /\ broadcast # <<>>
    /\ hub' = [step |-> "owner",
               todo |-> {d \in clients : conn[d].key = Head(broadcast)}]
    /\ broadcast' = Tail(broadcast)
    /\ UNCHANGED <<clients, conn, capture>>

\* The next dashboard of the range, in any order: it has room, or it is closed
\* and dropped.  To send to a closed channel, or to close it again, panics.
HubOffers(d) ==
    /\ d \in hub.todo
    /\ IF conn[d].closed
       THEN hub' = [hub EXCEPT !.step = "dead"] /\ UNCHANGED <<clients, conn>>
       ELSE /\ hub' = [hub EXCEPT !.todo = @ \ {d}]
            /\ IF conn[d].queued < SendSize
               THEN conn' = [conn EXCEPT ![d].queued = @ + 1] /\ UNCHANGED clients
               ELSE conn' = [conn EXCEPT ![d].closed = TRUE] /\ clients' = clients \ {d}
    /\ UNCHANGED <<capture, broadcast>>

\* The end of one range: the super admins are next, then the next message.
HubGoesOn ==
    /\ hub.step \in {"owner", "admins"} /\ hub.todo = {}
    /\ hub' = IF hub.step = "owner"
              THEN [step |-> "admins",
                    todo |-> {d \in clients : conn[d].key = SuperAdmin}]
              ELSE [step |-> "select", todo |-> {}]
    /\ UNCHANGED <<clients, conn, capture, broadcast>>

Run ==
    \/ \E d \in Dashboard : HubRegister(d) \/ HubUnregister(d) \/ HubOffers(d)
    \/ HubReceives
    \/ HubGoesOn

PulseNext ==
    \/ hub.step # "dead" /\ Run
    \/ /\ hub.step # "dead"
       /\ \/ \E c \in Capture : Announce(c) \/ SendToHub(c)
          \/ \E d \in Dashboard :
                \/ \E k \in Key : Connect(d, k)
                \/ PumpReceives(d) \/ PumpSeesClose(d) \/ WriteReturns(d)

PulseSpec == PulseInit /\ [][PulseNext]_hubVars

---------------------------------------------------------------------------

\* Whatever dashboards do, one that stops reading for ever included, a capture
\* gets its message to the hub and goes on to its answer, and a dashboard that
\* connects is registered: Run never waits for a dashboard and never closes a
\* channel twice, although both the drop of a slow dashboard and the Unregister
\* of its own Pump close it (hub.go:63-85, 107-111, payment_service.go:423).
HubServesEverybody ==
    /\ \A c \in Capture : capture[c].step = "send" ~> capture[c].step = "done"
    /\ \A d \in Dashboard : conn[d].step = "register" ~> conn[d].step # "register"
=============================================================================
