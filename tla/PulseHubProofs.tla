--------------------------- MODULE PulseHubProofs ---------------------------
(***************************************************************************)
(* Proofs about PulseHub for any dashboards, captures and buffers.         *)
(***************************************************************************)
EXTENDS PulseHub, SequenceTheorems, TLAPS

\* A dashboard in the hub's map has an open channel and a Pump that serves it.
\* One that is out of the map was dropped, and is served no more once its
\* channel is drained; or it is not registered yet and its channel is new.
InMap(d) == conn[d].step \in {"pump", "write"} /\ ~conn[d].closed
OutOfMap(d) ==
    \/ conn[d].step \in {"away", "register"} /\ ~conn[d].closed
    \/ conn[d].step \in {"pump", "write", "close", "unregister", "gone"} /\ conn[d].closed

MapIsRight == \A d \in Dashboard : IF d \in clients THEN InMap(d) ELSE OutOfMap(d)

\* Run has not panicked, and what it has still to offer to is in the map.
NeverPanics == hub.step # "dead"
OffersToMap == hub.todo \subseteq clients

PulseInv == PulseTypeOK /\ MapIsRight /\ NeverPanics /\ OffersToMap

Conn == [step : {"away", "register", "pump", "write", "close", "unregister", "gone"},
         key : Key, queued : 0..SendSize, closed : BOOLEAN]

\* A step that changes at most the connection of d.
LEMMA OneConnection ==
    ASSUME PulseInv, NEW d \in Dashboard, NEW c \in Conn,
           conn' = [conn EXCEPT ![d] = c],
           hub' = [hub EXCEPT !.todo = hub'.todo],
           hub'.todo \subseteq hub.todo, hub'.todo \subseteq clients',
           clients' \in {clients, clients \cup {d}, clients \ {d}},
           IF d \in clients' THEN InMap(d)' ELSE OutOfMap(d)',
           UNCHANGED <<capture, broadcast>>
    PROVE  PulseInv'
<1> USE DEF PulseInv
<1>1. conn \in [Dashboard -> Conn]
  BY DEF PulseTypeOK, Conn
<1>2. conn' \in [Dashboard -> Conn] /\ \A e \in Dashboard \ {d} : conn'[e] = conn[e]
  BY <1>1
<1>3. hub' \in [step : {"select", "owner", "admins", "dead"}, todo : SUBSET Dashboard]
      /\ hub'.step = hub.step
  BY DEF PulseTypeOK
<1>4. PulseTypeOK'
  BY <1>2, <1>3 DEF PulseTypeOK, Conn
<1>5. MapIsRight'
  BY <1>2 DEF MapIsRight, InMap, OutOfMap
<1> QED
  BY <1>3, <1>4, <1>5 DEF NeverPanics, OffersToMap

LEMMA PulseInvInit == PulseInit => PulseInv
BY BuffersAssumption
DEF PulseInit, PulseInv, PulseTypeOK, MapIsRight, OutOfMap, NeverPanics, OffersToMap, Key

LEMMA DashboardStep ==
    ASSUME PulseInv, NEW d \in Dashboard,
           \/ \E k \in Key : Connect(d, k)
           \/ PumpReceives(d) \/ PumpSeesClose(d) \/ WriteReturns(d)
    PROVE  PulseInv'
<1>1. /\ conn \in [Dashboard -> Conn] /\ UNCHANGED <<hub, clients, capture, broadcast>>
      /\ hub' = [hub EXCEPT !.todo = hub'.todo] /\ hub.todo \subseteq clients
  BY DEF PulseInv, PulseTypeOK, OffersToMap, Conn, Connect, PumpReceives, PumpSeesClose,
         WriteReturns, Move
<1>2. IF d \in clients THEN InMap(d) ELSE OutOfMap(d)
  BY DEF PulseInv, MapIsRight
<1>3. ASSUME NEW k \in Key, Connect(d, k)
      PROVE  PulseInv'
  <2> DEFINE c == [conn[d] EXCEPT !.step = "register", !.key = k]
  <2>1. conn' = [conn EXCEPT ![d] = c] /\ c \in Conn
    BY <1>1, <1>3 DEF Connect, Conn
  <2>2. IF d \in clients' THEN InMap(d)' ELSE OutOfMap(d)'
    BY <1>1, <1>2, <1>3, <2>1 DEF Connect, InMap, OutOfMap, Conn
  <2> QED
    BY <1>1, <2>1, <2>2, OneConnection
<1>4. CASE PumpReceives(d)
  <2> DEFINE c == [conn[d] EXCEPT !.step = "write", !.queued = @ - 1]
  <2>1. conn' = [conn EXCEPT ![d] = c] /\ c \in Conn
    BY <1>1, <1>4, BuffersAssumption DEF PumpReceives, Conn
  <2>2. IF d \in clients' THEN InMap(d)' ELSE OutOfMap(d)'
    BY <1>1, <1>2, <1>4, <2>1 DEF PumpReceives, InMap, OutOfMap, Conn
  <2> QED
    BY <1>1, <2>1, <2>2, OneConnection
<1>5. ASSUME NEW step \in {"close", "pump", "unregister"}, NEW from, Move(d, from, step),
             IF d \in clients THEN step = "pump"
                              ELSE conn[d].closed
      PROVE  PulseInv'
  <2> DEFINE c == [conn[d] EXCEPT !.step = step]
  <2>1. conn' = [conn EXCEPT ![d] = c] /\ c \in Conn
    BY <1>1, <1>5 DEF Move, Conn
  <2>2. IF d \in clients' THEN InMap(d)' ELSE OutOfMap(d)'
    BY <1>1, <1>2, <1>5, <2>1 DEF InMap, OutOfMap, Conn
  <2> QED
    BY <1>1, <2>1, <2>2, OneConnection
<1>6. CASE PumpSeesClose(d)
  BY <1>2, <1>5, <1>6 DEF PumpSeesClose, Move, InMap, OutOfMap
<1>7. CASE WriteReturns(d)
  BY <1>2, <1>5, <1>7 DEF WriteReturns, Move, InMap, OutOfMap
<1> QED
  BY <1>3, <1>4, <1>6, <1>7

\* Run registers, unregisters, offers and drops.
LEMMA RunStep ==
    ASSUME PulseInv, NEW d \in Dashboard,
           HubRegister(d) \/ HubUnregister(d) \/ HubOffers(d)
    PROVE  PulseInv'
<1>1. /\ conn \in [Dashboard -> Conn] /\ hub.todo \subseteq clients
      /\ UNCHANGED <<capture, broadcast>>
  BY DEF PulseInv, PulseTypeOK, OffersToMap, Conn, HubRegister, HubUnregister, HubOffers
<1>2. IF d \in clients THEN InMap(d) ELSE OutOfMap(d)
  BY DEF PulseInv, MapIsRight
<1>3. hub = [step |-> hub.step, todo |-> hub.todo]
  BY DEF PulseInv, PulseTypeOK
<1>4. CASE HubRegister(d)
  <2> DEFINE c == [conn[d] EXCEPT !.step = "pump"]
  <2>1. conn' = [conn EXCEPT ![d] = c] /\ c \in Conn
    BY <1>1, <1>4 DEF HubRegister, Move, Conn
  <2>2. IF d \in clients' THEN InMap(d)' ELSE OutOfMap(d)'
    BY <1>1, <1>2, <1>4, <2>1 DEF HubRegister, Move, InMap, OutOfMap, Conn
  <2>3. hub' = [hub EXCEPT !.todo = hub'.todo] /\ clients' = clients \cup {d}
        /\ hub'.todo \subseteq clients'
    BY <1>1, <1>3, <1>4 DEF HubRegister
  <2> QED
    BY <1>1, <1>4, <2>1, <2>2, <2>3, OneConnection DEF HubRegister
<1>5. CASE HubUnregister(d)
  <2> DEFINE c == [conn[d] EXCEPT !.step = "gone", !.closed = @ \/ d \in clients]
  <2>1. conn' = [conn EXCEPT ![d] = c] /\ c \in Conn
    BY <1>1, <1>5 DEF HubUnregister, Conn
  <2>2. d \notin clients /\ conn[d].closed
    BY <1>2, <1>5 DEF HubUnregister, InMap, OutOfMap
  <2>3. OutOfMap(d)' /\ d \notin clients'
    BY <1>1, <1>5, <2>1, <2>2 DEF HubUnregister, OutOfMap, Conn
  <2>4. hub' = hub /\ clients' = clients \ {d} /\ hub.todo \subseteq clients'
    BY <1>1, <1>5, <2>2 DEF HubUnregister
  <2>5. hub' = [hub EXCEPT !.todo = hub'.todo]
    BY <1>3, <2>4
  <2> QED
    BY <1>1, <2>1, <2>3, <2>4, <2>5, OneConnection
<1>6. CASE HubOffers(d)
  <2>1. d \in clients /\ InMap(d)
    BY <1>1, <1>2, <1>6 DEF HubOffers
  <2>2. hub' = [hub EXCEPT !.todo = hub.todo \ {d}]
    BY <1>6, <2>1 DEF HubOffers, InMap
  <2>3. hub' = [hub EXCEPT !.todo = hub'.todo] /\ hub'.todo = hub.todo \ {d}
    BY <1>3, <2>2
  <2>4. CASE conn[d].queued < SendSize
    <3> DEFINE c == [conn[d] EXCEPT !.queued = @ + 1]
    <3>1. conn' = [conn EXCEPT ![d] = c] /\ c \in Conn /\ clients' = clients
      BY <1>1, <1>6, <2>1, <2>4, BuffersAssumption DEF HubOffers, InMap, Conn
    <3>2. IF d \in clients' THEN InMap(d)' ELSE OutOfMap(d)'
      BY <1>1, <2>1, <3>1 DEF InMap, Conn
    <3> QED
      BY <1>1, <2>3, <3>1, <3>2, OneConnection
  <2>5. CASE ~(conn[d].queued < SendSize)
    <3> DEFINE c == [conn[d] EXCEPT !.closed = TRUE]
    <3>1. conn' = [conn EXCEPT ![d] = c] /\ c \in Conn /\ clients' = clients \ {d}
      BY <1>1, <1>6, <2>1, <2>5 DEF HubOffers, InMap, Conn
    <3>2. IF d \in clients' THEN InMap(d)' ELSE OutOfMap(d)'
      BY <1>1, <2>1, <3>1 DEF InMap, OutOfMap, Conn
    <3> QED
      BY <1>1, <2>3, <3>1, <3>2, OneConnection
  <2> QED
    BY <2>4, <2>5
<1> QED
  BY <1>4, <1>5, <1>6

LEMMA PulseInvStep == PulseInv /\ [PulseNext]_hubVars => PulseInv'
<1> SUFFICES ASSUME PulseInv, [PulseNext]_hubVars
             PROVE  PulseInv'
  OBVIOUS
<1>1. ASSUME NEW c \in Capture, Announce(c) \/ SendToHub(c)
      PROVE  PulseInv'
  <2>1. UNCHANGED <<hub, clients, conn>>
    BY <1>1 DEF Announce, SendToHub
  <2>2. capture' \in [Capture -> [step : {"idle", "send", "done"}, merchant : Merchant]]
    <3>1. capture \in [Capture -> [step : {"idle", "send", "done"}, merchant : Merchant]]
      BY DEF PulseInv, PulseTypeOK
    <3>2. PICK s \in {"send", "done"} : capture' = [capture EXCEPT ![c].step = s]
      BY <1>1 DEF Announce, SendToHub
    <3>3. [capture[c] EXCEPT !.step = s]
          \in [step : {"idle", "send", "done"}, merchant : Merchant]
      BY <3>1
    <3> QED
      BY <3>1, <3>2, <3>3
  <2>3. broadcast' \in Seq(Merchant) /\ Len(broadcast') <= BroadcastSize
    <3>1. /\ broadcast \in Seq(Merchant) /\ Len(broadcast) <= BroadcastSize
          /\ capture[c].merchant \in Merchant
      BY DEF PulseInv, PulseTypeOK
    <3>2. CASE Announce(c)
      BY <3>1, <3>2 DEF Announce
    <3>3. CASE SendToHub(c)
      <4>1. /\ broadcast' = Append(broadcast, capture[c].merchant)
            /\ Len(broadcast) < BroadcastSize
        BY <3>3 DEF SendToHub
      <4> QED
        BY <3>1, <4>1, BuffersAssumption
    <3> QED
      BY <1>1, <3>2, <3>3
  <2> QED
    BY <2>1, <2>2, <2>3
    DEF PulseInv, PulseTypeOK, MapIsRight, InMap, OutOfMap, NeverPanics, OffersToMap
<1>2. ASSUME NEW d \in Dashboard, \/ \E k \in Key : Connect(d, k)
                                  \/ PumpReceives(d) \/ PumpSeesClose(d) \/ WriteReturns(d)
      PROVE  PulseInv'
  BY <1>2, DashboardStep
<1>3. ASSUME NEW d \in Dashboard, HubRegister(d) \/ HubUnregister(d) \/ HubOffers(d)
      PROVE  PulseInv'
  BY <1>3, RunStep
<1>4. CASE HubReceives \/ HubGoesOn
  <2>1. hub'.todo \subseteq clients /\ hub'.step \in {"owner", "admins", "select"}
        /\ hub' \in [step : {"select", "owner", "admins", "dead"}, todo : SUBSET Dashboard]
    BY <1>4 DEF HubReceives, HubGoesOn, PulseInv, PulseTypeOK
  <2>2. UNCHANGED <<clients, conn, capture>>
    BY <1>4 DEF HubReceives, HubGoesOn
  <2>3. broadcast' \in Seq(Merchant) /\ Len(broadcast') <= BroadcastSize
    <3>1. broadcast \in Seq(Merchant) /\ Len(broadcast) <= BroadcastSize
      BY DEF PulseInv, PulseTypeOK
    <3>2. CASE HubReceives
      <4>1. broadcast # <<>> /\ broadcast' = Tail(broadcast)
        BY <3>2 DEF HubReceives
      <4>2. broadcast' \in Seq(Merchant) /\ Len(broadcast') = Len(broadcast) - 1
        BY <3>1, <4>1
      <4> QED
        BY <3>1, <4>2, BuffersAssumption
    <3>3. CASE HubGoesOn
      BY <3>1, <3>3 DEF HubGoesOn
    <3> QED
      BY <1>4, <3>2, <3>3
  <2> QED
    BY <2>1, <2>2, <2>3
    DEF PulseInv, PulseTypeOK, MapIsRight, InMap, OutOfMap, NeverPanics, OffersToMap
<1>5. CASE UNCHANGED hubVars
  BY <1>5
  DEF hubVars, PulseInv, PulseTypeOK, MapIsRight, InMap, OutOfMap, NeverPanics, OffersToMap
<1> QED
  BY <1>1, <1>2, <1>3, <1>4, <1>5 DEF PulseNext, Run

\* The hub's map holds exactly the dashboards whose channel is open and served,
\* whatever they do and however many there are (hub.go:54-119).
THEOREM PulseInvariant == PulseSpec => []PulseInv
BY PulseInvInit, PulseInvStep, PTL DEF PulseSpec

\* Run never sends to a closed channel and never closes one twice, although both
\* the drop of a slow dashboard and the Unregister of its Pump close it: the
\* hub, which is the whole process, does not panic (hub.go:63-85, 107-111).
THEOREM HubNeverPanics == PulseSpec => []NeverPanics
<1>1. PulseInv => NeverPanics
  BY DEF PulseInv
<1> QED
  BY <1>1, PulseInvariant, PTL
=============================================================================
