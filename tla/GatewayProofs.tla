--------------------------- MODULE GatewayProofs ---------------------------
(* Proofs about Gateway, for any set of hosts, sandboxes and clients, any  *)
(* capacity and any number of heartbeats in flight and outages.            *)
EXTENDS Gateway, TLAPS, FiniteSetTheorems

\* A call under way names the host it was placed on and, once the host has
\* answered, a sandbox.
CallsNamed ==
    \A c \in Clients : /\ call[c].pc # "idle" => call[c].host \in Hosts
                       /\ call[c].pc = "created" => call[c].sid \in Sids

\* A registry grows by one row at a time, so counting its rows gives a number.
OwnedFinite == \A h \in Hosts : IsFiniteSet(owned[h])

\* NeverMisrouted is not inductive alone: a wrong heartbeat in flight or a wrong
\* call would make a wrong route.  ReportsOwn excludes both.
GwInv == GwTypeOK /\ CallsNamed /\ OwnedFinite /\ ReportsOwn /\ NeverMisrouted

\* A fresh cluster, with nothing sent and no route.
LEMMA InitGwInv == Init => GwInv
<1> SUFFICES ASSUME Init PROVE GwInv OBVIOUS
<1> USE GatewayAssumption DEF Init, IdleCall, Call
<1>1. GwTypeOK BY DEF GwTypeOK
<1>2. CallsNamed /\ ReportsOwn /\ NeverMisrouted
  BY DEF CallsNamed, ReportsOwn, NeverMisrouted
<1>3. OwnedFinite BY FS_EmptySet DEF OwnedFinite
<1> QED BY <1>1, <1>2, <1>3 DEF GwInv

\* Every message, heartbeat, client call and restart keeps the invariant.
LEMMA NextGwInv == GwInv /\ [Next]_vars => GwInv'
<1> SUFFICES ASSUME GwInv, [Next]_vars PROVE GwInv' OBVIOUS
<1> USE GatewayAssumption
<1> USE DEF GwInv, gwVars
<1>1. ASSUME NEW h \in Hosts, sendHeartbeat(h) PROVE GwInv'
  <2> DEFINE m == [host |-> h, total |-> SlotsOf[h],
                   used |-> Cardinality(owned[h]), ids |-> owned[h]]
  <2>1. Cardinality(owned[h]) \in Nat BY FS_CardinalityType DEF OwnedFinite
  <2>2. m \in Heartbeat /\ \A s \in m.ids : born[s] = m.host
    BY <2>1 DEF GwTypeOK, ReportsOwn, Heartbeat
  <2>3. net' = net \cup {m} /\ UNCHANGED <<owned, born, gwVars, outages>>
    BY <1>1 DEF sendHeartbeat
  <2> HIDE DEF m
  <2>4. GwTypeOK' BY <2>2, <2>3 DEF GwTypeOK
  <2>5. ReportsOwn' BY <2>2, <2>3 DEF ReportsOwn
  <2> QED BY <2>3, <2>4, <2>5 DEF CallsNamed, OwnedFinite, NeverMisrouted
<1>2. ASSUME NEW m \in net, handleRegister(m) PROVE GwInv'
  <2>1. m \in Heartbeat /\ \A s \in m.ids : s \in Sids /\ born[s] = m.host
    BY DEF GwTypeOK, ReportsOwn, Heartbeat
  <2>2. GwTypeOK' BY <1>2, <2>1 DEF handleRegister, GwTypeOK, Heartbeat
  <2>3. NeverMisrouted' BY <1>2, <2>1 DEF handleRegister, NeverMisrouted
  <2>4. (CallsNamed /\ OwnedFinite /\ ReportsOwn)'
    BY <1>2 DEF handleRegister, CallsNamed, OwnedFinite, ReportsOwn
  <2> QED BY <2>2, <2>3, <2>4
<1>3. ASSUME NEW m \in net, LoseHeartbeat(m) PROVE GwInv'
  BY <1>3 DEF LoseHeartbeat, GwTypeOK, CallsNamed, OwnedFinite, ReportsOwn, NeverMisrouted
<1>4. ASSUME NEW h \in Hosts, NEW s \in owned[h], DestroyOnHost(h, s) PROVE GwInv'
  <2>1. OwnedFinite'
    BY <1>4, FS_RemoveElement DEF DestroyOnHost, OwnedFinite, GwTypeOK
  <2>2. GwTypeOK' /\ ReportsOwn' BY <1>4 DEF DestroyOnHost, GwTypeOK, ReportsOwn
  <2> QED BY <1>4, <2>1, <2>2 DEF DestroyOnHost, CallsNamed, NeverMisrouted
<1>5. ASSUME NEW h \in Hosts, HostRestart(h) PROVE GwInv'
  <2>1. OwnedFinite' BY <1>5, FS_EmptySet DEF HostRestart, OwnedFinite, GwTypeOK
  <2>2. GwTypeOK' /\ ReportsOwn' BY <1>5 DEF HostRestart, GwTypeOK, ReportsOwn
  <2> QED BY <1>5, <2>1, <2>2 DEF HostRestart, CallsNamed, NeverMisrouted
<1>6. ASSUME NEW c \in Clients, Place(c) PROVE GwInv'
  <2> USE DEF Place, Call
  <2>1. GwTypeOK' BY <1>6 DEF GwTypeOK
  <2>2. (CallsNamed /\ ReportsOwn)' BY <1>6 DEF CallsNamed, ReportsOwn, GwTypeOK
  <2> QED BY <1>6, <2>1, <2>2 DEF OwnedFinite, NeverMisrouted
<1>7. ASSUME NEW c \in Clients, CreateOnHost(c) PROVE GwInv'
  <2> DEFINE h == call[c].host
  <2>0. h \in Hosts BY <1>7 DEF CreateOnHost, CallsNamed
  <2>1. PICK s \in Sids :
            /\ born[s] = NoHost
            /\ born' = [born EXCEPT ![s] = h]
            /\ owned' = [owned EXCEPT ![h] = @ \cup {s}]
            /\ call' = [call EXCEPT ![c] = [pc |-> "created", host |-> h, sid |-> s]]
    BY <1>7 DEF CreateOnHost
  <2>2. UNCHANGED <<net, known, fresh, total, used, route, outages>>
    BY <1>7 DEF CreateOnHost
  <2>3. GwTypeOK'
    <3>1. call' \in [Clients -> Call] BY <2>0, <2>1 DEF GwTypeOK, Call
    <3>2. owned' \in [Hosts -> SUBSET Sids] BY <2>1 DEF GwTypeOK
    <3>3. born' \in [Sids -> Hosts \cup {NoHost}] BY <2>0, <2>1 DEF GwTypeOK
    <3> QED BY <2>2, <3>1, <3>2, <3>3 DEF GwTypeOK
  <2>a. \A d \in Clients : d # c => call'[d] = call[d]
    BY <2>1 DEF GwTypeOK
  <2>b. call'[c].host = h /\ call'[c].sid = s BY <2>1 DEF GwTypeOK, Call
  <2>4. CallsNamed' BY <2>0, <2>a, <2>b DEF CallsNamed
  <2>5. OwnedFinite'
    <3>1. IsFiniteSet(owned[h] \cup {s}) BY <2>0, FS_AddElement DEF OwnedFinite
    <3> QED BY <2>0, <2>1, <3>1 DEF OwnedFinite, GwTypeOK
  \* s is fresh: nothing that names a sandbox can name it yet.
  <2>6. ReportsOwn'
    <3>1. (\A m \in net : \A x \in m.ids : born[x] = m.host)'
      BY <2>1, <2>2 DEF ReportsOwn, GwTypeOK, Heartbeat
    <3>2. (\A g \in Hosts : \A x \in owned[g] : born[x] = g)'
      BY <2>0, <2>1 DEF ReportsOwn, GwTypeOK
    <3>3. (\A d \in Clients : call[d].pc = "created" =>
              call[d].host \in Hosts /\ born[call[d].sid] = call[d].host)'
      BY <2>0, <2>1 DEF ReportsOwn, CallsNamed, GwTypeOK, Call
    <3> QED BY <3>1, <3>2, <3>3 DEF ReportsOwn
  <2>7. NeverMisrouted' BY <2>1, <2>2 DEF NeverMisrouted, GwTypeOK
  <2> QED BY <2>3, <2>4, <2>5, <2>6, <2>7
<1>8. ASSUME NEW c \in Clients, CreateFails(c) PROVE GwInv'
  <2> USE DEF CreateFails, Call, IdleCall
  <2>1. GwTypeOK' BY <1>8 DEF GwTypeOK
  <2>2. (CallsNamed /\ ReportsOwn)' BY <1>8 DEF CallsNamed, ReportsOwn, GwTypeOK
  <2> QED BY <1>8, <2>1, <2>2 DEF OwnedFinite, NeverMisrouted
<1>9. ASSUME NEW c \in Clients, RecordRoute(c) PROVE GwInv'
  <2> USE DEF RecordRoute, Call, IdleCall
  <2>1. call[c].host \in Hosts /\ call[c].sid \in Sids /\ born[call[c].sid] = call[c].host
    BY <1>9 DEF ReportsOwn, CallsNamed
  <2>2. GwTypeOK' BY <1>9, <2>1 DEF GwTypeOK
  <2>3. (CallsNamed /\ ReportsOwn)' BY <1>9 DEF CallsNamed, ReportsOwn, GwTypeOK
  <2>4. NeverMisrouted' BY <1>9, <2>1 DEF NeverMisrouted, GwTypeOK
  <2> QED BY <1>9, <2>2, <2>3, <2>4 DEF OwnedFinite
<1>10. ASSUME NEW h \in Hosts, GoStale(h) PROVE GwInv'
  BY <1>10 DEF GoStale, GwTypeOK, CallsNamed, OwnedFinite, ReportsOwn, NeverMisrouted
<1>11. CASE prune
  BY <1>11 DEF prune, GwTypeOK, CallsNamed, OwnedFinite, ReportsOwn, NeverMisrouted
<1>12. CASE GatewayRestart
  BY <1>12 DEF GatewayRestart, IdleCall, Call, GwTypeOK, CallsNamed, OwnedFinite,
               ReportsOwn, NeverMisrouted
<1>13. CASE UNCHANGED vars
  BY <1>13 DEF vars, GwTypeOK, CallsNamed, OwnedFinite, ReportsOwn, NeverMisrouted
<1> QED BY <1>1, <1>2, <1>3, <1>4, <1>5, <1>6, <1>7, <1>8, <1>9, <1>10, <1>11,
           <1>12, <1>13 DEF Next

\* Hence it always holds.
LEMMA GatewayInvariant == Spec => []GwInv
BY InitGwInv, NextGwInv, PTL DEF Spec

\* The gateway's tables, the heartbeats in flight and the calls stay well-formed:
\* no handler stores a slot count below zero or a route to an unknown name.
THEOREM GatewayTyped == Spec => []GwTypeOK
<1>1. GwInv => GwTypeOK BY DEF GwInv
<1> QED BY GatewayInvariant, <1>1, PTL

\* Every request goes to the host that created its sandbox or nowhere:
\* handleRegister, handleCreate and pruneLoop keep it so under late, lost and
\* reordered heartbeats and restarts on either side.
THEOREM GatewayRoutesRight == Spec => []NeverMisrouted
<1>1. GwInv => NeverMisrouted BY DEF GwInv
<1> QED BY GatewayInvariant, <1>1, PTL

\* Whatever sendHeartbeat has put on the way and whatever a handleCreate is about
\* to record names only sandboxes of the host it comes from, although sandboxes
\* are created, destroyed and lost with their hosts meanwhile.
THEOREM GatewayReportsOwn == Spec => []ReportsOwn
<1>1. GwInv => ReportsOwn BY DEF GwInv
<1> QED BY GatewayInvariant, <1>1, PTL

\* A step takes a route away only by the report of its own host, by pruning
\* that host or by a restart of the gateway.
LEMMA StepUndisturbed ==
    ASSUME GwInv, GwInv', [Next]_vars, NEW s \in Sids, route[s] # NoHost, route'[s] # route[s]
    PROVE  \/ \E m \in net \ net' : m.host = route[s]
           \/ route[s] \in known \ known'
           \/ outages' > outages
<1> USE GatewayAssumption DEF gwVars
<1>1. ASSUME NEW m \in net, handleRegister(m) PROVE \E n \in net \ net' : n.host = route[s]
  <2>1. s \in m.ids => m.host = route[s]
    BY DEF GwInv, ReportsOwn, NeverMisrouted
  <2>2. m.host = route[s] BY <1>1, <2>1 DEF handleRegister
  <2> QED BY <1>1, <2>2 DEF handleRegister
<1>2. ASSUME NEW c \in Clients, RecordRoute(c) PROVE FALSE
  <2>1. call[c].sid \in Sids /\ call[c].host = born[call[c].sid]
    BY <1>2 DEF RecordRoute, GwInv, ReportsOwn, CallsNamed
  <2>2. route'[s] = route[s]
    BY <1>2, <2>1 DEF RecordRoute, GwInv, GwTypeOK, NeverMisrouted
  <2> QED BY <2>2
<1>3. CASE prune BY <1>3 DEF prune, GwInv, GwTypeOK
<1>4. CASE GatewayRestart
  BY <1>4 DEF GatewayRestart, GwInv, GwTypeOK
<1>5. ASSUME UNCHANGED route PROVE FALSE BY <1>5
<1>6. ASSUME NEW h \in Hosts, sendHeartbeat(h) \/ HostRestart(h) \/ GoStale(h)
      PROVE  UNCHANGED route
  BY <1>6 DEF sendHeartbeat, HostRestart, GoStale
<1>7. ASSUME NEW c \in Clients, Place(c) \/ CreateOnHost(c) \/ CreateFails(c)
      PROVE  UNCHANGED route
  BY <1>7 DEF Place, CreateOnHost, CreateFails
<1>8. ASSUME NEW m \in net, LoseHeartbeat(m) PROVE UNCHANGED route
  BY <1>8 DEF LoseHeartbeat
<1>9. ASSUME NEW h \in Hosts, NEW x \in owned[h], DestroyOnHost(h, x) PROVE UNCHANGED route
  BY <1>9 DEF DestroyOnHost
<1>10. UNCHANGED vars => UNCHANGED route BY DEF vars
<1> QED BY <1>1, <1>2, <1>3, <1>4, <1>5, <1>6, <1>7, <1>8, <1>9, <1>10 DEF Next

\* One host's heartbeats never disturb the routes of another host's sandboxes.
THEOREM GatewayRoutesUndisturbed == Spec => RoutesUndisturbed
<1>1. GwInv /\ GwInv' /\ [Next]_vars =>
        [\A s \in Sids : route[s] # NoHost /\ route'[s] # route[s] =>
          \/ \E m \in net \ net' : m.host = route[s]
          \/ route[s] \in known \ known'
          \/ outages' > outages]_vars
  BY StepUndisturbed
<1> QED BY GatewayInvariant, <1>1, PTL DEF Spec, RoutesUndisturbed
=============================================================================
