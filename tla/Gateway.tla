------------------------------ MODULE Gateway ------------------------------
(***************************************************************************)
(* The multi-host control plane: internal/gateway, the heartbeats of       *)
(* internal/server/heartbeat.go, and as much of a host as they see (the    *)
(* set of its running rows and its capacity).  The gateway keeps no        *)
(* durable state: hosts and routes are rebuilt from heartbeats.            *)
(*                                                                         *)
(* A heartbeat is an HTTP request with a 5 s client timeout.  After the    *)
(* timeout the host sends the next one although the gateway may still be   *)
(* about to handle the first, so heartbeats can be lost, late and out of   *)
(* order.  time.Since(lastSeen) > ttl is the predicate "not in fresh".     *)
(***************************************************************************)
EXTENDS Integers, FiniteSets

CONSTANTS
    Hosts,     \* host ids
    Sids,      \* sandbox ids (fresh uuids)
    Clients,   \* concurrent POST /sandboxes at the gateway
    NoHost, NoSid,
    SlotsOf,   \* Pools.Slots() of each host
    MaxNet,    \* bound: heartbeats in flight per host
    MaxOutages \* bound: restarts of the gateway or of a host

ASSUME GatewayAssumption ==
    /\ NoHost \notin Hosts /\ NoSid \notin Sids
    /\ SlotsOf \in [Hosts -> Nat]
    /\ MaxNet \in Nat /\ MaxOutages \in Nat

VARIABLES
    owned,   \* hosts: running rows of each host's registry
    born,    \* history: the host whose registry created a sandbox
    net,     \* heartbeats in flight
    known,   \* gateway: keys of g.hosts
    fresh,   \* gateway: hosts seen within ttl
    total,   \* gateway: slotsTotal of a known host
    used,    \* gateway: slotsUsed of a known host
    route,   \* gateway: g.route
    call,    \* gateway: local state of each handleCreate
    outages

gwVars == <<known, fresh, total, used, route, call>>
vars == <<owned, born, net, gwVars, outages>>

Heartbeat == [host : Hosts, total : Nat, used : Nat, ids : SUBSET Sids]
Call == [pc : {"idle", "placed", "created"}, host : Hosts \cup {NoHost},
         sid : Sids \cup {NoSid}]
IdleCall == [pc |-> "idle", host |-> NoHost, sid |-> NoSid]

-----------------------------------------------------------------------------
(* Hosts *)

\* sendHeartbeat: the ids of the running rows, read before the request is sent.
sendHeartbeat(h) ==
    /\ Cardinality({m \in net : m.host = h}) < MaxNet
    /\ net' = net \cup {[host |-> h, total |-> SlotsOf[h],
                         used |-> Cardinality(owned[h]), ids |-> owned[h]]}
    /\ UNCHANGED <<owned, born, gwVars, outages>>

\* A request that fails is only logged.
LoseHeartbeat(m) ==
    /\ net' = net \ {m}
    /\ UNCHANGED <<owned, born, gwVars, outages>>

\* A sandbox is destroyed: by a proxied DELETE, the reaper, or a failed create.
DestroyOnHost(h, s) ==
    /\ s \in owned[h]
    /\ owned' = [owned EXCEPT ![h] = @ \ {s}]
    /\ UNCHANGED <<born, net, gwVars, outages>>

\* A host restarts: reconcile destroys every row.
HostRestart(h) ==
    /\ outages < MaxOutages
    /\ outages' = outages + 1
    /\ owned' = [owned EXCEPT ![h] = {}]
    /\ UNCHANGED <<born, net, gwVars>>

-----------------------------------------------------------------------------
(* Gateway *)

\* A slip: every route that is not reported is dropped, whoever owns it.
handleRegisterDropsAll(m) ==
    /\ net' = net \ {m}
    /\ known' = known \cup {m.host}
    /\ fresh' = fresh \cup {m.host}
    /\ total' = [total EXCEPT ![m.host] = m.total]
    /\ used' = [used EXCEPT ![m.host] = m.used]
    /\ route' = [s \in Sids |-> IF s \in m.ids THEN m.host ELSE NoHost]
    /\ UNCHANGED <<owned, born, call, outages>>

\* A slip: routes are taken from a host's first report only.
handleRegisterOnce(m) ==
    /\ net' = net \ {m}
    /\ known' = known \cup {m.host}
    /\ fresh' = fresh \cup {m.host}
    /\ total' = [total EXCEPT ![m.host] = m.total]
    /\ used' = [used EXCEPT ![m.host] = m.used]
    /\ route' = [s \in Sids |-> IF s \in m.ids /\ m.host \notin known THEN m.host ELSE route[s]]
    /\ UNCHANGED <<owned, born, call, outages>>

\* handleRegister, under the lock: upsert the host, drop its routes, add the
\* reported ones.
handleRegister(m) ==
    /\ net' = net \ {m}
    /\ known' = known \cup {m.host}
    /\ fresh' = fresh \cup {m.host}
    /\ total' = [total EXCEPT ![m.host] = m.total]
    /\ used' = [used EXCEPT ![m.host] = m.used]
    /\ route' = [s \in Sids |-> IF s \in m.ids THEN m.host
                                ELSE IF route[s] = m.host THEN NoHost
                                ELSE route[s]]
    /\ UNCHANGED <<owned, born, call, outages>>

free(h) == IF total[h] <= used[h] THEN 0 ELSE total[h] - used[h]

\* pickHost: a live host with free slots, none of which has more.
pickHost(h) ==
    /\ h \in known \cap fresh
    /\ free(h) > 0
    /\ \A g \in known \cap fresh : free(g) <= free(h)

\* handleCreate, first part: the choice, after which the lock is released.
Place(c) ==
    /\ call[c].pc = "idle"
    /\ \E h \in Hosts : /\ pickHost(h)
                        /\ call' = [call EXCEPT ![c] = [pc |-> "placed", host |-> h, sid |-> NoSid]]
    /\ UNCHANGED <<owned, born, net, known, fresh, total, used, route, outages>>

\* A slip: the create is retried on another host, and the first is remembered.
CreateOnAnyHost(c) ==
    /\ call[c].pc = "placed"
    /\ \E h \in Hosts, s \in Sids :
          /\ Cardinality(owned[h]) < SlotsOf[h]
          /\ born[s] = NoHost
          /\ born' = [born EXCEPT ![s] = h]
          /\ owned' = [owned EXCEPT ![h] = @ \cup {s}]
          /\ call' = [call EXCEPT ![c].pc = "created", ![c].sid = s]
    /\ UNCHANGED <<net, known, fresh, total, used, route, outages>>

\* The host's own handleCreate inserts a row if its pools allow.
CreateOnHost(c) ==
    LET h == call[c].host IN
    /\ call[c].pc = "placed"
    /\ Cardinality(owned[h]) < SlotsOf[h]
    /\ \E s \in Sids :
          /\ born[s] = NoHost
          /\ born' = [born EXCEPT ![s] = h]
          /\ owned' = [owned EXCEPT ![h] = @ \cup {s}]
          /\ call' = [call EXCEPT ![c] = [pc |-> "created", host |-> h, sid |-> s]]
    /\ UNCHANGED <<net, known, fresh, total, used, route, outages>>

\* A slip: a failed create gives back a slot it never took.
CreateFailsRefunds(c) ==
    /\ call[c].pc # "idle"
    /\ call' = [call EXCEPT ![c] = IdleCall]
    /\ used' = [used EXCEPT ![call[c].host] = @ - 1]
    /\ UNCHANGED <<owned, born, net, known, fresh, total, route, outages>>

\* The host refuses, the create fails there or its answer is lost: 502, no route.
CreateFails(c) ==
    /\ call[c].pc # "idle"
    /\ call' = [call EXCEPT ![c] = IdleCall]
    /\ UNCHANGED <<owned, born, net, known, fresh, total, used, route, outages>>

\* A slip: the host is picked a second time when the route is recorded.
RecordRouteRepicked(c) ==
    /\ call[c].pc = "created"
    /\ \E h \in Hosts : /\ pickHost(h)
                        /\ route' = [route EXCEPT ![call[c].sid] = h]
                        /\ used' = [used EXCEPT ![h] = @ + 1]
    /\ call' = [call EXCEPT ![c] = IdleCall]
    /\ UNCHANGED <<owned, born, net, known, fresh, total, outages>>

\* handleCreate, last part, under the lock: the route is recorded even if the
\* host was pruned meanwhile, the slot is charged only to a known host.
RecordRoute(c) ==
    LET h == call[c].host IN
    /\ call[c].pc = "created"
    /\ route' = [route EXCEPT ![call[c].sid] = h]
    /\ used' = IF h \in known THEN [used EXCEPT ![h] = @ + 1] ELSE used
    /\ call' = [call EXCEPT ![c] = IdleCall]
    /\ UNCHANGED <<owned, born, net, known, fresh, total, outages>>

\* ttl passes without a heartbeat of the host.
GoStale(h) ==
    /\ h \in fresh
    /\ fresh' = fresh \ {h}
    /\ UNCHANGED <<owned, born, net, known, total, used, route, call, outages>>

\* pruneLoop, under the lock: stale hosts go, with their routes.
prune ==
    LET stale == known \ fresh IN
    /\ stale # {}
    /\ known' = known \ stale
    /\ route' = [s \in Sids |-> IF route[s] \in stale THEN NoHost ELSE route[s]]
    /\ UNCHANGED <<owned, born, net, fresh, total, used, call, outages>>

GatewayRestart ==
    /\ outages < MaxOutages
    /\ outages' = outages + 1
    /\ known' = {} /\ fresh' = {}
    /\ route' = [s \in Sids |-> NoHost]
    /\ call' = [c \in Clients |-> IdleCall]
    /\ UNCHANGED <<owned, born, net, total, used>>

\* handleProxyByID: the host a request for s is sent to, NoHost for a 404.
ProxyTarget(s) == IF route[s] \in known THEN route[s] ELSE NoHost

-----------------------------------------------------------------------------
Init ==
    /\ owned = [h \in Hosts |-> {}]
    /\ born = [s \in Sids |-> NoHost]
    /\ net = {} /\ known = {} /\ fresh = {}
    /\ total = [h \in Hosts |-> 0] /\ used = [h \in Hosts |-> 0]
    /\ route = [s \in Sids |-> NoHost]
    /\ call = [c \in Clients |-> IdleCall]
    /\ outages = 0

Next ==
    \/ \E h \in Hosts : sendHeartbeat(h) \/ HostRestart(h) \/ GoStale(h)
    \/ \E h \in Hosts : \E s \in owned[h] : DestroyOnHost(h, s)
    \/ \E m \in net : handleRegister(m) \/ LoseHeartbeat(m)
    \/ \E c \in Clients : Place(c) \/ CreateOnHost(c) \/ CreateFails(c) \/ RecordRoute(c)
    \/ prune
    \/ GatewayRestart

Spec == Init /\ [][Next]_vars

\* The heartbeat a host in its present state would send arrives.
ReportArrives(h) ==
    \E m \in net : m.host = h /\ m.ids = owned[h] /\ handleRegister(m)

\* A request in flight is handled or times out.
RequestEnds(h) ==
    \E m \in net : m.host = h /\ (handleRegister(m) \/ LoseHeartbeat(m))

\* Heartbeats are retried for ever and the link is not down for ever: the
\* ticker keeps sending, and what is sent again and again gets through.
FairSpec ==
    /\ Spec
    /\ \A h \in Hosts : /\ WF_vars(sendHeartbeat(h))
                        /\ WF_vars(RequestEnds(h))
                        /\ SF_vars(ReportArrives(h))

-----------------------------------------------------------------------------
(* Properties *)

\* The gateway's tables, the heartbeats and the calls are well-formed.
GwTypeOK ==
    /\ owned \in [Hosts -> SUBSET Sids]
    /\ born \in [Sids -> Hosts \cup {NoHost}]
    /\ net \subseteq Heartbeat
    /\ known \subseteq Hosts /\ fresh \subseteq Hosts
    /\ total \in [Hosts -> Nat] /\ used \in [Hosts -> Nat]
    /\ route \in [Sids -> Hosts \cup {NoHost}]
    /\ call \in [Clients -> Call]
    /\ outages \in Nat

\* A request for a sandbox is sent to the host that created it or to none,
\* whatever heartbeats are late, lost or out of order and whoever restarts.
NeverMisrouted == \A s \in Sids : route[s] # NoHost => route[s] = born[s]

\* A heartbeat names only sandboxes of its sender, a call only a sandbox of its
\* host, a registry only its own: why no route can be wrong.
ReportsOwn ==
    /\ \A m \in net : \A s \in m.ids : born[s] = m.host
    /\ \A c \in Clients : call[c].pc = "created" =>
          call[c].host \in Hosts /\ born[call[c].sid] = call[c].host
    /\ \A h \in Hosts : \A s \in owned[h] : born[s] = h

\* Only its own host's report, the pruning of that host or a restart of the
\* gateway takes a sandbox's route away: one host's heartbeat never disturbs
\* the sandboxes of another.
RoutesUndisturbed ==
    [][\A s \in Sids : route[s] # NoHost /\ route'[s] # route[s] =>
          \/ \E m \in net \ net' : m.host = route[s]
          \/ route[s] \in known \ known'
          \/ outages' > outages]_vars

\* A sandbox that lives on becomes reachable: after any loss, pruning or
\* restart, a later heartbeat restores its route (gateway.go:7-10, "it
\* self-heals after a restart once every host has reported once").
RoutesHeal ==
    \A h \in Hosts, s \in Sids :
        (s \in owned[h]) ~> (s \notin owned[h] \/ ProxyTarget(s) = h)
=============================================================================
