------------------------------ MODULE Registry ------------------------------
(***************************************************************************)
(* The SQLite registry of internal/registry/registry.go: the tables        *)
(* sandboxes, sandbox_ports and snapshots, and every operation that        *)
(* changes them.  The database is opened with one connection               *)
(* (SetMaxOpenConns(1)), so an operation is one atomic step.               *)
(*                                                                         *)
(* A table is a set of rows.  A tap is its index (the code's name is       *)
(* TapPrefix followed by the index), an IPv4 address is its 32-bit number, *)
(* a rootfs path is the id of the sandbox the file is named after.  Every  *)
(* row ever written has status 'running', so the column and the partial    *)
(* WHERE of the unique indexes are left out.                               *)
(***************************************************************************)
EXTENDS Integers, FiniteSets

CONSTANTS
    Ids,        \* sandbox ids (uuids), as naturals
    SnapIds,    \* snapshot ids
    GuestPorts, \* guest ports a client may expose besides the primary one
    Pids,       \* firecracker process ids
    Deadlines,  \* expires_at values (unix seconds)
    TapMax, IpMin, IpMax, PortMin, PortMax, \* registry.Pools
    IpSpace     \* 2^32, the number of IPv4 addresses

\* SQL NULL in expires_at, and the pid of a row whose VM is not recorded yet.
NULL == -1
NoPid == 0

\* Pool bounds are what config.go loads: naturals, with the address range
\* inside the address space.  A pool may be empty (max < min).
ASSUME PoolsAssumption ==
    /\ TapMax \in Nat /\ IpSpace \in Nat \ {0}
    /\ IpMin \in Nat /\ IpMax \in Nat /\ IpMax < IpSpace /\ IpMin < IpSpace
    /\ PortMin \in Nat /\ PortMax \in Nat

ASSUME IdsAssumption ==
    /\ Ids \subseteq Nat \ {0} /\ Pids \subseteq Nat \ {0}
    /\ GuestPorts \subseteq Nat /\ Deadlines \subseteq Nat

VARIABLES
    sandboxes,     \* table sandboxes
    sandbox_ports, \* table sandbox_ports
    snapshots      \* table snapshots

regVars == <<sandboxes, sandbox_ports, snapshots>>

Taps == 0 .. TapMax - 1
IPs == IpMin .. IpMax
HostPorts == PortMin .. PortMax

Sandbox == [id : Ids, pid : Pids \cup {NoPid}, tap : Taps, ip : IPs,
            port : HostPorts, rootfs : Ids, expires : Deadlines \cup {NULL}]

PortRow == [id : Ids, guest : GuestPorts, host : HostPorts]

Snapshot == [id : SnapIds, source : Ids, tap : Taps, ip : IPs, rootfs : Ids]

-----------------------------------------------------------------------------
(* Reads *)

\* Get: the rows with this id (none when the query answers ErrNoRows).
Get(id) == {r \in sandboxes : r.id = id}

\* A slip: the sandbox is missing from the WHERE clause.
PortsOfAll(id) == sandbox_ports

\* Ports: the extra mappings of a sandbox.
Ports(id) == {m \in sandbox_ports : m.id = id}

\* Expired: running rows whose deadline lies strictly before now.
Expired(now) == {r \in sandboxes : r.expires # NULL /\ r.expires < now}

GetSnapshot(sid) == {s \in snapshots : s.id = sid}

\* A slip: the second query of loadUsed is forgotten.
UsedPortsPrimaryOnly == {r.port : r \in sandboxes}

\* loadUsed: the taps, addresses and host ports in use.  Host ports come from
\* both tables.
UsedTaps == {r.tap : r \in sandboxes}
UsedIPs == {r.ip : r \in sandboxes}
UsedPorts == {r.port : r \in sandboxes} \cup {m.host : m \in sandbox_ports}

\* pickFreeTap, pickFreeIP, pickFreePort: the first value of the pool, in
\* ascending order, that is not in use.
FirstFree(x, pool, used) ==
    /\ x \in pool \ used
    /\ \A y \in pool \ used : x <= y

\* A slip: the scan goes on after the highest address in use.
pickNextIP(a) ==
    FirstFree(a, IPs, UsedIPs \cup {b \in IPs : \E u \in UsedIPs : b < u})

pickFreeTap(t) == FirstFree(t, Taps, UsedTaps)
pickFreeIP(a) == FirstFree(a, IPs, UsedIPs)
pickFreePort(p) == FirstFree(p, HostPorts, UsedPorts)

\* A slip: the tap pool is not counted.
SlotsWithoutTaps == PortMax - PortMin + 1

\* Pools.Slots: the capacity a host advertises, the smallest of the three
\* pools.  The address difference is computed in uint32.
Slots ==
    LET ipCount == ((IpMax - IpMin) % IpSpace) + 1
        portCount == PortMax - PortMin + 1
        least == CHOOSE n \in {TapMax, portCount, ipCount} :
                     \A m \in {TapMax, portCount, ipCount} : n <= m
    IN  IF least < 0 THEN 0 ELSE least

-----------------------------------------------------------------------------
(* Writes.  An operation is enabled when it commits; its error answers     *)
(* leave the tables as they are and are named by the ...Fails predicates.  *)

\* The unique indexes of migrate(): a row may be inserted only if its key and
\* its resources are not those of a row of the same table.
InsertSandbox(row) ==
    /\ \A r \in sandboxes : /\ r.id # row.id
                            /\ r.tap # row.tap
                            /\ r.ip # row.ip
                            /\ r.port # row.port
    /\ sandboxes' = sandboxes \cup {row}

InsertPort(row) ==
    /\ \A m \in sandbox_ports : /\ ~(m.id = row.id /\ m.guest = row.guest)
                                /\ m.host # row.host
    /\ sandbox_ports' = sandbox_ports \cup {row}

Create(id, rootfs, expires) ==
    /\ \E t \in Taps, a \in IPs, p \in HostPorts :
          /\ pickFreeTap(t) /\ pickFreeIP(a) /\ pickFreePort(p)
          /\ InsertSandbox([id |-> id, pid |-> NoPid, tap |-> t, ip |-> a,
                            port |-> p, rootfs |-> rootfs, expires |-> expires])
    /\ UNCHANGED <<sandbox_ports, snapshots>>

CreateFails ==
    Taps \subseteq UsedTaps \/ IPs \subseteq UsedIPs \/ HostPorts \subseteq UsedPorts

\* CreateRestore: tap and address come from the snapshot and must both be free.
CreateRestore(id, rootfs, tap, ip, expires) ==
    /\ tap \notin UsedTaps
    /\ ip \notin UsedIPs
    /\ \E p \in HostPorts :
          /\ pickFreePort(p)
          /\ InsertSandbox([id |-> id, pid |-> NoPid, tap |-> tap, ip |-> ip,
                            port |-> p, rootfs |-> rootfs, expires |-> expires])
    /\ UNCHANGED <<sandbox_ports, snapshots>>

CreateRestoreFails(tap, ip) ==
    tap \in UsedTaps \/ ip \in UsedIPs \/ HostPorts \subseteq UsedPorts

\* FinishStart: an UPDATE that must affect a row.
FinishStart(id, pid) ==
    /\ Get(id) # {}
    /\ sandboxes' = {IF r.id = id THEN [r EXCEPT !.pid = pid] ELSE r : r \in sandboxes}
    /\ UNCHANGED <<sandbox_ports, snapshots>>

\* A slip: no deadline is stored as the zero time instead of NULL.
SetExpiryZero(id, expires) ==
    /\ Get(id) # {}
    /\ sandboxes' = {IF r.id = id THEN [r EXCEPT !.expires = IF expires = NULL THEN 0 ELSE expires]
                                 ELSE r : r \in sandboxes}
    /\ UNCHANGED <<sandbox_ports, snapshots>>

SetExpiry(id, expires) ==
    /\ Get(id) # {}
    /\ sandboxes' = {IF r.id = id THEN [r EXCEPT !.expires = expires] ELSE r : r \in sandboxes}
    /\ UNCHANGED <<sandbox_ports, snapshots>>

\* A slip: the mappings are not deleted with the row.
DestroyRowOnly(id) ==
    /\ Get(id) # {}
    /\ sandboxes' = sandboxes \ Get(id)
    /\ UNCHANGED <<sandbox_ports, snapshots>>

\* Destroy: both deletes in one transaction, rolled back if there is no row.
Destroy(id) ==
    /\ Get(id) # {}
    /\ sandboxes' = sandboxes \ Get(id)
    /\ sandbox_ports' = sandbox_ports \ Ports(id)
    /\ UNCHANGED snapshots

\* AddPort on a guest port not mapped yet; an existing mapping is returned and
\* nothing is written.
AddPort(id, guest) ==
    /\ Get(id) # {}
    /\ \A m \in Ports(id) : m.guest # guest
    /\ \E p \in HostPorts :
          /\ pickFreePort(p)
          /\ InsertPort([id |-> id, guest |-> guest, host |-> p])
    /\ UNCHANGED <<sandboxes, snapshots>>

AddPortFails(id, guest) ==
    \/ Get(id) = {}
    \/ /\ \A m \in Ports(id) : m.guest # guest
       /\ HostPorts \subseteq UsedPorts

\* DeletePort does not require the mapping to exist.
DeletePort(id, guest) ==
    /\ sandbox_ports' = {m \in sandbox_ports : ~(m.id = id /\ m.guest = guest)}
    /\ UNCHANGED <<sandboxes, snapshots>>

\* CreateSnapshot records the tap, address and disk path of a sandbox row read
\* earlier by handleSnapshot.
CreateSnapshot(sid, sb) ==
    /\ GetSnapshot(sid) = {}
    /\ snapshots' = snapshots \cup {[id |-> sid, source |-> sb.id, tap |-> sb.tap,
                                     ip |-> sb.ip, rootfs |-> sb.rootfs]}
    /\ UNCHANGED <<sandboxes, sandbox_ports>>

DeleteSnapshot(sid) ==
    /\ GetSnapshot(sid) # {}
    /\ snapshots' = snapshots \ GetSnapshot(sid)
    /\ UNCHANGED <<sandboxes, sandbox_ports>>

-----------------------------------------------------------------------------
(* The registry on its own: any sequence of operations its callers make.   *)

RegInit == sandboxes = {} /\ sandbox_ports = {} /\ snapshots = {}

\* A handler passes CreateSnapshot a row, and CreateRestore a snapshot, that it
\* read earlier, which may have been changed or deleted since.  All that is left
\* of it is its id, its disk path, and a tap and address handed out together:
\* it was read in an earlier state, where Paired held.
TogetherAddr(x) == x.ip = IpMin + x.tap
ReadRows == {x \in [id : Ids, tap : Taps, ip : IPs, rootfs : Ids] : TogetherAddr(x)}

\* Ids are fresh uuids: no live row has the id a create is given.
RegCreate == \E id \in Ids, e \in Deadlines \cup {NULL} :
                 Get(id) = {} /\ Create(id, id, e)
RegCreateRestore == \E id \in Ids, s \in ReadRows, e \in Deadlines \cup {NULL} :
                        Get(id) = {} /\ CreateRestore(id, s.rootfs, s.tap, s.ip, e)
RegFinishStart == \E id \in Ids, pid \in Pids : FinishStart(id, pid)
RegSetExpiry == \E id \in Ids, e \in Deadlines \cup {NULL} : SetExpiry(id, e)
RegDestroy == \E id \in Ids : Destroy(id)
RegAddPort == \E id \in Ids, g \in GuestPorts : AddPort(id, g)
RegDeletePort == \E id \in Ids, g \in GuestPorts : DeletePort(id, g)
RegCreateSnapshot == \E sid \in SnapIds, sb \in ReadRows : CreateSnapshot(sid, sb)
RegDeleteSnapshot == \E sid \in SnapIds : DeleteSnapshot(sid)

RegNext ==
    \/ RegCreate
    \/ RegCreateRestore
    \/ RegFinishStart
    \/ RegSetExpiry
    \/ RegDestroy
    \/ RegAddPort
    \/ RegDeletePort
    \/ RegCreateSnapshot
    \/ RegDeleteSnapshot

RegSpec == RegInit /\ [][RegNext]_regVars

-----------------------------------------------------------------------------
(* Properties *)

\* Every row of the three tables has the columns migrate() declares.
RegTypeOK ==
    /\ sandboxes \subseteq Sandbox
    /\ sandbox_ports \subseteq PortRow
    /\ snapshots \subseteq Snapshot

\* No two rows of sandboxes share an id, a tap, an address or a primary port.
RowsExclusive ==
    \A r, s \in sandboxes :
        (r.id = s.id \/ r.tap = s.tap \/ r.ip = s.ip \/ r.port = s.port) => r = s

\* No two extra mappings share a host port or a (sandbox, guest port) key.
ExtraExclusive ==
    \A m, n \in sandbox_ports :
        (m.host = n.host \/ (m.id = n.id /\ m.guest = n.guest)) => m = n

\* Every resource has at most one holder.  No index spans the two tables: that
\* a host port is never both a primary and an extra port rests on loadUsed
\* reading both and on the single connection (registry.go Create, AddPort).
Exclusive ==
    /\ RowsExclusive
    /\ ExtraExclusive
    /\ \A r \in sandboxes, m \in sandbox_ports : r.port # m.host

\* Every extra mapping belongs to a live sandbox: a mapping that outlived its
\* sandbox would hold a host port that nothing frees (AddPort checks the row,
\* Destroy deletes the mappings in the same transaction).
PortsOwned == \A m \in sandbox_ports : \E r \in sandboxes : r.id = m.id

\* Tap and address are always handed out with the same index although they are
\* picked from two pools by two loops, also across restores.  It is what makes
\* CreateRestore's two checks agree, and a guest's address determine its tap.
Paired ==
    /\ \A r \in sandboxes : TogetherAddr(r)
    /\ \A s \in snapshots : TogetherAddr(s)

\* Slots is honest: never more sandboxes than it says, and a create is refused
\* only when sandboxes and extra ports together have used it up.
CapacityHonest ==
    /\ Cardinality(sandboxes) <= Slots
    /\ CreateFails => Cardinality(sandboxes) + Cardinality(sandbox_ports) >= Slots

\* The resources a row, and an extra mapping, hold for their sandbox.
RowHolds(r) == {<<<<"tap", r.tap>>, r.id>>, <<<<"ip", r.ip>>, r.id>>, <<<<"port", r.port>>, r.id>>}
MappingHolds(m) == <<<<"port", m.host>>, m.id>>

HeldResources == (UNION {RowHolds(r) : r \in sandboxes})
                   \cup {MappingHolds(m) : m \in sandbox_ports}

Alloc == INSTANCE Allocator WITH
    Owners <- Ids,
    Resources <- ({"tap"} \X Taps) \cup ({"ip"} \X IPs) \cup ({"port"} \X HostPorts),
    held <- HeldResources

\* The registry implements the abstract allocator: a create, a restore or an
\* expose grants resources nobody holds, a destroy releases its own and no
\* other's, every other operation leaves the holdings alone.
ImplementsAllocator == Alloc!Spec
=============================================================================
