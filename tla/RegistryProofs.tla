--------------------------- MODULE RegistryProofs ---------------------------
(* Proofs about Registry, for any pools (also empty ones), any ids, ports  *)
(* and deadlines.                                                          *)
EXTENDS Registry, TLAPS, FiniteSetTheorems

\* The tables' joint invariant.  Exclusive needs the types (ports are compared
\* across the tables); Paired needs to know of every row ever handed out, which
\* RegNext's ReadRows keeps.
RegInv == RegTypeOK /\ Exclusive /\ PortsOwned /\ Paired

\* The columns an operation copies into a row.
SameHolding(r, s) == r.id = s.id /\ r.tap = s.tap /\ r.ip = s.ip /\ r.port = s.port

\* The lowest free tap and the lowest free address have the same index, because
\* the taps and the addresses in use do.
LEMMA FirstFreeTogether ==
    ASSUME RegTypeOK, Paired, NEW t \in Taps, NEW a \in IPs, pickFreeTap(t), pickFreeIP(a)
    PROVE  a = IpMin + t
<1> USE PoolsAssumption DEF Taps, IPs
<1>1. t \in Nat /\ a \in Nat /\ a >= IpMin /\ a <= IpMax /\ t < TapMax OBVIOUS
<1>2. \A k \in Int : k \in UsedTaps <=> IpMin + k \in UsedIPs
  <2> SUFFICES ASSUME NEW k \in Int PROVE k \in UsedTaps <=> IpMin + k \in UsedIPs
    OBVIOUS
  <2>1. \A r \in sandboxes : r.tap \in Int /\ r.ip = IpMin + r.tap
    BY DEF RegTypeOK, Sandbox, Paired, TogetherAddr
  <2>2. \A r \in sandboxes : r.tap = k <=> r.ip = IpMin + k BY <2>1
  <2> QED BY <2>2 DEF UsedTaps, UsedIPs
<1>3. t \notin UsedTaps /\ a \notin UsedIPs BY DEF pickFreeTap, pickFreeIP, FirstFree
<1>4. ~(IpMin + t < a)
  <2> SUFFICES ASSUME IpMin + t < a PROVE FALSE OBVIOUS
  <2>1. IpMin + t \in IPs \ UsedIPs BY <1>1, <1>2, <1>3
  <2> QED BY <1>1, <2>1 DEF pickFreeIP, FirstFree
<1>5. ~(a < IpMin + t)
  <2> SUFFICES ASSUME a < IpMin + t PROVE FALSE OBVIOUS
  <2>1. a - IpMin \in Int /\ IpMin + (a - IpMin) = a /\ a - IpMin \in Taps BY <1>1
  <2>2. a - IpMin \notin UsedTaps BY <1>2, <1>3, <2>1
  <2>3. t <= a - IpMin BY <2>1, <2>2 DEF pickFreeTap, FirstFree
  <2> QED BY <1>1, <2>3
<1> QED BY <1>1, <1>4, <1>5

\* A row whose port is free and whose tap and address belong together may be
\* inserted.
LEMMA InsertSandboxKeepsInv ==
    ASSUME RegInv, NEW row \in Sandbox, TogetherAddr(row), row.port \notin UsedPorts,
           InsertSandbox(row), UNCHANGED <<sandbox_ports, snapshots>>
    PROVE  RegInv'
<1> USE DEF RegInv, InsertSandbox
<1>1. RegTypeOK' BY DEF RegTypeOK
<1>2. RowsExclusive' BY DEF Exclusive, RowsExclusive
<1>3. Exclusive' BY <1>2 DEF Exclusive, ExtraExclusive, UsedPorts
<1>4. PortsOwned' BY DEF PortsOwned
<1>5. Paired' BY DEF Paired
<1> QED BY <1>1, <1>3, <1>4, <1>5

\* An UPDATE of columns that hold no resource changes nothing that matters.
LEMMA UpdateKeepsInv ==
    ASSUME RegInv, NEW f,
           \A r \in sandboxes : f[r] \in Sandbox /\ SameHolding(f[r], r),
           sandboxes' = {f[r] : r \in sandboxes}, UNCHANGED <<sandbox_ports, snapshots>>
    PROVE  RegInv'
<1> USE DEF RegInv, SameHolding
<1>1. RegTypeOK' BY DEF RegTypeOK
<1>2. RowsExclusive' BY DEF Exclusive, RowsExclusive
<1>3. Exclusive' BY <1>2 DEF Exclusive, ExtraExclusive
<1>4. PortsOwned' BY DEF PortsOwned
<1>5. Paired' BY DEF Paired, TogetherAddr
<1> QED BY <1>1, <1>3, <1>4, <1>5

\* An empty database.
LEMMA RegInitInv == RegInit => RegInv
BY DEF RegInit, RegInv, RegTypeOK, Exclusive, RowsExclusive, ExtraExclusive, PortsOwned, Paired

\* Every transaction keeps the invariant.
LEMMA RegNextInv == RegInv /\ [RegNext]_regVars => RegInv'
<1> SUFFICES ASSUME RegInv, [RegNext]_regVars PROVE RegInv' OBVIOUS
<1> USE PoolsAssumption, IdsAssumption
<1>1. ASSUME NEW id \in Ids, NEW e \in Deadlines \cup {NULL}, Create(id, id, e)
      PROVE  RegInv'
  <2>1. PICK t \in Taps, a \in IPs, p \in HostPorts :
            /\ pickFreeTap(t) /\ pickFreeIP(a) /\ pickFreePort(p)
            /\ InsertSandbox([id |-> id, pid |-> NoPid, tap |-> t, ip |-> a,
                              port |-> p, rootfs |-> id, expires |-> e])
    BY <1>1 DEF Create
  <2> DEFINE row == [id |-> id, pid |-> NoPid, tap |-> t, ip |-> a,
                     port |-> p, rootfs |-> id, expires |-> e]
  <2>2. row \in Sandbox BY DEF Sandbox
  <2>3. TogetherAddr(row) BY <2>1, FirstFreeTogether DEF RegInv, TogetherAddr
  <2>4. row.port \notin UsedPorts BY <2>1 DEF pickFreePort, FirstFree
  <2>5. InsertSandbox(row) /\ UNCHANGED <<sandbox_ports, snapshots>>
    BY <1>1, <2>1 DEF Create
  <2> HIDE DEF row
  <2> QED BY <2>2, <2>3, <2>4, <2>5, InsertSandboxKeepsInv
<1>2. ASSUME NEW id \in Ids, NEW s \in ReadRows, NEW e \in Deadlines \cup {NULL},
             CreateRestore(id, s.rootfs, s.tap, s.ip, e)
      PROVE  RegInv'
  <2>1. PICK p \in HostPorts :
            /\ pickFreePort(p)
            /\ InsertSandbox([id |-> id, pid |-> NoPid, tap |-> s.tap, ip |-> s.ip,
                              port |-> p, rootfs |-> s.rootfs, expires |-> e])
    BY <1>2 DEF CreateRestore
  <2> DEFINE row == [id |-> id, pid |-> NoPid, tap |-> s.tap, ip |-> s.ip,
                     port |-> p, rootfs |-> s.rootfs, expires |-> e]
  <2>2. row \in Sandbox /\ TogetherAddr(row) BY DEF Sandbox, ReadRows, TogetherAddr
  <2>4. row.port \notin UsedPorts BY <2>1 DEF pickFreePort, FirstFree
  <2>5. InsertSandbox(row) /\ UNCHANGED <<sandbox_ports, snapshots>>
    BY <1>2, <2>1 DEF CreateRestore
  <2> HIDE DEF row
  <2> QED BY <2>2, <2>4, <2>5, InsertSandboxKeepsInv
<1>3. ASSUME NEW id \in Ids, NEW pid \in Pids, FinishStart(id, pid) PROVE RegInv'
  <2> DEFINE f == [r \in sandboxes |-> IF r.id = id THEN [r EXCEPT !.pid = pid] ELSE r]
  <2>1. \A r \in sandboxes : f[r] \in Sandbox /\ SameHolding(f[r], r)
    BY DEF RegInv, RegTypeOK, Sandbox, SameHolding
  <2>2. sandboxes' = {f[r] : r \in sandboxes} /\ UNCHANGED <<sandbox_ports, snapshots>>
    BY <1>3 DEF FinishStart
  <2> HIDE DEF f
  <2> QED BY <2>1, <2>2, UpdateKeepsInv
<1>4. ASSUME NEW id \in Ids, NEW e \in Deadlines \cup {NULL}, SetExpiry(id, e) PROVE RegInv'
  <2> DEFINE f == [r \in sandboxes |-> IF r.id = id THEN [r EXCEPT !.expires = e] ELSE r]
  <2>1. \A r \in sandboxes : f[r] \in Sandbox /\ SameHolding(f[r], r)
    BY DEF RegInv, RegTypeOK, Sandbox, SameHolding
  <2>2. sandboxes' = {f[r] : r \in sandboxes} /\ UNCHANGED <<sandbox_ports, snapshots>>
    BY <1>4 DEF SetExpiry
  <2> HIDE DEF f
  <2> QED BY <2>1, <2>2, UpdateKeepsInv
<1>5. ASSUME NEW id \in Ids, Destroy(id) PROVE RegInv'
  <2> USE <1>5 DEF RegInv, Destroy, Get, Ports
  <2>1. RegTypeOK' BY DEF RegTypeOK
  <2>2. Exclusive' BY DEF Exclusive, RowsExclusive, ExtraExclusive
  <2>3. PortsOwned' BY DEF PortsOwned
  <2>4. Paired' BY DEF Paired
  <2> QED BY <2>1, <2>2, <2>3, <2>4
<1>6. ASSUME NEW id \in Ids, NEW g \in GuestPorts, AddPort(id, g) PROVE RegInv'
  <2>1. PICK p \in HostPorts :
            pickFreePort(p) /\ InsertPort([id |-> id, guest |-> g, host |-> p])
    BY <1>6 DEF AddPort
  <2>2. p \notin UsedPorts BY <2>1 DEF pickFreePort, FirstFree
  <2>3. UNCHANGED <<sandboxes, snapshots>> BY <1>6 DEF AddPort
  <2> USE DEF RegInv
  <2>4. RegTypeOK' BY <2>1, <2>3 DEF RegTypeOK, InsertPort, PortRow
  <2>5. ExtraExclusive' BY <2>1 DEF InsertPort, Exclusive, ExtraExclusive
  <2>6. Exclusive'
    BY <2>1, <2>2, <2>3, <2>5 DEF InsertPort, Exclusive, RowsExclusive, UsedPorts
  <2>7. PortsOwned' BY <1>6, <2>1, <2>3 DEF AddPort, InsertPort, PortsOwned, Get
  <2>8. Paired' BY <2>3 DEF Paired
  <2> QED BY <2>4, <2>6, <2>7, <2>8
<1>7. ASSUME NEW id \in Ids, NEW g \in GuestPorts, DeletePort(id, g) PROVE RegInv'
  BY <1>7 DEF DeletePort, RegInv, RegTypeOK, Exclusive, RowsExclusive, ExtraExclusive,
              PortsOwned, Paired
<1>8. ASSUME NEW sid \in SnapIds, NEW sb \in ReadRows, CreateSnapshot(sid, sb) PROVE RegInv'
  <2> DEFINE s == [id |-> sid, source |-> sb.id, tap |-> sb.tap, ip |-> sb.ip,
                   rootfs |-> sb.rootfs]
  <2>1. s \in Snapshot /\ TogetherAddr(s) BY DEF Snapshot, ReadRows, TogetherAddr
  <2>2. snapshots' = snapshots \cup {s} /\ UNCHANGED <<sandboxes, sandbox_ports>>
    BY <1>8 DEF CreateSnapshot
  <2> HIDE DEF s
  <2>3. RegTypeOK' /\ Paired' BY <2>1, <2>2 DEF RegInv, RegTypeOK, Paired
  <2> QED BY <2>2, <2>3 DEF RegInv, Exclusive, RowsExclusive, ExtraExclusive, PortsOwned
<1>9. ASSUME NEW sid \in SnapIds, DeleteSnapshot(sid) PROVE RegInv'
  BY <1>9 DEF DeleteSnapshot, RegInv, RegTypeOK, Exclusive, RowsExclusive, ExtraExclusive,
              PortsOwned, Paired
<1>10. CASE UNCHANGED regVars
  BY <1>10 DEF regVars, RegInv, RegTypeOK, Exclusive, RowsExclusive, ExtraExclusive,
               PortsOwned, Paired
<1> QED BY <1>1, <1>2, <1>3, <1>4, <1>5, <1>6, <1>7, <1>8, <1>9, <1>10
    DEF RegNext, RegCreate, RegCreateRestore, RegFinishStart, RegSetExpiry, RegDestroy,
        RegAddPort, RegDeletePort, RegCreateSnapshot, RegDeleteSnapshot

\* Hence it always holds.
LEMMA RegistryInvariant == RegSpec => []RegInv
BY RegInitInv, RegNextInv, PTL DEF RegSpec

\* Whatever the pools and however the operations of registry.go interleave, the
\* three tables hold rows of the columns migrate() declares: every tap, address
\* and port written lies in its pool.
THEOREM RegistryTyped == RegSpec => []RegTypeOK
<1>1. RegInv => RegTypeOK BY DEF RegInv
<1> QED BY RegistryInvariant, <1>1, PTL

\* No tap, address or host port, primary or extra, is ever held twice, although
\* no index of migrate() spans the two tables that hold ports.
THEOREM RegistryExclusive == RegSpec => []Exclusive
<1>1. RegInv => Exclusive BY DEF RegInv
<1> QED BY RegistryInvariant, <1>1, PTL

\* No mapping of AddPort outlives the row of its sandbox, so that no host port
\* is lost to the pool.
THEOREM RegistryPortsOwned == RegSpec => []PortsOwned
<1>1. RegInv => PortsOwned BY DEF RegInv
<1> QED BY RegistryInvariant, <1>1, PTL

\* Tap and address, which pickFreeTap and pickFreeIP choose independently, always
\* have the same index, also in snapshots and after restores.
THEOREM RegistryPaired == RegSpec => []Paired
<1>1. RegInv => Paired BY DEF RegInv
<1> QED BY RegistryInvariant, <1>1, PTL

-----------------------------------------------------------------------------
(* Capacity *)

PortCount == PortMax - PortMin + 1

\* Slots is the least of the three pool sizes, or 0 when that is negative.  An
\* address range that is the right way round does not wrap.
LEMMA SlotsIsLeast ==
    ASSUME IpMin <= IpMax
    PROVE  /\ Slots \in Nat
           /\ Slots <= TapMax /\ Slots <= IpMax - IpMin + 1
           /\ Slots = 0 \/ Slots <= PortCount
           /\ Slots = 0 => TapMax <= 0 \/ PortCount <= 0
           /\ Slots \in {0, TapMax, PortCount, IpMax - IpMin + 1}
<1> USE PoolsAssumption
<1> DEFINE d == IpMax - IpMin
           ipCount == (d % IpSpace) + 1
           sizes == {TapMax, PortCount, ipCount}
           least == CHOOSE n \in sizes : \A m \in sizes : n <= m
<1>1. d \in Nat /\ d < IpSpace OBVIOUS
<1>2. d % IpSpace = d
  <2> HIDE DEF d
  <2> QED BY <1>1
<1>3. ipCount \in Int /\ ipCount = IpMax - IpMin + 1 BY <1>1, <1>2
<1>4. TapMax \in Int /\ PortCount \in Int BY DEF PortCount
<1>5. \E n \in sizes : \A m \in sizes : n <= m
  <2> HIDE DEF ipCount
  <2> QED BY <1>3, <1>4
<1>6. least \in sizes /\ \A m \in sizes : least <= m BY <1>5
<1>7. Slots = IF least < 0 THEN 0 ELSE least BY DEF Slots, PortCount
<1> HIDE DEF least, ipCount
<1>8. ipCount > 0 BY <1>1, <1>3
<1> QED BY <1>3, <1>4, <1>6, <1>7, <1>8

\* Rows are as many as the taps, the addresses or the primary ports they hold.
LEMMA RowsCounted ==
    ASSUME RegInv
    PROVE  /\ IsFiniteSet(sandboxes) /\ IsFiniteSet(sandbox_ports)
           /\ Cardinality(sandboxes) \in Nat /\ Cardinality(sandbox_ports) \in Nat
           /\ Cardinality(sandboxes) <= Cardinality(Taps)
           /\ Cardinality(sandboxes) <= Cardinality(IPs)
           /\ Cardinality(sandboxes) <= Cardinality(HostPorts)
           /\ Taps \subseteq UsedTaps => Cardinality(sandboxes) = Cardinality(Taps)
           /\ IPs \subseteq UsedIPs => Cardinality(sandboxes) = Cardinality(IPs)
<1> USE PoolsAssumption DEF RegInv
<1> DEFINE tapOf == [r \in sandboxes |-> r.tap]
           ipOf == [r \in sandboxes |-> r.ip]
           portOf == [r \in sandboxes |-> r.port]
           hostOf == [m \in sandbox_ports |-> m.host]
<1>1. IsFiniteSet(Taps) /\ IsFiniteSet(IPs) /\ IsFiniteSet(HostPorts)
  BY FS_Interval DEF Taps, IPs, HostPorts
<1>2. tapOf \in Injection(sandboxes, Taps)
  BY DEF RegTypeOK, Sandbox, Exclusive, RowsExclusive, Injection, IsInjective
<1>3. ipOf \in Injection(sandboxes, IPs)
  BY DEF RegTypeOK, Sandbox, Exclusive, RowsExclusive, Injection, IsInjective
<1>4. portOf \in Injection(sandboxes, HostPorts)
  BY DEF RegTypeOK, Sandbox, Exclusive, RowsExclusive, Injection, IsInjective
<1>5. hostOf \in Injection(sandbox_ports, HostPorts)
  BY DEF RegTypeOK, PortRow, Exclusive, ExtraExclusive, Injection, IsInjective
<1>6. Taps \subseteq UsedTaps => tapOf \in Surjection(sandboxes, Taps)
  BY <1>2 DEF UsedTaps, Injection, Surjection
<1>7. IPs \subseteq UsedIPs => ipOf \in Surjection(sandboxes, IPs)
  BY <1>3 DEF UsedIPs, Injection, Surjection
<1> HIDE DEF tapOf, ipOf, portOf, hostOf
<1>8. IsFiniteSet(sandboxes) /\ IsFiniteSet(sandbox_ports)
  BY <1>1, <1>2, <1>5, FS_Injection
<1>9. Cardinality(sandboxes) \in Nat /\ Cardinality(sandbox_ports) \in Nat
  BY <1>8, FS_CardinalityType
<1> QED BY <1>1, <1>2, <1>3, <1>4, <1>6, <1>7, <1>8, <1>9, FS_Injection

\* The host ports in use are at most as many as the rows of both tables.
LEMMA PortsCounted ==
    ASSUME RegInv
    PROVE  Cardinality(UsedPorts) <= Cardinality(sandboxes) + Cardinality(sandbox_ports)
           /\ IsFiniteSet(UsedPorts)
<1> DEFINE P == {r.port : r \in sandboxes}
           H == {m.host : m \in sandbox_ports}
           portOf == [r \in sandboxes |-> r.port]
           hostOf == [m \in sandbox_ports |-> m.host]
<1>1. portOf \in Surjection(sandboxes, P) /\ hostOf \in Surjection(sandbox_ports, H)
  BY DEF Surjection
<1>2. UsedPorts = P \cup H BY DEF UsedPorts
<1> HIDE DEF P, H, portOf, hostOf
<1>3. IsFiniteSet(P) /\ Cardinality(P) <= Cardinality(sandboxes)
  BY <1>1, RowsCounted, FS_Surjection
<1>4. IsFiniteSet(H) /\ Cardinality(H) <= Cardinality(sandbox_ports)
  BY <1>1, RowsCounted, FS_Surjection
<1>5. IsFiniteSet(P \cup H)
      /\ Cardinality(P \cup H) = Cardinality(P) + Cardinality(H) - Cardinality(P \cap H)
  BY <1>3, <1>4, FS_Union
<1>6. Cardinality(P) \in Nat /\ Cardinality(H) \in Nat /\ Cardinality(P \cap H) \in Nat
  BY <1>3, <1>4, FS_Intersection, FS_CardinalityType
<1> QED BY <1>2, <1>3, <1>4, <1>5, <1>6, RowsCounted

\* The capacity a host advertises is honest, for every address range that is the
\* right way round (config.go does not check that it is, and Pools.Slots counts a
\* reversed one as almost the whole address space): at no time are there more
\* rows than Slots, and Create answers that a pool is exhausted only when rows
\* and extra mappings together have used Slots up.
THEOREM RegistryCapacityHonest ==
    ASSUME IpMin <= IpMax
    PROVE  RegSpec => []CapacityHonest
<1> USE PoolsAssumption
<1>1. ASSUME RegInv PROVE CapacityHonest
  <2>1. /\ Cardinality(Taps) = TapMax
        /\ Cardinality(IPs) = IpMax - IpMin + 1
        /\ Cardinality(HostPorts) = IF PortMin > PortMax THEN 0 ELSE PortCount
    BY <1>1, FS_Interval DEF Taps, IPs, HostPorts, PortCount
  <2>2. PortCount \in Int BY DEF PortCount
  <2>3. Cardinality(sandboxes) <= Slots
    BY <1>1, <2>1, <2>2, SlotsIsLeast, RowsCounted
  <2>4. ASSUME HostPorts \subseteq UsedPorts
        PROVE  Cardinality(sandboxes) + Cardinality(sandbox_ports) >= Slots
    <3>1. Cardinality(HostPorts) <= Cardinality(UsedPorts)
      BY <1>1, <2>4, PortsCounted, FS_Subset
    <3>2. Cardinality(UsedPorts) \in Nat BY <1>1, PortsCounted, FS_CardinalityType
    <3> QED BY <1>1, <2>1, <2>2, <3>1, <3>2, PortsCounted, SlotsIsLeast, RowsCounted DEF PortCount
  <2>5. ASSUME Taps \subseteq UsedTaps \/ IPs \subseteq UsedIPs
        PROVE  Cardinality(sandboxes) + Cardinality(sandbox_ports) >= Slots
    BY <1>1, <2>1, <2>5, SlotsIsLeast, RowsCounted
  <2> QED BY <2>3, <2>4, <2>5 DEF CapacityHonest, CreateFails
<1>2. RegInv => CapacityHonest BY <1>1
<1> QED BY RegistryInvariant, <1>2, PTL

-----------------------------------------------------------------------------
(* Refinement of Allocator *)

AllResources == ({"tap"} \X Taps) \cup ({"ip"} \X IPs) \cup ({"port"} \X HostPorts)

\* Who holds what, by rows and by mappings, before and after a step.
LEMMA HeldCases ==
    ASSUME NEW h
    PROVE  /\ h \in HeldResources <=> \/ \E r \in sandboxes : h \in RowHolds(r)
                                      \/ \E m \in sandbox_ports : h = MappingHolds(m)
           /\ h \in HeldResources' <=> \/ \E r \in sandboxes' : h \in RowHolds(r)
                                       \/ \E m \in sandbox_ports' : h = MappingHolds(m)
<1>1. ASSUME NEW S, NEW P
      PROVE  h \in (UNION {RowHolds(r) : r \in S}) \cup {MappingHolds(m) : m \in P} <=>
                 \/ \E r \in S : h \in RowHolds(r)
                 \/ \E m \in P : h = MappingHolds(m)
  <2>1. h \in UNION {RowHolds(r) : r \in S} <=> \E r \in S : h \in RowHolds(r)
    BY Zenon
  <2>2. h \in {MappingHolds(m) : m \in P} <=> \E m \in P : h = MappingHolds(m)
    BY Zenon
  <2> QED BY <2>1, <2>2
<1>2. h \in HeldResources <=> \/ \E r \in sandboxes : h \in RowHolds(r)
                              \/ \E m \in sandbox_ports : h = MappingHolds(m)
  BY <1>1, Zenon DEF HeldResources
<1>3. h \in HeldResources' <=> \/ \E r \in sandboxes' : h \in RowHolds(r)
                               \/ \E m \in sandbox_ports' : h = MappingHolds(m)
  BY <1>1, Zenon DEF HeldResources
<1> QED BY <1>2, <1>3

\* A resource of a row about to be inserted is free.
LEMMA InsertGrants ==
    ASSUME RegInv, NEW row \in Sandbox,
           row.tap \notin UsedTaps, row.ip \notin UsedIPs, row.port \notin UsedPorts,
           sandboxes' = sandboxes \cup {row}, UNCHANGED sandbox_ports
    PROVE  Alloc!Next
<1> DEFINE R == {<<"tap", row.tap>>, <<"ip", row.ip>>, <<"port", row.port>>}
<1>1. R \in SUBSET Alloc!FreeResources
  <2>1. R \subseteq AllResources BY DEF AllResources, Sandbox
  <2>2. \A r \in sandboxes : \A h \in RowHolds(r) : h[1] \notin R
    BY DEF RowHolds, UsedTaps, UsedIPs, UsedPorts
  <2>3. \A m \in sandbox_ports : MappingHolds(m)[1] \notin R
    BY DEF MappingHolds, UsedPorts
  <2> HIDE DEF R
  <2>4. \A h \in HeldResources : h[1] \notin R BY <2>2, <2>3, HeldCases
  <2> QED BY <2>1, <2>4 DEF Alloc!FreeResources, AllResources
<1>2. HeldResources' = HeldResources \cup {<<x, row.id>> : x \in R}
  <2>1. {<<x, row.id>> : x \in R} = RowHolds(row) BY DEF RowHolds
  <2>2. HeldResources' = HeldResources \cup RowHolds(row) BY DEF HeldResources
  <2> QED BY <2>1, <2>2
<1>3. Alloc!Grant(row.id) BY <1>1, <1>2 DEF Alloc!Grant
<1> QED BY <1>3 DEF Alloc!Next, Sandbox

\* Rows rewritten without touching what they hold leave the holdings alone.
LEMMA UpdateStutters ==
    ASSUME NEW f, \A r \in sandboxes : SameHolding(f[r], r),
           sandboxes' = {f[r] : r \in sandboxes}, UNCHANGED sandbox_ports
    PROVE  HeldResources' = HeldResources
<1>1. \A r \in sandboxes : RowHolds(f[r]) = RowHolds(r) BY DEF RowHolds, SameHolding
<1>2. UNION {RowHolds(r) : r \in sandboxes'} = UNION {RowHolds(r) : r \in sandboxes}
  BY <1>1
<1> QED BY <1>2 DEF HeldResources

\* Every registry operation is a grant, a release or neither.
LEMMA RegistryStepAllocates ==
    ASSUME RegInv, [RegNext]_regVars
    PROVE  [Alloc!Next]_HeldResources
<1> USE PoolsAssumption, IdsAssumption
<1>1. ASSUME NEW id \in Ids, NEW e \in Deadlines \cup {NULL}, Create(id, id, e)
      PROVE  Alloc!Next
  <2>1. PICK t \in Taps, a \in IPs, p \in HostPorts :
            /\ pickFreeTap(t) /\ pickFreeIP(a) /\ pickFreePort(p)
            /\ InsertSandbox([id |-> id, pid |-> NoPid, tap |-> t, ip |-> a,
                              port |-> p, rootfs |-> id, expires |-> e])
    BY <1>1 DEF Create
  <2> DEFINE row == [id |-> id, pid |-> NoPid, tap |-> t, ip |-> a,
                     port |-> p, rootfs |-> id, expires |-> e]
  <2>2. row \in Sandbox BY DEF Sandbox
  <2>3. row.tap \notin UsedTaps /\ row.ip \notin UsedIPs /\ row.port \notin UsedPorts
    BY <2>1 DEF pickFreeTap, pickFreeIP, pickFreePort, FirstFree
  <2>4. sandboxes' = sandboxes \cup {row} /\ UNCHANGED sandbox_ports
    BY <1>1, <2>1 DEF Create, InsertSandbox
  <2> HIDE DEF row
  <2> QED BY <2>2, <2>3, <2>4, InsertGrants
<1>2. ASSUME NEW id \in Ids, NEW s \in ReadRows, NEW e \in Deadlines \cup {NULL},
             CreateRestore(id, s.rootfs, s.tap, s.ip, e)
      PROVE  Alloc!Next
  <2>1. PICK p \in HostPorts :
            /\ pickFreePort(p)
            /\ InsertSandbox([id |-> id, pid |-> NoPid, tap |-> s.tap, ip |-> s.ip,
                              port |-> p, rootfs |-> s.rootfs, expires |-> e])
    BY <1>2 DEF CreateRestore
  <2> DEFINE row == [id |-> id, pid |-> NoPid, tap |-> s.tap, ip |-> s.ip,
                     port |-> p, rootfs |-> s.rootfs, expires |-> e]
  <2>2. row \in Sandbox BY DEF Sandbox, ReadRows
  <2>3. row.tap \notin UsedTaps /\ row.ip \notin UsedIPs /\ row.port \notin UsedPorts
    BY <1>2, <2>1 DEF CreateRestore, pickFreePort, FirstFree
  <2>4. sandboxes' = sandboxes \cup {row} /\ UNCHANGED sandbox_ports
    BY <1>2, <2>1 DEF CreateRestore, InsertSandbox
  <2> HIDE DEF row
  <2> QED BY <2>2, <2>3, <2>4, InsertGrants
<1>3. ASSUME NEW id \in Ids, NEW pid \in Pids, FinishStart(id, pid)
      PROVE  HeldResources' = HeldResources
  <2> DEFINE f == [r \in sandboxes |-> IF r.id = id THEN [r EXCEPT !.pid = pid] ELSE r]
  <2>1. \A r \in sandboxes : SameHolding(f[r], r)
    BY DEF RegInv, RegTypeOK, Sandbox, SameHolding
  <2>2. sandboxes' = {f[r] : r \in sandboxes} /\ UNCHANGED sandbox_ports
    BY <1>3 DEF FinishStart
  <2> HIDE DEF f
  <2> QED BY <2>1, <2>2, UpdateStutters
<1>4. ASSUME NEW id \in Ids, NEW e \in Deadlines \cup {NULL}, SetExpiry(id, e)
      PROVE  HeldResources' = HeldResources
  <2> DEFINE f == [r \in sandboxes |-> IF r.id = id THEN [r EXCEPT !.expires = e] ELSE r]
  <2>1. \A r \in sandboxes : SameHolding(f[r], r)
    BY DEF RegInv, RegTypeOK, Sandbox, SameHolding
  <2>2. sandboxes' = {f[r] : r \in sandboxes} /\ UNCHANGED sandbox_ports
    BY <1>4 DEF SetExpiry
  <2> HIDE DEF f
  <2> QED BY <2>1, <2>2, UpdateStutters
\* What is released is all the sandbox holds, and nothing another one does.
<1>5. ASSUME NEW id \in Ids, Destroy(id) PROVE Alloc!Next
  <2>1. \A r \in sandboxes : \A h \in RowHolds(r) : h[2] = id <=> r \in Get(id)
    BY DEF RowHolds, Get
  <2>2. \A m \in sandbox_ports : MappingHolds(m)[2] = id <=> m \in Ports(id)
    BY DEF MappingHolds, Ports
  <2>3. HeldResources' = HeldResources \ Alloc!HeldBy(id)
    <3>1. ASSUME NEW h PROVE h \in HeldResources' <=> h \in HeldResources /\ h[2] # id
      <4>1. (\E r \in sandboxes' : h \in RowHolds(r)) <=>
              (\E r \in sandboxes : h \in RowHolds(r)) /\ h[2] # id
        BY <1>5, <2>1 DEF Destroy
      <4>2. (\E m \in sandbox_ports' : h = MappingHolds(m)) <=>
              (\E m \in sandbox_ports : h = MappingHolds(m)) /\ h[2] # id
        BY <1>5, <2>2 DEF Destroy
      <4> QED BY <4>1, <4>2, HeldCases
    <3> QED BY <3>1 DEF Alloc!HeldBy
  <2> QED BY <2>3 DEF Alloc!Next, Alloc!Release
<1>6. ASSUME NEW id \in Ids, NEW g \in GuestPorts, AddPort(id, g) PROVE Alloc!Next
  <2>1. PICK p \in HostPorts :
            pickFreePort(p) /\ InsertPort([id |-> id, guest |-> g, host |-> p])
    BY <1>6 DEF AddPort
  <2> DEFINE R == {<<"port", p>>}
  <2>2. p \notin UsedPorts BY <2>1 DEF pickFreePort, FirstFree
  <2>3. \A h \in HeldResources : h[1] \notin R
    <3>1. \A r \in sandboxes : \A h \in RowHolds(r) : h[1] \notin R
      BY <2>2 DEF RowHolds, UsedPorts
    <3>2. \A m \in sandbox_ports : MappingHolds(m)[1] \notin R
      BY <2>2 DEF MappingHolds, UsedPorts
    <3> HIDE DEF R
    <3> QED BY <3>1, <3>2, HeldCases
  <2>4. R \in SUBSET Alloc!FreeResources BY <2>3 DEF Alloc!FreeResources
  <2>5. HeldResources' = HeldResources \cup {<<x, id>> : x \in R}
    <3> DEFINE new == [id |-> id, guest |-> g, host |-> p]
    <3>1. {<<x, id>> : x \in R} = {MappingHolds(new)} BY DEF MappingHolds
    <3>2. sandbox_ports' = sandbox_ports \cup {new} /\ UNCHANGED sandboxes
      BY <1>6, <2>1 DEF AddPort, InsertPort
    <3> HIDE DEF new, R
    <3>3. HeldResources' = HeldResources \cup {MappingHolds(new)}
      BY <3>2, HeldCases
    <3> QED BY <3>1, <3>3
  <2> QED BY <2>4, <2>5 DEF Alloc!Next, Alloc!Grant
\* The mapping is the only holder of its port, so dropping it drops one pair.
<1>7. ASSUME NEW id \in Ids, NEW g \in GuestPorts, DeletePort(id, g) PROVE Alloc!Next
  <2> DEFINE D == {m \in sandbox_ports : m.id = id /\ m.guest = g}
             H == {MappingHolds(m) : m \in D}
  <2>1. sandbox_ports' = sandbox_ports \ D /\ UNCHANGED sandboxes BY <1>7 DEF DeletePort
  <2>2. \A m \in D : \A n \in sandbox_ports \ D : MappingHolds(m) # MappingHolds(n)
    BY DEF RegInv, Exclusive, ExtraExclusive, MappingHolds
  <2>3. \A m \in D : \A r \in sandboxes : MappingHolds(m) \notin RowHolds(r)
    BY DEF RegInv, Exclusive, MappingHolds, RowHolds
  <2>4. HeldResources' = HeldResources \ H
    <3> HIDE DEF D
    <3>1. ASSUME NEW h PROVE h \in HeldResources' <=> h \in HeldResources /\ h \notin H
      BY <2>1, <2>2, <2>3, HeldCases
    <3> QED BY <3>1
  <2>5. H \in SUBSET Alloc!HeldBy(id)
    <3>1. \A m \in D : MappingHolds(m) \in HeldResources /\ MappingHolds(m)[2] = id
      BY HeldCases DEF MappingHolds
    <3> QED BY <3>1 DEF Alloc!HeldBy
  <2> QED BY <2>4, <2>5 DEF Alloc!Next, Alloc!Release
<1>8. ASSUME NEW sid \in SnapIds, NEW sb \in ReadRows, CreateSnapshot(sid, sb)
      PROVE  HeldResources' = HeldResources
  BY <1>8 DEF CreateSnapshot, HeldResources
<1>9. ASSUME NEW sid \in SnapIds, DeleteSnapshot(sid) PROVE HeldResources' = HeldResources
  BY <1>9 DEF DeleteSnapshot, HeldResources
<1>10. CASE UNCHANGED regVars BY <1>10 DEF regVars, HeldResources
<1> QED BY <1>1, <1>2, <1>3, <1>4, <1>5, <1>6, <1>7, <1>8, <1>9, <1>10
    DEF RegNext, RegCreate, RegCreateRestore, RegFinishStart, RegSetExpiry, RegDestroy,
        RegAddPort, RegDeletePort, RegCreateSnapshot, RegDeleteSnapshot

\* The registry implements the abstract allocator: create, restore and expose
\* are grants of free resources, destroy and delete-port releases of one's own.
THEOREM RegistryImplementsAllocator == RegSpec => ImplementsAllocator
<1>1. RegInit => Alloc!Init BY DEF RegInit, Alloc!Init, HeldResources
<1>2. RegInv /\ [RegNext]_regVars => [Alloc!Next]_HeldResources BY RegistryStepAllocates
<1> QED BY RegInitInv, RegNextInv, <1>1, <1>2, PTL DEF RegSpec, ImplementsAllocator, Alloc!Spec

\* The abstract allocator never gives a resource two holders: a grant takes only
\* resources that no pair of held names, a release only removes pairs.
LEMMA AllocatorOneHolder == Alloc!Spec => []Alloc!OneHolder
<1>1. Alloc!Init => Alloc!OneHolder BY DEF Alloc!Init, Alloc!OneHolder
<1>2. Alloc!OneHolder /\ [Alloc!Next]_HeldResources => Alloc!OneHolder'
  <2>1. ASSUME Alloc!OneHolder, NEW o \in Ids, Alloc!Grant(o)
        PROVE  Alloc!OneHolder'
    <3>1. PICK R \in SUBSET Alloc!FreeResources :
              HeldResources' = HeldResources \cup {<<x, o>> : x \in R}
      BY <2>1 DEF Alloc!Grant
    <3> QED BY <2>1, <3>1 DEF Alloc!OneHolder, Alloc!FreeResources
  <2>2. ASSUME Alloc!OneHolder, NEW o \in Ids, Alloc!Release(o)
        PROVE  Alloc!OneHolder'
    BY <2>2 DEF Alloc!OneHolder, Alloc!Release
  <2>3. ASSUME Alloc!OneHolder, UNCHANGED HeldResources
        PROVE  Alloc!OneHolder'
    BY <2>3 DEF Alloc!OneHolder
  <2> QED BY <2>1, <2>2, <2>3 DEF Alloc!Next
<1> QED BY <1>1, <1>2, PTL DEF Alloc!Spec

\* What the refinement buys: no tap, address or port of either table ever has two
\* holders, the promise README.md:31 makes of a sandbox ("its own tap device,
\* guest IP, host port").
THEOREM RegistryOneHolder == RegSpec => []Alloc!OneHolder
BY RegistryImplementsAllocator, AllocatorOneHolder, PTL DEF ImplementsAllocator
=============================================================================
