-------------------------- MODULE LifecycleProofs --------------------------
(* Proofs about Lifecycle, for any number of clients, sandboxes and        *)
(* crashes, any pools and deadlines.                                       *)
EXTENDS Lifecycle, RegistryProofs

-----------------------------------------------------------------------------
(* Types *)

\* The steps at which a goroutine has read the row it works on.
WithRow == PCs \ {"idle", "insert_row", "get_row"}

\* What a goroutine's local variables hold at each step.  Snapshots and clones
\* are no part of Lifecycle.
LocalOK(x) ==
    /\ x.snap = NoRow /\ x.by = 0 /\ x.ctx # "parent"
    /\ IF x.pc = "idle" THEN x.id = 0 /\ x.ctx = "background" ELSE x.id \in Ids
    /\ x.pc \in WithRow => x.sb \in Sandbox /\ x.sb.id = x.id
    /\ x.pc \in {"add_port", "add_forward", "delete_port"} => x.guest \in GuestPorts
    /\ x.pc \in {"add_forward", "delete_port"} => x.host \in HostPorts

ProcOK == proc \in [Goroutines -> Frame] /\ \A p \in Goroutines : LocalOK(proc[p])
RulesOK == IsABag(rules) /\ BagToSet(rules) \subseteq Rule
TapsOK == taps \subseteq [tap : Taps, owner : Ids, bridged : BOOLEAN]
DisksOK == DOMAIN disks \subseteq Ids /\ \A path \in DOMAIN disks : disks[path] \in Nat
VmsOK == vms \subseteq VM
MemoryOK ==
    /\ machines \subseteq Ids /\ todo \subseteq Ids /\ serving \subseteq Ids
    /\ main \in {"serve", "drain", "stop_all", "down", "recover", "abort"}
EnvOK == now \in 0 .. MaxNow /\ crashes \in 0 .. MaxCrashes /\ nextId \in 1 .. Cardinality(Ids) + 1

\* A VM never belongs to a later run than the server's, and only the running
\* server has VMs of its own.
RunsOK ==
    /\ \A v \in vms : v.run <= crashes
    /\ main \in {"drain", "stop_all", "abort"} => \A v \in vms : v.run < crashes - 1

\* Until the server listens only reconcile runs.  Its list names rows that exist,
\* each once, and none is left out.
ReconcilePCs == {"idle", "read_ports", "take_machine", "wait_vm", "remove_forwards", "delete_tap",
                 "remove_rootfs", "delete_row"}
ReconcileOK ==
    /\ proc[Main].pc \in ReconcilePCs
    /\ main \notin {"recover", "abort"} => proc[Main].pc = "idle"
    /\ main \in {"down", "recover", "abort"} => \A p \in Goroutines \ {Main} : proc[p].pc = "idle"
    /\ main \in {"recover", "abort"} =>
          \A id \in todo : id # proc[Main].id /\ \E r \in sandboxes : r.id = id
    /\ main = "recover" =>
          /\ proc[Main].ctx # "cancelled"
          /\ \A r \in sandboxes : r.id \in todo \/ r.id = proc[Main].id

LifeTypes == ProcOK /\ RulesOK /\ TapsOK /\ DisksOK /\ VmsOK /\ MemoryOK /\ EnvOK /\ RunsOK
LifeInv == RegInv /\ LifeTypes /\ ReconcileOK

\* Ids are 1 .. n, and pids are named after them.
LEMMA CardinalityIds == Cardinality(Ids) \in Nat /\ Ids = 1 .. Cardinality(Ids) /\ Pids = Ids
BY LifecycleAssumption, FS_CardinalityType

\* A goroutine that is at rest.
LEMMA IdleOK == Idle \in Frame /\ LocalOK(Idle)
BY DEF Idle, Frame, LocalOK, PCs, WithRow, NoRow, NULL

\* One goroutine moves.
LEMMA SetFrame ==
    ASSUME ProcOK, NEW p \in Goroutines, NEW x \in Frame, LocalOK(x), proc' = [proc EXCEPT ![p] = x]
    PROVE  ProcOK'
BY DEF ProcOK

\* One goroutine goes to another step.
LEMMA GoToOK ==
    ASSUME ProcOK, NEW p \in Goroutines, NEW c \in PCs, GoTo(p, c),
           LocalOK([proc[p] EXCEPT !.pc = c])
    PROVE  ProcOK'
<1>1. [proc[p] EXCEPT !.pc = c] \in Frame BY DEF ProcOK, Frame
<1>2. proc' = [proc EXCEPT ![p] = [proc[p] EXCEPT !.pc = c]] BY DEF GoTo, ProcOK
<1> QED BY <1>1, <1>2, SetFrame

\* A goroutine that has read its row goes on with it.
LEMMA GoOnOK ==
    ASSUME ProcOK, NEW p \in Goroutines, proc[p].pc \in WithRow,
           NEW c \in WithRow \ {"add_port", "add_forward", "delete_port"}, GoTo(p, c)
    PROVE  ProcOK'
<1>1. proc[p] \in Frame /\ LocalOK(proc[p]) BY DEF ProcOK
<1>2. LocalOK([proc[p] EXCEPT !.pc = c])
  BY <1>1 DEF LocalOK, Frame, WithRow
<1> QED BY <1>2, GoToOK DEF WithRow

\* One goroutine begins to roll back.
LEMMA RollbackOK ==
    ASSUME ProcOK, NEW p \in Goroutines, proc[p].pc \in WithRow, Rollback(p)
    PROVE  ProcOK'
<1> DEFINE x == [[proc[p] EXCEPT !.pc = "delete_tap"] EXCEPT !.ctx = "background"]
<1>1. proc[p] \in Frame /\ LocalOK(proc[p]) BY DEF ProcOK
<1>2. x \in Frame BY <1>1 DEF Frame, PCs
<1>4. /\ x.pc = "delete_tap" /\ x.ctx = "background" /\ x.snap = proc[p].snap /\ x.by = proc[p].by
      /\ x.id = proc[p].id /\ x.sb = proc[p].sb
  BY <1>1 DEF Frame
<1>5. LocalOK(x)
  <2> HIDE DEF x
  <2> QED BY <1>1, <1>4 DEF LocalOK, WithRow
<1>3. proc' = [proc EXCEPT ![p] = x] BY DEF Rollback, ProcOK
<1> QED BY <1>2, <1>3, <1>5, SetFrame

\* One goroutine returns.
LEMMA ReturnOK ==
    ASSUME ProcOK, NEW p \in Goroutines, Return(p)
    PROVE  ProcOK'
BY IdleOK, SetFrame DEF Return

\* iptables -A and -D keep the rules a bag of rules.
LEMMA BagsOK ==
    ASSUME NEW B, IsABag(B), NEW R, NEW S, BagToSet(B) \subseteq S, R \subseteq S
    PROVE  /\ IsABag(B (+) SetToBag(R)) /\ BagToSet(B (+) SetToBag(R)) \subseteq S
           /\ IsABag(B (-) SetToBag(R)) /\ BagToSet(B (-) SetToBag(R)) \subseteq S
<1>1. IsABag(B (+) SetToBag(R)) /\ BagToSet(B (+) SetToBag(R)) \subseteq S
  BY DEF IsABag, BagToSet, SetToBag, (+)
<1>2. IsABag(B (-) SetToBag(R)) /\ BagToSet(B (-) SetToBag(R)) \subseteq S
  BY DEF IsABag, BagToSet, SetToBag, (-)
<1> QED BY <1>1, <1>2

\* The two rules of a forward are DNAT rules.
LEMMA ForwardOK ==
    ASSUME NEW host \in HostPorts, NEW ip \in IPs, NEW guest \in GuestPorts \cup {PrimaryPort}
    PROVE  Forward(host, ip, guest) \subseteq Rule
BY DEF Forward, Rule

\* The server starts on an empty host.
LEMMA InitLifeInv == Init => LifeInv
<1> SUFFICES ASSUME Init PROVE LifeInv OBVIOUS
<1> USE DEF Init
<1>1. RegInv BY RegInitInv
<1>2. ProcOK BY IdleOK DEF ProcOK
<1>3. RulesOK BY DEF RulesOK, EmptyBag, IsABag, BagToSet, SetToBag
<1>4. TapsOK /\ DisksOK /\ VmsOK /\ MemoryOK /\ RunsOK BY DEF TapsOK, DisksOK, VmsOK, MemoryOK, RunsOK
<1>5. EnvOK BY LifecycleAssumption, CardinalityIds DEF EnvOK
<1>6. ReconcileOK BY DEF ReconcileOK, ReconcilePCs, Goroutines, Idle
<1> QED BY <1>1, <1>2, <1>3, <1>4, <1>5, <1>6 DEF LifeInv, LifeTypes

-----------------------------------------------------------------------------
(* Every step uses the registry through its operations. *)

\* A deadline is one the registry can hold.
LEMMA DeadlineOK == ASSUME EnvOK, NEW timeout \in Timeouts PROVE Deadline(timeout) \in Deadlines \cup {NULL}
<1>1. timeout \in Nat /\ (timeout # 0 => \A t \in 0 .. MaxNow : t + timeout \in Deadlines)
  BY LifecycleAssumption
<1> QED BY <1>1 DEF EnvOK, Deadline

\* Create writes the row the handler then reads.
LEMMA CreateInserts ==
    ASSUME NEW id, NEW rootfs, NEW e, Create(id, rootfs, e) PROVE \E r \in sandboxes' : r.id = id
<1> DEFINE row(t, a, p) == [id |-> id, pid |-> NoPid, tap |-> t, ip |-> a,
                            port |-> p, rootfs |-> rootfs, expires |-> e]
<1>1. PICK t \in Taps, a \in IPs, p \in HostPorts : InsertSandbox(row(t, a, p)) BY DEF Create
<1>2. row(t, a, p) \in sandboxes' BY <1>1 DEF InsertSandbox
<1>3. row(t, a, p).id = id OBVIOUS
<1> QED BY <1>2, <1>3

\* AddPort writes the mapping the handler then reads.
LEMMA AddPortInserts ==
    ASSUME NEW id, NEW guest, AddPort(id, guest)
    PROVE  \E m \in sandbox_ports' : m.id = id /\ m.guest = guest
<1> DEFINE row(p) == [id |-> id, guest |-> guest, host |-> p]
<1>1. PICK p \in HostPorts : InsertPort(row(p)) BY DEF AddPort
<1>2. row(p) \in sandbox_ports' BY <1>1 DEF InsertPort
<1>3. row(p).id = id /\ row(p).guest = guest OBVIOUS
<1> QED BY <1>2, <1>3

\* Each step of a handler makes at most one of the registry's transactions.
LEMMA StepUsesRegistry ==
    ASSUME ProcOK, NEW p \in Goroutines, Step(p)
    PROVE  [RegNext]_regVars
<1> DEFINE id == proc[p].id
<1>0. proc[p] \in Frame /\ LocalOK(proc[p]) BY DEF ProcOK
<1>1. CASE InsertRow(p)
  <2>1. CASE Create(id, id, proc[p].expires)
    <3>1. id \in Ids /\ proc[p].expires \in Deadlines \cup {NULL}
      BY <1>0, <1>1 DEF LocalOK, Frame, InsertRow
    <3>2. Get(id) = {} BY <2>1 DEF Create, InsertSandbox, Get
    <3> QED BY <2>1, <3>1, <3>2 DEF RegNext, RegCreate
  <2> QED BY <1>1, <2>1 DEF InsertRow
<1>2. CASE RecordStart(p)
  <2>1. CASE FinishStart(proc[p].sb.id, proc[p].sb.id)
    <3>1. proc[p].sb.id \in Ids BY <1>0, <1>2 DEF LocalOK, WithRow, PCs, RecordStart
    <3> QED BY <2>1, <3>1, CardinalityIds DEF RegNext, RegFinishStart
  <2> QED BY <1>2, <2>1 DEF RecordStart
<1>3. CASE DeleteRow(p)
  <2>1. id \in Ids BY <1>0, <1>3 DEF LocalOK, DeleteRow
  <2> QED BY <1>3, <2>1 DEF DeleteRow, RegNext, RegDestroy
<1>4. CASE AllocatePort(p)
  <2>1. id \in Ids /\ proc[p].guest \in GuestPorts BY <1>0, <1>4 DEF LocalOK, AllocatePort
  <2> QED BY <1>4, <2>1 DEF AllocatePort, RegNext, RegAddPort
<1>5. CASE UndoPort(p)
  <2>1. id \in Ids /\ proc[p].guest \in GuestPorts BY <1>0, <1>5 DEF LocalOK, UndoPort
  <2> QED BY <1>5, <2>1 DEF UndoPort, RegNext, RegDeletePort
<1>6. CASE \/ CreateTap(p) \/ StartVM(p) \/ AddPortForward(p)
           \/ StopForce(p) \/ StoreMachine(p) \/ WaitForAgent(p)
           \/ GetRow(p) \/ ReadPorts(p) \/ TakeMachine(p) \/ WaitVM(p)
           \/ RemoveForwards(p) \/ DeleteTap(p) \/ RemoveRootfs(p) \/ ForwardExtra(p)
  BY <1>6 DEF CreateTap, StartVM, AddPortForward, StopForce, StoreMachine, WaitForAgent, GetRow, ReadPorts,
      TakeMachine, WaitVM, RemoveForwards, DeleteTap, RemoveRootfs, ForwardExtra
<1> QED BY <1>1, <1>2, <1>3, <1>4, <1>5, <1>6 DEF Step

\* So does every step of the host.
LEMMA NextUsesRegistry == LifeInv /\ [Next]_vars => [RegNext]_regVars
<1> SUFFICES ASSUME LifeInv, [Next]_vars PROVE [RegNext]_regVars OBVIOUS
<1>1. ASSUME NEW p \in Goroutines, Step(p) PROVE [RegNext]_regVars
  BY <1>1, StepUsesRegistry DEF LifeInv, LifeTypes
<1>2. ASSUME NEW id \in Ids, NEW timeout \in Timeouts, SetTimeout(id, timeout) PROVE [RegNext]_regVars
  <2>1. Deadline(timeout) \in Deadlines \cup {NULL} BY DeadlineOK DEF LifeInv, LifeTypes
  <2> QED BY <1>2, <2>1 DEF SetTimeout, RegNext, RegSetExpiry
<1>3. CASE Arrival BY <1>3 DEF Arrival, PrepareRootfs, DestroyArrives, ExposeArrives
<1>4. CASE ReaperTick \/ ReapNext BY <1>4 DEF ReaperTick, ReapNext
<1>5. CASE Serve BY <1>5 DEF Serve, Restart, ReconcileNext, Listen, ShutdownAll, Exit
<1>6. CASE Environment BY <1>6 DEF Environment, Disconnect, VMExit, Stop, Crash, Reboot, Tick
<1>7. CASE UNCHANGED vars BY <1>7 DEF vars
<1> QED BY <1>1, <1>2, <1>3, <1>4, <1>5, <1>6, <1>7 DEF Next

-----------------------------------------------------------------------------
(* Every step keeps the types. *)

\* A request arrives.
LEMMA ArrivalKeepsTypes ==
    ASSUME LifeInv, NEW p \in Goroutines, NEW id \in Ids,
           \/ \E timeout \in Timeouts : PrepareRootfs(p, timeout)
           \/ DestroyArrives(p, id)
           \/ \E guest \in GuestPorts : ExposeArrives(p, id, guest)
    PROVE  LifeTypes'
<1> USE DEF LifeInv, LifeTypes, regVars, hostVars, envVars
<1>1. ASSUME NEW timeout \in Timeouts, PrepareRootfs(p, timeout)
      PROVE  LifeTypes'
  <2> USE <1>1 DEF PrepareRootfs
  <2> DEFINE x == [Idle EXCEPT !.pc = "insert_row", !.id = nextId,
                               !.expires = Deadline(timeout), !.ctx = "request"]
  <2>1. Deadline(timeout) \in Deadlines \cup {NULL} BY DeadlineOK
  <2>2. x \in Frame /\ LocalOK(x)
    BY <2>1 DEF Idle, Frame, LocalOK, PCs, WithRow, NoRow
  <2>3. ProcOK'
    <3>1. CASE proc' = [proc EXCEPT ![p] = x]
      <4> HIDE DEF x
      <4> QED BY <2>2, <3>1, SetFrame
    <3>2. CASE proc' = proc BY <3>2 DEF ProcOK
    <3> QED BY <3>1, <3>2
  <2>a. /\ nextId \in Ids /\ nextId' = nextId + 1 /\ now' = now /\ crashes' = crashes
        /\ disks' = WithFile(nextId, 0) \/ disks' = disks
    OBVIOUS
  <2> HIDE <1>1 DEF PrepareRootfs
  <2>4. DisksOK'
    <3>1. DOMAIN WithFile(nextId, 0) \subseteq Ids /\ \A path \in DOMAIN WithFile(nextId, 0) :
             WithFile(nextId, 0)[path] \in Nat
      BY <2>a DEF DisksOK, WithFile
    <3> HIDE DEF WithFile
    <3> QED BY <2>a, <3>1 DEF DisksOK
  <2>5. EnvOK' BY <2>a, CardinalityIds DEF EnvOK
  <2> QED BY <1>1, <2>3, <2>4, <2>5 DEF PrepareRootfs, RulesOK, TapsOK, VmsOK, MemoryOK, RunsOK
<1>2. CASE DestroyArrives(p, id)
  <2> USE <1>2 DEF DestroyArrives
  <2> DEFINE x == [Idle EXCEPT !.pc = "get_row", !.id = id, !.ctx = "request"]
  <2>1. x \in Frame /\ LocalOK(x) BY DEF Idle, Frame, LocalOK, PCs, WithRow, NoRow, NULL
  <2>2. ProcOK' BY <2>1, SetFrame
  <2> QED BY <2>2 DEF RulesOK, TapsOK, DisksOK, VmsOK, MemoryOK, EnvOK, RunsOK
<1>3. ASSUME NEW guest \in GuestPorts, ExposeArrives(p, id, guest)
      PROVE  LifeTypes'
  <2> USE <1>3 DEF ExposeArrives
  <2> DEFINE sb == RowOf(id, sandboxes)
             x == [Idle EXCEPT !.pc = "add_port", !.id = id, !.sb = sb, !.guest = guest, !.ctx = "request"]
  <2>1. sb \in Sandbox /\ sb.id = id BY DEF Addressable, Get, RowOf, RegInv, RegTypeOK
  <2>2. x \in Frame /\ LocalOK(x)
    <3> HIDE DEF sb
    <3> QED BY <2>1 DEF Idle, Frame, LocalOK, PCs, WithRow, NoRow, NULL
  <2>3. ProcOK'
    <3>1. proc' = [proc EXCEPT ![p] = x] OBVIOUS
    <3> HIDE DEF x
    <3> QED BY <2>2, <3>1, SetFrame
  <2> QED BY <2>3 DEF RulesOK, TapsOK, DisksOK, VmsOK, MemoryOK, EnvOK, RunsOK
<1> QED BY <1>1, <1>2, <1>3

\* cp over a path, and os.Remove.
LEMMA FilesOK ==
    ASSUME DisksOK, VmsOK, NEW path \in Ids, Unlink(path) \/ disks' = WithoutFile(path)
    PROVE  DisksOK'
BY DEF DisksOK, Unlink, WithoutFile

\* A VM whose file is unlinked stays a VM of its run.
LEMMA UnlinkOK ==
    ASSUME VmsOK, EnvOK, RunsOK, NEW path \in Ids, Unlink(path), UNCHANGED <<main, crashes>>
    PROVE  VmsOK' /\ RunsOK'
<1>1. \A v \in vms : [v EXCEPT !.disk = 0] \in VM /\ [v EXCEPT !.disk = 0].run = v.run
  BY DEF VmsOK, VM
<1>2. \A w \in vms' : \E v \in vms : w \in VM /\ w.run = v.run
  BY <1>1 DEF VmsOK, Unlink
<1> QED BY <1>2 DEF VmsOK, RunsOK

\* Adding a forward, in whole, in part or not at all.
LEMMA ForwardsKeepTypes ==
    ASSUME RulesOK, NEW R, R \subseteq Rule, NEW done, NEW failed, AddPortForwardTo(R, done, failed)
    PROVE  RulesOK'
<1>1. {r \in R : r.chain = "PREROUTING"} \subseteq Rule OBVIOUS
<1> QED BY <1>1, BagsOK DEF RulesOK, AddPortForwardTo

\* One step of a handler, action by action.
LEMMA StepKeepsTypes ==
    ASSUME LifeInv, NEW p \in Goroutines, Step(p)
    PROVE  LifeTypes'
<1> USE DEF LifeInv, LifeTypes, regVars, hostVars, envVars
<1> DEFINE id == proc[p].id
           sb == proc[p].sb
<1>0. proc[p] \in Frame /\ LocalOK(proc[p]) BY DEF ProcOK
<1>a. proc[p].pc \in WithRow =>
          /\ id \in Ids /\ sb \in Sandbox /\ sb.id = id /\ sb.tap \in Taps /\ sb.ip \in IPs
          /\ sb.port \in HostPorts /\ sb.rootfs \in Ids
  BY <1>0 DEF LocalOK, WithRow, Sandbox
<1>1. CASE InsertRow(p)
  <2> USE <1>1 DEF InsertRow
  <2>1. id \in Ids BY <1>0 DEF LocalOK
  <2>2. ASSUME Create(id, id, proc[p].expires),
               proc' = [proc EXCEPT ![p].pc = "create_tap", ![p].sb = RowOf(id, sandboxes')]
        PROVE  ProcOK'
    <3> DEFINE row == RowOf(id, sandboxes')
               x == [[proc[p] EXCEPT !.pc = "create_tap"] EXCEPT !.sb = row]
    <3>1. row \in Sandbox /\ row.id = id
      <4>1. RegInv' BY StepUsesRegistry, RegNextInv
      <4>2. \E r \in sandboxes' : r.id = id BY <2>2, CreateInserts
      <4> QED BY <4>1, <4>2 DEF RowOf, RegInv, RegTypeOK
    <3> HIDE DEF row
    <3>2. x \in Frame BY <1>0, <3>1 DEF Frame, PCs
    <3>3. /\ x.pc = "create_tap" /\ x.sb = row /\ x.ctx = proc[p].ctx
          /\ x.snap = proc[p].snap /\ x.by = proc[p].by /\ x.id = id
      BY <1>0 DEF Frame
    <3>4. proc' = [proc EXCEPT ![p] = x] BY <2>2 DEF ProcOK, row
    <3> HIDE DEF x
    <3>5. LocalOK(x) BY <1>0, <3>1, <3>3 DEF LocalOK, WithRow
    <3> QED BY <3>2, <3>4, <3>5, SetFrame
  <2>3. ProcOK' BY <2>2, ReturnOK
  <2>4. DisksOK' BY <2>1, FilesOK DEF DisksOK
  <2> QED BY <2>3, <2>4 DEF RulesOK, TapsOK, VmsOK, MemoryOK, EnvOK, RunsOK
<1>2. CASE CreateTap(p)
  <2> USE <1>2 DEF CreateTap
  <2>1. proc[p].pc \in WithRow BY DEF WithRow, PCs
  <2>2. ProcOK' BY <2>1, GoOnOK, RollbackOK DEF WithRow, PCs
  <2>3. \A d \in taps' : d \in taps \/ \E b \in BOOLEAN : d = [tap |-> sb.tap, owner |-> id, bridged |-> b]
    OBVIOUS
  <2>4. TapsOK' BY <1>a, <2>1, <2>3 DEF TapsOK
  <2> QED BY <2>2, <2>4 DEF RulesOK, DisksOK, VmsOK, MemoryOK, EnvOK, RunsOK
<1>3. CASE StartVM(p)
  <2> USE <1>3 DEF StartVM
  <2>1. proc[p].pc \in WithRow BY DEF WithRow, PCs
  <2>2. ProcOK' BY <2>1, GoOnOK, RollbackOK DEF WithRow, PCs
  <2>3. ASSUME NEW d \in Bootable(sb) PROVE
          LET v == Launched(sb, d, sb.ip, 0, 0) IN v \in VM /\ v.run = crashes
    BY <1>a, <2>1 DEF Launched, Bootable, VM, TapsOK, EnvOK
  <2>4. \A v \in vms' : v \in vms \/ (v \in VM /\ v.run = crashes /\ main = "serve") BY <2>3
  <2> QED BY <2>2, <2>4 DEF RulesOK, TapsOK, DisksOK, VmsOK, MemoryOK, EnvOK, RunsOK
<1>4. CASE AddPortForward(p)
  <2> USE <1>4 DEF AddPortForward
  <2>1. proc[p].pc \in WithRow BY DEF WithRow, PCs
  <2>2. ProcOK' BY <2>1, GoOnOK DEF WithRow, PCs, AddPortForwardTo
  <2>3. RulesOK' BY <1>a, <2>1, ForwardOK, ForwardsKeepTypes
  <2> QED BY <2>2, <2>3 DEF TapsOK, DisksOK, VmsOK, MemoryOK, EnvOK, RunsOK
<1>5. CASE RecordStart(p)
  <2> USE <1>5 DEF RecordStart
  <2>1. proc[p].pc \in WithRow BY DEF WithRow, PCs
  <2>2. ProcOK' BY <2>1, GoOnOK DEF WithRow, PCs
  <2>3. Forward(sb.port, sb.ip, PrimaryPort) \subseteq Rule BY <1>a, <2>1, ForwardOK
  <2>4. rules' = rules \/ rules' = rules (-) SetToBag(Forward(sb.port, sb.ip, PrimaryPort))
    BY DEF Without
  <2>5. RulesOK' BY <2>3, <2>4, BagsOK DEF RulesOK
  <2> QED BY <2>2, <2>5 DEF TapsOK, DisksOK, VmsOK, MemoryOK, EnvOK, RunsOK
<1>6. CASE StopForce(p)
  <2> USE <1>6 DEF StopForce
  <2>1. ProcOK' BY RollbackOK DEF WithRow, PCs
  <2> QED BY <2>1 DEF RulesOK, TapsOK, DisksOK, VmsOK, MemoryOK, EnvOK, RunsOK
<1>7. CASE StoreMachine(p)
  <2> USE <1>7 DEF StoreMachine
  <2>1. proc[p].pc \in WithRow BY DEF WithRow, PCs
  <2>2. ProcOK' BY <2>1, GoOnOK DEF WithRow, PCs
  <2> QED BY <1>a, <2>1, <2>2 DEF RulesOK, TapsOK, DisksOK, VmsOK, MemoryOK, EnvOK, RunsOK
<1>8. CASE WaitForAgent(p)
  <2> USE <1>8 DEF WaitForAgent
  <2>1. proc[p].pc \in WithRow BY DEF WithRow, PCs
  <2> DEFINE x == [Idle EXCEPT !.pc = "get_row", !.id = id, !.by = proc[p].by]
  <2>2. x \in Frame /\ LocalOK(x)
    <3>1. id \in Ids /\ proc[p].by = 0 BY <1>0, <1>a, <2>1 DEF LocalOK
    <3> QED BY <3>1 DEF Idle, Frame, LocalOK, PCs, WithRow, NoRow, NULL
  <2>3. proc' = [proc EXCEPT ![p] = x] => ProcOK'
    <3> HIDE DEF x
    <3> QED BY <2>2, SetFrame
  <2>4. ProcOK' BY <2>3, ReturnOK
  <2> QED BY <1>a, <2>1, <2>4 DEF RulesOK, TapsOK, DisksOK, VmsOK, MemoryOK, EnvOK, RunsOK
<1>9. CASE GetRow(p)
  <2> USE <1>9 DEF GetRow
  <2> DEFINE row == RowOf(id, sandboxes)
             x == [[proc[p] EXCEPT !.pc = "read_ports"] EXCEPT !.sb = row]
  <2>1. id \in Ids BY <1>0 DEF LocalOK
  <2>2. ASSUME Get(id) # {}, proc' = [proc EXCEPT ![p].pc = "read_ports", ![p].sb = row]
        PROVE  ProcOK'
    <3>1. row \in Sandbox /\ row.id = id BY <2>2 DEF Get, RowOf, RegInv, RegTypeOK
    <3>2. proc' = [proc EXCEPT ![p] = x] BY <2>2 DEF ProcOK
    <3> HIDE DEF row
    <3>3. x \in Frame BY <1>0, <3>1 DEF Frame, PCs
    <3>4. /\ x.pc = "read_ports" /\ x.sb = row /\ x.ctx = proc[p].ctx
          /\ x.snap = proc[p].snap /\ x.by = proc[p].by /\ x.id = id
      BY <1>0 DEF Frame
    <3> HIDE DEF x
    <3>5. LocalOK(x) BY <1>0, <2>1, <3>1, <3>4 DEF LocalOK, WithRow
    <3> QED BY <3>2, <3>3, <3>5, SetFrame
  <2>3. ProcOK' BY <2>2, ReturnOK
  <2> QED BY <2>3 DEF RulesOK, TapsOK, DisksOK, VmsOK, MemoryOK, EnvOK, RunsOK
<1>10. CASE ReadPorts(p)
  <2> USE <1>10 DEF ReadPorts
  <2> DEFINE ports == IF Cancelled(p) THEN {} ELSE Ports(id)
             x == [[proc[p] EXCEPT !.pc = "take_machine"] EXCEPT !.extra = ports]
  <2>1. proc[p].pc \in WithRow BY DEF WithRow, PCs
  <2>2. ports \subseteq PortRow BY DEF Ports, RegInv, RegTypeOK
  <2>3. proc' = [proc EXCEPT ![p] = x] BY DEF ProcOK
  <2> HIDE DEF ports
  <2>4. x \in Frame BY <1>0, <2>2 DEF Frame, PCs
  <2>5. /\ x.pc = "take_machine" /\ x.sb = sb /\ x.ctx = proc[p].ctx
        /\ x.snap = proc[p].snap /\ x.by = proc[p].by /\ x.id = id
    BY <1>0 DEF Frame
  <2> HIDE DEF x
  <2>6. LocalOK(x) BY <1>0, <1>a, <2>1, <2>5 DEF LocalOK, WithRow
  <2>7. ProcOK' BY <2>3, <2>4, <2>6, SetFrame
  <2> QED BY <2>7 DEF RulesOK, TapsOK, DisksOK, VmsOK, MemoryOK, EnvOK, RunsOK
<1>11. CASE TakeMachine(p)
  <2> USE <1>11 DEF TakeMachine
  <2>1. ProcOK' BY GoOnOK DEF WithRow, PCs
  <2> QED BY <2>1 DEF RulesOK, TapsOK, DisksOK, VmsOK, MemoryOK, EnvOK, RunsOK
<1>12. CASE WaitVM(p)
  <2> USE <1>12 DEF WaitVM
  <2>1. ProcOK' BY GoOnOK DEF WithRow, PCs
  <2> QED BY <2>1 DEF RulesOK, TapsOK, DisksOK, VmsOK, MemoryOK, EnvOK, RunsOK
<1>13. CASE RemoveForwards(p)
  <2> USE <1>13 DEF RemoveForwards
  <2>1. proc[p].pc \in WithRow BY DEF WithRow, PCs
  <2>2. ProcOK' BY <2>1, GoOnOK DEF WithRow, PCs
  <2>3. Forward(sb.port, sb.ip, PrimaryPort) \subseteq Rule BY <1>a, <2>1, ForwardOK
  <2>4. UNION {Forward(m.host, sb.ip, m.guest) : m \in proc[p].extra} \subseteq Rule
    <3>1. \A m \in proc[p].extra : m.host \in HostPorts /\ m.guest \in GuestPorts
      BY <1>0 DEF Frame, PortRow
    <3>2. \A m \in proc[p].extra : Forward(m.host, sb.ip, m.guest) \subseteq Rule
      BY <1>a, <2>1, <3>1, ForwardOK
    <3> QED BY <3>2
  <2>5. RulesOK' BY <2>3, <2>4, BagsOK DEF RulesOK, Without
  <2> QED BY <2>2, <2>5 DEF TapsOK, DisksOK, VmsOK, MemoryOK, EnvOK, RunsOK
<1>14. CASE DeleteTap(p)
  <2> USE <1>14 DEF DeleteTap
  <2>1. ProcOK' BY GoOnOK DEF WithRow, PCs
  <2> QED BY <2>1 DEF RulesOK, TapsOK, DisksOK, VmsOK, MemoryOK, EnvOK, RunsOK
<1>15. CASE RemoveRootfs(p)
  <2> USE <1>15 DEF RemoveRootfs
  <2>1. proc[p].pc \in WithRow BY DEF WithRow, PCs
  <2>2. ProcOK' BY <2>1, GoOnOK DEF WithRow, PCs
  <2>3. DisksOK' /\ VmsOK' /\ RunsOK' BY <1>a, <2>1, FilesOK, UnlinkOK
  <2> QED BY <2>2, <2>3 DEF RulesOK, TapsOK, MemoryOK, EnvOK
<1>16. CASE DeleteRow(p)
  <2> USE <1>16 DEF DeleteRow
  <2>1. ProcOK' BY ReturnOK
  <2> QED BY <2>1 DEF RulesOK, TapsOK, DisksOK, VmsOK, MemoryOK, EnvOK, RunsOK
<1>17. CASE AllocatePort(p)
  <2> USE <1>17 DEF AllocatePort
  <2> DEFINE mapping(table) == CHOOSE m \in table : m.id = id /\ m.guest = proc[p].guest
             x(h) == [[proc[p] EXCEPT !.pc = "add_forward"] EXCEPT !.host = h]
  <2>1. proc[p].pc \in WithRow BY DEF WithRow, PCs
  <2>2. ASSUME NEW h \in HostPorts, proc' = [proc EXCEPT ![p].pc = "add_forward", ![p].host = h]
        PROVE  ProcOK'
    <3>1. proc' = [proc EXCEPT ![p] = x(h)] BY <2>2 DEF ProcOK
    <3>2. x(h) \in Frame BY <1>0 DEF Frame, PCs
    <3>3. /\ x(h).pc = "add_forward" /\ x(h).sb = sb /\ x(h).ctx = proc[p].ctx /\ x(h).host = h
          /\ x(h).snap = proc[p].snap /\ x(h).by = proc[p].by /\ x(h).id = id
          /\ x(h).guest = proc[p].guest
      BY <1>0 DEF Frame
    <3> HIDE DEF x
    <3>4. LocalOK(x(h)) BY <1>0, <1>a, <2>1, <3>3 DEF LocalOK, WithRow
    <3> QED BY <3>1, <3>2, <3>4, SetFrame
  <2>3. CASE Return(p) BY <2>3, ReturnOK DEF RulesOK, TapsOK, DisksOK, VmsOK, MemoryOK, EnvOK, RunsOK
  <2>4. CASE AddPort(id, proc[p].guest) /\
             proc' = [proc EXCEPT ![p].pc = "add_forward", ![p].host = mapping(sandbox_ports').host]
    <3>1. RegInv' BY StepUsesRegistry, RegNextInv
    <3>2. \E m \in sandbox_ports' : m.id = id /\ m.guest = proc[p].guest
      BY <2>4, AddPortInserts
    <3>3. mapping(sandbox_ports') \in PortRow BY <3>1, <3>2 DEF RegInv, RegTypeOK
    <3>4. mapping(sandbox_ports').host \in HostPorts BY <3>3 DEF PortRow
    <3> HIDE DEF mapping
    <3>5. ProcOK' BY <2>2, <2>4, <3>4
    <3> QED BY <3>5 DEF RulesOK, TapsOK, DisksOK, VmsOK, MemoryOK, EnvOK, RunsOK
  <2>5. CASE (\E m \in Ports(id) : m.guest = proc[p].guest) /\
             proc' = [proc EXCEPT ![p].pc = "add_forward", ![p].host = mapping(sandbox_ports).host]
    <3>1. \E m \in sandbox_ports : m.id = id /\ m.guest = proc[p].guest BY <2>5 DEF Ports
    <3>2. mapping(sandbox_ports) \in PortRow BY <3>1 DEF RegInv, RegTypeOK
    <3>3. mapping(sandbox_ports).host \in HostPorts BY <3>2 DEF PortRow
    <3> HIDE DEF mapping
    <3>4. ProcOK' BY <2>2, <2>5, <3>3
    <3> QED BY <3>4 DEF RulesOK, TapsOK, DisksOK, VmsOK, MemoryOK, EnvOK, RunsOK
  <2> QED BY <2>3, <2>4, <2>5
<1>18. CASE ForwardExtra(p)
  <2> USE <1>18 DEF ForwardExtra
  <2>1. proc[p].pc \in WithRow BY DEF WithRow, PCs
  <2>2. LocalOK([proc[p] EXCEPT !.pc = "delete_port"]) BY <1>0, <2>1 DEF LocalOK, Frame, WithRow
  <2>3. GoTo(p, "delete_port") => ProcOK' BY <2>2, GoToOK DEF PCs
  <2>4. ProcOK' BY <2>3, ReturnOK DEF AddPortForwardTo
  <2>5. proc[p].host \in HostPorts /\ proc[p].guest \in GuestPorts BY <1>0 DEF LocalOK
  <2>6. RulesOK' BY <1>a, <2>1, <2>5, ForwardOK, ForwardsKeepTypes
  <2> QED BY <2>4, <2>6 DEF TapsOK, DisksOK, VmsOK, MemoryOK, EnvOK, RunsOK
<1>19. CASE UndoPort(p)
  <2> USE <1>19 DEF UndoPort
  <2>1. ProcOK' BY ReturnOK
  <2> QED BY <2>1 DEF RulesOK, TapsOK, DisksOK, VmsOK, MemoryOK, EnvOK, RunsOK
<1> QED BY <1>1, <1>2, <1>3, <1>4, <1>5, <1>6, <1>7, <1>8, <1>9, <1>10, <1>11, <1>12, <1>13, <1>14,
           <1>15, <1>16, <1>17, <1>18, <1>19
    DEF Step

\* Every step of the host, action by action.
LEMMA NextKeepsTypes == LifeInv /\ [Next]_vars => LifeTypes'
<1> SUFFICES ASSUME LifeInv, [Next]_vars PROVE LifeTypes' OBVIOUS
<1> USE DEF LifeInv, LifeTypes, regVars, hostVars, memVars, envVars
<1>0. Main \in Goroutines /\ Reaper \in Goroutines /\ Requests \subseteq Goroutines BY DEF Goroutines
<1>1. CASE Arrival
  <2>1. PICK p \in Requests :
          \/ \E timeout \in Timeouts : PrepareRootfs(p, timeout)
          \/ \E id \in Ids : DestroyArrives(p, id)
          \/ \E id \in Ids, guest \in GuestPorts : ExposeArrives(p, id, guest)
    BY <1>1 DEF Arrival
  <2>2. CASE \E timeout \in Timeouts : PrepareRootfs(p, timeout)
    <3>1. nextId \in Ids BY <2>2 DEF PrepareRootfs
    <3> QED BY <1>0, <2>2, <3>1, ArrivalKeepsTypes
  <2>3. CASE \E id \in Ids : DestroyArrives(p, id) BY <1>0, <2>3, ArrivalKeepsTypes
  <2>4. CASE \E id \in Ids, guest \in GuestPorts : ExposeArrives(p, id, guest)
    BY <1>0, <2>4, ArrivalKeepsTypes
  <2> QED BY <2>1, <2>2, <2>3, <2>4
<1>2. ASSUME NEW p \in Goroutines, Step(p) PROVE LifeTypes' BY <1>2, StepKeepsTypes
<1>3. ASSUME NEW id \in Ids, NEW timeout \in Timeouts, SetTimeout(id, timeout) PROVE LifeTypes'
  BY <1>3 DEF SetTimeout, ProcOK, RulesOK, TapsOK, DisksOK, VmsOK, MemoryOK, EnvOK, RunsOK
<1>4. CASE ReaperTick
  <2>1. todo' \subseteq Ids BY <1>4 DEF ReaperTick, Expired, RegInv, RegTypeOK, Sandbox
  <2> QED BY <1>4, <2>1 DEF ReaperTick, ProcOK, RulesOK, TapsOK, DisksOK, VmsOK, MemoryOK, EnvOK, RunsOK
<1>5. CASE ReapNext
  <2>1. PICK id \in todo : /\ todo' = todo \ {id}
                           /\ proc' = [proc EXCEPT ![Reaper] = [Idle EXCEPT !.pc = "get_row", !.id = id]]
    BY <1>5 DEF ReapNext
  <2> DEFINE x == [Idle EXCEPT !.pc = "get_row", !.id = id]
  <2>2. x \in Frame /\ LocalOK(x) BY DEF MemoryOK, Idle, Frame, LocalOK, PCs, WithRow, NoRow, NULL
  <2>3. ProcOK'
    <3> HIDE DEF x
    <3> QED BY <1>0, <2>1, <2>2, SetFrame DEF x
  <2> QED BY <1>5, <2>3 DEF ReapNext, RulesOK, TapsOK, DisksOK, VmsOK, MemoryOK, EnvOK, RunsOK
<1>6. CASE Restart
  <2>1. todo' \subseteq Ids BY <1>6 DEF Restart, RegInv, RegTypeOK, Sandbox
  <2> QED BY <1>6, <2>1 DEF Restart, ProcOK, RulesOK, TapsOK, DisksOK, VmsOK, MemoryOK, EnvOK, RunsOK
<1>7. CASE ReconcileNext
  <2> DEFINE sb(id) == RowOf(id, sandboxes)
             ctx == IF main = "abort" THEN "cancelled" ELSE "background"
             x(id) == [Idle EXCEPT !.pc = "read_ports", !.id = id, !.sb = sb(id), !.ctx = ctx]
  <2>1. PICK id \in todo :
          /\ todo' = todo \ {id}
          /\ vms' = {v \in vms : v.id # sb(id).pid}
          /\ proc' = [proc EXCEPT ![Main] = x(id)]
    BY <1>7 DEF ReconcileNext
  <2>2. sb(id) \in Sandbox /\ sb(id).id = id /\ id \in Ids
    <3>1. \E r \in sandboxes : r.id = id BY <1>7 DEF ReconcileNext, ReconcileOK
    <3> QED BY <3>1 DEF RowOf, RegInv, RegTypeOK, MemoryOK
  <2>3. x(id) \in Frame /\ LocalOK(x(id))
    <3> HIDE DEF sb
    <3> QED BY <2>2 DEF Idle, Frame, LocalOK, PCs, WithRow, NoRow, NULL
  <2> HIDE DEF x, sb
  <2>4. ProcOK' BY <1>0, <2>1, <2>3, SetFrame
  <2>5. VmsOK' /\ RunsOK' BY <1>7, <2>1 DEF ReconcileNext, VmsOK, RunsOK
  <2> QED BY <1>7, <2>1, <2>4, <2>5 DEF ReconcileNext, RulesOK, TapsOK, DisksOK, MemoryOK, EnvOK
<1>8. CASE Listen
  BY <1>8 DEF Listen, ProcOK, RulesOK, TapsOK, DisksOK, VmsOK, MemoryOK, EnvOK, RunsOK
<1>9. CASE Stop
  <2> USE <1>9 DEF Stop
  <2>1. ProcOK'
    <3> DEFINE x == [proc[Main] EXCEPT !.ctx = "cancelled"]
    <3>1. ~IsIdle(Main) => x \in Frame /\ LocalOK(x) BY <1>0 DEF ProcOK, Frame, LocalOK, IsIdle
    <3>2. ~IsIdle(Main) /\ proc' = [proc EXCEPT ![Main] = x] => ProcOK'
      <4> HIDE DEF x
      <4> QED BY <1>0, <3>1, SetFrame
    <3> QED BY <1>0, <3>2 DEF ProcOK
  <2>2. VmsOK' /\ RunsOK' BY DEF VmsOK, RunsOK, VM, EnvOK
  <2> QED BY <2>1, <2>2, LifecycleAssumption DEF RulesOK, TapsOK, DisksOK, MemoryOK, EnvOK
<1>10. CASE ShutdownAll
  <2>1. ASSUME NEW p \in Goroutines PROVE proc'[p] \in Frame /\ LocalOK(proc'[p])
    <3>1. CASE p \in machines
      <4>1. proc'[p] = [Idle EXCEPT !.pc = "get_row", !.id = p] BY <1>10, <3>1 DEF ShutdownAll
      <4>2. p \in Ids BY <3>1 DEF MemoryOK
      <4> QED BY <4>1, <4>2 DEF Idle, Frame, LocalOK, PCs, WithRow, NoRow, NULL
    <3>2. CASE p \notin machines BY <1>10, <3>2 DEF ShutdownAll, ProcOK
    <3> QED BY <3>1, <3>2
  <2>2. ProcOK' BY <1>10, <2>1 DEF ShutdownAll, ProcOK
  <2> QED BY <1>10, <2>2 DEF ShutdownAll, RulesOK, TapsOK, DisksOK, VmsOK, MemoryOK, EnvOK, RunsOK
<1>11. CASE Exit
  <2>1. ProcOK' BY <1>11, IdleOK DEF Exit, ProcessGone, ProcOK
  <2> QED BY <1>11, <2>1 DEF Exit, ProcessGone, RulesOK, TapsOK, DisksOK, VmsOK, MemoryOK, EnvOK, RunsOK
<1>12. ASSUME NEW p \in Requests, Disconnect(p) PROVE LifeTypes'
  <2> DEFINE x == [proc[p] EXCEPT !.ctx = "cancelled"]
  <2>0. proc[p].pc # "idle" BY <1>12 DEF Disconnect, UsesContext
  <2>1. x \in Frame /\ LocalOK(x) BY <1>0, <2>0 DEF ProcOK, Frame, LocalOK
  <2>2. proc' = [proc EXCEPT ![p] = x] BY <1>0, <1>12 DEF Disconnect, ProcOK
  <2> HIDE DEF x
  <2>3. ProcOK' BY <1>0, <2>1, <2>2, SetFrame
  <2> QED BY <1>12, <2>3 DEF Disconnect, RulesOK, TapsOK, DisksOK, VmsOK, MemoryOK, EnvOK, RunsOK
<1>13. ASSUME NEW v \in vms, VMExit(v) PROVE LifeTypes'
  BY <1>13 DEF VMExit, ProcOK, RulesOK, TapsOK, DisksOK, VmsOK, MemoryOK, EnvOK, RunsOK
<1>14. CASE Crash
  <2>1. ProcOK' BY <1>14, IdleOK DEF Crash, ProcessGone, ProcOK
  <2>2. VmsOK' /\ RunsOK' BY <1>14 DEF Crash, ProcessGone, VmsOK, VM, RunsOK, EnvOK
  <2> QED BY <1>14, <2>1, <2>2, LifecycleAssumption
      DEF Crash, ProcessGone, RulesOK, TapsOK, DisksOK, MemoryOK, EnvOK
<1>15. CASE Reboot
  <2>1. ProcOK' BY <1>15, IdleOK DEF Reboot, ProcessGone, ProcOK
  <2>2. RulesOK' BY <1>15 DEF Reboot, RulesOK, EmptyBag, IsABag, BagToSet, SetToBag
  <2>3. TapsOK' /\ DisksOK' /\ VmsOK' /\ RunsOK' BY <1>15 DEF Reboot, TapsOK, DisksOK, VmsOK, RunsOK
  <2> QED BY <1>15, <2>1, <2>2, <2>3, LifecycleAssumption DEF Reboot, ProcessGone, MemoryOK, EnvOK
<1>16. CASE Tick
  BY <1>16, LifecycleAssumption DEF Tick, ProcOK, RulesOK, TapsOK, DisksOK, VmsOK, MemoryOK, EnvOK, RunsOK
<1>17. CASE UNCHANGED vars
  BY <1>17 DEF vars, ProcOK, RulesOK, TapsOK, DisksOK, VmsOK, MemoryOK, EnvOK, RunsOK
<1> QED BY <1>1, <1>2, <1>3, <1>4, <1>5, <1>6, <1>7, <1>8, <1>9, <1>10, <1>11, <1>12, <1>13, <1>14,
           <1>15, <1>16, <1>17
    DEF Next, Serve, Environment

-----------------------------------------------------------------------------
(* Reconcile *)

\* A goroutine that is not at the end stays with its sandbox and its context.
Moves(p) ==
    /\ proc[p].pc # "idle"
    /\ \A q \in Goroutines \ {p} : proc'[q] = proc[q]
    /\ proc'[p].pc = "idle" \/ proc'[p].id = proc[p].id
    /\ proc'[p].ctx \in {proc[p].ctx, "background"}
    /\ UNCHANGED <<todo, main, now, nextId, crashes>>

\* Every step of a handler moves one goroutine.
LEMMA StepMoves == ASSUME ProcOK, NEW p \in Goroutines, Step(p) PROVE Moves(p)
<1>0. proc[p] \in Frame /\ proc \in [Goroutines -> Frame] BY DEF ProcOK
<1> USE <1>0 DEF Frame, Moves, GoTo, Return, Rollback, Idle, envVars
<1>1. CASE InsertRow(p) BY <1>1 DEF InsertRow
<1>2. CASE CreateTap(p) BY <1>2 DEF CreateTap
<1>3. CASE StartVM(p) BY <1>3 DEF StartVM
<1>4. CASE AddPortForward(p) BY <1>4 DEF AddPortForward, AddPortForwardTo
<1>5. CASE RecordStart(p) BY <1>5 DEF RecordStart
<1>6. CASE StopForce(p) BY <1>6 DEF StopForce
<1>7. CASE StoreMachine(p) BY <1>7 DEF StoreMachine
<1>8. CASE WaitForAgent(p)
  <2> DEFINE x == [Idle EXCEPT !.pc = "get_row", !.id = proc[p].id, !.by = proc[p].by]
  <2>1. x.id = proc[p].id /\ x.ctx = "background" BY DEF Idle
  <2>2. /\ proc[p].pc = "wait_agent" /\ UNCHANGED <<todo, main, now, nextId, crashes>>
        /\ proc' = [proc EXCEPT ![p] = Idle] \/ proc' = [proc EXCEPT ![p] = x]
    BY <1>8 DEF WaitForAgent
  <2> HIDE DEF x
  <2> QED BY <2>1, <2>2
<1>9. CASE GetRow(p) BY <1>9 DEF GetRow
<1>10. CASE ReadPorts(p) BY <1>10 DEF ReadPorts
<1>11. CASE TakeMachine(p) BY <1>11 DEF TakeMachine
<1>12. CASE WaitVM(p) BY <1>12 DEF WaitVM
<1>13. CASE RemoveForwards(p) BY <1>13 DEF RemoveForwards
<1>14. CASE DeleteTap(p) BY <1>14 DEF DeleteTap
<1>15. CASE RemoveRootfs(p) BY <1>15 DEF RemoveRootfs
<1>16. CASE DeleteRow(p) BY <1>16 DEF DeleteRow
<1>17. CASE AllocatePort(p) BY <1>17 DEF AllocatePort
<1>18. CASE ForwardExtra(p) BY <1>18 DEF ForwardExtra, AddPortForwardTo
<1>19. CASE UndoPort(p) BY <1>19 DEF UndoPort
<1> QED BY <1>1, <1>2, <1>3, <1>4, <1>5, <1>6, <1>7, <1>8, <1>9, <1>10, <1>11, <1>12, <1>13, <1>14, <1>15, <1>16, <1>17, <1>18, <1>19
    DEF Step

\* What reconcile does to the registry: it deletes the row of its sandbox before it
\* takes the next, unless the server's context has ended.
LEMMA ReconcileStep ==
    ASSUME ProcOK, NEW p \in Goroutines, Step(p), proc[p].pc \in ReconcilePCs
    PROVE  /\ proc'[p].pc \in ReconcilePCs /\ proc'[p].ctx \in {proc[p].ctx, "background"}
           /\ \A r \in sandboxes' : r \in sandboxes
           /\ \A r \in sandboxes : r.id # proc[p].id => r \in sandboxes'
           /\ proc'[p].pc = "idle" /\ proc[p].ctx # "cancelled" => \A r \in sandboxes' : r.id # proc[p].id
<1>0. proc[p] \in Frame /\ proc \in [Goroutines -> Frame] /\ LocalOK(proc[p]) BY DEF ProcOK
<1> USE <1>0 DEF Frame, ReconcilePCs, regVars
<1>1. CASE DeleteRow(p)
  <2>1. proc'[p] = Idle BY <1>1 DEF DeleteRow, Return
  <2>2. Cancelled(p) <=> proc[p].ctx = "cancelled" BY DEF LocalOK, Cancelled
  <2>3. proc'[p].pc = "idle" /\ proc'[p].ctx = "background" BY <2>1 DEF Idle
  <2>4. /\ \A r \in sandboxes' : r \in sandboxes
        /\ \A r \in sandboxes : r.id # proc[p].id => r \in sandboxes'
        /\ ~Cancelled(p) => \A r \in sandboxes' : r.id # proc[p].id
    BY <1>1 DEF DeleteRow, Destroy, Get
  <2> QED BY <2>2, <2>3, <2>4
<1>2. CASE ReadPorts(p) BY <1>2 DEF ReadPorts
<1>3. CASE TakeMachine(p) BY <1>3 DEF TakeMachine, GoTo
<1>4. CASE WaitVM(p) BY <1>4 DEF WaitVM, GoTo
<1>5. CASE RemoveForwards(p) BY <1>5 DEF RemoveForwards, GoTo
<1>6. CASE DeleteTap(p) BY <1>6 DEF DeleteTap, GoTo
<1>7. CASE RemoveRootfs(p) BY <1>7 DEF RemoveRootfs, GoTo
<1> QED BY <1>1, <1>2, <1>3, <1>4, <1>5, <1>6, <1>7
    DEF Step, InsertRow, CreateTap, StartVM, AddPortForward, RecordStart, StopForce, StoreMachine,
        WaitForAgent, GetRow, AllocatePort, ForwardExtra, UndoPort

\* Every step of the host keeps what reconcile relies on.
LEMMA NextKeepsReconcile == LifeInv /\ [Next]_vars => ReconcileOK'
<1> SUFFICES ASSUME LifeInv, [Next]_vars PROVE ReconcileOK' OBVIOUS
<1> USE DEF LifeInv, LifeTypes, regVars, hostVars, memVars, envVars
<1>0. /\ Main \in Goroutines /\ Reaper \in Goroutines /\ Requests \subseteq Goroutines
      /\ Main \notin Requests /\ Main # Reaper /\ Main \notin Ids /\ proc \in [Goroutines -> Frame]
  BY GoroutinesAssumption DEF Goroutines, ProcOK
<1>1. ASSUME NEW p \in Goroutines, Step(p) PROVE ReconcileOK'
  <2>1. Moves(p) BY <1>1, StepMoves
  <2>2. CASE main \notin {"recover", "abort"}
    <3>1. p # Main BY <2>1, <2>2 DEF ReconcileOK, Moves
    <3>2. main # "down" BY <2>1, <3>1 DEF ReconcileOK, Moves
    <3> QED BY <1>0, <2>1, <2>2, <3>1, <3>2 DEF ReconcileOK, Moves
  <2>3. CASE main \in {"recover", "abort"}
    <3>1. p = Main BY <2>1, <2>3 DEF ReconcileOK, Moves
    <3>2. /\ proc'[Main].pc \in ReconcilePCs /\ proc'[Main].ctx \in {proc[Main].ctx, "background"}
          /\ \A r \in sandboxes' : r \in sandboxes
          /\ \A r \in sandboxes : r.id # proc[Main].id => r \in sandboxes'
          /\ proc'[Main].pc = "idle" /\ proc[Main].ctx # "cancelled" => \A r \in sandboxes' : r.id # proc[Main].id
      BY <1>1, <3>1, ReconcileStep DEF ReconcileOK
    <3>3. \A id \in todo : id \in Ids /\ id # 0 BY CardinalityIds DEF MemoryOK
    <3>4. proc'[Main].pc = "idle" => proc'[Main].id = 0
      BY <1>0, <1>1, NextKeepsTypes DEF ProcOK, LocalOK, Next
    <3> QED BY <1>0, <2>1, <2>3, <3>1, <3>2, <3>3, <3>4 DEF ReconcileOK, Moves
  <2> QED BY <2>2, <2>3
<1>2. CASE Arrival
  <2>1. PICK p \in Requests : /\ main = "serve" /\ UNCHANGED <<main, todo, sandboxes>>
                              /\ \A q \in Goroutines \ {p} : proc'[q] = proc[q]
    BY <1>0, <1>2 DEF Arrival, PrepareRootfs, DestroyArrives, ExposeArrives
  <2> QED BY <1>0, <2>1 DEF ReconcileOK
<1>3. ASSUME NEW id \in Ids, NEW timeout \in Timeouts, SetTimeout(id, timeout) PROVE ReconcileOK'
  BY <1>3 DEF SetTimeout, ReconcileOK
<1>4. CASE ReaperTick BY <1>4 DEF ReaperTick, ReconcileOK
<1>5. CASE ReapNext
  <2>1. \A q \in Goroutines \ {Reaper} : proc'[q] = proc[q] BY <1>0, <1>5 DEF ReapNext
  <2> QED BY <1>0, <1>5, <2>1 DEF ReapNext, ReconcileOK
<1>6. CASE Restart
  <2>1. proc[Main].ctx = "background" /\ proc[Main].id = 0
    BY <1>0, <1>6 DEF Restart, ReconcileOK, ProcOK, LocalOK
  <2>2. \A id \in todo' : \E r \in sandboxes : r.id = id BY <1>6 DEF Restart
  <2>3. 0 \notin todo' BY <1>6, CardinalityIds DEF Restart, RegInv, RegTypeOK, Sandbox
  <2> QED BY <1>0, <1>6, <2>1, <2>2, <2>3 DEF Restart, ReconcileOK
<1>7. CASE ReconcileNext
  <2>1. PICK id \in todo : 
          /\ todo' = todo \ {id}
          /\ proc'[Main].pc = "read_ports" /\ proc'[Main].id = id
          /\ proc'[Main].ctx = IF main = "abort" THEN "cancelled" ELSE "background"
          /\ \A q \in Goroutines \ {Main} : proc'[q] = proc[q]
    BY <1>0, <1>7 DEF ReconcileNext, Idle
  <2>2. proc[Main].id = 0 BY <1>0, <1>7 DEF ReconcileNext, ProcOK, LocalOK, IsIdle
  <2>3. \A r \in sandboxes : r.id # 0 BY CardinalityIds DEF RegInv, RegTypeOK, Sandbox
  <2> QED BY <1>0, <1>7, <2>1, <2>2, <2>3 DEF ReconcileNext, ReconcileOK, ReconcilePCs
<1>8. CASE Listen BY <1>8 DEF Listen, ReconcileOK, IsIdle
<1>9. CASE Stop
  <2>1. proc'[Main].pc = proc[Main].pc /\ proc'[Main].id = proc[Main].id
        /\ \A q \in Goroutines \ {Main} : proc'[q] = proc[q]
    BY <1>0, <1>9 DEF Stop, Frame
  <2> QED BY <1>9, <2>1 DEF Stop, ReconcileOK
<1>10. CASE ShutdownAll
  <2>1. proc'[Main] = proc[Main] BY <1>0, <1>10 DEF ShutdownAll, MemoryOK
  <2> QED BY <1>10, <2>1 DEF ShutdownAll, ReconcileOK
<1>11. CASE Exit \/ Crash \/ Reboot
  <2>1. main' = "down" /\ \A p \in Goroutines : proc'[p].pc = "idle"
    BY <1>11 DEF Exit, Crash, Reboot, ProcessGone, Idle
  <2> QED BY <1>0, <2>1 DEF ReconcileOK, ReconcilePCs
<1>12. ASSUME NEW p \in Requests, Disconnect(p) PROVE ReconcileOK'
  <2>1. \A q \in Goroutines \ {p} : proc'[q] = proc[q] BY <1>0, <1>12 DEF Disconnect
  <2>2. proc'[p].pc = proc[p].pc BY <1>0, <1>12 DEF Disconnect, Frame
  <2> QED BY <1>0, <1>12, <2>1, <2>2 DEF Disconnect, ReconcileOK
<1>13. ASSUME NEW v \in vms, VMExit(v) PROVE ReconcileOK' BY <1>13 DEF VMExit, ReconcileOK
<1>14. CASE Tick BY <1>14 DEF Tick, ReconcileOK
<1>15. CASE UNCHANGED vars BY <1>15 DEF vars, ReconcileOK
<1> QED BY <1>1, <1>2, <1>3, <1>4, <1>5, <1>6, <1>7, <1>8, <1>9, <1>10, <1>11, <1>12, <1>13, <1>14, <1>15
    DEF Next, Serve, Environment

\* Hence the invariant always holds.
LEMMA LifecycleInvariant == Spec => []LifeInv
<1>1. LifeInv /\ [Next]_vars => LifeInv'
  BY NextUsesRegistry, RegNextInv, NextKeepsTypes, NextKeepsReconcile DEF LifeInv
<1> QED BY InitLifeInv, <1>1, PTL DEF Spec

\* The server, its reaper, its startup and its shutdown change the tables only
\* through the registry's operations, called with arguments the registry expects:
\* everything proved of the registry alone holds on a running host.
THEOREM LifecycleUsesRegistry == Spec => RegSpec
<1>1. Init => RegInit BY DEF Init
<1> QED BY <1>1, LifecycleInvariant, NextUsesRegistry, PTL DEF Spec, RegSpec

\* Host state and server memory keep their shape, for any interleaving of
\* handlers, reaper, crashes and restarts.
THEOREM LifecycleTyped == Spec => []LifeTypeOK
<1>1. LifeInv => LifeTypeOK
  <2> SUFFICES ASSUME LifeInv PROVE LifeTypeOK OBVIOUS
  <2>1. nextId \in Ids \cup {Cardinality(Ids) + 1} BY CardinalityIds DEF LifeInv, LifeTypes, EnvOK
  <2> QED BY <2>1 DEF LifeInv, LifeTypes, LifeTypeOK, RegInv, ProcOK, RulesOK, TapsOK, DisksOK, VmsOK,
                      MemoryOK, EnvOK
<1> QED BY <1>1, LifecycleInvariant, PTL

\* After a graceful stop none of the stopped run's VMs is left, whatever handlers
\* were under way, also when the stop finds the server still in reconcile.
THEOREM LifecycleStopKills == Spec => []StopKillsVMs
<1>1. LifeInv => StopKillsVMs BY DEF LifeInv, LifeTypes, RunsOK, StopKillsVMs
<1> QED BY <1>1, LifecycleInvariant, PTL

-----------------------------------------------------------------------------
(* Rules, rows and mappings *)

\* iptables -A of rules that are not there, and -D, with no rule twice.
LEMMA AddRules ==
    ASSUME IsABag(rules), NoDuplicateRule, NEW R, R \cap BagToSet(rules) = {}, rules' = rules (+) SetToBag(R)
    PROVE  IsABag(rules') /\ NoDuplicateRule' /\ BagToSet(rules') = BagToSet(rules) \cup R
BY DEF NoDuplicateRule, IsABag, BagToSet, SetToBag, (+)

\* The rules -D leaves are the others.
LEMMA RemoveRules ==
    ASSUME IsABag(rules), NoDuplicateRule, NEW R, rules' = rules (-) SetToBag(R)
    PROVE  IsABag(rules') /\ NoDuplicateRule' /\ BagToSet(rules') = BagToSet(rules) \ R
BY DEF NoDuplicateRule, IsABag, BagToSet, SetToBag, (-)

\* The rules that lead to a sandbox carry its address.
LEMMA RowRulesMembers ==
    ASSUME NEW r, NEW f
    PROVE  f \in RowRules(r) <=>
             \/ f \in Forward(r.port, r.ip, PrimaryPort)
             \/ \E m \in sandbox_ports : m.id = r.id /\ f \in Forward(m.host, r.ip, m.guest)
BY DEF RowRules, Ports

\* Both rules of a forward carry its host port and address.
LEMMA ForwardMembers ==
    ASSUME NEW host, NEW ip, NEW guest, NEW f \in Forward(host, ip, guest)
    PROVE  f.host = host /\ f.ip = ip
BY DEF Forward

\* A rule a row accounts for leads to its address from one of its host ports.
LEMMA RowRulesAddress ==
    ASSUME NEW r, NEW f \in RowRules(r)
    PROVE  /\ f.ip = r.ip
           /\ f.host = r.port \/ \E m \in sandbox_ports : m.id = r.id /\ m.host = f.host
BY RowRulesMembers, ForwardMembers

\* There is one row per id.
LEMMA OneRow ==
    ASSUME RegInv, NEW r \in sandboxes, NEW s \in sandboxes,
           r.id = s.id \/ r.tap = s.tap \/ r.ip = s.ip \/ r.port = s.port
    PROVE  r = s
BY DEF RegInv, Exclusive, RowsExclusive

\* AddPort inserts one mapping, whose host port is nobody's.
LEMMA AddPortFacts ==
    ASSUME NEW id, NEW guest, AddPort(id, guest)
    PROVE  /\ sandboxes' = sandboxes
           /\ \A m \in sandbox_ports : ~(m.id = id /\ m.guest = guest)
           /\ \E row : /\ row.id = id /\ row.guest = guest /\ sandbox_ports' = sandbox_ports \cup {row}
                       /\ row.host \notin UsedPorts
<1> DEFINE row(p) == [id |-> id, guest |-> guest, host |-> p]
<1>1. PICK p \in HostPorts : pickFreePort(p) /\ InsertPort(row(p)) BY DEF AddPort
<1>2. row(p).id = id /\ row(p).guest = guest /\ row(p).host = p OBVIOUS
<1> HIDE DEF row
<1>3. sandbox_ports' = sandbox_ports \cup {row(p)} /\ p \notin UsedPorts
  BY <1>1 DEF InsertPort, pickFreePort, FirstFree
<1> QED BY <1>2, <1>3 DEF AddPort, Ports
=============================================================================
