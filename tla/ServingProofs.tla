--------------------------- MODULE ServingProofs ---------------------------
(***************************************************************************)
(* A sandbox that was answered 201 stays whole, and while the server is    *)
(* not killed no error path leaves anything behind: proved for disciplined *)
(* clients, on top of what KernelProofs shows.                             *)
(***************************************************************************)
EXTENDS KernelProofs

\* A sandbox without its VM: machine, row, file and rules are there.
Ready(id) ==
    /\ id \in machines /\ id \in DOMAIN disks
    /\ \E r \in sandboxes :
          /\ r.id = id
          /\ Forward(r.port, r.ip, PrimaryPort) \subseteq BagToSet(rules)

\* Every row has its own file, every tap belongs to the sandbox whose row names it,
\* and every VM runs on the tap, the address and the file of its own sandbox.
RowsOwn == \A r \in sandboxes : r.rootfs = r.id
TapsOwn == \A d \in taps : \A r \in sandboxes : r.tap = d.tap => d.owner = r.id
VmsOwn ==
    \A v \in vms :
        /\ v.id < nextId /\ v.dev = v.id
        /\ v.disk = v.id \/ v.id \notin DOMAIN disks
        /\ \A r \in sandboxes : r.id = v.id => v.tap = r.tap /\ v.ip = r.ip

\* What a goroutine knows of its row is nobody else's, also once the row is gone,
\* which only a destroy of shutdownAll can do to it.
CopyOwn(p) ==
    proc[p].pc \in WithRow =>
        /\ proc[p].sb.rootfs = proc[p].id
        /\ main # "stop_all" => \E r \in sandboxes : r.id = proc[p].id
        /\ \A r \in sandboxes : r.id # proc[p].id => r.tap # proc[p].sb.tap /\ r.ip # proc[p].sb.ip

\* What create has brought about so far.
Created(p) ==
    /\ proc[p].pc = "insert_row" => \A v \in vms : v.id # proc[p].id
    /\ proc[p].pc \in {"insert_row", "create_tap", "start_vm", "forward", "finish_start", "store"} =>
          proc[p].id \in DOMAIN disks
    /\ proc[p].pc \in {"finish_start", "store"} =>
          Forward(proc[p].sb.port, proc[p].sb.ip, PrimaryPort) \subseteq BagToSet(rules)

\* A create that waits for the agent finds its sandbox ready, unless shutdownAll
\* destroys it or has done so.
Waiting(p) ==
    proc[p].pc = "wait_agent" =>
        /\ Ready(proc[p].id) \/ Get(proc[p].id) = {} \/ \E q \in Goroutines \ {p} : proc[q].id = proc[p].id
        /\ \A q \in Goroutines \ {p} : proc[q].id = proc[p].id =>
              proc[q].ctx = "background" /\ proc[q].pc \in Destroying

\* A sandbox that serves is whole; nobody works on it but to expose a port, or has
\* only begun to look at it.
Serving ==
    /\ main \in {"down", "recover", "abort"} => serving = {}
    /\ \A id \in serving :
          /\ Whole(id)
          /\ \A p \in Goroutines : proc[p].id = id =>
                proc[p].pc \in {"get_row", "add_port", "add_forward", "delete_port"}

ServeInv ==
    /\ RowsOwn /\ TapsOwn /\ VmsOwn /\ Serving
    /\ \A p \in Goroutines : CopyOwn(p) /\ Created(p) /\ Waiting(p)

-----------------------------------------------------------------------------
(* What one step of a goroutine may change. *)

\* The same sandbox with the same resources and the same file.
SameRow(r, s) == SameHolding(r, s) /\ r.rootfs = s.rootfs

\* Rows keep their resources.  Create adds one with resources nobody has, and only
\* a destroy that can delete takes one away.
StepRows(p) ==
    LET id == proc[p].id IN
    /\ \A r \in sandboxes' :
          \/ \E s \in sandboxes : SameRow(r, s)
          \/ /\ proc[p].pc = "insert_row" /\ r.id = id /\ r.rootfs = id
             /\ \A s \in sandboxes : s.id # id /\ s.tap # r.tap /\ s.ip # r.ip
    /\ \A s \in sandboxes :
          \/ \E r \in sandboxes' : SameRow(r, s)
          \/ proc[p].pc = "delete_row" /\ s.id = id

\* Create writes one row, with resources no other row has.
LEMMA CreateRow ==
    ASSUME NEW id, NEW e, Create(id, id, e)
    PROVE  \E row : /\ row.id = id /\ row.rootfs = id /\ sandboxes' = sandboxes \cup {row}
                    /\ \A s \in sandboxes : s.id # id /\ s.tap # row.tap /\ s.ip # row.ip
<1> DEFINE row(t, a, h) == [id |-> id, pid |-> NoPid, tap |-> t, ip |-> a, port |-> h,
                            rootfs |-> id, expires |-> e]
<1>1. PICK t \in Taps, a \in IPs, h \in HostPorts : InsertSandbox(row(t, a, h)) BY DEF Create
<1>2. row(t, a, h).id = id /\ row(t, a, h).rootfs = id OBVIOUS
<1> HIDE DEF row
<1>3. /\ sandboxes' = sandboxes \cup {row(t, a, h)}
      /\ \A s \in sandboxes : s.id # id /\ s.tap # row(t, a, h).tap /\ s.ip # row(t, a, h).ip
  BY <1>1, <1>2 DEF InsertSandbox
<1> QED BY <1>2, <1>3

\* Action by action: only create, FinishStart and a destroy touch the rows.
LEMMA RowsStep == ASSUME LifeInv, NEW p \in Goroutines, Step(p) PROVE StepRows(p)
<1> USE DEF StepRows, SameRow, SameHolding, regVars
<1>1. CASE InsertRow(p)
  <2>1. CASE Create(proc[p].id, proc[p].id, proc[p].expires)
    <3>1. proc[p].pc = "insert_row" BY <1>1 DEF InsertRow
    <3> QED BY <2>1, <3>1, CreateRow
  <2>2. CASE UNCHANGED sandboxes BY <2>2
  <2> QED BY <1>1, <2>1, <2>2 DEF InsertRow
<1>2. CASE RecordStart(p)
  <2>1. CASE FinishStart(proc[p].sb.id, proc[p].sb.id)
    <3> DEFINE new(r) == IF r.id = proc[p].sb.id THEN [r EXCEPT !.pid = proc[p].sb.id] ELSE r
    <3>1. sandboxes' = {new(r) : r \in sandboxes} BY <2>1 DEF FinishStart
    <3>2. \A r \in sandboxes : SameRow(new(r), r) BY DEF LifeInv, RegInv, RegTypeOK, Sandbox
    <3> HIDE DEF new, SameRow
    <3> QED BY <3>1, <3>2
  <2>2. CASE UNCHANGED sandboxes BY <2>2
  <2> QED BY <1>2, <2>1, <2>2 DEF RecordStart
<1>3. CASE DeleteRow(p) BY <1>3 DEF DeleteRow, Destroy, Get
<1>4. CASE \/ CreateTap(p) \/ StartVM(p) \/ AddPortForward(p)
           \/ StopForce(p) \/ StoreMachine(p) \/ WaitForAgent(p)
           \/ GetRow(p) \/ ReadPorts(p) \/ TakeMachine(p) \/ WaitVM(p)
           \/ RemoveForwards(p) \/ DeleteTap(p) \/ RemoveRootfs(p) \/ ForwardExtra(p)
           \/ AllocatePort(p) \/ UndoPort(p)
  <2>1. UNCHANGED sandboxes
    BY <1>4 DEF CreateTap, StartVM, AddPortForward, StopForce, StoreMachine, WaitForAgent, GetRow,
        ReadPorts, TakeMachine, WaitVM, RemoveForwards, DeleteTap, RemoveRootfs, ForwardExtra,
        AllocatePort, UndoPort, AddPort, DeletePort
  <2> QED BY <2>1
<1> QED BY <1>1, <1>2, <1>3, <1>4 DEF Step

\* Taps come and go with their sandbox.
StepTaps(p) ==
    /\ \A d \in taps' : d \in taps \/
          (proc[p].pc = "create_tap" /\ d.tap = proc[p].sb.tap /\ d.owner = proc[p].id)
    /\ \A d \in taps : d \in taps' \/ (proc[p].pc = "delete_tap" /\ d.tap = proc[p].sb.tap)

\* Only CreateTap and DeleteTap touch the devices.
LEMMA TapsStep == ASSUME NEW p \in Goroutines, Step(p) PROVE StepTaps(p)
<1> USE DEF StepTaps
<1>1. CASE CreateTap(p) BY <1>1 DEF CreateTap
<1>2. CASE DeleteTap(p) BY <1>2 DEF DeleteTap
<1>3. CASE UNCHANGED taps BY <1>3
<1> QED BY <1>1, <1>2, <1>3
    DEF Step, InsertRow, StartVM, AddPortForward, RecordStart, StopForce, StoreMachine, WaitForAgent,
        GetRow, ReadPorts, TakeMachine, WaitVM, RemoveForwards, RemoveRootfs, ForwardExtra, DeleteRow,
        AllocatePort, UndoPort, hostVars

\* The wait ends with an answer or begins a destroy, and changes nothing else.
LEMMA WaitForAgentEnds ==
    ASSUME ProcOK, NEW p \in Goroutines, WaitForAgent(p)
    PROVE  /\ proc[p].pc = "wait_agent" /\ proc'[p].pc \in {"idle", "get_row"}
           /\ UNCHANGED <<regVars, hostVars, machines>>
<1> DEFINE x == [Idle EXCEPT !.pc = "get_row", !.id = proc[p].id, !.by = proc[p].by]
<1>1. x.pc = "get_row" /\ Idle.pc = "idle" BY DEF Idle
<1>2. proc' = [proc EXCEPT ![p] = Idle] \/ proc' = [proc EXCEPT ![p] = x]
  BY DEF WaitForAgent, Return
<1> HIDE DEF x
<1> QED BY <1>1, <1>2 DEF ProcOK, WaitForAgent

\* Rules that are taken away carry the address in the goroutine's copy of its row.
StepRules(p) ==
    /\ \A f \in BagToSet(rules) : f \in BagToSet(rules') \/
          (proc[p].pc \in {"finish_start", "remove_forwards"} /\ f.ip = proc[p].sb.ip)
    /\ proc'[p].pc = "finish_start" => /\ proc[p].pc = "forward"
          /\ Forward(proc[p].sb.port, proc[p].sb.ip, PrimaryPort) \subseteq BagToSet(rules')
    /\ proc'[p].pc = "store" => proc[p].pc = "finish_start" /\ rules' = rules

\* iptables -A adds, also to rules that are there.
LEMMA AddedRules ==
    ASSUME RulesOK, NEW R, rules' = rules (+) SetToBag(R)
    PROVE  BagToSet(rules') = BagToSet(rules) \cup R
BY DEF RulesOK, IsABag, BagToSet, SetToBag, (+)

\* Only adding and removing a forward touches the rules.
LEMMA RulesStep ==
    ASSUME LifeInv, KernelInv, NEW p \in Goroutines, Step(p)
    PROVE  StepRules(p)
<1> USE DEF LifeInv, LifeTypes, StepRules
<1>0. proc \in [Goroutines -> Frame] /\ proc[p] \in Frame BY DEF ProcOK
<1>1. CASE AddPortForward(p)
  <2> DEFINE R == Forward(proc[p].sb.port, proc[p].sb.ip, PrimaryPort)
             S == {r \in R : r.chain = "PREROUTING"}
  <2>1. \/ rules' = rules (+) SetToBag(R) /\ proc'[p].pc = "finish_start"
        \/ rules' = rules /\ proc'[p].pc = "stop_force"
        \/ rules' = rules (+) SetToBag(S) /\ proc'[p].pc = "stop_force"
    BY <1>1, GoToFrame DEF AddPortForward, AddPortForwardTo
  <2>2. proc[p].pc = "forward" BY <1>1 DEF AddPortForward
  <2> HIDE DEF S
  <2> QED BY <2>1, <2>2, AddedRules
<1>2. CASE ForwardExtra(p)
  <2> DEFINE R == Forward(proc[p].host, proc[p].sb.ip, proc[p].guest)
             S == {r \in R : r.chain = "PREROUTING"}
  <2>1. \/ rules' = rules (+) SetToBag(R) /\ Return(p)
        \/ rules' = rules /\ GoTo(p, "delete_port")
        \/ rules' = rules (+) SetToBag(S) /\ GoTo(p, "delete_port")
    BY <1>2 DEF ForwardExtra, AddPortForwardTo
  <2>2. Return(p) => proc'[p].pc = "idle" BY <1>0 DEF Return, Idle
  <2>3. GoTo(p, "delete_port") => proc'[p].pc = "delete_port" BY GoToFrame
  <2> HIDE DEF R, S
  <2> QED BY <2>1, <2>2, <2>3, AddedRules
<1>3. CASE RecordStart(p)
  <2> DEFINE R == Forward(proc[p].sb.port, proc[p].sb.ip, PrimaryPort)
  <2>1. \/ rules' = rules /\ proc'[p].pc = "store"
        \/ rules' = rules (-) SetToBag(R) /\ proc'[p].pc = "stop_force"
    BY <1>3, GoToFrame DEF RecordStart, Without
  <2>2. proc[p].pc = "finish_start" BY <1>3 DEF RecordStart
  <2>3. \A f \in R : f.ip = proc[p].sb.ip BY ForwardMembers
  <2> HIDE DEF R
  <2> QED BY <2>1, <2>2, <2>3, RemoveRules DEF KernelInv, RulesOK
<1>4. CASE RemoveForwards(p)
  <2> DEFINE sb == proc[p].sb
             R == Forward(sb.port, sb.ip, PrimaryPort) \cup
                  UNION {Forward(m.host, sb.ip, m.guest) : m \in proc[p].extra}
  <2>1. rules' = rules (-) SetToBag(R) /\ proc'[p].pc = "delete_tap"
    BY <1>4, GoToFrame DEF RemoveForwards, Without
  <2>2. proc[p].pc = "remove_forwards" BY <1>4 DEF RemoveForwards
  <2>3. \A f \in R : f.ip = sb.ip BY ForwardMembers
  <2> HIDE DEF R
  <2> QED BY <2>1, <2>2, <2>3, RemoveRules DEF KernelInv, RulesOK
<1>5. CASE \/ InsertRow(p) \/ CreateTap(p) \/ StartVM(p) \/ StopForce(p) \/ StoreMachine(p)
           \/ WaitForAgent(p) \/ GetRow(p) \/ ReadPorts(p) \/ TakeMachine(p) \/ WaitVM(p)
           \/ DeleteTap(p) \/ RemoveRootfs(p) \/ DeleteRow(p) \/ AllocatePort(p) \/ UndoPort(p)
  <2>1. UNCHANGED rules
    BY <1>5 DEF InsertRow, CreateTap, StartVM, StopForce, StoreMachine, WaitForAgent, GetRow, ReadPorts,
        TakeMachine, WaitVM, DeleteTap, RemoveRootfs, DeleteRow, AllocatePort, UndoPort, hostVars
  <2>2. proc'[p].pc \notin {"finish_start", "store"}
    <3> USE <1>0 DEF Frame, GoTo, Return, Rollback, Idle
    <3>1. CASE InsertRow(p) \/ CreateTap(p) \/ StartVM(p) \/ StopForce(p) \/ StoreMachine(p)
      BY <3>1 DEF InsertRow, CreateTap, StartVM, StopForce, StoreMachine
    <3>2. CASE WaitForAgent(p) BY <3>2, WaitForAgentEnds
    <3>3. CASE GetRow(p) \/ ReadPorts(p) \/ TakeMachine(p) \/ WaitVM(p) \/ DeleteTap(p) \/ RemoveRootfs(p)
      BY <3>3 DEF GetRow, ReadPorts, TakeMachine, WaitVM, DeleteTap, RemoveRootfs
    <3>4. CASE DeleteRow(p) \/ AllocatePort(p) \/ UndoPort(p)
      BY <3>4 DEF DeleteRow, AllocatePort, UndoPort
    <3> QED BY <1>5, <3>1, <3>2, <3>3, <3>4
  <2> QED BY <2>1, <2>2
<1> QED BY <1>1, <1>2, <1>3, <1>4, <1>5 DEF Step

\* The map and the files change only at the goroutine's own sandbox.
StepMachines(p) ==
    /\ machines \ machines' \subseteq {proc[p].id}
    /\ machines \ machines' # {} => proc[p].pc = "take_machine" /\ proc'[p].pc = "wait_vm"
    /\ machines' \subseteq machines \cup {proc[p].id}
    /\ proc'[p].pc = "wait_agent" => proc[p].pc = "store" /\ proc[p].id \in machines'
    /\ proc[p].pc = "take_machine" => proc[p].id \notin machines'
    /\ machines' \ machines # {} => proc[p].pc = "store" /\ proc'[p].pc = "wait_agent"
    /\ proc[p].pc = "take_machine" /\ proc[p].id \in machines => proc'[p].pc = "wait_vm"

\* Only storing and taking a machine touches the map.
LEMMA MachinesStep == ASSUME ProcOK, NEW p \in Goroutines, Step(p) PROVE StepMachines(p)
<1>0. proc \in [Goroutines -> Frame] /\ proc[p] \in Frame BY DEF ProcOK
<1> USE <1>0 DEF StepMachines
<1>1. CASE StoreMachine(p)
  <2>1. proc'[p].pc = "wait_agent" BY <1>1, GoToFrame DEF StoreMachine
  <2> QED BY <1>1, <2>1 DEF StoreMachine
<1>2. CASE TakeMachine(p)
  <2>1. proc'[p].pc = IF proc[p].id \in machines THEN "wait_vm" ELSE "remove_forwards"
    BY <1>2, GoToFrame DEF TakeMachine
  <2> QED BY <1>2, <2>1 DEF TakeMachine
<1>3. CASE ~StoreMachine(p) /\ ~TakeMachine(p)
  <2>1. UNCHANGED machines
    BY <1>3 DEF Step, InsertRow, CreateTap, StartVM, AddPortForward, RecordStart, StopForce, WaitForAgent,
        GetRow, ReadPorts, WaitVM, RemoveForwards, DeleteTap, RemoveRootfs, ForwardExtra, DeleteRow,
        AllocatePort, UndoPort
  <2>2. proc[p].pc # "take_machine"
    BY <1>3 DEF Step, InsertRow, CreateTap, StartVM, AddPortForward, RecordStart, StopForce, WaitForAgent,
        GetRow, ReadPorts, WaitVM, RemoveForwards, DeleteTap, RemoveRootfs, ForwardExtra, DeleteRow,
        AllocatePort, UndoPort
  <2>3. proc'[p].pc # "wait_agent"
    <3> USE DEF Frame, GoTo, Return, Rollback, Idle
    <3>1. CASE InsertRow(p) \/ CreateTap(p) \/ StartVM(p) \/ StopForce(p) \/ RecordStart(p)
      BY <3>1 DEF InsertRow, CreateTap, StartVM, StopForce, RecordStart
    <3>2. CASE WaitForAgent(p) BY <3>2, WaitForAgentEnds
    <3>3. CASE GetRow(p) \/ ReadPorts(p) \/ WaitVM(p) \/ DeleteTap(p) \/ RemoveRootfs(p)
      BY <3>3 DEF GetRow, ReadPorts, WaitVM, DeleteTap, RemoveRootfs
    <3>4. CASE DeleteRow(p) \/ AllocatePort(p) \/ UndoPort(p) \/ RemoveForwards(p)
      BY <3>4 DEF DeleteRow, AllocatePort, UndoPort, RemoveForwards
    <3>5. CASE AddPortForward(p) \/ ForwardExtra(p)
      BY <3>5 DEF AddPortForward, ForwardExtra, AddPortForwardTo
    <3> QED BY <1>3, <3>1, <3>2, <3>3, <3>4, <3>5 DEF Step
  <2> QED BY <2>1, <2>2, <2>3
<1> QED BY <1>1, <1>2, <1>3

StepDisks(p) ==
    /\ DOMAIN disks' \subseteq DOMAIN disks
    /\ \A path \in DOMAIN disks : path \in DOMAIN disks' \/
          \/ proc[p].pc = "insert_row" /\ path = proc[p].id /\ proc'[p].pc = "idle"
          \/ proc[p].pc = "remove_rootfs" /\ path = proc[p].sb.rootfs
    /\ proc[p].pc = "remove_rootfs" => proc[p].sb.rootfs \notin DOMAIN disks'
    /\ proc[p].pc = "insert_row" =>
          \/ proc'[p].pc = "idle" /\ proc[p].id \notin DOMAIN disks'
          \/ proc'[p].pc = "create_tap" /\ \E r \in sandboxes' : r.rootfs = proc[p].id

\* Only the error path of the insert and RemoveRootfs take a file away.
LEMMA DisksStep == ASSUME ProcOK, NEW p \in Goroutines, Step(p) PROVE StepDisks(p)
<1>0. proc \in [Goroutines -> Frame] /\ proc[p] \in Frame BY DEF ProcOK
<1> USE <1>0 DEF StepDisks, WithoutFile
<1>1. CASE InsertRow(p)
  <2>1. CASE Create(proc[p].id, proc[p].id, proc[p].expires) /\ UNCHANGED disks
             /\ proc' = [proc EXCEPT ![p].pc = "create_tap", ![p].sb = RowOf(proc[p].id, sandboxes')]
    <3>1. \E r \in sandboxes' : r.rootfs = proc[p].id
      BY <2>1, CreateRow
    <3>2. proc'[p].pc = "create_tap" /\ proc[p].pc = "insert_row" BY <1>1, <2>1 DEF InsertRow, Frame
    <3> QED BY <2>1, <3>1, <3>2
  <2>2. CASE disks' = WithoutFile(proc[p].id) /\ Return(p)
    <3>1. proc'[p].pc = "idle" /\ proc[p].pc = "insert_row" BY <1>1, <2>2 DEF InsertRow, Return, Idle
    <3> QED BY <2>2, <3>1
  <2> QED BY <1>1, <2>1, <2>2 DEF InsertRow
<1>2. CASE RemoveRootfs(p) BY <1>2 DEF RemoveRootfs, Unlink
<1>3. CASE ~InsertRow(p) /\ ~RemoveRootfs(p)
  <2>1. UNCHANGED disks /\ proc[p].pc \notin {"insert_row", "remove_rootfs"}
    BY <1>3 DEF Step, CreateTap, StartVM, AddPortForward, RecordStart, StopForce, StoreMachine,
        WaitForAgent, GetRow, ReadPorts, TakeMachine, WaitVM, RemoveForwards, DeleteTap, ForwardExtra,
        DeleteRow, AllocatePort, UndoPort, hostVars
  <2> QED BY <2>1
<1> QED BY <1>1, <1>2, <1>3

\* VMs: one is started on the goroutine's own tap, or its own is stopped, or it
\* loses the name of its file.
StepVms(p) ==
    LET sb == proc[p].sb IN
    /\ \A w \in vms' :
          \/ w \in vms
          \/ /\ proc[p].pc = "remove_rootfs"
             /\ \E v \in vms : /\ v.disk = sb.rootfs /\ w.id = v.id /\ w.dev = v.dev
                               /\ w.tap = v.tap /\ w.ip = v.ip
          \/ /\ proc[p].pc = "start_vm" /\ proc'[p].pc = "forward"
             /\ w.id = sb.id /\ w.tap = sb.tap /\ w.ip = sb.ip /\ w.disk = sb.rootfs
             /\ \E d \in taps : d.tap = sb.tap /\ w.dev = d.owner
    /\ \A v \in vms : v \in vms' \/
          \/ proc[p].pc \in {"stop_force", "wait_vm"} /\ v.id = proc[p].id
          \/ proc[p].pc = "remove_rootfs" /\ v.disk = sb.rootfs
    /\ proc[p].pc \in {"stop_force", "wait_vm"} => \A w \in vms' : w.id # proc[p].id

\* Only starting, stopping and unlinking touch the VMs.
LEMMA VmsStep == ASSUME LifeInv, NEW p \in Goroutines, Step(p) PROVE StepVms(p)
<1> USE DEF LifeInv, LifeTypes, StepVms
<1>1. CASE StartVM(p)
  <2> DEFINE new(d) == Launched(proc[p].sb, d, proc[p].sb.ip, 0, 0)
  <2>1. \A d : /\ new(d).id = proc[p].sb.id /\ new(d).tap = proc[p].sb.tap /\ new(d).ip = proc[p].sb.ip
               /\ new(d).disk = proc[p].sb.rootfs /\ new(d).dev = d.owner
    BY DEF Launched
  <2> HIDE DEF new
  <2>2. proc[p].pc = "start_vm" BY <1>1 DEF StartVM
  <2>3. CASE UNCHANGED vms BY <2>2, <2>3
  <2>4. CASE (\E d \in Bootable(proc[p].sb) : vms' = vms \cup {new(d)}) /\ GoTo(p, "forward")
    <3>1. proc'[p].pc = "forward" BY <2>4, GoToFrame
    <3>2. PICK d \in taps : d.tap = proc[p].sb.tap /\ vms' = vms \cup {new(d)} BY <2>4 DEF Bootable
    <3> QED BY <2>1, <2>2, <3>1, <3>2
  <2> QED BY <1>1, <2>3, <2>4 DEF StartVM, new
<1>2. CASE StopForce(p) \/ WaitVM(p) BY <1>2 DEF StopForce, WaitVM
<1>3. CASE RemoveRootfs(p)
  <2> DEFINE new(v) == IF v.disk = proc[p].sb.rootfs THEN [v EXCEPT !.disk = 0] ELSE v
  <2>1. vms' = {new(v) : v \in vms} /\ proc[p].pc = "remove_rootfs" BY <1>3 DEF RemoveRootfs, Unlink
  <2>2. \A v \in vms : /\ new(v).id = v.id /\ new(v).dev = v.dev /\ new(v).tap = v.tap /\ new(v).ip = v.ip
                       /\ v.disk # proc[p].sb.rootfs => new(v) = v
    BY DEF VmsOK, VM
  <2> HIDE DEF new
  <2> QED BY <2>1, <2>2
<1>4. CASE ~StartVM(p) /\ ~StopForce(p) /\ ~WaitVM(p) /\ ~RemoveRootfs(p)
  <2>1. UNCHANGED vms /\ proc[p].pc \notin {"stop_force", "wait_vm"}
    BY <1>4 DEF Step, InsertRow, CreateTap, AddPortForward, RecordStart, StoreMachine, WaitForAgent,
        GetRow, ReadPorts, TakeMachine, RemoveForwards, DeleteTap, ForwardExtra, DeleteRow, AllocatePort,
        UndoPort, hostVars
  <2> QED BY <2>1
<1> QED BY <1>1, <1>2, <1>3, <1>4

\* The goroutine's copy of its row.
StepCopy(p) ==
    proc'[p].pc \in WithRow =>
        \/ proc[p].pc \in WithRow /\ proc'[p].sb = proc[p].sb
        \/ /\ proc[p].pc \in {"insert_row", "get_row"}
           /\ proc'[p].sb \in sandboxes' /\ proc'[p].sb.id = proc[p].id

\* The copy of the row is read once and kept.
LEMMA CopyStep == ASSUME ProcOK, NEW p \in Goroutines, Step(p) PROVE StepCopy(p)
<1>0. proc \in [Goroutines -> Frame] /\ proc[p] \in Frame BY DEF ProcOK
<1> USE <1>0 DEF StepCopy
<1>1. CASE InsertRow(p)
  <2>1. CASE Create(proc[p].id, proc[p].id, proc[p].expires)
             /\ proc' = [proc EXCEPT ![p].pc = "create_tap", ![p].sb = RowOf(proc[p].id, sandboxes')]
    <3>1. proc'[p].sb = RowOf(proc[p].id, sandboxes') /\ proc[p].pc = "insert_row"
      BY <1>1, <2>1 DEF InsertRow, Frame
    <3>2. \E r \in sandboxes' : r.id = proc[p].id BY <2>1, CreateRow
    <3>3. RowOf(proc[p].id, sandboxes') \in sandboxes' /\ RowOf(proc[p].id, sandboxes').id = proc[p].id
      BY <3>2 DEF RowOf
    <3> QED BY <3>1, <3>3
  <2>2. CASE Return(p) BY <2>2 DEF Return, Idle, WithRow
  <2> QED BY <1>1, <2>1, <2>2 DEF InsertRow
<1>2. CASE GetRow(p)
  <2>1. CASE Get(proc[p].id) # {} /\
             proc' = [proc EXCEPT ![p].pc = "read_ports", ![p].sb = RowOf(proc[p].id, sandboxes)]
    <3>1. proc'[p].sb = RowOf(proc[p].id, sandboxes) /\ proc[p].pc = "get_row" /\ sandboxes' = sandboxes
      BY <1>2, <2>1 DEF GetRow, Frame, regVars
    <3>2. RowOf(proc[p].id, sandboxes) \in sandboxes /\ RowOf(proc[p].id, sandboxes).id = proc[p].id
      BY <2>1 DEF RowOf, Get
    <3> QED BY <3>1, <3>2
  <2>2. CASE Return(p) BY <2>2 DEF Return, Idle, WithRow
  <2> QED BY <1>2, <2>1, <2>2 DEF GetRow
<1>3. CASE WaitForAgent(p) BY <1>3, WaitForAgentEnds DEF WithRow
<1>4. CASE ~InsertRow(p) /\ ~GetRow(p) /\ ~WaitForAgent(p)
  <2> USE DEF Frame, GoTo, Return, Rollback
  <2>1. proc[p].pc \in WithRow
    BY <1>4 DEF Step, CreateTap, StartVM, AddPortForward, RecordStart, StopForce, StoreMachine, ReadPorts,
        TakeMachine, WaitVM, RemoveForwards, DeleteTap, RemoveRootfs, ForwardExtra, DeleteRow,
        AllocatePort, UndoPort, WithRow, PCs
  <2>2. Idle.pc = "idle" BY DEF Idle
  <2>3. proc' = [proc EXCEPT ![p] = Idle] => proc'[p].pc \notin WithRow BY <2>2 DEF WithRow
  <2>4. CASE CreateTap(p) \/ StartVM(p) \/ RecordStart(p) \/ StopForce(p) \/ StoreMachine(p)
    BY <2>1, <2>4 DEF CreateTap, StartVM, RecordStart, StopForce, StoreMachine
  <2>5. CASE ReadPorts(p) \/ TakeMachine(p) \/ WaitVM(p) \/ RemoveForwards(p) \/ DeleteTap(p)
             \/ RemoveRootfs(p)
    BY <2>1, <2>5 DEF ReadPorts, TakeMachine, WaitVM, RemoveForwards, DeleteTap, RemoveRootfs
  <2>6. CASE AddPortForward(p) \/ ForwardExtra(p)
    BY <2>1, <2>3, <2>6 DEF AddPortForward, ForwardExtra, AddPortForwardTo
  <2>7. CASE DeleteRow(p) \/ AllocatePort(p) \/ UndoPort(p)
    BY <2>1, <2>3, <2>7 DEF DeleteRow, AllocatePort, UndoPort
  <2> QED BY <1>4, <2>4, <2>5, <2>6, <2>7 DEF Step
<1> QED BY <1>1, <1>2, <1>3, <1>4

\* The order of the steps, as far as the invariant below needs it, and what is
\* answered to clients.
StepOrder(p) ==
    LET id == proc[p].id IN
    /\ proc'[p].pc # "insert_row"
    /\ proc[p].pc = "delete_row" => proc'[p].pc = "idle"
    /\ proc'[p].pc \in {"create_tap", "start_vm", "forward", "finish_start", "store"} =>
          proc[p].pc \in {"insert_row", "create_tap", "start_vm", "forward", "finish_start"}
    /\ proc[p].pc \in Destroying /\ proc[p].ctx = "background" /\ proc'[p].pc = "idle" =>
          \A r \in sandboxes' : r.id # id
    /\ \/ serving' = serving
       \/ serving' = serving \ {id}
       \/ /\ proc[p].pc = "wait_agent" /\ proc'[p].pc = "idle" /\ serving' = serving \cup {id}
          /\ WorkingOn(id) = {p} /\ Get(id) # {} /\ AgentAnswers(proc[p].sb.ip)
    /\ proc[p].pc \in {"get_row", "add_port", "add_forward", "delete_port"} =>
          id \notin serving' \/ proc'[p].pc \in {"idle", "add_forward", "delete_port"}

\* Action by action.
LEMMA OrderStep == ASSUME ProcOK, NEW p \in Goroutines, Step(p) PROVE StepOrder(p)
<1>0. proc \in [Goroutines -> Frame] /\ proc[p] \in Frame BY DEF ProcOK
<1> DEFINE id == proc[p].id
<1>a. Return(p) => proc'[p].pc = "idle" BY <1>0 DEF Return, Idle
<1>b. Rollback(p) => proc'[p].pc = "delete_tap" BY RollbackFrame
<1>c. \A c : GoTo(p, c) => proc'[p].pc = c BY GoToFrame
<1> USE DEF StepOrder, Destroying
<1>1. CASE InsertRow(p)
  <2>1. proc[p].pc = "insert_row" /\ serving' = serving /\ proc'[p].pc \in {"idle", "create_tap"}
    BY <1>0, <1>1, <1>a DEF InsertRow, Frame
  <2> QED BY <2>1
<1>2. CASE WaitForAgent(p)
  <2>1. proc[p].pc = "wait_agent" /\ proc'[p].pc \in {"idle", "get_row"} BY <1>2, WaitForAgentEnds
  <2>2. \/ serving' = serving
        \/ /\ Return(p) /\ serving' = serving \cup {id}
           /\ WorkingOn(id) = {p} /\ Get(id) # {} /\ AgentAnswers(proc[p].sb.ip)
    BY <1>2 DEF WaitForAgent
  <2> QED BY <1>a, <2>1, <2>2
<1>3. CASE GetRow(p)
  <2>1. proc[p].pc = "get_row" /\ sandboxes' = sandboxes /\ proc'[p].pc \in {"idle", "read_ports"}
    BY <1>0, <1>3, <1>a DEF GetRow, Frame, regVars
  <2>2. \/ proc'[p].pc = "read_ports" /\ serving' = serving \ {id}
        \/ (Cancelled(p) \/ Get(id) = {}) /\ serving' = serving /\ proc'[p].pc = "idle"
    BY <1>0, <1>3, <1>a DEF GetRow, Frame
  <2>3. Get(id) = {} => \A r \in sandboxes : r.id # id BY DEF Get
  <2> QED BY <2>1, <2>2, <2>3, CancelledCtx
<1>4. CASE DeleteRow(p)
  <2>1. proc[p].pc = "delete_row" /\ serving' = serving /\ proc'[p].pc = "idle" BY <1>4, <1>a DEF DeleteRow
  <2>2. ~Cancelled(p) => \A r \in sandboxes' : r.id # id BY <1>4 DEF DeleteRow, Destroy, Get, regVars
  <2> QED BY <2>1, <2>2, CancelledCtx
<1>5. CASE CreateTap(p) \/ StartVM(p) \/ StopForce(p) \/ StoreMachine(p) \/ TakeMachine(p) \/ WaitVM(p)
  BY <1>5, <1>b, <1>c DEF CreateTap, StartVM, StopForce, StoreMachine, TakeMachine, WaitVM
<1>6. CASE RecordStart(p) \/ RemoveForwards(p) \/ DeleteTap(p) \/ RemoveRootfs(p)
  BY <1>6, <1>c DEF RecordStart, RemoveForwards, DeleteTap, RemoveRootfs
<1>7. CASE ReadPorts(p)
  <2>1. proc[p].pc = "read_ports" /\ serving' = serving /\ proc'[p].pc = "take_machine"
    BY <1>0, <1>7 DEF ReadPorts, Frame
  <2> QED BY <2>1
<1>8. CASE AddPortForward(p) \/ ForwardExtra(p)
  BY <1>8, <1>a, <1>c DEF AddPortForward, ForwardExtra, AddPortForwardTo
<1>9. CASE AllocatePort(p)
  <2>1. proc[p].pc = "add_port" /\ serving' = serving /\ proc'[p].pc \in {"idle", "add_forward"}
    BY <1>0, <1>9, <1>a DEF AllocatePort, Frame
  <2> QED BY <2>1
<1>10. CASE UndoPort(p) BY <1>10, <1>a DEF UndoPort
<1> QED BY <1>1, <1>2, <1>3, <1>4, <1>5, <1>6, <1>7, <1>8, <1>9, <1>10 DEF Step

-----------------------------------------------------------------------------
(* A step of a goroutine keeps what serves whole. *)

\* What a step may change, and the invariants it starts from.
Footprint(p) ==
    /\ Moves(p) /\ StepRows(p) /\ StepTaps(p) /\ StepRules(p) /\ StepMachines(p) /\ StepDisks(p)
    /\ StepVms(p) /\ StepCopy(p) /\ StepOrder(p)
    /\ proc[p].pc \in Destroying => proc'[p].pc \in Destroying \cup {"idle"}

\* Every step of a goroutine has that footprint.
LEMMA FootprintStep ==
    ASSUME LifeInv, KernelInv, NEW p \in Goroutines, Step(p) PROVE Footprint(p)
BY StepMoves, RowsStep, TapsStep, RulesStep, MachinesStep, DisksStep, VmsStep, CopyStep, OrderStep,
   StepEffects
   DEF LifeInv, LifeTypes, Footprint

\* The row a goroutine that is not cut off by shutdownAll has a copy of.
LEMMA OwnRow ==
    ASSUME LifeInv, KernelInv, ServeInv, NEW p \in Goroutines, proc[p].pc \in WithRow, main # "stop_all"
    PROVE  \E r \in sandboxes : r.id = proc[p].id /\ r.tap = proc[p].sb.tap /\ r.ip = proc[p].sb.ip
                                /\ r.port = proc[p].sb.port
BY DEF KernelInv, GoroutineOK, CopyGood, ServeInv, CopyOwn

\* The steps of create and expose are not met by shutdownAll.
LEMMA NotStopped ==
    ASSUME KernelInv, NEW p \in Goroutines, proc[p].pc \notin Destroying \cup {"idle", "wait_agent"}
    PROVE  main # "stop_all"
BY DEF KernelInv, Quiet

\* A step leaves every row, tap and VM to its own sandbox.
LEMMA StepKeepsOwn ==
    ASSUME LifeInv, KernelInv, ServeInv, NEW p \in Goroutines, Footprint(p)
    PROVE  RowsOwn' /\ TapsOwn' /\ VmsOwn'
<1> USE DEF Footprint
<1>0. LocalOK(proc[p]) /\ proc[p] \in Frame BY DEF LifeInv, LifeTypes, ProcOK
<1>1. RowsOwn' BY DEF StepRows, SameRow, SameHolding, ServeInv, RowsOwn
<1>2. TapsOwn'
  <2> SUFFICES ASSUME NEW d \in taps', NEW r \in sandboxes', r.tap = d.tap PROVE d.owner = r.id
    BY DEF TapsOwn
  <2>1. CASE d \in taps
    <3>1. PICK s \in sandboxes : s.tap = d.tap BY <2>1 DEF KernelInv, KernelStateRecorded
    <3>2. PICK t \in sandboxes : SameRow(r, t) BY <3>1 DEF StepRows
    <3> QED BY <2>1, <3>2 DEF SameRow, SameHolding, ServeInv, TapsOwn
  <2>2. CASE proc[p].pc = "create_tap" /\ d.tap = proc[p].sb.tap /\ d.owner = proc[p].id
    <3>1. PICK t \in sandboxes : SameRow(r, t) BY <2>2 DEF StepRows
    <3>2. t.id = proc[p].id
      BY <2>2, <3>1 DEF ServeInv, CopyOwn, WithRow, PCs, SameRow, SameHolding
    <3> QED BY <2>2, <3>1, <3>2 DEF SameRow, SameHolding
  <2> QED BY <2>1, <2>2 DEF StepTaps
<1>3. VmsOwn'
  <2> SUFFICES ASSUME NEW w \in vms'
               PROVE  /\ w.id < nextId' /\ w.dev = w.id
                      /\ w.disk = w.id \/ w.id \notin DOMAIN disks'
                      /\ \A r \in sandboxes' : r.id = w.id => w.tap = r.tap /\ w.ip = r.ip
    BY DEF VmsOwn
  <2>0. nextId' = nextId BY DEF Moves
  <2>1. ASSUME NEW v \in vms, w.id = v.id, w.dev = v.dev, w.tap = v.tap, w.ip = v.ip
        PROVE  /\ w.id < nextId' /\ w.dev = w.id
               /\ \A r \in sandboxes' : r.id = w.id => w.tap = r.tap /\ w.ip = r.ip
    <3>1. w.id < nextId' /\ w.dev = w.id BY <2>0, <2>1 DEF ServeInv, VmsOwn
    <3>2. ASSUME NEW r \in sandboxes', r.id = w.id PROVE w.tap = r.tap /\ w.ip = r.ip
      <4>1. ~(proc[p].pc = "insert_row" /\ r.id = proc[p].id) BY <2>1, <3>2 DEF ServeInv, Created
      <4>2. PICK s \in sandboxes : SameRow(r, s) BY <4>1 DEF StepRows
      <4> QED BY <2>1, <3>2, <4>2 DEF SameRow, SameHolding, ServeInv, VmsOwn
    <3> QED BY <3>1, <3>2
  <2>2. CASE w \in vms
    <3>1. w.disk = w.id \/ w.id \notin DOMAIN disks' BY <2>2 DEF ServeInv, VmsOwn, StepDisks
    <3> QED BY <2>1, <2>2, <3>1
  <2>3. ASSUME proc[p].pc = "remove_rootfs", NEW v \in vms, v.disk = proc[p].sb.rootfs, w.id = v.id,
               w.dev = v.dev, w.tap = v.tap, w.ip = v.ip
        PROVE  w.disk = w.id \/ w.id \notin DOMAIN disks'
    <3>1. proc[p].sb.rootfs \notin DOMAIN disks' /\ DOMAIN disks' \subseteq DOMAIN disks
      BY <2>3 DEF StepDisks
    <3> QED BY <2>3, <3>1 DEF ServeInv, VmsOwn
  <2>4. CASE /\ proc[p].pc = "start_vm"
             /\ w.id = proc[p].sb.id /\ w.tap = proc[p].sb.tap /\ w.ip = proc[p].sb.ip
             /\ w.disk = proc[p].sb.rootfs
             /\ \E d \in taps : d.tap = proc[p].sb.tap /\ w.dev = d.owner
    <3>1. proc[p].pc \in WithRow BY <2>4 DEF WithRow, PCs
    <3>2. w.id = proc[p].id /\ proc[p].sb.rootfs = proc[p].id
      BY <1>0, <2>4, <3>1 DEF LocalOK, ServeInv, CopyOwn
    <3>3. main # "stop_all" BY <2>4, NotStopped DEF Destroying
    <3>4. PICK r \in sandboxes : r.id = proc[p].id /\ r.tap = proc[p].sb.tap /\ r.ip = proc[p].sb.ip
      BY <3>1, <3>3, OwnRow
    <3>5. w.dev = proc[p].id BY <2>4, <3>4 DEF ServeInv, TapsOwn
    <3>6. w.id < nextId' BY <2>0, <3>2 DEF KernelInv, Fresh
    <3>7. ASSUME NEW s \in sandboxes', s.id = w.id PROVE w.tap = s.tap /\ w.ip = s.ip
      <4>1. PICK t \in sandboxes : SameRow(s, t) BY <2>4 DEF StepRows
      <4>2. t = r BY <3>2, <3>4, <3>7, <4>1, OneRow DEF LifeInv, SameRow, SameHolding
      <4> QED BY <2>4, <3>4, <4>1, <4>2 DEF SameRow, SameHolding
    <3> QED BY <2>4, <3>2, <3>5, <3>6, <3>7
  <2> QED BY <2>1, <2>2, <2>3, <2>4 DEF StepVms
<1> QED BY <1>1, <1>2, <1>3

\* A step leaves every goroutine's copy of its row to itself.
LEMMA StepKeepsCopies ==
    ASSUME LifeInv, KernelInv, ServeInv, NEW p \in Goroutines, Footprint(p), RegInv', NEW q \in Goroutines
    PROVE  CopyOwn(q)'
<1> USE DEF Footprint
<1>0. main' = main /\ (p # q => proc'[q] = proc[q]) BY DEF Moves
<1>1. CASE p # q
  <2> SUFFICES ASSUME proc[q].pc \in WithRow
               PROVE  /\ proc[q].sb.rootfs = proc[q].id
                      /\ main # "stop_all" => \E r \in sandboxes' : r.id = proc[q].id
                      /\ \A r \in sandboxes' : r.id # proc[q].id =>
                            r.tap # proc[q].sb.tap /\ r.ip # proc[q].sb.ip
    BY <1>0, <1>1 DEF CopyOwn
  <2>1. proc[q].sb.rootfs = proc[q].id BY DEF ServeInv, CopyOwn
  <2>2. ASSUME main # "stop_all" PROVE \E r \in sandboxes' : r.id = proc[q].id
    <3>1. PICK s \in sandboxes : s.id = proc[q].id BY <2>2 DEF ServeInv, CopyOwn
    <3>2. proc[q].id # 0
      BY CardinalityIds DEF LifeInv, LifeTypes, ProcOK, LocalOK, WithRow
    <3>3. proc[p].id # proc[q].id BY <1>1, <2>2, <3>2 DEF KernelInv, Alone
    <3> QED BY <3>1, <3>3 DEF StepRows, SameRow, SameHolding
  <2>3. ASSUME NEW r \in sandboxes', r.id # proc[q].id PROVE r.tap # proc[q].sb.tap /\ r.ip # proc[q].sb.ip
    <3>1. ASSUME NEW s \in sandboxes, SameRow(r, s) PROVE r.tap # proc[q].sb.tap /\ r.ip # proc[q].sb.ip
      BY <2>3, <3>1 DEF SameRow, SameHolding, ServeInv, CopyOwn
    <3>2. CASE proc[p].pc = "insert_row" /\ \A s \in sandboxes : s.tap # r.tap /\ s.ip # r.ip
      <4>1. main # "stop_all" BY <3>2, NotStopped DEF Destroying
      <4> QED BY <3>2, <4>1, OwnRow
    <3> QED BY <3>1, <3>2 DEF StepRows
  <2> QED BY <2>1, <2>2, <2>3
<1>2. CASE p = q /\ proc'[p].pc \in WithRow
  <2>0. proc'[p].id = proc[p].id BY <1>2 DEF Moves, WithRow
  <2>1. CASE proc[p].pc \in WithRow /\ proc'[p].sb = proc[p].sb
    <3>1. proc[p].sb.rootfs = proc[p].id BY <2>1 DEF ServeInv, CopyOwn
    <3>2. ASSUME NEW r \in sandboxes', r.id # proc[p].id PROVE r.tap # proc[p].sb.tap /\ r.ip # proc[p].sb.ip
      <4>1. proc[p].pc # "insert_row" BY <2>1 DEF WithRow
      <4>2. PICK s \in sandboxes : SameRow(r, s) BY <4>1 DEF StepRows
      <4> QED BY <2>1, <3>2, <4>2 DEF SameRow, SameHolding, ServeInv, CopyOwn
    <3>3. main # "stop_all" => \E r \in sandboxes' : r.id = proc[p].id
      <4>1. proc[p].pc # "delete_row"
        <5>1. proc[p].pc = "delete_row" => proc'[p].pc = "idle"
          BY DEF StepOrder
        <5> QED BY <1>2, <5>1 DEF WithRow
      <4> QED BY <2>1, <4>1 DEF StepRows, SameRow, SameHolding, ServeInv, CopyOwn
    <3> QED BY <1>0, <1>2, <2>0, <2>1, <3>1, <3>2, <3>3 DEF CopyOwn
  <2>2. CASE proc'[p].sb \in sandboxes' /\ proc'[p].sb.id = proc[p].id
    <3>1. proc'[p].sb.rootfs = proc[p].id BY <2>2, StepKeepsOwn DEF RowsOwn
    <3>2. \A r \in sandboxes' : r.id # proc[p].id => r.tap # proc'[p].sb.tap /\ r.ip # proc'[p].sb.ip
      BY <2>2 DEF RegInv, Exclusive, RowsExclusive
    <3> QED BY <1>2, <2>0, <2>2, <3>1, <3>2 DEF CopyOwn
  <2> QED BY <1>2, <2>1, <2>2 DEF StepCopy
<1>3. CASE p = q /\ proc'[p].pc \notin WithRow BY <1>3 DEF CopyOwn
<1> QED BY <1>1, <1>2, <1>3

\* A step leaves what creates have brought about.
LEMMA StepKeepsCreated ==
    ASSUME LifeInv, KernelInv, ServeInv, NEW p \in Goroutines, Footprint(p), NEW q \in Goroutines
    PROVE  Created(q)'
<1> USE DEF Footprint
<1>0. /\ p # q => proc'[q] = proc[q] /\ proc[q] \in Frame /\ proc[p] \in Frame
      /\ LocalOK(proc[p]) /\ LocalOK(proc[q])
  BY DEF Moves, LifeInv, LifeTypes, ProcOK
<1>1. CASE p # q
  <2>1. ASSUME proc[q].pc \notin Destroying \cup {"idle", "wait_agent"} PROVE proc[p].id # proc[q].id
    BY <1>1, <2>1, AloneAtWork
  <2>2. ASSUME proc[q].pc = "insert_row", NEW w \in vms' PROVE w.id # proc[q].id
    <3>1. proc[p].id # proc[q].id BY <2>1, <2>2 DEF Destroying
    <3>2. proc[p].pc = "start_vm" => proc[p].sb.id = proc[p].id BY <1>0 DEF LocalOK, WithRow, PCs
    <3> QED BY <2>2, <3>1, <3>2 DEF StepVms, ServeInv, Created
  <2>3. ASSUME proc[q].pc \in {"insert_row", "create_tap", "start_vm", "forward", "finish_start", "store"}
        PROVE  proc[q].id \in DOMAIN disks'
    <3>1. proc[p].id # proc[q].id BY <2>1, <2>3 DEF Destroying
    <3>2. proc[p].pc = "remove_rootfs" => proc[p].sb.rootfs = proc[p].id
      BY DEF ServeInv, CopyOwn, WithRow, PCs
    <3> QED BY <2>3, <3>1, <3>2 DEF StepDisks, ServeInv, Created
  <2>4. ASSUME proc[q].pc \in {"finish_start", "store"},
               NEW f \in Forward(proc[q].sb.port, proc[q].sb.ip, PrimaryPort)
        PROVE  f \in BagToSet(rules')
    <3>1. f \in BagToSet(rules) /\ f.ip = proc[q].sb.ip BY <2>4, ForwardMembers DEF ServeInv, Created
    <3>2. PICK s \in sandboxes : s.id = proc[q].id /\ s.ip = proc[q].sb.ip
      BY <2>4, OwnRow, NotStopped DEF WithRow, PCs, Destroying
    <3>3. proc[p].id # proc[q].id BY <2>1, <2>4 DEF Destroying
    <3>4. proc[p].pc \in {"finish_start", "remove_forwards"} => proc[p].sb.ip # s.ip
      BY <3>2, <3>3 DEF ServeInv, CopyOwn, WithRow, PCs
    <3> QED BY <3>1, <3>2, <3>4 DEF StepRules
  <2> QED BY <1>0, <1>1, <2>2, <2>3, <2>4 DEF Created
<1>2. CASE p = q
  <2>1. proc'[p].pc # "insert_row" BY DEF StepOrder
  <2>2. ASSUME proc'[p].pc \in {"create_tap", "start_vm", "forward", "finish_start", "store"}
        PROVE  proc'[p].id \in DOMAIN disks'
    <3>1. proc[p].pc \in {"insert_row", "create_tap", "start_vm", "forward", "finish_start"}
      BY <2>2 DEF StepOrder
    <3>2. proc[p].id \in DOMAIN disks BY <3>1 DEF ServeInv, Created
    <3>3. proc[p].id \in DOMAIN disks' BY <2>2, <3>1, <3>2 DEF StepDisks
    <3> QED BY <2>2, <3>3 DEF Moves
  <2>3. ASSUME proc'[p].pc \in {"finish_start", "store"}
        PROVE  Forward(proc'[p].sb.port, proc'[p].sb.ip, PrimaryPort) \subseteq BagToSet(rules')
    <3>1. proc[p].pc \in {"forward", "finish_start"} BY <2>3 DEF StepRules
    <3>2. proc'[p].sb = proc[p].sb BY <2>3, <3>1 DEF StepCopy, WithRow, PCs
    <3> QED BY <2>3, <3>1, <3>2 DEF StepRules, ServeInv, Created
  <2> QED BY <1>2, <2>1, <2>2, <2>3 DEF Created
<1> QED BY <1>1, <1>2

\* A step leaves another sandbox's row, rules, machine and file alone, and a step
\* of an expose or the first of a destroy its own as well.
Apart(p, id) == proc[p].id # id \/ proc[p].pc \in {"get_row", "add_port", "add_forward", "delete_port"}

\* What a sandbox has is left to it by a step apart from it.
LEMMA RowApart ==
    ASSUME LifeInv, KernelInv, ServeInv, NEW p \in Goroutines, Footprint(p), NEW r \in sandboxes,
           Apart(p, r.id)
    PROVE  /\ \E s \in sandboxes' : SameRow(s, r)
           /\ \A f \in BagToSet(rules) : f.ip = r.ip => f \in BagToSet(rules')
           /\ \A d \in taps : d.tap = r.tap => d \in taps'
           /\ r.id \in machines => r.id \in machines'
           /\ r.id \in DOMAIN disks => r.id \in DOMAIN disks'
           /\ \A v \in vms : v.id = r.id /\ v.disk = r.id => v \in vms'
<1> USE DEF Footprint, Apart
<1>0. proc[p].pc \in {"finish_start", "remove_forwards", "delete_tap", "remove_rootfs"} =>
          proc[p].sb.rootfs = proc[p].id /\ proc[p].sb.ip # r.ip /\ proc[p].sb.tap # r.tap
  BY DEF ServeInv, CopyOwn, WithRow, PCs
<1>1. \E s \in sandboxes' : SameRow(s, r) BY DEF StepRows
<1>2. \A f \in BagToSet(rules) : f.ip = r.ip => f \in BagToSet(rules') BY <1>0 DEF StepRules
<1>3. \A d \in taps : d.tap = r.tap => d \in taps' BY <1>0 DEF StepTaps
<1>4. r.id \in machines => r.id \in machines' BY DEF StepMachines
<1>5. r.id \in DOMAIN disks => r.id \in DOMAIN disks' BY <1>0 DEF StepDisks
<1>6. \A v \in vms : v.id = r.id /\ v.disk = r.id => v \in vms' BY <1>0 DEF StepVms
<1> QED BY <1>1, <1>2, <1>3, <1>4, <1>5, <1>6

\* A row is accounted for as before by rules to its port and address.
LEMMA ForwardKept ==
    ASSUME NEW r, NEW s, SameRow(s, r), Forward(r.port, r.ip, PrimaryPort) \subseteq BagToSet(rules),
           \A f \in BagToSet(rules) : f.ip = r.ip => f \in BagToSet(rules')
    PROVE  Forward(s.port, s.ip, PrimaryPort) \subseteq BagToSet(rules')
<1>1. s.port = r.port /\ s.ip = r.ip BY DEF SameRow, SameHolding
<1> QED BY <1>1, ForwardMembers

\* So it stays ready.
LEMMA ReadyKept ==
    ASSUME LifeInv, KernelInv, ServeInv, NEW p \in Goroutines, Footprint(p), NEW id, Ready(id), Apart(p, id)
    PROVE  Ready(id)'
<1>1. PICK r \in sandboxes : r.id = id /\ Forward(r.port, r.ip, PrimaryPort) \subseteq BagToSet(rules)
  BY DEF Ready
<1>2. PICK s \in sandboxes' : SameRow(s, r) BY <1>1, RowApart
<1>3. Forward(s.port, s.ip, PrimaryPort) \subseteq BagToSet(rules') BY <1>1, <1>2, RowApart, ForwardKept
<1>4. id \in machines' /\ id \in DOMAIN disks' BY <1>1, RowApart DEF Ready
<1> QED BY <1>1, <1>2, <1>3, <1>4 DEF Ready, SameRow, SameHolding

\* So it stays whole.
LEMMA WholeKept ==
    ASSUME LifeInv, KernelInv, ServeInv, NEW p \in Goroutines, Footprint(p), NEW id, Whole(id), Apart(p, id)
    PROVE  Whole(id)'
<1>1. PICK r \in sandboxes :
          /\ r.id = id /\ r.rootfs \in DOMAIN disks
          /\ \E v \in vms : /\ v.id = id /\ v.dev = id /\ v.tap = r.tap /\ OnBridge(v)
                           /\ v.ip = r.ip /\ v.disk = r.rootfs
          /\ Forward(r.port, r.ip, PrimaryPort) \subseteq BagToSet(rules)
  BY DEF Whole
<1>2. PICK v \in vms : /\ v.id = id /\ v.dev = id /\ v.tap = r.tap /\ OnBridge(v)
                       /\ v.ip = r.ip /\ v.disk = r.rootfs
  BY <1>1
<1>3. r.rootfs = id BY <1>1 DEF ServeInv, RowsOwn
<1>4. PICK s \in sandboxes' : SameRow(s, r) BY <1>1, RowApart
<1>5. v \in vms' /\ id \in machines' /\ id \in DOMAIN disks' BY <1>1, <1>2, <1>3, RowApart DEF Whole
<1>6. OnBridge(v)'
  <2>1. [tap |-> v.tap, owner |-> v.dev, bridged |-> TRUE].tap = r.tap BY <1>2
  <2> QED BY <1>1, <1>2, <2>1, RowApart DEF OnBridge
<1>7. Forward(s.port, s.ip, PrimaryPort) \subseteq BagToSet(rules') BY <1>1, <1>4, RowApart, ForwardKept
<1>8. s.id = id /\ s.rootfs = id /\ s.tap = r.tap /\ s.ip = r.ip
  BY <1>1, <1>3, <1>4 DEF SameRow, SameHolding
<1> QED BY <1>2, <1>3, <1>5, <1>6, <1>7, <1>8 DEF Whole

\* A step leaves a waiting create its sandbox, or destroys it for shutdownAll.
LEMMA StepKeepsWaiting ==
    ASSUME LifeInv, KernelInv, ServeInv, ProcOK', NEW p \in Goroutines, Footprint(p), NEW q \in Goroutines
    PROVE  Waiting(q)'
<1> USE DEF Footprint
<1>0. /\ \A x \in Goroutines : LocalOK(proc[x]) /\ LocalOK(proc'[x])
      /\ \A x \in Goroutines : x # p => proc'[x] = proc[x]
  BY DEF Moves, LifeInv, LifeTypes, ProcOK
<1>a. proc'[p].id \in {proc[p].id, 0} BY <1>0 DEF Moves, LocalOK
<1>1. CASE p # q /\ proc[q].pc = "wait_agent"
  <2>0. proc[q].id # 0 BY <1>0, <1>1, CardinalityIds DEF LocalOK
  <2>1. \A x \in Goroutines \ {q} : proc[x].id = proc[q].id =>
            proc[x].ctx = "background" /\ proc[x].pc \in Destroying
    BY <1>1 DEF ServeInv, Waiting
  <2>2. ASSUME NEW x \in Goroutines \ {q}, proc'[x].id = proc[q].id
        PROVE  proc'[x].ctx = "background" /\ proc'[x].pc \in Destroying
    <3>1. CASE x # p BY <1>0, <2>1, <2>2, <3>1
    <3>2. CASE x = p
      <4>1. proc[p].id = proc[q].id BY <1>a, <2>0, <2>2, <3>2
      <4>2. proc[p].ctx = "background" /\ proc[p].pc \in Destroying BY <1>1, <2>1, <4>1
      <4>3. proc'[p].ctx = "background" BY <4>2 DEF Moves
      <4>4. proc'[p].pc # "idle" BY <1>0, <2>0, <2>2, <3>2 DEF LocalOK
      <4>5. proc'[p].pc \in Destroying BY <4>2, <4>4
      <4> QED BY <3>2, <4>3, <4>5
    <3> QED BY <3>1, <3>2
  <2>3. CASE \E x \in Goroutines \ {q} : proc[x].id = proc[q].id
    <3>1. PICK x \in Goroutines \ {q} : proc[x].id = proc[q].id BY <2>3
    <3>2. CASE proc'[x].id = proc[q].id BY <1>0, <1>1, <2>2, <3>1, <3>2 DEF Waiting
    <3>3. CASE proc'[x].id # proc[q].id
      <4>1. x = p /\ proc'[p].pc = "idle" BY <1>0, <3>1, <3>3 DEF Moves
      <4>2. \A r \in sandboxes' : r.id # proc[q].id BY <2>1, <3>1, <4>1 DEF StepOrder
      <4> QED BY <1>0, <1>1, <2>2, <4>2 DEF Waiting, Get
    <3> QED BY <3>2, <3>3
  <2>4. CASE proc[p].id # proc[q].id /\ Get(proc[q].id) = {}
    <3>1. \A r \in sandboxes' : r.id # proc[q].id BY <2>4 DEF Get, StepRows, SameRow, SameHolding
    <3> QED BY <1>0, <1>1, <2>2, <3>1 DEF Waiting, Get
  <2>5. CASE proc[p].id # proc[q].id /\ Ready(proc[q].id)
    <3>1. PICK id : id = proc[q].id OBVIOUS
    <3>2. Ready(id)' BY <2>5, <3>1, ReadyKept DEF Apart
    <3> QED BY <1>0, <1>1, <2>2, <3>1, <3>2 DEF Waiting, Ready
  <2> QED BY <1>1, <2>3, <2>4, <2>5 DEF ServeInv, Waiting
<1>2. CASE p # q /\ proc[q].pc # "wait_agent" BY <1>0, <1>2 DEF Waiting
<1>3. CASE p = q /\ proc'[p].pc # "wait_agent" BY <1>3 DEF Waiting
<1>4. CASE p = q /\ proc'[p].pc = "wait_agent"
  <2>1. proc[p].pc = "store" /\ proc[p].id \in machines' BY <1>4 DEF StepMachines
  <2>2. proc'[p].id = proc[p].id BY <1>4 DEF Moves
  <2>3. \A x \in Goroutines \ {p} : proc'[x].id # proc[p].id BY <1>0, <2>1, AloneAtWork DEF Destroying
  <2>4. proc[p].id \in DOMAIN disks' BY <2>1 DEF ServeInv, Created, StepDisks
  <2>5. PICK r \in sandboxes : r.id = proc[p].id /\ r.ip = proc[p].sb.ip /\ r.port = proc[p].sb.port
    BY <2>1, OwnRow, NotStopped DEF WithRow, PCs, Destroying
  <2>6. Forward(r.port, r.ip, PrimaryPort) \subseteq BagToSet(rules')
    BY <2>1, <2>5 DEF ServeInv, Created, StepRules
  <2>7. PICK s \in sandboxes' : SameRow(s, r) BY <2>1 DEF StepRows
  <2>8. PICK id : id = proc[p].id OBVIOUS
  <2>9. Ready(id)' BY <2>1, <2>4, <2>5, <2>6, <2>7, <2>8 DEF Ready, SameRow, SameHolding
  <2> QED BY <1>4, <2>2, <2>3, <2>8, <2>9 DEF Waiting, Ready
<1> QED BY <1>1, <1>2, <1>3, <1>4

\* A sandbox is whole when 201 is sent: the guest that answered is its own.
LEMMA AnsweredWhole ==
    ASSUME LifeInv, KernelInv, ServeInv, NEW p \in Goroutines, proc[p].pc = "wait_agent", NEW id,
           id = proc[p].id, WorkingOn(id) = {p}, Get(id) # {}, AgentAnswers(proc[p].sb.ip)
    PROVE  Whole(id)
<1>1. Ready(id) BY DEF ServeInv, Waiting, WorkingOn
<1>2. PICK r \in sandboxes : r.id = id /\ Forward(r.port, r.ip, PrimaryPort) \subseteq BagToSet(rules)
  BY <1>1 DEF Ready
<1>3. r.ip = proc[p].sb.ip BY <1>2 DEF KernelInv, GoroutineOK, CopyGood, WithRow, PCs
<1>4. PICK v \in vms : v.ip = r.ip /\ OnBridge(v) BY <1>3 DEF AgentAnswers
<1>5. [tap |-> v.tap, owner |-> v.dev, bridged |-> TRUE] \in taps BY <1>4 DEF OnBridge
<1>6. PICK d \in taps : d.tap = v.tap /\ d.owner = v.dev BY <1>5
<1>7. PICK s \in sandboxes : s.tap = v.tap BY <1>6 DEF KernelInv, KernelStateRecorded
<1>8. v.dev = s.id /\ v.id = s.id BY <1>6, <1>7 DEF ServeInv, TapsOwn, VmsOwn
<1>9. v.ip = s.ip BY <1>7, <1>8 DEF ServeInv, VmsOwn
<1>10. s = r BY <1>4, <1>9, OneRow DEF LifeInv
<1>11. v.disk = id /\ r.rootfs = id /\ id \in DOMAIN disks /\ id \in machines
  BY <1>1, <1>2, <1>8, <1>10 DEF ServeInv, VmsOwn, RowsOwn, Ready
<1> QED BY <1>2, <1>4, <1>7, <1>8, <1>10, <1>11 DEF Whole

\* A step leaves what serves whole, and what it answers 201 is whole.
LEMMA StepKeepsServing ==
    ASSUME LifeInv, KernelInv, ServeInv, ProcOK', NEW p \in Goroutines, Footprint(p),
           proc[p].pc = "wait_agent" => UNCHANGED <<regVars, hostVars, machines>>
    PROVE  Serving'
<1> USE DEF Footprint
<1>0. /\ \A x \in Goroutines : LocalOK(proc[x]) /\ LocalOK(proc'[x])
      /\ \A x \in Goroutines : x # p => proc'[x] = proc[x]
      /\ main' = main /\ proc[p].pc # "idle" /\ 0 \notin Ids
  BY CardinalityIds DEF Moves, LifeInv, LifeTypes, ProcOK
<1>1. ASSUME main \in {"down", "recover", "abort"} PROVE serving' = {}
  <2>1. p = Main BY <1>0, <1>1 DEF LifeInv, ReconcileOK
  <2>2. proc[p].pc # "wait_agent" BY <2>1 DEF LifeInv, ReconcileOK, ReconcilePCs
  <2> QED BY <1>1, <2>2 DEF StepOrder, ServeInv, Serving
<1>2. ASSUME NEW id \in serving', id \in serving
      PROVE  /\ Whole(id)'
             /\ \A q \in Goroutines : proc'[q].id = id =>
                   proc'[q].pc \in {"get_row", "add_port", "add_forward", "delete_port"}
  <2>1. \A q \in Goroutines : proc[q].id = id =>
            proc[q].pc \in {"get_row", "add_port", "add_forward", "delete_port"}
    BY <1>2 DEF ServeInv, Serving
  <2>2. Whole(id)' BY <1>2, <2>1, WholeKept DEF ServeInv, Serving, Apart
  <2>3. id \in Ids BY <1>2 DEF LifeInv, LifeTypes, MemoryOK
  <2>4. ASSUME proc'[p].id = id PROVE proc'[p].pc \in {"get_row", "add_port", "add_forward", "delete_port"}
    <3>1. proc'[p].pc # "idle" /\ proc[p].id = id BY <1>0, <2>3, <2>4 DEF LocalOK, Moves
    <3> QED BY <1>2, <2>1, <3>1 DEF StepOrder
  <2> QED BY <1>0, <2>1, <2>2, <2>4
<1>3. ASSUME NEW id \in serving', id \notin serving
      PROVE  /\ Whole(id)'
             /\ \A q \in Goroutines : proc'[q].id = id =>
                   proc'[q].pc \in {"get_row", "add_port", "add_forward", "delete_port"}
  <2>1. /\ id = proc[p].id /\ proc[p].pc = "wait_agent" /\ proc'[p].pc = "idle"
        /\ WorkingOn(id) = {p} /\ Get(id) # {} /\ AgentAnswers(proc[p].sb.ip)
    BY <1>3 DEF StepOrder
  <2>2. Whole(id) BY <2>1, AnsweredWhole
  <2>3. Whole(id)' BY <2>1, <2>2 DEF Whole, OnBridge, regVars, hostVars
  <2>4. id # 0 BY <1>0, <2>1 DEF LocalOK
  <2>5. \A q \in Goroutines : proc'[q].id # id BY <1>0, <2>1, <2>4 DEF WorkingOn, LocalOK
  <2> QED BY <2>3, <2>5
<1> QED BY <1>0, <1>1, <1>2, <1>3 DEF Serving

\* Every step of a goroutine keeps the invariant.
LEMMA StepKeepsServe ==
    ASSUME LifeInv, KernelInv, ServeInv, NEW p \in Goroutines, Step(p)
    PROVE  ServeInv'
<1>1. Footprint(p) BY FootprintStep
<1>2. RegInv' /\ ProcOK'
  <2>1. Next BY DEF Next
  <2> QED BY <2>1, NextUsesRegistry, RegNextInv, NextKeepsTypes DEF LifeInv, LifeTypes
<1>3. RowsOwn' /\ TapsOwn' /\ VmsOwn' BY <1>1, StepKeepsOwn
<1>4. \A q \in Goroutines : CopyOwn(q)' /\ Created(q)' /\ Waiting(q)'
  BY <1>1, <1>2, StepKeepsCopies, StepKeepsCreated, StepKeepsWaiting
<1>5. Serving'
  <2>1. proc[p].pc = "wait_agent" => WaitForAgent(p)
    BY DEF Step, InsertRow, CreateTap, StartVM, AddPortForward, RecordStart, StopForce, StoreMachine,
        GetRow, ReadPorts, TakeMachine, WaitVM, RemoveForwards, DeleteTap, RemoveRootfs, ForwardExtra,
        DeleteRow, AllocatePort, UndoPort
  <2>2. proc[p].pc = "wait_agent" => UNCHANGED <<regVars, hostVars, machines>>
    BY <2>1, WaitForAgentEnds DEF LifeInv, LifeTypes
  <2> QED BY <1>1, <1>2, <2>2, StepKeepsServing
<1> QED BY <1>3, <1>4, <1>5 DEF ServeInv

-----------------------------------------------------------------------------
(* What happens outside the handlers keeps it too. *)

\* Registry, rules and the map stay; VMs and taps may go, a new sandbox may get a
\* file, and the server may change its phase.
Outside ==
    /\ UNCHANGED <<sandboxes, sandbox_ports>>
    /\ vms' \subseteq vms /\ taps' \subseteq taps
    /\ DOMAIN disks \subseteq DOMAIN disks' /\ DOMAIN disks' \subseteq DOMAIN disks \cup {nextId}
    /\ nextId \in Nat /\ nextId' \in Nat /\ nextId <= nextId'

\* It leaves every row, tap and VM to its own sandbox.
LEMMA OutsideKeepsOwn == ASSUME LifeInv, ServeInv, Outside PROVE RowsOwn' /\ TapsOwn' /\ VmsOwn'
<1>0. \A v \in vms : v.id \in Nat BY CardinalityIds DEF LifeInv, LifeTypes, VmsOK, VM
<1>1. RowsOwn' /\ TapsOwn' BY DEF Outside, ServeInv, RowsOwn, TapsOwn
<1>2. VmsOwn'
  <2>1. \A v \in vms : v.id < nextId' /\ v.id # nextId BY <1>0 DEF Outside, ServeInv, VmsOwn
  <2> QED BY <2>1 DEF Outside, ServeInv, VmsOwn
<1> QED BY <1>1, <1>2

\* It leaves a goroutine that does not move what it has.
LEMMA OutsideKeepsCreate ==
    ASSUME ServeInv, Outside, NEW q \in Goroutines, proc'[q] = proc[q], rules' = rules,
           main # "stop_all" \/ main' = "stop_all"
    PROVE  CopyOwn(q)' /\ Created(q)'
<1>1. CopyOwn(q)' BY DEF Outside, ServeInv, CopyOwn
<1>2. Created(q)' BY DEF Outside, ServeInv, Created
<1> QED BY <1>1, <1>2

\* The goroutines that share a sandbox with a create that waits are the same.
LEMMA OutsideKeepsWaiting ==
    ASSUME ServeInv, Outside, NEW q \in Goroutines, proc'[q] = proc[q], UNCHANGED <<rules, machines>>,
           \A x \in Goroutines \ {q} : proc[q].pc = "wait_agent" /\ proc'[x].id = proc[q].id =>
              \/ proc'[x] = proc[x]
              \/ proc'[x].ctx = "background" /\ proc'[x].pc \in Destroying,
           \A x \in Goroutines \ {q} : proc[q].pc = "wait_agent" /\ proc[x].id = proc[q].id =>
              proc'[x].id = proc[x].id
    PROVE  Waiting(q)'
<1> SUFFICES ASSUME proc[q].pc = "wait_agent" PROVE Waiting(q)' BY DEF Waiting
<1>1. \A x \in Goroutines \ {q} : proc'[x].id = proc[q].id =>
          proc'[x].ctx = "background" /\ proc'[x].pc \in Destroying
  BY DEF ServeInv, Waiting
<1>2. CASE \E x \in Goroutines \ {q} : proc[x].id = proc[q].id BY <1>1, <1>2 DEF Waiting
<1>3. CASE Get(proc[q].id) = {} BY <1>1, <1>3 DEF Waiting, Get, Outside
<1>4. CASE Ready(proc[q].id)
  <2>1. PICK id : id = proc[q].id OBVIOUS
  <2>2. Ready(id)' BY <1>4, <2>1 DEF Ready, Outside
  <2> QED BY <1>1, <2>1, <2>2 DEF Waiting, Ready
<1> QED BY <1>2, <1>3, <1>4 DEF ServeInv, Waiting

\* Sandboxes that go on serving.
LEMMA OutsideKeepsServing ==
    ASSUME ServeInv, Outside, UNCHANGED <<rules, machines, taps>>, serving' \subseteq serving,
           \A v \in vms : v.id \in serving' => v \in vms',
           main' \in {"down", "recover", "abort"} => serving' = {},
           \A x \in Goroutines, id \in serving' : proc'[x].id = id =>
              \/ proc'[x].id = proc[x].id /\ proc'[x].pc = proc[x].pc
              \/ proc'[x].pc \in {"get_row", "add_port"}
    PROVE  Serving'
<1>1. ASSUME NEW id \in serving' PROVE Whole(id)'
  <2>1. PICK r \in sandboxes :
          /\ r.id = id /\ r.rootfs \in DOMAIN disks
          /\ \E v \in vms : /\ v.id = id /\ v.dev = id /\ v.tap = r.tap /\ OnBridge(v)
                           /\ v.ip = r.ip /\ v.disk = r.rootfs
          /\ Forward(r.port, r.ip, PrimaryPort) \subseteq BagToSet(rules)
    BY <1>1 DEF ServeInv, Serving, Whole
  <2>2. PICK v \in vms : /\ v.id = id /\ v.dev = id /\ v.tap = r.tap /\ OnBridge(v)
                         /\ v.ip = r.ip /\ v.disk = r.rootfs
    BY <2>1
  <2>3. v \in vms' /\ OnBridge(v)' BY <1>1, <2>2 DEF OnBridge
  <2>4. id \in machines BY <1>1 DEF ServeInv, Serving, Whole
  <2> QED BY <2>1, <2>2, <2>3, <2>4 DEF Whole, Outside
<1> QED BY <1>1 DEF ServeInv, Serving

\* A goroutine starts at the beginning of create, destroy, expose or an iteration
\* of reconcile.
LEMMA StartKeepsServe ==
    ASSUME LifeInv, KernelInv, ServeInv, Outside, UNCHANGED <<rules, machines, taps, main, serving>>,
           NEW p \in Goroutines, proc[p].id = 0, NEW id \in Ids, proc'[p].id = id,
           \A q \in Goroutines \ {p} : proc'[q] = proc[q] /\ proc[q].id # id,
           CopyOwn(p)', Created(p)', proc'[p].pc # "wait_agent",
           \A v \in vms : v.id \in serving => v \in vms',
           id \in serving => proc'[p].pc \in {"get_row", "add_port"}
    PROVE  ServeInv'
<1>1. RowsOwn' /\ TapsOwn' /\ VmsOwn' BY OutsideKeepsOwn
<1>2. ASSUME NEW q \in Goroutines \ {p} PROVE CopyOwn(q)' /\ Created(q)' /\ Waiting(q)'
  <2>1. CopyOwn(q)' /\ Created(q)' BY OutsideKeepsCreate
  <2>2. proc[q].pc = "wait_agent" => proc[q].id # 0
    BY CardinalityIds DEF LifeInv, LifeTypes, ProcOK, LocalOK
  <2>3. Waiting(q)' BY <2>2, OutsideKeepsWaiting
  <2> QED BY <2>1, <2>3
<1>3. Waiting(p)' BY DEF Waiting
<1>4. Serving'
  <2>1. main' \in {"down", "recover", "abort"} => serving' = {} BY DEF ServeInv, Serving
  <2> QED BY <2>1, OutsideKeepsServing
<1> QED BY <1>1, <1>2, <1>3, <1>4 DEF ServeInv

\* A goroutine that has just read its row.
LEMMA FreshCopy ==
    ASSUME LifeInv, ServeInv, sandboxes' = sandboxes, NEW p, NEW id, \E r \in sandboxes : r.id = id,
           proc'[p].id = id, proc'[p].sb = RowOf(id, sandboxes)
    PROVE  CopyOwn(p)'
<1>1. RowOf(id, sandboxes) \in sandboxes /\ RowOf(id, sandboxes).id = id BY DEF RowOf
<1>2. \A r \in sandboxes : r.id # id =>
          r.tap # RowOf(id, sandboxes).tap /\ r.ip # RowOf(id, sandboxes).ip
  BY <1>1, OneRow DEF LifeInv
<1> QED BY <1>1, <1>2 DEF CopyOwn, ServeInv, RowsOwn

\* A request arrives: a create takes a fresh id, the others a sandbox nobody is at
\* work on.
LEMMA ArrivalKeepsServe ==
    ASSUME Disciplined, LifeInv, KernelInv, ServeInv, Arrival PROVE ServeInv'
<1> USE DEF LifeInv, LifeTypes
<1>0. /\ proc \in [Goroutines -> Frame] /\ Requests \subseteq Goroutines /\ nextId \in Nat
      /\ Ids \subseteq Nat /\ 0 \notin Ids
      /\ \A p \in Requests : IsIdle(p) => proc[p].id = 0
  BY CardinalityIds DEF ProcOK, LocalOK, Goroutines, EnvOK, IsIdle
<1>1. ASSUME NEW p \in Requests, NEW timeout \in Timeouts, PrepareRootfs(p, timeout) PROVE ServeInv'
  <2> DEFINE x == [Idle EXCEPT !.pc = "insert_row", !.id = nextId, !.expires = Deadline(timeout),
                               !.ctx = "request"]
  <2>1. /\ nextId \in Ids /\ nextId' = nextId + 1 /\ proc[p].id = 0
        /\ UNCHANGED <<regVars, taps, rules, vms, main, machines, serving>>
        /\ disks' = WithFile(nextId, 0) \/ disks' = disks
        /\ \/ proc' = [proc EXCEPT ![p] = x] /\ disks' = WithFile(nextId, 0)
           \/ proc' = proc
    BY <1>0, <1>1 DEF PrepareRootfs
  <2>2. x.pc = "insert_row" /\ x.id = nextId BY DEF Idle
  <2> HIDE DEF x
  <2>3. DOMAIN WithFile(nextId, 0) = DOMAIN disks \cup {nextId} BY DEF WithFile
  <2>4. Outside BY <1>0, <2>1, <2>3 DEF Outside, regVars
  <2>5. \A id \in serving : id # nextId
    BY <1>0 DEF ServeInv, Serving, Whole, KernelInv, Fresh
  <2>6. CASE proc' = proc
    <3>1. RowsOwn' /\ TapsOwn' /\ VmsOwn' BY <2>4, OutsideKeepsOwn
    <3>2. \A q \in Goroutines : CopyOwn(q)' /\ Created(q)' /\ Waiting(q)'
      BY <2>1, <2>4, <2>6, OutsideKeepsCreate, OutsideKeepsWaiting
    <3>3. Serving' BY <2>1, <2>4, <2>6, OutsideKeepsServing DEF ServeInv, Serving
    <3> QED BY <3>1, <3>2, <3>3 DEF ServeInv
  <2>7. CASE proc' = [proc EXCEPT ![p] = x] /\ disks' = WithFile(nextId, 0)
    <3>1. proc'[p] = x /\ \A q \in Goroutines \ {p} : proc'[q] = proc[q] BY <1>0, <2>7
    <3>2. \A q \in Goroutines : proc[q].id # nextId BY <1>0 DEF KernelInv, Fresh
    <3>3. CopyOwn(p)' BY <2>2, <3>1 DEF CopyOwn, WithRow
    <3>4. \A v \in vms : v.id # nextId BY <1>0 DEF ServeInv, VmsOwn
    <3>5. Created(p)' BY <2>1, <2>2, <2>3, <2>7, <3>1, <3>4 DEF Created
    <3> QED BY <1>0, <2>1, <2>2, <2>4, <2>5, <3>1, <3>2, <3>3, <3>5, StartKeepsServe
  <2> QED BY <2>1, <2>6, <2>7
<1>2. ASSUME NEW p \in Requests, NEW id \in Ids, NEW x, x.id = id, Addressable(id), IsIdle(p),
             proc' = [proc EXCEPT ![p] = x],
             UNCHANGED <<regVars, hostVars, machines, todo, main, envVars, serving>>,
             CopyOwn(p)', x.pc \in {"get_row", "add_port"}
      PROVE  ServeInv'
  <2>1. proc'[p] = x /\ \A q \in Goroutines \ {p} : proc'[q] = proc[q] BY <1>0, <1>2
  <2>2. Outside /\ UNCHANGED <<rules, machines, taps, main, serving, vms>>
    BY <1>0, <1>2 DEF Outside, regVars, hostVars, envVars
  <2>3. \A q \in Goroutines : proc[q].id # id BY <1>2 DEF Addressable, WorkingOn, Disciplined
  <2>4. Created(p)' BY <1>2, <2>1 DEF Created
  <2> QED BY <1>0, <1>2, <2>1, <2>2, <2>3, <2>4, StartKeepsServe
<1>3. ASSUME NEW p \in Requests, NEW id \in Ids, DestroyArrives(p, id) PROVE ServeInv'
  <2> DEFINE x == [Idle EXCEPT !.pc = "get_row", !.id = id, !.ctx = "request"]
  <2>1. /\ IsIdle(p) /\ Addressable(id) /\ proc' = [proc EXCEPT ![p] = x]
        /\ UNCHANGED <<regVars, hostVars, machines, todo, main, envVars, serving>>
    BY <1>3 DEF DestroyArrives
  <2>2. x.pc = "get_row" /\ x.id = id BY DEF Idle
  <2> HIDE DEF x
  <2>3. CopyOwn(p)' BY <1>0, <2>1, <2>2 DEF CopyOwn, WithRow
  <2> QED BY <1>2, <2>1, <2>2, <2>3
<1>4. ASSUME NEW p \in Requests, NEW id \in Ids, NEW guest \in GuestPorts, ExposeArrives(p, id, guest)
      PROVE  ServeInv'
  <2> DEFINE x == [Idle EXCEPT !.pc = "add_port", !.id = id, !.sb = RowOf(id, sandboxes),
                               !.guest = guest, !.ctx = "request"]
  <2>1. /\ IsIdle(p) /\ Addressable(id) /\ proc' = [proc EXCEPT ![p] = x]
        /\ UNCHANGED <<regVars, hostVars, machines, todo, main, envVars, serving>>
    BY <1>4 DEF ExposeArrives
  <2>2. x.pc = "add_port" /\ x.id = id /\ x.sb = RowOf(id, sandboxes) BY DEF Idle
  <2> HIDE DEF x
  <2>3. proc'[p] = x /\ sandboxes' = sandboxes BY <1>0, <2>1 DEF regVars
  <2>4. \E r \in sandboxes : r.id = id BY <2>1 DEF Addressable, Get
  <2>5. CopyOwn(p)' BY <2>2, <2>3, <2>4, FreshCopy
  <2> QED BY <1>2, <2>1, <2>2, <2>5
<1> QED BY <1>1, <1>3, <1>4 DEF Arrival

\* A new deadline changes nothing else of a row.
LEMMA SetTimeoutKeepsServe ==
    ASSUME LifeInv, ServeInv, NEW id \in Ids, NEW timeout \in Timeouts, SetTimeout(id, timeout)
    PROVE  ServeInv'
<1> USE DEF LifeInv, LifeTypes, ServeInv
<1> DEFINE new(r) == IF r.id = id THEN [r EXCEPT !.expires = Deadline(timeout)] ELSE r
<1>1. /\ sandboxes' = {new(r) : r \in sandboxes}
      /\ UNCHANGED <<taps, rules, disks, vms, proc, main, machines, nextId, serving>>
  BY DEF SetTimeout, SetExpiry, hostVars, memVars, envVars
<1>2. \A r \in sandboxes : SameRow(new(r), r)
  BY DEF SameRow, SameHolding, RegInv, RegTypeOK, Sandbox
<1> HIDE DEF new
<1>3. /\ \A r \in sandboxes' : \E s \in sandboxes : SameRow(r, s)
      /\ \A s \in sandboxes : \E r \in sandboxes' : SameRow(r, s)
  BY <1>1, <1>2
<1> USE DEF SameRow, SameHolding
<1>4. RowsOwn' BY <1>3 DEF RowsOwn
<1>5. TapsOwn' BY <1>1, <1>3 DEF TapsOwn
<1>6. VmsOwn' BY <1>1, <1>3 DEF VmsOwn
<1>7. ASSUME NEW q \in Goroutines PROVE CopyOwn(q)' /\ Created(q)'
  BY <1>1, <1>3 DEF CopyOwn, Created
<1>8. ASSUME NEW i, NEW r \in sandboxes, r.id = i,
             Forward(r.port, r.ip, PrimaryPort) \subseteq BagToSet(rules)
      PROVE  \E s \in sandboxes' : /\ SameRow(s, r)
                                   /\ Forward(s.port, s.ip, PrimaryPort) \subseteq BagToSet(rules')
  BY <1>1, <1>3, <1>8
<1>9. ASSUME NEW i, Ready(i) PROVE Ready(i)' BY <1>1, <1>8, <1>9 DEF Ready
<1>10. ASSUME NEW q \in Goroutines PROVE Waiting(q)'
  <2> SUFFICES ASSUME proc[q].pc = "wait_agent" PROVE Waiting(q)' BY <1>1 DEF Waiting
  <2>1. CASE Ready(proc[q].id)
    <3>1. PICK i : i = proc[q].id OBVIOUS
    <3>2. Ready(i)' BY <1>9, <2>1, <3>1
    <3> QED BY <1>1, <3>1, <3>2 DEF Waiting, Ready
  <2>2. CASE Get(proc[q].id) = {} BY <1>1, <1>3, <2>2 DEF Waiting, Get
  <2>3. CASE \E x \in Goroutines \ {q} : proc[x].id = proc[q].id BY <1>1, <2>3 DEF Waiting
  <2> QED BY <2>1, <2>2, <2>3 DEF Waiting
<1>11. ASSUME NEW i \in serving PROVE Whole(i)'
  <2>1. PICK r \in sandboxes :
          /\ r.id = i /\ r.rootfs \in DOMAIN disks
          /\ \E v \in vms : /\ v.id = i /\ v.dev = i /\ v.tap = r.tap /\ OnBridge(v)
                           /\ v.ip = r.ip /\ v.disk = r.rootfs
          /\ Forward(r.port, r.ip, PrimaryPort) \subseteq BagToSet(rules)
    BY <1>11 DEF Serving, Whole
  <2>2. PICK s \in sandboxes' : /\ SameRow(s, r)
                                /\ Forward(s.port, s.ip, PrimaryPort) \subseteq BagToSet(rules')
    BY <1>8, <2>1
  <2>3. i \in machines BY <1>11 DEF Serving, Whole
  <2>4. \E v \in vms' : /\ v.id = i /\ v.dev = i /\ v.tap = s.tap /\ OnBridge(v)'
                       /\ v.ip = s.ip /\ v.disk = s.rootfs
    BY <1>1, <2>1, <2>2 DEF OnBridge
  <2>5. s.id = i /\ s.rootfs \in DOMAIN disks' BY <1>1, <2>1, <2>2
  <2> QED BY <1>1, <2>2, <2>3, <2>4, <2>5 DEF Whole
<1>12. Serving' BY <1>1, <1>11 DEF Serving
<1> QED BY <1>4, <1>5, <1>6, <1>7, <1>10, <1>12

\* Reaper, reconcile, shutdown, crashes, hang-ups, dying VMs and the clock.
LEMMA ServerKeepsServe ==
    ASSUME Disciplined, LifeInv, KernelInv, ServeInv,
           \/ ReaperTick \/ ReapNext \/ Serve \/ Environment \/ UNCHANGED vars
    PROVE  ServeInv'
<1> USE DEF LifeInv, LifeTypes, regVars, hostVars, memVars, envVars
<1>0. /\ proc \in [Goroutines -> Frame] /\ Requests \subseteq Goroutines /\ Main \in Goroutines
      /\ Ids \subseteq Goroutines /\ Main \notin Requests \cup Ids /\ Requests \cap Ids = {}
      /\ Ids \subseteq Nat /\ 0 \notin Ids /\ nextId \in Nat /\ machines \subseteq Ids
  BY CardinalityIds, GoroutinesAssumption DEF ProcOK, Goroutines, EnvOK, MemoryOK
\* The goroutines stay as they are.
<1>1. ASSUME Outside, UNCHANGED <<rules, machines, taps, proc>>, serving' \subseteq serving,
             \A v \in vms : v.id \in serving' => v \in vms',
             main # "stop_all" \/ main' = "stop_all",
             main' \in {"down", "recover", "abort"} => serving' = {}
      PROVE  ServeInv'
  <2>1. RowsOwn' /\ TapsOwn' /\ VmsOwn' BY <1>1, OutsideKeepsOwn
  <2>2. \A q \in Goroutines : CopyOwn(q)' /\ Created(q)' /\ Waiting(q)'
    BY <1>1, OutsideKeepsCreate, OutsideKeepsWaiting
  <2>3. Serving' BY <1>1, OutsideKeepsServing
  <2> QED BY <2>1, <2>2, <2>3 DEF ServeInv
<1>2. ASSUME ReaperTick PROVE ServeInv'
  <2>1. Expired(now) = {} BY DEF KernelInv, Quiet, Expired
  <2> QED BY <1>2, <2>1 DEF ReaperTick
<1>3. ASSUME ReapNext PROVE ServeInv' BY <1>3 DEF ReapNext, KernelInv, Quiet
<1>4. ASSUME Restart \/ Listen PROVE ServeInv'
  <2>1. serving = {} /\ main # "stop_all" BY <1>4 DEF Restart, Listen, ServeInv, Serving
  <2>2. Outside BY <1>0, <1>4 DEF Outside, Restart, Listen
  <2> QED BY <1>1, <1>4, <2>1, <2>2 DEF Restart, Listen
<1>5. ASSUME ReconcileNext PROVE ServeInv'
  <2>1. PICK id \in todo :
          /\ todo' = todo \ {id}
          /\ proc' = [proc EXCEPT ![Main] =
                        [Idle EXCEPT !.pc = "read_ports", !.id = id, !.sb = RowOf(id, sandboxes),
                             !.ctx = IF main = "abort" THEN "cancelled" ELSE "background"]]
    BY <1>5 DEF ReconcileNext
  <2> DEFINE x == [Idle EXCEPT !.pc = "read_ports", !.id = id, !.sb = RowOf(id, sandboxes),
                               !.ctx = IF main = "abort" THEN "cancelled" ELSE "background"]
  <2>2. x.pc = "read_ports" /\ x.id = id /\ x.sb = RowOf(id, sandboxes) BY DEF Idle
  <2>3. proc'[Main] = x /\ \A q \in Goroutines \ {Main} : proc'[q] = proc[q] BY <1>0, <2>1
  <2> HIDE DEF x
  <2>4. main \in {"recover", "abort"} /\ proc[Main].pc = "idle" BY <1>5 DEF ReconcileNext, IsIdle
  <2>5. /\ UNCHANGED <<rules, machines, taps, main, serving, sandboxes>> /\ Outside
        /\ serving = {} /\ id \in Ids
    BY <1>0, <1>5, <2>4 DEF ReconcileNext, Outside, ServeInv, Serving, MemoryOK
  <2>6. \A q \in Goroutines : proc[q].id = 0 BY <2>4 DEF ReconcileOK, ProcOK, LocalOK
  <2>7. \E r \in sandboxes : r.id = id BY <2>4 DEF ReconcileOK
  <2>8. CopyOwn(Main)' BY <2>2, <2>3, <2>5, <2>7, FreshCopy
  <2>9. Created(Main)' BY <2>2, <2>3 DEF Created
  <2> QED BY <1>0, <2>2, <2>3, <2>5, <2>6, <2>8, <2>9, StartKeepsServe
<1>6. ASSUME ShutdownAll PROVE ServeInv'
  <2> DEFINE x(p) == [Idle EXCEPT !.pc = "get_row", !.id = p]
  <2>1. \A p : x(p).pc = "get_row" /\ x(p).id = p /\ x(p).ctx = "background" BY DEF Idle
  <2>2. /\ main = "drain" /\ main' = "stop_all"
        /\ UNCHANGED <<regVars, taps, rules, disks, vms, nextId, machines, serving>>
        /\ proc' = [p \in Goroutines |-> IF p \in machines THEN x(p) ELSE proc[p]]
    BY <1>6 DEF ShutdownAll
  <2> HIDE DEF x
  <2>3. /\ \A p \in Goroutines : p \notin machines => proc'[p] = proc[p]
        /\ \A p \in machines : /\ proc'[p].pc = "get_row" /\ proc'[p].id = p
                               /\ proc'[p].ctx = "background" /\ proc[p].id = 0
    <3>1. \A p \in machines : proc[p].pc = "idle" BY <1>0, <2>2 DEF KernelInv, Quiet
    <3> QED BY <1>0, <2>1, <2>2, <3>1 DEF ProcOK, LocalOK
  <2>4. Outside BY <1>0, <2>2 DEF Outside
  <2>5. RowsOwn' /\ TapsOwn' /\ VmsOwn' BY <2>4, OutsideKeepsOwn
  <2>6. ASSUME NEW q \in Goroutines, q \notin machines PROVE CopyOwn(q)' /\ Created(q)' /\ Waiting(q)'
    <3>1. proc'[q] = proc[q] BY <2>3, <2>6
    <3>2. CopyOwn(q)' /\ Created(q)' BY <2>2, <2>4, <3>1, OutsideKeepsCreate
    <3>3. proc[q].pc = "wait_agent" => proc[q].id # 0 BY <1>0 DEF ProcOK, LocalOK
    <3>4. Waiting(q)' BY <2>2, <2>3, <2>4, <3>1, <3>3, OutsideKeepsWaiting DEF Destroying
    <3> QED BY <3>2, <3>4
  <2>7. ASSUME NEW q \in machines PROVE CopyOwn(q)' /\ Created(q)' /\ Waiting(q)'
    BY <2>3, <2>7 DEF CopyOwn, Created, Waiting, WithRow
  <2>8. Serving' BY <2>2, <2>3, <2>4, OutsideKeepsServing
  <2> QED BY <2>5, <2>6, <2>7, <2>8 DEF ServeInv
<1>7. ASSUME Exit \/ Crash \/ Reboot PROVE ServeInv'
  <2>1. /\ main' = "down" /\ serving' = {} /\ UNCHANGED <<regVars, nextId, disks>>
        /\ proc' = [p \in Goroutines |-> Idle]
        /\ taps' \subseteq taps /\ vms' \subseteq vms
    BY <1>7 DEF Exit, Crash, Reboot, ProcessGone
  <2>2. \A p \in Goroutines : proc'[p].pc = "idle" BY <2>1 DEF Idle
  <2>3. Outside BY <1>0, <2>1 DEF Outside
  <2>4. RowsOwn' /\ TapsOwn' /\ VmsOwn' BY <2>3, OutsideKeepsOwn
  <2>5. \A q \in Goroutines : CopyOwn(q)' /\ Created(q)' /\ Waiting(q)'
    BY <2>2 DEF CopyOwn, Created, Waiting, WithRow
  <2>6. Serving' BY <2>1 DEF Serving
  <2> QED BY <2>4, <2>5, <2>6 DEF ServeInv
<1>8. ASSUME Stop PROVE ServeInv'
  <2>1. /\ UNCHANGED <<rules, machines, taps>> /\ serving' = {} /\ main \in {"serve", "recover"}
        /\ Outside
    BY <1>0, <1>8 DEF Stop, Outside
  <2>2. CASE proc' = proc BY <1>1, <2>1, <2>2
  <2>3. CASE ~IsIdle(Main) /\ proc' = [proc EXCEPT ![Main].ctx = "cancelled"]
    <3>1. \A q \in Goroutines \ {Main} : proc[q].pc = "idle" /\ proc'[q] = proc[q]
      BY <1>0, <2>1, <2>3 DEF ReconcileOK, IsIdle
    <3>2. proc'[Main].pc = proc[Main].pc /\ proc'[Main].id = proc[Main].id /\ proc'[Main].sb = proc[Main].sb
      BY <1>0, <2>3 DEF Frame
    <3>3. proc[Main].pc \in ReconcilePCs BY DEF ReconcileOK
    <3>4. CopyOwn(Main)' BY <1>0, <2>1, <3>2 DEF CopyOwn, ServeInv, Outside
    <3>5. Created(Main)' /\ Waiting(Main)' BY <3>2, <3>3 DEF Created, Waiting, ReconcilePCs
    <3>6. \A q \in Goroutines \ {Main} : CopyOwn(q)' /\ Created(q)' /\ Waiting(q)'
      BY <3>1 DEF CopyOwn, Created, Waiting, WithRow
    <3>7. RowsOwn' /\ TapsOwn' /\ VmsOwn' BY <2>1, OutsideKeepsOwn
    <3>8. Serving' BY <2>1 DEF Serving
    <3> QED BY <3>4, <3>5, <3>6, <3>7, <3>8 DEF ServeInv
  <2> QED BY <1>8, <2>2, <2>3 DEF Stop
<1>9. ASSUME NEW p \in Requests, Disconnect(p) PROVE ServeInv'
  <2>1. /\ proc'[p].pc = proc[p].pc /\ proc'[p].id = proc[p].id /\ proc'[p].sb = proc[p].sb
        /\ proc[p].ctx = "request" /\ \A q \in Goroutines \ {p} : proc'[q] = proc[q]
    BY <1>0, <1>9 DEF Disconnect, Frame
  <2>2. Outside /\ UNCHANGED <<rules, machines, taps, disks, vms, serving, main, sandboxes>>
    BY <1>0, <1>9 DEF Disconnect, Outside
  <2>3. ASSUME NEW q \in Goroutines PROVE CopyOwn(q)' /\ Created(q)'
    <3>1. proc'[q].pc = proc[q].pc /\ proc'[q].id = proc[q].id /\ proc'[q].sb = proc[q].sb BY <2>1
    <3> QED BY <2>2, <3>1 DEF ServeInv, CopyOwn, Created
  <2>4. ASSUME NEW q \in Goroutines PROVE Waiting(q)'
    <3> SUFFICES ASSUME proc[q].pc = "wait_agent" PROVE Waiting(q)' BY <2>1 DEF Waiting
    <3>1. \A y \in Goroutines : proc'[y].id = proc[y].id /\ proc'[y].pc = proc[y].pc BY <2>1
    <3>2. \A y \in Goroutines \ {q} : proc[y].id = proc[q].id =>
              proc[y].ctx = "background" /\ proc[y].pc \in Destroying
      BY DEF ServeInv, Waiting
    <3>3. \A y \in Goroutines \ {q} : proc[y].id = proc[q].id => y # p BY <2>1, <3>2
    <3>4. \A y \in Goroutines \ {q} : proc'[y].id = proc'[q].id =>
              proc'[y].ctx = "background" /\ proc'[y].pc \in Destroying
      BY <2>1, <3>1, <3>2, <3>3
    <3>5. CASE Ready(proc[q].id)
      <4>1. PICK i : i = proc[q].id OBVIOUS
      <4>2. Ready(i)' BY <2>2, <3>5, <4>1 DEF Ready
      <4> QED BY <3>1, <3>4, <4>1, <4>2 DEF Waiting, Ready
    <3>6. CASE Get(proc[q].id) = {} BY <2>2, <3>1, <3>4, <3>6 DEF Waiting, Get
    <3>7. CASE \E y \in Goroutines \ {q} : proc[y].id = proc[q].id BY <3>1, <3>4, <3>7 DEF Waiting
    <3> QED BY <3>5, <3>6, <3>7 DEF ServeInv, Waiting
  <2>5. RowsOwn' /\ TapsOwn' /\ VmsOwn' BY <2>2, OutsideKeepsOwn
  <2>6. Serving' BY <2>1, <2>2, OutsideKeepsServing DEF ServeInv, Serving
  <2> QED BY <2>3, <2>4, <2>5, <2>6 DEF ServeInv
<1>10. ASSUME NEW v \in vms, VMExit(v) PROVE ServeInv'
  <2>1. Outside /\ UNCHANGED <<rules, machines, taps, proc, main>> BY <1>0, <1>10 DEF VMExit, Outside
  <2>2. vms' = vms \ {v} /\ serving' = serving \ {v.id} BY <1>10 DEF VMExit
  <2> QED BY <1>1, <2>1, <2>2 DEF ServeInv, Serving
<1>11. ASSUME Tick \/ UNCHANGED vars PROVE ServeInv'
  <2>1. Outside /\ UNCHANGED <<rules, machines, taps, vms, proc, main, serving>>
    BY <1>0, <1>11 DEF Tick, vars, Outside
  <2> QED BY <1>1, <2>1 DEF ServeInv, Serving
<1> QED BY <1>2, <1>3, <1>4, <1>5, <1>6, <1>7, <1>8, <1>9, <1>10, <1>11 DEF Serve, Environment

\* Hence the invariant always holds.
LEMMA ServeInvariant == ASSUME Disciplined PROVE Spec => []ServeInv
<1>1. Init => ServeInv
  <2> SUFFICES ASSUME Init PROVE ServeInv OBVIOUS
  <2>1. \A p \in Goroutines : proc[p].pc = "idle" BY DEF Init, Idle
  <2>2. sandboxes = {} /\ taps = {} /\ vms = {} /\ serving = {} BY DEF Init, RegInit
  <2>3. RowsOwn /\ TapsOwn /\ VmsOwn /\ Serving BY <2>2 DEF RowsOwn, TapsOwn, VmsOwn, Serving
  <2>4. \A p \in Goroutines : CopyOwn(p) /\ Created(p) /\ Waiting(p)
    BY <2>1 DEF CopyOwn, Created, Waiting, WithRow
  <2> QED BY <2>3, <2>4 DEF ServeInv
<1>2. LifeInv /\ KernelInv /\ ServeInv /\ [Next]_vars => ServeInv'
  <2> SUFFICES ASSUME LifeInv, KernelInv, ServeInv, [Next]_vars PROVE ServeInv' OBVIOUS
  <2>1. ASSUME NEW p \in Goroutines, Step(p) PROVE ServeInv' BY <2>1, StepKeepsServe
  <2>2. ASSUME NEW id \in Ids, NEW timeout \in Timeouts, SetTimeout(id, timeout) PROVE ServeInv'
    BY <2>2, SetTimeoutKeepsServe
  <2> QED BY <2>1, <2>2, ArrivalKeepsServe, ServerKeepsServe DEF Next
<1> QED BY <1>1, <1>2, LifecycleInvariant, KernelInvariant, PTL DEF Spec

\* A sandbox whose create was answered 201 keeps its row, machine, VM, disk, tap
\* and forward until somebody asks to destroy it, its VM dies or the server goes
\* down, whatever the other handlers, their error paths and a shutdown do.
THEOREM LifecycleServingWhole == ASSUME Disciplined PROVE Spec => []ServingWhole
<1>1. ServeInv => ServingWhole BY DEF ServeInv, Serving, ServingWhole
<1> QED BY <1>1, ServeInvariant, PTL

-----------------------------------------------------------------------------
(* Nothing is left behind while the server is not killed. *)

\* The server is neither stopped nor killed, and a copy of the image that fails
\* leaves no file.
Undisrupted == MaxCrashes = 0 /\ "rootfs_partial" \notin Faults

\* A machine is stored after its VM is started and taken before it is stopped: at
\* these steps it is not in the map.
Unstored == {"insert_row", "create_tap", "start_vm", "forward", "finish_start", "stop_force", "store",
             "wait_vm", "remove_forwards", "delete_tap", "remove_rootfs", "delete_row"}
HoldsVM == {"forward", "finish_start", "stop_force", "store", "wait_vm"}

\* A VM has a row, and its machine is in the map or in the hands of a goroutine
\* that will store it or stop it.
VmsHeld ==
    \A v \in vms :
        /\ Get(v.id) # {}
        /\ v.id \in machines \/ \E p \in Goroutines : proc[p].id = v.id /\ proc[p].pc \in HoldsVM

FilesHeld ==
    \A path \in DOMAIN disks :
        \/ \E r \in sandboxes : r.rootfs = path
        \/ \E p \in Requests : proc[p].pc = "insert_row" /\ proc[p].id = path

\* The row goes last.
LeftOver(p) ==
    /\ proc[p].pc \in Unstored => proc[p].id \notin machines
    /\ proc[p].pc = "delete_row" => proc[p].id \notin DOMAIN disks

LeakInv == main = "serve" /\ VmsHeld /\ FilesHeld /\ \A p \in Goroutines : LeftOver(p)

\* The order of the steps, as far as LeakInv needs it.
StepHolds(p) ==
    /\ proc'[p].pc \in Unstored => proc[p].pc \in Unstored \cup {"take_machine"}
    /\ proc'[p].pc = "delete_row" => proc[p].pc = "remove_rootfs"
    /\ proc[p].pc \in {"forward", "finish_start"} => proc'[p].pc \in HoldsVM
    /\ proc[p].pc = "store" => proc'[p].pc = "wait_agent"

\* Action by action.
LEMMA HoldsStep == ASSUME ProcOK, NEW p \in Goroutines, Step(p) PROVE StepHolds(p)
<1>0. proc \in [Goroutines -> Frame] /\ proc[p] \in Frame BY DEF ProcOK
<1>a. Return(p) => proc'[p].pc = "idle" BY <1>0 DEF Return, Idle
<1>b. Rollback(p) => proc'[p].pc = "delete_tap" BY RollbackFrame
<1>c. \A c : GoTo(p, c) => proc'[p].pc = c BY GoToFrame
<1> USE DEF StepHolds, Unstored, HoldsVM
<1>1. CASE InsertRow(p)
  <2>1. proc[p].pc = "insert_row" /\ proc'[p].pc \in {"idle", "create_tap"}
    BY <1>0, <1>1, <1>a DEF InsertRow, Frame
  <2> QED BY <2>1
<1>2. CASE WaitForAgent(p) BY <1>2, WaitForAgentEnds
<1>3. CASE GetRow(p)
  <2>1. proc[p].pc = "get_row" /\ proc'[p].pc \in {"idle", "read_ports"}
    BY <1>0, <1>3, <1>a DEF GetRow, Frame
  <2> QED BY <2>1
<1>4. CASE ReadPorts(p)
  <2>1. proc[p].pc = "read_ports" /\ proc'[p].pc = "take_machine" BY <1>0, <1>4 DEF ReadPorts, Frame
  <2> QED BY <2>1
<1>5. CASE AllocatePort(p)
  <2>1. proc[p].pc = "add_port" /\ proc'[p].pc \in {"idle", "add_forward"}
    BY <1>0, <1>5, <1>a DEF AllocatePort, Frame
  <2> QED BY <2>1
<1>6. CASE CreateTap(p) \/ StartVM(p) \/ StopForce(p) \/ StoreMachine(p) \/ TakeMachine(p) \/ WaitVM(p)
  BY <1>6, <1>b, <1>c DEF CreateTap, StartVM, StopForce, StoreMachine, TakeMachine, WaitVM
<1>7. CASE RecordStart(p) \/ RemoveForwards(p) \/ DeleteTap(p) \/ RemoveRootfs(p)
  BY <1>7, <1>c DEF RecordStart, RemoveForwards, DeleteTap, RemoveRootfs
<1>8. CASE AddPortForward(p) \/ ForwardExtra(p)
  BY <1>8, <1>a, <1>c DEF AddPortForward, ForwardExtra, AddPortForwardTo
<1>9. CASE DeleteRow(p) \/ UndoPort(p) BY <1>9, <1>a DEF DeleteRow, UndoPort
<1> QED BY <1>1, <1>2, <1>3, <1>4, <1>5, <1>6, <1>7, <1>8, <1>9 DEF Step

\* Every step of a goroutine keeps what it holds accounted for.
LEMMA StepKeepsLeak ==
    ASSUME LifeInv, KernelInv, ServeInv, LeakInv, NEW p \in Goroutines, Step(p)
    PROVE  LeakInv'
<1> USE DEF LeakInv
<1> DEFINE id == proc[p].id
<1>0. Footprint(p) /\ StepHolds(p) BY FootprintStep, HoldsStep DEF LifeInv, LifeTypes
<1>1. /\ Moves(p) /\ StepRows(p) /\ StepMachines(p) /\ StepDisks(p) /\ StepVms(p)
      /\ LocalOK(proc[p]) /\ proc[p] \in Frame
  BY <1>0 DEF Footprint, LifeInv, LifeTypes, ProcOK
<1>2. /\ proc[p].pc # "idle" /\ main' = main
      /\ \A q \in Goroutines \ {p} : proc'[q] = proc[q] /\ proc[q].id # id
      /\ proc'[p].pc # "idle" => proc'[p].id = id
  <2>1. proc[p].pc # "idle" /\ id # 0 BY <1>1, CardinalityIds DEF Moves, LocalOK
  <2>2. \A q \in Goroutines \ {p} : proc[q].id # id BY <2>1 DEF KernelInv, Alone
  <2> QED BY <1>1, <2>1, <2>2 DEF Moves
<1>3. ASSUME NEW q \in Goroutines PROVE LeftOver(q)'
  <2>1. CASE q # p
    BY <1>1, <1>2, <2>1 DEF LeftOver, StepMachines, StepDisks
  <2>2. CASE q = p
    <3>1. ASSUME proc'[p].pc \in Unstored PROVE id \notin machines' /\ proc'[p].id = id
      BY <1>0, <1>1, <1>2, <3>1 DEF LeftOver, StepMachines, StepHolds, Unstored
    <3>2. ASSUME proc'[p].pc = "delete_row" PROVE id \notin DOMAIN disks'
      <4>1. proc[p].pc = "remove_rootfs" BY <1>0, <3>2 DEF StepHolds
      <4>2. proc[p].sb.rootfs = id BY <4>1 DEF ServeInv, CopyOwn, WithRow, PCs
      <4> QED BY <1>1, <4>1, <4>2 DEF StepDisks
    <3>3. proc'[p].pc = "delete_row" => proc'[p].pc \in Unstored BY DEF Unstored
    <3> QED BY <2>2, <3>1, <3>2, <3>3 DEF LeftOver
  <2> QED BY <2>1, <2>2
<1>4. ASSUME NEW i, Get(i) # {}, ~(proc[p].pc = "delete_row" /\ i = id) PROVE Get(i)' # {}
  <2>1. PICK s \in sandboxes : s.id = i BY <1>4 DEF Get
  <2>2. PICK r \in sandboxes' : SameRow(r, s) BY <1>1, <1>4, <2>1 DEF StepRows
  <2> QED BY <2>1, <2>2 DEF Get, SameRow, SameHolding
<1>5. ASSUME NEW w \in vms'
      PROVE  /\ Get(w.id)' # {}
             /\ w.id \in machines' \/ \E q \in Goroutines : proc'[q].id = w.id /\ proc'[q].pc \in HoldsVM
  <2>1. ASSUME NEW v \in vms, v.id = w.id PROVE
             /\ Get(w.id)' # {}
             /\ w.id \in machines' \/ \E q \in Goroutines : proc'[q].id = w.id /\ proc'[q].pc \in HoldsVM
    <3>0. Get(w.id) # {} BY <2>1 DEF VmsHeld
    <3>1. ASSUME w.id \in machines PROVE
             /\ Get(w.id)' # {}
             /\ w.id \in machines' \/ \E q \in Goroutines : proc'[q].id = w.id /\ proc'[q].pc \in HoldsVM
      <4>1. ~(proc[p].pc = "delete_row" /\ w.id = id) BY <3>1 DEF LeftOver, Unstored
      <4>2. CASE w.id \in machines' BY <1>4, <3>0, <4>1, <4>2
      <4>3. CASE w.id \notin machines'
        <5>1. w.id = id /\ proc'[p].pc = "wait_vm" BY <1>1, <3>1, <4>3 DEF StepMachines
        <5> QED BY <1>2, <1>4, <3>0, <4>1, <5>1 DEF HoldsVM
      <4> QED BY <4>2, <4>3
    <3>2. ASSUME NEW q \in Goroutines, proc[q].id = w.id, proc[q].pc \in HoldsVM PROVE
             /\ Get(w.id)' # {}
             /\ w.id \in machines' \/ \E y \in Goroutines : proc'[y].id = w.id /\ proc'[y].pc \in HoldsVM
      <4>1. CASE q # p BY <1>2, <1>4, <3>0, <3>2, <4>1
      <4>2. CASE q = p
        <5>1. proc[p].pc \notin {"stop_force", "wait_vm"} BY <1>1, <3>2, <4>2 DEF StepVms
        <5>2. Get(w.id)' # {} BY <1>4, <3>0, <3>2, <4>2 DEF HoldsVM
        <5>3. CASE proc[p].pc = "store"
          BY <1>0, <1>1, <3>2, <4>2, <5>2, <5>3 DEF StepHolds, StepMachines
        <5>4. CASE proc[p].pc \in {"forward", "finish_start"}
          <6>1. proc'[p].pc \in HoldsVM BY <1>0, <5>4 DEF StepHolds
          <6>2. proc'[p].id = w.id BY <1>2, <3>2, <4>2, <6>1 DEF HoldsVM
          <6> QED BY <5>2, <6>1, <6>2
        <5> QED BY <3>2, <4>2, <5>1, <5>3, <5>4 DEF HoldsVM
      <4> QED BY <4>1, <4>2
    <3> QED BY <2>1, <3>1, <3>2 DEF VmsHeld
  <2>2. ASSUME proc[p].pc = "start_vm", proc'[p].pc = "forward", w.id = proc[p].sb.id PROVE
             /\ Get(w.id)' # {}
             /\ w.id \in machines' \/ \E q \in Goroutines : proc'[q].id = w.id /\ proc'[q].pc \in HoldsVM
    <3>1. w.id = id BY <1>1, <2>2 DEF LocalOK, WithRow, PCs
    <3>2. Get(id) # {} BY <2>2 DEF KernelInv, GoroutineOK, RowThere, Get
    <3>3. Get(w.id)' # {} BY <1>4, <2>2, <3>1, <3>2
    <3> QED BY <1>2, <2>2, <3>1, <3>3 DEF HoldsVM
  <2> QED BY <1>1, <2>1, <2>2 DEF StepVms
<1>6. VmsHeld' 
  <2> SUFFICES ASSUME NEW w \in vms'
               PROVE  /\ Get(w.id)' # {}
                      /\ w.id \in machines' \/ \E q \in Goroutines : proc'[q].id = w.id /\ proc'[q].pc \in HoldsVM
    BY DEF VmsHeld, Get
  <2> QED BY <1>5
<1>7. FilesHeld'
  <2> SUFFICES ASSUME NEW path \in DOMAIN disks'
               PROVE  \/ \E r \in sandboxes' : r.rootfs = path
                      \/ \E q \in Requests : proc'[q].pc = "insert_row" /\ proc'[q].id = path
    BY DEF FilesHeld
  <2>0. path \in DOMAIN disks BY <1>1 DEF StepDisks
  <2>1. ASSUME NEW s \in sandboxes, s.rootfs = path PROVE \E r \in sandboxes' : r.rootfs = path
    <3>1. s.id = path BY <2>1 DEF ServeInv, RowsOwn
    <3>2. ~(proc[p].pc = "delete_row" /\ s.id = id) BY <2>0, <3>1 DEF LeftOver
    <3> QED BY <1>1, <2>1, <3>2 DEF StepRows, SameRow
  <2>2. ASSUME NEW q \in Requests, proc[q].pc = "insert_row", proc[q].id = path
        PROVE  \/ \E r \in sandboxes' : r.rootfs = path
               \/ proc'[q].pc = "insert_row" /\ proc'[q].id = path
    <3>1. q \in Goroutines BY DEF Goroutines
    <3> QED BY <1>1, <1>2, <2>2, <3>1 DEF StepDisks
  <2> QED BY <2>0, <2>1, <2>2 DEF FilesHeld
<1> QED BY <1>2, <1>3, <1>6, <1>7

\* What is not a step of a goroutine starts one, or changes a deadline, or lets a
\* VM die, or hangs up.
LEMMA OthersKeepLeak ==
    ASSUME LeakInv, UNCHANGED <<machines, main>>, vms' \subseteq vms,
           \A s \in sandboxes : \E r \in sandboxes' : SameRow(r, s),
           \A path \in DOMAIN disks' : path \in DOMAIN disks
              \/ \E p \in Requests : proc'[p].pc = "insert_row" /\ proc'[p].id = path,
           \A p \in Goroutines :
              \/ /\ proc'[p].pc = proc[p].pc /\ proc'[p].id = proc[p].id
                 /\ proc[p].pc = "delete_row" => proc[p].id \notin DOMAIN disks' \ DOMAIN disks
              \/ /\ proc[p].pc = "idle" /\ proc'[p].pc \in {"get_row", "add_port", "insert_row"}
                 /\ proc'[p].pc = "insert_row" => proc'[p].id \notin machines
    PROVE  LeakInv'
<1> USE DEF LeakInv
<1>1. ASSUME NEW p \in Goroutines PROVE LeftOver(p)'
  <2>1. CASE /\ proc'[p].pc = proc[p].pc /\ proc'[p].id = proc[p].id
             /\ proc[p].pc = "delete_row" => proc[p].id \notin DOMAIN disks' \ DOMAIN disks
    BY <2>1 DEF LeftOver
  <2>2. CASE /\ proc'[p].pc \in {"get_row", "add_port", "insert_row"}
             /\ proc'[p].pc = "insert_row" => proc'[p].id \notin machines
    BY <2>2 DEF LeftOver, Unstored
  <2> QED BY <2>1, <2>2
<1>2. \A i : Get(i) # {} => Get(i)' # {} BY DEF Get, SameRow, SameHolding
<1>3. \A p \in Goroutines : proc[p].pc \in HoldsVM => proc'[p].pc \in HoldsVM /\ proc'[p].id = proc[p].id
  BY DEF HoldsVM
<1>4. VmsHeld'
  <2> SUFFICES ASSUME NEW v \in vms'
               PROVE  /\ Get(v.id)' # {}
                      /\ v.id \in machines' \/ \E q \in Goroutines : proc'[q].id = v.id /\ proc'[q].pc \in HoldsVM
    BY DEF VmsHeld, Get
  <2> QED BY <1>2, <1>3 DEF VmsHeld
<1>5. \A p \in Requests : proc[p].pc = "insert_row" => proc'[p].pc = "insert_row" /\ proc'[p].id = proc[p].id
  BY DEF Goroutines
<1>6. FilesHeld' BY <1>5 DEF FilesHeld, SameRow
<1> QED BY <1>1, <1>4, <1>6

\* So does everything else.
LEMMA OtherStepsKeepLeak ==
    ASSUME Disciplined, Undisrupted, LifeInv, KernelInv, ServeInv, LeakInv,
           \/ Arrival \/ \E id \in Ids, timeout \in Timeouts : SetTimeout(id, timeout)
           \/ ReaperTick \/ ReapNext \/ Serve \/ Environment \/ UNCHANGED vars
    PROVE  LeakInv'
<1> USE DEF LifeInv, LifeTypes, LeakInv, regVars, hostVars, memVars, envVars
<1>0. /\ proc \in [Goroutines -> Frame] /\ Requests \subseteq Goroutines
      /\ Ids \subseteq Nat /\ nextId \in Nat /\ ~(crashes < MaxCrashes)
  BY CardinalityIds DEF ProcOK, Goroutines, EnvOK, Undisrupted
<1>1. \A s : SameRow(s, s) BY DEF SameRow, SameHolding
<1>2. ASSUME NEW p \in Requests, NEW timeout \in Timeouts, PrepareRootfs(p, timeout) PROVE LeakInv'
  <2> DEFINE x == [Idle EXCEPT !.pc = "insert_row", !.id = nextId, !.expires = Deadline(timeout),
                               !.ctx = "request"]
  <2>1. /\ UNCHANGED <<regVars, vms, main, machines>> /\ proc[p].pc = "idle"
        /\ \/ proc' = [proc EXCEPT ![p] = x] /\ disks' = WithFile(nextId, 0)
           \/ proc' = proc /\ disks' = disks
    BY <1>2 DEF PrepareRootfs, IsIdle, Undisrupted, Fault
  <2>2. x.pc = "insert_row" /\ x.id = nextId BY DEF Idle
  <2> HIDE DEF x
  <2>3. DOMAIN WithFile(nextId, 0) = DOMAIN disks \cup {nextId} BY DEF WithFile
  <2>4. nextId \notin machines /\ \A q \in Goroutines : proc[q].id # nextId BY <1>0 DEF KernelInv, Fresh
  <2>5. CASE proc' = proc /\ disks' = disks BY <1>1, <2>1, <2>5, OthersKeepLeak
  <2>6. CASE proc' = [proc EXCEPT ![p] = x] /\ disks' = WithFile(nextId, 0)
    <3>1. proc'[p] = x /\ \A q \in Goroutines \ {p} : proc'[q] = proc[q] BY <1>0, <2>6
    <3>2. \A path \in DOMAIN disks' : path \in DOMAIN disks \/ path = nextId BY <2>3, <2>6
    <3> QED BY <1>1, <2>1, <2>2, <2>4, <3>1, <3>2, OthersKeepLeak
  <2> QED BY <2>1, <2>5, <2>6
<1>3. ASSUME NEW p \in Requests, NEW x, proc[p].pc = "idle", proc' = [proc EXCEPT ![p] = x],
             x.pc \in {"get_row", "add_port"}, UNCHANGED <<sandboxes, disks, vms, machines, main>>
      PROVE  LeakInv'
  <2>1. proc'[p] = x /\ \A q \in Goroutines \ {p} : proc'[q] = proc[q] BY <1>0, <1>3
  <2> QED BY <1>1, <1>3, <2>1, OthersKeepLeak
<1>4. ASSUME NEW p \in Requests, NEW id \in Ids, DestroyArrives(p, id) PROVE LeakInv'
  <2> DEFINE x == [Idle EXCEPT !.pc = "get_row", !.id = id, !.ctx = "request"]
  <2>1. /\ proc[p].pc = "idle" /\ proc' = [proc EXCEPT ![p] = x]
        /\ UNCHANGED <<sandboxes, disks, vms, machines, main>>
    BY <1>4 DEF DestroyArrives, IsIdle
  <2>2. x.pc = "get_row" BY DEF Idle
  <2> HIDE DEF x
  <2> QED BY <1>3, <2>1, <2>2
<1>5. ASSUME NEW p \in Requests, NEW id \in Ids, NEW guest \in GuestPorts, ExposeArrives(p, id, guest)
      PROVE  LeakInv'
  <2> DEFINE x == [Idle EXCEPT !.pc = "add_port", !.id = id, !.sb = RowOf(id, sandboxes),
                               !.guest = guest, !.ctx = "request"]
  <2>1. /\ proc[p].pc = "idle" /\ proc' = [proc EXCEPT ![p] = x]
        /\ UNCHANGED <<sandboxes, disks, vms, machines, main>>
    BY <1>5 DEF ExposeArrives, IsIdle
  <2>2. x.pc = "add_port" BY DEF Idle
  <2> HIDE DEF x
  <2> QED BY <1>3, <2>1, <2>2
<1>6. ASSUME NEW id \in Ids, NEW timeout \in Timeouts, SetTimeout(id, timeout) PROVE LeakInv'
  <2> DEFINE new(r) == IF r.id = id THEN [r EXCEPT !.expires = Deadline(timeout)] ELSE r
  <2>1. sandboxes' = {new(r) : r \in sandboxes} /\ UNCHANGED <<disks, vms, proc, main, machines>>
    BY <1>6 DEF SetTimeout, SetExpiry
  <2>2. \A r \in sandboxes : SameRow(new(r), r)
    BY DEF SameRow, SameHolding, RegInv, RegTypeOK, Sandbox
  <2> HIDE DEF new
  <2> QED BY <2>1, <2>2, OthersKeepLeak
<1>7. ASSUME ReaperTick \/ ReapNext PROVE LeakInv'
  <2>1. Expired(now) = {} BY DEF KernelInv, Quiet, Expired
  <2> QED BY <1>7, <2>1 DEF ReaperTick, ReapNext, KernelInv, Quiet
<1>8. ~Serve BY DEF Serve, Restart, ReconcileNext, Listen, ShutdownAll, Exit
<1>9. ~Stop /\ ~Crash /\ ~Reboot BY <1>0 DEF Stop, Crash, Reboot
<1>10. ASSUME NEW p \in Requests, Disconnect(p) PROVE LeakInv'
  <2>1. /\ proc'[p].pc = proc[p].pc /\ proc'[p].id = proc[p].id
        /\ \A q \in Goroutines \ {p} : proc'[q] = proc[q]
        /\ UNCHANGED <<sandboxes, disks, vms, machines, main>>
    BY <1>0, <1>10 DEF Disconnect, Frame
  <2> QED BY <1>1, <2>1, OthersKeepLeak
<1>11. ASSUME NEW v \in vms, VMExit(v) PROVE LeakInv'
  <2>1. vms' \subseteq vms /\ UNCHANGED <<sandboxes, disks, proc, machines, main>> BY <1>11 DEF VMExit
  <2> QED BY <1>1, <2>1, OthersKeepLeak
<1>12. ASSUME Tick \/ UNCHANGED vars PROVE LeakInv'
  <2>1. UNCHANGED <<sandboxes, disks, vms, proc, machines, main>> BY <1>12 DEF Tick, vars
  <2> QED BY <1>1, <2>1, OthersKeepLeak
<1> QED BY <1>2, <1>4, <1>5, <1>6, <1>7, <1>8, <1>9, <1>10, <1>11, <1>12 DEF Arrival, Environment

\* While the server is not killed, no error path of create, expose or destroy
\* leaves a firecracker process or a rootfs file that no row accounts for.
THEOREM LifecycleNothingLeaked ==
    ASSUME Disciplined, Undisrupted PROVE Spec => []NothingLeaked
<1>1. Init => LeakInv
  <2> SUFFICES ASSUME Init PROVE LeakInv OBVIOUS
  <2>1. \A p \in Goroutines : proc[p].pc = "idle" BY DEF Init, Idle
  <2>2. vms = {} /\ DOMAIN disks = {} /\ main = "serve" BY DEF Init
  <2> QED BY <2>1, <2>2 DEF LeakInv, VmsHeld, FilesHeld, LeftOver, Unstored
<1>2. LifeInv /\ KernelInv /\ ServeInv /\ LeakInv /\ [Next]_vars => LeakInv'
  <2> SUFFICES ASSUME LifeInv, KernelInv, ServeInv, LeakInv, [Next]_vars PROVE LeakInv' OBVIOUS
  <2>1. ASSUME NEW p \in Goroutines, Step(p) PROVE LeakInv' BY <2>1, StepKeepsLeak
  <2> QED BY <2>1, OtherStepsKeepLeak DEF Next
<1>3. LeakInv => NothingLeaked BY DEF LeakInv, VmsHeld, FilesHeld, NothingLeaked
<1> QED BY <1>1, <1>2, <1>3, LifecycleInvariant, KernelInvariant, ServeInvariant, PTL DEF Spec
=============================================================================
