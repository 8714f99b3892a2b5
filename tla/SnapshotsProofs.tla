-------------------------- MODULE SnapshotsProofs --------------------------
(***************************************************************************)
(* Proofs about Snapshots, for any number of clients, sandboxes, clones,   *)
(* snapshots and crashes, with overlapping calls and with every fault: the *)
(* registry is used as RegSpec says, disks are exclusive (SnapInv), and no *)
(* VM is left frozen (FrozenInv).  In between, what a handler's step does  *)
(* to each table, map and file, which DiskProofs rests on too.             *)
(***************************************************************************)
EXTENDS Snapshots, LifecycleProofs

-----------------------------------------------------------------------------
(* The invariant *)

AllPCs == PCs \cup SnapPCs
SnapFrame ==
    [pc : AllPCs, id : Ids \cup {0}, sb : Sandbox \cup {NoRow}, extra : SUBSET PortRow,
     guest : GuestPorts \cup {0}, host : HostPorts \cup {0},
     expires : Deadlines \cup {NULL}, ctx : {"request", "cancelled", "background", "parent"},
     snap : Snapshot \cup {NoRow}, by : Requests \cup {0}, staged : BOOLEAN]

\* The steps at which a goroutine has no sandbox of its own, has not read its row,
\* or has read a snapshot.
NoSandbox == {"idle", "clean_up_snapshot"} \cup FanoutPCs
NoCopy == NoSandbox \cup {"insert_row", "get_row", "insert_restore", "not_started", "clone_row"}
Snapshotting == {"pause", "write_memory", "freeze_rootfs", "resume", "resume_failed", "record_snapshot"}
HasSnapshot == Snapshotting \cup {"clean_up_snapshot", "insert_restore", "copy_rootfs", "not_started",
                   "clone_row", "clone_rootfs", "create_tap_unbridged", "start_clone", "stat_baked",
                   "stage", "bring_up", "settle"}

\* What a goroutine's local variables hold at each step.  Rows and snapshots were
\* read when tap and address belonged together; a snapshot in the making names
\* what the sandbox's row does.
SnapLocal(x) ==
    /\ x.pc = "idle" => x.id = 0
    /\ x.pc \notin NoSandbox => x.id \in Ids
    /\ x.pc \notin NoCopy => x.sb \in Sandbox /\ TogetherAddr(x.sb)
    /\ x.pc \in HasSnapshot => x.snap # NoRow
    /\ x.snap # NoRow => x.snap \in Snapshot /\ TogetherAddr(x.snap)
    /\ x.pc \in Snapshotting => x.snap.tap = x.sb.tap /\ x.snap.rootfs = x.sb.rootfs
    /\ x.pc \in {"add_port", "add_forward", "delete_port"} => x.guest \in GuestPorts
    /\ x.pc \in {"add_forward", "delete_port"} => x.host \in HostPorts

FramesOK == proc \in [Goroutines -> SnapFrame] /\ \A p \in Goroutines : SnapLocal(proc[p])

\* Host and memory.
Content == 0 .. MaxWrites
DisksTyped == DOMAIN disks \subseteq Ids /\ \A path \in DOMAIN disks : disks[path] \in Content
VmsTyped == \A v \in vms : v \in VM /\ v.ver \in Content
FilesTyped == files \in [SnapIds -> [dir : BOOLEAN, mem : {Absent} \cup Content, disk : {Absent} \cup Content]]
MemoryTyped == machines \subseteq Ids /\ todo \subseteq Ids
HostTyped == TapsOK /\ DisksTyped /\ VmsTyped /\ FilesTyped /\ MemoryTyped /\ EnvOK

\* Until the server listens only reconcile runs, on rows that exist.
RecoveryOK ==
    /\ proc[Main].pc \in ReconcilePCs
    /\ main \notin {"recover", "abort"} => proc[Main].pc = "idle"
    /\ main \in {"down", "recover", "abort"} => \A p \in Goroutines \ {Main} : proc[p].pc = "idle"
    /\ main \in {"recover", "abort"} =>
          \A id \in todo : id # proc[Main].id /\ \E r \in sandboxes : r.id = id

\* Who knows the path and the tap: a row, a snapshot, a goroutine with a snapshot.
Knows(path, tap) ==
    \/ \E r \in sandboxes : r.rootfs = path /\ r.tap = tap
    \/ \E s \in snapshots : s.rootfs = path /\ s.tap = tap
    \/ \E p \in Goroutines :
          proc[p].snap # NoRow /\ proc[p].snap.rootfs = path /\ proc[p].snap.tap = tap

\* The steps before the row of a new sandbox, whose id will be its disk path.
NewPCs == {"insert_row", "not_started", "clone_row"}

\* A disk path goes with one tap, for all who know it, ever since the sandbox was
\* created whose id it is; nobody knows the path of a sandbox without a row.
PathsOK ==
    /\ \A path \in Ids, t, u \in Taps : Knows(path, t) /\ Knows(path, u) => t = u
    /\ \A path \in Ids, t \in Taps : Knows(path, t) =>
          path < nextId /\ \A p \in Goroutines : proc[p].pc \in NewPCs => proc[p].id # path
    /\ \A p \in Goroutines : proc[p].pc \in NewPCs => proc[p].id < nextId
    /\ \A p, q \in Goroutines : p # q /\ proc[p].pc \in NewPCs /\ proc[q].pc \in NewPCs =>
          proc[p].id # proc[q].id

SnapInv == RegInv /\ FramesOK /\ HostTyped /\ RecoveryOK /\ PathsOK

-----------------------------------------------------------------------------
(* How one goroutine moves *)

\* It goes to another step, with its sandbox and its snapshot or without, and not
\* back to a step before its row.
Moved(p) ==
    \E x \in SnapFrame :
        /\ SnapLocal(x) /\ proc' = [proc EXCEPT ![p] = x]
        /\ x.snap \in {proc[p].snap, NoRow} /\ x.pc \notin NewPCs
        /\ x = Idle \/ x.id = proc[p].id
        /\ proc[p].pc \in ReconcilePCs => x.pc \in ReconcilePCs

\* A goroutine that is at rest.
LEMMA IdleFrame == Idle \in SnapFrame /\ SnapLocal(Idle) /\ Idle.pc = "idle" /\ Idle.snap = NoRow
<1>1. Idle.pc = "idle" /\ Idle.snap = NoRow /\ Idle.id = 0 BY DEF Idle
<1>2. Idle \in SnapFrame BY DEF Idle, SnapFrame, AllPCs, PCs, NoRow, NULL
<1> QED BY <1>1, <1>2 DEF SnapLocal, NoSandbox, NoCopy, HasSnapshot, Snapshotting

\* It returns.
LEMMA ReturnMoves == ASSUME FramesOK, NEW p \in Goroutines, Return(p) PROVE Moved(p)
BY IdleFrame DEF Return, Moved, NewPCs, ReconcilePCs

\* It goes on with its copy of the row and its snapshot.
LEMMA GoToMoves ==
    ASSUME FramesOK, NEW p \in Goroutines,
           NEW c \in AllPCs \ (NewPCs \cup {"idle", "add_port", "add_forward", "delete_port"}),
           c \notin NoSandbox => proc[p].pc \notin NoSandbox, c \notin NoCopy => proc[p].pc \notin NoCopy,
           c \in HasSnapshot => proc[p].pc \in HasSnapshot, c \in Snapshotting => proc[p].pc \in Snapshotting,
           GoTo(p, c), proc[p].pc \in ReconcilePCs => c \in ReconcilePCs
    PROVE  Moved(p)
<1> DEFINE x == [proc[p] EXCEPT !.pc = c]
<1>1. proc[p] \in SnapFrame /\ SnapLocal(proc[p]) BY DEF FramesOK
<1>2. /\ x \in SnapFrame /\ x.pc = c /\ x.id = proc[p].id /\ x.sb = proc[p].sb /\ x.snap = proc[p].snap
  BY <1>1 DEF SnapFrame
<1>3. proc' = [proc EXCEPT ![p] = x] BY DEF GoTo
<1> HIDE DEF x
<1>4. SnapLocal(x) BY <1>1, <1>2 DEF SnapLocal
<1> QED BY <1>2, <1>3, <1>4 DEF Moved

\* It rolls back.
LEMMA RollbackMoves ==
    ASSUME FramesOK, NEW p \in Goroutines, proc[p].pc \notin NoCopy, Rollback(p)
    PROVE  Moved(p)
<1> DEFINE x == [proc[p] EXCEPT !.pc = "delete_tap", !.ctx = "background"]
<1>1. proc[p] \in SnapFrame /\ SnapLocal(proc[p]) BY DEF FramesOK
<1>2. /\ x \in SnapFrame /\ x.pc = "delete_tap" /\ x.id = proc[p].id /\ x.sb = proc[p].sb
      /\ x.snap = proc[p].snap
  BY <1>1 DEF SnapFrame, AllPCs, PCs
<1>3. proc' = [proc EXCEPT ![p] = x] BY DEF Rollback
<1> HIDE DEF x
<1>4. SnapLocal(x)
  BY <1>1, <1>2 DEF SnapLocal, HasSnapshot, Snapshotting, NoCopy, NoSandbox, FanoutPCs
<1> QED BY <1>2, <1>3, <1>4 DEF Moved, NewPCs, ReconcilePCs

\* A row that is read.
LEMMA RowRead ==
    ASSUME NEW id, NEW table, table \subseteq Sandbox, \A r \in table : TogetherAddr(r),
           \E r \in table : r.id = id
    PROVE  RowOf(id, table) \in Sandbox /\ TogetherAddr(RowOf(id, table)) /\ RowOf(id, table).id = id
BY DEF RowOf

-----------------------------------------------------------------------------
(* Every step makes at most one of the registry's transactions. *)

\* A handler's step that is one of Lifecycle's.
LEMMA StepTransaction == ASSUME FramesOK, NEW p \in Goroutines, Step(p) PROVE [RegNext]_regVars
<1> DEFINE id == proc[p].id
<1>0. proc[p] \in SnapFrame /\ SnapLocal(proc[p]) BY DEF FramesOK
<1> USE DEF SnapLocal, NoSandbox, NoCopy, FanoutPCs
<1>1. CASE InsertRow(p)
  <2>1. CASE Create(id, id, proc[p].expires)
    <3>1. id \in Ids /\ proc[p].expires \in Deadlines \cup {NULL} BY <1>0, <1>1 DEF SnapFrame, InsertRow
    <3>2. Get(id) = {} BY <2>1 DEF Create, InsertSandbox, Get
    <3> QED BY <2>1, <3>1, <3>2 DEF RegNext, RegCreate
  <2> QED BY <1>1, <2>1 DEF InsertRow
<1>2. CASE RecordStart(p)
  <2>1. CASE FinishStart(proc[p].sb.id, proc[p].sb.id)
    <3>1. proc[p].sb.id \in Ids BY <1>0, <1>2 DEF RecordStart, Sandbox
    <3> QED BY <2>1, <3>1, CardinalityIds DEF RegNext, RegFinishStart
  <2> QED BY <1>2, <2>1 DEF RecordStart
<1>3. CASE DeleteRow(p)
  <2>1. id \in Ids BY <1>0, <1>3 DEF DeleteRow
  <2> QED BY <1>3, <2>1 DEF DeleteRow, RegNext, RegDestroy
<1>4. CASE AllocatePort(p)
  <2>1. id \in Ids /\ proc[p].guest \in GuestPorts BY <1>0, <1>4 DEF AllocatePort
  <2> QED BY <1>4, <2>1 DEF AllocatePort, RegNext, RegAddPort
<1>5. CASE UndoPort(p)
  <2>1. id \in Ids /\ proc[p].guest \in GuestPorts BY <1>0, <1>5 DEF UndoPort
  <2> QED BY <1>5, <2>1 DEF UndoPort, RegNext, RegDeletePort
<1>6. CASE \/ CreateTap(p) \/ StartVM(p) \/ AddPortForward(p)
           \/ StopForce(p) \/ StoreMachine(p) \/ WaitForAgent(p)
           \/ GetRow(p) \/ ReadPorts(p) \/ TakeMachine(p) \/ WaitVM(p)
           \/ RemoveForwards(p) \/ DeleteTap(p) \/ RemoveRootfs(p) \/ ForwardExtra(p)
  BY <1>6 DEF CreateTap, StartVM, AddPortForward, StopForce, StoreMachine, WaitForAgent, GetRow, ReadPorts,
      TakeMachine, WaitVM, RemoveForwards, DeleteTap, RemoveRootfs, ForwardExtra
<1> QED BY <1>1, <1>2, <1>3, <1>4, <1>5, <1>6 DEF Step

\* A row or snapshot that was read is one the registry may be given.
LEMMA ReadRow ==
    ASSUME NEW id \in Ids, NEW x, x.tap \in Taps, x.ip \in IPs, x.rootfs \in Ids, TogetherAddr(x)
    PROVE  \E y \in ReadRows : y.id = id /\ y.tap = x.tap /\ y.ip = x.ip /\ y.rootfs = x.rootfs
<1> DEFINE y == [id |-> id, tap |-> x.tap, ip |-> x.ip, rootfs |-> x.rootfs]
<1>1. y \in [id : Ids, tap : Taps, ip : IPs, rootfs : Ids] /\ TogetherAddr(y) BY DEF TogetherAddr
<1>2. y.id = id /\ y.tap = x.tap /\ y.ip = x.ip /\ y.rootfs = x.rootfs OBVIOUS
<1> QED BY <1>1, <1>2 DEF ReadRows

\* A handler's step of snapshot.go.
LEMMA SnapStepTransaction == ASSUME FramesOK, NEW p \in Goroutines, SnapStep(p) PROVE [RegNext]_regVars
<1> DEFINE id == proc[p].id
           s == proc[p].snap
           e == proc[p].expires
<1>0. proc[p] \in SnapFrame /\ SnapLocal(proc[p]) BY DEF FramesOK
<1>1. CASE RecordSnapshot(p)
  <2>1. CASE CreateSnapshot(s.id, proc[p].sb)
    <3>1. /\ s \in Snapshot /\ proc[p].sb \in Sandbox /\ TogetherAddr(proc[p].sb)
      BY <1>0, <1>1 DEF SnapLocal, NoCopy, NoSandbox, FanoutPCs, HasSnapshot, Snapshotting, RecordSnapshot
    <3>2. PICK y \in ReadRows : /\ y.id = proc[p].sb.id /\ y.tap = proc[p].sb.tap /\ y.ip = proc[p].sb.ip
                                /\ y.rootfs = proc[p].sb.rootfs
      BY <3>1, ReadRow DEF Sandbox
    <3>3. CreateSnapshot(s.id, y) BY <2>1, <3>2 DEF CreateSnapshot
    <3>4. s.id \in SnapIds BY <3>1 DEF Snapshot
    <3> QED BY <3>3, <3>4 DEF RegNext, RegCreateSnapshot
  <2> QED BY <1>1, <2>1 DEF RecordSnapshot
<1>2. CASE InsertRestore(p)
  <2>1. CASE CreateRestore(id, s.rootfs, s.tap, s.ip, e)
    <3>1. /\ s \in Snapshot /\ TogetherAddr(s) /\ id \in Ids /\ e \in Deadlines \cup {NULL}
      BY <1>0, <1>2 DEF SnapLocal, NoSandbox, FanoutPCs, HasSnapshot, InsertRestore, SnapFrame
    <3>2. PICK y \in ReadRows : y.tap = s.tap /\ y.ip = s.ip /\ y.rootfs = s.rootfs
      BY <3>1, ReadRow DEF Snapshot
    <3>3. CreateRestore(id, y.rootfs, y.tap, y.ip, e) BY <2>1, <3>2
    <3>4. Get(id) = {} BY <2>1 DEF CreateRestore, InsertSandbox, Get
    <3> QED BY <3>1, <3>3, <3>4 DEF RegNext, RegCreateRestore
  <2> QED BY <1>2, <2>1 DEF InsertRestore
<1>3. CASE CloneRow(p)
  <2>1. CASE Create(id, id, e)
    <3>1. id \in Ids /\ e \in Deadlines \cup {NULL}
      BY <1>0, <1>3 DEF SnapFrame, CloneRow, SnapLocal, NoSandbox, FanoutPCs
    <3>2. Get(id) = {} BY <2>1 DEF Create, InsertSandbox, Get
    <3> QED BY <2>1, <3>1, <3>2 DEF RegNext, RegCreate
  <2> QED BY <1>3, <2>1 DEF CloneRow
<1>4. CASE RecordClone(p)
  <2>1. id \in Ids BY <1>0, <1>4 DEF RecordClone, SnapLocal, NoSandbox, FanoutPCs
  <2> QED BY <1>4, <2>1, CardinalityIds DEF RecordClone, RegNext, RegFinishStart
<1>5. CASE \/ Pause(p) \/ WriteMemory(p) \/ FreezeRootfs(p) \/ Resume(p) \/ CleanupSnapshot(p)
           \/ CopyRootfs(p) \/ LoadSnapshot(p) \/ StatBaked(p) \/ StageBaked(p) \/ Unstage(p) \/ Settle(p)
           \/ FanoutDone(p) \/ CloneRootfs(p) \/ CreateTapUnbridged(p) \/ StartClone(p)
           \/ AttachTapToBridge(p) \/ ForwardClone(p) \/ StopClone(p)
  BY <1>5 DEF Pause, WriteMemory, FreezeRootfs, Resume, CleanupSnapshot, CopyRootfs, LoadSnapshot,
      StatBaked, StageBaked, Unstage, Settle, FanoutDone, CloneRootfs, CreateTapUnbridged, StartClone,
      AttachTapToBridge, ForwardClone, StopClone
<1> QED BY <1>1, <1>2, <1>3, <1>4, <1>5 DEF SnapStep

\* Every step of the host.
LEMMA SnapNextTransaction == SnapInv /\ [SnapNext]_allVars => [RegNext]_regVars
<1> SUFFICES ASSUME SnapInv, [SnapNext]_allVars PROVE [RegNext]_regVars OBVIOUS
<1> USE DEF SnapInv, HostTyped
<1>1. ASSUME NEW p \in Goroutines, Step(p) \/ SnapStep(p) PROVE [RegNext]_regVars
  BY <1>1, StepTransaction, SnapStepTransaction
<1>2. ASSUME NEW id \in Ids, NEW timeout \in Timeouts, SetTimeout(id, timeout) PROVE [RegNext]_regVars
  <2>1. Deadline(timeout) \in Deadlines \cup {NULL} BY DeadlineOK
  <2> QED BY <1>2, <2>1 DEF SetTimeout, RegNext, RegSetExpiry
<1>3. CASE Arrival BY <1>3 DEF Arrival, PrepareRootfs, DestroyArrives, ExposeArrives
<1>4. CASE ReaperTick \/ ReapNext BY <1>4 DEF ReaperTick, ReapNext
<1>5. CASE Serve BY <1>5 DEF Serve, Restart, ReconcileNext, Listen, ShutdownAll, Exit
<1>6. CASE Environment BY <1>6 DEF Environment, Disconnect, VMExit, Stop, Crash, Reboot, Tick
<1>7. ASSUME NEW p \in Requests, NEW s \in snapshots, DeleteSnapshotRow(p, s) PROVE [RegNext]_regVars
  <2>1. s.id \in SnapIds BY DEF RegInv, RegTypeOK, Snapshot
  <2> QED BY <1>7, <2>1 DEF DeleteSnapshotRow, RegNext, RegDeleteSnapshot
<1>8. CASE SnapArrival BY <1>7, <1>8 DEF SnapArrival, SnapshotArrives, RestoreArrives, FanoutArrives
<1>9. CASE GuestStep BY <1>9 DEF GuestStep, Thaw, GuestWrites
<1>10. CASE UNCHANGED allVars BY <1>10 DEF allVars, vars
<1> QED BY <1>1, <1>2, <1>3, <1>4, <1>5, <1>6, <1>8, <1>9, <1>10 DEF SnapNext, Next
-----------------------------------------------------------------------------
(* Every handler's step moves one goroutine. *)

\* A goroutine that has a sandbox begins to destroy it.
LEMMA BeginDestroyMoves ==
    ASSUME FramesOK, NEW p \in Goroutines, proc[p].pc \notin NoSandbox \cup ReconcilePCs,
           proc' = [proc EXCEPT ![p] = [Idle EXCEPT !.pc = "get_row", !.id = proc[p].id, !.by = proc[p].by]]
    PROVE  Moved(p)
<1> DEFINE x == [Idle EXCEPT !.pc = "get_row", !.id = proc[p].id, !.by = proc[p].by]
<1>1. proc[p] \in SnapFrame /\ SnapLocal(proc[p]) BY DEF FramesOK
<1>2. proc[p].id \in Ids /\ proc[p].by \in Requests \cup {0} BY <1>1 DEF SnapLocal, SnapFrame
<1>3. x.pc = "get_row" /\ x.id = proc[p].id /\ x.snap = NoRow BY DEF Idle
<1>4. x \in SnapFrame BY <1>2 DEF Idle, SnapFrame, AllPCs, PCs, NoRow, NULL
<1>5. proc' = [proc EXCEPT ![p] = x] OBVIOUS
<1> HIDE DEF x
<1>6. SnapLocal(x) BY <1>2, <1>3 DEF SnapLocal, NoSandbox, NoCopy, FanoutPCs, HasSnapshot, Snapshotting
<1> QED BY <1>3, <1>4, <1>5, <1>6 DEF Moved, NewPCs

\* A goroutine reads the row of its sandbox.
LEMMA ReadRowMoves ==
    ASSUME FramesOK, NEW p \in Goroutines, NEW table, table \subseteq Sandbox,
           \A r \in table : TogetherAddr(r), \E r \in table : r.id = proc[p].id,
           proc[p].pc \notin NoSandbox \cup ReconcilePCs,
           NEW c \in {"create_tap", "read_ports", "copy_rootfs", "clone_rootfs"},
           c \in HasSnapshot => proc[p].pc \in HasSnapshot,
           proc' = [proc EXCEPT ![p].pc = c, ![p].sb = RowOf(proc[p].id, table)]
    PROVE  Moved(p)
<1>0. PICK sb : sb = RowOf(proc[p].id, table) OBVIOUS
<1> DEFINE x == [proc[p] EXCEPT !.pc = c, !.sb = sb]
<1>1. proc[p] \in SnapFrame /\ SnapLocal(proc[p]) BY DEF FramesOK
<1>2. sb \in Sandbox /\ TogetherAddr(sb) BY <1>0, RowRead
<1>3. c \in AllPCs BY DEF AllPCs, PCs, SnapPCs, RestorePCs
<1>4. /\ x \in SnapFrame /\ x.pc = c /\ x.id = proc[p].id /\ x.sb = sb /\ x.snap = proc[p].snap
  BY <1>1, <1>2, <1>3 DEF SnapFrame
<1>5. proc' = [proc EXCEPT ![p] = x] BY <1>0
<1> HIDE DEF x
<1>6. SnapLocal(x) BY <1>1, <1>2, <1>4 DEF SnapLocal, NoCopy, NoSandbox, FanoutPCs, Snapshotting
<1> QED BY <1>4, <1>5, <1>6 DEF Moved, NewPCs

\* The rows of a table that keeps the registry's invariant.
LEMMA RowsGood ==
    /\ RegInv => sandboxes \subseteq Sandbox /\ \A r \in sandboxes : TogetherAddr(r)
    /\ RegInv' => sandboxes' \subseteq Sandbox /\ \A r \in sandboxes' : TogetherAddr(r)
BY DEF RegInv, RegTypeOK, Paired, TogetherAddr

\* A handler's step that is one of Lifecycle's.
LEMMA HandlerMoves == ASSUME FramesOK, RegInv, RegInv', NEW p \in Goroutines, Step(p) PROVE Moved(p)
<1>0. proc[p] \in SnapFrame /\ SnapLocal(proc[p]) BY DEF FramesOK
<1> USE DEF NoCopy, NoSandbox, FanoutPCs, HasSnapshot, Snapshotting, NewPCs, ReconcilePCs
<1>a. {"create_tap", "start_vm", "forward", "finish_start", "stop_force", "store", "wait_agent", "wait_vm",
       "remove_forwards", "delete_tap", "remove_rootfs", "delete_row", "take_machine"} \subseteq AllPCs
  BY DEF AllPCs, PCs
<1>1. CASE InsertRow(p)
  <2>1. CASE Return(p) BY <2>1, ReturnMoves
  <2>2. CASE /\ Create(proc[p].id, proc[p].id, proc[p].expires)
             /\ proc' = [proc EXCEPT ![p].pc = "create_tap", ![p].sb = RowOf(proc[p].id, sandboxes')]
    <3>1. PICK table : table = sandboxes' OBVIOUS
    <3>2. \E r \in table : r.id = proc[p].id BY <2>2, <3>1, CreateInserts
    <3> QED BY <1>1, <2>2, <3>1, <3>2, RowsGood, ReadRowMoves DEF InsertRow
  <2> QED BY <1>1, <2>1, <2>2 DEF InsertRow
<1>2. CASE CreateTap(p)
  <2>1. proc[p].pc = "create_tap" /\ (GoTo(p, "start_vm") \/ Rollback(p)) BY <1>2 DEF CreateTap
  <2> QED BY <1>a, <2>1, GoToMoves, RollbackMoves
<1>3. CASE StartVM(p)
  <2>1. proc[p].pc = "start_vm" /\ (GoTo(p, "forward") \/ Rollback(p)) BY <1>3 DEF StartVM
  <2> QED BY <1>a, <2>1, GoToMoves, RollbackMoves
<1>4. CASE AddPortForward(p)
  <2>1. proc[p].pc = "forward" /\ (GoTo(p, "finish_start") \/ GoTo(p, "stop_force"))
    BY <1>4 DEF AddPortForward, AddPortForwardTo
  <2> QED BY <1>a, <2>1, GoToMoves
<1>5. CASE RecordStart(p)
  <2>1. proc[p].pc = "finish_start" /\ (GoTo(p, "store") \/ GoTo(p, "stop_force")) BY <1>5 DEF RecordStart
  <2> QED BY <1>a, <2>1, GoToMoves
<1>6. CASE StopForce(p) BY <1>6, RollbackMoves DEF StopForce
<1>7. CASE StoreMachine(p)
  <2>1. proc[p].pc = "store" /\ GoTo(p, "wait_agent") BY <1>7 DEF StoreMachine
  <2> QED BY <1>a, <2>1, GoToMoves
<1>8. CASE WaitForAgent(p)
  <2>1. CASE Return(p) BY <2>1, ReturnMoves
  <2>2. CASE proc' = [proc EXCEPT ![p] = [Idle EXCEPT !.pc = "get_row", !.id = proc[p].id, !.by = proc[p].by]]
    BY <1>8, <2>2, BeginDestroyMoves DEF WaitForAgent
  <2> QED BY <1>8, <2>1, <2>2 DEF WaitForAgent
<1>9. CASE GetRow(p)
  <2>1. CASE Return(p) BY <2>1, ReturnMoves
  <2>2. CASE /\ Get(proc[p].id) # {}
             /\ proc' = [proc EXCEPT ![p].pc = "read_ports", ![p].sb = RowOf(proc[p].id, sandboxes)]
    <3>1. \E r \in sandboxes : r.id = proc[p].id BY <2>2 DEF Get
    <3> QED BY <1>9, <2>2, <3>1, RowsGood, ReadRowMoves DEF GetRow
  <2> QED BY <1>9, <2>1, <2>2 DEF GetRow
<1>10. CASE ReadPorts(p)
  <2>1. PICK extra : /\ extra = IF Cancelled(p) THEN {} ELSE Ports(proc[p].id)
                     /\ proc' = [proc EXCEPT ![p].pc = "take_machine", ![p].extra = extra]
    BY <1>10 DEF ReadPorts
  <2> DEFINE x == [proc[p] EXCEPT !.pc = "take_machine", !.extra = extra]
  <2>2. extra \in SUBSET PortRow BY <2>1 DEF Ports, RegInv, RegTypeOK
  <2>3. /\ x \in SnapFrame /\ x.pc = "take_machine" /\ x.id = proc[p].id /\ x.sb = proc[p].sb
        /\ x.snap = proc[p].snap
    BY <1>0, <1>a, <2>2 DEF SnapFrame
  <2>4. proc' = [proc EXCEPT ![p] = x] /\ proc[p].pc = "read_ports" BY <1>10, <2>1 DEF ReadPorts
  <2> HIDE DEF x
  <2>5. SnapLocal(x) BY <1>0, <2>3, <2>4 DEF SnapLocal
  <2> QED BY <2>3, <2>4, <2>5 DEF Moved
<1>11. CASE TakeMachine(p)
  <2>1. proc[p].pc = "take_machine" /\ (GoTo(p, "wait_vm") \/ GoTo(p, "remove_forwards")) BY <1>11 DEF TakeMachine
  <2> QED BY <1>a, <2>1, GoToMoves
<1>12. CASE WaitVM(p)
  <2>1. proc[p].pc = "wait_vm" /\ GoTo(p, "remove_forwards") BY <1>12 DEF WaitVM
  <2> QED BY <1>a, <2>1, GoToMoves
<1>13. CASE RemoveForwards(p)
  <2>1. proc[p].pc = "remove_forwards" /\ GoTo(p, "delete_tap") BY <1>13 DEF RemoveForwards
  <2> QED BY <1>a, <2>1, GoToMoves
<1>14. CASE DeleteTap(p)
  <2>1. proc[p].pc = "delete_tap" /\ GoTo(p, "remove_rootfs") BY <1>14 DEF DeleteTap
  <2> QED BY <1>a, <2>1, GoToMoves
<1>15. CASE RemoveRootfs(p)
  <2>1. proc[p].pc = "remove_rootfs" /\ GoTo(p, "delete_row") BY <1>15 DEF RemoveRootfs
  <2> QED BY <1>a, <2>1, GoToMoves
<1>16. CASE DeleteRow(p) BY <1>16, ReturnMoves DEF DeleteRow
<1>17. CASE AllocatePort(p)
  <2>1. CASE Return(p) BY <2>1, ReturnMoves
  <2>2. ASSUME NEW host \in HostPorts, proc' = [proc EXCEPT ![p].pc = "add_forward", ![p].host = host]
        PROVE  Moved(p)
    <3> DEFINE x == [proc[p] EXCEPT !.pc = "add_forward", !.host = host]
    <3>1. /\ x \in SnapFrame /\ x.pc = "add_forward" /\ x.id = proc[p].id /\ x.sb = proc[p].sb
          /\ x.snap = proc[p].snap /\ x.host = host /\ x.guest = proc[p].guest
      BY <1>0 DEF SnapFrame, AllPCs, PCs
    <3>2. proc' = [proc EXCEPT ![p] = x] /\ proc[p].pc = "add_port" BY <1>17, <2>2 DEF AllocatePort
    <3> HIDE DEF x
    <3>3. SnapLocal(x) BY <1>0, <3>1, <3>2 DEF SnapLocal
    <3> QED BY <3>1, <3>2, <3>3 DEF Moved
  <2>3. ASSUME NEW table, table \subseteq PortRow,
               \E m \in table : m.id = proc[p].id /\ m.guest = proc[p].guest,
               proc' = [proc EXCEPT ![p].pc = "add_forward",
                   ![p].host = (CHOOSE m \in table : m.id = proc[p].id /\ m.guest = proc[p].guest).host]
        PROVE  Moved(p)
    <3>1. PICK host : host = (CHOOSE m \in table : m.id = proc[p].id /\ m.guest = proc[p].guest).host OBVIOUS
    <3>2. host \in HostPorts BY <2>3, <3>1 DEF PortRow
    <3> QED BY <2>2, <2>3, <3>1, <3>2
  <2>4. CASE /\ AddPort(proc[p].id, proc[p].guest)
             /\ proc' = [proc EXCEPT ![p].pc = "add_forward",
                   ![p].host = (CHOOSE m \in sandbox_ports' : m.id = proc[p].id /\ m.guest = proc[p].guest).host]
    <3>1. PICK table : table = sandbox_ports' OBVIOUS
    <3>2. table \subseteq PortRow BY <3>1 DEF RegInv, RegTypeOK
    <3>3. \E m \in table : m.id = proc[p].id /\ m.guest = proc[p].guest BY <2>4, <3>1, AddPortInserts
    <3> QED BY <2>3, <2>4, <3>1, <3>2, <3>3
  <2>5. CASE /\ \E m \in Ports(proc[p].id) : m.guest = proc[p].guest
             /\ proc' = [proc EXCEPT ![p].pc = "add_forward",
                   ![p].host = (CHOOSE m \in sandbox_ports : m.id = proc[p].id /\ m.guest = proc[p].guest).host]
    <3>1. sandbox_ports \subseteq PortRow BY DEF RegInv, RegTypeOK
    <3>2. \E m \in sandbox_ports : m.id = proc[p].id /\ m.guest = proc[p].guest BY <2>5 DEF Ports
    <3> QED BY <2>3, <2>5, <3>1, <3>2
  <2> QED BY <1>17, <2>1, <2>4, <2>5 DEF AllocatePort
<1>18. CASE ForwardExtra(p)
  <2>1. CASE Return(p) BY <2>1, ReturnMoves
  <2>2. CASE GoTo(p, "delete_port")
    <3> DEFINE x == [proc[p] EXCEPT !.pc = "delete_port"]
    <3>1. /\ x \in SnapFrame /\ x.pc = "delete_port" /\ x.id = proc[p].id /\ x.sb = proc[p].sb
          /\ x.snap = proc[p].snap /\ x.host = proc[p].host /\ x.guest = proc[p].guest
      BY <1>0 DEF SnapFrame, AllPCs, PCs
    <3>2. proc' = [proc EXCEPT ![p] = x] /\ proc[p].pc = "add_forward" BY <1>18, <2>2 DEF ForwardExtra, GoTo
    <3> HIDE DEF x
    <3>3. SnapLocal(x) BY <1>0, <3>1, <3>2 DEF SnapLocal
    <3> QED BY <3>1, <3>2, <3>3 DEF Moved
  <2> QED BY <1>18, <2>1, <2>2 DEF ForwardExtra, AddPortForwardTo
<1>19. CASE UndoPort(p) BY <1>19, ReturnMoves DEF UndoPort
<1> QED BY <1>1, <1>2, <1>3, <1>4, <1>5, <1>6, <1>7, <1>8, <1>9, <1>10, <1>11, <1>12, <1>13, <1>14, <1>15,
           <1>16, <1>17, <1>18, <1>19 DEF Step

\* CreateRestore writes the row the handler then reads.
LEMMA RestoreInserts ==
    ASSUME NEW id, NEW rootfs, NEW tap, NEW ip, NEW e, CreateRestore(id, rootfs, tap, ip, e)
    PROVE  \E r \in sandboxes' : r.id = id
<1> DEFINE row(p) == [id |-> id, pid |-> NoPid, tap |-> tap, ip |-> ip,
                      port |-> p, rootfs |-> rootfs, expires |-> e]
<1>1. PICK p \in HostPorts : InsertSandbox(row(p)) BY DEF CreateRestore
<1>2. row(p) \in sandboxes' BY <1>1 DEF InsertSandbox
<1>3. row(p).id = id OBVIOUS
<1> QED BY <1>2, <1>3

\* A handler's step of snapshot.go, without those of a fan-out that move its clones.
LEMMA SnapHandlerMoves ==
    ASSUME FramesOK, RegInv, RegInv', NEW p \in Goroutines,
           \/ Pause(p) \/ WriteMemory(p) \/ FreezeRootfs(p) \/ Resume(p) \/ RecordSnapshot(p)
           \/ CleanupSnapshot(p) \/ InsertRestore(p) \/ CopyRootfs(p) \/ LoadSnapshot(p)
           \/ Unstage(p) \/ FanoutDone(p)
           \/ CloneRow(p) \/ CloneRootfs(p) \/ CreateTapUnbridged(p) \/ StartClone(p)
           \/ AttachTapToBridge(p) \/ ForwardClone(p) \/ RecordClone(p) \/ StopClone(p)
    PROVE  Moved(p)
<1>0. proc[p] \in SnapFrame /\ SnapLocal(proc[p]) BY DEF FramesOK
<1> USE DEF NoCopy, NoSandbox, FanoutPCs, HasSnapshot, Snapshotting, NewPCs, ReconcilePCs
<1>a. {"write_memory", "freeze_rootfs", "resume", "resume_failed", "record_snapshot", "create_tap", "forward",
       "create_tap_unbridged", "start_clone", "loaded", "forward_clone", "stop_clone", "record_clone",
       "store", "settle"} \subseteq AllPCs
  BY DEF AllPCs, PCs, SnapPCs
<1>1. CASE Pause(p)
  <2>1. proc[p].pc = "pause" /\ (GoTo(p, "write_memory") \/ Return(p)) BY <1>1 DEF Pause
  <2> QED BY <1>a, <2>1, GoToMoves, ReturnMoves
<1>2. CASE WriteMemory(p)
  <2>1. proc[p].pc = "write_memory" /\ (GoTo(p, "freeze_rootfs") \/ GoTo(p, "resume_failed"))
    BY <1>2 DEF WriteMemory
  <2> QED BY <1>a, <2>1, GoToMoves
<1>3. CASE FreezeRootfs(p)
  <2>1. proc[p].pc = "freeze_rootfs" /\ (GoTo(p, "resume") \/ GoTo(p, "resume_failed")) BY <1>3 DEF FreezeRootfs
  <2> QED BY <1>a, <2>1, GoToMoves
<1>4. CASE Resume(p)
  <2>1. (proc[p].pc = "resume" /\ GoTo(p, "record_snapshot")) \/ Return(p) BY <1>4 DEF Resume
  <2> QED BY <1>a, <2>1, GoToMoves, ReturnMoves
<1>5. CASE RecordSnapshot(p) \/ CleanupSnapshot(p) \/ FanoutDone(p)
  BY <1>5, ReturnMoves DEF RecordSnapshot, CleanupSnapshot, FanoutDone
<1>6. CASE InsertRestore(p)
  <2> DEFINE s == proc[p].snap
  <2>1. CASE Return(p) BY <2>1, ReturnMoves
  <2>2. CASE /\ CreateRestore(proc[p].id, s.rootfs, s.tap, s.ip, proc[p].expires)
             /\ proc' = [proc EXCEPT ![p].pc = "copy_rootfs", ![p].sb = RowOf(proc[p].id, sandboxes')]
    <3>1. PICK table : table = sandboxes' OBVIOUS
    <3>2. \E r \in table : r.id = proc[p].id BY <2>2, <3>1, RestoreInserts
    <3> QED BY <1>6, <2>2, <3>1, <3>2, RowsGood, ReadRowMoves DEF InsertRestore
  <2> QED BY <1>6, <2>1, <2>2 DEF InsertRestore
<1>7. CASE CopyRootfs(p)
  <2>1. proc[p].pc = "copy_rootfs" /\ (GoTo(p, "create_tap") \/ Rollback(p)) BY <1>7 DEF CopyRootfs
  <2> QED BY <1>a, <2>1, GoToMoves, RollbackMoves
<1>8. CASE LoadSnapshot(p)
  <2>1. proc[p].pc = "start_vm" /\ (GoTo(p, "forward") \/ Rollback(p)) BY <1>8 DEF LoadSnapshot
  <2> QED BY <1>a, <2>1, GoToMoves, RollbackMoves
<1>9. CASE Unstage(p)
  <2> DEFINE x == [proc[p] EXCEPT !.pc = "settle", !.staged = FALSE]
  <2>1. x \in SnapFrame /\ x.pc = "settle" /\ x.id = proc[p].id /\ x.snap = proc[p].snap
    BY <1>0, <1>a DEF SnapFrame
  <2>2. proc' = [proc EXCEPT ![p] = x] /\ proc[p].pc = "bring_up" BY <1>9 DEF Unstage
  <2> HIDE DEF x
  <2>3. SnapLocal(x) BY <1>0, <2>1, <2>2 DEF SnapLocal
  <2> QED BY <2>1, <2>2, <2>3 DEF Moved
<1>10. CASE CloneRow(p)
  <2>1. CASE Return(p) BY <2>1, ReturnMoves
  <2>2. CASE /\ Create(proc[p].id, proc[p].id, proc[p].expires)
             /\ proc' = [proc EXCEPT ![p].pc = "clone_rootfs", ![p].sb = RowOf(proc[p].id, sandboxes')]
    <3>1. PICK table : table = sandboxes' OBVIOUS
    <3>2. \E r \in table : r.id = proc[p].id BY <2>2, <3>1, CreateInserts
    <3> QED BY <1>10, <2>2, <3>1, <3>2, RowsGood, ReadRowMoves DEF CloneRow
  <2> QED BY <1>10, <2>1, <2>2 DEF CloneRow
<1>11. CASE CloneRootfs(p)
  <2>1. proc[p].pc = "clone_rootfs" /\ (GoTo(p, "create_tap_unbridged") \/ Rollback(p)) BY <1>11 DEF CloneRootfs
  <2> QED BY <1>a, <2>1, GoToMoves, RollbackMoves
<1>12. CASE CreateTapUnbridged(p)
  <2>1. proc[p].pc = "create_tap_unbridged" /\ (GoTo(p, "start_clone") \/ Rollback(p))
    BY <1>12 DEF CreateTapUnbridged
  <2> QED BY <1>a, <2>1, GoToMoves, RollbackMoves
<1>13. CASE StartClone(p)
  <2>1. proc[p].pc = "start_clone" /\ (GoTo(p, "loaded") \/ Rollback(p)) BY <1>13 DEF StartClone
  <2> QED BY <1>a, <2>1, GoToMoves, RollbackMoves
<1>14. CASE AttachTapToBridge(p)
  <2>1. proc[p].pc = "bridge" /\ (GoTo(p, "forward_clone") \/ GoTo(p, "stop_clone")) BY <1>14 DEF AttachTapToBridge
  <2> QED BY <1>a, <2>1, GoToMoves
<1>15. CASE ForwardClone(p)
  <2>1. proc[p].pc = "forward_clone" /\ (GoTo(p, "record_clone") \/ GoTo(p, "stop_clone"))
    BY <1>15 DEF ForwardClone, AddPortForwardTo
  <2> QED BY <1>a, <2>1, GoToMoves
<1>16. CASE RecordClone(p)
  <2>1. proc[p].pc = "record_clone" /\ (GoTo(p, "store") \/ GoTo(p, "stop_clone")) BY <1>16 DEF RecordClone
  <2> QED BY <1>a, <2>1, GoToMoves
<1>17. CASE StopClone(p) BY <1>17, BeginDestroyMoves DEF StopClone
<1> QED BY <1>1, <1>2, <1>3, <1>4, <1>5, <1>6, <1>7, <1>8, <1>9, <1>10, <1>11, <1>12, <1>13, <1>14, <1>15,
           <1>16, <1>17

-----------------------------------------------------------------------------
(* What every step leaves in the goroutines' local variables *)

\* Goroutine q goes on with x: it learns no path that nobody knew, and is before the
\* row of a new sandbox only if it was.
Shift(q, x) ==
    /\ x \in SnapFrame /\ SnapLocal(x)
    /\ x.snap # NoRow => Knows(x.snap.rootfs, x.snap.tap)
    /\ x.pc \in NewPCs => proc[q].pc \in NewPCs /\ x.id = proc[q].id

\* The ids between the old and the new nextId go to one goroutine each.
Fresh(id) == nextId <= id /\ id < nextId'
Begin(q, x) ==
    /\ x \in SnapFrame /\ SnapLocal(x)
    /\ x.snap # NoRow => Knows(x.snap.rootfs, x.snap.tap)
    /\ x.pc \in NewPCs /\ Fresh(x.id)

Shifted ==
    /\ proc' \in [Goroutines -> SnapFrame]
    /\ nextId <= nextId'
    /\ \A q \in Goroutines : \E x : proc'[q] = x /\ (Shift(q, x) \/ Begin(q, x))
    /\ \A q, r \in Goroutines : \A x, y :
          q # r /\ proc'[q] = x /\ proc'[r] = y /\ Begin(q, x) /\ Begin(r, y) => x.id # y.id

\* A goroutine that stays as it is, or returns.
LEMMA StayShifts == ASSUME FramesOK, NEW q \in Goroutines PROVE Shift(q, proc[q]) /\ Shift(q, Idle)
<1>1. Shift(q, proc[q]) BY DEF FramesOK, Shift, Knows
<1>2. Shift(q, Idle) BY IdleFrame DEF Shift, NewPCs
<1> QED BY <1>1, <1>2

\* A step that gives out no id.
LEMMA QuietShifts ==
    ASSUME EnvOK, UNCHANGED nextId, proc' \in [Goroutines -> SnapFrame],
           \A q \in Goroutines : \E x : proc'[q] = x /\ Shift(q, x)
    PROVE  Shifted
<1>1. nextId \in Int /\ \A id \in Int : ~Fresh(id) BY CardinalityIds DEF EnvOK, Fresh
<1>2. \A q \in Goroutines : \A x : ~Begin(q, x) BY <1>1, CardinalityIds DEF Begin, SnapFrame
<1> QED BY <1>1, <1>2 DEF Shifted

\* One goroutine moves.
LEMMA OneShifts ==
    ASSUME FramesOK, EnvOK, UNCHANGED nextId, NEW p \in Goroutines, NEW x, Shift(p, x),
           proc' = [proc EXCEPT ![p] = x]
    PROVE  Shifted
<1>1. x \in SnapFrame /\ proc \in [Goroutines -> SnapFrame] BY DEF Shift, FramesOK
<1>2. proc' \in [Goroutines -> SnapFrame] BY <1>1
<1>3. proc'[p] = x /\ \A q \in Goroutines \ {p} : proc'[q] = proc[q] BY <1>1
<1>4. \A q \in Goroutines : \E y : proc'[q] = y /\ Shift(q, y) BY <1>3, StayShifts
<1> QED BY <1>2, <1>4, QuietShifts

\* A handler's step that moves one goroutine.
LEMMA MovedShifts ==
    ASSUME FramesOK, EnvOK, UNCHANGED nextId, NEW p \in Goroutines, Moved(p) PROVE Shifted
<1>1. PICK x \in SnapFrame : /\ SnapLocal(x) /\ proc' = [proc EXCEPT ![p] = x]
                             /\ x.snap \in {proc[p].snap, NoRow} /\ x.pc \notin NewPCs
  BY DEF Moved
<1>2. Shift(p, x) BY <1>1 DEF Shift, Knows
<1> QED BY <1>1, <1>2, OneShifts

\* Nobody moves.
LEMMA SameShifts == ASSUME FramesOK, EnvOK, UNCHANGED <<proc, nextId>> PROVE Shifted
BY StayShifts, QuietShifts DEF FramesOK

\* What the steps leave is well formed.
LEMMA ShiftedFrames == ASSUME Shifted PROVE FramesOK'
<1>1. proc' \in [Goroutines -> SnapFrame] BY DEF Shifted
<1>2. ASSUME NEW q \in Goroutines PROVE SnapLocal(proc[q])'
  <2>1. PICK x : proc'[q] = x /\ SnapLocal(x) BY DEF Shifted, Shift, Begin
  <2> QED BY <2>1 DEF SnapLocal
<1> QED BY <1>1, <1>2 DEF FramesOK

-----------------------------------------------------------------------------
(* Requests *)

\* A goroutine that stays as it is has no fresh id.
LEMMA OldNotBegun == ASSUME SnapInv PROVE \A q \in Goroutines : ~Begin(q, proc[q])
<1>1. \A q \in Goroutines : proc[q].id \in Int BY CardinalityIds DEF SnapInv, FramesOK, SnapFrame
<1>2. nextId \in Int BY CardinalityIds DEF SnapInv, HostTyped, EnvOK
<1> QED BY <1>1, <1>2 DEF SnapInv, PathsOK, Begin, Fresh

\* A request's goroutine starts.
LEMMA ArrivalShifts == ASSUME SnapInv, Arrival \/ SnapArrival PROVE Shifted
<1> USE DEF SnapInv, HostTyped
<1>0. Requests \subseteq Goroutines BY DEF Goroutines
<1> USE DEF NoCopy, NoSandbox, FanoutPCs, HasSnapshot, Snapshotting, NewPCs
<1>1. ASSUME NEW p \in Requests, NEW timeout \in Timeouts, PrepareRootfs(p, timeout) PROVE Shifted
  <2>1. nextId \in Ids /\ nextId' = nextId + 1 /\ nextId \in Int /\ Fresh(nextId)
    BY <1>1, CardinalityIds DEF PrepareRootfs, EnvOK, Fresh
  <2>2. PICK e \in Deadlines \cup {NULL} : e = Deadline(timeout) BY DeadlineOK
  <2> DEFINE x == [Idle EXCEPT !.pc = "insert_row", !.id = nextId, !.expires = e, !.ctx = "request"]
  <2>3. x \in SnapFrame BY <2>1, <2>2 DEF Idle, SnapFrame, AllPCs, PCs, NoRow
  <2>4. x.pc = "insert_row" /\ x.id = nextId /\ x.snap = NoRow BY DEF Idle
  <2>5. proc' = [proc EXCEPT ![p] = x] \/ proc' = proc BY <1>1, <2>2 DEF PrepareRootfs
  <2> HIDE DEF x
  <2>6. SnapLocal(x) BY <2>1, <2>4 DEF SnapLocal
  <2>7. Begin(p, x) BY <2>1, <2>3, <2>4, <2>6 DEF Begin
  <2>8. \A q \in Goroutines : ~Begin(q, proc[q]) BY OldNotBegun
  <2>9. CASE proc' = [proc EXCEPT ![p] = x]
    <3>1. proc' \in [Goroutines -> SnapFrame] BY <2>3, <2>9 DEF FramesOK
    <3>2. proc'[p] = x /\ \A q \in Goroutines \ {p} : proc'[q] = proc[q] BY <1>0, <2>9 DEF FramesOK
    <3> QED BY <2>1, <2>7, <2>8, <3>1, <3>2, StayShifts DEF Shifted
  <2>10. CASE proc' = proc BY <2>1, <2>8, <2>10, StayShifts DEF Shifted, FramesOK
  <2> QED BY <2>5, <2>9, <2>10
<1>2. ASSUME NEW p \in Requests, NEW id \in Ids, DestroyArrives(p, id) PROVE Shifted
  <2> DEFINE x == [Idle EXCEPT !.pc = "get_row", !.id = id, !.ctx = "request"]
  <2>1. x \in SnapFrame BY DEF Idle, SnapFrame, AllPCs, PCs, NoRow, NULL
  <2>2. x.pc = "get_row" /\ x.id = id /\ x.snap = NoRow BY DEF Idle
  <2>3. proc' = [proc EXCEPT ![p] = x] /\ nextId' = nextId BY <1>2 DEF DestroyArrives, envVars
  <2> HIDE DEF x
  <2>4. Shift(p, x) BY <2>1, <2>2 DEF Shift, SnapLocal
  <2> QED BY <1>0, <2>3, <2>4, OneShifts
<1>3. ASSUME NEW p \in Requests, NEW id \in Ids, NEW guest \in GuestPorts, ExposeArrives(p, id, guest) PROVE Shifted
  <2>1. PICK sb : sb = RowOf(id, sandboxes) OBVIOUS
  <2>2. sb \in Sandbox /\ TogetherAddr(sb) BY <1>3, <2>1, RowsGood, RowRead DEF ExposeArrives, Addressable, Get
  <2> DEFINE x == [Idle EXCEPT !.pc = "add_port", !.id = id, !.sb = sb, !.guest = guest, !.ctx = "request"]
  <2>3. x \in SnapFrame BY <2>2 DEF Idle, SnapFrame, AllPCs, PCs, NoRow, NULL
  <2>4. x.pc = "add_port" /\ x.id = id /\ x.sb = sb /\ x.snap = NoRow /\ x.guest = guest BY DEF Idle
  <2>5. proc' = [proc EXCEPT ![p] = x] /\ nextId' = nextId BY <1>3, <2>1 DEF ExposeArrives, envVars
  <2> HIDE DEF x
  <2>6. Shift(p, x) BY <2>2, <2>3, <2>4 DEF Shift, SnapLocal
  <2> QED BY <1>0, <2>5, <2>6, OneShifts
<1>4. ASSUME NEW p \in Requests, NEW id \in Ids, NEW sid \in SnapIds, SnapshotArrives(p, id, sid) PROVE Shifted
  <2>1. PICK sb : sb = RowOf(id, sandboxes) OBVIOUS
  <2>2. \E r \in sandboxes : r.id = id BY <1>4 DEF SnapshotArrives, Addressable, Get
  <2>3. sb \in Sandbox /\ TogetherAddr(sb) /\ sb \in sandboxes
    BY <2>1, <2>2, RowsGood, RowRead DEF RowOf
  <2>4. PICK s : s = [id |-> sid, source |-> id, tap |-> sb.tap, ip |-> sb.ip, rootfs |-> sb.rootfs] OBVIOUS
  <2>5. s \in Snapshot BY <2>3, <2>4 DEF Snapshot, Sandbox
  <2>6. s.tap = sb.tap /\ s.rootfs = sb.rootfs /\ s.ip = sb.ip BY <2>4
  <2>7. s # NoRow BY <2>4, <2>5, CardinalityIds DEF NoRow, Snapshot
  <2>8. Knows(s.rootfs, s.tap) /\ TogetherAddr(s) BY <2>3, <2>6 DEF Knows, TogetherAddr
  <2> DEFINE x == [Idle EXCEPT !.pc = "pause", !.id = id, !.sb = sb, !.ctx = "request", !.snap = s]
  <2>9. x \in SnapFrame BY <2>3, <2>5 DEF Idle, SnapFrame, AllPCs, SnapPCs, NoRow, NULL
  <2>10. x.pc = "pause" /\ x.id = id /\ x.sb = sb /\ x.snap = s BY DEF Idle
  <2>11. proc' = [proc EXCEPT ![p] = x] /\ nextId' = nextId BY <1>4, <2>1, <2>4 DEF SnapshotArrives, envVars
  <2> HIDE DEF x
  <2>12. SnapLocal(x) BY <2>3, <2>5, <2>6, <2>7, <2>8, <2>10 DEF SnapLocal
  <2>13. Shift(p, x) BY <2>8, <2>9, <2>10, <2>12 DEF Shift
  <2> QED BY <1>0, <2>11, <2>13, OneShifts
<1>5. ASSUME NEW s \in snapshots
      PROVE  s \in Snapshot /\ TogetherAddr(s) /\ s # NoRow /\ Knows(s.rootfs, s.tap)
  <2>1. s \in Snapshot /\ TogetherAddr(s) BY DEF RegInv, RegTypeOK, Paired
  <2>2. s # NoRow
    <3>1. s.rootfs \in Ids /\ DOMAIN s = {"id", "source", "tap", "ip", "rootfs"} BY <2>1 DEF Snapshot
    <3>2. DOMAIN NoRow = {"id"} BY DEF NoRow
    <3> QED BY <3>1, <3>2
  <2>3. Knows(s.rootfs, s.tap) BY DEF Knows
  <2> QED BY <2>1, <2>2, <2>3
<1>6. ASSUME NEW p \in Requests, NEW s \in snapshots, DeleteSnapshotRow(p, s) PROVE Shifted
  <2> DEFINE x == [Idle EXCEPT !.pc = "clean_up_snapshot", !.snap = s, !.ctx = "request"]
  <2>1. x \in SnapFrame BY <1>5 DEF Idle, SnapFrame, AllPCs, SnapPCs, NoRow, NULL
  <2>2. x.pc = "clean_up_snapshot" /\ x.snap = s BY DEF Idle
  <2>3. proc' = [proc EXCEPT ![p] = x] /\ nextId' = nextId BY <1>6 DEF DeleteSnapshotRow, envVars
  <2> HIDE DEF x
  <2>4. SnapLocal(x) BY <1>5, <2>2 DEF SnapLocal
  <2>5. Shift(p, x) BY <1>5, <2>1, <2>2, <2>4 DEF Shift
  <2> QED BY <1>0, <2>3, <2>5, OneShifts
<1>7. ASSUME NEW p \in Requests, NEW s \in snapshots, NEW timeout \in Timeouts, RestoreArrives(p, s, timeout)
      PROVE  Shifted
  <2>1. nextId \in Ids /\ nextId' = nextId + 1 /\ nextId \in Int
    BY <1>7, CardinalityIds DEF RestoreArrives, EnvOK
  <2>2. PICK e \in Deadlines \cup {NULL} : e = Deadline(timeout) BY DeadlineOK
  <2> DEFINE x == [Idle EXCEPT !.pc = "insert_restore", !.id = nextId, !.snap = s, !.expires = e, !.ctx = "request"]
  <2>3. x \in SnapFrame BY <1>5, <2>1, <2>2 DEF Idle, SnapFrame, AllPCs, SnapPCs, RestorePCs, NoRow
  <2>4. x.pc = "insert_restore" /\ x.id = nextId /\ x.snap = s BY DEF Idle
  <2>5. proc' = [proc EXCEPT ![p] = x] BY <1>7, <2>2 DEF RestoreArrives
  <2> HIDE DEF x
  <2>6. SnapLocal(x) BY <1>5, <2>1, <2>4 DEF SnapLocal
  <2>7. Shift(p, x) /\ ~Begin(p, x) BY <1>5, <2>3, <2>4, <2>6 DEF Shift, Begin
  <2>8. proc' \in [Goroutines -> SnapFrame] BY <2>3, <2>5 DEF FramesOK
  <2>9. proc'[p] = x /\ \A q \in Goroutines \ {p} : proc'[q] = proc[q] BY <1>0, <2>5 DEF FramesOK
  <2> QED BY <2>1, <2>7, <2>8, <2>9, OldNotBegun, StayShifts DEF Shifted
<1>8. ASSUME NEW p \in Requests, NEW s \in snapshots, NEW n \in Counts, NEW timeout \in Timeouts,
             FanoutArrives(p, s, n, timeout)
      PROVE  Shifted
  <2> DEFINE ids == nextId .. nextId + n - 1
             new == {-id : id \in ids}
             e == Deadline(timeout)
             x == [Idle EXCEPT !.pc = "stat_baked", !.snap = s, !.ctx = "request"]
             y(q) == [Idle EXCEPT !.pc = "not_started", !.id = -q, !.snap = s, !.by = p, !.expires = e]
  <2>a. nextId' = nextId + n /\ ids \subseteq Clones BY <1>8 DEF FanoutArrives
  <2>b. n \in Int /\ n > 0 BY SnapshotsAssumption
  <2>c. Clones \subseteq Ids /\ Ids \subseteq Int BY CardinalityIds, LifecycleAssumption
  <2>1. /\ nextId' = nextId + n /\ nextId \in Int /\ n \in Int /\ n > 0 /\ ids \subseteq Clones
        /\ Clones \subseteq Ids /\ Ids \subseteq Int
    <3> HIDE DEF ids
    <3> QED BY <2>a, <2>b, <2>c, CardinalityIds DEF EnvOK
  <2>2. e \in Deadlines \cup {NULL} BY DeadlineOK
  <2>3. p \notin new BY <2>1, GoroutinesAssumption DEF Workers
  <2>4. proc' = [q \in Goroutines |-> CASE q = p -> x [] q \in new -> y(q) [] OTHER -> proc[q]]
    BY <1>8, Zenon DEF FanoutArrives
  <2> HIDE DEF e
  <2>5. /\ proc'[p] = x /\ \A q \in Goroutines \cap new : proc'[q] = y(q)
        /\ \A q \in Goroutines \ new : q # p => proc'[q] = proc[q]
    <3> HIDE DEF new, x, y
    <3> QED BY <1>0, <2>3, <2>4
  <2>6. x \in SnapFrame BY <1>5 DEF Idle, SnapFrame, AllPCs, SnapPCs, NoRow, NULL
  <2>7. x.pc = "stat_baked" /\ x.snap = s /\ x.id = 0 BY DEF Idle
  <2>8. Shift(p, x) /\ ~Begin(p, x)
    <3> HIDE DEF x
    <3>1. SnapLocal(x) BY <1>5, <2>7 DEF SnapLocal
    <3> QED BY <1>5, <2>6, <2>7, <3>1 DEF Shift, Begin
  <2>9. ASSUME NEW q \in new PROVE Begin(q, y(q)) /\ y(q).id = -q /\ q \in Int
    <3>1. -q \in ids /\ q \in Int BY <2>1
    <3>2. -q \in Ids /\ Fresh(-q) BY <2>1, <3>1 DEF Fresh
    <3>3. y(q) \in SnapFrame BY <1>5, <2>2, <3>2 DEF Idle, SnapFrame, AllPCs, SnapPCs, NoRow
    <3>4. y(q).pc = "not_started" /\ y(q).id = -q /\ y(q).snap = s BY DEF Idle
    <3> HIDE DEF y, ids, new
    <3>5. SnapLocal(y(q)) BY <1>5, <3>2, <3>4 DEF SnapLocal
    <3> QED BY <1>5, <3>1, <3>2, <3>3, <3>4, <3>5 DEF Begin
  <2> HIDE DEF x, y, new, ids
  <2>10. proc' \in [Goroutines -> SnapFrame]
    <3>1. \A q \in Goroutines : proc'[q] \in SnapFrame BY <2>5, <2>6, <2>9 DEF Begin, FramesOK
    <3> QED BY <2>4, <3>1
  <2>11. nextId <= nextId' BY <2>1
  <2>12. \A q \in Goroutines : \E z : proc'[q] = z /\ (Shift(q, z) \/ Begin(q, z))
    BY <2>5, <2>8, <2>9, StayShifts
  <2>13. ASSUME NEW q \in Goroutines, NEW r \in Goroutines, NEW z, NEW w, q # r, proc'[q] = z, proc'[r] = w,
                Begin(q, z), Begin(r, w)
         PROVE  z.id # w.id
    <3>1. q \in new /\ r \in new BY <2>5, <2>8, <2>13, OldNotBegun
    <3>2. z = y(q) /\ w = y(r) BY <2>5, <2>13, <3>1
    <3>3. z.id = -q /\ w.id = -r /\ q \in Int /\ r \in Int BY <2>9, <3>1, <3>2
    <3> QED BY <2>13, <3>3
  <2> QED BY <2>10, <2>11, <2>12, <2>13 DEF Shifted
<1> QED BY <1>1, <1>2, <1>3, <1>4, <1>6, <1>7, <1>8 DEF Arrival, SnapArrival

-----------------------------------------------------------------------------
(* Fan-outs, the reaper, startup and shutdown *)

\* A fan-out and its clones move together.
LEMMA WithClonesShifts ==
    ASSUME FramesOK, EnvOK, UNCHANGED nextId, NEW p \in Goroutines, NEW x, Shift(p, x), NEW from,
           proc[p].pc # from, NEW y,
           \A w \in Workers : proc[w].pc = from => Shift(w, y[w]), WithClones(p, x, from, y)
    PROVE  Shifted
<1>1. /\ proc'[p] = x
      /\ \A q \in Goroutines \ {p} : \/ proc'[q] = proc[q]
                                     \/ q \in Workers /\ proc[q].pc = from /\ proc'[q] = y[q]
  <2>1. ASSUME NEW q \in Goroutines
        PROVE  proc'[q] = CASE q = p -> x
                            [] q \in ClonesOf(p) /\ proc[q].pc = from -> y[q]
                            [] OTHER -> proc[q]
    BY DEF WithClones
  <2> QED BY <2>1 DEF ClonesOf
<1>2. \A q \in Goroutines : \E z : proc'[q] = z /\ Shift(q, z) BY <1>1, StayShifts
<1>3. proc' \in [Goroutines -> SnapFrame]
  <2>1. \A q \in Goroutines : proc'[q] \in SnapFrame BY <1>2 DEF Shift
  <2> QED BY <2>1 DEF WithClones
<1> QED BY <1>2, <1>3, QuietShifts

\* The clones start once the baked path has a file.
LEMMA BringUpShifts ==
    ASSUME FramesOK, EnvOK, UNCHANGED nextId, NEW p \in Goroutines, NEW b \in BOOLEAN, BringUp(p, b),
           proc[p].pc \in {"stat_baked", "stage"}
    PROVE  Shifted
<1> USE DEF NoCopy, NoSandbox, FanoutPCs, HasSnapshot, Snapshotting, NewPCs
<1> DEFINE x == [proc[p] EXCEPT !.pc = "bring_up", !.staged = b]
           c(w) == [proc[w] EXCEPT !.pc = "clone_row"]
           y == [w \in Workers |-> c(w)]
<1>1. proc[p] \in SnapFrame /\ SnapLocal(proc[p]) BY DEF FramesOK
<1>a. "bring_up" \in AllPCs BY DEF AllPCs, SnapPCs
<1>2. x \in SnapFrame /\ x.pc = "bring_up" /\ x.snap = proc[p].snap /\ x.id = proc[p].id
  BY <1>1, <1>a DEF SnapFrame
<1>3. Shift(p, x)
  <2> HIDE DEF x
  <2>1. SnapLocal(x) BY <1>1, <1>2 DEF SnapLocal
  <2> QED BY <1>2, <2>1 DEF Shift, Knows
<1>4. ASSUME NEW w \in Workers, proc[w].pc = "not_started" PROVE Shift(w, y[w])
  <2>1. proc[w] \in SnapFrame /\ SnapLocal(proc[w]) /\ w \in Goroutines BY DEF FramesOK, Goroutines
  <2>2. c(w) \in SnapFrame /\ c(w).pc = "clone_row" /\ c(w).snap = proc[w].snap /\ c(w).id = proc[w].id
    BY <2>1 DEF SnapFrame, AllPCs, SnapPCs
  <2>3. y[w] = c(w) OBVIOUS
  <2> HIDE DEF c, y
  <2>4. SnapLocal(c(w)) BY <1>4, <2>1, <2>2 DEF SnapLocal
  <2>5. Shift(w, c(w)) BY <1>4, <2>1, <2>2, <2>4 DEF Shift, Knows
  <2> QED BY <2>3, <2>5
<1>5. WithClones(p, x, "not_started", y) BY DEF BringUp
<1> HIDE DEF x, y
<1> QED BY <1>3, <1>4, <1>5, WithClonesShifts

\* The steps of a fan-out that move its clones.
LEMMA FanoutShifts ==
    ASSUME FramesOK, EnvOK, NEW p \in Goroutines, StatBaked(p) \/ StageBaked(p) \/ Settle(p)
    PROVE  Shifted
<1> USE DEF NoCopy, NoSandbox, FanoutPCs, HasSnapshot, Snapshotting, NewPCs, ReconcilePCs
<1>0. proc[p] \in SnapFrame /\ SnapLocal(proc[p]) BY DEF FramesOK
<1>1. CASE StatBaked(p)
  <2>1. proc[p].pc = "stat_baked" /\ UNCHANGED nextId /\ (BringUp(p, FALSE) \/ GoTo(p, "stage"))
    BY <1>1 DEF StatBaked, envVars
  <2>2. CASE GoTo(p, "stage")
    <3>1. "stage" \in AllPCs BY DEF AllPCs, SnapPCs
    <3> QED BY <2>1, <2>2, <3>1, GoToMoves, MovedShifts
  <2> QED BY <2>1, <2>2, BringUpShifts
<1>2. CASE StageBaked(p)
  <2> DEFINE y == [w \in Workers |-> Idle]
  <2>1. /\ proc[p].pc = "stage" /\ UNCHANGED nextId
        /\ BringUp(p, TRUE) \/ WithClones(p, Idle, "not_started", y)
    BY <1>2 DEF StageBaked, envVars
  <2>2. \A w \in Workers : Shift(w, y[w])
    <3>1. \A w \in Workers : y[w] = Idle OBVIOUS
    <3> HIDE DEF y
    <3> QED BY <3>1, StayShifts DEF Goroutines
  <2> HIDE DEF y
  <2> QED BY <2>1, <2>2, BringUpShifts, StayShifts, WithClonesShifts
<1>3. CASE Settle(p)
  <2> DEFINE x == [proc[p] EXCEPT !.pc = "finish_clones"]
             c(w) == [proc[w] EXCEPT !.pc = "bridge", !.ctx = "parent"]
             y == [w \in Workers |-> c(w)]
  <2>1. proc[p].pc = "settle" /\ UNCHANGED nextId /\ WithClones(p, x, "loaded", y)
    BY <1>3 DEF Settle, envVars
  <2>2. x \in SnapFrame /\ x.pc = "finish_clones" /\ x.snap = proc[p].snap /\ x.id = proc[p].id
    BY <1>0 DEF SnapFrame, AllPCs, SnapPCs
  <2>3. Shift(p, x)
    <3> HIDE DEF x
    <3>1. SnapLocal(x) BY <1>0, <2>1, <2>2 DEF SnapLocal
    <3> QED BY <2>2, <3>1 DEF Shift, Knows
  <2>4. ASSUME NEW w \in Workers, proc[w].pc = "loaded" PROVE Shift(w, y[w])
    <3>1. proc[w] \in SnapFrame /\ SnapLocal(proc[w]) /\ w \in Goroutines BY DEF FramesOK, Goroutines
    <3>2. /\ c(w) \in SnapFrame /\ c(w).pc = "bridge" /\ c(w).snap = proc[w].snap /\ c(w).id = proc[w].id
          /\ c(w).sb = proc[w].sb
      <4>1. "bridge" \in AllPCs BY DEF AllPCs, SnapPCs
      <4> QED BY <3>1, <4>1 DEF SnapFrame
    <3>3. y[w] = c(w) OBVIOUS
    <3> HIDE DEF c, y
    <3>4. SnapLocal(c(w)) BY <2>4, <3>1, <3>2 DEF SnapLocal
    <3>5. Shift(w, c(w)) BY <2>4, <3>1, <3>2, <3>4 DEF Shift, Knows
    <3> QED BY <3>3, <3>5
  <2> HIDE DEF x, y
  <2> QED BY <2>1, <2>3, <2>4, WithClonesShifts
<1> QED BY <1>1, <1>2, <1>3

\* A handler's step.
LEMMA StepShifts ==
    ASSUME FramesOK, EnvOK, RegInv, RegInv', NEW p \in Goroutines, Step(p) \/ SnapStep(p)
    PROVE  Shifted
<1>1. UNCHANGED nextId
  <2>1. CASE Step(p)
    BY <2>1 DEF Step, envVars, InsertRow, CreateTap, StartVM, AddPortForward, RecordStart, StopForce, StoreMachine,
       WaitForAgent, GetRow, ReadPorts, TakeMachine, WaitVM, RemoveForwards, DeleteTap, RemoveRootfs, DeleteRow,
       AllocatePort, ForwardExtra, UndoPort
  <2>2. CASE SnapStep(p)
    BY <2>2 DEF SnapStep, envVars, Pause, WriteMemory, FreezeRootfs, Resume, RecordSnapshot, CleanupSnapshot,
       InsertRestore, CopyRootfs, LoadSnapshot, StatBaked, StageBaked, Unstage, Settle, FanoutDone, CloneRow,
       CloneRootfs, CreateTapUnbridged, StartClone, AttachTapToBridge, ForwardClone, RecordClone, StopClone
  <2> QED BY <2>1, <2>2
<1>2. CASE Step(p) BY <1>1, <1>2, HandlerMoves, MovedShifts
<1>3. CASE StatBaked(p) \/ StageBaked(p) \/ Settle(p) BY <1>3, FanoutShifts
<1>4. CASE SnapStep(p) /\ ~(StatBaked(p) \/ StageBaked(p) \/ Settle(p))
  <2>1. Moved(p) BY <1>4, SnapHandlerMoves DEF SnapStep
  <2> QED BY <1>1, <2>1, MovedShifts
<1> QED BY <1>2, <1>3, <1>4

\* A context is cancelled.
LEMMA CancelShifts ==
    ASSUME FramesOK, EnvOK, UNCHANGED nextId, NEW p \in Goroutines,
           proc' = [proc EXCEPT ![p].ctx = "cancelled"]
    PROVE  Shifted
<1> DEFINE x == [proc[p] EXCEPT !.ctx = "cancelled"]
<1>1. proc[p] \in SnapFrame /\ SnapLocal(proc[p]) BY DEF FramesOK
<1>2. /\ x \in SnapFrame /\ x.pc = proc[p].pc /\ x.id = proc[p].id /\ x.sb = proc[p].sb
      /\ x.snap = proc[p].snap /\ x.guest = proc[p].guest /\ x.host = proc[p].host
  BY <1>1 DEF SnapFrame
<1>3. proc' = [proc EXCEPT ![p] = x] OBVIOUS
<1> HIDE DEF x
<1>4. SnapLocal(x) BY <1>1, <1>2 DEF SnapLocal
<1>5. Shift(p, x) BY <1>2, <1>4 DEF Shift, Knows
<1> QED BY <1>3, <1>5, OneShifts

\* Every step of the host.
LEMMA NextShifts == ASSUME SnapInv, RegInv', [SnapNext]_allVars PROVE Shifted
<1> USE DEF SnapInv, HostTyped
<1> USE DEF NoCopy, NoSandbox, FanoutPCs, HasSnapshot, Snapshotting, NewPCs
<1>0. Reaper \in Goroutines /\ Main \in Goroutines /\ Ids \subseteq Goroutines /\ Requests \subseteq Goroutines
  BY DEF Goroutines
<1>1. ASSUME NEW p \in Goroutines, Step(p) \/ SnapStep(p) PROVE Shifted BY <1>1, StepShifts
<1>2. CASE Arrival \/ SnapArrival BY <1>2, ArrivalShifts
<1>3. CASE UNCHANGED <<proc, nextId>> BY <1>3, SameShifts
<1>4. CASE ReapNext
  <2>1. PICK id \in todo : proc' = [proc EXCEPT ![Reaper] = [Idle EXCEPT !.pc = "get_row", !.id = id]]
    BY <1>4 DEF ReapNext
  <2> DEFINE x == [Idle EXCEPT !.pc = "get_row", !.id = id]
  <2>2. id \in Ids BY DEF MemoryTyped
  <2>3. x \in SnapFrame BY <2>2 DEF Idle, SnapFrame, AllPCs, PCs, NoRow, NULL
  <2>4. x.pc = "get_row" /\ x.id = id /\ x.snap = NoRow BY DEF Idle
  <2>5. proc' = [proc EXCEPT ![Reaper] = x] /\ nextId' = nextId BY <1>4, <2>1 DEF ReapNext, envVars
  <2> HIDE DEF x
  <2>6. SnapLocal(x) BY <2>2, <2>4 DEF SnapLocal
  <2>7. Shift(Reaper, x) BY <2>3, <2>4, <2>6 DEF Shift
  <2> QED BY <1>0, <2>5, <2>7, OneShifts
<1>5. CASE ReconcileNext
  <2>1. PICK id \in todo :
          proc' = [proc EXCEPT ![Main] = [Idle EXCEPT !.pc = "read_ports", !.id = id, !.sb = RowOf(id, sandboxes),
                             !.ctx = IF main = "abort" THEN "cancelled" ELSE "background"]]
    BY <1>5 DEF ReconcileNext
  <2>2. PICK sb, ctx : sb = RowOf(id, sandboxes) /\ ctx = IF main = "abort" THEN "cancelled" ELSE "background"
    OBVIOUS
  <2>3. \E r \in sandboxes : r.id = id BY <1>5 DEF ReconcileNext, RecoveryOK
  <2>4. id \in Ids /\ sb \in Sandbox /\ TogetherAddr(sb) BY <2>2, <2>3, RowsGood, RowRead DEF MemoryTyped
  <2> DEFINE x == [Idle EXCEPT !.pc = "read_ports", !.id = id, !.sb = sb, !.ctx = ctx]
  <2>5. x \in SnapFrame BY <2>2, <2>4 DEF Idle, SnapFrame, AllPCs, PCs, NoRow, NULL
  <2>6. x.pc = "read_ports" /\ x.id = id /\ x.sb = sb /\ x.snap = NoRow BY DEF Idle
  <2>7. proc' = [proc EXCEPT ![Main] = x] /\ nextId' = nextId BY <1>5, <2>1, <2>2 DEF ReconcileNext, envVars
  <2> HIDE DEF x
  <2>8. SnapLocal(x) BY <2>4, <2>6 DEF SnapLocal
  <2>9. Shift(Main, x) BY <2>5, <2>6, <2>8 DEF Shift
  <2> QED BY <1>0, <2>7, <2>9, OneShifts
<1>6. CASE ShutdownAll
  <2> DEFINE x(p) == [Idle EXCEPT !.pc = "get_row", !.id = p]
  <2>1. proc' = [p \in Goroutines |-> IF p \in machines THEN x(p) ELSE proc[p]] /\ nextId' = nextId
    BY <1>6 DEF ShutdownAll, envVars
  <2>2. ASSUME NEW p \in machines PROVE Shift(p, x(p))
    <3>1. p \in Ids BY DEF MemoryTyped
    <3>2. x(p) \in SnapFrame BY <3>1 DEF Idle, SnapFrame, AllPCs, PCs, NoRow, NULL
    <3>3. x(p).pc = "get_row" /\ x(p).id = p /\ x(p).snap = NoRow BY DEF Idle
    <3> HIDE DEF x
    <3>4. SnapLocal(x(p)) BY <3>1, <3>3 DEF SnapLocal
    <3> QED BY <3>2, <3>3, <3>4 DEF Shift
  <2> HIDE DEF x
  <2>3. \A p \in Goroutines : \E z : proc'[p] = z /\ Shift(p, z) BY <2>1, <2>2, StayShifts
  <2>4. \A p \in Goroutines : proc'[p] \in SnapFrame BY <2>3 DEF Shift
  <2> QED BY <2>1, <2>3, <2>4, QuietShifts
<1>7. ASSUME ProcessGone, UNCHANGED nextId PROVE Shifted
  <2>1. proc' = [p \in Goroutines |-> Idle] BY <1>7 DEF ProcessGone
  <2>2. proc' \in [Goroutines -> SnapFrame] /\ \A p \in Goroutines : proc'[p] = Idle BY <2>1, IdleFrame
  <2> QED BY <1>7, <2>2, StayShifts, QuietShifts
<1>8. CASE Stop
  <2>1. UNCHANGED nextId /\ (proc' = proc \/ proc' = [proc EXCEPT ![Main].ctx = "cancelled"]) BY <1>8 DEF Stop
  <2> QED BY <1>0, <2>1, SameShifts, CancelShifts
<1>9. ASSUME NEW p \in Requests, Disconnect(p) PROVE Shifted
  BY <1>0, <1>9, CancelShifts DEF Disconnect, envVars
<1>10. CASE \/ \E id \in Ids, timeout \in Timeouts : SetTimeout(id, timeout)
            \/ ReaperTick \/ Restart \/ Listen \/ Tick \/ (\E v \in vms : VMExit(v)) \/ GuestStep
            \/ UNCHANGED allVars
  BY <1>3, <1>10 DEF SetTimeout, ReaperTick, Restart, Listen, Tick, VMExit, GuestStep, Thaw, GuestWrites, allVars,
                     vars, memVars, envVars
<1>11. CASE Exit \/ Crash \/ Reboot BY <1>7, <1>11 DEF Exit, Crash, Reboot, envVars
<1> QED BY <1>1, <1>2, <1>4, <1>5, <1>6, <1>8, <1>9, <1>10, <1>11 DEF SnapNext, Next, Serve, Environment

-----------------------------------------------------------------------------
(* Disk paths and taps *)

\* A goroutine before the row of a new sandbox was there, or has a fresh id.
LEMMA NewIds ==
    ASSUME SnapInv, Shifted, nextId' \in Int
    PROVE  /\ \A q \in Goroutines : proc'[q].pc \in NewPCs =>
                 \/ proc[q].pc \in NewPCs /\ proc'[q].id = proc[q].id /\ proc[q].id < nextId
                 \/ nextId <= proc'[q].id
           /\ \A q \in Goroutines : proc'[q].pc \in NewPCs => proc'[q].id < nextId' /\ proc'[q].id \in Int
           /\ \A q, r \in Goroutines : q # r /\ proc'[q].pc \in NewPCs /\ proc'[r].pc \in NewPCs =>
                 proc'[q].id # proc'[r].id
<1>0. nextId \in Int /\ nextId <= nextId' BY CardinalityIds DEF SnapInv, HostTyped, EnvOK, Shifted
<1>1. \A q \in Goroutines : proc[q].id \in Int /\ proc'[q].id \in Int
  BY CardinalityIds DEF SnapInv, FramesOK, SnapFrame, Shifted
<1>2. \A q \in Goroutines : proc'[q].pc \in NewPCs =>
         \/ proc[q].pc \in NewPCs /\ proc'[q].id = proc[q].id /\ proc[q].id < nextId
         \/ Begin(q, proc'[q]) /\ nextId <= proc'[q].id /\ proc'[q].id < nextId'
  BY DEF Shifted, Shift, Begin, Fresh, SnapInv, PathsOK
<1>3. ASSUME NEW q \in Goroutines, NEW r \in Goroutines, q # r, proc'[q].pc \in NewPCs, proc'[r].pc \in NewPCs
      PROVE  proc'[q].id # proc'[r].id
  <2>1. CASE Begin(q, proc'[q]) /\ Begin(r, proc'[r]) BY <1>3, <2>1 DEF Shifted
  <2>2. CASE ~Begin(q, proc'[q]) /\ ~Begin(r, proc'[r]) BY <1>2, <1>3, <2>2 DEF SnapInv, PathsOK
  <2>3. CASE Begin(q, proc'[q]) /\ ~Begin(r, proc'[r])
    <3>1. nextId <= proc'[q].id BY <2>3 DEF Begin, Fresh
    <3>2. proc'[r].id < nextId BY <1>2, <1>3, <2>3
    <3> QED BY <1>0, <1>1, <3>1, <3>2
  <2>4. CASE ~Begin(q, proc'[q]) /\ Begin(r, proc'[r])
    <3>1. nextId <= proc'[r].id BY <2>4 DEF Begin, Fresh
    <3>2. proc'[q].id < nextId BY <1>2, <1>3, <2>4
    <3> QED BY <1>0, <1>1, <3>1, <3>2
  <2> QED BY <2>1, <2>2, <2>3, <2>4
<1> QED BY <1>0, <1>1, <1>2, <1>3

\* Nobody learns of a path with a tap that nobody knew it with.
LEMMA PathsKept ==
    ASSUME SnapInv, Shifted, nextId' \in Int,
           \A r \in sandboxes' : Knows(r.rootfs, r.tap), \A s \in snapshots' : Knows(s.rootfs, s.tap)
    PROVE  PathsOK'
<1>0. nextId \in Int /\ nextId <= nextId' /\ Ids \subseteq Int
  BY CardinalityIds DEF SnapInv, HostTyped, EnvOK, Shifted
<1>1. \A q \in Goroutines : proc'[q].snap # NoRow => Knows(proc'[q].snap.rootfs, proc'[q].snap.tap)
  BY DEF Shifted, Shift, Begin
<1>2. ASSUME NEW path, NEW t, Knows(path, t)' PROVE Knows(path, t) BY <1>1, <1>2 DEF Knows
<1>3. ASSUME NEW path \in Ids, NEW t \in Taps, Knows(path, t)'
      PROVE  path < nextId' /\ \A q \in Goroutines : proc'[q].pc \in NewPCs => proc'[q].id # path
  <2>1. path < nextId /\ \A q \in Goroutines : proc[q].pc \in NewPCs => proc[q].id # path
    BY <1>2, <1>3 DEF SnapInv, PathsOK
  <2> QED BY <1>0, <2>1, NewIds
<1>4. \A path \in Ids, t, u \in Taps : Knows(path, t)' /\ Knows(path, u)' => t = u
  BY <1>2 DEF SnapInv, PathsOK
<1> QED BY <1>3, <1>4, NewIds DEF PathsOK

\* The row of a new sandbox is the first to know its path.
LEMMA PathsCreated ==
    ASSUME SnapInv, Shifted, nextId' \in Int, NEW p \in Goroutines, proc[p].pc \in NewPCs, NEW e,
           Create(proc[p].id, proc[p].id, e), proc'[p].pc \notin NewPCs
    PROVE  PathsOK'
<1> DEFINE id == proc[p].id
<1>0. /\ nextId \in Int /\ nextId <= nextId' /\ Ids \subseteq Int /\ id \in Int
  BY CardinalityIds DEF SnapInv, HostTyped, EnvOK, Shifted, FramesOK, SnapFrame
<1>1. \A q \in Goroutines : proc'[q].snap # NoRow => Knows(proc'[q].snap.rootfs, proc'[q].snap.tap)
  BY DEF Shifted, Shift, Begin
<1>2. PICK tap \in Taps : \A r \in sandboxes' : r \in sandboxes \/ (r.rootfs = id /\ r.tap = tap)
  <2> DEFINE row(t, a, port) == [id |-> id, pid |-> NoPid, tap |-> t, ip |-> a,
                                 port |-> port, rootfs |-> id, expires |-> e]
  <2>1. PICK t \in Taps, a \in IPs, port \in HostPorts : sandboxes' = sandboxes \cup {row(t, a, port)}
    BY DEF Create, InsertSandbox
  <2>2. row(t, a, port).rootfs = id /\ row(t, a, port).tap = t OBVIOUS
  <2> HIDE DEF row
  <2> QED BY <2>1, <2>2
<1>3. snapshots' = snapshots BY DEF Create
<1>4. ASSUME NEW path, NEW t, Knows(path, t)' PROVE Knows(path, t) \/ (path = id /\ t = tap)
  <2>1. CASE \E r \in sandboxes' : r.rootfs = path /\ r.tap = t BY <1>2, <2>1 DEF Knows
  <2>2. CASE \E s \in snapshots' : s.rootfs = path /\ s.tap = t BY <1>3, <2>2 DEF Knows
  <2>3. CASE \E q \in Goroutines : proc'[q].snap # NoRow /\ proc'[q].snap.rootfs = path /\ proc'[q].snap.tap = t
    BY <1>1, <2>3
  <2> QED BY <1>4, <2>1, <2>2, <2>3 DEF Knows
<1>5. id < nextId /\ \A path \in Ids, t \in Taps : Knows(path, t) => path # id BY DEF SnapInv, PathsOK
<1>6. ASSUME NEW path \in Ids, NEW t \in Taps, Knows(path, t)'
      PROVE  path < nextId' /\ \A q \in Goroutines : proc'[q].pc \in NewPCs => proc'[q].id # path
  <2>1. path < nextId /\ \A q \in Goroutines \ {p} : proc[q].pc \in NewPCs => proc[q].id # path
    BY <1>4, <1>5, <1>6 DEF SnapInv, PathsOK
  <2> QED BY <1>0, <2>1, NewIds
<1>7. \A path \in Ids, t, u \in Taps : Knows(path, t)' /\ Knows(path, u)' => t = u
  BY <1>4, <1>5 DEF SnapInv, PathsOK
<1> QED BY <1>6, <1>7, NewIds DEF PathsOK

\* Rows and snapshots that are left know what they knew.
LEMMA OldKnow ==
    /\ \A r \in sandboxes : Knows(r.rootfs, r.tap)
    /\ \A s \in snapshots : Knows(s.rootfs, s.tap)
BY DEF Knows

\* So do rows that are updated.
LEMMA UpdatedKnow ==
    ASSUME RegInv, NEW id, NEW x, FinishStart(id, x) \/ SetExpiry(id, x)
    PROVE  \A r \in sandboxes' : Knows(r.rootfs, r.tap)
<1>1. CASE FinishStart(id, x)
  <2>1. \A r \in sandboxes : [r EXCEPT !.pid = x].rootfs = r.rootfs /\ [r EXCEPT !.pid = x].tap = r.tap
    BY DEF RegInv, RegTypeOK, Sandbox
  <2>2. \A r \in sandboxes' : \E q \in sandboxes : r.rootfs = q.rootfs /\ r.tap = q.tap
    BY <1>1, <2>1 DEF FinishStart
  <2> QED BY <2>2 DEF Knows
<1>2. CASE SetExpiry(id, x)
  <2>1. \A r \in sandboxes : [r EXCEPT !.expires = x].rootfs = r.rootfs /\ [r EXCEPT !.expires = x].tap = r.tap
    BY DEF RegInv, RegTypeOK, Sandbox
  <2>2. \A r \in sandboxes' : \E q \in sandboxes : r.rootfs = q.rootfs /\ r.tap = q.tap
    BY <1>2, <2>1 DEF SetExpiry
  <2> QED BY <2>2 DEF Knows
<1> QED BY <1>1, <1>2

\* A handler's step.
LEMMA StepPaths ==
    ASSUME SnapInv, Shifted, RegInv', nextId' \in Int, NEW p \in Goroutines, Step(p) \/ SnapStep(p)
    PROVE  PathsOK'
<1>0. proc[p] \in SnapFrame /\ SnapLocal(proc[p]) /\ RegInv /\ FramesOK BY DEF SnapInv, FramesOK
<1>1. CASE UNCHANGED regVars BY <1>1, OldKnow, PathsKept DEF regVars
<1>2. CASE Create(proc[p].id, proc[p].id, proc[p].expires) /\ (InsertRow(p) \/ CloneRow(p))
  <2>1. proc[p].pc \in NewPCs BY <1>2 DEF InsertRow, CloneRow, NewPCs
  <2>2. Moved(p) BY <1>0, <1>2, HandlerMoves, SnapHandlerMoves DEF Step
  <2>3. proc'[p].pc \notin NewPCs BY <2>2 DEF Moved, SnapInv, FramesOK
  <2> QED BY <1>2, <2>1, <2>3, PathsCreated
<1>3. CASE InsertRow(p) BY <1>1, <1>2, <1>3 DEF InsertRow
<1>4. CASE CloneRow(p) BY <1>1, <1>2, <1>4 DEF CloneRow
<1>5. CASE RecordStart(p)
  <2>1. CASE FinishStart(proc[p].sb.id, proc[p].sb.id)
    <3>1. snapshots' = snapshots BY <2>1 DEF FinishStart
    <3> QED BY <1>0, <2>1, <3>1, UpdatedKnow, OldKnow, PathsKept
  <2> QED BY <1>1, <1>5, <2>1 DEF RecordStart
<1>6. CASE RecordClone(p)
  <2>1. CASE FinishStart(proc[p].id, proc[p].id)
    <3>1. snapshots' = snapshots BY <2>1 DEF FinishStart
    <3> QED BY <1>0, <2>1, <3>1, UpdatedKnow, OldKnow, PathsKept
  <2> QED BY <1>1, <1>6, <2>1 DEF RecordClone
<1>7. CASE DeleteRow(p) \/ AllocatePort(p) \/ UndoPort(p)
  <2>1. (\A r \in sandboxes' : r \in sandboxes) /\ snapshots' = snapshots
    BY <1>7 DEF DeleteRow, AllocatePort, UndoPort, Destroy, AddPort, DeletePort, regVars
  <2> QED BY <2>1, OldKnow, PathsKept
<1>8. CASE RecordSnapshot(p)
  <2> DEFINE s == [id |-> proc[p].snap.id, source |-> proc[p].sb.id, tap |-> proc[p].sb.tap,
                   ip |-> proc[p].sb.ip, rootfs |-> proc[p].sb.rootfs]
  <2>1. CASE CreateSnapshot(proc[p].snap.id, proc[p].sb)
    <3>1. proc[p].snap # NoRow /\ proc[p].snap.tap = proc[p].sb.tap /\ proc[p].snap.rootfs = proc[p].sb.rootfs
      BY <1>0, <1>8 DEF RecordSnapshot, SnapLocal, HasSnapshot, Snapshotting
    <3>2. s.tap = proc[p].snap.tap /\ s.rootfs = proc[p].snap.rootfs BY <3>1
    <3>3. snapshots' = snapshots \cup {s} /\ sandboxes' = sandboxes BY <2>1 DEF CreateSnapshot
    <3> HIDE DEF s
    <3>4. Knows(s.rootfs, s.tap) BY <3>1, <3>2 DEF Knows
    <3> QED BY <3>3, <3>4, OldKnow, PathsKept
  <2> QED BY <1>1, <1>8, <2>1 DEF RecordSnapshot
<1>9. CASE InsertRestore(p)
  <2> DEFINE s == proc[p].snap
  <2>1. CASE CreateRestore(proc[p].id, s.rootfs, s.tap, s.ip, proc[p].expires)
    <3>1. s # NoRow BY <1>0, <1>9 DEF InsertRestore, SnapLocal, HasSnapshot
    <3>2. Knows(s.rootfs, s.tap) BY <3>1 DEF Knows
    <3>3. /\ \A r \in sandboxes' : r \in sandboxes \/ (r.rootfs = s.rootfs /\ r.tap = s.tap)
          /\ snapshots' = snapshots
      <4> DEFINE row(port) == [id |-> proc[p].id, pid |-> NoPid, tap |-> s.tap, ip |-> s.ip,
                               port |-> port, rootfs |-> s.rootfs, expires |-> proc[p].expires]
      <4>1. PICK port \in HostPorts : sandboxes' = sandboxes \cup {row(port)}
        BY <2>1 DEF CreateRestore, InsertSandbox
      <4>2. row(port).rootfs = s.rootfs /\ row(port).tap = s.tap OBVIOUS
      <4>3. snapshots' = snapshots BY <2>1 DEF CreateRestore
      <4> HIDE DEF row, s
      <4> QED BY <4>1, <4>2, <4>3
    <3> QED BY <3>2, <3>3, OldKnow, PathsKept
  <2> QED BY <1>1, <1>9, <2>1 DEF InsertRestore
<1>10. CASE \/ CreateTap(p) \/ StartVM(p) \/ AddPortForward(p)
            \/ StopForce(p) \/ StoreMachine(p) \/ WaitForAgent(p)
            \/ GetRow(p) \/ ReadPorts(p) \/ TakeMachine(p) \/ WaitVM(p)
            \/ RemoveForwards(p) \/ DeleteTap(p) \/ RemoveRootfs(p) \/ ForwardExtra(p)
  BY <1>1, <1>10 DEF CreateTap, StartVM, AddPortForward, StopForce, StoreMachine, WaitForAgent, GetRow, ReadPorts,
      TakeMachine, WaitVM, RemoveForwards, DeleteTap, RemoveRootfs, ForwardExtra
<1>11. CASE \/ Pause(p) \/ WriteMemory(p) \/ FreezeRootfs(p) \/ Resume(p) \/ CleanupSnapshot(p)
            \/ CopyRootfs(p) \/ LoadSnapshot(p) \/ StatBaked(p) \/ StageBaked(p) \/ Unstage(p) \/ Settle(p)
            \/ FanoutDone(p) \/ CloneRootfs(p) \/ CreateTapUnbridged(p) \/ StartClone(p)
            \/ AttachTapToBridge(p) \/ ForwardClone(p) \/ StopClone(p)
  BY <1>1, <1>11 DEF Pause, WriteMemory, FreezeRootfs, Resume, CleanupSnapshot, CopyRootfs, LoadSnapshot,
      StatBaked, StageBaked, Unstage, Settle, FanoutDone, CloneRootfs, CreateTapUnbridged, StartClone,
      AttachTapToBridge, ForwardClone, StopClone
<1> QED BY <1>3, <1>4, <1>5, <1>6, <1>7, <1>8, <1>9, <1>10, <1>11 DEF Step, SnapStep

\* Every step of the host.
LEMMA NextPaths == ASSUME SnapInv, RegInv', nextId' \in Int, [SnapNext]_allVars PROVE PathsOK'
<1>0. Shifted /\ RegInv BY NextShifts DEF SnapInv
<1>1. ASSUME NEW p \in Goroutines, Step(p) \/ SnapStep(p) PROVE PathsOK' BY <1>0, <1>1, StepPaths
<1>2. ASSUME NEW id \in Ids, NEW timeout \in Timeouts, SetTimeout(id, timeout) PROVE PathsOK'
  <2>1. snapshots' = snapshots BY <1>2 DEF SetTimeout, SetExpiry
  <2> QED BY <1>0, <1>2, <2>1, UpdatedKnow, OldKnow, PathsKept DEF SetTimeout
<1>3. CASE UNCHANGED regVars BY <1>0, <1>3, OldKnow, PathsKept DEF regVars
<1>4. CASE Arrival BY <1>3, <1>4 DEF Arrival, PrepareRootfs, DestroyArrives, ExposeArrives
<1>5. CASE ReaperTick \/ ReapNext BY <1>3, <1>5 DEF ReaperTick, ReapNext
<1>6. CASE Serve BY <1>3, <1>6 DEF Serve, Restart, ReconcileNext, Listen, ShutdownAll, Exit
<1>7. CASE Environment BY <1>3, <1>7 DEF Environment, Disconnect, VMExit, Stop, Crash, Reboot, Tick
<1>8. ASSUME NEW p \in Requests, NEW s \in snapshots, DeleteSnapshotRow(p, s) PROVE PathsOK'
  <2>1. sandboxes' = sandboxes /\ \A q \in snapshots' : q \in snapshots
    BY <1>8 DEF DeleteSnapshotRow, DeleteSnapshot
  <2> QED BY <1>0, <2>1, OldKnow, PathsKept
<1>9. CASE SnapArrival BY <1>3, <1>8, <1>9 DEF SnapArrival, SnapshotArrives, RestoreArrives, FanoutArrives
<1>10. CASE GuestStep BY <1>3, <1>10 DEF GuestStep, Thaw, GuestWrites
<1>11. CASE UNCHANGED allVars BY <1>3, <1>11 DEF allVars, vars
<1> QED BY <1>1, <1>2, <1>4, <1>5, <1>6, <1>7, <1>9, <1>10, <1>11 DEF SnapNext, Next

-----------------------------------------------------------------------------
(* The host's state *)

\* cp and os.Remove.
LEMMA FileKeeps ==
    ASSUME DisksTyped, NEW path \in Ids, NEW c \in Content,
           disks' = WithFile(path, c) \/ disks' = WithoutFile(path)
    PROVE  DisksTyped'
BY DEF DisksTyped, WithFile, WithoutFile

\* VMs that are left, or changed into VMs.
LEMMA VmsKept ==
    ASSUME VmsTyped, \A w \in vms' : w \in vms \/ (w \in VM /\ w.ver \in Content)
    PROVE  VmsTyped'
<1>1. ASSUME NEW w \in vms' PROVE w \in VM /\ w.ver \in Content BY DEF VmsTyped
<1>2. Content' = Content /\ VM' = VM BY DEF Content, VM
<1> QED BY <1>1, <1>2 DEF VmsTyped

\* os.Remove of a file that VMs may have open.
LEMMA UnlinkKeeps ==
    ASSUME DisksTyped, VmsTyped, NEW path \in Ids, Unlink(path) PROVE DisksTyped' /\ VmsTyped'
<1>1. DisksTyped' BY DEF DisksTyped, Unlink, WithoutFile
<1>2. \A v \in vms : [v EXCEPT !.disk = 0] \in VM /\ [v EXCEPT !.disk = 0].ver \in Content BY DEF VmsTyped, VM
<1>3. \A w \in vms' : w \in vms \/ (w \in VM /\ w.ver \in Content) BY <1>2 DEF Unlink
<1> QED BY <1>1, <1>3, VmsKept

\* A VM that starts.
LEMMA LaunchKeeps ==
    ASSUME VmsTyped, TapsOK, EnvOK, NEW sb \in Sandbox, NEW d \in taps, NEW ip \in IPs \cup {0},
           NEW mmds \in IPs \cup {0}, NEW c \in Content, vms' = vms \cup {Launched(sb, d, ip, mmds, c)}
    PROVE  VmsTyped'
<1> DEFINE v == Launched(sb, d, ip, mmds, c)
<1>1. c \in Nat BY SnapshotsAssumption DEF Content
<1>2. sb.id \in Ids /\ sb.tap \in Taps /\ sb.rootfs \in Ids /\ d.owner \in Ids /\ crashes \in 0 .. MaxCrashes
  BY DEF Sandbox, TapsOK, EnvOK
<1>3. v \in VM BY <1>1, <1>2 DEF Launched, VM
<1>4. v.ver = c /\ vms' = vms \cup {v} BY DEF Launched
<1> HIDE DEF v
<1>5. \A w \in vms' : w \in vms \/ (w \in VM /\ w.ver \in Content) BY <1>3, <1>4
<1> QED BY <1>5, VmsKept

\* A VM whose guest or process changes.
LEMMA VmUpdated ==
    ASSUME VmsTyped, NEW v \in vms, NEW w \in VM, w.ver \in Content, vms' = Updated(v, w) PROVE VmsTyped'
BY VmsKept DEF Updated

\* A tap device that may have been made.
LEMMA TapAdded ==
    ASSUME TapsOK, NEW t \in Taps, NEW id \in Ids, NEW b \in BOOLEAN,
           taps' \in {taps, taps \cup {[tap |-> t, owner |-> id, bridged |-> b]}}
    PROVE  TapsOK'
BY DEF TapsOK

\* The files of a snapshot.
LEMMA FilesKept ==
    ASSUME FilesTyped, NEW sid \in SnapIds, NEW c \in Content,
           \/ files' = [files EXCEPT ![sid] = NoDir] \/ files' = [files EXCEPT ![sid].dir = TRUE]
           \/ files' = [files EXCEPT ![sid].mem = c] \/ files' = [files EXCEPT ![sid].disk = c]
    PROVE  FilesTyped'
<1> DEFINE Dir == [dir : BOOLEAN, mem : {Absent} \cup Content, disk : {Absent} \cup Content]
<1>1. NoDir \in Dir BY DEF NoDir
<1>2. \A x \in Dir : [x EXCEPT !.dir = TRUE] \in Dir /\ [x EXCEPT !.mem = c] \in Dir /\ [x EXCEPT !.disk = c] \in Dir
  OBVIOUS
<1>3. files \in [SnapIds -> Dir] BY DEF FilesTyped
<1> HIDE DEF Dir
<1>4. files' \in [SnapIds -> Dir] BY <1>1, <1>2, <1>3
<1> QED BY <1>4 DEF FilesTyped, Dir, Content

\* A handler's step that is one of Lifecycle's.
LEMMA StepHost ==
    ASSUME SnapInv, NEW p \in Goroutines, Step(p), UNCHANGED files PROVE HostTyped'
<1> USE DEF SnapInv, HostTyped, hostVars, envVars
<1>0. proc[p] \in SnapFrame /\ SnapLocal(proc[p]) BY DEF FramesOK
<1> USE DEF NoCopy, NoSandbox, FanoutPCs
<1>a. 0 \in Content BY SnapshotsAssumption DEF Content
<1>b. CASE UNCHANGED <<taps, disks, vms, machines, todo, now, nextId, crashes>>
  BY <1>b DEF TapsOK, DisksTyped, VmsTyped, FilesTyped, MemoryTyped, EnvOK
<1>1. CASE InsertRow(p)
  <2>1. proc[p].id \in Ids BY <1>0, <1>1 DEF InsertRow, SnapLocal
  <2>2. CASE disks' = WithoutFile(proc[p].id)
    <3>1. DisksTyped' BY <1>a, <2>1, <2>2, FileKeeps
    <3> QED BY <1>1, <3>1 DEF InsertRow, TapsOK, VmsTyped, FilesTyped, MemoryTyped, EnvOK
  <2> QED BY <1>1, <1>b, <2>2 DEF InsertRow
<1>2. CASE CreateTap(p)
  <2>1. proc[p].sb \in Sandbox /\ proc[p].id \in Ids BY <1>0, <1>2 DEF CreateTap, SnapLocal
  <2>2. proc[p].sb.tap \in Taps BY <2>1 DEF Sandbox
  <2>3. \E b \in BOOLEAN : taps' \in {taps, taps \cup {[tap |-> proc[p].sb.tap, owner |-> proc[p].id, bridged |-> b]}}
    BY <1>2 DEF CreateTap
  <2>4. TapsOK' BY <2>1, <2>2, <2>3, TapAdded
  <2> QED BY <1>2, <2>4 DEF CreateTap, DisksTyped, VmsTyped, FilesTyped, MemoryTyped, EnvOK
<1>3. CASE StartVM(p)
  <2> DEFINE sb == proc[p].sb
  <2>1. sb \in Sandbox BY <1>0, <1>3 DEF StartVM, SnapLocal
  <2>2. CASE \E d \in Bootable(sb) : vms' = vms \cup {Launched(sb, d, sb.ip, 0, 0)}
    <3>1. sb.ip \in IPs BY <2>1 DEF Sandbox
    <3>2. PICK d \in taps : vms' = vms \cup {Launched(sb, d, sb.ip, 0, 0)} BY <2>2 DEF Bootable
    <3>3. VmsTyped' BY <1>a, <2>1, <3>1, <3>2, LaunchKeeps
    <3> QED BY <1>3, <3>3 DEF StartVM, TapsOK, DisksTyped, FilesTyped, MemoryTyped, EnvOK
  <2> QED BY <1>3, <1>b, <2>2 DEF StartVM
<1>4. CASE StopForce(p) \/ WaitVM(p)
  <2>1. \A v \in vms' : v \in vms BY <1>4 DEF StopForce, WaitVM
  <2>2. VmsTyped' BY <2>1, VmsKept
  <2> QED BY <1>4, <2>2 DEF StopForce, WaitVM, TapsOK, DisksTyped, FilesTyped, MemoryTyped, EnvOK
<1>5. CASE StoreMachine(p)
  <2>1. proc[p].id \in Ids BY <1>0, <1>5 DEF StoreMachine, SnapLocal
  <2> QED BY <1>5, <2>1 DEF StoreMachine, TapsOK, DisksTyped, VmsTyped, FilesTyped, MemoryTyped, EnvOK
<1>6. CASE TakeMachine(p) BY <1>6 DEF TakeMachine, TapsOK, DisksTyped, VmsTyped, FilesTyped, MemoryTyped, EnvOK
<1>7. CASE DeleteTap(p) BY <1>7 DEF DeleteTap, TapsOK, DisksTyped, VmsTyped, FilesTyped, MemoryTyped, EnvOK
<1>8. CASE RemoveRootfs(p)
  <2>1. proc[p].sb.rootfs \in Ids BY <1>0, <1>8 DEF RemoveRootfs, SnapLocal, Sandbox
  <2>2. DisksTyped' /\ VmsTyped' BY <1>8, <2>1, UnlinkKeeps DEF RemoveRootfs
  <2> QED BY <1>8, <2>2 DEF RemoveRootfs, TapsOK, FilesTyped, MemoryTyped, EnvOK
<1>9. CASE \/ AddPortForward(p) \/ RecordStart(p) \/ WaitForAgent(p) \/ GetRow(p) \/ ReadPorts(p)
           \/ RemoveForwards(p) \/ DeleteRow(p) \/ AllocatePort(p) \/ ForwardExtra(p) \/ UndoPort(p)
  BY <1>9, <1>b DEF AddPortForward, RecordStart, WaitForAgent, GetRow, ReadPorts, RemoveForwards, DeleteRow,
     AllocatePort, ForwardExtra, UndoPort
<1> QED BY <1>1, <1>2, <1>3, <1>4, <1>5, <1>6, <1>7, <1>8, <1>9 DEF Step

\* A handler's step of snapshot.go.
LEMMA SnapStepHost == ASSUME SnapInv, NEW p \in Goroutines, SnapStep(p) PROVE HostTyped'
<1> USE DEF SnapInv, HostTyped, hostVars, envVars
<1>0. proc[p] \in SnapFrame /\ SnapLocal(proc[p]) BY DEF FramesOK
<1> USE DEF NoCopy, NoSandbox, FanoutPCs, HasSnapshot, Snapshotting
<1>a. 0 \in Content BY SnapshotsAssumption DEF Content
<1>b. CASE UNCHANGED <<taps, disks, vms, machines, todo, now, nextId, crashes, files>>
  BY <1>b DEF TapsOK, DisksTyped, VmsTyped, FilesTyped, MemoryTyped, EnvOK
<1>c. ASSUME proc[p].pc \in HasSnapshot \/ proc[p].snap # NoRow
      PROVE  /\ proc[p].snap.id \in SnapIds /\ proc[p].snap.rootfs \in Ids /\ proc[p].snap.ip \in IPs
             /\ files[proc[p].snap.id].mem \in {Absent} \cup Content
             /\ files[proc[p].snap.id].disk \in {Absent} \cup Content
  <2>1. proc[p].snap \in Snapshot BY <1>0, <1>c DEF SnapLocal
  <2>2. proc[p].snap.id \in SnapIds /\ proc[p].snap.rootfs \in Ids /\ proc[p].snap.ip \in IPs BY <2>1 DEF Snapshot
  <2> QED BY <2>2 DEF FilesTyped
<1>d. ASSUME proc[p].pc \notin NoCopy
      PROVE  /\ proc[p].sb \in Sandbox /\ proc[p].id \in Ids /\ proc[p].sb.tap \in Taps
             /\ proc[p].sb.rootfs \in Ids /\ proc[p].sb.ip \in IPs
  <2>1. proc[p].sb \in Sandbox /\ proc[p].id \in Ids BY <1>0, <1>d DEF SnapLocal
  <2> QED BY <2>1 DEF Sandbox
<1>1. CASE Pause(p)
  <2>1. CASE \E v \in vms : vms' = Updated(v, [v EXCEPT !.paused = TRUE])
    <3>1. PICK v \in vms : vms' = Updated(v, [v EXCEPT !.paused = TRUE]) BY <2>1
    <3>2. PICK w : w = [v EXCEPT !.paused = TRUE] OBVIOUS
    <3>3. w \in VM /\ w.ver \in Content BY <3>2 DEF VmsTyped, VM
    <3>4. VmsTyped' BY <3>1, <3>2, <3>3, VmUpdated
    <3> QED BY <1>1, <3>4 DEF Pause, TapsOK, DisksTyped, FilesTyped, MemoryTyped, EnvOK
  <2> QED BY <1>1, <1>b, <2>1 DEF Pause, VMof
<1>2. CASE WriteMemory(p)
  <2>1. proc[p].snap.id \in SnapIds BY <1>2, <1>c DEF WriteMemory
  <2>2. \A v \in vms : v.ver \in Content BY DEF VmsTyped
  <2>3. FilesTyped'
    <3>1. CASE files' = [files EXCEPT ![proc[p].snap.id] = NoDir] BY <1>a, <2>1, <3>1, FilesKept
    <3>2. CASE \E v \in vms : files' = [files EXCEPT ![proc[p].snap.id].mem = v.ver] BY <2>1, <2>2, <3>2, FilesKept
    <3> QED BY <1>2, <3>1, <3>2 DEF WriteMemory, VMof
  <2> QED BY <1>2, <2>3 DEF WriteMemory, TapsOK, DisksTyped, VmsTyped, MemoryTyped, EnvOK
<1>3. CASE FreezeRootfs(p)
  <2>1. proc[p].snap.id \in SnapIds BY <1>3, <1>c DEF FreezeRootfs
  <2>2. FilesTyped'
    <3>1. CASE files' = [files EXCEPT ![proc[p].snap.id] = NoDir] BY <1>a, <2>1, <3>1, FilesKept
    <3>2. CASE /\ proc[p].sb.rootfs \in DOMAIN disks
               /\ files' = [files EXCEPT ![proc[p].snap.id].disk = disks[proc[p].sb.rootfs]]
      <4>1. disks[proc[p].sb.rootfs] \in Content BY <3>2 DEF DisksTyped
      <4> QED BY <2>1, <3>2, <4>1, FilesKept
    <3> QED BY <1>3, <3>1, <3>2 DEF FreezeRootfs
  <2> QED BY <1>3, <2>2 DEF FreezeRootfs, TapsOK, DisksTyped, VmsTyped, MemoryTyped, EnvOK
<1>4. CASE Resume(p)
  <2>1. \A v \in vms : [v EXCEPT !.paused = FALSE] \in VM /\ [v EXCEPT !.paused = FALSE].ver \in Content
    BY DEF VmsTyped, VM
  <2>2. \A w \in vms' : w \in vms \/ (w \in VM /\ w.ver \in Content) BY <1>4, <2>1 DEF Resume
  <2>3. VmsTyped' BY <2>2, VmsKept
  <2> QED BY <1>4, <2>3 DEF Resume, TapsOK, DisksTyped, FilesTyped, MemoryTyped, EnvOK
<1>5. CASE RecordSnapshot(p) \/ CleanupSnapshot(p)
  <2>1. proc[p].snap.id \in SnapIds BY <1>5, <1>c DEF RecordSnapshot, CleanupSnapshot
  <2>2. CASE files' = [files EXCEPT ![proc[p].snap.id] = NoDir]
    <3>1. FilesTyped' BY <1>a, <2>1, <2>2, FilesKept
    <3> QED BY <1>5, <3>1 DEF RecordSnapshot, CleanupSnapshot, TapsOK, DisksTyped, VmsTyped, MemoryTyped, EnvOK
  <2> QED BY <1>5, <1>b, <2>2 DEF RecordSnapshot, CleanupSnapshot
<1>6. CASE \/ InsertRestore(p) \/ StatBaked(p) \/ Settle(p) \/ FanoutDone(p) \/ CloneRow(p)
           \/ ForwardClone(p) \/ RecordClone(p)
  BY <1>6, <1>b DEF InsertRestore, StatBaked, Settle, FanoutDone, CloneRow, ForwardClone, RecordClone
<1>7. CASE CopyRootfs(p) \/ CloneRootfs(p)
  <2> DEFINE frozen == files[proc[p].snap.id].disk
  <2>1. CASE frozen # Absent /\ disks' = WithFile(proc[p].sb.rootfs, frozen)
    <3>1. frozen \in Content /\ proc[p].sb.rootfs \in Ids BY <1>7, <1>c, <1>d, <2>1 DEF CopyRootfs, CloneRootfs
    <3>2. DisksTyped' BY <2>1, <3>1, FileKeeps
    <3> QED BY <1>7, <3>2 DEF CopyRootfs, CloneRootfs, TapsOK, VmsTyped, FilesTyped, MemoryTyped, EnvOK
  <2> QED BY <1>7, <1>b, <2>1 DEF CopyRootfs, CloneRootfs
<1>8. CASE LoadSnapshot(p)
  <2> DEFINE sb == proc[p].sb
             mem == files[proc[p].snap.id].mem
  <2>1. CASE mem # Absent /\ \E d \in Bootable(sb) : vms' = vms \cup {Launched(sb, d, proc[p].snap.ip, 0, mem)}
    <3>1. sb \in Sandbox /\ mem \in Content /\ proc[p].snap.ip \in IPs BY <1>8, <1>c, <1>d, <2>1 DEF LoadSnapshot
    <3>2. PICK d \in taps : vms' = vms \cup {Launched(sb, d, proc[p].snap.ip, 0, mem)} BY <2>1 DEF Bootable
    <3>3. VmsTyped' BY <3>1, <3>2, LaunchKeeps
    <3> QED BY <1>8, <3>3 DEF LoadSnapshot, TapsOK, DisksTyped, FilesTyped, MemoryTyped, EnvOK
  <2> QED BY <1>8, <1>b, <2>1 DEF LoadSnapshot
<1>9. CASE StageBaked(p)
  <2> DEFINE frozen == files[proc[p].snap.id].disk
  <2>1. CASE frozen # Absent /\ disks' = WithFile(proc[p].snap.rootfs, frozen)
    <3>1. frozen \in Content /\ proc[p].snap.rootfs \in Ids BY <1>9, <1>c, <2>1 DEF StageBaked
    <3>2. DisksTyped' BY <2>1, <3>1, FileKeeps
    <3> QED BY <1>9, <3>2 DEF StageBaked, TapsOK, VmsTyped, FilesTyped, MemoryTyped, EnvOK
  <2> QED BY <1>9, <1>b, <2>1 DEF StageBaked
<1>10. CASE Unstage(p)
  <2>1. CASE Unlink(proc[p].snap.rootfs)
    <3>1. proc[p].snap.rootfs \in Ids BY <1>10, <1>c DEF Unstage
    <3>2. DisksTyped' /\ VmsTyped' BY <2>1, <3>1, UnlinkKeeps
    <3> QED BY <1>10, <3>2 DEF Unstage, TapsOK, FilesTyped, MemoryTyped, EnvOK
  <2> QED BY <1>10, <1>b, <2>1 DEF Unstage
<1>11. CASE CreateTapUnbridged(p)
  <2>1. proc[p].sb.tap \in Taps /\ proc[p].id \in Ids BY <1>11, <1>d DEF CreateTapUnbridged
  <2>2. taps' \in {taps, taps \cup {[tap |-> proc[p].sb.tap, owner |-> proc[p].id, bridged |-> FALSE]}}
    BY <1>11 DEF CreateTapUnbridged
  <2>3. TapsOK' BY <2>1, <2>2, TapAdded
  <2> QED BY <1>11, <2>3 DEF CreateTapUnbridged, DisksTyped, VmsTyped, FilesTyped, MemoryTyped, EnvOK
<1>12. CASE StartClone(p)
  <2> DEFINE sb == proc[p].sb
             s == proc[p].snap
             mem == files[s.id].mem
  <2>1. CASE mem # Absent /\ \E d \in Bootable(sb) : vms' = vms \cup {Launched(sb, d, s.ip, sb.ip, mem)}
    <3>1. sb \in Sandbox /\ mem \in Content /\ s.ip \in IPs /\ sb.ip \in IPs
      BY <1>12, <1>c, <1>d, <2>1 DEF StartClone
    <3>2. PICK d \in taps : vms' = vms \cup {Launched(sb, d, s.ip, sb.ip, mem)} BY <2>1 DEF Bootable
    <3>3. VmsTyped' BY <3>1, <3>2, LaunchKeeps
    <3> QED BY <1>12, <3>3 DEF StartClone, TapsOK, DisksTyped, FilesTyped, MemoryTyped, EnvOK
  <2> QED BY <1>12, <1>b, <2>1 DEF StartClone
<1>13. CASE AttachTapToBridge(p)
  <2>1. \A d \in taps : [d EXCEPT !.bridged = TRUE] \in [tap : Taps, owner : Ids, bridged : BOOLEAN] BY DEF TapsOK
  <2>2. \A d \in taps' : d \in taps \/ \E e \in taps : d = [e EXCEPT !.bridged = TRUE]
    BY <1>13 DEF AttachTapToBridge
  <2>3. TapsOK' BY <2>1, <2>2 DEF TapsOK
  <2> QED BY <1>13, <2>3 DEF AttachTapToBridge, DisksTyped, VmsTyped, FilesTyped, MemoryTyped, EnvOK
<1>14. CASE StopClone(p)
  <2>1. VmsTyped' BY <1>14, VmsKept DEF StopClone
  <2> QED BY <1>14, <2>1 DEF StopClone, TapsOK, DisksTyped, FilesTyped, MemoryTyped, EnvOK
<1> QED BY <1>1, <1>2, <1>3, <1>4, <1>5, <1>6, <1>7, <1>8, <1>9, <1>10, <1>11, <1>12, <1>13, <1>14 DEF SnapStep

\* Requests.
LEMMA ArrivalHost == ASSUME SnapInv, (Arrival /\ UNCHANGED files) \/ SnapArrival PROVE HostTyped'
<1> USE DEF SnapInv, HostTyped, hostVars, envVars
<1>a. 0 \in Content BY SnapshotsAssumption DEF Content
<1>1. ASSUME NEW p \in Requests, NEW timeout \in Timeouts, PrepareRootfs(p, timeout), UNCHANGED files
      PROVE  HostTyped'
  <2>1. /\ nextId \in Ids /\ nextId' = nextId + 1 /\ now' = now /\ crashes' = crashes
        /\ disks' = WithFile(nextId, 0) \/ disks' = disks
    BY <1>1 DEF PrepareRootfs
  <2>2. EnvOK' BY <2>1, CardinalityIds DEF EnvOK
  <2>3. CASE disks' = WithFile(nextId, 0)
    <3>1. DisksTyped' BY <1>a, <2>1, <2>3, FileKeeps
    <3> QED BY <1>1, <2>2, <3>1 DEF PrepareRootfs, TapsOK, VmsTyped, FilesTyped, MemoryTyped
  <2>4. CASE disks' = disks
    BY <1>1, <2>2, <2>4 DEF PrepareRootfs, TapsOK, DisksTyped, VmsTyped, FilesTyped, MemoryTyped
  <2> QED BY <2>1, <2>3, <2>4
<1>2. CASE UNCHANGED <<taps, disks, vms, machines, todo, now, nextId, crashes, files>>
  BY <1>2 DEF TapsOK, DisksTyped, VmsTyped, FilesTyped, MemoryTyped, EnvOK
<1>3. ASSUME NEW p \in Requests, NEW id \in Ids, NEW sid \in SnapIds, SnapshotArrives(p, id, sid) PROVE HostTyped'
  <2>1. FilesTyped' BY <1>3, <1>a, FilesKept DEF SnapshotArrives
  <2> QED BY <1>3, <2>1 DEF SnapshotArrives, TapsOK, DisksTyped, VmsTyped, MemoryTyped, EnvOK
<1>4. ASSUME NEW p \in Requests, NEW s \in snapshots, NEW timeout \in Timeouts, RestoreArrives(p, s, timeout)
      PROVE  HostTyped'
  <2>1. EnvOK' BY <1>4, CardinalityIds DEF RestoreArrives, EnvOK
  <2> QED BY <1>4, <2>1 DEF RestoreArrives, TapsOK, DisksTyped, VmsTyped, FilesTyped, MemoryTyped
<1>5. ASSUME NEW p \in Requests, NEW s \in snapshots, NEW n \in Counts, NEW timeout \in Timeouts,
             FanoutArrives(p, s, n, timeout)
      PROVE  HostTyped'
  <2>1. n \in Int /\ n > 0 BY SnapshotsAssumption
  <2>2. nextId \in Int /\ 1 <= nextId BY CardinalityIds DEF EnvOK
  <2>3. nextId' = nextId + n /\ now' = now /\ crashes' = crashes /\ (nextId .. nextId + n - 1) \subseteq Clones
    BY <1>5 DEF FanoutArrives
  <2>4. nextId + n - 1 \in Ids
    <3>1. nextId + n - 1 \in nextId .. nextId + n - 1 BY <2>1, <2>2
    <3> QED BY <2>3, <3>1, LifecycleAssumption
  <2>5. EnvOK' BY <2>1, <2>2, <2>3, <2>4, CardinalityIds DEF EnvOK
  <2> QED BY <1>5, <2>5 DEF FanoutArrives, TapsOK, DisksTyped, VmsTyped, FilesTyped, MemoryTyped
<1>6. CASE Arrival /\ UNCHANGED files BY <1>1, <1>2, <1>6 DEF Arrival, DestroyArrives, ExposeArrives
<1>7. CASE SnapArrival BY <1>2, <1>3, <1>4, <1>5, <1>7 DEF SnapArrival, DeleteSnapshotRow
<1> QED BY <1>6, <1>7

\* Every step of the host.
LEMMA NextHost == ASSUME SnapInv, [SnapNext]_allVars PROVE HostTyped'
<1>1. ASSUME NEW p \in Goroutines, (Step(p) /\ UNCHANGED files) \/ SnapStep(p) PROVE HostTyped'
  BY <1>1, StepHost, SnapStepHost
<1>2. CASE (Arrival /\ UNCHANGED files) \/ SnapArrival BY <1>2, ArrivalHost
<1> USE DEF SnapInv, HostTyped, hostVars, memVars, envVars
<1>3. CASE UNCHANGED <<taps, disks, vms, machines, todo, now, nextId, crashes, files>>
  BY <1>3 DEF TapsOK, DisksTyped, VmsTyped, FilesTyped, MemoryTyped, EnvOK
<1>4. CASE UNCHANGED files /\ (ReaperTick \/ ReapNext \/ Restart)
  <2>1. todo' \subseteq Ids
    <3>1. \A r \in sandboxes : r.id \in Ids BY DEF RegInv, RegTypeOK, Sandbox
    <3>2. Expired(now) \subseteq sandboxes BY DEF Expired
    <3>3. CASE ReaperTick BY <3>1, <3>2, <3>3 DEF ReaperTick
    <3>4. CASE ReapNext BY <3>4 DEF ReapNext, MemoryTyped
    <3>5. CASE Restart BY <3>1, <3>5 DEF Restart
    <3> QED BY <1>4, <3>3, <3>4, <3>5
  <2> QED BY <1>4, <2>1 DEF ReaperTick, ReapNext, Restart, TapsOK, DisksTyped, VmsTyped, FilesTyped, MemoryTyped, EnvOK
<1>5. CASE UNCHANGED files /\ ReconcileNext
  <2>1. todo' \subseteq Ids /\ \A v \in vms' : v \in vms BY <1>5 DEF ReconcileNext, MemoryTyped
  <2>2. VmsTyped' BY <2>1, VmsKept
  <2> QED BY <1>5, <2>1, <2>2 DEF ReconcileNext, TapsOK, DisksTyped, FilesTyped, MemoryTyped, EnvOK
<1>6. CASE UNCHANGED files /\ Stop
  <2>1. VmsTyped' BY <1>6, VmsKept DEF Stop
  <2>2. EnvOK' BY <1>6, LifecycleAssumption DEF Stop, EnvOK
  <2> QED BY <1>6, <2>1, <2>2 DEF Stop, TapsOK, DisksTyped, FilesTyped, MemoryTyped
<1>7. CASE UNCHANGED files /\ Exit
  BY <1>7 DEF Exit, ProcessGone, TapsOK, DisksTyped, VmsTyped, FilesTyped, MemoryTyped, EnvOK
<1>8. CASE UNCHANGED files /\ (Crash \/ Reboot)
  <2>1. EnvOK' BY <1>8, LifecycleAssumption DEF Crash, Reboot, EnvOK
  <2> QED BY <1>8, <2>1 DEF Crash, Reboot, ProcessGone, TapsOK, DisksTyped, VmsTyped, FilesTyped, MemoryTyped
<1>9. CASE UNCHANGED files /\ Tick
  <2>1. EnvOK' BY <1>9, LifecycleAssumption DEF Tick, EnvOK
  <2> QED BY <1>9, <2>1 DEF Tick, TapsOK, DisksTyped, VmsTyped, FilesTyped, MemoryTyped
<1>10. ASSUME NEW v \in vms, VMExit(v), UNCHANGED files PROVE HostTyped'
  <2>1. VmsTyped' BY <1>10, VmsKept DEF VMExit
  <2> QED BY <1>10, <2>1 DEF VMExit, TapsOK, DisksTyped, FilesTyped, MemoryTyped, EnvOK
<1>11. CASE UNCHANGED files /\ (ShutdownAll \/ Listen \/ (\E p \in Requests : Disconnect(p))
                            \/ (\E id \in Ids, timeout \in Timeouts : SetTimeout(id, timeout)))
  BY <1>3, <1>11 DEF ShutdownAll, Listen, Disconnect, SetTimeout
<1>12. ASSUME NEW v \in vms, Thaw(v) PROVE HostTyped'
  <2>1. PICK ip \in {v.mmds, 0} : vms' = Updated(v, [v EXCEPT !.ip = ip]) BY <1>12 DEF Thaw
  <2>2. PICK w : w = [v EXCEPT !.ip = ip] OBVIOUS
  <2>3. w \in VM /\ w.ver \in Content BY <2>2 DEF VmsTyped, VM
  <2>4. VmsTyped' BY <2>1, <2>2, <2>3, VmUpdated
  <2> QED BY <1>12, <2>4 DEF Thaw, TapsOK, DisksTyped, FilesTyped, MemoryTyped, EnvOK
<1>13. ASSUME NEW v \in vms, GuestWrites(v) PROVE HostTyped'
  <2>1. v \in VM /\ v.ver \in Content /\ v.ver < MaxWrites /\ MaxWrites \in Nat
    BY <1>13, SnapshotsAssumption DEF GuestWrites, VmsTyped
  <2>2. PICK c : c = v.ver + 1 OBVIOUS
  <2>3. c \in Content /\ c \in Nat BY <2>1, <2>2 DEF Content
  <2>4. PICK w : w = [v EXCEPT !.ver = c] OBVIOUS
  <2>5. w \in VM /\ w.ver = c BY <2>1, <2>3, <2>4 DEF VM
  <2>6. vms' = Updated(v, w) /\ disks' \in {disks, [disks EXCEPT ![v.disk] = c]}
    BY <1>13, <2>2, <2>4 DEF GuestWrites
  <2>7. VmsTyped' BY <2>3, <2>5, <2>6, VmUpdated
  <2>8. DisksTyped'
    <3>1. disks' = disks \/ /\ DOMAIN disks' = DOMAIN disks
                            /\ \A path \in DOMAIN disks : disks'[path] \in {disks[path], c}
      BY <2>6
    <3> QED BY <2>3, <3>1 DEF DisksTyped, Content
  <2> QED BY <1>13, <2>7, <2>8 DEF GuestWrites, TapsOK, FilesTyped, MemoryTyped, EnvOK
<1>14. CASE UNCHANGED allVars BY <1>3, <1>14 DEF allVars, vars
<1> QED BY <1>1, <1>2, <1>4, <1>5, <1>6, <1>7, <1>8, <1>9, <1>10, <1>11, <1>12, <1>13, <1>14
    DEF SnapNext, Next, Serve, Environment, GuestStep

-----------------------------------------------------------------------------
(* Reconcile *)

\* What a handler's step leaves to reconcile.
LEMMA StepRecovery ==
    ASSUME SnapInv, RegInv', NEW p \in Goroutines, Step(p) \/ SnapStep(p) PROVE RecoveryOK'
<1> USE DEF SnapInv, regVars, envVars
<1>0. /\ Main \in Goroutines /\ Main \notin Workers /\ proc \in [Goroutines -> SnapFrame]
  BY GoroutinesAssumption DEF Goroutines, FramesOK
<1>1. UNCHANGED <<todo, main>> /\ proc[p].pc # "idle"
  <2>1. CASE Step(p)
    BY <2>1 DEF Step, InsertRow, CreateTap, StartVM, AddPortForward, RecordStart, StopForce, StoreMachine,
       WaitForAgent, GetRow, ReadPorts, TakeMachine, WaitVM, RemoveForwards, DeleteTap, RemoveRootfs, DeleteRow,
       AllocatePort, ForwardExtra, UndoPort
  <2>2. CASE SnapStep(p)
    BY <2>2 DEF SnapStep, Pause, WriteMemory, FreezeRootfs, Resume, RecordSnapshot, CleanupSnapshot,
       InsertRestore, CopyRootfs, LoadSnapshot, StatBaked, StageBaked, Unstage, Settle, FanoutDone, CloneRow,
       CloneRootfs, CreateTapUnbridged, StartClone, AttachTapToBridge, ForwardClone, RecordClone, StopClone
  <2> QED BY <2>1, <2>2
<1>2. SnapStep(p) => p # Main
  BY DEF RecoveryOK, ReconcilePCs, SnapStep, Pause, WriteMemory, FreezeRootfs, Resume, RecordSnapshot, CleanupSnapshot,
     InsertRestore, CopyRootfs, LoadSnapshot, StatBaked, StageBaked, Unstage, Settle, FanoutDone, CloneRow,
     CloneRootfs, CreateTapUnbridged, StartClone, AttachTapToBridge, ForwardClone, RecordClone, StopClone
<1>3. CASE p # Main
  <2>1. main \notin {"down", "recover", "abort"} BY <1>1, <1>3 DEF RecoveryOK
  <2>2. proc'[Main] = proc[Main]
    <3>1. CASE Moved(p) BY <1>0, <1>3, <3>1 DEF Moved
    <3>2. ASSUME NEW x, NEW from, NEW y, WithClones(p, x, from, y) PROVE proc'[Main] = proc[Main]
      BY <1>0, <1>3, <3>2 DEF WithClones, ClonesOf
    <3>3. CASE StatBaked(p) \/ StageBaked(p) \/ Settle(p)
      <4>1. CASE GoTo(p, "stage") BY <1>0, <1>3, <4>1 DEF GoTo
      <4>2. CASE \E b : BringUp(p, b) BY <3>2, <4>2 DEF BringUp
      <4> QED BY <3>2, <3>3, <4>1, <4>2 DEF StatBaked, StageBaked, Settle
    <3>4. CASE Step(p) BY <3>1, <3>4, HandlerMoves
    <3>5. CASE SnapStep(p) /\ ~(StatBaked(p) \/ StageBaked(p) \/ Settle(p))
      BY <3>1, <3>5, SnapHandlerMoves DEF SnapStep
    <3> QED BY <3>3, <3>4, <3>5
  <2> QED BY <1>1, <2>1, <2>2 DEF RecoveryOK
<1>4. CASE p = Main
  <2>1. Step(p) /\ Moved(p) BY <1>2, <1>4, HandlerMoves
  <2>2. main \in {"recover", "abort"} BY <1>1, <1>4 DEF RecoveryOK
  <2>3. PICK x \in SnapFrame : /\ proc' = [proc EXCEPT ![Main] = x] /\ x.pc \in ReconcilePCs
                               /\ x = Idle \/ x.id = proc[Main].id
    BY <1>4, <2>1 DEF Moved, RecoveryOK
  <2>4. proc'[Main] = x /\ \A q \in Goroutines \ {Main} : proc'[q] = proc[q] BY <1>0, <2>3
  <2>5. \A r \in sandboxes : r.id # proc[Main].id => r \in sandboxes'
    <3>1. proc[p].pc \in ReconcilePCs BY <1>4 DEF RecoveryOK
    <3>2. CASE DeleteRow(p) BY <1>4, <3>2 DEF DeleteRow, Destroy, Get
    <3>3. CASE ReadPorts(p) \/ TakeMachine(p) \/ WaitVM(p) \/ RemoveForwards(p) \/ DeleteTap(p) \/ RemoveRootfs(p)
      BY <3>3 DEF ReadPorts, TakeMachine, WaitVM, RemoveForwards, DeleteTap, RemoveRootfs
    <3> QED BY <2>1, <3>1, <3>2, <3>3
        DEF ReconcilePCs, Step, InsertRow, CreateTap, StartVM, AddPortForward, RecordStart, StopForce, StoreMachine,
            WaitForAgent, GetRow, AllocatePort, ForwardExtra, UndoPort
  <2>6. \A id \in todo : id # x.id
    <3>1. \A id \in todo : id \in Ids /\ id # 0 BY CardinalityIds DEF HostTyped, MemoryTyped
    <3>2. Idle.id = 0 BY DEF Idle
    <3> QED BY <2>2, <2>3, <3>1, <3>2 DEF RecoveryOK
  <2> QED BY <1>1, <2>2, <2>3, <2>4, <2>5, <2>6 DEF RecoveryOK
<1> QED BY <1>3, <1>4

\* Every step of the host.
LEMMA NextRecovery == ASSUME SnapInv, RegInv', [SnapNext]_allVars PROVE RecoveryOK'
<1> USE DEF SnapInv, regVars, hostVars, memVars, envVars
<1>0. /\ Main \in Goroutines /\ Reaper \in Goroutines /\ Requests \subseteq Goroutines /\ Main \notin Workers
      /\ Main \notin Requests /\ Main # Reaper /\ Main \notin Ids /\ proc \in [Goroutines -> SnapFrame]
  BY GoroutinesAssumption DEF Goroutines, FramesOK
<1>a. \A q \in Goroutines : proc[q].pc = "idle" => proc[q].id = 0 BY DEF FramesOK, SnapLocal
<1>1. ASSUME NEW p \in Goroutines, Step(p) \/ SnapStep(p) PROVE RecoveryOK' BY <1>1, StepRecovery
<1>2. ASSUME main = "serve", main' = main, proc'[Main] = proc[Main] PROVE RecoveryOK' BY <1>2 DEF RecoveryOK
<1>3. CASE Arrival
  <2>1. PICK p \in Requests : main = "serve" /\ main' = main /\ \A q \in Goroutines \ {p} : proc'[q] = proc[q]
    BY <1>0, <1>3 DEF Arrival, PrepareRootfs, DestroyArrives, ExposeArrives
  <2> QED BY <1>0, <1>2, <2>1
<1>4. CASE SnapArrival
  <2>1. ASSUME NEW p \in Requests, NEW s \in snapshots, NEW n \in Counts, NEW timeout \in Timeouts,
               FanoutArrives(p, s, n, timeout)
        PROVE  RecoveryOK'
    <3>1. main = "serve" /\ main' = main BY <2>1 DEF FanoutArrives
    <3>2. proc'[Main] = proc[Main]
      <4>1. Main # p BY <1>0
      <4>2. Main \notin {-id : id \in nextId .. nextId + n - 1} BY <1>0, <2>1 DEF FanoutArrives, Workers
      <4> QED BY <1>0, <2>1, <4>1, <4>2 DEF FanoutArrives
    <3> QED BY <1>2, <3>1, <3>2
  <2>2. CASE \E p \in Requests : main = "serve" /\ main' = main /\ \A q \in Goroutines \ {p} : proc'[q] = proc[q]
    BY <1>0, <1>2, <2>2
  <2>3. ASSUME NEW p \in Requests, NEW id \in Ids, NEW sid \in SnapIds, SnapshotArrives(p, id, sid) PROVE RecoveryOK'
    BY <1>0, <2>2, <2>3 DEF SnapshotArrives
  <2>4. ASSUME NEW p \in Requests, NEW s \in snapshots, DeleteSnapshotRow(p, s) PROVE RecoveryOK'
    BY <1>0, <2>2, <2>4 DEF DeleteSnapshotRow
  <2>5. ASSUME NEW p \in Requests, NEW s \in snapshots, NEW timeout \in Timeouts, RestoreArrives(p, s, timeout)
        PROVE  RecoveryOK'
    BY <1>0, <2>2, <2>5 DEF RestoreArrives
  <2> QED BY <1>4, <2>1, <2>3, <2>4, <2>5 DEF SnapArrival
<1>5. CASE (\E id \in Ids, timeout \in Timeouts : SetTimeout(id, timeout)) \/ ReaperTick
  BY <1>2, <1>5 DEF SetTimeout, ReaperTick
<1>6. CASE ReapNext
  <2>1. \A q \in Goroutines \ {Reaper} : proc'[q] = proc[q] BY <1>0, <1>6 DEF ReapNext
  <2> QED BY <1>0, <1>6, <2>1 DEF ReapNext, RecoveryOK
<1>7. CASE Restart
  <2>1. proc[Main].id = 0 BY <1>0, <1>7, <1>a DEF Restart, RecoveryOK
  <2>2. \A id \in todo' : \E r \in sandboxes : r.id = id BY <1>7 DEF Restart
  <2>3. 0 \notin todo' BY <1>7, CardinalityIds DEF Restart, RegInv, RegTypeOK, Sandbox
  <2> QED BY <1>0, <1>7, <2>1, <2>2, <2>3 DEF Restart, RecoveryOK
<1>8. CASE ReconcileNext
  <2>1. PICK id \in todo :
          /\ todo' = todo \ {id}
          /\ proc'[Main].pc = "read_ports" /\ proc'[Main].id = id
          /\ \A q \in Goroutines \ {Main} : proc'[q] = proc[q]
    BY <1>0, <1>8 DEF ReconcileNext, Idle
  <2> QED BY <1>0, <1>8, <2>1 DEF ReconcileNext, RecoveryOK, ReconcilePCs
<1>9. CASE Listen BY <1>9 DEF Listen, RecoveryOK, IsIdle
<1>10. CASE Stop
  <2>1. proc'[Main].pc = proc[Main].pc /\ proc'[Main].id = proc[Main].id
        /\ \A q \in Goroutines \ {Main} : proc'[q] = proc[q]
    BY <1>0, <1>10 DEF Stop, SnapFrame
  <2> QED BY <1>10, <2>1 DEF Stop, RecoveryOK
<1>11. CASE ShutdownAll
  <2>1. proc'[Main] = proc[Main] BY <1>0, <1>11 DEF ShutdownAll, HostTyped, MemoryTyped
  <2> QED BY <1>11, <2>1 DEF ShutdownAll, RecoveryOK
<1>12. CASE Exit \/ Crash \/ Reboot
  <2>1. main' = "down" /\ \A p \in Goroutines : proc'[p].pc = "idle"
    BY <1>12 DEF Exit, Crash, Reboot, ProcessGone, Idle
  <2> QED BY <1>0, <2>1 DEF RecoveryOK, ReconcilePCs
<1>13. ASSUME NEW p \in Requests, Disconnect(p) PROVE RecoveryOK'
  <2>1. \A q \in Goroutines \ {p} : proc'[q] = proc[q] BY <1>0, <1>13 DEF Disconnect
  <2>2. proc'[p].pc = proc[p].pc BY <1>0, <1>13 DEF Disconnect, SnapFrame
  <2> QED BY <1>0, <1>13, <2>1, <2>2 DEF Disconnect, RecoveryOK
<1>14. ASSUME UNCHANGED <<sandboxes, proc, todo, main>> PROVE RecoveryOK' BY <1>14 DEF RecoveryOK
<1>15. CASE (\E v \in vms : VMExit(v)) \/ Tick \/ GuestStep \/ UNCHANGED allVars
  BY <1>14, <1>15 DEF VMExit, Tick, GuestStep, Thaw, GuestWrites, allVars, vars
<1> QED BY <1>1, <1>3, <1>4, <1>5, <1>6, <1>7, <1>8, <1>9, <1>10, <1>11, <1>12, <1>13, <1>15
    DEF SnapNext, Next, Serve, Environment

-----------------------------------------------------------------------------
(* The invariant and what follows from it *)

\* The server starts on an empty host.
LEMMA InitSnapInv == SnapInit => SnapInv
<1> SUFFICES ASSUME SnapInit PROVE SnapInv OBVIOUS
<1> USE DEF SnapInit, Init
<1>1. RegInv BY RegInitInv
<1>2. FramesOK BY IdleFrame DEF FramesOK
<1>3. FilesTyped
  <2>1. NoDir \in [dir : BOOLEAN, mem : {Absent} \cup Content, disk : {Absent} \cup Content] BY DEF NoDir
  <2> QED BY <2>1 DEF FilesTyped
<1>4. TapsOK /\ DisksTyped /\ VmsTyped /\ MemoryTyped BY DEF TapsOK, DisksTyped, VmsTyped, MemoryTyped
<1>5. EnvOK BY LifecycleAssumption, CardinalityIds DEF EnvOK
<1>6. RecoveryOK BY IdleFrame DEF RecoveryOK, ReconcilePCs, Goroutines
<1>7. PathsOK
  <2>1. \A p \in Goroutines : proc[p].snap = NoRow /\ proc[p].pc \notin NewPCs BY IdleFrame DEF NewPCs
  <2>2. \A path, t : ~Knows(path, t) BY <2>1 DEF Knows, RegInit
  <2> QED BY <2>1, <2>2 DEF PathsOK
<1> QED BY <1>1, <1>2, <1>3, <1>4, <1>5, <1>6, <1>7 DEF SnapInv, HostTyped

\* Hence the invariant always holds.
LEMMA SnapshotsInvariant == SnapSpec => []SnapInv
<1>1. SnapInv /\ [SnapNext]_allVars => SnapInv'
  <2> SUFFICES ASSUME SnapInv, [SnapNext]_allVars PROVE SnapInv' OBVIOUS
  <2>1. RegInv' BY SnapNextTransaction, RegNextInv DEF SnapInv
  <2>2. FramesOK' BY <2>1, NextShifts, ShiftedFrames
  <2>3. HostTyped' BY NextHost
  <2>4. nextId' \in Int BY <2>3, CardinalityIds DEF HostTyped, EnvOK
  <2>5. PathsOK' BY <2>1, <2>4, NextPaths
  <2>6. RecoveryOK' BY <2>1, NextRecovery
  <2> QED BY <2>1, <2>2, <2>3, <2>5, <2>6 DEF SnapInv
<1> QED BY InitSnapInv, <1>1, PTL DEF SnapSpec

\* Snapshots, restores and fan-outs, too, change the tables only through the
\* registry's operations and with the arguments it expects, although snapshot
\* rows and restores are made from rows and snapshots read steps earlier: all
\* that is proved of the registry alone holds of the whole host.
THEOREM SnapshotsUseRegistry == SnapSpec => RegSpec
<1>1. SnapInit => RegInit BY DEF SnapInit, Init
<1> QED BY <1>1, SnapshotsInvariant, SnapNextTransaction, PTL DEF SnapSpec, RegSpec

\* Files and goroutines keep their shape, for any number of clones and snapshots
\* and any interleaving of handlers, crashes and guests.
THEOREM SnapshotsTyped == SnapSpec => []SnapTypeOK
<1>1. SnapInv => SnapTypeOK
  <2> SUFFICES ASSUME SnapInv PROVE SnapTypeOK OBVIOUS
  <2>1. \A p \in Goroutines : proc[p].pc \in PCs \cup SnapPCs /\ proc[p].snap \in Snapshot \cup {NoRow}
    BY DEF SnapInv, FramesOK, SnapFrame, AllPCs
  <2> QED BY <2>1 DEF SnapInv, HostTyped, FilesTyped, DisksTyped, Content, SnapTypeOK
<1> QED BY <1>1, SnapshotsInvariant, PTL

\* Two sandboxes never have one disk file, although restores take the path of
\* their source and no index guards it: whoever knows a path knows it with the
\* same tap, and the tap's index keeps the second row out.  It holds with
\* overlapping calls, every fault and any number of crashes.
THEOREM SnapshotsDiskExclusive == SnapSpec => []DiskExclusive
<1>1. SnapInv => DiskExclusive
  <2> SUFFICES ASSUME SnapInv, NEW r \in sandboxes, NEW s \in sandboxes, r.rootfs = s.rootfs PROVE r = s
    BY DEF DiskExclusive
  <2>1. r.rootfs \in Ids /\ r.tap \in Taps /\ s.tap \in Taps BY DEF SnapInv, RegInv, RegTypeOK, Sandbox
  <2>2. Knows(r.rootfs, r.tap) /\ Knows(r.rootfs, s.tap) BY OldKnow
  <2>3. r.tap = s.tap BY <2>1, <2>2 DEF SnapInv, PathsOK
  <2> QED BY <2>3 DEF SnapInv, RegInv, Exclusive, RowsExclusive
<1> QED BY <1>1, SnapshotsInvariant, PTL

-----------------------------------------------------------------------------
(* How a handler's step moves the goroutines *)

\* From step to step.
Edge(c, d) ==
    \/ c = "insert_row" /\ d \in {"create_tap", "idle"}
    \/ c \in {"create_tap", "start_vm", "copy_rootfs", "clone_rootfs", "create_tap_unbridged", "start_clone",
             "stop_force", "remove_forwards"} /\ d = "delete_tap"
    \/ c = "create_tap" /\ d = "start_vm"
    \/ c = "start_vm" /\ d = "forward"
    \/ c = "forward" /\ d \in {"finish_start", "stop_force"}
    \/ c = "finish_start" /\ d \in {"store", "stop_force"}
    \/ c = "store" /\ d = "wait_agent"
    \/ c = "wait_agent" /\ d \in {"idle", "get_row"}
    \/ c = "get_row" /\ d \in {"idle", "read_ports"}
    \/ c = "read_ports" /\ d = "take_machine"
    \/ c = "take_machine" /\ d \in {"wait_vm", "remove_forwards"}
    \/ c = "wait_vm" /\ d = "remove_forwards"
    \/ c = "delete_tap" /\ d = "remove_rootfs"
    \/ c = "remove_rootfs" /\ d = "delete_row"
    \/ c \in {"delete_row", "add_port", "add_forward", "delete_port", "pause", "resume_failed", "record_snapshot",
             "clean_up_snapshot", "insert_restore", "stage", "finish_clones", "clone_row"} /\ d = "idle"
    \/ c = "add_port" /\ d = "add_forward"
    \/ c = "add_forward" /\ d = "delete_port"
    \/ c = "pause" /\ d = "write_memory"
    \/ c = "write_memory" /\ d \in {"freeze_rootfs", "resume_failed"}
    \/ c = "freeze_rootfs" /\ d \in {"resume", "resume_failed"}
    \/ c = "resume" /\ d = "record_snapshot"
    \/ c = "insert_restore" /\ d = "copy_rootfs"
    \/ c = "copy_rootfs" /\ d = "create_tap"
    \/ c = "stat_baked" /\ d \in {"stage", "bring_up"}
    \/ c = "stage" /\ d = "bring_up"
    \/ c = "bring_up" /\ d = "settle"
    \/ c = "settle" /\ d = "finish_clones"
    \/ c = "clone_row" /\ d = "clone_rootfs"
    \/ c = "clone_rootfs" /\ d = "create_tap_unbridged"
    \/ c = "create_tap_unbridged" /\ d = "start_clone"
    \/ c = "start_clone" /\ d = "loaded"
    \/ c = "bridge" /\ d \in {"forward_clone", "stop_clone"}
    \/ c = "forward_clone" /\ d \in {"record_clone", "stop_clone"}
    \/ c = "record_clone" /\ d \in {"store", "stop_clone"}
    \/ c = "stop_clone" /\ d = "get_row"

\* What a goroutine takes along.
Keeps(x, y) == y.id = x.id /\ y.snap = x.snap /\ y.expires = x.expires
Same(x, y) == Keeps(x, y) /\ y.sb = x.sb /\ y.staged = x.staged
Reads == {"insert_row", "insert_restore", "clone_row", "get_row"}

\* It returns, goes on, turns to a destroy, reads its row, or stages a file.
Goes(p, x, y) ==
    /\ Edge(x.pc, y.pc)
    /\ \/ y = Idle
       \/ Same(x, y) /\ y.pc \notin {"idle", "get_row"} /\ x.pc \notin Reads \cup {"bring_up"}
       \/ y.pc = "get_row" /\ y.id = x.id /\ y.snap = NoRow /\ ~y.staged /\ y.expires = NULL
       \/ x.pc \in Reads /\ y.pc # "idle" /\ Keeps(x, y) /\ y.staged = x.staged
          /\ y.sb \in sandboxes' /\ y.sb.id = y.id
       \/ x.pc \in FanoutPCs /\ y.pc \in FanoutPCs /\ Keeps(x, y)
          /\ (y.staged => x.pc = "stage" /\ y.pc = "bring_up")

\* A clone is started, called off or finished by its fan-out.
CloneGoes(x, y) ==
    \/ y = x
    \/ x.pc = "not_started" /\ (y = Idle \/ (y.pc = "clone_row" /\ Same(x, y)))
    \/ x.pc = "loaded" /\ y.pc = "bridge" /\ Same(x, y)

StepProc(p) ==
    /\ Goes(p, proc[p], proc'[p])
    /\ \A q \in Goroutines \ {p} : proc'[q] = proc[q] \/ (q \in Workers /\ CloneGoes(proc[q], proc'[q]))

\* GoTo, Rollback and Return.
LEMMA JumpGoes ==
    ASSUME FramesOK, NEW p \in Goroutines
    PROVE  /\ \A c : GoTo(p, c) => proc'[p].pc = c /\ Same(proc[p], proc'[p])
                                  /\ \A q \in Goroutines \ {p} : proc'[q] = proc[q]
           /\ Rollback(p) => proc'[p].pc = "delete_tap" /\ Same(proc[p], proc'[p])
                             /\ \A q \in Goroutines \ {p} : proc'[q] = proc[q]
           /\ Return(p) => proc'[p] = Idle /\ \A q \in Goroutines \ {p} : proc'[q] = proc[q]
BY DEF FramesOK, SnapFrame, GoTo, Rollback, Return, Same, Keeps

\* A goroutine that only jumps.
LEMMA JumpSteps ==
    ASSUME FramesOK, NEW p \in Goroutines, NEW c, Edge(proc[p].pc, c), c \notin {"idle", "get_row"},
           proc[p].pc \notin Reads \cup {"bring_up"}, GoTo(p, c)
    PROVE  StepProc(p)
BY JumpGoes DEF StepProc, Goes

\* One that returns.
LEMMA ReturnSteps ==
    ASSUME FramesOK, NEW p \in Goroutines, Edge(proc[p].pc, "idle"), Return(p) PROVE StepProc(p)
<1>1. proc'[p] = Idle /\ Idle.pc = "idle" BY JumpGoes DEF Idle
<1> QED BY <1>1, JumpGoes DEF StepProc, Goes

\* One that rolls back.
LEMMA RollbackSteps ==
    ASSUME FramesOK, NEW p \in Goroutines, Edge(proc[p].pc, "delete_tap"), proc[p].pc \notin Reads, Rollback(p)
    PROVE  StepProc(p)
BY JumpGoes DEF StepProc, Goes, Edge

\* It reads its row, or one it has written.
LEMMA ReadSteps ==
    ASSUME FramesOK, NEW p \in Goroutines, NEW table, table = sandboxes', \E r \in table : r.id = proc[p].id,
           proc[p].pc \in Reads, NEW c, c # "idle", Edge(proc[p].pc, c),
           proc' = [proc EXCEPT ![p].pc = c, ![p].sb = RowOf(proc[p].id, table)]
    PROVE  StepProc(p)
<1>0. PICK sb : sb = RowOf(proc[p].id, table) OBVIOUS
<1>1. sb \in table /\ sb.id = proc[p].id BY <1>0 DEF RowOf
<1>2. /\ proc'[p].pc = c /\ Keeps(proc[p], proc'[p]) /\ proc'[p].sb = sb /\ proc'[p].staged = proc[p].staged
      /\ \A q \in Goroutines \ {p} : proc'[q] = proc[q]
  BY <1>0 DEF FramesOK, SnapFrame, Keeps
<1> QED BY <1>1, <1>2 DEF StepProc, Goes, Keeps

\* It turns to a destroy.
LEMMA DestroySteps ==
    ASSUME FramesOK, NEW p \in Goroutines, Edge(proc[p].pc, "get_row"),
           proc' = [proc EXCEPT ![p] = [Idle EXCEPT !.pc = "get_row", !.id = proc[p].id, !.by = proc[p].by]]
    PROVE  StepProc(p)
<1> DEFINE x == [Idle EXCEPT !.pc = "get_row", !.id = proc[p].id, !.by = proc[p].by]
<1>1. x.pc = "get_row" /\ x.id = proc[p].id /\ x.snap = NoRow /\ ~x.staged /\ x.expires = NULL BY DEF Idle
<1>2. proc'[p] = x /\ \A q \in Goroutines \ {p} : proc'[q] = proc[q] BY DEF FramesOK
<1> HIDE DEF x
<1> QED BY <1>1, <1>2 DEF StepProc, Goes

\* A fan-out moves together with its clones.
LEMMA WithClonesSteps ==
    ASSUME FramesOK, NEW p \in Goroutines, NEW x, NEW from, NEW y, Goes(p, proc[p], x), proc[p].pc # from,
           \A w \in Workers : proc[w].pc = from => CloneGoes(proc[w], y[w]), WithClones(p, x, from, y)
    PROVE  StepProc(p)
<1>1. ASSUME NEW q \in Goroutines
      PROVE  proc'[q] = CASE q = p -> x
                          [] q \in ClonesOf(p) /\ proc[q].pc = from -> y[q]
                          [] OTHER -> proc[q]
  BY DEF WithClones
<1>2. proc'[p] = x BY <1>1 DEF ClonesOf
<1>3. \A q \in Goroutines \ {p} : proc'[q] = proc[q] \/ (q \in Workers /\ proc[q].pc = from /\ proc'[q] = y[q])
  BY <1>1 DEF ClonesOf
<1> QED BY <1>2, <1>3 DEF StepProc

\* A fan-out starts its clones.
LEMMA BringUpSteps ==
    ASSUME FramesOK, NEW p \in Goroutines, NEW b \in BOOLEAN, BringUp(p, b),
           \/ proc[p].pc = "stat_baked" /\ ~b
           \/ proc[p].pc = "stage" /\ b
    PROVE  StepProc(p)
<1> DEFINE x == [proc[p] EXCEPT !.pc = "bring_up", !.staged = b]
           c(w) == [proc[w] EXCEPT !.pc = "clone_row"]
           y == [w \in Workers |-> c(w)]
<1>1. x.pc = "bring_up" /\ Keeps(proc[p], x) /\ x.staged = b BY DEF FramesOK, SnapFrame, Keeps
<1>2. \A w \in Workers : y[w] = c(w) /\ c(w).pc = "clone_row" /\ Same(proc[w], c(w))
  BY DEF FramesOK, SnapFrame, Same, Keeps, Goroutines
<1>3. WithClones(p, x, "not_started", y) BY DEF BringUp
<1> HIDE DEF x, y, c
<1>4. Goes(p, proc[p], x) BY <1>1 DEF Goes, Edge, FanoutPCs
<1>5. \A w \in Workers : proc[w].pc = "not_started" => CloneGoes(proc[w], y[w]) BY <1>2 DEF CloneGoes
<1> QED BY <1>3, <1>4, <1>5, WithClonesSteps

\* A handler's step that is one of Lifecycle's.
LEMMA StepWalks == ASSUME FramesOK, RegInv, NEW p \in Goroutines, Step(p) PROVE StepProc(p)
<1> USE DEF Edge, Reads
<1>1. CASE InsertRow(p)
  <2>1. CASE Return(p) BY <1>1, <2>1, ReturnSteps DEF InsertRow
  <2>2. CASE /\ Create(proc[p].id, proc[p].id, proc[p].expires)
             /\ proc' = [proc EXCEPT ![p].pc = "create_tap", ![p].sb = RowOf(proc[p].id, sandboxes')]
    <3>1. PICK table : table = sandboxes' OBVIOUS
    <3>2. \E r \in table : r.id = proc[p].id BY <2>2, <3>1, CreateInserts
    <3> QED BY <1>1, <2>2, <3>1, <3>2, ReadSteps DEF InsertRow
  <2> QED BY <1>1, <2>1, <2>2 DEF InsertRow
<1>2. CASE CreateTap(p) \/ StartVM(p)
  <2>1. \/ proc[p].pc = "create_tap" /\ (GoTo(p, "start_vm") \/ Rollback(p))
        \/ proc[p].pc = "start_vm" /\ (GoTo(p, "forward") \/ Rollback(p))
    BY <1>2 DEF CreateTap, StartVM
  <2> QED BY <2>1, JumpSteps, RollbackSteps
<1>3. CASE AddPortForward(p) \/ RecordStart(p) \/ StopForce(p)
  <2>1. \/ proc[p].pc = "forward" /\ (GoTo(p, "finish_start") \/ GoTo(p, "stop_force"))
        \/ proc[p].pc = "finish_start" /\ (GoTo(p, "store") \/ GoTo(p, "stop_force"))
        \/ proc[p].pc = "stop_force" /\ Rollback(p)
    BY <1>3 DEF AddPortForward, AddPortForwardTo, RecordStart, StopForce
  <2> QED BY <2>1, JumpSteps, RollbackSteps
<1>4. CASE StoreMachine(p)
  <2>1. proc[p].pc = "store" /\ GoTo(p, "wait_agent") BY <1>4 DEF StoreMachine
  <2> QED BY <2>1, JumpSteps
<1>5. CASE WaitForAgent(p)
  <2>1. CASE Return(p) BY <1>5, <2>1, ReturnSteps DEF WaitForAgent
  <2> QED BY <1>5, <2>1, DestroySteps DEF WaitForAgent
<1>6. CASE GetRow(p)
  <2>1. CASE Return(p) BY <1>6, <2>1, ReturnSteps DEF GetRow
  <2>2. CASE /\ Get(proc[p].id) # {}
             /\ proc' = [proc EXCEPT ![p].pc = "read_ports", ![p].sb = RowOf(proc[p].id, sandboxes)]
    <3>1. sandboxes = sandboxes' /\ \E r \in sandboxes : r.id = proc[p].id BY <1>6, <2>2 DEF Get, GetRow, regVars
    <3> QED BY <1>6, <2>2, <3>1, ReadSteps DEF GetRow
  <2> QED BY <1>6, <2>1, <2>2 DEF GetRow
<1>7. CASE ReadPorts(p)
  <2>1. PICK extra : proc' = [proc EXCEPT ![p].pc = "take_machine", ![p].extra = extra] BY <1>7 DEF ReadPorts
  <2>2. /\ proc'[p].pc = "take_machine" /\ Same(proc[p], proc'[p]) /\ proc[p].pc = "read_ports"
        /\ \A q \in Goroutines \ {p} : proc'[q] = proc[q]
    BY <1>7, <2>1 DEF ReadPorts, FramesOK, SnapFrame, Same, Keeps
  <2> QED BY <2>2 DEF StepProc, Goes
<1>8. CASE TakeMachine(p) \/ WaitVM(p) \/ RemoveForwards(p) \/ DeleteTap(p) \/ RemoveRootfs(p)
  <2>1. \/ proc[p].pc = "take_machine" /\ (GoTo(p, "wait_vm") \/ GoTo(p, "remove_forwards"))
        \/ proc[p].pc = "wait_vm" /\ GoTo(p, "remove_forwards")
        \/ proc[p].pc = "remove_forwards" /\ GoTo(p, "delete_tap")
        \/ proc[p].pc = "delete_tap" /\ GoTo(p, "remove_rootfs")
        \/ proc[p].pc = "remove_rootfs" /\ GoTo(p, "delete_row")
    BY <1>8 DEF TakeMachine, WaitVM, RemoveForwards, DeleteTap, RemoveRootfs
  <2> QED BY <2>1, JumpSteps
<1>9. CASE DeleteRow(p) \/ UndoPort(p) BY <1>9, ReturnSteps DEF DeleteRow, UndoPort
<1>10. CASE AllocatePort(p)
  <2>1. CASE Return(p) BY <1>10, <2>1, ReturnSteps DEF AllocatePort
  <2>2. ASSUME NEW host, proc' = [proc EXCEPT ![p].pc = "add_forward", ![p].host = host] PROVE StepProc(p)
    <3>1. /\ proc'[p].pc = "add_forward" /\ Same(proc[p], proc'[p]) /\ proc[p].pc = "add_port"
          /\ \A q \in Goroutines \ {p} : proc'[q] = proc[q]
      BY <1>10, <2>2 DEF AllocatePort, FramesOK, SnapFrame, Same, Keeps
    <3> QED BY <3>1 DEF StepProc, Goes
  <2> QED BY <1>10, <2>1, <2>2 DEF AllocatePort
<1>11. CASE ForwardExtra(p)
  <2>1. proc[p].pc = "add_forward" /\ (Return(p) \/ GoTo(p, "delete_port"))
    BY <1>11 DEF ForwardExtra, AddPortForwardTo
  <2> QED BY <2>1, ReturnSteps, JumpSteps
<1> QED BY <1>1, <1>2, <1>3, <1>4, <1>5, <1>6, <1>7, <1>8, <1>9, <1>10, <1>11 DEF Step

\* A handler's step of snapshot.go.
LEMMA SnapStepWalks == ASSUME FramesOK, RegInv, NEW p \in Goroutines, SnapStep(p) PROVE StepProc(p)
<1> USE DEF Edge, Reads
<1>1. CASE Pause(p)
  <2>1. proc[p].pc = "pause" /\ (GoTo(p, "write_memory") \/ Return(p)) BY <1>1 DEF Pause
  <2> QED BY <2>1, JumpSteps, ReturnSteps
<1>2. CASE WriteMemory(p) \/ FreezeRootfs(p)
  <2>1. \/ proc[p].pc = "write_memory" /\ (GoTo(p, "freeze_rootfs") \/ GoTo(p, "resume_failed"))
        \/ proc[p].pc = "freeze_rootfs" /\ (GoTo(p, "resume") \/ GoTo(p, "resume_failed"))
    BY <1>2 DEF WriteMemory, FreezeRootfs
  <2> QED BY <2>1, JumpSteps
<1>3. CASE Resume(p)
  <2>1. \/ proc[p].pc = "resume" /\ GoTo(p, "record_snapshot")
        \/ proc[p].pc = "resume_failed" /\ Return(p)
    BY <1>3 DEF Resume
  <2> QED BY <2>1, JumpSteps, ReturnSteps
<1>4. CASE RecordSnapshot(p) \/ CleanupSnapshot(p) \/ FanoutDone(p)
  <2>1. proc[p].pc \in {"record_snapshot", "clean_up_snapshot", "finish_clones"} /\ Return(p)
    BY <1>4 DEF RecordSnapshot, CleanupSnapshot, FanoutDone
  <2> QED BY <2>1, ReturnSteps
<1>5. CASE InsertRestore(p)
  <2> DEFINE s == proc[p].snap
  <2>1. CASE Return(p) BY <1>5, <2>1, ReturnSteps DEF InsertRestore
  <2>2. CASE /\ CreateRestore(proc[p].id, s.rootfs, s.tap, s.ip, proc[p].expires)
             /\ proc' = [proc EXCEPT ![p].pc = "copy_rootfs", ![p].sb = RowOf(proc[p].id, sandboxes')]
    <3>1. PICK table : table = sandboxes' OBVIOUS
    <3>2. \E r \in table : r.id = proc[p].id BY <2>2, <3>1, RestoreInserts
    <3> QED BY <1>5, <2>2, <3>1, <3>2, ReadSteps DEF InsertRestore
  <2> QED BY <1>5, <2>1, <2>2 DEF InsertRestore
<1>6. CASE CopyRootfs(p) \/ LoadSnapshot(p)
  <2>1. \/ proc[p].pc = "copy_rootfs" /\ (GoTo(p, "create_tap") \/ Rollback(p))
        \/ proc[p].pc = "start_vm" /\ (GoTo(p, "forward") \/ Rollback(p))
    BY <1>6 DEF CopyRootfs, LoadSnapshot
  <2> QED BY <2>1, JumpSteps, RollbackSteps
<1>7. CASE StatBaked(p)
  <2>1. proc[p].pc = "stat_baked" /\ (BringUp(p, FALSE) \/ GoTo(p, "stage")) BY <1>7 DEF StatBaked
  <2> QED BY <2>1, BringUpSteps, JumpSteps
<1>8. CASE StageBaked(p)
  <2> DEFINE y == [w \in Workers |-> Idle]
  <2>1. proc[p].pc = "stage" /\ (BringUp(p, TRUE) \/ WithClones(p, Idle, "not_started", y))
    BY <1>8 DEF StageBaked
  <2>2. \A w \in Workers : proc[w].pc = "not_started" => CloneGoes(proc[w], y[w]) BY DEF CloneGoes
  <2>3. Goes(p, proc[p], Idle)
    <3>1. Idle.pc = "idle" BY DEF Idle
    <3> QED BY <2>1, <3>1 DEF Goes
  <2> HIDE DEF y
  <2> QED BY <2>1, <2>2, <2>3, BringUpSteps, WithClonesSteps
<1>9. CASE Unstage(p)
  <2>1. /\ proc'[p].pc = "settle" /\ proc[p].pc = "bring_up" /\ Keeps(proc[p], proc'[p]) /\ ~proc'[p].staged
        /\ \A q \in Goroutines \ {p} : proc'[q] = proc[q]
    BY <1>9 DEF Unstage, FramesOK, SnapFrame, Keeps
  <2> QED BY <2>1 DEF StepProc, Goes, FanoutPCs
<1>10. CASE Settle(p)
  <2> DEFINE x == [proc[p] EXCEPT !.pc = "finish_clones"]
             c(w) == [proc[w] EXCEPT !.pc = "bridge", !.ctx = "parent"]
             y == [w \in Workers |-> c(w)]
  <2>1. proc[p].pc = "settle" /\ WithClones(p, x, "loaded", y) BY <1>10 DEF Settle
  <2>2. x.pc = "finish_clones" /\ Same(proc[p], x) BY DEF FramesOK, SnapFrame, Same, Keeps
  <2>3. \A w \in Workers : y[w] = c(w) /\ c(w).pc = "bridge" /\ Same(proc[w], c(w))
    BY DEF FramesOK, SnapFrame, Same, Keeps, Goroutines
  <2> HIDE DEF x, y, c
  <2>4. Goes(p, proc[p], x) BY <2>1, <2>2 DEF Goes
  <2>5. \A w \in Workers : proc[w].pc = "loaded" => CloneGoes(proc[w], y[w]) BY <2>3 DEF CloneGoes
  <2> QED BY <2>1, <2>4, <2>5, WithClonesSteps
<1>11. CASE CloneRow(p)
  <2>1. CASE Return(p) BY <1>11, <2>1, ReturnSteps DEF CloneRow
  <2>2. CASE /\ Create(proc[p].id, proc[p].id, proc[p].expires)
             /\ proc' = [proc EXCEPT ![p].pc = "clone_rootfs", ![p].sb = RowOf(proc[p].id, sandboxes')]
    <3>1. PICK table : table = sandboxes' OBVIOUS
    <3>2. \E r \in table : r.id = proc[p].id BY <2>2, <3>1, CreateInserts
    <3> QED BY <1>11, <2>2, <3>1, <3>2, ReadSteps DEF CloneRow
  <2> QED BY <1>11, <2>1, <2>2 DEF CloneRow
<1>12. CASE CloneRootfs(p) \/ CreateTapUnbridged(p) \/ StartClone(p)
  <2>1. \/ proc[p].pc = "clone_rootfs" /\ (GoTo(p, "create_tap_unbridged") \/ Rollback(p))
        \/ proc[p].pc = "create_tap_unbridged" /\ (GoTo(p, "start_clone") \/ Rollback(p))
        \/ proc[p].pc = "start_clone" /\ (GoTo(p, "loaded") \/ Rollback(p))
    BY <1>12 DEF CloneRootfs, CreateTapUnbridged, StartClone
  <2> QED BY <2>1, JumpSteps, RollbackSteps
<1>13. CASE AttachTapToBridge(p) \/ ForwardClone(p) \/ RecordClone(p)
  <2>1. \/ proc[p].pc = "bridge" /\ (GoTo(p, "forward_clone") \/ GoTo(p, "stop_clone"))
        \/ proc[p].pc = "forward_clone" /\ (GoTo(p, "record_clone") \/ GoTo(p, "stop_clone"))
        \/ proc[p].pc = "record_clone" /\ (GoTo(p, "store") \/ GoTo(p, "stop_clone"))
    BY <1>13 DEF AttachTapToBridge, ForwardClone, AddPortForwardTo, RecordClone
  <2> QED BY <2>1, JumpSteps
<1>14. CASE StopClone(p) BY <1>14, DestroySteps DEF StopClone
<1> QED BY <1>1, <1>2, <1>3, <1>4, <1>5, <1>6, <1>7, <1>8, <1>9, <1>10, <1>11, <1>12, <1>13, <1>14 DEF SnapStep

-----------------------------------------------------------------------------
(* What a handler's step changes *)

Handles(p) == (Step(p) /\ UNCHANGED files) \/ SnapStep(p)

\* A handler's step moves the goroutines.
LEMMA HandlerWalks == ASSUME SnapInv, NEW p \in Goroutines, Handles(p) PROVE StepProc(p)
BY StepWalks, SnapStepWalks DEF SnapInv, Handles

\* It leaves the loops, the phase, the clock and the count of crashes alone.
StepElsewhere == UNCHANGED <<todo, main, now, nextId, crashes>>

\* So every step of a handler does.
LEMMA ElsewhereStep == ASSUME NEW p \in Goroutines, Handles(p) PROVE StepElsewhere
<1> USE DEF StepElsewhere, envVars
<1>1. CASE Step(p)
  BY <1>1 DEF Step, InsertRow, CreateTap, StartVM, AddPortForward, RecordStart, StopForce, StoreMachine,
     WaitForAgent, GetRow, ReadPorts, TakeMachine, WaitVM, RemoveForwards, DeleteTap, RemoveRootfs, DeleteRow,
     AllocatePort, ForwardExtra, UndoPort
<1>2. CASE SnapStep(p)
  BY <1>2 DEF SnapStep, Pause, WriteMemory, FreezeRootfs, Resume, RecordSnapshot, CleanupSnapshot,
     InsertRestore, CopyRootfs, LoadSnapshot, StatBaked, StageBaked, Unstage, Settle, FanoutDone, CloneRow,
     CloneRootfs, CreateTapUnbridged, StartClone, AttachTapToBridge, ForwardClone, RecordClone, StopClone
<1> QED BY <1>1, <1>2 DEF Handles

\* Rows keep what they hold.  One is added for the goroutine's sandbox, with its own
\* path or its snapshot's, or the goroutine's own is deleted.
SameSandbox(r, s) == r.id = s.id /\ r.tap = s.tap /\ r.ip = s.ip /\ r.rootfs = s.rootfs
Inserts == {"insert_row", "insert_restore", "clone_row"}
StepRows(p) ==
    LET x == proc[p] IN
    /\ \A r \in sandboxes' :
          \/ \E s \in sandboxes : SameSandbox(r, s) /\ r.expires = s.expires
          \/ /\ x.pc \in Inserts /\ r.id = x.id /\ r.expires = x.expires
             /\ r.rootfs = IF x.pc = "insert_restore" THEN x.snap.rootfs ELSE x.id
    /\ \A s \in sandboxes : (\E r \in sandboxes' : SameSandbox(r, s)) \/ (x.pc = "delete_row" /\ s.id = x.id)
    /\ x.pc \in Inserts /\ proc'[p].pc # "idle" => \A s \in sandboxes : s.id # x.id
\* No snapshot goes; a new one is the goroutine's.
StepSnaps(p) ==
    /\ snapshots \subseteq snapshots'
    /\ \A s \in snapshots' :
          \/ s \in snapshots
          \/ /\ proc[p].pc = "record_snapshot" /\ files' = files
             /\ s.id = proc[p].snap.id /\ s.rootfs = proc[p].sb.rootfs

\* A row is inserted.
LEMMA InsertRows ==
    ASSUME NEW p \in Goroutines, NEW row, InsertSandbox(row), row.id = proc[p].id, proc[p].pc \in Inserts,
           row.expires = proc[p].expires,
           row.rootfs = IF proc[p].pc = "insert_restore" THEN proc[p].snap.rootfs ELSE proc[p].id
    PROVE  StepRows(p)
BY DEF StepRows, InsertSandbox, Inserts, SameSandbox

\* Create inserts one.
LEMMA CreateRows ==
    ASSUME NEW p \in Goroutines, proc[p].pc \in {"insert_row", "clone_row"},
           Create(proc[p].id, proc[p].id, proc[p].expires)
    PROVE  StepRows(p)
<1> DEFINE row(t, a, h) == [id |-> proc[p].id, pid |-> NoPid, tap |-> t, ip |-> a, port |-> h,
                            rootfs |-> proc[p].id, expires |-> proc[p].expires]
<1>1. PICK t \in Taps, a \in IPs, h \in HostPorts : InsertSandbox(row(t, a, h)) BY DEF Create
<1>2. /\ row(t, a, h).id = proc[p].id /\ row(t, a, h).rootfs = proc[p].id
      /\ row(t, a, h).expires = proc[p].expires
  OBVIOUS
<1> HIDE DEF row
<1> QED BY <1>1, <1>2, InsertRows DEF Inserts

\* So does CreateRestore.
LEMMA RestoreRows ==
    ASSUME NEW p \in Goroutines, proc[p].pc = "insert_restore", NEW tap, NEW ip,
           CreateRestore(proc[p].id, proc[p].snap.rootfs, tap, ip, proc[p].expires)
    PROVE  StepRows(p)
<1> DEFINE row(h) == [id |-> proc[p].id, pid |-> NoPid, tap |-> tap, ip |-> ip, port |-> h,
                      rootfs |-> proc[p].snap.rootfs, expires |-> proc[p].expires]
<1>1. PICK h \in HostPorts : InsertSandbox(row(h)) BY DEF CreateRestore
<1>2. row(h).id = proc[p].id /\ row(h).rootfs = proc[p].snap.rootfs /\ row(h).expires = proc[p].expires OBVIOUS
<1> HIDE DEF row
<1> QED BY <1>1, <1>2, InsertRows DEF Inserts

\* FinishStart leaves a row its resources.
LEMMA FinishRows ==
    ASSUME RegInv, NEW p \in Goroutines, NEW id, NEW pid, FinishStart(id, pid), proc[p].pc \notin Inserts
    PROVE  StepRows(p)
<1> DEFINE new(r) == IF r.id = id THEN [r EXCEPT !.pid = pid] ELSE r
<1>1. sandboxes' = {new(r) : r \in sandboxes} BY DEF FinishStart
<1>2. \A r \in sandboxes : SameSandbox(new(r), r) /\ new(r).expires = r.expires
  BY DEF RegInv, RegTypeOK, Sandbox, SameSandbox
<1> HIDE DEF new
<1> QED BY <1>1, <1>2 DEF StepRows

\* No row changes.
LEMMA SameRows ==
    ASSUME NEW p \in Goroutines, UNCHANGED sandboxes,
           proc[p].pc \in Inserts => proc'[p].pc = "idle" \/ \A s \in sandboxes : s.id # proc[p].id
    PROVE  StepRows(p)
BY DEF StepRows, SameSandbox

\* Every handler's step.
LEMMA RowsStep == ASSUME SnapInv, NEW p \in Goroutines, Handles(p) PROVE StepRows(p)
<1>0. RegInv /\ FramesOK BY DEF SnapInv
<1>a. Return(p) => proc'[p].pc = "idle" BY <1>0, JumpGoes DEF Idle
<1>1. CASE InsertRow(p)
  <2>1. CASE Create(proc[p].id, proc[p].id, proc[p].expires) BY <1>1, <2>1, CreateRows DEF InsertRow
  <2> QED BY <1>1, <1>a, <2>1, SameRows DEF InsertRow, regVars
<1>2. CASE CloneRow(p)
  <2>1. CASE Create(proc[p].id, proc[p].id, proc[p].expires) BY <1>2, <2>1, CreateRows DEF CloneRow
  <2> QED BY <1>2, <1>a, <2>1, SameRows DEF CloneRow, regVars
<1>3. CASE InsertRestore(p)
  <2> DEFINE s == proc[p].snap
  <2>1. CASE CreateRestore(proc[p].id, s.rootfs, s.tap, s.ip, proc[p].expires)
    BY <1>3, <2>1, RestoreRows DEF InsertRestore
  <2> QED BY <1>3, <1>a, <2>1, SameRows DEF InsertRestore, regVars
<1>4. CASE RecordStart(p)
  <2>0. proc[p].pc \notin Inserts BY <1>4 DEF RecordStart, Inserts
  <2>1. CASE FinishStart(proc[p].sb.id, proc[p].sb.id) BY <1>0, <2>0, <2>1, FinishRows
  <2> QED BY <1>4, <2>0, <2>1, SameRows DEF RecordStart, regVars
<1>5. CASE RecordClone(p)
  <2>0. proc[p].pc \notin Inserts BY <1>5 DEF RecordClone, Inserts
  <2>1. CASE FinishStart(proc[p].id, proc[p].id) BY <1>0, <2>0, <2>1, FinishRows
  <2> QED BY <1>5, <2>0, <2>1, SameRows DEF RecordClone, regVars
<1>6. CASE DeleteRow(p)
  <2>0. proc[p].pc \notin Inserts BY <1>6 DEF DeleteRow, Inserts
  <2>1. CASE Destroy(proc[p].id) BY <1>6, <2>1 DEF StepRows, SameSandbox, DeleteRow, Destroy, Get, Inserts
  <2> QED BY <1>6, <2>0, <2>1, SameRows DEF DeleteRow, regVars
<1>7. CASE \/ CreateTap(p) \/ StartVM(p) \/ AddPortForward(p)
           \/ StopForce(p) \/ StoreMachine(p) \/ WaitForAgent(p)
           \/ GetRow(p) \/ ReadPorts(p) \/ TakeMachine(p) \/ WaitVM(p)
           \/ RemoveForwards(p) \/ DeleteTap(p) \/ RemoveRootfs(p) \/ ForwardExtra(p)
           \/ AllocatePort(p) \/ UndoPort(p)
  <2>1. UNCHANGED sandboxes /\ proc[p].pc \notin Inserts
    BY <1>7 DEF CreateTap, StartVM, AddPortForward, StopForce, StoreMachine, WaitForAgent, GetRow,
        ReadPorts, TakeMachine, WaitVM, RemoveForwards, DeleteTap, RemoveRootfs, ForwardExtra,
        AllocatePort, UndoPort, AddPort, DeletePort, regVars, Inserts
  <2> QED BY <2>1, SameRows
<1>8. CASE \/ Pause(p) \/ WriteMemory(p) \/ FreezeRootfs(p) \/ Resume(p) \/ RecordSnapshot(p) \/ CleanupSnapshot(p)
           \/ CopyRootfs(p) \/ LoadSnapshot(p) \/ StatBaked(p) \/ StageBaked(p) \/ Unstage(p) \/ Settle(p)
           \/ FanoutDone(p) \/ CloneRootfs(p) \/ CreateTapUnbridged(p) \/ StartClone(p)
           \/ AttachTapToBridge(p) \/ ForwardClone(p) \/ StopClone(p)
  <2>1. UNCHANGED sandboxes /\ proc[p].pc \notin Inserts
    BY <1>8 DEF Pause, WriteMemory, FreezeRootfs, Resume, RecordSnapshot, CreateSnapshot, CleanupSnapshot, CopyRootfs,
        LoadSnapshot, StatBaked, StageBaked, Unstage, Settle, FanoutDone, CloneRootfs, CreateTapUnbridged,
        StartClone, AttachTapToBridge, ForwardClone, StopClone, regVars, Inserts
  <2> QED BY <2>1, SameRows
<1> QED BY <1>1, <1>2, <1>3, <1>4, <1>5, <1>6, <1>7, <1>8 DEF Handles, Step, SnapStep

\* Only RecordSnapshot adds to the snapshots.
LEMMA SnapsStep == ASSUME NEW p \in Goroutines, Handles(p) PROVE StepSnaps(p)
<1>1. CASE RecordSnapshot(p)
  <2> DEFINE s == [id |-> proc[p].snap.id, source |-> proc[p].sb.id, tap |-> proc[p].sb.tap,
                   ip |-> proc[p].sb.ip, rootfs |-> proc[p].sb.rootfs]
  <2>1. /\ proc[p].pc = "record_snapshot"
        /\ UNCHANGED snapshots \/ (snapshots' = snapshots \cup {s} /\ UNCHANGED files)
    BY <1>1 DEF RecordSnapshot, CreateSnapshot, regVars
  <2>2. s.id = proc[p].snap.id /\ s.rootfs = proc[p].sb.rootfs OBVIOUS
  <2> HIDE DEF s
  <2> QED BY <2>1, <2>2 DEF StepSnaps
<1>2. CASE UNCHANGED snapshots BY <1>2 DEF StepSnaps
<1>3. CASE Step(p)
  BY <1>2, <1>3 DEF Step, InsertRow, CreateTap, StartVM, AddPortForward, RecordStart, StopForce, StoreMachine,
     WaitForAgent, GetRow, ReadPorts, TakeMachine, WaitVM, RemoveForwards, DeleteTap, RemoveRootfs, DeleteRow,
     AllocatePort, ForwardExtra, UndoPort, Create, FinishStart, Destroy, AddPort, DeletePort, regVars
<1>4. CASE SnapStep(p)
  BY <1>1, <1>2, <1>4 DEF SnapStep, Pause, WriteMemory, FreezeRootfs, Resume, CleanupSnapshot,
     InsertRestore, CopyRootfs, LoadSnapshot, StatBaked, StageBaked, Unstage, Settle, FanoutDone, CloneRow,
     CloneRootfs, CreateTapUnbridged, StartClone, AttachTapToBridge, ForwardClone, RecordClone, StopClone,
     Create, CreateRestore, FinishStart, regVars
<1> QED BY <1>3, <1>4 DEF Handles

\* A VM keeps what it is.  A snapshot pauses and resumes it, its file may be
\* unlinked, and the VM of the goroutine's sandbox may be started.
Unlinks(x, path) ==
    \/ x.pc = "remove_rootfs" /\ path = x.sb.rootfs
    \/ x.pc = "bring_up" /\ x.staged /\ path = x.snap.rootfs
VmKept(x, y, v, w) ==
    /\ w.id = v.id /\ w.tap = v.tap /\ w.ip = v.ip /\ w.mmds = v.mmds /\ w.dev = v.dev /\ w.run = v.run
    /\ w.ver = v.ver
    /\ w.disk = v.disk \/ (w.disk = 0 /\ Unlinks(x, v.disk))
    /\ \/ w.paused = v.paused
       \/ ~w.paused /\ x.pc \in {"resume", "resume_failed"} /\ w.id = x.id
       \/ w.paused /\ x.pc = "pause" /\ w.id = x.id /\ (y.pc = "write_memory" \/ Fault("late_pause"))
VmNew(x, y, w) ==
    /\ (x.pc = "start_vm" /\ y.pc = "forward") \/ (x.pc = "start_clone" /\ y.pc = "loaded")
    /\ main = "serve" /\ w.id = x.sb.id /\ w.tap = x.sb.tap /\ w.disk = x.sb.rootfs /\ x.sb.rootfs \in DOMAIN disks
    /\ w.run = crashes /\ w.paused = FALSE
    /\ w.ver = IF x.snap = NoRow THEN 0 ELSE files[x.snap.id].mem
    /\ x.snap # NoRow => files[x.snap.id].mem # Absent
    /\ w.ip = IF x.snap = NoRow THEN x.sb.ip ELSE x.snap.ip
    /\ w.mmds = IF x.pc = "start_clone" THEN x.sb.ip ELSE 0
    /\ \E d \in Bootable(x.sb) : w.dev = d.owner
OneVM == \A v, w \in vms : v.id = w.id => v = w
StepVms(p) ==
    LET x == proc[p]
        y == proc'[p] IN
    /\ \A w \in vms' : (\E v \in vms : VmKept(x, y, v, w)) \/ VmNew(x, y, w)
    /\ \A v \in vms : \/ \E w \in vms' : VmKept(x, y, v, w)
                      \/ x.pc \in {"stop_force", "wait_vm", "stop_clone"} /\ v.id = x.id
    /\ \A w \in vms' : w.id = x.id => /\ x.pc \notin {"stop_force", "wait_vm", "stop_clone"}
                                      /\ x.pc \in {"resume", "resume_failed"} => ~w.paused
                                      /\ x.pc = "pause" /\ y.pc = "write_memory" /\ OneVM => w.paused
    /\ \A w \in vms' : x.pc = "remove_rootfs" => w.disk # x.sb.rootfs
    /\ OneVM /\ (x.pc \in {"start_vm", "start_clone"} => \A v \in vms : v.id # x.sb.id) => OneVM'

\* No VM changes.
LEMMA SameVms ==
    ASSUME NEW p \in Goroutines, UNCHANGED vms,
           proc[p].pc \notin {"stop_force", "wait_vm", "stop_clone", "resume", "resume_failed", "remove_rootfs"},
           proc[p].pc = "pause" => proc'[p].pc # "write_memory"
    PROVE  StepVms(p)
<1>1. \A v \in vms : VmKept(proc[p], proc'[p], v, v) BY DEF VmKept
<1>2. OneVM => OneVM' BY DEF OneVM
<1> QED BY <1>1, <1>2 DEF StepVms

\* VMs are killed.
LEMMA FewerVms ==
    ASSUME NEW p \in Goroutines, vms' = {v \in vms : v.id # proc[p].id},
           proc[p].pc \in {"stop_force", "wait_vm", "stop_clone"}
    PROVE  StepVms(p)
<1>1. \A v \in vms : VmKept(proc[p], proc'[p], v, v) BY DEF VmKept
<1>2. OneVM => OneVM' BY DEF OneVM
<1> QED BY <1>1, <1>2 DEF StepVms

\* A file is unlinked.
LEMMA UnlinkVms ==
    ASSUME SnapInv, NEW p \in Goroutines, NEW path \in Ids, Unlink(path), Unlinks(proc[p], path)
    PROVE  StepVms(p)
<1> DEFINE new(v) == IF v.disk = path THEN [v EXCEPT !.disk = 0] ELSE v
<1>0. \A v \in vms : v \in VM BY DEF SnapInv, HostTyped, VmsTyped
<1>1. vms' = {new(v) : v \in vms} BY DEF Unlink
<1>2. \A v \in vms : VmKept(proc[p], proc'[p], v, new(v)) /\ new(v).disk # path
  BY <1>0, CardinalityIds DEF VmKept, VM
<1>3. \A v \in vms : new(v).id = v.id BY <1>0 DEF VM
<1> HIDE DEF new
<1>4. OneVM => OneVM' BY <1>1, <1>3 DEF OneVM
<1>5. proc[p].pc \in {"remove_rootfs", "bring_up"} /\ (proc[p].pc = "remove_rootfs" => path = proc[p].sb.rootfs)
  BY DEF Unlinks
<1> QED BY <1>1, <1>2, <1>4, <1>5 DEF StepVms

\* A snapshot pauses the VM.
LEMMA PauseVms ==
    ASSUME SnapInv, NEW p \in Goroutines, NEW v \in vms, v.id = proc[p].id, proc[p].pc = "pause",
           vms' = Updated(v, [v EXCEPT !.paused = TRUE]), proc'[p].pc = "write_memory" \/ Fault("late_pause")
    PROVE  StepVms(p)
<1> DEFINE u == [v EXCEPT !.paused = TRUE]
<1>0. v \in VM BY DEF SnapInv, HostTyped, VmsTyped
<1>1. VmKept(proc[p], proc'[p], v, u) /\ u.paused /\ u.id = v.id BY <1>0 DEF VmKept, VM
<1>2. vms' = (vms \ {v}) \cup {u} BY DEF Updated
<1> HIDE DEF u
<1>3. \A w \in vms : VmKept(proc[p], proc'[p], w, w) BY DEF VmKept
<1>4. OneVM => \A w \in vms' : w = u \/ w.id # v.id BY <1>2 DEF OneVM
<1>5. OneVM => OneVM' BY <1>1, <1>2, <1>4 DEF OneVM
<1> QED BY <1>1, <1>2, <1>3, <1>4, <1>5 DEF StepVms

\* It resumes it.
LEMMA ResumeVms == ASSUME SnapInv, NEW p \in Goroutines, Resume(p) PROVE StepVms(p)
<1> DEFINE new(v) == IF v.id = proc[p].id THEN [v EXCEPT !.paused = FALSE] ELSE v
<1>0. \A v \in vms : v \in VM BY DEF SnapInv, HostTyped, VmsTyped
<1>1. vms' = {new(v) : v \in vms} /\ proc[p].pc \in {"resume", "resume_failed"} BY DEF Resume
<1>2. \A v \in vms : VmKept(proc[p], proc'[p], v, new(v)) /\ (new(v).id = proc[p].id => ~new(v).paused)
  BY <1>0, <1>1 DEF VmKept, VM
<1>3. \A v \in vms : new(v).id = v.id BY <1>0 DEF VM
<1> HIDE DEF new
<1>4. OneVM => OneVM' BY <1>1, <1>3 DEF OneVM
<1> QED BY <1>1, <1>2, <1>4 DEF StepVms

\* A VM starts.
LEMMA LaunchVms ==
    ASSUME SnapInv, NEW p \in Goroutines, proc[p].pc \in {"start_vm", "start_clone"},
           NEW w, vms' = vms \cup {w}, VmNew(proc[p], proc'[p], w)
    PROVE  StepVms(p)
<1>1. \A v \in vms : VmKept(proc[p], proc'[p], v, v) BY DEF VmKept
<1>2. w.id = proc[p].sb.id BY DEF VmNew
<1>3. OneVM /\ (\A v \in vms : v.id # proc[p].sb.id) => OneVM' BY <1>2 DEF OneVM
<1> QED BY <1>1, <1>3 DEF StepVms

\* Every handler's step.
LEMMA VmsStep == ASSUME SnapInv, NEW p \in Goroutines, Handles(p) PROVE StepVms(p)
<1>0. FramesOK /\ SnapLocal(proc[p]) BY DEF SnapInv, FramesOK
<1>1. CASE StopForce(p) \/ WaitVM(p) \/ StopClone(p)
  <2>1. vms' = {v \in vms : v.id # proc[p].id} /\ proc[p].pc \in {"stop_force", "wait_vm", "stop_clone"}
    BY <1>1 DEF StopForce, WaitVM, StopClone, VMof
  <2> QED BY <2>1, FewerVms
<1>2. CASE RemoveRootfs(p)
  <2>1. Unlink(proc[p].sb.rootfs) /\ Unlinks(proc[p], proc[p].sb.rootfs) /\ proc[p].sb \in Sandbox
    BY <1>0, <1>2 DEF RemoveRootfs, Unlinks, SnapLocal, NoCopy, NoSandbox, FanoutPCs
  <2> QED BY <2>1, UnlinkVms DEF Sandbox
<1>3. CASE Unstage(p)
  <2>1. CASE proc[p].staged
    <3>1. Unlink(proc[p].snap.rootfs) /\ Unlinks(proc[p], proc[p].snap.rootfs) /\ proc[p].snap \in Snapshot
      BY <1>0, <1>3, <2>1 DEF Unstage, Unlinks, SnapLocal, HasSnapshot
    <3> QED BY <3>1, UnlinkVms DEF Snapshot
  <2>2. CASE ~proc[p].staged BY <1>3, <2>2, SameVms DEF Unstage
  <2> QED BY <2>1, <2>2
<1>4. CASE Resume(p) BY <1>4, ResumeVms
<1>5. CASE Pause(p)
  <2>1. CASE Return(p) /\ UNCHANGED vms
    <3>1. proc'[p].pc = "idle" BY <1>0, <2>1, JumpGoes DEF Idle
    <3> QED BY <1>5, <2>1, <3>1, SameVms DEF Pause
  <2>2. CASE /\ \E v \in VMof(proc[p].id) : vms' = Updated(v, [v EXCEPT !.paused = TRUE])
             /\ GoTo(p, "write_memory") \/ Fault("late_pause")
    <3>1. GoTo(p, "write_memory") => proc'[p].pc = "write_memory" BY <1>0, JumpGoes
    <3> QED BY <1>5, <2>2, <3>1, PauseVms DEF Pause, VMof
  <2> QED BY <1>5, <2>1, <2>2 DEF Pause
<1>6. CASE StartVM(p)
  <2>1. CASE UNCHANGED vms BY <1>6, <2>1, SameVms DEF StartVM
  <2>2. CASE ~UNCHANGED vms
    <3> DEFINE x == proc[p]
               w(d) == Launched(x.sb, d, x.sb.ip, 0, 0)
    <3>1. PICK d \in Bootable(x.sb) : vms' = vms \cup {w(d)} BY <1>6, <2>2 DEF StartVM
    <3>2. /\ x.pc = "start_vm" /\ x.snap = NoRow /\ main = "serve" /\ x.sb.rootfs \in DOMAIN disks
          /\ proc'[p].pc = "forward"
      BY <1>0, <1>6, <2>2, JumpGoes DEF StartVM
    <3>3. VmNew(x, proc'[p], w(d)) BY <3>2 DEF VmNew, Launched
    <3> HIDE DEF w
    <3> QED BY <3>1, <3>2, <3>3, LaunchVms
  <2> QED BY <2>1, <2>2
<1>7. CASE LoadSnapshot(p)
  <2>1. CASE UNCHANGED vms BY <1>7, <2>1, SameVms DEF LoadSnapshot
  <2>2. CASE ~UNCHANGED vms
    <3> DEFINE x == proc[p]
               mem == files[x.snap.id].mem
               w(d) == Launched(x.sb, d, x.snap.ip, 0, mem)
    <3>1. PICK d \in Bootable(x.sb) : vms' = vms \cup {w(d)} BY <1>7, <2>2 DEF LoadSnapshot
    <3>2. /\ x.pc = "start_vm" /\ x.snap # NoRow /\ main = "serve" /\ x.sb.rootfs \in DOMAIN disks
          /\ mem # Absent /\ proc'[p].pc = "forward"
      BY <1>0, <1>7, <2>2, JumpGoes DEF LoadSnapshot
    <3>3. VmNew(x, proc'[p], w(d)) BY <3>2 DEF VmNew, Launched
    <3> HIDE DEF w
    <3> QED BY <3>1, <3>2, <3>3, LaunchVms
  <2> QED BY <2>1, <2>2
<1>8. CASE StartClone(p)
  <2>1. CASE UNCHANGED vms BY <1>8, <2>1, SameVms DEF StartClone
  <2>2. CASE ~UNCHANGED vms
    <3> DEFINE x == proc[p]
               mem == files[x.snap.id].mem
               w(d) == Launched(x.sb, d, x.snap.ip, x.sb.ip, mem)
    <3>1. PICK d \in Bootable(x.sb) : vms' = vms \cup {w(d)} BY <1>8, <2>2 DEF StartClone
    <3>2. /\ x.pc = "start_clone" /\ x.snap # NoRow /\ main = "serve" /\ x.sb.rootfs \in DOMAIN disks
          /\ mem # Absent /\ proc'[p].pc = "loaded"
      BY <1>0, <1>8, <2>2, JumpGoes DEF StartClone, SnapLocal, HasSnapshot
    <3>3. VmNew(x, proc'[p], w(d)) BY <3>2 DEF VmNew, Launched
    <3> HIDE DEF w
    <3> QED BY <3>1, <3>2, <3>3, LaunchVms
  <2> QED BY <2>1, <2>2
<1>9. CASE \/ InsertRow(p) \/ CreateTap(p) \/ AddPortForward(p) \/ RecordStart(p) \/ StoreMachine(p)
           \/ WaitForAgent(p) \/ GetRow(p) \/ ReadPorts(p) \/ TakeMachine(p) \/ RemoveForwards(p) \/ DeleteTap(p)
           \/ DeleteRow(p) \/ AllocatePort(p) \/ ForwardExtra(p) \/ UndoPort(p)
  BY <1>9, SameVms DEF InsertRow, CreateTap, AddPortForward, RecordStart, StoreMachine,
      WaitForAgent, GetRow, ReadPorts, TakeMachine, RemoveForwards, DeleteTap, DeleteRow, AllocatePort,
      ForwardExtra, UndoPort, hostVars
<1>10. CASE \/ WriteMemory(p) \/ FreezeRootfs(p) \/ RecordSnapshot(p) \/ CleanupSnapshot(p) \/ InsertRestore(p)
            \/ CopyRootfs(p) \/ StatBaked(p) \/ StageBaked(p) \/ Settle(p) \/ FanoutDone(p) \/ CloneRow(p)
            \/ CloneRootfs(p) \/ CreateTapUnbridged(p) \/ AttachTapToBridge(p) \/ ForwardClone(p) \/ RecordClone(p)
  BY <1>10, SameVms DEF WriteMemory, FreezeRootfs, RecordSnapshot, CleanupSnapshot, InsertRestore, CopyRootfs,
      StatBaked, StageBaked, Settle, FanoutDone, CloneRow, CloneRootfs, CreateTapUnbridged, AttachTapToBridge,
      ForwardClone, RecordClone, hostVars
<1> QED BY <1>1, <1>2, <1>3, <1>4, <1>5, <1>6, <1>7, <1>8, <1>9, <1>10 DEF Handles, Step, SnapStep

\* A rootfs file keeps what it holds.  A frozen disk is laid down at the goroutine's
\* path or staged at its snapshot's, and files are removed.
Removes(x, y, path) == (x.pc = "insert_row" /\ y.pc = "idle" /\ path = x.id) \/ Unlinks(x, path)
Lays(x, y, path) ==
    \/ x.pc = "copy_rootfs" /\ y.pc = "create_tap" /\ path = x.sb.rootfs
    \/ x.pc = "clone_rootfs" /\ y.pc = "create_tap_unbridged" /\ path = x.sb.rootfs
    \/ x.pc = "stage" /\ y.pc = "bring_up" /\ path = x.snap.rootfs
StepDisks(p) ==
    LET x == proc[p]
        y == proc'[p] IN
    /\ \A path \in DOMAIN disks' :
          /\ ~Removes(x, y, path)
          /\ IF Lays(x, y, path) THEN disks'[path] = files[x.snap.id].disk /\ disks'[path] # Absent
             ELSE path \in DOMAIN disks /\ disks'[path] = disks[path]
    /\ \A path \in DOMAIN disks : path \in DOMAIN disks' \/ Removes(x, y, path)
    /\ x.pc = "stat_baked" /\ y.pc = "stage" => x.snap.rootfs \notin DOMAIN disks

\* No file changes.
LEMMA SameDisks ==
    ASSUME NEW p \in Goroutines, UNCHANGED disks, proc[p].pc \notin {"remove_rootfs", "stat_baked"},
           ~(proc[p].pc = "insert_row" /\ proc'[p].pc = "idle"), ~(proc[p].pc = "bring_up" /\ proc[p].staged),
           ~(proc[p].pc = "copy_rootfs" /\ proc'[p].pc = "create_tap"),
           ~(proc[p].pc = "clone_rootfs" /\ proc'[p].pc = "create_tap_unbridged"),
           ~(proc[p].pc = "stage" /\ proc'[p].pc = "bring_up")
    PROVE  StepDisks(p)
BY DEF StepDisks, Removes, Unlinks, Lays

\* A file goes.
LEMMA RemoveDisks ==
    ASSUME NEW p \in Goroutines, NEW path, disks' = WithoutFile(path), proc[p].pc # "stat_baked",
           \A q : Removes(proc[p], proc'[p], q) <=> q = path, \A q : ~Lays(proc[p], proc'[p], q)
    PROVE  StepDisks(p)
<1>1. DOMAIN disks' = DOMAIN disks \ {path} /\ \A q \in DOMAIN disks' : disks'[q] = disks[q] BY DEF WithoutFile
<1> QED BY <1>1 DEF StepDisks

\* A file is laid down.
LEMMA LayDisks ==
    ASSUME NEW p \in Goroutines, NEW path, NEW c, c = files[proc[p].snap.id].disk, c # Absent,
           disks' = WithFile(path, c), proc[p].pc # "stat_baked",
           \A q : Lays(proc[p], proc'[p], q) <=> q = path, \A q : ~Removes(proc[p], proc'[p], q)
    PROVE  StepDisks(p)
<1>1. /\ DOMAIN disks' = DOMAIN disks \cup {path}
      /\ \A q \in DOMAIN disks' : disks'[q] = IF q = path THEN c ELSE disks[q]
  BY DEF WithFile
<1> QED BY <1>1 DEF StepDisks

\* Every handler's step.
LEMMA DisksStep == ASSUME SnapInv, NEW p \in Goroutines, Handles(p) PROVE StepDisks(p)
<1> DEFINE x == proc[p]
           y == proc'[p]
<1> USE DEF Removes, Unlinks, Lays
<1>0. FramesOK BY DEF SnapInv
<1>1. CASE InsertRow(p)
  <2>1. CASE UNCHANGED disks /\ proc' = [proc EXCEPT ![p].pc = "create_tap", ![p].sb = RowOf(x.id, sandboxes')]
    <3>1. PICK sb : sb = RowOf(x.id, sandboxes') OBVIOUS
    <3>2. y.pc = "create_tap" /\ x.pc = "insert_row" BY <1>0, <1>1, <2>1, <3>1 DEF FramesOK, SnapFrame, InsertRow
    <3> QED BY <2>1, <3>2, SameDisks
  <2>2. CASE disks' = WithoutFile(x.id) /\ Return(p)
    <3>1. y.pc = "idle" /\ x.pc = "insert_row" BY <1>0, <1>1, <2>2, JumpGoes DEF Idle, InsertRow
    <3> QED BY <2>2, <3>1, RemoveDisks
  <2> QED BY <1>1, <2>1, <2>2 DEF InsertRow
<1>2. CASE RemoveRootfs(p)
  <2>1. disks' = WithoutFile(x.sb.rootfs) /\ x.pc = "remove_rootfs" BY <1>2 DEF RemoveRootfs, Unlink
  <2> QED BY <2>1, RemoveDisks
<1>3. CASE Unstage(p)
  <2>0. x.pc = "bring_up" BY <1>3 DEF Unstage
  <2>1. CASE x.staged
    <3>1. disks' = WithoutFile(x.snap.rootfs) BY <1>3, <2>1 DEF Unstage, Unlink
    <3> QED BY <2>0, <2>1, <3>1, RemoveDisks
  <2>2. CASE ~x.staged BY <1>3, <2>0, <2>2, SameDisks DEF Unstage
  <2> QED BY <2>1, <2>2
<1>4. CASE CopyRootfs(p)
  <2>0. x.pc = "copy_rootfs" BY <1>4 DEF CopyRootfs
  <2>1. CASE UNCHANGED disks /\ Rollback(p)
    <3>1. y.pc = "delete_tap" BY <1>0, <2>1, JumpGoes
    <3> QED BY <2>0, <2>1, <3>1, SameDisks
  <2>2. CASE /\ files[x.snap.id].disk # Absent /\ disks' = WithFile(x.sb.rootfs, files[x.snap.id].disk)
             /\ GoTo(p, "create_tap")
    <3>1. y.pc = "create_tap" BY <1>0, <2>2, JumpGoes
    <3> QED BY <2>0, <2>2, <3>1, LayDisks
  <2> QED BY <1>4, <2>1, <2>2 DEF CopyRootfs
<1>5. CASE CloneRootfs(p)
  <2>0. x.pc = "clone_rootfs" BY <1>5 DEF CloneRootfs
  <2>1. CASE UNCHANGED disks /\ Rollback(p)
    <3>1. y.pc = "delete_tap" BY <1>0, <2>1, JumpGoes
    <3> QED BY <2>0, <2>1, <3>1, SameDisks
  <2>2. CASE /\ files[x.snap.id].disk # Absent /\ disks' = WithFile(x.sb.rootfs, files[x.snap.id].disk)
             /\ GoTo(p, "create_tap_unbridged")
    <3>1. y.pc = "create_tap_unbridged" BY <1>0, <2>2, JumpGoes
    <3> QED BY <2>0, <2>2, <3>1, LayDisks
  <2> QED BY <1>5, <2>1, <2>2 DEF CloneRootfs
<1>6. CASE StatBaked(p)
  <2>0. x.pc = "stat_baked" /\ UNCHANGED disks BY <1>6 DEF StatBaked, hostVars
  <2>1. CASE BringUp(p, FALSE)
    <3> DEFINE u == [x EXCEPT !.pc = "bring_up", !.staged = FALSE]
    <3>1. u.pc = "bring_up" BY <1>0 DEF FramesOK, SnapFrame
    <3>2. proc'[p] = u BY <2>0, <2>1 DEF BringUp, WithClones
    <3> HIDE DEF u
    <3> QED BY <2>0, <3>1, <3>2 DEF StepDisks
  <2>2. CASE x.snap.rootfs \notin DOMAIN disks BY <2>0, <2>2 DEF StepDisks
  <2> QED BY <1>6, <2>1, <2>2 DEF StatBaked
<1>7. CASE StageBaked(p)
  <2>0. x.pc = "stage" BY <1>7 DEF StageBaked
  <2>1. CASE UNCHANGED disks /\ WithClones(p, Idle, "not_started", [w \in Workers |-> Idle])
    <3>1. proc'[p] = Idle BY <2>0, <2>1 DEF WithClones
    <3>2. y.pc = "idle" BY <3>1 DEF Idle
    <3> QED BY <2>0, <2>1, <3>2, SameDisks
  <2>2. CASE /\ files[x.snap.id].disk # Absent /\ disks' = WithFile(x.snap.rootfs, files[x.snap.id].disk)
             /\ BringUp(p, TRUE)
    <3> DEFINE u == [x EXCEPT !.pc = "bring_up", !.staged = TRUE]
    <3>1. u.pc = "bring_up" BY <1>0 DEF FramesOK, SnapFrame
    <3>2. proc'[p] = u BY <2>0, <2>2 DEF BringUp, WithClones
    <3> HIDE DEF u
    <3> QED BY <2>0, <2>2, <3>1, <3>2, LayDisks
  <2> QED BY <1>7, <2>1, <2>2 DEF StageBaked
<1>8. CASE \/ CreateTap(p) \/ StartVM(p) \/ AddPortForward(p) \/ RecordStart(p) \/ StopForce(p) \/ StoreMachine(p)
           \/ WaitForAgent(p) \/ GetRow(p) \/ ReadPorts(p) \/ TakeMachine(p) \/ WaitVM(p) \/ RemoveForwards(p)
           \/ DeleteTap(p) \/ DeleteRow(p) \/ AllocatePort(p) \/ ForwardExtra(p) \/ UndoPort(p)
  <2>1. UNCHANGED disks /\ x.pc \notin {"remove_rootfs", "stat_baked", "insert_row", "bring_up", "copy_rootfs",
                                        "clone_rootfs", "stage"}
    BY <1>8 DEF CreateTap, StartVM, AddPortForward, RecordStart, StopForce, StoreMachine, WaitForAgent, GetRow,
        ReadPorts, TakeMachine, WaitVM, RemoveForwards, DeleteTap, DeleteRow, AllocatePort, ForwardExtra, UndoPort,
        hostVars
  <2> QED BY <2>1, SameDisks
<1>9. CASE \/ Pause(p) \/ WriteMemory(p) \/ FreezeRootfs(p) \/ Resume(p) \/ RecordSnapshot(p) \/ CleanupSnapshot(p)
           \/ InsertRestore(p) \/ LoadSnapshot(p) \/ Settle(p) \/ FanoutDone(p) \/ CloneRow(p)
           \/ CreateTapUnbridged(p) \/ StartClone(p) \/ AttachTapToBridge(p) \/ ForwardClone(p) \/ RecordClone(p)
           \/ StopClone(p)
  <2>1. UNCHANGED disks /\ x.pc \notin {"remove_rootfs", "stat_baked", "insert_row", "bring_up", "copy_rootfs",
                                        "clone_rootfs", "stage"}
    BY <1>9 DEF Pause, WriteMemory, FreezeRootfs, Resume, RecordSnapshot, CleanupSnapshot, InsertRestore,
        LoadSnapshot, Settle, FanoutDone, CloneRow, CreateTapUnbridged, StartClone, AttachTapToBridge,
        ForwardClone, RecordClone, StopClone, hostVars
  <2> QED BY <2>1, SameDisks
<1> QED BY <1>1, <1>2, <1>3, <1>4, <1>5, <1>6, <1>7, <1>8, <1>9 DEF Handles, Step, SnapStep

\* A machine is stored or taken by the goroutine of its sandbox.
StepMachines(p) ==
    LET x == proc[p] IN
    /\ machines' = CASE x.pc = "store" -> machines \cup {x.id}
                     [] x.pc = "take_machine" -> machines \ {x.id}
                     [] OTHER -> machines
    /\ x.pc = "take_machine" => (proc'[p].pc = "wait_vm" <=> x.id \in machines)

\* Every handler's step.
LEMMA MachinesStep == ASSUME SnapInv, NEW p \in Goroutines, Handles(p) PROVE StepMachines(p)
<1>0. FramesOK BY DEF SnapInv
<1>1. CASE TakeMachine(p)
  <2>1. proc[p].pc = "take_machine" /\ machines' = machines \ {proc[p].id} BY <1>1 DEF TakeMachine
  <2>2. proc'[p].pc = IF proc[p].id \in machines THEN "wait_vm" ELSE "remove_forwards"
    BY <1>0, <1>1, JumpGoes DEF TakeMachine
  <2> QED BY <2>1, <2>2 DEF StepMachines
<1>2. CASE StoreMachine(p) BY <1>2 DEF StoreMachine, StepMachines
<1>3. CASE Step(p) /\ ~TakeMachine(p) /\ ~StoreMachine(p)
  <2>1. UNCHANGED machines /\ proc[p].pc \notin {"store", "take_machine"}
    BY <1>3 DEF Step, InsertRow, CreateTap, StartVM, AddPortForward, RecordStart, StopForce, WaitForAgent, GetRow,
     ReadPorts, WaitVM, RemoveForwards, DeleteTap, RemoveRootfs, DeleteRow, AllocatePort, ForwardExtra, UndoPort
  <2> QED BY <2>1 DEF StepMachines
<1>4. CASE SnapStep(p)
  <2>1. UNCHANGED machines /\ proc[p].pc \notin {"store", "take_machine"}
    BY <1>4 DEF SnapStep, Pause, WriteMemory, FreezeRootfs, Resume, RecordSnapshot, CleanupSnapshot,
     InsertRestore, CopyRootfs, LoadSnapshot, StatBaked, StageBaked, Unstage, Settle, FanoutDone, CloneRow,
     CloneRootfs, CreateTapUnbridged, StartClone, AttachTapToBridge, ForwardClone, RecordClone, StopClone
  <2> QED BY <2>1 DEF StepMachines
<1> QED BY <1>1, <1>2, <1>3, <1>4 DEF Handles

\* The files of a snapshot are written by the goroutine that makes it, and removed
\* by the one that makes or deletes it.
Written(x, y, f, g) ==
    \/ /\ x.pc = "write_memory" /\ y.pc = "freeze_rootfs"
       /\ g.disk = f.disk /\ \E v \in vms : v.id = x.id /\ v.paused /\ g.mem = v.ver
    \/ /\ x.pc = "freeze_rootfs" /\ y.pc = "resume"
       /\ g.mem = f.mem /\ x.sb.rootfs \in DOMAIN disks /\ g.disk = disks[x.sb.rootfs]
    \/ x.pc \in {"write_memory", "freeze_rootfs"} /\ y.pc = "resume_failed" /\ g = NoDir
    \/ x.pc \in {"record_snapshot", "clean_up_snapshot"} /\ y.pc = "idle" /\ g = NoDir
StepFiles(p) ==
    LET x == proc[p]
        y == proc'[p] IN
    /\ \A sid \in SnapIds : files'[sid] = files[sid] \/ (sid = x.snap.id /\ Written(x, y, files[sid], files'[sid]))
    /\ \/ x.pc = "write_memory" /\ y.pc = "freeze_rootfs"
       \/ x.pc = "freeze_rootfs" /\ y.pc = "resume"
       => Written(x, y, files[x.snap.id], files'[x.snap.id])

\* One directory is written.
LEMMA WriteFiles ==
    ASSUME SnapInv, NEW p \in Goroutines, NEW g, files' = [files EXCEPT ![proc[p].snap.id] = g],
           proc[p].pc \in HasSnapshot, Written(proc[p], proc'[p], files[proc[p].snap.id], g)
    PROVE  StepFiles(p)
<1>1. proc[p].snap \in Snapshot /\ files = [sid \in SnapIds |-> files[sid]]
  BY DEF SnapInv, FramesOK, SnapLocal, HostTyped, FilesTyped
<1>2. proc[p].snap.id \in SnapIds /\ files'[proc[p].snap.id] = g
      /\ \A sid \in SnapIds \ {proc[p].snap.id} : files'[sid] = files[sid]
  BY <1>1 DEF Snapshot
<1> QED BY <1>2 DEF StepFiles

\* Every handler's step.
LEMMA FilesStep == ASSUME SnapInv, NEW p \in Goroutines, Handles(p) PROVE StepFiles(p)
<1> DEFINE x == proc[p]
           y == proc'[p]
           f == files[x.snap.id]
<1>0. FramesOK BY DEF SnapInv
<1>a. Return(p) => y.pc = "idle" BY <1>0, JumpGoes DEF Idle
<1>b. x.pc \in HasSnapshot => f \in [dir : BOOLEAN, mem : {Absent} \cup Content, disk : {Absent} \cup Content]
  BY DEF SnapInv, FramesOK, SnapLocal, HostTyped, FilesTyped, Snapshot
<1>c. /\ "write_memory" \in HasSnapshot /\ "freeze_rootfs" \in HasSnapshot
      /\ "record_snapshot" \in HasSnapshot /\ "clean_up_snapshot" \in HasSnapshot
  BY DEF HasSnapshot, Snapshotting
<1>1. CASE WriteMemory(p)
  <2>0. x.pc = "write_memory" BY <1>1 DEF WriteMemory
  <2>1. CASE /\ \E v \in {u \in VMof(x.id) : u.paused} : files' = [files EXCEPT ![x.snap.id].mem = v.ver]
             /\ GoTo(p, "freeze_rootfs")
    <3>1. PICK v \in vms : v.id = x.id /\ v.paused /\ files' = [files EXCEPT ![x.snap.id].mem = v.ver]
      BY <2>1 DEF VMof
    <3> DEFINE g == [f EXCEPT !.mem = v.ver]
    <3>2. g.mem = v.ver /\ g.disk = f.disk BY <1>b, <1>c, <2>0
    <3>3. files' = [files EXCEPT ![x.snap.id] = g] BY <3>1
    <3>4. y.pc = "freeze_rootfs" BY <1>0, <2>1, JumpGoes
    <3> HIDE DEF g
    <3>5. Written(x, y, f, g) BY <2>0, <3>1, <3>2, <3>4 DEF Written
    <3> QED BY <1>c, <2>0, <3>3, <3>5, WriteFiles
  <2>2. CASE files' = [files EXCEPT ![x.snap.id] = NoDir] /\ GoTo(p, "resume_failed")
    <3>1. y.pc = "resume_failed" BY <1>0, <2>2, JumpGoes
    <3>2. Written(x, y, f, NoDir) BY <2>0, <3>1 DEF Written
    <3> QED BY <1>c, <2>0, <2>2, <3>2, WriteFiles
  <2> QED BY <1>1, <2>1, <2>2 DEF WriteMemory
<1>2. CASE FreezeRootfs(p)
  <2>0. x.pc = "freeze_rootfs" BY <1>2 DEF FreezeRootfs
  <2>1. CASE /\ x.sb.rootfs \in DOMAIN disks
             /\ files' = [files EXCEPT ![x.snap.id].disk = disks[x.sb.rootfs]] /\ GoTo(p, "resume")
    <3> DEFINE g == [f EXCEPT !.disk = disks[x.sb.rootfs]]
    <3>2. g.disk = disks[x.sb.rootfs] /\ g.mem = f.mem BY <1>b, <1>c, <2>0
    <3>3. files' = [files EXCEPT ![x.snap.id] = g] BY <2>1
    <3>4. y.pc = "resume" BY <1>0, <2>1, JumpGoes
    <3> HIDE DEF g
    <3>5. Written(x, y, f, g) BY <2>0, <2>1, <3>2, <3>4 DEF Written
    <3> QED BY <1>c, <2>0, <3>3, <3>5, WriteFiles
  <2>2. CASE files' = [files EXCEPT ![x.snap.id] = NoDir] /\ GoTo(p, "resume_failed")
    <3>1. y.pc = "resume_failed" BY <1>0, <2>2, JumpGoes
    <3>2. Written(x, y, f, NoDir) BY <2>0, <3>1 DEF Written
    <3> QED BY <1>c, <2>0, <2>2, <3>2, WriteFiles
  <2> QED BY <1>2, <2>1, <2>2 DEF FreezeRootfs
<1>3. CASE RecordSnapshot(p) \/ CleanupSnapshot(p)
  <2>0. x.pc \in {"record_snapshot", "clean_up_snapshot"} /\ y.pc = "idle"
    BY <1>3, <1>a DEF RecordSnapshot, CleanupSnapshot
  <2>1. CASE files' = [files EXCEPT ![x.snap.id] = NoDir]
    <3>2. Written(x, y, f, NoDir) BY <2>0 DEF Written
    <3> QED BY <1>c, <2>0, <2>1, <3>2, WriteFiles
  <2>2. CASE UNCHANGED files BY <2>0, <2>2 DEF StepFiles
  <2> QED BY <1>3, <2>1, <2>2 DEF RecordSnapshot, CleanupSnapshot
<1>4. CASE Step(p) /\ UNCHANGED files
  <2>1. x.pc \notin {"write_memory", "freeze_rootfs"}
    BY <1>4 DEF Step, InsertRow, CreateTap, StartVM, AddPortForward, RecordStart, StopForce, StoreMachine,
     WaitForAgent, GetRow, ReadPorts, TakeMachine, WaitVM, RemoveForwards, DeleteTap, RemoveRootfs, DeleteRow,
     AllocatePort, ForwardExtra, UndoPort
  <2> QED BY <1>4, <2>1 DEF StepFiles
<1>5. CASE SnapStep(p) /\ ~WriteMemory(p) /\ ~FreezeRootfs(p) /\ ~RecordSnapshot(p) /\ ~CleanupSnapshot(p)
  <2>1. UNCHANGED files /\ x.pc \notin {"write_memory", "freeze_rootfs"}
    BY <1>5 DEF SnapStep, Pause, Resume, InsertRestore, CopyRootfs, LoadSnapshot, StatBaked, StageBaked, Unstage,
     Settle, FanoutDone, CloneRow, CloneRootfs, CreateTapUnbridged, StartClone, AttachTapToBridge, ForwardClone,
     RecordClone, StopClone
  <2> QED BY <2>1 DEF StepFiles
<1> QED BY <1>1, <1>2, <1>3, <1>4, <1>5 DEF Handles

-----------------------------------------------------------------------------
(* A snapshot that fails does not leave its sandbox frozen.  No discipline of *)
(* clients is needed, only that a call that returns an error has no effect.   *)

Freezers == {"write_memory", "freeze_rootfs", "resume", "resume_failed"}
Ending == {"drain", "stop_all", "abort"}

\* Only a server that runs has VMs of its own; snapshots are made by requests, in
\* goroutines that nobody else takes over.
RunsRight ==
    \A v \in vms : /\ v.run <= crashes
                   /\ main # "serve" => v.run < crashes
                   /\ main \in Ending => v.run < crashes - 1
SnapshotsAsked == \A p \in Goroutines : proc[p].pc \in Snapshotting => p \in Requests
FrozenInv == RunsRight /\ SnapshotsAsked /\ NotLeftFrozen

\* A step that starts and pauses no VM.
LEMMA CalmFrozen ==
    ASSUME FrozenInv, UNCHANGED crashes, main' # "serve" => main # "serve", main' \in Ending => main \in Ending,
           \A w \in vms' : \E v \in vms : w.id = v.id /\ w.run = v.run /\ (w.paused => v.paused),
           \A q \in Goroutines : proc'[q].pc \in Snapshotting => q \in Requests,
           \/ main # "serve" /\ crashes \in Int /\ \A v \in vms : v.run \in Int
           \/ \A q \in Requests : proc[q].pc \in Freezers => proc'[q].pc = proc[q].pc /\ proc'[q].id = proc[q].id
    PROVE  FrozenInv'
<1>1. RunsRight' BY DEF FrozenInv, RunsRight
<1>2. SnapshotsAsked' BY DEF SnapshotsAsked
<1>3. ASSUME NEW w \in vms', w.paused, w.run = crashes'
      PROVE  \E p \in Goroutines : proc'[p].id = w.id /\ proc'[p].pc \in Freezers
  <2>1. PICK v \in vms : w.id = v.id /\ w.run = v.run /\ v.paused BY <1>3
  <2>2. main = "serve" \/ ~(crashes \in Int /\ v.run \in Int) BY <1>3, <2>1 DEF FrozenInv, RunsRight
  <2>3. PICK p \in Goroutines : proc[p].id = v.id /\ proc[p].pc \in Freezers
    BY <1>3, <2>1 DEF FrozenInv, NotLeftFrozen, WorkingOn, Freezers
  <2>4. p \in Requests BY <2>3 DEF FrozenInv, SnapshotsAsked, Freezers, Snapshotting
  <2> QED BY <2>1, <2>2, <2>3, <2>4
<1>4. NotLeftFrozen' BY <1>3 DEF NotLeftFrozen, WorkingOn, Freezers
<1> QED BY <1>1, <1>2, <1>4 DEF FrozenInv

\* A step with which the server's run ends.
LEMMA EndFrozen ==
    ASSUME SnapInv, FrozenInv, crashes' = crashes + 1, main' # "serve", \A v \in vms' : v \in vms,
           main' \in Ending => \A v \in vms' : v.run # crashes,
           \A q \in Goroutines : proc'[q].pc \in Snapshotting => q \in Requests
    PROVE  FrozenInv'
<1>1. crashes \in Int /\ \A v \in vms : v.run \in Int BY DEF SnapInv, HostTyped, EnvOK, VmsTyped, VM
<1>2. RunsRight' BY <1>1 DEF FrozenInv, RunsRight
<1>3. NotLeftFrozen' BY <1>1 DEF FrozenInv, RunsRight, NotLeftFrozen
<1> QED BY <1>2, <1>3 DEF FrozenInv, SnapshotsAsked

\* A handler's step.
LEMMA HandlerFrozen ==
    ASSUME SnapInv, FrozenInv, "late_pause" \notin Faults, NEW p \in Goroutines, Handles(p)
    PROVE  FrozenInv'
<1> DEFINE x == proc[p]
           y == proc'[p]
<1>1. StepProc(p) /\ StepVms(p) /\ StepElsewhere BY HandlerWalks, VmsStep, ElsewhereStep
<1>2. y = Idle \/ y.id = x.id BY <1>1 DEF StepProc, Goes, Same, Keeps
<1>3. Edge(x.pc, y.pc) BY <1>1 DEF StepProc, Goes
<1>4. ASSUME NEW w \in vms' PROVE (w.run = crashes /\ main = "serve") \/ \E v \in vms : w.run = v.run
  BY <1>1 DEF StepVms, VmKept, VmNew
<1>5. crashes \in Int /\ \A v \in vms : v.run \in Int BY DEF SnapInv, HostTyped, EnvOK, VmsTyped, VM
<1>6. RunsRight' BY <1>1, <1>4, <1>5 DEF FrozenInv, RunsRight, StepElsewhere, Ending
<1>7. y.pc \in Snapshotting => x.pc \in Snapshotting BY <1>3 DEF Edge, Snapshotting
<1>8. \A q \in Goroutines \ {p} : proc'[q] = proc[q] \/ (q \in Workers /\ CloneGoes(proc[q], proc'[q]))
  BY <1>1 DEF StepProc
<1>9. \A q \in Goroutines \ {p} : proc'[q].pc \in Snapshotting => proc'[q] = proc[q]
  <2>1. Idle.pc = "idle" BY DEF Idle
  <2> QED BY <1>8, <2>1 DEF CloneGoes, Snapshotting
<1>10. SnapshotsAsked' BY <1>7, <1>9 DEF FrozenInv, SnapshotsAsked
<1>11. ASSUME NEW w \in vms', w.paused, w.run = crashes'
       PROVE  \E q \in Goroutines : proc'[q].id = w.id /\ proc'[q].pc \in Freezers
  <2>1. ~VmNew(x, y, w) BY <1>11 DEF VmNew
  <2>2. PICK v \in vms : VmKept(x, y, v, w) BY <1>1, <2>1 DEF StepVms
  <2>3. CASE v.paused
    <3>1. PICK q \in Goroutines : proc[q].id = v.id /\ proc[q].pc \in Freezers
      BY <1>1, <1>11, <2>2, <2>3 DEF FrozenInv, NotLeftFrozen, WorkingOn, Freezers, VmKept, StepElsewhere
    <3>2. CASE q = p
      <4>1. x.pc \notin {"resume", "resume_failed"} BY <1>1, <1>11, <2>2, <3>1, <3>2 DEF StepVms, VmKept
      <4>2. y.pc \in Freezers BY <1>3, <3>1, <3>2, <4>1 DEF Edge, Freezers
      <4>3. y # Idle BY <4>2 DEF Idle, Freezers
      <4> QED BY <1>2, <2>2, <3>1, <3>2, <4>2, <4>3 DEF VmKept
    <3>3. CASE q # p
      <4>1. q \in Requests BY <3>1 DEF FrozenInv, SnapshotsAsked, Freezers, Snapshotting
      <4>2. q \notin Workers BY <4>1, GoroutinesAssumption
      <4> QED BY <1>8, <2>2, <3>1, <3>3, <4>2 DEF VmKept
    <3> QED BY <3>2, <3>3
  <2>4. CASE ~v.paused
    <3>1. x.pc = "pause" /\ w.id = x.id /\ y.pc = "write_memory"
      BY <1>11, <2>2, <2>4 DEF VmKept, Fault
    <3>2. y # Idle BY <3>1 DEF Idle
    <3> QED BY <1>2, <3>1, <3>2 DEF Freezers
  <2> QED BY <2>3, <2>4
<1>12. NotLeftFrozen' BY <1>11 DEF NotLeftFrozen, WorkingOn, Freezers
<1> QED BY <1>6, <1>10, <1>12 DEF FrozenInv

\* A request arrives: its goroutine was idle, and others stay, but for the clones
\* of a fan-out.
LEMMA ArrivalWalks ==
    ASSUME SnapInv, Arrival \/ SnapArrival
    PROVE  /\ main = "serve" /\ UNCHANGED <<main, crashes, vms>>
           /\ \E p \in Requests : /\ proc[p].pc = "idle"
                                  /\ \A q \in Goroutines \ {p} : \/ proc'[q] = proc[q]
                                                                 \/ /\ q \in Workers /\ proc'[q].pc = "not_started"
                                                                    /\ proc'[q].id = -q
<1>0. Requests \subseteq Goroutines /\ FramesOK BY DEF SnapInv, Goroutines
<1>1. PICK p \in Requests :
        \/ \E timeout \in Timeouts : PrepareRootfs(p, timeout)
        \/ \E id \in Ids : DestroyArrives(p, id)
        \/ \E id \in Ids, guest \in GuestPorts : ExposeArrives(p, id, guest)
        \/ \E id \in Ids, sid \in SnapIds : SnapshotArrives(p, id, sid)
        \/ \E s \in snapshots :
              \/ DeleteSnapshotRow(p, s)
              \/ \E timeout \in Timeouts : RestoreArrives(p, s, timeout)
              \/ \E n \in Counts, timeout \in Timeouts : FanoutArrives(p, s, n, timeout)
  BY DEF Arrival, SnapArrival
<1>2. main = "serve" /\ UNCHANGED <<main, crashes, vms>> /\ proc[p].pc = "idle"
  BY <1>1 DEF PrepareRootfs, DestroyArrives, ExposeArrives, SnapshotArrives, DeleteSnapshotRow, RestoreArrives,
              FanoutArrives, hostVars, envVars, IsIdle
<1>3. ASSUME NEW s \in snapshots, NEW n \in Counts, NEW timeout \in Timeouts, FanoutArrives(p, s, n, timeout)
      PROVE  \A q \in Goroutines \ {p} : proc'[q] = proc[q] \/ (q \in Workers /\ proc'[q].pc = "not_started" /\ proc'[q].id = -q)
  <2> DEFINE ids == nextId .. nextId + n - 1
             new == {-id : id \in ids}
             e == Deadline(timeout)
             x == [Idle EXCEPT !.pc = "stat_baked", !.snap = s, !.ctx = "request"]
             y(q) == [Idle EXCEPT !.pc = "not_started", !.id = -q, !.snap = s, !.by = p, !.expires = e]
  <2>1. proc' = [q \in Goroutines |-> CASE q = p -> x [] q \in new -> y(q) [] OTHER -> proc[q]]
    BY <1>3, Zenon DEF FanoutArrives
  <2>2. new \subseteq Workers
    <3>1. ids \subseteq Clones BY <1>3 DEF FanoutArrives
    <3> HIDE DEF ids
    <3> QED BY <3>1 DEF Workers
  <2>3. \A q : y(q).pc = "not_started" /\ y(q).id = -q BY DEF Idle
  <2> HIDE DEF x, y, new
  <2> QED BY <2>1, <2>2, <2>3
<1>4. CASE ~\E s \in snapshots, n \in Counts, timeout \in Timeouts : FanoutArrives(p, s, n, timeout)
  <2>1. proc' = proc \/ \E x : proc' = [proc EXCEPT ![p] = x]
    BY <1>1, <1>4 DEF PrepareRootfs, DestroyArrives, ExposeArrives, SnapshotArrives, DeleteSnapshotRow, RestoreArrives
  <2>2. \A q \in Goroutines \ {p} : proc'[q] = proc[q] BY <1>0, <2>1 DEF FramesOK
  <2> QED BY <1>2, <2>2
<1> QED BY <1>2, <1>3, <1>4

\* Every other step of the host.
LEMMA OtherFrozen ==
    ASSUME SnapInv, FrozenInv, [SnapNext]_allVars, ~\E p \in Goroutines : Handles(p) PROVE FrozenInv'
<1>a. crashes \in Int /\ \A v \in vms : v.run \in Int /\ v \in VM BY DEF SnapInv, HostTyped, EnvOK, VmsTyped, VM
<1>b. /\ Requests \subseteq Goroutines /\ FramesOK /\ Requests \cap Workers = {} /\ Main \in Goroutines
      /\ Reaper \in Goroutines /\ Requests \cap Ids = {} /\ Main \notin Requests /\ Reaper \notin Requests
  BY GoroutinesAssumption DEF SnapInv, Goroutines
<1>c. Idle.pc \notin Snapshotting BY DEF Idle, Snapshotting
<1>d. \A q \in Goroutines : proc[q].pc \in Snapshotting => q \in Requests BY DEF FrozenInv, SnapshotsAsked
<1>1. CASE Arrival \/ SnapArrival
  <2>1. PICK p \in Requests : /\ proc[p].pc = "idle"
                              /\ \A q \in Goroutines \ {p} : \/ proc'[q] = proc[q]
                                                             \/ /\ q \in Workers /\ proc'[q].pc = "not_started"
                                                                /\ proc'[q].id = -q
    BY <1>1, ArrivalWalks
  <2>2. main = "serve" /\ UNCHANGED <<main, crashes, vms>> BY <1>1, ArrivalWalks
  <2>3. \A q \in Goroutines : proc'[q].pc \in Snapshotting => q \in Requests BY <1>d, <2>1 DEF Snapshotting
  <2>4. \A q \in Requests : proc[q].pc \in Freezers => proc'[q].pc = proc[q].pc /\ proc'[q].id = proc[q].id
    BY <1>b, <2>1 DEF Freezers
  <2> QED BY <2>2, <2>3, <2>4, CalmFrozen
<1>2. CASE UNCHANGED <<vms, proc, main, crashes>> BY <1>2, <1>d, CalmFrozen
<1>3. CASE ReapNext
  <2>1. PICK id : proc' = [proc EXCEPT ![Reaper] = [Idle EXCEPT !.pc = "get_row", !.id = id]]
    BY <1>3 DEF ReapNext
  <2> DEFINE x == [Idle EXCEPT !.pc = "get_row", !.id = id]
  <2>2. x.pc = "get_row" BY DEF Idle
  <2>3. proc'[Reaper] = x /\ \A q \in Goroutines \ {Reaper} : proc'[q] = proc[q] BY <1>b, <2>1 DEF FramesOK
  <2> HIDE DEF x
  <2>4. UNCHANGED <<main, crashes, vms>> BY <1>3 DEF ReapNext, hostVars, envVars
  <2>5. \A q \in Goroutines : proc'[q].pc \in Snapshotting => q \in Requests BY <1>d, <2>2, <2>3 DEF Snapshotting
  <2> QED BY <1>b, <2>3, <2>4, <2>5, CalmFrozen
<1>4. CASE ReconcileNext
  <2>1. PICK id, sb, ctx : proc' = [proc EXCEPT ![Main] = [Idle EXCEPT !.pc = "read_ports", !.id = id, !.sb = sb,
                                                                      !.ctx = ctx]]
    BY <1>4 DEF ReconcileNext
  <2> DEFINE x == [Idle EXCEPT !.pc = "read_ports", !.id = id, !.sb = sb, !.ctx = ctx]
  <2>2. x.pc = "read_ports" BY DEF Idle
  <2>3. proc'[Main] = x /\ \A q \in Goroutines \ {Main} : proc'[q] = proc[q] BY <1>b, <2>1 DEF FramesOK
  <2> HIDE DEF x
  <2>4. UNCHANGED <<main, crashes>> /\ \A v \in vms' : v \in vms BY <1>4 DEF ReconcileNext, envVars
  <2>5. \A q \in Goroutines : proc'[q].pc \in Snapshotting => q \in Requests BY <1>d, <2>2, <2>3 DEF Snapshotting
  <2> QED BY <1>b, <2>3, <2>4, <2>5, CalmFrozen
<1>5. CASE ShutdownAll
  <2> DEFINE x(q) == [Idle EXCEPT !.pc = "get_row", !.id = q]
  <2>1. proc' = [q \in Goroutines |-> IF q \in machines THEN x(q) ELSE proc[q]] BY <1>5 DEF ShutdownAll
  <2>2. \A q : x(q).pc = "get_row" BY DEF Idle
  <2> HIDE DEF x
  <2>3. \A q \in Goroutines : proc'[q].pc \in Snapshotting => q \in Requests BY <1>d, <2>1, <2>2 DEF Snapshotting
  <2> QED BY <1>a, <1>5, <2>3, CalmFrozen DEF ShutdownAll, envVars, hostVars, Ending
<1>6. CASE Exit
  <2>1. \A q \in Goroutines : proc'[q].pc \notin Snapshotting BY <1>6, <1>c DEF Exit, ProcessGone
  <2> QED BY <1>a, <1>6, <2>1, CalmFrozen DEF Exit, ProcessGone, envVars, hostVars, Ending
<1>7. CASE Restart \/ Listen
  BY <1>a, <1>7, <1>d, CalmFrozen DEF Restart, Listen, envVars, hostVars, Ending
<1>8. ASSUME NEW p \in Requests, Disconnect(p) PROVE FrozenInv'
  <2>1. \A q \in Goroutines : proc'[q].pc = proc[q].pc /\ proc'[q].id = proc[q].id
    BY <1>b, <1>8 DEF Disconnect, FramesOK, SnapFrame
  <2> QED BY <1>b, <1>d, <1>8, <2>1, CalmFrozen DEF Disconnect, envVars, hostVars
<1>9. ASSUME NEW v \in vms, NEW w, vms' = Updated(v, w), w.id = v.id, w.run = v.run, w.paused = v.paused,
             UNCHANGED <<proc, main, crashes>>
      PROVE  FrozenInv'
  <2>1. \A u \in vms' : \E z \in vms : u.id = z.id /\ u.run = z.run /\ (u.paused => z.paused)
    BY <1>9 DEF Updated
  <2> QED BY <1>d, <1>9, <2>1, CalmFrozen
<1>10. ASSUME NEW v \in vms, VMExit(v) \/ Thaw(v) \/ GuestWrites(v) PROVE FrozenInv'
  <2>0. UNCHANGED <<proc, main, crashes>> BY <1>10 DEF VMExit, Thaw, GuestWrites, memVars, envVars
  <2>1. CASE VMExit(v) BY <1>d, <2>0, <2>1, CalmFrozen DEF VMExit
  <2>2. CASE Thaw(v)
    <3>1. PICK ip : vms' = Updated(v, [v EXCEPT !.ip = ip]) BY <2>2 DEF Thaw
    <3>2. PICK w : w = [v EXCEPT !.ip = ip] OBVIOUS
    <3>3. w.id = v.id /\ w.run = v.run /\ w.paused = v.paused BY <1>a, <3>2 DEF VM
    <3> QED BY <1>9, <2>0, <3>1, <3>2, <3>3
  <2>3. CASE GuestWrites(v)
    <3>1. PICK w : w = [v EXCEPT !.ver = @ + 1] OBVIOUS
    <3>2. w.id = v.id /\ w.run = v.run /\ w.paused = v.paused BY <1>a, <3>1 DEF VM
    <3>3. vms' = Updated(v, w) BY <2>3, <3>1 DEF GuestWrites
    <3> QED BY <1>9, <2>0, <3>2, <3>3
  <2> QED BY <1>10, <2>1, <2>2, <2>3
<1>11. CASE Stop
  <2>1. crashes' = crashes + 1 /\ main' # "serve" /\ vms' = {v \in vms : v.run # crashes} BY <1>11 DEF Stop
  <2>2. proc' = proc \/ proc' = [proc EXCEPT ![Main].ctx = "cancelled"] BY <1>11 DEF Stop
  <2>3. \A q \in Goroutines : proc'[q].pc = proc[q].pc BY <1>b, <2>2 DEF FramesOK, SnapFrame
  <2> QED BY <1>d, <2>1, <2>3, EndFrozen
<1>12. CASE Crash \/ Reboot
  <2>1. \A q \in Goroutines : proc'[q].pc \notin Snapshotting BY <1>12, <1>c DEF Crash, Reboot, ProcessGone
  <2>2. crashes' = crashes + 1 /\ main' = "down" /\ \A v \in vms' : v \in vms
    BY <1>12 DEF Crash, Reboot, ProcessGone, hostVars
  <2> QED BY <2>1, <2>2, EndFrozen DEF Ending
<1>13. CASE ReaperTick \/ Tick \/ UNCHANGED allVars \/ \E id \in Ids, timeout \in Timeouts : SetTimeout(id, timeout)
  BY <1>2, <1>13 DEF ReaperTick, Tick, SetTimeout, allVars, vars, memVars, envVars, hostVars
<1> QED BY <1>1, <1>3, <1>4, <1>5, <1>6, <1>7, <1>8, <1>10, <1>11, <1>12, <1>13
        DEF SnapNext, Next, Serve, Environment, GuestStep, Handles

\* Hence the invariant holds as long as no pause takes effect late.
LEMMA FrozenInvariant == "late_pause" \notin Faults => (SnapSpec => []FrozenInv)
<1> SUFFICES ASSUME "late_pause" \notin Faults PROVE SnapSpec => []FrozenInv OBVIOUS
<1>1. SnapInit => FrozenInv
  <2> SUFFICES ASSUME SnapInit PROVE FrozenInv OBVIOUS
  <2>1. vms = {} /\ \A p \in Goroutines : proc[p] = Idle BY DEF SnapInit, Init
  <2>2. Idle.pc \notin Snapshotting BY DEF Idle, Snapshotting
  <2> QED BY <2>1, <2>2 DEF FrozenInv, RunsRight, SnapshotsAsked, NotLeftFrozen
<1>2. SnapInv /\ FrozenInv /\ [SnapNext]_allVars => FrozenInv' BY HandlerFrozen, OtherFrozen
<1> QED BY <1>1, <1>2, SnapshotsInvariant, PTL DEF SnapSpec

\* "Resume on every exit path": the snapshot handler never leaves a VM of the
\* running server paused, whatever other calls, crashes, stops and failures of
\* commands come in between, provided that the pause of a client that hung up
\* has no late effect (the code returns on its error without a resume).
THEOREM SnapshotsNotLeftFrozen == ASSUME "late_pause" \notin Faults PROVE SnapSpec => []NotLeftFrozen
<1>1. FrozenInv => NotLeftFrozen BY DEF FrozenInv
<1> QED BY <1>1, FrozenInvariant, PTL
=============================================================================
